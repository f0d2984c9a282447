---------------------------- MODULE TunnelProofs ----------------------------
(***************************************************************************)
(* Theorems about the server, its sessions, and the server together with   *)
(* its clients, for every number of clients, peers and restarts, every     *)
(* window size, network and timeout.                                       *)
(*                                                                         *)
(* After some facts about the replay window, Part 1 is about the server    *)
(* alone: its types, its peer store, when peers are removed, and what      *)
(* stops it.  Part 2 is about the session keys: no nonce is used twice and *)
(* no client packet let through twice.  Part 3 puts server and clients on  *)
(* one network.                                                            *)
(***************************************************************************)
EXTENDS Tunnel, TLAPS

-----------------------------------------------------------------------------
(***************************************************************************)
(* Facts about ReplayWindow.Accept, for every window size                  *)
(***************************************************************************)

\* What Accept returns is again a window: no bit leaves the word.
LEMMA AcceptType ==
    ASSUME NEW w \in ReplayWindows, NEW s \in Nat
    PROVE  Accept(w, s) \in ReplayWindows
  <1> USE WindowSizeAssumption DEF ReplayWindows, Offsets
  <1>1. Advance(w, s) \in ReplayWindows
        \/ ~Accepts(w, s)
    BY DEF Advance, Accepts, Verdict, ShiftLeft
  <1>2. QED
    BY <1>1 DEF Accept

\* The zero value of the struct is a window.
LEMMA NewWindowType == NewWindow \in ReplayWindows
  BY WindowSizeAssumption DEF NewWindow, ReplayWindows, Offsets

\* Accept never moves the window back.
LEMMA AcceptForward ==
    ASSUME NEW w \in ReplayWindows, NEW s \in Nat
    PROVE  Accept(w, s).highest \in Nat /\ Accept(w, s).highest >= w.highest
  <1> USE WindowSizeAssumption DEF ReplayWindows
  <1>1. ASSUME Accepts(w, s)
        PROVE  Advance(w, s).highest \in Nat /\ Advance(w, s).highest >= w.highest
    BY <1>1 DEF Advance
  <1>2. QED
    BY <1>1 DEF Accept

\* A sequence that Accept has taken is not taken a second time.
LEMMA AcceptOnce ==
    ASSUME NEW w \in ReplayWindows, NEW s \in Nat, Accepts(w, s)
    PROVE  ~Accepts(Accept(w, s), s)
  <1> USE WindowSizeAssumption DEF ReplayWindows, Offsets
  <1>1. Accept(w, s).highest - s \in Accept(w, s).bitmap
    BY DEF Accept, Advance, ShiftLeft
  <1>2. QED
    BY <1>1 DEF Accepts, Verdict

(***************************************************************************)
(* What a window refuses it refuses for ever: whatever arrives in between, *)
(* a sequence that was a duplicate becomes too old but never acceptable.   *)
(***************************************************************************)
LEMMA RefusedForEver ==
    ASSUME NEW w \in ReplayWindows, NEW s \in Nat, NEW x \in Nat,
           ~Accepts(w, x)
    PROVE  ~Accepts(Accept(w, s), x)
  <1> USE WindowSizeAssumption DEF ReplayWindows, Offsets
  <1>1. CASE ~Accepts(w, s)
    BY <1>1 DEF Accept
  <1>2. CASE Accepts(w, s) /\ x = 0
    BY <1>2 DEF Accepts, Verdict
  <1>3. CASE Accepts(w, s) /\ x # 0 /\ w.highest - x >= WindowSize
    <2>1. Accept(w, s).highest - x >= WindowSize
      BY <1>3, AcceptForward
    <2>2. QED
      BY <2>1, <1>3 DEF Accepts, Verdict
  <1>4. CASE Accepts(w, s) /\ x # 0 /\ w.highest - x < WindowSize
    <2>1. w.highest - x \in w.bitmap
      BY <1>4 DEF Accepts, Verdict
    <2>2. x <= w.highest
      BY <2>1
    <2>3. CASE w.highest = 0 \/ s - w.highest >= WindowSize
      <3>1. Accept(w, s).highest = s /\ w.highest # 0
        BY <1>4, <2>2, <2>3 DEF Accept, Advance
      <3>2. s - x >= WindowSize
        BY <3>1, <2>2, <2>3
      <3>3. QED
        BY <3>1, <3>2, <1>4 DEF Accepts, Verdict
    <2>4. CASE w.highest # 0 /\ s - w.highest < WindowSize /\ s > w.highest
      <3>1. /\ Accept(w, s).highest = s
            /\ Accept(w, s).bitmap = ShiftLeft(w.bitmap, s - w.highest) \cup {0}
        BY <1>4, <2>4 DEF Accept, Advance
      <3>2. CASE s - x >= WindowSize
        BY <3>1, <3>2, <1>4 DEF Accepts, Verdict
      <3>3. CASE s - x < WindowSize
        <4>1. s - x \in Offsets /\ (s - x) - (s - w.highest) = w.highest - x
          BY <3>3, <2>2, <2>4
        <4>2. s - x \in Accept(w, s).bitmap
          BY <4>1, <3>1, <2>1 DEF ShiftLeft
        <4>3. QED
          BY <4>2, <3>1 DEF Accepts, Verdict
      <3>4. QED
        BY <3>2, <3>3
    <2>5. CASE w.highest # 0 /\ s <= w.highest
      <3>1. /\ Accept(w, s).highest = w.highest
            /\ w.bitmap \subseteq Accept(w, s).bitmap
        BY <1>4, <2>5 DEF Accept, Advance
      <3>2. QED
        BY <3>1, <2>1 DEF Accepts, Verdict
    <2>6. QED
      BY <2>3, <2>4, <2>5
  <1>5. QED
    BY <1>1, <1>2, <1>3, <1>4

-----------------------------------------------------------------------------
(***************************************************************************)
(* Part 1.  The server                                                     *)
(***************************************************************************)

\* The two ways in which a packet reaches udpToTun: an ALOHA, or a session
\* packet that somebody who can open a WELCOME has sealed.
LEMMA ArrivalTypes ==
    ASSUME NEW r \in ClientRandoms, NEW a \in Addrs
    PROVE  /\ EncodeAloha(r, a) \in Packet
           /\ EncodeAloha(r, a).random = r
           /\ EncodeAloha(r, a).addr = a
           /\ EncodeAloha(r, a).seq = 1
  BY DEF EncodeAloha, Seal, Header, AlohaKey, BuildNonce, NoBody, Packet, Keys

\* A peer key is never the nil cipher, and tells its peer and its randoms.
LEMMA PeerKeyFacts ==
    ASSUME NEW p \in PeerIDs, NEW r \in ClientRandoms, NEW n \in Nat
    PROVE  /\ PeerKey(p, r, n) \in PeerKeys
           /\ PeerKey(p, r, n) # NilCipher
           /\ PeerKey(p, r, n)[1] = p
           /\ PeerKey(p, r, n)[2] = r
           /\ PeerKey(p, r, n)[3] = n
  BY DEF PeerKey, PeerKeys, NilCipher

\* allocateTunnelIP stays inside the network.
LEMMA TunnelIPType ==
    ASSUME NEW p \in PeerIDs, ValidIPRange(p)
    PROVE  TunnelIPOf(p) \in TunnelIPs
  BY NetworkAssumption, BoundsAssumption
     DEF ValidIPRange, TunnelIPOf, TunnelIPs, PeerIDs

LEMMA FreePeerType == FreePeer \in Peer
  BY NewWindowType DEF FreePeer, NewPeer, Peer, NoIP

LEMMA ReadingTypes ==
    /\ UdpReading \in UdpState /\ UdpStopped \in UdpState
    /\ TunReading \in TunState /\ TunStopped \in TunState
    /\ UdpReading.pc = "read" /\ UdpStopped.pc = "stopped"
    /\ TunReading.pc = "read" /\ TunStopped.pc = "stopped"
  BY DEF UdpReading, UdpStopped, TunReading, TunStopped, UdpAt, TunAt,
         UdpState, TunState, NoRandom

-----------------------------------------------------------------------------
(***************************************************************************)
(* Type correctness                                                        *)
(***************************************************************************)
LEMMA InitType == Init => TypeOK
  <1> SUFFICES ASSUME Init PROVE TypeOK
    OBVIOUS
  <1> USE BoundsAssumption, TimeAssumption
  <1>1. peers \in [PeerIDs -> Peer]
    BY FreePeerType DEF Init
  <1>2. u \in UdpState /\ t \in TunState /\ u.pc = "read" /\ t.pc = "read"
    BY ReadingTypes DEF Init
  <1>3. QED
    BY <1>1, <1>2 DEF Init, SweepAt, TypeOK, Causes, AlohaPcs

LEMMA RegisterType ==
    ASSUME TypeOK, NEW r \in ClientRandoms, NEW a \in Addrs,
           Register(EncodeAloha(r, a))
    PROVE  TypeOK'
  <1> DEFINE m == EncodeAloha(r, a)
  <1>m. m \in Packet /\ m.random = r /\ m.addr = a
    BY ArrivalTypes
  <1> HIDE DEF m
  <1>r. Register(m)
    BY DEF m
  <1>1. CASE byClientRandom[m.random] # NoPeer
    BY <1>1, <1>r DEF Register, TypeOK, store, history
  <1>2. CASE byClientRandom[m.random] = NoPeer
    <2>1. nextID \in PeerIDs /\ nextID' \in 1 .. MaxPeers + 1
      BY <1>2, <1>r, BoundsAssumption DEF Register, TypeOK, PeerIDs
    <2>2. NewPeer(m.addr, m.random) \in Peer
      BY <1>m, NewWindowType DEF NewPeer, Peer, NoIP
    <2>3. peers' \in [PeerIDs -> Peer]
      BY <1>2, <1>r, <2>1, <2>2 DEF Register, TypeOK, NewID
    <2>4. u' = UdpAt("key", nextID, m)
      BY <1>2, <1>r DEF Register, NewID
    <2>5. /\ u' \in UdpState /\ u'.pc = "key" /\ u'.peer \in PeerIDs
          /\ u'.m \in Packet /\ u'.m.random \in ClientRandoms
      BY <2>4, <2>1, <1>m DEF UdpAt, UdpState, AlohaPcs, NoRandom
    <2>6. byID' \in SUBSET PeerIDs
      BY <1>2, <1>r, <2>1 DEF Register, NewID, TypeOK
    <2>7. byClientRandom' \in [ClientRandoms -> PeerIDs \cup {NoPeer}]
      BY <1>2, <1>r, <1>m, <2>1 DEF Register, NewID, TypeOK
    <2>8. UNCHANGED <<byTunnelIP, t, e, tick, cause, history>>
      BY <1>2, <1>r DEF Register
    <2>9. QED
      BY <2>1, <2>3, <2>5, <2>6, <2>7, <2>8 DEF TypeOK, history
  <1>3. QED
    BY <1>1, <1>2

LEMMA SetCipherType == TypeOK /\ SetCipher => TypeOK'
  <1> SUFFICES ASSUME TypeOK, SetCipher PROVE TypeOK'
    OBVIOUS
  <1>1. /\ u.peer \in PeerIDs /\ u.m \in Packet /\ u.m.random \in ClientRandoms
        /\ u.m.seq \in Nat /\ randoms' \in Nat
    BY DEF TypeOK, SetCipher, AlohaPcs, Packet
  <1>2. NewPeerCipher(randoms') \in PeerKeys
    BY <1>1, PeerKeyFacts DEF NewPeerCipher
  <1>3. Accept(peers[u.peer].window, u.m.seq) \in ReplayWindows
    BY <1>1, AcceptType DEF TypeOK, Peer
  <1>4. peers' \in [PeerIDs -> Peer]
    BY <1>1, <1>2, <1>3 DEF TypeOK, SetCipher, Peer
  <1>5. /\ u' \in UdpState /\ u'.pc = "route"
        /\ u'.peer = u.peer /\ u'.m = u.m
    BY <1>1 DEF TypeOK, SetCipher, UdpState, AlohaPcs
  <1>6. QED
    BY <1>1, <1>4, <1>5 DEF TypeOK, SetCipher, store

LEMMA SetTunnelIPType == TypeOK /\ SetTunnelIP => TypeOK'
  <1> SUFFICES ASSUME TypeOK, SetTunnelIP PROVE TypeOK'
    OBVIOUS
  <1>1. u.peer \in PeerIDs /\ u.m \in Packet /\ u.m.random \in ClientRandoms
    BY DEF TypeOK, SetTunnelIP, AlohaPcs
  <1>2. CASE Refusal = "none"
    <2>1. TunnelIPOf(u.peer) \in TunnelIPs
      BY <1>1, <1>2, TunnelIPType DEF Refusal
    <2>2. peers' \in [PeerIDs -> Peer]
      BY <1>1, <1>2, <2>1 DEF TypeOK, SetTunnelIP, Peer
    <2>3. byTunnelIP' \in [TunnelIPs -> PeerIDs \cup {NoPeer}]
      BY <1>1, <1>2, <2>1 DEF TypeOK, SetTunnelIP
    <2>4. u' \in UdpState /\ u'.pc = "number" /\ u'.peer = u.peer /\ u'.m = u.m
      BY <1>2 DEF TypeOK, SetTunnelIP, UdpState, AlohaPcs
    <2>5. QED
      BY <1>1, <1>2, <2>2, <2>3, <2>4 DEF TypeOK, SetTunnelIP, history
  <1>3. CASE Refusal # "none"
    <2>1. u' \in UdpState /\ u'.pc = "stopped"
      BY <1>3, ReadingTypes DEF SetTunnelIP
    <2>2. cause' \in Causes
      BY <1>3 DEF SetTunnelIP, Fail, Refusal, Causes, TypeOK
    <2>3. QED
      BY <1>3, <2>1, <2>2 DEF TypeOK, SetTunnelIP, history, AlohaPcs
  <1>4. QED
    BY <1>2, <1>3

LEMMA NumberWelcomeType == TypeOK /\ NumberWelcome => TypeOK'
  <1> SUFFICES ASSUME TypeOK, NumberWelcome PROVE TypeOK'
    OBVIOUS
  <1>1. u.peer \in PeerIDs /\ u.m \in Packet /\ u.m.random \in ClientRandoms
    BY DEF TypeOK, NumberWelcome, AlohaPcs
  <1>2. peers[u.peer].sendSeq + 1 \in Nat
    BY <1>1 DEF TypeOK, Peer
  <1>3. peers' \in [PeerIDs -> Peer]
    BY <1>1, <1>2 DEF TypeOK, NumberWelcome, Peer
  <1>4. u' \in UdpState /\ u'.pc = "welcome" /\ u'.peer = u.peer /\ u'.m = u.m
    BY <1>2 DEF TypeOK, NumberWelcome, UdpState, AlohaPcs
  <1>5. QED
    BY <1>1, <1>3, <1>4 DEF TypeOK, NumberWelcome, store, history

LEMMA WelcomeType ==
    ASSUME TypeOK, u.pc = "welcome"
    PROVE  Welcome \in Packet
  <1>1. /\ u.peer \in Nat /\ u.m.random \in ClientRandoms
        /\ u.m.addr \in Addrs \cup {NoAddr} /\ u.seq \in Nat /\ u.random \in Nat
    BY BoundsAssumption DEF TypeOK, AlohaPcs, Packet, PeerIDs, UdpState
  <1>2. QED
    BY <1>1 DEF Welcome, EncodeWelcome, Seal, Header, WelcomeKey, BuildNonce,
                TunnelIPOf, Packet, Keys

LEMMA SendWelcomeType == TypeOK /\ SendWelcome => TypeOK'
  <1> SUFFICES ASSUME TypeOK, SendWelcome PROVE TypeOK'
    OBVIOUS
  <1>1. net' \in SUBSET Packet
    BY WelcomeType DEF TypeOK, SendWelcome
  <1>2. u' \in UdpState /\ u'.pc \in {"read", "stopped"}
    BY ReadingTypes DEF SendWelcome
  <1>3. cause' \in Causes
    BY DEF SendWelcome, IOEnds, Fail, TypeOK, Causes
  <1>4. QED
    BY <1>1, <1>2, <1>3 DEF TypeOK, SendWelcome, store, AlohaPcs

(***************************************************************************)
(* A session packet of the environment, all but its key.                   *)
(***************************************************************************)
SessionPacket(m) ==
    /\ m = [type |-> m.type, id |-> m.id, seq |-> m.seq, random |-> m.random,
            key |-> m.key, nonce |-> m.nonce, body |-> m.body, addr |-> m.addr]
    /\ m.type \in {"DATA", "KEEPALIVE"}
    /\ m.id \in Nat /\ m.seq \in Nat /\ m.random \in Nat /\ m.body \in Nat
    /\ m.nonce \in {"c2s", "s2c"} \X Nat
    /\ m.addr \in Addrs

LEMMA SessionPacketArrival ==
    ASSUME TypeOK, SessionPacketArrives
    PROVE  \E m : SessionPacket(m) /\ ReadPacket(m)
  <1>1. PICK w \in net, r \in ClientRandoms, p \in Payloads,
             s \in ClientSequences, a \in Addrs :
             ReadPacket(EncodePacket(PeerKey(w.id, r, w.random), "c2s",
                                     Header(p[1], w.id, s), p[2], a))
    BY DEF SessionPacketArrives
  <1> DEFINE m == EncodePacket(PeerKey(w.id, r, w.random), "c2s",
                               Header(p[1], w.id, s), p[2], a)
  <1>2. w.id \in Nat /\ s \in Nat
    BY BoundsAssumption DEF TypeOK, Packet
  <1>3. p[1] \in {"DATA", "KEEPALIVE"} /\ p[2] \in Nat
    BY DEF Payloads, NoBody
  <1>4. SessionPacket(m)
    BY <1>2, <1>3 DEF SessionPacket, EncodePacket, Seal, Header, BuildNonce, NoRandom
  <1>5. QED
    BY <1>1, <1>4

\* A packet that udpToTun opened is a packet, and its key is its peer's.
LEMMA OpenedType ==
    ASSUME TypeOK, NEW m, SessionPacket(m), m.id \in byID,
           DecodesPacket(m, peers[m.id].cipher, "c2s")
    PROVE  m \in Packet /\ m.id \in PeerIDs
  <1>1. m.id \in PeerIDs
    BY DEF TypeOK
  <1>2. m.key \in PeerKeys
    BY <1>1 DEF DecodesPacket, Opens, TypeOK, Peer
  <1>3. QED
    BY <1>1, <1>2 DEF SessionPacket, Packet, Keys

LEMMA ReadPacketType ==
    ASSUME TypeOK, NEW m, SessionPacket(m) \/ m \in Packet, ReadPacket(m)
    PROVE  TypeOK'
  <1>1. CASE u' = u
    BY <1>1 DEF ReadPacket, TypeOK, store, history
  <1>2. CASE u' # u
    <2>1. /\ u' = UdpAt("handle", m.id, m) /\ m.id \in byID
          /\ DecodesPacket(m, peers[m.id].cipher, "c2s")
      BY <1>2 DEF ReadPacket
    <2>2. m \in Packet /\ m.id \in PeerIDs
      BY <2>1, OpenedType DEF TypeOK
    <2>3. /\ u' \in UdpState /\ u'.pc = "handle" /\ u'.peer \in PeerIDs
          /\ u'.m \in Packet
      BY <2>1, <2>2 DEF UdpAt, UdpState, SessionPcs, NoRandom
    <2>4. QED
      BY <2>3 DEF ReadPacket, TypeOK, store, history, AlohaPcs
  <1>3. QED
    BY <1>1, <1>2

LEMMA HandlePacketType == TypeOK /\ HandlePacket => TypeOK'
  <1> SUFFICES ASSUME TypeOK, HandlePacket PROVE TypeOK'
    OBVIOUS
  <1>1. u.peer \in PeerIDs /\ u.m \in Packet /\ u.m.seq \in Nat
    BY DEF TypeOK, HandlePacket, Packet
  <1>2. Accept(peers[u.peer].window, u.m.seq) \in ReplayWindows
    BY <1>1, AcceptType DEF TypeOK, Peer
  <1>a. [peers[u.peer] EXCEPT !.window = Accept(@, u.m.seq)] \in Peer
    BY <1>1, <1>2 DEF TypeOK, Peer
  <1>b. \/ UNCHANGED peers
        \/ peers' = [peers EXCEPT ![u.peer].window = Accept(@, u.m.seq)]
    BY DEF HandlePacket
  <1>3. peers' \in [PeerIDs -> Peer]
    BY <1>1, <1>a, <1>b DEF TypeOK
  <1>4. /\ u' \in UdpState
        /\ u'.pc = "read" \/ (u'.pc \in SessionPcs /\ u'.peer = u.peer /\ u'.m = u.m)
    BY ReadingTypes DEF TypeOK, HandlePacket, UdpState, SessionPcs
  <1>5. QED
    BY <1>1, <1>3, <1>4 DEF TypeOK, HandlePacket, store, history, AlohaPcs, SessionPcs

LEMMA DeliverType == TypeOK /\ Deliver => TypeOK'
  <1> SUFFICES ASSUME TypeOK, Deliver PROVE TypeOK'
    OBVIOUS
  <1>1. /\ u.peer \in PeerIDs /\ u.m \in Packet
        /\ [key |-> u.m.key, seq |-> u.m.seq] \in [key : Keys, seq : Nat]
    BY DEF TypeOK, Deliver, Packet
  <1>2. /\ u' \in UdpState
        /\ u'.pc = "stopped" \/ (u'.pc = "touch" /\ u'.peer = u.peer /\ u'.m = u.m)
    BY ReadingTypes DEF TypeOK, Deliver, UdpState, SessionPcs
  <1>3. cause' \in Causes
    BY DEF Deliver, IOError, Fail, TypeOK, Causes
  <1>4. QED
    BY <1>1, <1>2, <1>3 DEF TypeOK, Deliver, store, AlohaPcs

LEMMA TouchType == TypeOK /\ Touch => TypeOK'
  <1> SUFFICES ASSUME TypeOK, Touch PROVE TypeOK'
    OBVIOUS
  <1>1. peers' \in [PeerIDs -> Peer]
    BY DEF TypeOK, Touch, Peer
  <1>2. u' \in UdpState /\ u'.pc = "read"
    BY ReadingTypes DEF Touch
  <1>3. QED
    BY <1>1, <1>2 DEF TypeOK, Touch, store, history, AlohaPcs

LEMMA ReadUdpFailsType == TypeOK /\ ReadUdpFails => TypeOK'
  <1> SUFFICES ASSUME TypeOK, ReadUdpFails PROVE TypeOK'
    OBVIOUS
  <1>1. u' \in UdpState /\ u'.pc = "stopped"
    BY ReadingTypes DEF ReadUdpFails
  <1>2. cause' \in Causes
    BY DEF ReadUdpFails, IOEnds, Fail, TypeOK, Causes
  <1>3. QED
    BY <1>1, <1>2 DEF TypeOK, ReadUdpFails, store, history, AlohaPcs

LEMMA TunToUdpType == TypeOK /\ TunToUdp => TypeOK'
  <1> SUFFICES ASSUME TypeOK, TunToUdp PROVE TypeOK'
    OBVIOUS
  <1>1. ASSUME NEW dst \in TunnelIPs, ReadTun(dst) PROVE TypeOK'
    <2>1. byTunnelIP[dst] \in PeerIDs
      BY <1>1 DEF ReadTun, TypeOK
    <2>2. t' \in TunState /\ t'.peer \in PeerIDs
      BY <1>1, <2>1 DEF ReadTun, TunAt, TunState
    <2>3. QED
      BY <1>1, <2>2 DEF ReadTun, TypeOK, store, history
  <1>2. CASE ReadTunFails
    <2>1. t' \in TunState /\ t'.pc = "stopped"
      BY <1>2, ReadingTypes DEF ReadTunFails
    <2>2. cause' \in Causes
      BY <1>2 DEF ReadTunFails, IOEnds, Fail, TypeOK, Causes
    <2>3. QED
      BY <1>2, <2>1, <2>2 DEF ReadTunFails, TypeOK, store, history
  <1>3. CASE NumberData
    <2>1. t.peer \in PeerIDs /\ peers[t.peer].sendSeq + 1 \in Nat
      BY <1>3 DEF TypeOK, NumberData, Peer
    <2>2. peers' \in [PeerIDs -> Peer]
      BY <1>3, <2>1 DEF TypeOK, NumberData, Peer
    <2>3. t' \in TunState /\ t'.peer = t.peer
      BY <1>3, <2>1 DEF TypeOK, NumberData, TunState
    <2>4. QED
      BY <1>3, <2>1, <2>2, <2>3 DEF NumberData, TypeOK, store, history
  <1>4. CASE SendData
    <2>1. /\ t.peer \in PeerIDs /\ t.peer \in Nat /\ t.seq \in Nat /\ t.dst \in Nat
          /\ peers[t.peer].addr \in Addrs \cup {NoAddr}
          /\ peers[t.peer].cipher \in PeerKeys \cup {NilCipher}
      BY <1>4, NetworkAssumption, BoundsAssumption
         DEF SendData, TypeOK, Peer, TunState, TunnelIPs, NoIP, PeerIDs
    <2>2. ASSUME peers[t.peer].cipher # NilCipher PROVE Data \in Packet
      BY <2>1, <2>2 DEF Data, EncodePacket, Seal, Header, BuildNonce, NoRandom,
                        Packet, Keys
    <2>3. net' \in SUBSET Packet
      BY <1>4, <2>2 DEF SendData, TypeOK
    <2>4. t' \in TunState /\ t'.pc \in {"read", "stopped"}
      BY <1>4, ReadingTypes DEF SendData
    <2>5. cause' \in Causes
      BY <1>4 DEF SendData, IOEnds, Fail, TypeOK, Causes
    <2>6. QED
      BY <1>4, <2>3, <2>4, <2>5 DEF SendData, TypeOK, store
  <1>5. QED
    BY <1>1, <1>2, <1>3, <1>4 DEF TunToUdp

LEMMA ExpirePeersLoopType == TypeOK /\ ExpirePeersLoop => TypeOK'
  <1> SUFFICES ASSUME TypeOK, ExpirePeersLoop PROVE TypeOK'
    OBVIOUS
  <1>1. CASE TickerFires \/ ReadNow \/ ExpiryEnds
    BY <1>1, TimeAssumption
       DEF TickerFires, ReadNow, ExpiryEnds, SweepAt, TypeOK, store, history
  <1>2. CASE DeleteExpired
    <2>1. byID' \in SUBSET PeerIDs
      BY <1>2 DEF DeleteExpired, TypeOK
    <2>2. byTunnelIP' \in [TunnelIPs -> PeerIDs \cup {NoPeer}]
      BY <1>2 DEF DeleteExpired, TypeOK
    <2>3. byClientRandom' \in [ClientRandoms -> PeerIDs \cup {NoPeer}]
      BY <1>2 DEF DeleteExpired, TypeOK
    <2>4. QED
      BY <1>2, <2>1, <2>2, <2>3 DEF DeleteExpired, SweepAt, TypeOK, history
  <1>3. QED
    BY <1>1, <1>2 DEF ExpirePeersLoop

LEMMA TickType == TypeOK /\ Tick => TypeOK'
  <1> SUFFICES ASSUME TypeOK, Tick PROVE TypeOK'
    OBVIOUS
  <1>1. \A p \in PeerIDs : peers[p].idle + 1 \in Nat
    BY DEF TypeOK, Peer
  <1>2. peers' \in [PeerIDs -> Peer]
    BY <1>1 DEF Tick, TypeOK, Peer
  <1>3. tick' \in 0 .. CleanupInterval
    BY TimeAssumption DEF Tick, TypeOK
  <1>4. e' \in [pc : {"wait", "fired", "sweep", "stopped"}, age : Nat]
    BY DEF Tick, TypeOK
  <1>5. QED
    BY <1>2, <1>3, <1>4 DEF Tick, TypeOK, store, history

LEMMA RestartType == TypeOK /\ Restart => TypeOK'
  <1> SUFFICES ASSUME TypeOK, Restart PROVE TypeOK'
    OBVIOUS
  <1>1. peers' \in [PeerIDs -> Peer]
    BY FreePeerType DEF Restart, Start
  <1>2. u' \in UdpState /\ t' \in TunState /\ u'.pc = "read" /\ t'.pc = "read"
    BY ReadingTypes DEF Restart, Start
  <1>3. restarts' \in 0 .. MaxRestarts
    BY BoundsAssumption DEF Restart, TypeOK
  <1>4. /\ byID' \in SUBSET PeerIDs
        /\ byTunnelIP' \in [TunnelIPs -> PeerIDs \cup {NoPeer}]
        /\ byClientRandom' \in [ClientRandoms -> PeerIDs \cup {NoPeer}]
        /\ nextID' \in 1 .. MaxPeers + 1
        /\ e' \in [pc : {"wait", "fired", "sweep", "stopped"}, age : Nat]
        /\ tick' \in 0 .. CleanupInterval
        /\ cause' \in Causes
    BY BoundsAssumption, TimeAssumption DEF Restart, Start, SweepAt, Causes
  <1>5. QED
    BY <1>1, <1>2, <1>3, <1>4 DEF Restart, TypeOK, AlohaPcs

\* What the server does by itself, whoever its clients are.
LEMMA ServerStepType == TypeOK /\ ServerStep => TypeOK'
  <1> SUFFICES ASSUME TypeOK, ServerStep PROVE TypeOK'
    OBVIOUS
  <1>1. CASE Terminated
    BY <1>1 DEF Terminated, vars, store, history, TypeOK
  <1>2. CASE UdpToTun
    BY <1>2, SetCipherType, SetTunnelIPType, NumberWelcomeType, SendWelcomeType,
       HandlePacketType, DeliverType, TouchType, ReadUdpFailsType DEF UdpToTun
  <1>3. CASE TunToUdp \/ ExpirePeersLoop \/ Tick \/ Restart
    BY <1>3, TunToUdpType, ExpirePeersLoopType, TickType, RestartType
  <1>4. QED
    BY <1>1, <1>2, <1>3 DEF ServerStep

LEMMA NextType == TypeOK /\ [Next]_vars => TypeOK'
  <1> SUFFICES ASSUME TypeOK, [Next]_vars PROVE TypeOK'
    OBVIOUS
  <1>1. CASE UNCHANGED vars
    BY <1>1 DEF vars, store, history, TypeOK
  <1>2. CASE AlohaArrives
    BY <1>2, RegisterType DEF AlohaArrives
  <1>3. CASE SessionPacketArrives
    BY <1>3, SessionPacketArrival, ReadPacketType
  <1>4. QED
    BY <1>1, <1>2, <1>3, ServerStepType DEF Next

\* Every reachable state of the server is well typed; in particular the
\* packets it sends are packets, whatever it held when it sealed them.
THEOREM ServerTyping == Spec => []TypeOK
  BY InitType, NextType, PTL DEF Spec

-----------------------------------------------------------------------------
(***************************************************************************)
(* The peer store under its three goroutines: its maps agree, and an       *)
(* address leads to a peer only when that peer has its cipher.             *)
(*                                                                         *)
(* Neither follows from itself.  A step of udpToTun writes to the *peer    *)
(* that its handler took from the store some steps ago, when the others    *)
(* have run meanwhile; what makes it safe is what the handler knows of     *)
(* that peer, which HandlerInv states.                                     *)
(***************************************************************************)
HandlerInv ==
    /\ u.pc \in AlohaPcs \cup SessionPcs => u.peer < nextID
    /\ u.pc \in {"key", "route"} => peers[u.peer].tunnelIP = NoIP
    /\ u.pc \in {"route", "number", "welcome"} => peers[u.peer].cipher # NilCipher
    /\ t.pc \in {"number", "send"} => t.peer < nextID

StoreInv == TypeOK /\ StoreConsistent /\ KeyedBeforeRouted /\ HandlerInv

-----------------------------------------------------------------------------
(***************************************************************************)
(* Steps that neither write to the store nor to the fields it indexes.     *)
(***************************************************************************)
Quiet ==
    /\ UNCHANGED store
    /\ \A p \in PeerIDs :
        /\ peers'[p].clientRandom = peers[p].clientRandom
        /\ peers'[p].tunnelIP = peers[p].tunnelIP
        /\ peers[p].cipher # NilCipher => peers'[p].cipher # NilCipher

\* The goroutine tunToUdp still holds the peer it held, or none.
TunKept ==
    t'.pc \in {"number", "send"} => t.pc \in {"number", "send"} /\ t'.peer = t.peer

LEMMA QuietStore ==
    ASSUME TypeOK, StoreConsistent, Quiet
    PROVE  StoreConsistent'
  BY DEF TypeOK, StoreConsistent, Quiet, store

LEMMA QuietKeyed ==
    ASSUME TypeOK, KeyedBeforeRouted, Quiet, TunKept
    PROVE  KeyedBeforeRouted'
  BY DEF TypeOK, KeyedBeforeRouted, Quiet, TunKept, store

\* A step that is quiet and keeps both goroutines' peers keeps the rest.
LEMMA QuietInv ==
    ASSUME StoreInv, TypeOK', Quiet, TunKept,
           \/ u'.pc \in {"read", "stopped"}
           \/ u'.pc = u.pc /\ u'.peer = u.peer
           \/ u'.pc \in SessionPcs /\ u.pc \in SessionPcs /\ u'.peer = u.peer
    PROVE  StoreInv'
  <1>1. StoreConsistent' /\ KeyedBeforeRouted'
    BY QuietStore, QuietKeyed DEF StoreInv
  <1>2. (u.pc \in AlohaPcs \cup SessionPcs => u.peer \in PeerIDs)
    BY DEF StoreInv, TypeOK, AlohaPcs, SessionPcs
  <1>3. HandlerInv'
    BY <1>2 DEF StoreInv, HandlerInv, Quiet, TunKept, store, AlohaPcs, SessionPcs
  <1>4. QED
    BY <1>1, <1>3 DEF StoreInv

-----------------------------------------------------------------------------
LEMMA RegisterStore ==
    ASSUME StoreInv, TypeOK', NEW r \in ClientRandoms, NEW a \in Addrs,
           Register(EncodeAloha(r, a))
    PROVE  StoreInv'
  <1> DEFINE m == EncodeAloha(r, a)
  <1>m. m.random = r /\ Register(m)
    BY ArrivalTypes
  <1> HIDE DEF m
  <1>1. CASE byClientRandom[r] # NoPeer
    <2>1. UNCHANGED vars
      BY <1>1, <1>m DEF Register, vars
    <2>2. QED
      BY <2>1 DEF StoreInv, TypeOK, StoreConsistent, KeyedBeforeRouted, HandlerInv,
                  vars, store
  <1>2. CASE byClientRandom[r] = NoPeer
    <2>1. /\ nextID \in PeerIDs /\ nextID' = nextID + 1
          /\ byID' = byID \cup {nextID}
          /\ byClientRandom' = [byClientRandom EXCEPT ![r] = nextID]
          /\ peers' = [peers EXCEPT ![nextID] = NewPeer(m.addr, r)]
          /\ u' = UdpAt("key", nextID, m)
          /\ UNCHANGED <<byTunnelIP, t>>
      BY <1>2, <1>m, BoundsAssumption DEF Register, NewID, StoreInv, TypeOK, PeerIDs
    <2>2. nextID \notin byID /\ nextID # NoPeer
      BY <2>1, BoundsAssumption DEF StoreInv, StoreConsistent, TypeOK, PeerIDs, NoPeer
    <2>3. /\ peers'[nextID].clientRandom = r /\ peers'[nextID].tunnelIP = NoIP
          /\ \A p \in PeerIDs \ {nextID} : peers'[p] = peers[p]
      BY <2>1 DEF StoreInv, TypeOK, NewPeer
    <2>4. StoreConsistent'
      <3>1. ASSUME NEW p \in byID' 
            PROVE  /\ p < nextID' /\ peers'[p].clientRandom \in ClientRandoms
                   /\ byClientRandom'[peers'[p].clientRandom] = p
                   /\ peers'[p].tunnelIP # NoIP => byTunnelIP'[peers'[p].tunnelIP] = p
        <4>1. CASE p = nextID
          BY <4>1, <2>1, <2>3 DEF StoreInv, TypeOK
        <4>2. CASE p \in byID
          <5>0. p \in PeerIDs /\ p < nextID
            BY <4>2 DEF StoreInv, StoreConsistent, TypeOK
          <5>1. p # nextID /\ p # NoPeer
            BY <4>2, <5>0, <2>2 DEF PeerIDs, NoPeer
          <5>2. /\ peers[p].clientRandom \in ClientRandoms
                /\ byClientRandom[peers[p].clientRandom] = p
                /\ peers[p].tunnelIP # NoIP => byTunnelIP[peers[p].tunnelIP] = p
            BY <4>2 DEF StoreInv, StoreConsistent
          <5>3. peers'[p] = peers[p] /\ p < nextID'
            BY <5>0, <5>1, <2>1, <2>3, BoundsAssumption DEF PeerIDs
          <5>4. byClientRandom'[peers[p].clientRandom] = p
            BY <1>2, <5>1, <5>2, <2>1 DEF StoreInv, TypeOK
          <5>5. QED
            BY <5>2, <5>3, <5>4, <2>1
        <4>3. QED
          BY <3>1, <4>1, <4>2, <2>1
      <3>2. ASSUME NEW q \in ClientRandoms, byClientRandom'[q] # NoPeer
            PROVE  /\ byClientRandom'[q] \in byID'
                   /\ peers'[byClientRandom'[q]].clientRandom = q
        <4>1. CASE q = r
          BY <4>1, <2>1, <2>3 DEF StoreInv, TypeOK
        <4>2. CASE q # r
          BY <3>2, <4>2, <2>1, <2>2, <2>3 DEF StoreInv, TypeOK, StoreConsistent
        <4>3. QED
          BY <4>1, <4>2
      <3>3. ASSUME NEW ip \in TunnelIPs, byTunnelIP'[ip] # NoPeer
            PROVE  /\ byTunnelIP'[ip] \in byID'
                   /\ peers'[byTunnelIP'[ip]].tunnelIP = ip
        BY <3>3, <2>1, <2>2, <2>3 DEF StoreInv, TypeOK, StoreConsistent
      <3>4. QED
        BY <3>1, <3>2, <3>3 DEF StoreConsistent
    <2>5. KeyedBeforeRouted'
      <3>1. ASSUME NEW ip \in TunnelIPs, byTunnelIP'[ip] # NoPeer
            PROVE  peers'[byTunnelIP'[ip]].cipher # NilCipher
        BY <3>1, <2>1, <2>2, <2>3
           DEF StoreInv, TypeOK, StoreConsistent, KeyedBeforeRouted
      <3>2. ASSUME t'.pc \in {"number", "send"}
            PROVE  peers'[t'.peer].cipher # NilCipher
        <4>1. t.peer \in PeerIDs /\ t.peer # nextID
          BY <3>2, <2>1, BoundsAssumption DEF StoreInv, TypeOK, HandlerInv, PeerIDs
        <4>2. QED
          BY <3>2, <4>1, <2>1, <2>3 DEF StoreInv, KeyedBeforeRouted
      <3>3. QED
        BY <3>1, <3>2 DEF KeyedBeforeRouted
    <2>6. HandlerInv'
      <3>1. u'.pc = "key" /\ u'.peer = nextID
        BY <2>1 DEF UdpAt
      <3>2. t'.pc \in {"number", "send"} => t'.peer < nextID'
        BY <2>1, BoundsAssumption DEF StoreInv, HandlerInv, TypeOK, PeerIDs
      <3>3. QED
        BY <3>1, <3>2, <2>1, <2>3, BoundsAssumption
           DEF HandlerInv, AlohaPcs, SessionPcs, PeerIDs
    <2>7. QED
      BY <2>4, <2>5, <2>6 DEF StoreInv
  <1>3. QED
    BY <1>1, <1>2

\* acceptClientSequence, a server random and setCipher.
LEMMA SetCipherStore == StoreInv /\ TypeOK' /\ SetCipher => StoreInv'
  <1> SUFFICES ASSUME StoreInv, TypeOK', SetCipher PROVE StoreInv'
    OBVIOUS
  <1>1. /\ u.peer \in PeerIDs /\ u.m.random \in ClientRandoms /\ randoms' \in Nat
    BY DEF StoreInv, TypeOK, SetCipher, AlohaPcs
  <1>2. NewPeerCipher(randoms') # NilCipher
    BY <1>1, PeerKeyFacts DEF NewPeerCipher
  <1>3. /\ peers'[u.peer].clientRandom = peers[u.peer].clientRandom
        /\ peers'[u.peer].tunnelIP = peers[u.peer].tunnelIP
        /\ peers'[u.peer].cipher = NewPeerCipher(randoms')
        /\ \A p \in PeerIDs \ {u.peer} : peers'[p] = peers[p]
    BY <1>1 DEF StoreInv, TypeOK, SetCipher, Peer
  <1>4. Quiet /\ TunKept
    BY <1>2, <1>3 DEF Quiet, TunKept, SetCipher
  <1>5. u'.pc = "route" /\ u'.peer = u.peer /\ UNCHANGED <<nextID, t>>
    BY DEF SetCipher, StoreInv, TypeOK, UdpState, store
  <1>6. HandlerInv'
    BY <1>2, <1>3, <1>5 DEF StoreInv, HandlerInv, SetCipher, AlohaPcs, SessionPcs
  <1>7. QED
    BY <1>4, <1>6, QuietStore, QuietKeyed DEF StoreInv

\* allocateTunnelIP and setTunnelIP.
LEMMA SetTunnelIPStore == StoreInv /\ TypeOK' /\ SetTunnelIP => StoreInv'
  <1> SUFFICES ASSUME StoreInv, TypeOK', SetTunnelIP PROVE StoreInv'
    OBVIOUS
  <1>1. u.peer \in PeerIDs /\ u.peer # NoPeer
    BY DEF StoreInv, TypeOK, SetTunnelIP, AlohaPcs, PeerIDs, NoPeer
  <1>2. CASE Refusal = "none"
    <2> DEFINE ip == TunnelIPOf(u.peer)
    <2>1. ip \in TunnelIPs /\ u.peer \in byID /\ byTunnelIP[ip] = NoPeer
      BY <1>1, <1>2, TunnelIPType DEF Refusal
    <2> HIDE DEF ip
    <2>2. /\ peers' = [peers EXCEPT ![u.peer].tunnelIP = ip]
          /\ byTunnelIP' = [byTunnelIP EXCEPT ![ip] = u.peer]
          /\ u' = [u EXCEPT !.pc = "number"]
          /\ UNCHANGED <<byID, byClientRandom, nextID, t>>
      BY <1>2 DEF SetTunnelIP, ip
    <2>3. /\ peers'[u.peer].tunnelIP = ip
          /\ peers'[u.peer].clientRandom = peers[u.peer].clientRandom
          /\ peers'[u.peer].cipher = peers[u.peer].cipher
          /\ \A p \in PeerIDs \ {u.peer} : peers'[p] = peers[p]
      BY <1>1, <2>2 DEF StoreInv, TypeOK, Peer
    <2>4. peers[u.peer].tunnelIP = NoIP /\ peers[u.peer].cipher # NilCipher
      BY DEF StoreInv, HandlerInv, SetTunnelIP
    <2>5. /\ byTunnelIP'[ip] = u.peer
          /\ \A j \in TunnelIPs \ {ip} : byTunnelIP'[j] = byTunnelIP[j]
      BY <2>1, <2>2 DEF StoreInv, TypeOK
    <2>6. \A j \in TunnelIPs : byTunnelIP[j] # u.peer
      BY <1>1, <2>4 DEF StoreInv, StoreConsistent, TunnelIPs, NoIP
    <2>7. ASSUME NEW p \in byID'
          PROVE  /\ p < nextID' /\ peers'[p].clientRandom \in ClientRandoms
                 /\ byClientRandom'[peers'[p].clientRandom] = p
                 /\ peers'[p].tunnelIP # NoIP => byTunnelIP'[peers'[p].tunnelIP] = p
      <3>1. CASE p = u.peer
        BY <3>1, <2>1, <2>2, <2>3, <2>5 DEF StoreInv, StoreConsistent
      <3>2. CASE p # u.peer
        <4>1. p \in byID /\ p \in PeerIDs /\ p # NoPeer /\ peers'[p] = peers[p]
          BY <3>2, <2>2, <2>3 DEF StoreInv, TypeOK, PeerIDs, NoPeer
        <4>2. ASSUME peers[p].tunnelIP # NoIP
              PROVE  byTunnelIP'[peers[p].tunnelIP] = p
          <5>1. peers[p].tunnelIP \in TunnelIPs /\ byTunnelIP[peers[p].tunnelIP] = p
            BY <4>1, <4>2 DEF StoreInv, StoreConsistent, TypeOK, Peer
          <5>2. QED
            BY <5>1, <4>1, <2>1, <2>5
        <4>3. QED
          BY <4>1, <4>2, <2>2 DEF StoreInv, StoreConsistent
      <3>3. QED
        BY <3>1, <3>2
    <2>8. ASSUME NEW r \in ClientRandoms, byClientRandom'[r] # NoPeer
          PROVE  /\ byClientRandom'[r] \in byID'
                 /\ peers'[byClientRandom'[r]].clientRandom = r
      BY <2>8, <2>2, <2>3 DEF StoreInv, StoreConsistent, TypeOK
    <2>9. ASSUME NEW j \in TunnelIPs, byTunnelIP'[j] # NoPeer
          PROVE  /\ byTunnelIP'[j] \in byID'
                 /\ peers'[byTunnelIP'[j]].tunnelIP = j
                 /\ peers'[byTunnelIP'[j]].cipher # NilCipher
      <3>1. CASE j = ip
        BY <3>1, <2>1, <2>2, <2>3, <2>4, <2>5
      <3>2. CASE j # ip
        <4>1. byTunnelIP'[j] = byTunnelIP[j] /\ byTunnelIP[j] \in PeerIDs \ {u.peer}
          BY <3>2, <2>9, <2>5, <2>6 DEF StoreInv, TypeOK
        <4>2. QED
          BY <4>1, <2>9, <2>2, <2>3
             DEF StoreInv, StoreConsistent, KeyedBeforeRouted
      <3>3. QED
        BY <3>1, <3>2
    <2>10. StoreConsistent'
      BY <2>7, <2>8, <2>9 DEF StoreConsistent
    <2>11. t'.pc \in {"number", "send"} =>
             peers'[t'.peer].cipher # NilCipher /\ t'.peer < nextID'
      BY <2>2, <2>3 DEF StoreInv, TypeOK, KeyedBeforeRouted, HandlerInv
    <2>12. u'.pc = "number" /\ u'.peer = u.peer /\ u.peer < nextID
      BY <2>2 DEF StoreInv, TypeOK, UdpState, HandlerInv, SetTunnelIP, AlohaPcs
    <2>13. QED
      BY <2>2, <2>3, <2>4, <2>9, <2>10, <2>11, <2>12
         DEF StoreInv, KeyedBeforeRouted, HandlerInv, AlohaPcs, SessionPcs
  <1>3. CASE Refusal # "none"
    <2>1. Quiet /\ TunKept
      BY <1>3 DEF SetTunnelIP, Quiet, TunKept, store
    <2>2. u'.pc = "stopped"
      BY <1>3, ReadingTypes DEF SetTunnelIP
    <2>3. QED
      BY <2>1, <2>2, QuietInv
  <1>4. QED
    BY <1>2, <1>3

\* The steps of udpToTun that only move its own peer's counters.
LEMMA UdpQuietStore ==
    ASSUME StoreInv, TypeOK',
           \/ NumberWelcome \/ SendWelcome \/ HandlePacket \/ Deliver \/ Touch
           \/ ReadUdpFails
    PROVE  StoreInv'
  <1>1. CASE NumberWelcome
    <2>1. u.peer \in PeerIDs
      BY <1>1 DEF NumberWelcome, StoreInv, TypeOK, AlohaPcs
    <2>2. Quiet /\ TunKept
      BY <1>1, <2>1 DEF NumberWelcome, StoreInv, TypeOK, Peer, Quiet, TunKept
    <2>3. u'.pc = "welcome" /\ u'.peer = u.peer /\ UNCHANGED <<nextID, t>>
      BY <1>1 DEF NumberWelcome, StoreInv, TypeOK, UdpState, store
    <2>4. HandlerInv'
      BY <1>1, <2>1, <2>2, <2>3
         DEF NumberWelcome, StoreInv, HandlerInv, Quiet, AlohaPcs, SessionPcs
    <2>5. QED
      BY <2>2, <2>4, QuietStore, QuietKeyed DEF StoreInv
  <1>2. CASE SendWelcome \/ ReadUdpFails
    <2>1. Quiet /\ TunKept /\ u'.pc \in {"read", "stopped"}
      BY <1>2, ReadingTypes DEF SendWelcome, ReadUdpFails, Quiet, TunKept
    <2>2. QED
      BY <2>1, QuietInv
  <1>3. CASE HandlePacket
    <2>1. u.peer \in PeerIDs
      BY <1>3 DEF HandlePacket, StoreInv, TypeOK
    <2>2. \/ UNCHANGED peers
          \/ peers' = [peers EXCEPT ![u.peer].window = Accept(@, u.m.seq)]
      BY <1>3 DEF HandlePacket
    <2>3. Quiet /\ TunKept
      BY <1>3, <2>1, <2>2 DEF HandlePacket, StoreInv, TypeOK, Peer, Quiet, TunKept
    <2>4. \/ u'.pc = "read"
          \/ u'.pc \in SessionPcs /\ u.pc \in SessionPcs /\ u'.peer = u.peer
      BY <1>3, ReadingTypes DEF HandlePacket, StoreInv, TypeOK, UdpState, SessionPcs
    <2>5. QED
      BY <2>3, <2>4, QuietInv
  <1>4. CASE Deliver
    <2>1. Quiet /\ TunKept
      BY <1>4 DEF Deliver, Quiet, TunKept
    <2>2. \/ u'.pc = "stopped"
          \/ u'.pc \in SessionPcs /\ u.pc \in SessionPcs /\ u'.peer = u.peer
      BY <1>4, ReadingTypes DEF Deliver, StoreInv, TypeOK, UdpState, SessionPcs
    <2>3. QED
      BY <2>1, <2>2, QuietInv
  <1>5. CASE Touch
    <2>1. Quiet /\ TunKept /\ u'.pc = "read"
      BY <1>5, ReadingTypes DEF Touch, StoreInv, TypeOK, Peer, Quiet, TunKept
    <2>2. QED
      BY <2>1, QuietInv
  <1>6. QED
    BY <1>1, <1>2, <1>3, <1>4, <1>5

\* A session packet comes in: its handler gets a peer that is in the store.
LEMMA ReadPacketStore ==
    ASSUME StoreInv, TypeOK', NEW m, ReadPacket(m)
    PROVE  StoreInv'
  <1>1. Quiet /\ TunKept /\ UNCHANGED <<nextID, t>>
    BY DEF ReadPacket, Quiet, TunKept, store
  <1>2. CASE u' = u
    BY <1>1, <1>2, QuietInv
  <1>3. CASE u' # u
    <2>1. u' = UdpAt("handle", m.id, m) /\ m.id \in byID
      BY <1>3 DEF ReadPacket
    <2>2. u'.pc = "handle" /\ u'.peer < nextID'
      BY <1>1, <2>1 DEF UdpAt, StoreInv, StoreConsistent
    <2>3. HandlerInv'
      BY <1>1, <2>2 DEF StoreInv, HandlerInv
    <2>4. QED
      BY <1>1, <2>3, QuietStore, QuietKeyed DEF StoreInv
  <1>4. QED
    BY <1>2, <1>3

LEMMA TunToUdpStore == StoreInv /\ TypeOK' /\ TunToUdp => StoreInv'
  <1> SUFFICES ASSUME StoreInv, TypeOK', TunToUdp PROVE StoreInv'
    OBVIOUS
  <1>1. ASSUME NEW dst \in TunnelIPs, ReadTun(dst) PROVE StoreInv'
    <2>1. Quiet /\ UNCHANGED <<store, peers, u>>
      BY <1>1 DEF ReadTun, Quiet
    <2>2. /\ t'.peer = byTunnelIP[dst] /\ byTunnelIP[dst] # NoPeer
      BY <1>1 DEF ReadTun, TunAt
    <2>3. t'.peer < nextID /\ peers[t'.peer].cipher # NilCipher
      BY <2>2 DEF StoreInv, StoreConsistent, KeyedBeforeRouted
    <2>4. KeyedBeforeRouted' /\ HandlerInv'
      BY <2>1, <2>3 DEF StoreInv, KeyedBeforeRouted, HandlerInv, store
    <2>5. QED
      BY <2>1, <2>4, QuietStore DEF StoreInv
  <1>2. CASE ReadTunFails \/ SendData
    <2>1. Quiet /\ UNCHANGED <<u>>
      BY <1>2 DEF ReadTunFails, SendData, Quiet
    <2>2. TunKept
      BY <1>2, ReadingTypes DEF ReadTunFails, SendData, TunKept
    <2>3. QED
      BY <2>1, <2>2, QuietInv
  <1>3. CASE NumberData
    <2>1. t.peer \in PeerIDs
      BY <1>3 DEF NumberData, StoreInv, TypeOK
    <2>2. Quiet /\ UNCHANGED <<u>>
      BY <1>3, <2>1 DEF NumberData, Quiet, StoreInv, TypeOK, Peer
    <2>3. TunKept
      BY <1>3 DEF NumberData, TunKept, StoreInv, TypeOK, TunState
    <2>4. QED
      BY <2>2, <2>3, QuietInv
  <1>4. QED
    BY <1>1, <1>2, <1>3 DEF TunToUdp

\* Time, the ticker and the cancelled context leave the store alone.
LEMMA TickStore ==
    ASSUME StoreInv, TypeOK', Tick \/ TickerFires \/ ReadNow \/ ExpiryEnds
    PROVE  StoreInv'
  <1>1. Quiet
    BY DEF Tick, TickerFires, ReadNow, ExpiryEnds, StoreInv, TypeOK, Peer, Quiet
  <1>2. TunKept /\ UNCHANGED u
    BY DEF Tick, TickerFires, ReadNow, ExpiryEnds, TunKept
  <1>3. QED
    BY <1>1, <1>2, QuietInv

\* deleteExpired takes a peer out of all three maps at once.
LEMMA DeleteExpiredStore == StoreInv /\ TypeOK' /\ DeleteExpired => StoreInv'
  <1> SUFFICES ASSUME StoreInv, TypeOK', DeleteExpired PROVE StoreInv'
    OBVIOUS
  <1>1. UNCHANGED <<nextID, peers, u, t>> /\ byID' = byID \ ExpiredPeers
    BY DEF DeleteExpired
  <1>2. ExpiredPeers \subseteq byID
    BY DEF ExpiredPeers
  <1>3. \A r \in ClientRandoms :
          byClientRandom'[r] = IF \E p \in ExpiredPeers : peers[p].clientRandom = r
                               THEN NoPeer ELSE byClientRandom[r]
    BY DEF DeleteExpired
  <1>4. \A ip \in TunnelIPs :
          byTunnelIP'[ip] = IF \E p \in ExpiredPeers : peers[p].tunnelIP = ip
                            THEN NoPeer ELSE byTunnelIP[ip]
    BY DEF DeleteExpired
  <1>5. ASSUME NEW p \in byID'
        PROVE  /\ p < nextID' /\ peers'[p].clientRandom \in ClientRandoms
               /\ byClientRandom'[peers'[p].clientRandom] = p
               /\ peers'[p].tunnelIP # NoIP => byTunnelIP'[peers'[p].tunnelIP] = p
    <2>1. p \in byID /\ p \notin ExpiredPeers
      BY <1>1
    <2>2. peers[p].tunnelIP \in TunnelIPs \cup {NoIP}
      BY <2>1 DEF StoreInv, TypeOK, Peer
    <2>3. byClientRandom'[peers[p].clientRandom] = p
      BY <2>1, <1>2, <1>3 DEF StoreInv, StoreConsistent
    <2>4. peers[p].tunnelIP # NoIP => byTunnelIP'[peers[p].tunnelIP] = p
      BY <2>1, <2>2, <1>2, <1>4 DEF StoreInv, StoreConsistent
    <2>5. QED
      BY <1>1, <2>1, <2>3, <2>4 DEF StoreInv, StoreConsistent
  <1>6. ASSUME NEW r \in ClientRandoms, byClientRandom'[r] # NoPeer
        PROVE  /\ byClientRandom'[r] \in byID'
               /\ peers'[byClientRandom'[r]].clientRandom = r
    BY <1>1, <1>3, <1>6 DEF StoreInv, StoreConsistent
  <1>7. ASSUME NEW ip \in TunnelIPs, byTunnelIP'[ip] # NoPeer
        PROVE  /\ byTunnelIP'[ip] \in byID'
               /\ peers'[byTunnelIP'[ip]].tunnelIP = ip
               /\ peers'[byTunnelIP'[ip]].cipher # NilCipher
    BY <1>1, <1>4, <1>7 DEF StoreInv, StoreConsistent, KeyedBeforeRouted
  <1>8. StoreConsistent'
    BY <1>5, <1>6, <1>7 DEF StoreConsistent
  <1>9. KeyedBeforeRouted' /\ HandlerInv'
    BY <1>1, <1>7 DEF StoreInv, KeyedBeforeRouted, HandlerInv
  <1>10. QED
    BY <1>8, <1>9 DEF StoreInv

LEMMA RestartStore == StoreInv /\ TypeOK' /\ Restart => StoreInv'
  <1> SUFFICES ASSUME StoreInv, TypeOK', Restart PROVE StoreInv'
    OBVIOUS
  <1>1. u'.pc = "read" /\ t'.pc = "read"
    BY ReadingTypes DEF Restart, Start
  <1>2. QED
    BY <1>1 DEF Restart, Start, StoreInv, StoreConsistent, KeyedBeforeRouted,
                HandlerInv, AlohaPcs, SessionPcs

LEMMA InitStore == Init => StoreInv
  <1> SUFFICES ASSUME Init PROVE StoreInv
    OBVIOUS
  <1>1. TypeOK
    BY InitType
  <1>2. u.pc = "read" /\ t.pc = "read"
    BY ReadingTypes DEF Init
  <1>3. QED
    BY <1>1, <1>2 DEF Init, StoreInv, StoreConsistent, KeyedBeforeRouted,
                      HandlerInv, AlohaPcs, SessionPcs

LEMMA ServerStepStore == StoreInv /\ ServerStep => StoreInv'
  <1> SUFFICES ASSUME StoreInv, ServerStep PROVE StoreInv'
    OBVIOUS
  <1>0. TypeOK'
    BY ServerStepType DEF StoreInv
  <1>1. CASE Terminated
    <2>1. Quiet /\ TunKept /\ UNCHANGED u
      BY <1>1 DEF Terminated, vars, Quiet, TunKept
    <2>2. QED
      BY <1>0, <2>1, QuietInv
  <1>2. CASE UdpToTun
    BY <1>0, <1>2, SetCipherStore, SetTunnelIPStore, UdpQuietStore DEF UdpToTun
  <1>3. CASE TunToUdp \/ ExpirePeersLoop \/ Tick \/ Restart
    BY <1>0, <1>3, TunToUdpStore, TickStore, DeleteExpiredStore, RestartStore
       DEF ExpirePeersLoop
  <1>4. QED
    BY <1>1, <1>2, <1>3 DEF ServerStep

LEMMA NextStore == StoreInv /\ [Next]_vars => StoreInv'
  <1> SUFFICES ASSUME StoreInv, [Next]_vars PROVE StoreInv'
    OBVIOUS
  <1>0. TypeOK'
    BY NextType DEF StoreInv
  <1>1. CASE UNCHANGED vars
    <2>1. Quiet /\ TunKept /\ UNCHANGED u
      BY <1>1 DEF vars, Quiet, TunKept
    <2>2. QED
      BY <1>0, <2>1, QuietInv
  <1>2. CASE AlohaArrives
    BY <1>0, <1>2, RegisterStore DEF AlohaArrives
  <1>3. CASE SessionPacketArrives
    BY <1>0, <1>3, ReadPacketStore DEF SessionPacketArrives
  <1>4. QED
    BY <1>1, <1>2, <1>3, ServerStepStore DEF Next

-----------------------------------------------------------------------------
\* The three maps of the peer store always describe the same peers, for any
\* number of peers and clients and at every point where a goroutine may be
\* interrupted.
THEOREM StoreIsConsistent == Spec => []StoreConsistent
  <1>1. StoreInv => StoreConsistent
    BY DEF StoreInv
  <1>2. QED
    BY <1>1, InitStore, NextStore, PTL DEF Spec

\* tunToUdp never meets a peer without a cipher: the branch that drops the
\* packet for a missing cipher is never taken.
THEOREM RoutedPeersAreKeyed == Spec => []KeyedBeforeRouted
  <1>1. StoreInv => KeyedBeforeRouted
    BY DEF StoreInv
  <1>2. QED
    BY <1>1, InitStore, NextStore, PTL DEF Spec

(***************************************************************************)
(* A running server never gives a removed peer, or its ID, back: register  *)
(* is the only step that adds to byID, and it adds nextID.                 *)
(***************************************************************************)
THEOREM PeersRemovedForGood == Spec => RemovedForGood
  <1>1. ASSUME TypeOK, [Next]_vars, restarts' = restarts, NEW p \in byID' \ byID
        PROVE  p >= nextID
    <2>1. ~Restart
      BY <1>1 DEF Restart, TypeOK
    <2>2. CASE AlohaArrives
      <3>1. PICK r \in ClientRandoms, a \in Addrs : Register(EncodeAloha(r, a))
        BY <2>2 DEF AlohaArrives
      <3>2. byID' = byID \/ byID' = byID \cup {nextID}
        BY <3>1 DEF Register, NewID, store
      <3>3. QED
        BY <1>1, <3>2 DEF TypeOK
    <2>3. CASE ~AlohaArrives
      <3>1. byID' \subseteq byID
        BY <1>1, <2>1, <2>3
           DEF Next, ServerStep, SessionPacketArrives, ReadPacket, UdpToTun, SetCipher,
               SetTunnelIP, NumberWelcome, SendWelcome, HandlePacket, Deliver, Touch,
               TunToUdp, ReadTun, ReadTunFails, NumberData, SendData, ExpirePeersLoop,
               ReadUdpFails, TickerFires, ReadNow, DeleteExpired, ExpiryEnds, Tick,
               Terminated, store, vars
      <3>2. QED
        BY <1>1, <3>1
    <2>4. QED
      BY <2>2, <2>3
  <1>2. TypeOK /\ [Next]_vars =>
          [restarts' = restarts => \A p \in byID' \ byID : p >= nextID]_vars
    BY <1>1
  <1>3. QED
    BY <1>2, ServerTyping, PTL DEF Spec, RemovedForGood

-----------------------------------------------------------------------------
(***************************************************************************)
(* Expiry.  The bound on a peer's idle time depends on where the sweeper   *)
(* is: just after a sweep nobody is older than the timeout and the age of  *)
(* the sweep's "now"; while the loop waits everybody ages with tick; when  *)
(* the ticker fires tick starts again, and the interval that it counted is *)
(* still to be added.  When the loop has ended time is no longer counted.  *)
(***************************************************************************)
Sweeping == e.pc \in {"fired", "sweep"}

Since ==
    IF e.pc = "stopped" THEN CleanupInterval + MaxLag
    ELSE tick + IF Sweeping THEN CleanupInterval ELSE 0

SweepBound ==
    /\ Sweeping => tick <= MaxLag
    /\ e.pc = "sweep" => e.age <= tick
    /\ \A p \in byID : peers[p].idle <= PeerTimeout + Since

\* A step that neither moves time nor makes anybody older.
LEMMA SameAge ==
    ASSUME TypeOK, TypeOK', SweepBound, UNCHANGED <<e, tick>>,
           \A p \in byID' : peers'[p].idle = 0 \/ (p \in byID /\ peers'[p].idle = peers[p].idle)
    PROVE  SweepBound'
  BY TimeAssumption DEF TypeOK, SweepBound, Sweeping, Since

LEMMA NextSweep == TypeOK /\ TypeOK' /\ SweepBound /\ [Next]_vars => SweepBound'
  <1> SUFFICES ASSUME TypeOK, TypeOK', SweepBound, [Next]_vars PROVE SweepBound'
    OBVIOUS
  <1>1. CASE UNCHANGED vars \/ Terminated
    BY <1>1, SameAge DEF Terminated, vars, store
  <1>2. CASE AlohaArrives
    <2>1. PICK r \in ClientRandoms, a \in Addrs : Register(EncodeAloha(r, a))
      BY <1>2 DEF AlohaArrives
    <2> DEFINE m == EncodeAloha(r, a)
    <2>2. Register(m)
      BY <2>1
    <2> HIDE DEF m
    <2>3. CASE UNCHANGED <<byID, peers>>
      BY <2>2, <2>3, SameAge DEF Register
    <2>4. CASE ~UNCHANGED <<byID, peers>>
      <3>1. /\ byID' = byID \cup {nextID} /\ nextID \in PeerIDs
            /\ peers' = [peers EXCEPT ![nextID] = NewPeer(m.addr, m.random)]
            /\ UNCHANGED <<e, tick>>
        BY <2>2, <2>4, BoundsAssumption DEF Register, NewID, store, TypeOK, PeerIDs
      <3>2. /\ peers'[nextID].idle = 0
            /\ \A p \in PeerIDs \ {nextID} : peers'[p] = peers[p]
        BY <3>1 DEF TypeOK, NewPeer
      <3>3. QED
        BY <3>1, <3>2, SameAge DEF TypeOK
    <2>5. QED
      BY <2>3, <2>4
  <1>3. CASE SessionPacketArrives
    BY <1>3, SameAge DEF SessionPacketArrives, ReadPacket, store
  <1>4. CASE SetCipher \/ SetTunnelIP \/ NumberWelcome \/ HandlePacket \/ NumberData
    <2>1. UNCHANGED <<byID, e, tick>>
      BY <1>4 DEF SetCipher, SetTunnelIP, NumberWelcome, HandlePacket, NumberData, store
    <2>2. \A p \in PeerIDs : peers'[p].idle = peers[p].idle
      BY <1>4 DEF SetCipher, SetTunnelIP, NumberWelcome, HandlePacket, NumberData,
                  TypeOK, Peer
    <2>3. QED
      BY <2>1, <2>2, SameAge DEF TypeOK
  <1>5. CASE Touch
    <2>1. \A p \in PeerIDs : peers'[p].idle = 0 \/ peers'[p].idle = peers[p].idle
      BY <1>5 DEF Touch, TypeOK, Peer
    <2>2. QED
      BY <1>5, <2>1, SameAge DEF Touch, TypeOK, store
  <1>6. CASE SendWelcome \/ Deliver \/ ReadUdpFails \/ ReadTunFails \/ SendData
    BY <1>6, SameAge
       DEF SendWelcome, Deliver, ReadUdpFails, ReadTunFails, SendData, store
  <1>7. ASSUME NEW dst \in TunnelIPs, ReadTun(dst) PROVE SweepBound'
    BY <1>7, SameAge DEF ReadTun, store
  <1>8. CASE TickerFires \/ ReadNow \/ ExpiryEnds
    <2>1. UNCHANGED <<byID, peers>> /\ \A p \in byID : peers[p].idle \in Nat
      BY <1>8 DEF TickerFires, ReadNow, ExpiryEnds, store, TypeOK, Peer
    <2>2. CASE TickerFires
      BY <2>1, <2>2, TimeAssumption DEF TickerFires, SweepAt, SweepBound, Sweeping, Since, TypeOK
    <2>3. CASE ReadNow
      BY <2>1, <2>3, TimeAssumption DEF ReadNow, SweepAt, SweepBound, Sweeping, Since, TypeOK
    <2>4. CASE ExpiryEnds
      <3>1. CASE e.pc = "wait"
        BY <2>1, <2>4, <3>1, TimeAssumption
           DEF ExpiryEnds, SweepAt, SweepBound, Sweeping, Since, TypeOK
      <3>2. CASE e.pc = "fired"
        BY <2>1, <2>4, <3>2, TimeAssumption
           DEF ExpiryEnds, SweepAt, SweepBound, Sweeping, Since, TypeOK
      <3>3. QED
        BY <2>4, <3>1, <3>2 DEF ExpiryEnds
    <2>5. QED
      BY <1>8, <2>2, <2>3, <2>4
  <1>9. CASE DeleteExpired
    <2>1. \A p \in byID' : p \in byID /\ ~Expired(p)
      BY <1>9 DEF DeleteExpired, ExpiredPeers
    <2>2. e.age \in Nat /\ e.age <= tick
      BY <1>9 DEF DeleteExpired, SweepBound, TypeOK
    <2>3. \A p \in byID' : peers[p].idle <= PeerTimeout + tick
      <3>1. \A p \in byID' : peers[p].idle \in Nat
        BY <2>1 DEF TypeOK, Peer
      <3>2. QED
        BY <2>1, <2>2, <3>1, TimeAssumption DEF Expired, TypeOK
    <2>4. e'.pc = "wait" /\ UNCHANGED <<tick, peers>>
      BY <1>9 DEF DeleteExpired, SweepAt
    <2>5. QED
      BY <2>3, <2>4, TimeAssumption DEF SweepBound, Sweeping, Since, TypeOK
  <1>10. CASE Tick
    <2>1. \A p \in byID : /\ peers[p].idle \in Nat
                          /\ peers'[p].idle <= peers[p].idle + 1
      BY <1>10 DEF Tick, TypeOK, Peer
    <2>2. UNCHANGED byID /\ tick' = tick + 1 /\ (Sweeping => tick < MaxLag)
      BY <1>10 DEF Tick, store, Sweeping
    <2>3. e'.pc = e.pc /\ (e.pc = "sweep" => e'.age = e.age + 1)
      BY <1>10 DEF Tick, TypeOK
    <2>4. \A p \in byID : peers'[p].idle \in Nat
      BY DEF TypeOK, Peer
    <2>a. tick \in Nat /\ e.pc # "stopped"
      BY <1>10 DEF Tick, TypeOK
    <2>5. Since' = Since + 1 /\ Since \in Nat
      <3>1. CASE Sweeping
        BY <3>1, <2>a, <2>2, <2>3, TimeAssumption DEF Since, Sweeping
      <3>2. CASE ~Sweeping
        BY <3>2, <2>a, <2>2, <2>3, TimeAssumption DEF Since, Sweeping
      <3>3. QED
        BY <3>1, <3>2
    <2>6. \A p \in byID : peers'[p].idle <= PeerTimeout + Since'
      BY <2>1, <2>4, <2>5, TimeAssumption DEF SweepBound
    <2>7. QED
      BY <2>2, <2>3, <2>6, TimeAssumption DEF SweepBound, Sweeping, TypeOK
  <1>11. CASE Restart
    BY <1>11 DEF Restart, Start, SweepAt, SweepBound, Sweeping, Since
  <1>12. QED
    BY <1>1, <1>2, <1>3, <1>4, <1>5, <1>6, <1>7, <1>8, <1>9, <1>10, <1>11
       DEF Next, ServerStep, UdpToTun, TunToUdp, ExpirePeersLoop

\* A silent peer leaves the store within one cleanup interval and the delay
\* of one sweep after its timeout, for every choice of the three times.
THEOREM RemovalIsPrompt == Spec => []PromptRemoval
  <1>1. Init => SweepBound
    BY DEF Init, SweepAt, SweepBound, Sweeping, Since
  <1>2. TypeOK /\ SweepBound => PromptRemoval
    <2> SUFFICES ASSUME TypeOK, SweepBound, NEW p \in byID
                 PROVE  peers[p].idle <= PeerTimeout + CleanupInterval + MaxLag
      BY DEF PromptRemoval
    <2>1. peers[p].idle \in Nat
      BY DEF TypeOK, Peer
    <2>2. QED
      BY <2>1, TimeAssumption DEF TypeOK, SweepBound, Sweeping, Since
  <1>3. QED
    BY <1>1, <1>2, NextSweep, ServerTyping, PTL DEF Spec

\* deleteExpired never removes a peer whose timeout is not over, although
\* the time it compares with is old.
THEOREM HeardPeersAreKept == Spec => KeptWhileHeard
  <1>1. ASSUME TypeOK, [Next]_vars, restarts' = restarts, NEW p \in byID \ byID'
        PROVE  peers[p].idle > PeerTimeout
    <2>1. ~Restart
      BY <1>1 DEF Restart, TypeOK
    <2>2. CASE DeleteExpired
      <3>1. Expired(p) /\ peers[p].idle \in Nat
        BY <1>1, <2>2 DEF DeleteExpired, ExpiredPeers, TypeOK, Peer
      <3>2. QED
        BY <1>1, <3>1, TimeAssumption DEF Expired, TypeOK
    <2>3. CASE ~DeleteExpired
      <3>1. byID \subseteq byID'
        BY <1>1, <2>1, <2>3
           DEF Next, ServerStep, AlohaArrives, Register, SessionPacketArrives,
               ReadPacket, UdpToTun, SetCipher, SetTunnelIP, NumberWelcome,
               SendWelcome, HandlePacket, Deliver, Touch, TunToUdp, ReadTun,
               ReadTunFails, NumberData, SendData, ExpirePeersLoop, TickerFires,
               ReadUdpFails, ReadNow, ExpiryEnds, Tick, Terminated, store, vars
      <3>2. QED
        BY <1>1, <3>1
    <2>4. QED
      BY <2>2, <2>3
  <1>2. TypeOK /\ [Next]_vars =>
          [restarts' = restarts =>
              \A p \in byID \ byID' : peers[p].idle > PeerTimeout]_vars
    BY <1>1
  <1>3. QED
    BY <1>2, ServerTyping, PTL DEF Spec, KeptWhileHeard

-----------------------------------------------------------------------------
(***************************************************************************)
(* Addresses, and what stops the server.  An address belongs to one ID and *)
(* IDs are not given twice, so the address of the peer that register made  *)
(* last, which is the only one that a handler can be busy with, is free.   *)
(***************************************************************************)
AddressInv == \A p \in PeerIDs : peers[p].tunnelIP \in {NoIP, TunnelIPOf(p)}

Refusals == {"address range", "peer not found"}

StopInv ==
    /\ StopsForCause
    /\ cause \in Refusals => u.pc = "stopped"
    /\ u.pc \in AlohaPcs => u.peer = nextID - 1

\* No step of this frame registers anybody, or gives out an address.
SameStop ==
    /\ byID' \subseteq byID /\ nextID' = nextID
    /\ \A p \in PeerIDs : peers'[p].tunnelIP = peers[p].tunnelIP
    /\ u'.pc \in AlohaPcs => u.pc \in AlohaPcs /\ u'.peer = u.peer
    /\ u.pc = "stopped" => u'.pc = "stopped"
    /\ cause' = cause \/ (cause = "none" /\ cause' = "i/o")

LEMMA SameStopInv ==
    ASSUME StopInv, AddressInv, SameStop
    PROVE  StopInv' /\ AddressInv'
  BY DEF StopInv, AddressInv, SameStop, StopsForCause, Refusals

LEMMA RegisterStop ==
    ASSUME StoreInv, StopInv, AddressInv, NEW r \in ClientRandoms, NEW a \in Addrs,
           Register(EncodeAloha(r, a))
    PROVE  StopInv' /\ AddressInv'
  <1> DEFINE m == EncodeAloha(r, a)
  <1>m. m.random = r /\ Register(m)
    BY ArrivalTypes
  <1> HIDE DEF m
  <1>1. CASE byClientRandom[r] # NoPeer
    BY <1>1, <1>m, SameStopInv DEF Register, SameStop, store
  <1>2. CASE byClientRandom[r] = NoPeer
    <2>1. /\ nextID \in PeerIDs /\ nextID' = nextID + 1 /\ UNCHANGED cause
          /\ peers' = [peers EXCEPT ![nextID] = NewPeer(m.addr, r)]
          /\ u.pc = "read" /\ u' = UdpAt("key", nextID, m)
      BY <1>2, <1>m, BoundsAssumption DEF Register, NewID, StoreInv, TypeOK, PeerIDs
    <2>2. /\ peers'[nextID].tunnelIP = NoIP
          /\ \A p \in PeerIDs \ {nextID} : peers'[p] = peers[p]
      BY <2>1 DEF StoreInv, TypeOK, NewPeer
    <2>3. cause \notin Refusals /\ cause # "address taken"
      BY <2>1 DEF StopInv, StopsForCause
    <2>4. u'.peer = nextID' - 1
      BY <2>1, BoundsAssumption DEF UdpAt, PeerIDs
    <2>5. StopInv'
      BY <2>1, <2>3, <2>4 DEF StopInv, StopsForCause, Refusals
    <2>6. AddressInv'
      BY <2>2 DEF AddressInv
    <2>7. QED
      BY <2>5, <2>6
  <1>3. QED
    BY <1>1, <1>2

\* The address of the handler's peer cannot be taken: whoever has it would
\* be that peer, which has none yet.
LEMMA SetTunnelIPStop ==
    ASSUME StoreInv, StopInv, AddressInv, SetTunnelIP
    PROVE  StopInv' /\ AddressInv'
  <1> DEFINE ip == TunnelIPOf(u.peer)
  <1>1. /\ u.peer \in PeerIDs /\ u.peer = nextID - 1 /\ nextID \in Nat
        /\ peers[u.peer].tunnelIP = NoIP /\ UNCHANGED nextID
    BY BoundsAssumption
       DEF SetTunnelIP, StoreInv, TypeOK, HandlerInv, StopInv, AlohaPcs, PeerIDs
  <1>2. CASE Refusal = "none"
    <2>1. /\ peers' = [peers EXCEPT ![u.peer].tunnelIP = ip] /\ UNCHANGED <<cause, byID>>
          /\ u'.pc = "number" /\ u'.peer = u.peer /\ u.pc = "route"
      BY <1>2 DEF SetTunnelIP, StoreInv, TypeOK, UdpState
    <2>2. AddressInv'
      BY <1>1, <2>1 DEF StoreInv, TypeOK, Peer, AddressInv
    <2>3. StopInv'
      BY <1>1, <2>1 DEF StopInv, StopsForCause, Refusals, AlohaPcs
    <2>4. QED
      BY <2>2, <2>3
  <1>3. CASE Refusal # "none"
    <2>1. /\ UNCHANGED <<byID, peers>> /\ Fail(Refusal) /\ u'.pc = "stopped"
      BY <1>3, ReadingTypes DEF SetTunnelIP
    <2>2. Refusal # "address taken"
      <3>1. ASSUME ValidIPRange(u.peer), byTunnelIP[ip] # NoPeer PROVE FALSE
        <4>1. ip \in TunnelIPs
          BY <1>1, <3>1, TunnelIPType
        <4> DEFINE q == byTunnelIP[ip]
        <4>2. q \in PeerIDs /\ peers[q].tunnelIP = ip /\ ip # NoIP
          BY <3>1, <4>1 DEF StoreInv, StoreConsistent, TypeOK, TunnelIPs, NoIP
        <4>3. ip = TunnelIPOf(q)
          BY <4>2 DEF AddressInv
        <4>4. q = u.peer
          BY <1>1, <4>2, <4>3, BoundsAssumption DEF TunnelIPOf, PeerIDs
        <4>5. QED
          BY <1>1, <4>2, <4>4
      <3>2. QED
        BY <3>1 DEF Refusal
    <2>3. Refusal = "address range" => nextID - 1 > NetworkSize - 3
      BY <1>1, NetworkAssumption, BoundsAssumption DEF Refusal, ValidIPRange, PeerIDs
    <2>4. Refusal = "peer not found" => nextID - 1 \notin byID
      BY <1>1 DEF Refusal
    <2>5. StopInv'
      BY <1>1, <2>1, <2>2, <2>3, <2>4 DEF Fail, StopInv, StopsForCause, Refusals, AlohaPcs
    <2>6. QED
      BY <2>1, <2>5 DEF AddressInv
  <1>4. QED
    BY <1>2, <1>3

LEMMA ReadPacketStop ==
    ASSUME StopInv, AddressInv, NEW m, ReadPacket(m)
    PROVE  StopInv' /\ AddressInv'
  <1>1. (u' = u \/ u'.pc = "handle") /\ u.pc = "read" /\ UNCHANGED <<store, peers, cause>>
    BY DEF ReadPacket, UdpAt
  <1>2. QED
    BY <1>1, SameStopInv DEF SameStop, store, AlohaPcs

LEMMA ServerStepStop ==
    StoreInv /\ StopInv /\ AddressInv /\ ServerStep => StopInv' /\ AddressInv'
  <1> SUFFICES ASSUME StoreInv, StopInv, AddressInv, ServerStep PROVE StopInv' /\ AddressInv'
    OBVIOUS
  <1>0. TypeOK
    BY DEF StoreInv
  <1>1. CASE SetCipher \/ NumberWelcome
    <2>1. u.pc \in AlohaPcs /\ u'.peer = u.peer /\ UNCHANGED <<store, cause>>
      BY <1>0, <1>1 DEF SetCipher, NumberWelcome, TypeOK, UdpState, AlohaPcs
    <2>2. \A p \in PeerIDs : peers'[p].tunnelIP = peers[p].tunnelIP
      BY <1>0, <1>1 DEF SetCipher, NumberWelcome, TypeOK, Peer
    <2>3. QED
      BY <2>1, <2>2, SameStopInv DEF SameStop, store, AlohaPcs
  <1>2. CASE SendWelcome \/ HandlePacket \/ Deliver \/ Touch \/ ReadUdpFails
    <2>1. u'.pc \notin AlohaPcs /\ u.pc # "stopped" /\ UNCHANGED store
      BY <1>0, <1>2, ReadingTypes
         DEF SendWelcome, HandlePacket, Deliver, Touch, ReadUdpFails, TypeOK, UdpState, AlohaPcs
    <2>2. \A p \in PeerIDs : peers'[p].tunnelIP = peers[p].tunnelIP
      BY <1>0, <1>2 DEF SendWelcome, HandlePacket, Deliver, Touch, ReadUdpFails, TypeOK, Peer
    <2>3. cause' = cause \/ (cause = "none" /\ cause' = "i/o")
      BY <1>2 DEF SendWelcome, HandlePacket, Deliver, Touch, ReadUdpFails, IOEnds, IOError, Fail
    <2>4. QED
      BY <2>1, <2>2, <2>3, SameStopInv DEF SameStop, store
  <1>3. CASE TunToUdp \/ ExpirePeersLoop \/ Tick \/ Terminated
    <2>1. UNCHANGED <<u, nextID>> /\ byID' \subseteq byID
      BY <1>3 DEF TunToUdp, ReadTun, ReadTunFails, NumberData, SendData, ExpirePeersLoop,
                  TickerFires, ReadNow, DeleteExpired, ExpiryEnds, Tick, Terminated, vars, store
    <2>2. \A p \in PeerIDs : peers'[p].tunnelIP = peers[p].tunnelIP
      BY <1>0, <1>3 DEF TunToUdp, ReadTun, ReadTunFails, NumberData, SendData,
                        ExpirePeersLoop, TickerFires, ReadNow, DeleteExpired, ExpiryEnds,
                        Tick, Terminated, vars, TypeOK, Peer
    <2>3. cause' = cause \/ (cause = "none" /\ cause' = "i/o")
      BY <1>3 DEF TunToUdp, ReadTun, ReadTunFails, NumberData, SendData, ExpirePeersLoop,
                  TickerFires, ReadNow, DeleteExpired, ExpiryEnds, Tick, Terminated, vars,
                  IOEnds, Fail
    <2>4. QED
      BY <2>1, <2>2, <2>3, SameStopInv DEF SameStop
  <1>4. CASE Restart
    <2>1. u'.pc = "read" /\ cause' = "none" /\ \A p \in PeerIDs : peers'[p].tunnelIP = NoIP
      BY <1>4, ReadingTypes DEF Restart, Start, FreePeer, NewPeer
    <2>2. QED
      BY <2>1 DEF StopInv, StopsForCause, AddressInv, Refusals, AlohaPcs
  <1>5. QED
    BY <1>1, <1>2, <1>3, <1>4, SetTunnelIPStop DEF ServerStep, UdpToTun

LEMMA InitStop == Init => StopInv /\ AddressInv
  <1> SUFFICES ASSUME Init PROVE StopInv /\ AddressInv
    OBVIOUS
  <1>1. u.pc = "read" /\ cause = "none" /\ \A p \in PeerIDs : peers[p].tunnelIP = NoIP
    BY ReadingTypes DEF Init, FreePeer, NewPeer
  <1>2. QED
    BY <1>1 DEF StopInv, StopsForCause, AddressInv, Refusals, AlohaPcs

LEMMA NextStop ==
    StoreInv /\ StopInv /\ AddressInv /\ [Next]_vars => StopInv' /\ AddressInv'
  <1> SUFFICES ASSUME StoreInv, StopInv, AddressInv, [Next]_vars PROVE StopInv' /\ AddressInv'
    OBVIOUS
  <1>1. CASE UNCHANGED vars
    BY <1>1, SameStopInv DEF vars, store, SameStop
  <1>2. CASE AlohaArrives
    BY <1>2, RegisterStop DEF AlohaArrives
  <1>3. CASE SessionPacketArrives
    BY <1>3, ReadPacketStop DEF SessionPacketArrives
  <1>4. QED
    BY <1>1, <1>2, <1>3, ServerStepStop DEF Next

(***************************************************************************)
(* An ALOHA stops the server only when more peers were registered than the *)
(* network has addresses for clients, expired ones included, or its peer   *)
(* has expired while the handler was at work, for every size of the        *)
(* network and any number of peers.                                        *)
(***************************************************************************)
THEOREM ServerStopsForCause == Spec => []StopsForCause
  <1>1. StopInv => StopsForCause
    BY DEF StopInv
  <1>2. QED
    BY <1>1, InitStop, InitStore, NextStore, NextStop, PTL DEF Spec

-----------------------------------------------------------------------------
(***************************************************************************)
(* Part 2.  The sessions.  The server uses no nonce twice and lets no client *)
(* packet through twice, across any number of peers, expiries and restarts. *)
(*                                                                         *)
(* Both arguments are about which key belongs to whom.  A cipher names its *)
(* peer and a server random that was drawn once; everything already on the *)
(* wire, or already delivered, was sealed under a random drawn before.     *)
(***************************************************************************)

AlohaKeys == {<<r>> : r \in ClientRandoms}
WelcomeKeys == ClientRandoms \X Nat

\* m was sealed by the server.
FromServer(m) == m.nonce = BuildNonce("s2c", m.seq)

\* A peer's cipher is its own, and not younger than the last random drawn.
CipherInv ==
    \A p \in PeerIDs : peers[p].cipher # NilCipher =>
        peers[p].cipher[1] = p /\ peers[p].cipher[3] <= randoms

\* Whatever was sent carries the nonce of its direction and, unless it is an
\* ALOHA, an old server random.  (The network of Server holds what the server
\* sends; that of Tunnel also what the clients send.)
WireInv ==
    \A m \in net :
        /\ FromServer(m) \/ m.nonce = BuildNonce("c2s", m.seq)
        /\ \/ m.key \in AlohaKeys
           \/ m.key \in WelcomeKeys /\ m.key[2] <= randoms
           \/ m.key \in PeerKeys /\ m.key[3] <= randoms

\* The server random of a handshake in progress is in no WELCOME yet.
Greeting == {"route", "number", "welcome"}
WelcomeInv ==
    u.pc \in Greeting =>
        /\ u.random <= randoms
        /\ \A m \in net : m.key \in WelcomeKeys => m.key[2] # u.random

\* A peer's counter is ahead of all that the server sent under its cipher,
\* and so is the number that tunToUdp took and has not used.
NumberInv ==
    /\ t.pc = "send" => t.seq <= peers[t.peer].sendSeq
    /\ \A m \in net, p \in PeerIDs : FromServer(m) /\ m.key = peers[p].cipher =>
        /\ m.seq <= peers[p].sendSeq
        /\ t.pc = "send" /\ t.peer = p => m.seq < t.seq

NonceInv == CipherInv /\ WireInv /\ WelcomeInv /\ NumberInv

\* What was delivered under a cipher in use is refused by its peer's window
\* for ever; a packet on its way to the TUN is refused there too, and is
\* not one of the delivered.
TakenInv ==
    /\ \A d \in delivered :
        /\ d.key \in PeerKeys /\ d.key[3] <= randoms
        /\ \A p \in PeerIDs :
            d.key = peers[p].cipher => ~Accepts(peers[p].window, d.seq)
    /\ u.pc \in SessionPcs =>
        peers[u.peer].cipher # NilCipher /\ u.m.key = peers[u.peer].cipher
    /\ u.pc = "deliver" =>
        /\ ~Accepts(peers[u.peer].window, u.m.seq)
        /\ [key |-> u.m.key, seq |-> u.m.seq] \notin delivered

-----------------------------------------------------------------------------
\* The three kinds of key cannot be taken for one another.
LEMMA KeysDisjoint ==
    /\ \A k \in AlohaKeys : k \notin WelcomeKeys /\ k \notin PeerKeys /\ k # NilCipher
    /\ \A k \in WelcomeKeys : k \notin PeerKeys /\ k # NilCipher
    /\ \A k \in PeerKeys : k # NilCipher /\ k[3] \in Nat
    /\ \A k \in WelcomeKeys : k[2] \in Nat
  BY DEF AlohaKeys, WelcomeKeys, PeerKeys, NilCipher

\* No step of the frame below seals anything or gives anybody a new cipher.
SameKeys ==
    /\ UNCHANGED <<net, randoms>>
    /\ \A p \in PeerIDs :
        /\ peers'[p].cipher = peers[p].cipher
        /\ peers'[p].sendSeq >= peers[p].sendSeq
    /\ t'.pc = "send" => t.pc = "send" /\ t'.peer = t.peer /\ t'.seq = t.seq
    /\ u'.pc \in Greeting => u.pc \in Greeting /\ u'.random = u.random

LEMMA SameKeysNonce ==
    ASSUME TypeOK, TypeOK', NonceInv, SameKeys
    PROVE  NonceInv'
  <1>1. /\ \A p \in PeerIDs : peers[p].sendSeq \in Nat /\ peers'[p].sendSeq \in Nat
        /\ t.seq \in Nat /\ (t.pc = "send" => t.peer \in PeerIDs)
        /\ \A m \in net : m.seq \in Nat
    BY DEF TypeOK, Peer, TunState, Packet
  <1>2. CipherInv' /\ WireInv'
    BY DEF NonceInv, CipherInv, WireInv, SameKeys
  <1>3. WelcomeInv'
    BY DEF NonceInv, WelcomeInv, SameKeys
  <1>4. NumberInv'
    BY <1>1 DEF NonceInv, NumberInv, SameKeys
  <1>5. QED
    BY <1>2, <1>3, <1>4 DEF NonceInv

\* A new peer has no cipher, and tunToUdp does not hold it.
LEMMA RegisterNonce ==
    ASSUME StoreInv, TypeOK', NonceInv, NEW r \in ClientRandoms, NEW a \in Addrs,
           Register(EncodeAloha(r, a))
    PROVE  NonceInv'
  <1> DEFINE m == EncodeAloha(r, a)
  <1>m. m.random = r /\ Register(m)
    BY ArrivalTypes
  <1> HIDE DEF m
  <1>1. CASE byClientRandom[r] # NoPeer
    <2>1. SameKeys
      BY <1>1, <1>m DEF Register, SameKeys, history, StoreInv, TypeOK, Peer
    <2>2. QED
      BY <2>1, SameKeysNonce DEF StoreInv
  <1>2. CASE byClientRandom[r] = NoPeer
    <2>1. /\ nextID \in PeerIDs
          /\ peers' = [peers EXCEPT ![nextID] = NewPeer(m.addr, r)]
          /\ u'.pc = "key" /\ UNCHANGED <<t, net, randoms>>
      BY <1>2, <1>m, BoundsAssumption
         DEF Register, NewID, UdpAt, StoreInv, TypeOK, PeerIDs, history
    <2>2. /\ peers'[nextID].cipher = NilCipher
          /\ \A p \in PeerIDs \ {nextID} : peers'[p] = peers[p]
      BY <2>1 DEF StoreInv, TypeOK, NewPeer
    <2>3. t.pc = "send" => t.peer \in PeerIDs \ {nextID}
      BY <2>1, BoundsAssumption DEF StoreInv, HandlerInv, TypeOK, PeerIDs
    <2>4. \A n \in net : n.key # NilCipher
      BY KeysDisjoint DEF NonceInv, WireInv
    <2>5. CipherInv' /\ WireInv' /\ WelcomeInv'
      BY <2>1, <2>2 DEF NonceInv, CipherInv, WireInv, WelcomeInv, Greeting
    <2>6. NumberInv'
      BY <2>1, <2>2, <2>3, <2>4 DEF NonceInv, NumberInv
    <2>7. QED
      BY <2>5, <2>6 DEF NonceInv
  <1>3. QED
    BY <1>1, <1>2

\* The new cipher has a server random that nothing was sealed under.
LEMMA SetCipherNonce ==
    ASSUME StoreInv, TypeOK', NonceInv, SetCipher
    PROVE  NonceInv'
  <1> DEFINE k == NewPeerCipher(randoms')
  <1>1. /\ u.peer \in PeerIDs /\ u.m.random \in ClientRandoms
        /\ randoms \in Nat /\ randoms' = randoms + 1
    BY DEF StoreInv, TypeOK, SetCipher, AlohaPcs
  <1>2. k \in PeerKeys /\ k # NilCipher /\ k[1] = u.peer /\ k[3] = randoms'
    BY <1>1, PeerKeyFacts DEF NewPeerCipher
  <1>3. /\ peers'[u.peer].cipher = k
        /\ peers'[u.peer].sendSeq = peers[u.peer].sendSeq
        /\ \A p \in PeerIDs \ {u.peer} : peers'[p] = peers[p]
    BY <1>1 DEF StoreInv, TypeOK, SetCipher, Peer
  <1> HIDE DEF k
  <1>4. u'.pc = "route" /\ u'.random = randoms' /\ UNCHANGED <<t, net>>
    BY DEF SetCipher, StoreInv, TypeOK, UdpState
  <1>5. \A n \in net : n.key # k
    BY <1>1, <1>2, KeysDisjoint DEF NonceInv, WireInv
  <1>6. CipherInv'
    <2> SUFFICES ASSUME NEW p \in PeerIDs, peers'[p].cipher # NilCipher
                 PROVE  peers'[p].cipher[1] = p /\ peers'[p].cipher[3] <= randoms'
      BY DEF CipherInv
    <2>1. CASE p = u.peer
      BY <2>1, <1>1, <1>2, <1>3
    <2>2. CASE p # u.peer
      <3>1. peers'[p] = peers[p] /\ peers[p].cipher \in PeerKeys
        BY <2>2, <1>3 DEF StoreInv, TypeOK, Peer
      <3>2. QED
        BY <3>1, <1>1, KeysDisjoint DEF NonceInv, CipherInv
    <2>3. QED
      BY <2>1, <2>2
  <1>7. WireInv'
    BY <1>1, <1>4, KeysDisjoint DEF NonceInv, WireInv
  <1>8. WelcomeInv'
    BY <1>1, <1>4, KeysDisjoint DEF NonceInv, WireInv, WelcomeInv
  <1>9. NumberInv'
    BY <1>1, <1>3, <1>4, <1>5 DEF NonceInv, NumberInv, StoreInv, TypeOK
  <1>10. QED
    BY <1>6, <1>7, <1>8, <1>9 DEF NonceInv

\* The WELCOME goes out: it is sealed under a key of its own.
LEMMA SendWelcomeNonce ==
    ASSUME StoreInv, TypeOK', NonceInv, SendWelcome
    PROVE  NonceInv'
  <1>1. /\ u'.pc \notin Greeting /\ UNCHANGED <<peers, t, randoms>>
        /\ net' \subseteq net \cup {Welcome}
    BY ReadingTypes DEF SendWelcome, Greeting
  <1>2. /\ u.m.random \in ClientRandoms /\ u.random \in Nat /\ u.random <= randoms
        /\ u.seq \in Nat
    BY DEF SendWelcome, StoreInv, TypeOK, AlohaPcs, UdpState, NonceInv, WelcomeInv, Greeting
  <1>3. /\ Welcome.key \in WelcomeKeys /\ Welcome.key[2] = u.random
        /\ Welcome.nonce = BuildNonce("s2c", Welcome.seq)
    BY <1>2 DEF Welcome, EncodeWelcome, Seal, Header, WelcomeKey, WelcomeKeys
  <1>4. \A p \in PeerIDs : Welcome.key # peers[p].cipher
    BY <1>3, KeysDisjoint DEF StoreInv, TypeOK, Peer
  <1>5. CipherInv' /\ WelcomeInv'
    BY <1>1 DEF NonceInv, CipherInv, WelcomeInv
  <1>6. WireInv'
    BY <1>1, <1>2, <1>3 DEF NonceInv, WireInv, FromServer
  <1>7. NumberInv'
    BY <1>1, <1>4 DEF NonceInv, NumberInv
  <1>8. QED
    BY <1>5, <1>6, <1>7 DEF NonceInv

\* tunToUdp takes a number that is above all that its peer's cipher sealed,
\* and uses it once.
LEMMA NumberDataNonce ==
    ASSUME StoreInv, TypeOK', NonceInv, NumberData
    PROVE  NonceInv'
  <1>1. /\ t.peer \in PeerIDs /\ UNCHANGED <<u, net, randoms>>
        /\ \A p \in PeerIDs : peers[p].sendSeq \in Nat
        /\ \A m \in net : m.seq \in Nat
    BY DEF NumberData, StoreInv, TypeOK, Peer, Packet, history
  <1>2. /\ t'.pc = "send" /\ t'.peer = t.peer /\ t'.seq = peers[t.peer].sendSeq + 1
    BY DEF NumberData, StoreInv, TypeOK, TunState
  <1>3. /\ peers'[t.peer].sendSeq = peers[t.peer].sendSeq + 1
        /\ peers'[t.peer].cipher = peers[t.peer].cipher
        /\ \A p \in PeerIDs \ {t.peer} : peers'[p] = peers[p]
    BY <1>1 DEF NumberData, StoreInv, TypeOK, Peer
  <1>4. CipherInv' /\ WireInv' /\ WelcomeInv'
    BY <1>1, <1>3 DEF NonceInv, CipherInv, WireInv, WelcomeInv
  <1>5. NumberInv'
    <2> SUFFICES ASSUME NEW m \in net, NEW p \in PeerIDs, FromServer(m),
                        m.key = peers'[p].cipher
                 PROVE  /\ m.seq <= peers'[p].sendSeq
                        /\ t.peer = p => m.seq < t'.seq
      BY <1>1, <1>2, <1>3 DEF NumberInv
    <2>1. m.seq <= peers[p].sendSeq
      BY <1>3 DEF NonceInv, NumberInv
    <2>2. QED
      BY <2>1, <1>1, <1>2, <1>3
  <1>6. QED
    BY <1>4, <1>5 DEF NonceInv

LEMMA SendDataNonce ==
    ASSUME StoreInv, TypeOK', NonceInv, SendData
    PROVE  NonceInv'
  <1>1. /\ t'.pc # "send" /\ UNCHANGED <<u, peers, randoms>>
        /\ net' \subseteq net \cup {Data}
    BY ReadingTypes DEF SendData
  <1>2. /\ t.peer \in PeerIDs /\ peers[t.peer].cipher \in PeerKeys
        /\ peers[t.peer].cipher # NilCipher /\ t.seq <= peers[t.peer].sendSeq
    BY DEF SendData, StoreInv, KeyedBeforeRouted, TypeOK, Peer, NonceInv, NumberInv
  <1>3. /\ Data.key = peers[t.peer].cipher /\ Data.seq = t.seq
        /\ Data.nonce = BuildNonce("s2c", Data.seq)
    BY DEF Data, EncodePacket, Seal, Header
  <1>4. /\ Data.key \in PeerKeys /\ Data.key[3] <= randoms /\ Data.key \notin WelcomeKeys
    BY <1>2, <1>3, KeysDisjoint DEF NonceInv, CipherInv
  <1>5. CipherInv' /\ WireInv' /\ WelcomeInv'
    BY <1>1, <1>3, <1>4 DEF NonceInv, CipherInv, WireInv, WelcomeInv, FromServer
  <1>6. \A p \in PeerIDs : Data.key = peers[p].cipher => p = t.peer
    BY <1>2, <1>3 DEF NonceInv, CipherInv
  <1>7. NumberInv'
    BY <1>1, <1>2, <1>3, <1>6 DEF NonceInv, NumberInv
  <1>8. QED
    BY <1>5, <1>7 DEF NonceInv

\* A restarted server has no cipher at all.
LEMMA RestartNonce ==
    ASSUME TypeOK, TypeOK', NonceInv, Restart
    PROVE  NonceInv'
  <1>1. /\ u'.pc = "read" /\ t'.pc = "read" /\ UNCHANGED <<net, randoms>>
        /\ \A p \in PeerIDs : peers'[p].cipher = NilCipher
    BY ReadingTypes DEF Restart, Start, FreePeer, NewPeer
  <1>2. \A m \in net : m.key # NilCipher
    BY KeysDisjoint DEF NonceInv, WireInv
  <1>3. QED
    BY <1>1, <1>2 DEF NonceInv, CipherInv, WireInv, WelcomeInv, NumberInv, Greeting

LEMMA ReadPacketNonce ==
    ASSUME TypeOK, TypeOK', NonceInv, NEW m, ReadPacket(m)
    PROVE  NonceInv'
  <1>1. u'.pc \in Greeting => u' = u
    BY DEF ReadPacket, UdpAt, Greeting
  <1>2. \A p \in PeerIDs : peers[p].sendSeq \in Nat
    BY DEF TypeOK, Peer
  <1>3. SameKeys
    BY <1>1, <1>2 DEF ReadPacket, history, SameKeys
  <1>4. QED
    BY <1>3, SameKeysNonce

LEMMA ServerStepNonce == StoreInv /\ NonceInv /\ ServerStep => NonceInv'
  <1> SUFFICES ASSUME StoreInv, NonceInv, ServerStep PROVE NonceInv'
    OBVIOUS
  <1>0. TypeOK /\ TypeOK'
    BY ServerStepType DEF StoreInv
  <1>q. ASSUME SameKeys PROVE NonceInv'
    BY <1>0, <1>q, SameKeysNonce
  <1>n. \A p \in PeerIDs : peers[p].sendSeq \in Nat
    BY <1>0 DEF TypeOK, Peer
  <1>1. CASE Terminated
    BY <1>1, <1>n, <1>q DEF Terminated, vars, history, SameKeys
  <1>2. CASE SetTunnelIP \/ NumberWelcome
    <2>1. u.peer \in PeerIDs /\ u.pc \in Greeting
      BY <1>0, <1>2 DEF SetTunnelIP, NumberWelcome, TypeOK, AlohaPcs, Greeting
    <2>2. u'.pc \in Greeting => u'.random = u.random
      BY <1>0, <1>2, ReadingTypes
         DEF SetTunnelIP, NumberWelcome, TypeOK, UdpState, Greeting
    <2>3. \A p \in PeerIDs : /\ peers'[p].cipher = peers[p].cipher
                             /\ peers'[p].sendSeq >= peers[p].sendSeq
      BY <1>0, <1>2, <1>n, <2>1 DEF SetTunnelIP, NumberWelcome, TypeOK, Peer
    <2>4. QED
      BY <1>2, <1>q, <2>1, <2>2, <2>3 DEF SetTunnelIP, NumberWelcome, SameKeys, history
  <1>3. CASE HandlePacket \/ Deliver \/ Touch
    <2>1. u'.pc \notin Greeting
      BY <1>0, <1>3, ReadingTypes
         DEF HandlePacket, Deliver, Touch, TypeOK, UdpState, Greeting
    <2>2. \A p \in PeerIDs : /\ peers'[p].cipher = peers[p].cipher
                             /\ peers'[p].sendSeq = peers[p].sendSeq
      BY <1>0, <1>3 DEF HandlePacket, Deliver, Touch, TypeOK, Peer
    <2>3. UNCHANGED <<net, randoms, t>>
      BY <1>3 DEF HandlePacket, Deliver, Touch, history
    <2>4. QED
      BY <1>n, <1>q, <2>1, <2>2, <2>3 DEF SameKeys
  <1>4. ASSUME NEW dst \in TunnelIPs, ReadTun(dst) PROVE NonceInv'
    BY <1>4, <1>n, <1>q DEF ReadTun, TunAt, SameKeys, history
  <1>5. CASE ReadTunFails \/ ReadUdpFails
    BY <1>5, <1>n, <1>q, ReadingTypes
       DEF ReadTunFails, ReadUdpFails, SameKeys, history, Greeting
  <1>6. CASE ExpirePeersLoop
    BY <1>6, <1>n, <1>q
       DEF ExpirePeersLoop, TickerFires, ReadNow, DeleteExpired, ExpiryEnds,
           SameKeys, history
  <1>7. CASE Tick
    <2>1. \A p \in PeerIDs : /\ peers'[p].cipher = peers[p].cipher
                             /\ peers'[p].sendSeq = peers[p].sendSeq
      BY <1>0, <1>7 DEF Tick, TypeOK, Peer
    <2>2. QED
      BY <1>7, <1>n, <1>q, <2>1 DEF Tick, SameKeys, history
  <1>8. CASE SetCipher \/ SendWelcome \/ NumberData \/ SendData \/ Restart
    BY <1>0, <1>8, SetCipherNonce, SendWelcomeNonce, NumberDataNonce, SendDataNonce,
       RestartNonce
  <1>9. QED
    BY <1>1, <1>2, <1>3, <1>4, <1>5, <1>6, <1>7, <1>8 DEF ServerStep, UdpToTun, TunToUdp

LEMMA NextNonce == StoreInv /\ NonceInv /\ [Next]_vars => NonceInv'
  <1> SUFFICES ASSUME StoreInv, NonceInv, [Next]_vars PROVE NonceInv'
    OBVIOUS
  <1>0. TypeOK /\ TypeOK'
    BY NextType DEF StoreInv
  <1>1. CASE UNCHANGED vars
    <2>1. \A p \in PeerIDs : peers[p].sendSeq \in Nat
      BY <1>0 DEF TypeOK, Peer
    <2>2. QED
      BY <1>0, <1>1, <2>1, SameKeysNonce DEF vars, history, SameKeys
  <1>2. CASE AlohaArrives
    BY <1>0, <1>2, RegisterNonce DEF AlohaArrives
  <1>3. CASE SessionPacketArrives
    BY <1>0, <1>3, ReadPacketNonce DEF SessionPacketArrives
  <1>4. QED
    BY <1>1, <1>2, <1>3, ServerStepNonce DEF Next

LEMMA InitNonce == Init => NonceInv /\ TakenInv
  <1> SUFFICES ASSUME Init PROVE NonceInv /\ TakenInv
    OBVIOUS
  <1>1. /\ u.pc = "read" /\ t.pc = "read" /\ net = {} /\ delivered = {}
        /\ \A p \in PeerIDs : peers[p].cipher = NilCipher
    BY ReadingTypes DEF Init, FreePeer, NewPeer
  <1>2. QED
    BY <1>1 DEF NonceInv, CipherInv, WireInv, WelcomeInv, NumberInv, Greeting,
                TakenInv, SessionPcs

LEMMA NonceInvFresh == StoreInv /\ NonceInv => NonceFresh
  <1> SUFFICES ASSUME StoreInv, NonceInv PROVE NonceFresh
    OBVIOUS
  <1>1. ASSUME u.pc = "welcome" PROVE Unused(Welcome)
    <2>1. u.m.random \in ClientRandoms /\ u.random \in Nat
      BY <1>1 DEF StoreInv, TypeOK, AlohaPcs, UdpState
    <2>2. Welcome.key \in WelcomeKeys /\ Welcome.key[2] = u.random
      BY <2>1 DEF Welcome, EncodeWelcome, Seal, Header, WelcomeKey, WelcomeKeys
    <2>3. QED
      BY <1>1, <2>2 DEF Unused, NonceInv, WelcomeInv, Greeting
  <1>2. ASSUME t.pc = "send" PROVE Unused(Data)
    <2>1. t.peer \in PeerIDs /\ t.seq \in Nat
      BY <1>2 DEF StoreInv, TypeOK, TunState
    <2>2. Data.key = peers[t.peer].cipher /\ Data.nonce = BuildNonce("s2c", t.seq)
      BY DEF Data, EncodePacket, Seal, Header
    <2>3. ASSUME NEW m \in net, m.key = Data.key PROVE m.nonce # Data.nonce
      <3>1. CASE FromServer(m)
        <4>1. m.seq < t.seq /\ m.seq \in Nat
          BY <1>2, <2>1, <2>2, <2>3, <3>1
             DEF NonceInv, NumberInv, StoreInv, TypeOK, Packet
        <4>2. QED
          BY <2>1, <2>2, <3>1, <4>1 DEF FromServer, BuildNonce
      <3>2. CASE ~FromServer(m)
        BY <2>2, <3>2 DEF NonceInv, WireInv, BuildNonce
      <3>3. QED
        BY <3>1, <3>2
    <2>4. QED
      BY <2>3 DEF Unused
  <1>3. QED
    BY <1>1, <1>2 DEF NonceFresh

(***************************************************************************)
(* The server seals no two packets under one key and nonce: neither across *)
(* its two sending goroutines, nor for a client that registers again, nor  *)
(* after a restart that gives out the same peer IDs and numbers.           *)
(***************************************************************************)
THEOREM NoncesAreFresh == Spec => []NonceFresh
  BY InitNonce, InitStore, NextStore, NextNonce, NonceInvFresh, PTL DEF Spec

-----------------------------------------------------------------------------
(***************************************************************************)
(* At most once                                                            *)
(***************************************************************************)
\* No step of this frame delivers, or changes a cipher or a window.
SameWindows ==
    /\ UNCHANGED <<delivered, randoms>>
    /\ \A p \in PeerIDs :
        peers'[p].cipher = peers[p].cipher /\ peers'[p].window = peers[p].window
    /\ u'.pc \in SessionPcs =>
        u.pc \in SessionPcs /\ u'.peer = u.peer /\ u'.m = u.m
    /\ u'.pc = "deliver" => u.pc = "deliver"

LEMMA SameWindowsTaken ==
    ASSUME TypeOK, TakenInv, SameWindows
    PROVE  TakenInv'
  <1>1. u.pc \in SessionPcs => u.peer \in PeerIDs
    BY DEF TypeOK, SessionPcs
  <1>2. QED
    BY <1>1 DEF TakenInv, SameWindows, SessionPcs

LEMMA RegisterTaken ==
    ASSUME TypeOK, TakenInv, NEW r \in ClientRandoms, NEW a \in Addrs,
           Register(EncodeAloha(r, a))
    PROVE  TakenInv'
  <1> DEFINE m == EncodeAloha(r, a)
  <1>m. m.random = r /\ Register(m)
    BY ArrivalTypes
  <1> HIDE DEF m
  <1>1. CASE byClientRandom[r] # NoPeer
    BY <1>1, <1>m, SameWindowsTaken DEF Register, SameWindows, history
  <1>2. CASE byClientRandom[r] = NoPeer
    <2>1. /\ nextID \in PeerIDs
          /\ peers' = [peers EXCEPT ![nextID] = NewPeer(m.addr, r)]
          /\ u'.pc = "key" /\ UNCHANGED <<delivered, randoms>>
      BY <1>2, <1>m, BoundsAssumption
         DEF Register, NewID, UdpAt, TypeOK, PeerIDs, history
    <2>2. /\ peers'[nextID].cipher = NilCipher
          /\ \A p \in PeerIDs \ {nextID} : peers'[p] = peers[p]
      BY <2>1 DEF TypeOK, NewPeer
    <2>3. \A d \in delivered : d.key # NilCipher
      BY KeysDisjoint DEF TakenInv
    <2>4. QED
      BY <2>1, <2>2, <2>3 DEF TakenInv, SessionPcs
  <1>3. QED
    BY <1>1, <1>2

\* Nothing was delivered under the new cipher.
LEMMA SetCipherTaken ==
    ASSUME TypeOK, TakenInv, SetCipher
    PROVE  TakenInv'
  <1> DEFINE k == NewPeerCipher(randoms')
  <1>1. /\ u.peer \in PeerIDs /\ u.m.random \in ClientRandoms
        /\ randoms \in Nat /\ randoms' = randoms + 1 /\ UNCHANGED delivered
    BY DEF TypeOK, SetCipher, AlohaPcs
  <1>2. k[3] = randoms'
    BY <1>1, PeerKeyFacts DEF NewPeerCipher
  <1>3. /\ peers'[u.peer].cipher = k
        /\ \A p \in PeerIDs \ {u.peer} : peers'[p] = peers[p]
    BY <1>1 DEF TypeOK, SetCipher, Peer
  <1> HIDE DEF k
  <1>4. u'.pc = "route"
    BY DEF SetCipher, TypeOK, UdpState
  <1>5. \A d \in delivered : d.key[3] \in Nat /\ d.key # k /\ d.key[3] <= randoms'
    BY <1>1, <1>2, KeysDisjoint DEF TakenInv
  <1>6. QED
    BY <1>1, <1>3, <1>4, <1>5 DEF TakenInv, SessionPcs

\* A handler starts with a packet sealed under its peer's cipher.
LEMMA ReadPacketTaken ==
    ASSUME TypeOK, TakenInv, NEW m, ReadPacket(m)
    PROVE  TakenInv'
  <1>1. UNCHANGED <<peers, delivered, randoms>>
    BY DEF ReadPacket, history
  <1>2. CASE u' = u
    BY <1>1, <1>2, SameWindowsTaken DEF SameWindows
  <1>3. CASE u' # u
    <2>1. /\ u' = UdpAt("handle", m.id, m)
          /\ DecodesPacket(m, peers[m.id].cipher, "c2s")
      BY <1>3 DEF ReadPacket
    <2>2. /\ u'.pc = "handle" /\ u'.peer = m.id /\ u'.m = m
          /\ peers[m.id].cipher # NilCipher /\ m.key = peers[m.id].cipher
      BY <2>1 DEF UdpAt, DecodesPacket, Opens
    <2>3. QED
      BY <1>1, <2>2 DEF TakenInv
  <1>4. QED
    BY <1>2, <1>3

\* acceptClientSequence lets through only what was not delivered, and from
\* then on refuses it.
LEMMA HandlePacketTaken ==
    ASSUME TypeOK, CipherInv, TakenInv, HandlePacket
    PROVE  TakenInv'
  <1> DEFINE w == peers[u.peer].window
  <1>1. /\ u.peer \in PeerIDs /\ u.m.seq \in Nat /\ w \in ReplayWindows
        /\ peers[u.peer].cipher # NilCipher /\ u.m.key = peers[u.peer].cipher
        /\ UNCHANGED <<delivered, randoms>>
    BY DEF HandlePacket, TypeOK, Packet, Peer, TakenInv, SessionPcs, history
  <1>2. CASE UNCHANGED peers /\ u'.pc = "read"
    BY <1>1, <1>2, SameWindowsTaken DEF SameWindows, SessionPcs
  <1>3. CASE ~(UNCHANGED peers /\ u'.pc = "read")
    <2>1. /\ Accepts(w, u.m.seq)
          /\ peers' = [peers EXCEPT ![u.peer].window = Accept(@, u.m.seq)]
          /\ u' = [u EXCEPT !.pc = IF u.m.type = "DATA" THEN "deliver" ELSE "touch"]
      BY <1>3, ReadingTypes DEF HandlePacket
    <2>2. /\ u'.peer = u.peer /\ u'.m = u.m /\ u'.pc \in SessionPcs
      BY <2>1 DEF TypeOK, UdpState, SessionPcs
    <2>3. /\ peers'[u.peer].cipher = peers[u.peer].cipher
          /\ peers'[u.peer].window = Accept(w, u.m.seq)
          /\ \A p \in PeerIDs \ {u.peer} : peers'[p] = peers[p]
      BY <1>1, <2>1 DEF TypeOK, Peer
    <2> HIDE DEF w
    <2>4. ~Accepts(Accept(w, u.m.seq), u.m.seq)
      BY <1>1, <2>1, AcceptOnce
    <2>5. \A d \in delivered : d.seq \in Nat
      BY DEF TypeOK
    <2>6. [key |-> u.m.key, seq |-> u.m.seq] \notin delivered
      BY <1>1, <2>1 DEF TakenInv, w
    <2>7. ASSUME NEW d \in delivered, NEW p \in PeerIDs, d.key = peers'[p].cipher
          PROVE  ~Accepts(peers'[p].window, d.seq)
      <3>1. d.key = peers[p].cipher /\ ~Accepts(peers[p].window, d.seq)
        BY <2>3, <2>7 DEF TakenInv
      <3>2. CASE p = u.peer
        BY <3>1, <3>2, <1>1, <2>3, <2>5, RefusedForEver DEF w
      <3>3. CASE p # u.peer
        BY <3>1, <3>3, <2>3
      <3>4. QED
        BY <3>2, <3>3
    <2>8. QED
      BY <1>1, <2>2, <2>3, <2>4, <2>6, <2>7 DEF TakenInv
  <1>4. QED
    BY <1>2, <1>3

LEMMA DeliverTaken ==
    ASSUME TypeOK, CipherInv, TakenInv, Deliver
    PROVE  TakenInv'
  <1> DEFINE d == [key |-> u.m.key, seq |-> u.m.seq]
  <1>1. /\ u.peer \in PeerIDs /\ d.key = peers[u.peer].cipher /\ d.key \in PeerKeys
        /\ ~Accepts(peers[u.peer].window, d.seq)
    BY DEF Deliver, TypeOK, Peer, TakenInv, SessionPcs
  <1>2. d.key[3] <= randoms /\ \A p \in PeerIDs : d.key = peers[p].cipher => p = u.peer
    BY <1>1, KeysDisjoint DEF CipherInv
  <1>3. /\ delivered' \subseteq delivered \cup {d} /\ UNCHANGED <<peers, randoms>>
        /\ u'.pc # "deliver"
        /\ u'.pc \in SessionPcs => u'.peer = u.peer /\ u'.m = u.m
    BY ReadingTypes DEF Deliver, TypeOK, UdpState, SessionPcs
  <1>4. u.pc \in SessionPcs
    BY DEF Deliver, SessionPcs
  <1> HIDE DEF d
  <1>5. QED
    BY <1>1, <1>2, <1>3, <1>4 DEF TakenInv

LEMMA RestartTaken ==
    ASSUME TypeOK, TakenInv, Restart
    PROVE  TakenInv'
  <1>1. /\ u'.pc = "read" /\ UNCHANGED <<delivered, randoms>>
        /\ \A p \in PeerIDs : peers'[p].cipher = NilCipher
    BY ReadingTypes DEF Restart, Start, FreePeer, NewPeer
  <1>2. \A d \in delivered : d.key # NilCipher
    BY KeysDisjoint DEF TakenInv
  <1>3. QED
    BY <1>1, <1>2 DEF TakenInv, SessionPcs

LEMMA ServerStepTaken == TypeOK /\ CipherInv /\ TakenInv /\ ServerStep => TakenInv'
  <1> SUFFICES ASSUME TypeOK, CipherInv, TakenInv, ServerStep PROVE TakenInv'
    OBVIOUS
  <1>1. CASE Terminated
    BY <1>1, SameWindowsTaken DEF Terminated, vars, history, SameWindows
  <1>2. CASE SetTunnelIP \/ NumberWelcome \/ SendWelcome \/ Touch \/ ReadUdpFails
    <2>1. u'.pc \notin SessionPcs
      BY <1>2, ReadingTypes
         DEF SetTunnelIP, NumberWelcome, SendWelcome, Touch, ReadUdpFails, TypeOK,
             UdpState, SessionPcs
    <2>2. \A p \in PeerIDs : /\ peers'[p].cipher = peers[p].cipher
                             /\ peers'[p].window = peers[p].window
      BY <1>2 DEF SetTunnelIP, NumberWelcome, SendWelcome, Touch, ReadUdpFails,
                  TypeOK, Peer
    <2>3. UNCHANGED <<delivered, randoms>>
      BY <1>2 DEF SetTunnelIP, NumberWelcome, SendWelcome, Touch, ReadUdpFails, history
    <2>4. QED
      BY <2>1, <2>2, <2>3, SameWindowsTaken DEF SameWindows, SessionPcs
  <1>3. CASE TunToUdp \/ ExpirePeersLoop \/ Tick
    <2>1. UNCHANGED <<u, delivered, randoms>>
      BY <1>3 DEF TunToUdp, ReadTun, ReadTunFails, NumberData, SendData,
                  ExpirePeersLoop, TickerFires, ReadNow, DeleteExpired, ExpiryEnds,
                  Tick, history
    <2>2. \A p \in PeerIDs : /\ peers'[p].cipher = peers[p].cipher
                             /\ peers'[p].window = peers[p].window
      BY <1>3 DEF TunToUdp, ReadTun, ReadTunFails, NumberData, SendData,
                  ExpirePeersLoop, TickerFires, ReadNow, DeleteExpired, ExpiryEnds,
                  Tick, TypeOK, Peer
    <2>3. QED
      BY <2>1, <2>2, SameWindowsTaken DEF SameWindows
  <1>4. CASE SetCipher \/ HandlePacket \/ Deliver \/ Restart
    BY <1>4, SetCipherTaken, HandlePacketTaken, DeliverTaken, RestartTaken
  <1>5. QED
    BY <1>1, <1>2, <1>3, <1>4 DEF ServerStep, UdpToTun

LEMMA NextTaken == TypeOK /\ CipherInv /\ TakenInv /\ [Next]_vars => TakenInv'
  <1> SUFFICES ASSUME TypeOK, CipherInv, TakenInv, [Next]_vars PROVE TakenInv'
    OBVIOUS
  <1>1. CASE UNCHANGED vars
    BY <1>1, SameWindowsTaken DEF vars, history, SameWindows
  <1>2. CASE AlohaArrives
    BY <1>2, RegisterTaken DEF AlohaArrives
  <1>3. CASE SessionPacketArrives
    BY <1>3, ReadPacketTaken DEF SessionPacketArrives
  <1>4. QED
    BY <1>1, <1>2, <1>3, ServerStepTaken DEF Next

(***************************************************************************)
(* No client packet is written to the server's TUN twice, for any window   *)
(* size and whatever is repeated, reordered, expired or restarted between  *)
(* its copies.                                                             *)
(***************************************************************************)
THEOREM DeliveredAtMostOnce == Spec => []AtMostOnce
  <1>1. TakenInv => AtMostOnce
    BY DEF TakenInv, AtMostOnce
  <1>2. StoreInv => TypeOK
    BY DEF StoreInv
  <1>3. NonceInv => CipherInv
    BY DEF NonceInv
  <1>4. QED
    BY <1>1, <1>2, <1>3, InitNonce, InitStore, NextStore, NextNonce, NextTaken, PTL DEF Spec

-----------------------------------------------------------------------------
(***************************************************************************)
(* The grants of the WELCOMEs                                              *)
(***************************************************************************)
\* The handler of an ALOHA has put into its peer what its WELCOME will say.
GreetInv ==
    /\ u.pc \in AlohaPcs =>
        peers[u.peer].addr = u.m.addr /\ peers[u.peer].clientRandom = u.m.random
    /\ u.pc \in Greeting =>
        peers[u.peer].cipher = PeerKey(u.peer, u.m.random, u.random)
    /\ u.pc \in {"number", "welcome"} => peers[u.peer].tunnelIP = TunnelIPOf(u.peer)

\* w is the WELCOME of the session whose cipher its peer has now.
Current(w, r) ==
    /\ DecodesWelcome(w, r)
    /\ w.id \in PeerIDs
    /\ peers[w.id].cipher = PeerKey(w.id, r, w.random)

GrantInv ==
    \A w \in net, r \in ClientRandoms : Current(w, r) =>
        /\ w.body # NoIP
        /\ peers[w.id].tunnelIP = w.body
        /\ peers[w.id].addr = w.addr

\* A peer's cipher is for the client that registered it.
OwnerInv ==
    \A p \in PeerIDs : peers[p].cipher # NilCipher =>
        peers[p].cipher[2] = peers[p].clientRandom

WelcomesInv == GreetInv /\ GrantInv /\ OwnerInv

LEMMA PeerKeyInjective ==
    ASSUME NEW p, NEW r, NEW n, NEW q, NEW x, NEW k,
           PeerKey(p, r, n) = PeerKey(q, x, k)
    PROVE  p = q /\ r = x /\ n = k
  BY DEF PeerKey

LEMMA PeerKeyNotNil ==
    ASSUME NEW p, NEW r, NEW n
    PROVE  PeerKey(p, r, n) # NilCipher
  BY DEF PeerKey, NilCipher

\* The random that travels in a WELCOME is the one in its key.
LEMMA WelcomeRandom ==
    ASSUME WireInv, NEW w \in net, NEW r \in ClientRandoms, DecodesWelcome(w, r)
    PROVE  /\ w.key \in WelcomeKeys /\ w.key[2] = w.random
           /\ w.random <= randoms /\ w.random \in Nat
  <1>1. w.key = <<r, w.random>>
    BY DEF DecodesWelcome, Opens, WelcomeKey
  <1>2. w.key \notin PeerKeys /\ w.key \notin AlohaKeys
    BY <1>1 DEF PeerKeys, AlohaKeys
  <1>3. QED
    BY <1>1, <1>2 DEF WireInv, WelcomeKeys

\* No step of this frame changes what a WELCOME speaks of.
SameGrants ==
    /\ UNCHANGED net
    /\ \A p \in PeerIDs :
        /\ peers'[p].cipher = peers[p].cipher
        /\ peers'[p].tunnelIP = peers[p].tunnelIP
        /\ peers'[p].addr = peers[p].addr
        /\ peers'[p].clientRandom = peers[p].clientRandom
    /\ u'.pc \in AlohaPcs => u.pc \in AlohaPcs /\ u'.peer = u.peer /\ u'.m = u.m
    /\ u'.pc \in Greeting => u.pc \in Greeting /\ u'.random = u.random
    /\ u'.pc \in {"number", "welcome"} => u.pc \in {"number", "welcome"}

LEMMA SameGrantsWelcomes ==
    ASSUME TypeOK, WelcomesInv, SameGrants
    PROVE  WelcomesInv'
  <1>1. u.pc \in AlohaPcs => u.peer \in PeerIDs
    BY DEF TypeOK, AlohaPcs
  <1>2. GreetInv'
    BY <1>1 DEF WelcomesInv, GreetInv, SameGrants, AlohaPcs, Greeting
  <1>3. GrantInv' /\ OwnerInv'
    BY DEF WelcomesInv, GrantInv, Current, OwnerInv, SameGrants
  <1>4. QED
    BY <1>2, <1>3 DEF WelcomesInv

LEMMA RegisterWelcomes ==
    ASSUME TypeOK, WelcomesInv, NEW r \in ClientRandoms, NEW a \in Addrs,
           Register(EncodeAloha(r, a))
    PROVE  WelcomesInv'
  <1> DEFINE m == EncodeAloha(r, a)
  <1>m. m.random = r /\ Register(m)
    BY ArrivalTypes
  <1> HIDE DEF m
  <1>1. CASE byClientRandom[r] # NoPeer
    BY <1>1, <1>m, SameGrantsWelcomes DEF Register, SameGrants, history
  <1>2. CASE byClientRandom[r] = NoPeer
    <2>1. /\ nextID \in PeerIDs
          /\ peers' = [peers EXCEPT ![nextID] = NewPeer(m.addr, r)]
          /\ u'.pc = "key" /\ u'.peer = nextID /\ u'.m = m /\ UNCHANGED net
      BY <1>2, <1>m, BoundsAssumption
         DEF Register, NewID, UdpAt, TypeOK, PeerIDs, history
    <2>2. /\ peers'[nextID].cipher = NilCipher /\ peers'[nextID].addr = m.addr
          /\ peers'[nextID].clientRandom = m.random
          /\ \A p \in PeerIDs \ {nextID} : peers'[p] = peers[p]
      BY <1>m, <2>1 DEF TypeOK, NewPeer
    <2>3. GreetInv'
      BY <2>1, <2>2 DEF GreetInv, Greeting
    <2>4. GrantInv' /\ OwnerInv'
      BY <2>1, <2>2, PeerKeyNotNil DEF WelcomesInv, GrantInv, Current, OwnerInv
    <2>5. QED
      BY <2>3, <2>4 DEF WelcomesInv
  <1>3. QED
    BY <1>1, <1>2

\* A new cipher leaves all WELCOMEs of its peer behind.
LEMMA SetCipherWelcomes ==
    ASSUME TypeOK, WireInv, WelcomesInv, SetCipher
    PROVE  WelcomesInv'
  <1>1. /\ u.peer \in PeerIDs /\ randoms \in Nat /\ randoms' = randoms + 1
        /\ UNCHANGED net
    BY DEF TypeOK, SetCipher, AlohaPcs
  <1>2. /\ peers'[u.peer].cipher = PeerKey(u.peer, u.m.random, randoms')
        /\ peers'[u.peer].addr = peers[u.peer].addr
        /\ peers'[u.peer].clientRandom = peers[u.peer].clientRandom
        /\ \A p \in PeerIDs \ {u.peer} : peers'[p] = peers[p]
    BY <1>1 DEF TypeOK, SetCipher, Peer, NewPeerCipher
  <1>3. u'.pc = "route" /\ u'.peer = u.peer /\ u'.m = u.m /\ u'.random = randoms'
    BY DEF SetCipher, TypeOK, UdpState
  <1>4. GreetInv'
    BY <1>2, <1>3 DEF WelcomesInv, GreetInv, Greeting, AlohaPcs, SetCipher
  <1>5. ASSUME NEW w \in net, NEW r \in ClientRandoms, Current(w, r)'
        PROVE  w.id # u.peer
    <2>1. w.random <= randoms /\ w.random \in Nat
      BY <1>5, WelcomeRandom DEF Current
    <2>2. w.id = u.peer => w.random = randoms'
      BY <1>2, <1>5, PeerKeyInjective DEF Current
    <2>3. QED
      BY <1>1, <2>1, <2>2
  <1>6. GrantInv'
    BY <1>1, <1>2, <1>5 DEF WelcomesInv, GrantInv, Current
  <1>7. OwnerInv'
    <2>1. peers[u.peer].clientRandom = u.m.random
      BY DEF SetCipher, WelcomesInv, GreetInv, AlohaPcs
    <2>2. PeerKey(u.peer, u.m.random, randoms')[2] = u.m.random
      BY DEF PeerKey
    <2>3. QED
      BY <1>2, <2>1, <2>2 DEF WelcomesInv, OwnerInv
  <1>8. QED
    BY <1>4, <1>6, <1>7 DEF WelcomesInv

\* The address is given out before any WELCOME of this session is sent.
LEMMA SetTunnelIPWelcomes ==
    ASSUME TypeOK, WireInv, WelcomeInv, WelcomesInv, SetTunnelIP
    PROVE  WelcomesInv'
  <1>1. u.peer \in PeerIDs /\ u.pc = "route" /\ UNCHANGED net
    BY DEF TypeOK, SetTunnelIP, AlohaPcs, history
  <1>2. CASE Refusal # "none"
    BY <1>2, ReadingTypes, SameGrantsWelcomes
       DEF SetTunnelIP, SameGrants, history, AlohaPcs, Greeting
  <1>3. CASE Refusal = "none"
    <2>1. /\ peers'[u.peer].tunnelIP = TunnelIPOf(u.peer)
          /\ peers'[u.peer].cipher = peers[u.peer].cipher
          /\ peers'[u.peer].addr = peers[u.peer].addr
          /\ peers'[u.peer].clientRandom = peers[u.peer].clientRandom
          /\ \A p \in PeerIDs \ {u.peer} : peers'[p] = peers[p]
      BY <1>1, <1>3 DEF TypeOK, SetTunnelIP, Peer
    <2>2. /\ u'.pc = "number" /\ u'.peer = u.peer /\ u'.m = u.m
          /\ u'.random = u.random
      BY <1>3 DEF SetTunnelIP, TypeOK, UdpState
    <2>3. GreetInv'
      BY <1>1, <2>1, <2>2 DEF WelcomesInv, GreetInv, Greeting, AlohaPcs
    <2>4. ASSUME NEW w \in net, NEW r \in ClientRandoms, Current(w, r)'
          PROVE  w.id # u.peer
      <3>1. w.key \in WelcomeKeys /\ w.key[2] = w.random
        BY <2>4, WelcomeRandom DEF Current
      <3>2. w.random # u.random
        BY <1>1, <3>1 DEF WelcomeInv, Greeting
      <3>3. peers[u.peer].cipher = PeerKey(u.peer, u.m.random, u.random)
        BY <1>1 DEF WelcomesInv, GreetInv, Greeting
      <3>4. w.id = u.peer => w.random = u.random
        BY <2>1, <2>4, <3>3, PeerKeyInjective DEF Current
      <3>5. QED
        BY <3>2, <3>4
    <2>5. GrantInv' /\ OwnerInv'
      BY <1>1, <2>1, <2>4 DEF WelcomesInv, GrantInv, Current, OwnerInv
    <2>6. QED
      BY <2>3, <2>5 DEF WelcomesInv
  <1>4. QED
    BY <1>2, <1>3

LEMMA SendWelcomeWelcomes ==
    ASSUME TypeOK, WelcomesInv, SendWelcome
    PROVE  WelcomesInv'
  <1>1. /\ u.peer \in PeerIDs /\ u.pc = "welcome" /\ UNCHANGED peers
        /\ u'.pc \in {"read", "stopped"} /\ net' \subseteq net \cup {Welcome}
    BY ReadingTypes DEF TypeOK, SendWelcome, AlohaPcs
  <1>2. /\ Welcome.id = u.peer /\ Welcome.body = TunnelIPOf(u.peer)
        /\ Welcome.addr = u.m.addr
    BY DEF Welcome, EncodeWelcome, Seal, Header
  <1>3. TunnelIPOf(u.peer) # NoIP
    BY <1>1, BoundsAssumption DEF TunnelIPOf, NoIP, PeerIDs
  <1>4. /\ peers[u.peer].addr = u.m.addr
        /\ peers[u.peer].tunnelIP = TunnelIPOf(u.peer)
    BY <1>1 DEF WelcomesInv, GreetInv, AlohaPcs
  <1>5. GreetInv'
    BY <1>1 DEF GreetInv, AlohaPcs, Greeting
  <1>6. GrantInv' /\ OwnerInv'
    BY <1>1, <1>2, <1>3, <1>4 DEF WelcomesInv, GrantInv, Current, OwnerInv
  <1>7. QED
    BY <1>5, <1>6 DEF WelcomesInv

LEMMA ReadPacketWelcomes ==
    ASSUME TypeOK, WelcomesInv, NEW m, ReadPacket(m)
    PROVE  WelcomesInv'
  <1>1. u' = u \/ u'.pc = "handle"
    BY DEF ReadPacket, UdpAt
  <1>2. QED
    BY <1>1, SameGrantsWelcomes DEF ReadPacket, history, SameGrants, AlohaPcs, Greeting

LEMMA ServerStepWelcomes ==
    TypeOK /\ NonceInv /\ WelcomesInv /\ ServerStep => WelcomesInv'
  <1> SUFFICES ASSUME TypeOK, NonceInv, WelcomesInv, ServerStep PROVE WelcomesInv'
    OBVIOUS
  <1>0. WireInv /\ WelcomeInv
    BY DEF NonceInv
  <1>1. CASE Terminated
    BY <1>1, SameGrantsWelcomes DEF Terminated, vars, history, SameGrants
  <1>2. CASE NumberWelcome
    <2>1. /\ u.pc = "number" /\ u'.pc = "welcome" /\ u'.peer = u.peer /\ u'.m = u.m
          /\ u'.random = u.random /\ UNCHANGED net
      BY <1>2 DEF NumberWelcome, TypeOK, UdpState, history
    <2>2. \A p \in PeerIDs : /\ peers'[p].cipher = peers[p].cipher
                             /\ peers'[p].tunnelIP = peers[p].tunnelIP
                             /\ peers'[p].addr = peers[p].addr
                             /\ peers'[p].clientRandom = peers[p].clientRandom
      BY <1>2 DEF NumberWelcome, TypeOK, Peer
    <2>3. QED
      BY <2>1, <2>2, SameGrantsWelcomes DEF SameGrants, AlohaPcs, Greeting
  <1>3. CASE HandlePacket \/ Deliver \/ Touch \/ ReadUdpFails
    <2>1. u'.pc \notin AlohaPcs
      BY <1>3, ReadingTypes
         DEF HandlePacket, Deliver, Touch, ReadUdpFails, TypeOK, UdpState, AlohaPcs
    <2>2. \A p \in PeerIDs : /\ peers'[p].cipher = peers[p].cipher
                             /\ peers'[p].tunnelIP = peers[p].tunnelIP
                             /\ peers'[p].addr = peers[p].addr
                             /\ peers'[p].clientRandom = peers[p].clientRandom
      BY <1>3 DEF HandlePacket, Deliver, Touch, ReadUdpFails, TypeOK, Peer
    <2>3. UNCHANGED net
      BY <1>3 DEF HandlePacket, Deliver, Touch, ReadUdpFails, history
    <2>4. QED
      BY <2>1, <2>2, <2>3, SameGrantsWelcomes DEF SameGrants, AlohaPcs, Greeting
  <1>4. CASE (TunToUdp /\ ~SendData) \/ ExpirePeersLoop \/ Tick
    <2>1. UNCHANGED <<u, net>>
      BY <1>4 DEF TunToUdp, ReadTun, ReadTunFails, NumberData,
                  ExpirePeersLoop, TickerFires, ReadNow, DeleteExpired, ExpiryEnds,
                  Tick, history
    <2>2. \A p \in PeerIDs : /\ peers'[p].cipher = peers[p].cipher
                             /\ peers'[p].tunnelIP = peers[p].tunnelIP
                             /\ peers'[p].addr = peers[p].addr
                             /\ peers'[p].clientRandom = peers[p].clientRandom
      BY <1>4 DEF TunToUdp, ReadTun, ReadTunFails, NumberData,
                  ExpirePeersLoop, TickerFires, ReadNow, DeleteExpired, ExpiryEnds,
                  Tick, TypeOK, Peer
    <2>3. QED
      BY <2>1, <2>2, SameGrantsWelcomes DEF SameGrants
  <1>5. CASE SendData
    <2>1. UNCHANGED <<u, peers>> /\ net' \subseteq net \cup {Data}
      BY <1>5 DEF SendData
    <2>2. Data.type = "DATA"
      BY DEF Data, EncodePacket, Seal, Header
    <2>3. GreetInv'
      BY <2>1 DEF WelcomesInv, GreetInv
    <2>4. GrantInv' /\ OwnerInv'
      BY <2>1, <2>2 DEF WelcomesInv, GrantInv, Current, DecodesWelcome, OwnerInv
    <2>5. QED
      BY <2>3, <2>4 DEF WelcomesInv
  <1>6. CASE Restart
    <2>1. /\ u'.pc = "read" /\ UNCHANGED net
          /\ \A p \in PeerIDs : peers'[p].cipher = NilCipher
      BY <1>6, ReadingTypes DEF Restart, Start, FreePeer, NewPeer
    <2>2. QED
      BY <2>1, PeerKeyNotNil
         DEF WelcomesInv, GreetInv, GrantInv, OwnerInv, Current, AlohaPcs, Greeting
  <1>7. CASE SetCipher \/ SetTunnelIP \/ SendWelcome
    BY <1>0, <1>7, SetCipherWelcomes, SetTunnelIPWelcomes, SendWelcomeWelcomes
  <1>8. QED
    BY <1>1, <1>2, <1>3, <1>4, <1>5, <1>6, <1>7 DEF ServerStep, UdpToTun

LEMMA NextWelcomes ==
    TypeOK /\ NonceInv /\ WelcomesInv /\ [Next]_vars => WelcomesInv'
  <1> SUFFICES ASSUME TypeOK, NonceInv, WelcomesInv, [Next]_vars PROVE WelcomesInv'
    OBVIOUS
  <1>1. CASE UNCHANGED vars
    BY <1>1, SameGrantsWelcomes DEF vars, history, SameGrants
  <1>2. CASE AlohaArrives
    BY <1>2, RegisterWelcomes DEF AlohaArrives
  <1>3. CASE SessionPacketArrives
    BY <1>3, ReadPacketWelcomes DEF SessionPacketArrives
  <1>4. QED
    BY <1>1, <1>2, <1>3, ServerStepWelcomes DEF Next

LEMMA InitWelcomes == Init => WelcomesInv
  <1> SUFFICES ASSUME Init PROVE WelcomesInv
    OBVIOUS
  <1>1. /\ u.pc = "read" /\ net = {}
        /\ \A p \in PeerIDs : peers[p].cipher = NilCipher
    BY ReadingTypes DEF Init, FreePeer, NewPeer
  <1>2. QED
    BY <1>1 DEF WelcomesInv, GreetInv, GrantInv, OwnerInv, AlohaPcs, Greeting

(***************************************************************************)
(* What a WELCOME grants its client is what the server does for as long as *)
(* it has the peer: the inner address leads to it, and to the UDP address  *)
(* that the ALOHA came from.                                               *)
(***************************************************************************)
THEOREM WelcomesAreHonoured == Spec => []WelcomeHonoured
  <1>1. StoreInv /\ WelcomesInv => WelcomeHonoured
    <2> SUFFICES ASSUME StoreInv, WelcomesInv, NEW w \in net, NEW r \in ClientRandoms,
                        DecodesWelcome(w, r), w.id \in byID,
                        peers[w.id].cipher = PeerKey(w.id, r, w.random)
                 PROVE  byTunnelIP[w.body] = w.id /\ peers[w.id].addr = w.addr
      BY DEF WelcomeHonoured
    <2>1. Current(w, r)
      BY DEF Current, StoreInv, TypeOK
    <2>2. QED
      BY <2>1 DEF WelcomesInv, GrantInv, StoreInv, StoreConsistent
  <1>2. StoreInv => TypeOK
    BY DEF StoreInv
  <1>3. QED
    BY <1>1, <1>2, InitNonce, InitWelcomes, InitStore, NextStore, NextNonce, NextWelcomes,
       PTL DEF Spec

-----------------------------------------------------------------------------
(***************************************************************************)
(* Part 3.  The server and its clients, over a network that repeats, keeps *)
(* back and reorders: the two ends of a session agree, inner packets reach *)
(* the client they are for and reach it once, and neither end uses a nonce *)
(* of a shared key again.                                                  *)
(*                                                                         *)
(* The server's own invariants carry over: what arrives is now taken from  *)
(* the network, and the network also holds what clients send.  Added are   *)
(* the shape of the packets on the wire and what a client knows.           *)
(***************************************************************************)

ServerInv ==
    StoreInv /\ StopInv /\ AddressInv /\ NonceInv /\ TakenInv /\ WelcomesInv

serverVars == <<store, peers, u, t, e, tick, cause, randoms, delivered, restarts>>

-----------------------------------------------------------------------------
(***************************************************************************)
(* The wire                                                                *)
(***************************************************************************)
\* What a packet says, and where tunToUdp is taking the one it holds: the
\* inner address is the one of the peer that the key belongs to.
ShapeInv ==
    /\ \A m \in net :
        /\ m.type = "ALOHA" =>
            \E r \in ClientRandoms, a \in Addrs : m = EncodeAloha(r, a)
        /\ m.type = "WELCOME" => m.id \in PeerIDs /\ m.body = TunnelIPOf(m.id)
        /\ m.type = "DATA" /\ FromServer(m) =>
            m.key \in PeerKeys /\ m.body = TunnelIPOf(m.key[1])
    /\ t.pc \in {"number", "send"} => t.dst = TunnelIPOf(t.peer)

(***************************************************************************)
(* The clients                                                             *)
(***************************************************************************)
ClientState ==
    [phase    : {"new", "waiting", "up", "off"},
     addr     : Addrs \cup {NoAddr},
     id       : Nat,
     tunnelIP : Nat,
     cipher   : PeerKeys \cup {NilCipher},
     sendSeq  : Nat,
     window   : ReplayWindows,
     taken    : [C!Senders -> Nat],
     reading  : Packet \cup {NoPacket}]

ClientType ==
    /\ client \in [ClientRandoms -> ClientState]
    /\ received \in SUBSET [key : PeerKeys, seq : Nat]

\* Only a client that is up has a session.
Down(r) ==
    client[r].phase # "up" =>
        /\ client[r].cipher = NilCipher
        /\ client[r].reading = NoPacket
        /\ \A s \in C!Senders : client[r].taken[s] = C!None

\* A session is what some WELCOME on the wire said.
WelcomedBy(r, w) ==
    /\ DecodesWelcome(w, r)
    /\ w.id = client[r].id
    /\ w.body = client[r].tunnelIP
    /\ w.addr = client[r].addr
    /\ client[r].cipher = PeerKey(w.id, r, w.random)

Welcomed(r) == client[r].phase = "up" => \E w \in net : WelcomedBy(r, w)

\* The client a key was made for has been up: it is up still, or gone.
Served(r) == client[r].phase \in {"up", "off"}

\* What was written to a client's TUN is refused by its window for ever; the
\* packet it is about to write is refused too, and is not one of those.
Taken(r) ==
    \A d \in received : d.key[2] = r =>
        /\ Served(r)
        /\ client[r].phase = "up" => ~Accepts(client[r].window, d.seq)

Reading(r) ==
    LET m == client[r].reading
    IN  m # NoPacket =>
            /\ m.key = client[r].cipher
            /\ m.body = client[r].tunnelIP
            /\ ~Accepts(client[r].window, m.seq)
            /\ [key |-> m.key, seq |-> m.seq] \notin received

\* What a client has sent under its key is not beyond its counter and has
\* none of the numbers that its senders hold; they hold different ones.
Sealed(r, m) == ~FromServer(m) /\ m.key \in PeerKeys /\ m.key[2] = r

Sent(r) ==
    \A m \in net : Sealed(r, m) =>
        /\ Served(r)
        /\ client[r].phase = "up" =>
            /\ m.seq <= client[r].sendSeq
            /\ \A s \in C!Senders :
                client[r].taken[s] # C!None => m.seq # client[r].taken[s]

Numbers(r) ==
    \A s \in C!Senders :
        /\ client[r].taken[s] <= client[r].sendSeq
        /\ \A o \in C!Senders \ {s} :
            client[r].taken[s] # C!None => client[r].taken[s] # client[r].taken[o]

ClientOK(r) == Down(r) /\ Welcomed(r) /\ Taken(r) /\ Reading(r) /\ Sent(r) /\ Numbers(r)

ClientInv == ClientType /\ \A r \in ClientRandoms : ClientOK(r)

TunnelInv == ServerInv /\ ShapeInv /\ ClientInv

-----------------------------------------------------------------------------
(***************************************************************************)
(* The server's invariants, in the company of clients                      *)
(***************************************************************************)
LEMMA ServerInvParts ==
    ServerInv => TypeOK /\ CipherInv /\ WireInv
  BY DEF ServerInv, StoreInv, NonceInv

LEMMA ServerStepInv == ServerInv /\ ServerStep => ServerInv'
  BY ServerInvParts, ServerStepStore, ServerStepStop, ServerStepNonce, ServerStepTaken,
     ServerStepWelcomes
     DEF ServerInv

\* Every datagram of the network is an ALOHA of the form that the server's
\* invariants allow for, or a packet.
LEMMA PacketArrivesInv == ServerInv /\ ShapeInv /\ PacketArrives => ServerInv'
  <1> SUFFICES ASSUME ServerInv, ShapeInv, PacketArrives PROVE ServerInv'
    OBVIOUS
  <1>0. TypeOK /\ StoreInv /\ StopInv /\ AddressInv /\ NonceInv /\ TakenInv /\ WelcomesInv
    BY ServerInvParts DEF ServerInv
  <1>1. PICK m \in net : Register(m) \/ ReadPacket(m)
    BY DEF PacketArrives
  <1>2. CASE Register(m)
    <2>1. PICK r \in ClientRandoms, a \in Addrs : m = EncodeAloha(r, a)
      BY <1>2 DEF Register, DecodesAloha, ShapeInv
    <2>2. Register(EncodeAloha(r, a)) /\ TypeOK'
      BY <1>0, <1>2, <2>1, RegisterType
    <2>3. QED
      BY <1>0, <2>2, RegisterStore, RegisterStop, RegisterNonce, RegisterTaken,
         RegisterWelcomes
         DEF ServerInv
  <1>3. CASE ReadPacket(m)
    <2>1. TypeOK'
      BY <1>0, <1>3, ReadPacketType DEF TypeOK
    <2>2. QED
      BY <1>0, <1>3, <2>1, ReadPacketStore, ReadPacketStop, ReadPacketNonce, ReadPacketTaken,
         ReadPacketWelcomes
         DEF ServerInv
  <1>4. QED
    BY <1>1, <1>2, <1>3

\* What a client may put on the wire.
ClientPacket(m) ==
    /\ m \in Packet
    /\ m.type # "WELCOME"
    /\ m.nonce = BuildNonce("c2s", m.seq)
    /\ \/ m.key \in AlohaKeys
       \/ m.key \in PeerKeys /\ m.key[3] <= randoms

LEMMA NotFromServer ==
    ASSUME NEW m, m.nonce = BuildNonce("c2s", m.seq)
    PROVE  ~FromServer(m)
  BY DEF FromServer, BuildNonce

\* It cannot be taken for one of the server's, and so disturbs nothing.
LEMMA ClientPacketInv ==
    ASSUME ServerInv, UNCHANGED serverVars,
           \A m \in net' : m \in net \/ ClientPacket(m)
    PROVE  ServerInv'
  <1>0. /\ StoreInv /\ StopInv /\ AddressInv /\ NonceInv /\ TakenInv /\ WelcomesInv
        /\ TypeOK /\ CipherInv /\ WireInv
    BY ServerInvParts DEF ServerInv
  <1> USE DEF serverVars
  <1>1. TypeOK'
    BY <1>0 DEF TypeOK, ClientPacket, store
  <1>2. StoreInv'
    BY <1>0, <1>1 DEF StoreInv, StoreConsistent, KeyedBeforeRouted, HandlerInv, store
  <1>3. StopInv' /\ AddressInv'
    BY <1>0 DEF StopInv, StopsForCause, AddressInv, store
  <1>4. TakenInv'
    BY <1>0 DEF TakenInv
  <1>5. CipherInv' /\ WireInv'
    BY <1>0 DEF CipherInv, WireInv, ClientPacket
  <1>6. WelcomeInv'
    BY <1>0, KeysDisjoint DEF NonceInv, WelcomeInv, ClientPacket
  <1>7. NumberInv'
    BY <1>0, NotFromServer DEF NonceInv, NumberInv, ClientPacket
  <1>8. WelcomesInv'
    <2>1. GreetInv' /\ OwnerInv'
      BY <1>0 DEF WelcomesInv, GreetInv, OwnerInv
    <2>2. GrantInv'
      BY <1>0 DEF WelcomesInv, GrantInv, Current, DecodesWelcome, ClientPacket
    <2>3. QED
      BY <2>1, <2>2 DEF WelcomesInv
  <1>9. QED
    BY <1>2, <1>3, <1>4, <1>5, <1>6, <1>7, <1>8 DEF ServerInv, NonceInv

-----------------------------------------------------------------------------
(***************************************************************************)
(* What the server adds to the wire                                        *)
(***************************************************************************)
LEMMA WelcomeShape ==
    ASSUME TypeOK, u.pc = "welcome"
    PROVE  /\ FromServer(Welcome) /\ Welcome.type = "WELCOME"
           /\ Welcome.id \in PeerIDs /\ Welcome.body = TunnelIPOf(Welcome.id)
  BY DEF TypeOK, AlohaPcs, Welcome, EncodeWelcome, Seal, Header, FromServer

LEMMA DataShape ==
    ASSUME ServerInv, ShapeInv, t.pc = "send"
    PROVE  /\ FromServer(Data) /\ Data.type = "DATA"
           /\ Data.key \in PeerKeys /\ Data.body = TunnelIPOf(Data.key[1])
  <1>1. TypeOK /\ CipherInv /\ t.peer \in PeerIDs /\ t.dst = TunnelIPOf(t.peer)
    BY ServerInvParts DEF TypeOK, ShapeInv
  <1>2. peers[t.peer].cipher # NilCipher
    BY DEF ServerInv, StoreInv, KeyedBeforeRouted
  <1>3. peers[t.peer].cipher \in PeerKeys /\ peers[t.peer].cipher[1] = t.peer
    BY <1>1, <1>2 DEF TypeOK, Peer, CipherInv
  <1>4. QED
    BY <1>1, <1>3 DEF Data, EncodePacket, Seal, Header, FromServer

\* The server adds its own packets to the network, and takes none away.
ServerSends ==
    /\ net \subseteq net'
    /\ \A m \in net' \ net :
        /\ FromServer(m)
        /\ m.type = "WELCOME" => m.id \in PeerIDs /\ m.body = TunnelIPOf(m.id)
        /\ m.type = "DATA" => m.key \in PeerKeys /\ m.body = TunnelIPOf(m.key[1])
        /\ m.type # "ALOHA"

LEMMA ServerStepSends ==
    ASSUME ServerInv, ShapeInv, PacketArrives \/ ServerStep
    PROVE  ServerSends
  <1>1. TypeOK
    BY ServerInvParts
  <1>2. CASE SendWelcome
    BY <1>1, <1>2, WelcomeShape DEF SendWelcome, ServerSends
  <1>3. CASE SendData
    BY <1>3, DataShape DEF SendData, ServerSends
  <1>4. CASE ~SendWelcome /\ ~SendData
    <2>1. UNCHANGED net
      BY <1>4 DEF PacketArrives, Register, ReadPacket, ServerStep, UdpToTun, SetCipher,
                  SetTunnelIP, NumberWelcome, HandlePacket, Deliver, Touch, ReadUdpFails,
                  TunToUdp, ReadTun, ReadTunFails, NumberData, ExpirePeersLoop, TickerFires,
                  ReadNow, DeleteExpired, ExpiryEnds, Tick, Restart, Terminated, vars, history
    <2>2. QED
      BY <2>1 DEF ServerSends
  <1>5. QED
    BY <1>2, <1>3, <1>4

\* An inner packet is for the one address of the peer it is routed to.
LEMMA ReadTunRoute ==
    ASSUME ServerInv, NEW dst \in TunnelIPs, ReadTun(dst)
    PROVE  t'.dst = TunnelIPOf(t'.peer)
  <1>1. byTunnelIP[dst] # NoPeer /\ t' = TunAt("number", byTunnelIP[dst], dst)
    BY DEF ReadTun
  <1>2. byTunnelIP[dst] \in PeerIDs /\ peers[byTunnelIP[dst]].tunnelIP = dst /\ dst # NoIP
    BY <1>1 DEF ServerInv, StoreInv, StoreConsistent, TypeOK, TunnelIPs, NoIP
  <1>3. dst = TunnelIPOf(byTunnelIP[dst])
    BY <1>2 DEF ServerInv, AddressInv
  <1>4. QED
    BY <1>1, <1>3 DEF TunAt

LEMMA ServerStepShape ==
    ASSUME ServerInv, ShapeInv, PacketArrives \/ ServerStep
    PROVE  ShapeInv'
  <1>1. ServerSends /\ TypeOK
    BY ServerStepSends, ServerInvParts
  <1>2. t'.pc \in {"number", "send"} => t'.dst = TunnelIPOf(t'.peer)
    <2>1. ASSUME NEW dst \in TunnelIPs, ReadTun(dst) PROVE t'.dst = TunnelIPOf(t'.peer)
      BY <2>1, ReadTunRoute
    <2>2. CASE NumberData
      BY <1>1, <2>2 DEF NumberData, TypeOK, TunState, ShapeInv
    <2>3. CASE SendData \/ ReadTunFails \/ Restart
      BY <2>3, ReadingTypes DEF SendData, ReadTunFails, Restart, Start
    <2>4. CASE UNCHANGED t
      BY <2>4 DEF ShapeInv
    <2>5. UNCHANGED t \/ TunToUdp \/ Restart
      BY DEF PacketArrives, Register, ReadPacket, ServerStep, UdpToTun, SetCipher,
             SetTunnelIP, NumberWelcome, SendWelcome, HandlePacket, Deliver, Touch,
             ReadUdpFails, ExpirePeersLoop, TickerFires, ReadNow, DeleteExpired, ExpiryEnds,
             Tick, Terminated, vars
    <2>6. QED
      BY <2>1, <2>2, <2>3, <2>4, <2>5 DEF TunToUdp
  <1>3. QED
    BY <1>1, <1>2 DEF ShapeInv, ServerSends

\* The clients' part of the invariant looks at what clients have sent, and
\* for one WELCOME.
LEMMA ServerStepClient ==
    ASSUME ClientInv, ServerSends, UNCHANGED <<client, received>>
    PROVE  ClientInv'
  <1> SUFFICES ASSUME NEW r \in ClientRandoms PROVE ClientOK(r)'
    BY DEF ClientInv, ClientType
  <1>1. ClientOK(r)
    BY DEF ClientInv
  <1>2. Down(r)' /\ Taken(r)' /\ Reading(r)' /\ Numbers(r)'
    BY <1>1 DEF ClientOK, Down, Taken, Reading, Numbers, Served
  <1>3. Welcomed(r)'
    BY <1>1 DEF ClientOK, Welcomed, WelcomedBy, ServerSends
  <1>4. Sent(r)'
    BY <1>1 DEF ClientOK, Sent, Sealed, Served, ServerSends
  <1>5. QED
    BY <1>2, <1>3, <1>4 DEF ClientOK

-----------------------------------------------------------------------------
(***************************************************************************)
(* The clients' steps.  Client has its own copy of what both ends use: the *)
(* packets, the ciphers and the replay window.                             *)
(***************************************************************************)
LEMMA SameWindow ==
    /\ C!NewWindow = NewWindow
    /\ \A w, s : C!Accepts(w, s) = Accepts(w, s) /\ C!Accept(w, s) = Accept(w, s)
  BY DEF C!Accept, Accept, C!Accepts, Accepts, C!NewWindow, NewWindow, C!Advance, Advance,
         C!Verdict, Verdict, C!ShiftLeft, ShiftLeft, C!Offsets, Offsets

LEMMA SamePackets ==
    /\ C!NilCipher = NilCipher /\ C!NoPacket = NoPacket /\ C!NoAddr = NoAddr
    /\ \A r, a : C!EncodeAloha(r, a) = EncodeAloha(r, a)
    /\ \A p, r, n : C!PeerKey(p, r, n) = PeerKey(p, r, n)
    /\ \A m, r : C!DecodesWelcome(m, r) = DecodesWelcome(m, r)
    /\ \A m, k, d : C!DecodesPacket(m, k, d) = DecodesPacket(m, k, d)
  BY DEF C!NilCipher, NilCipher, C!NoPacket, NoPacket, C!NoAddr, NoAddr,
         C!EncodeAloha, EncodeAloha, C!Seal, Seal, C!Header, Header, C!AlohaKey, AlohaKey,
         C!BuildNonce, BuildNonce, C!NoBody, NoBody, C!PeerKey, PeerKey,
         C!DecodesWelcome, DecodesWelcome, C!Opens, Opens, C!WelcomeKey, WelcomeKey,
         C!DecodesPacket, DecodesPacket

\* The packet that a sender writes.
LEMMA OutgoingFacts ==
    ASSUME ClientType, NEW r \in ClientRandoms, NEW s \in C!Senders,
           client[r].cipher \in PeerKeys
    PROVE  LET m == C!Outgoing(r, s)
           IN  /\ m \in Packet /\ m.type = s /\ m.key = client[r].cipher
               /\ m.seq = client[r].taken[s] /\ m.nonce = BuildNonce("c2s", m.seq)
  <1>1. /\ client[r].taken[s] \in Nat /\ client[r].id \in Nat
        /\ client[r].addr \in Addrs \cup {NoAddr} /\ s \in {"DATA", "KEEPALIVE"}
    BY DEF ClientType, ClientState, C!Senders
  <1>2. QED
    BY <1>1 DEF C!Outgoing, C!EncodePacket, C!Seal, C!Header, C!BuildNonce, BuildNonce,
                C!NoBody, C!NoRandom, Packet, Keys

\* A session belongs to one client, one peer and one server random.
LEMMA SessionFacts ==
    ASSUME ServerInv, ShapeInv, ClientInv, NEW r \in ClientRandoms, client[r].phase = "up"
    PROVE  /\ client[r].cipher \in PeerKeys
           /\ client[r].cipher[1] = client[r].id
           /\ client[r].cipher[2] = r
           /\ client[r].cipher[3] <= randoms
           /\ client[r].tunnelIP = TunnelIPOf(client[r].id)
  <1>1. PICK w \in net : WelcomedBy(r, w)
    BY DEF ClientInv, ClientOK, Welcomed
  <1>2. /\ w.id \in PeerIDs /\ w.body = TunnelIPOf(w.id)
    BY <1>1 DEF WelcomedBy, DecodesWelcome, ShapeInv
  <1>3. w.random <= randoms /\ w.random \in Nat
    BY <1>1, WelcomeRandom, ServerInvParts DEF WelcomedBy
  <1>4. QED
    BY <1>1, <1>2, <1>3, PeerKeyFacts DEF WelcomedBy

\* A step of client r: it changes no other client, and what it puts on the
\* wire or into a TUN is under a key of its own.
OnlyClient(r) ==
    /\ client' = [client EXCEPT ![r] = client'[r]]
    /\ client'[r] \in ClientState
    /\ net \subseteq net' /\ received \subseteq received'
    /\ \A m \in net' \ net : m.key \in PeerKeys => m.key[2] = r
    /\ \A d \in received' \ received :
        d \in [key : PeerKeys, seq : Nat] /\ d.key[2] = r

LEMMA OnlyClientInv ==
    ASSUME ServerInv, ShapeInv, ClientInv,
           NEW r \in ClientRandoms, OnlyClient(r), ClientOK(r)'
    PROVE  ClientInv'
  <1>1. client' \in [ClientRandoms -> ClientState]
    BY DEF ClientInv, ClientType, OnlyClient
  <1>2. ClientType'
    BY <1>1 DEF ClientInv, ClientType, OnlyClient
  <1>3. ASSUME NEW q \in ClientRandoms, q # r PROVE ClientOK(q)'
    <2>1. client'[q] = client[q] /\ ClientOK(q)
      BY <1>3 DEF OnlyClient, ClientInv, ClientType
    <2>2. Down(q)' /\ Taken(q)' /\ Numbers(q)'
      BY <1>3, <2>1 DEF ClientOK, Down, Taken, Numbers, Served, OnlyClient
    <2>3. Welcomed(q)'
      BY <2>1 DEF ClientOK, Welcomed, WelcomedBy, OnlyClient
    <2>4. Sent(q)'
      BY <1>3, <2>1 DEF ClientOK, Sent, Sealed, Served, OnlyClient
    <2>5. Reading(q)'
      <3> SUFFICES ASSUME client[q].reading # NoPacket
                   PROVE  [key |-> client[q].reading.key, seq |-> client[q].reading.seq]
                            \notin received'
        BY <2>1 DEF ClientOK, Reading
      <3>1. client[q].reading.key = client[q].cipher /\ client[q].phase = "up"
        BY <2>1 DEF ClientOK, Reading, Down
      <3>2. client[q].cipher[2] = q
        BY <3>1, SessionFacts
      <3>3. QED
        BY <1>3, <2>1, <3>1, <3>2 DEF ClientOK, Reading, OnlyClient
    <2>6. QED
      BY <2>2, <2>3, <2>4, <2>5 DEF ClientOK
  <1>4. QED
    BY <1>2, <1>3 DEF ClientInv

LEMMA SendAlohaClient ==
    ASSUME ServerInv, ShapeInv, ClientInv,
           NEW r \in ClientRandoms, NEW a \in Addrs, C!SendAloha(r, a)
    PROVE  ClientInv' /\ net' = net \cup {EncodeAloha(r, a)}
  <1>1. /\ client[r].phase = "new" /\ UNCHANGED received
        /\ client' = [client EXCEPT ![r].phase = "waiting", ![r].addr = a]
        /\ net' = net \cup {EncodeAloha(r, a)}
    BY SamePackets DEF C!SendAloha
  <1>2. client[r] \in ClientState /\ ClientOK(r)
    BY DEF ClientInv, ClientType
  <1>3. /\ client'[r] = [client[r] EXCEPT !.phase = "waiting", !.addr = a]
        /\ client' = [client EXCEPT ![r] = client'[r]]
    BY <1>1 DEF ClientInv, ClientType
  <1>4. /\ client'[r] \in ClientState /\ client'[r].phase = "waiting"
        /\ client'[r].reading = client[r].reading /\ client'[r].taken = client[r].taken
        /\ client'[r].sendSeq = client[r].sendSeq /\ client'[r].cipher = client[r].cipher
    BY <1>2, <1>3 DEF ClientState
  <1>5. EncodeAloha(r, a).key \notin PeerKeys
    BY KeysDisjoint DEF EncodeAloha, Seal, AlohaKey, AlohaKeys
  <1>6. OnlyClient(r)
    BY <1>1, <1>3, <1>4, <1>5 DEF OnlyClient
  <1>7. ClientOK(r)'
    BY <1>1, <1>2, <1>4, <1>5
       DEF ClientOK, Down, Welcomed, Taken, Reading, Sent, Sealed, Served, Numbers
  <1>8. QED
    BY <1>1, <1>6, <1>7, OnlyClientInv

\* Run returns, in the handshake or later.
LEMMA EndedClient ==
    ASSUME ServerInv, ShapeInv, ClientInv, NEW r \in ClientRandoms,
           client[r].phase \in {"waiting", "up"},
           client' = [client EXCEPT ![r] = C!Ended(r)], UNCHANGED <<net, received>>
    PROVE  ClientInv'
  <1>1. client[r].addr \in Addrs \cup {NoAddr} /\ ClientOK(r)
    BY DEF ClientInv, ClientType, ClientState
  <1>2. client'[r] = C!Ended(r) /\ client' = [client EXCEPT ![r] = client'[r]]
    BY DEF ClientInv, ClientType
  <1>3. C!Fresh \in ClientState
    BY SameWindow, SamePackets, NewWindowType DEF C!Fresh, ClientState, C!None, NoAddr
  <1>4. /\ client'[r] \in ClientState /\ client'[r].phase = "off"
        /\ client'[r].cipher = C!Fresh.cipher /\ client'[r].reading = C!Fresh.reading
        /\ client'[r].taken = C!Fresh.taken /\ client'[r].sendSeq = C!Fresh.sendSeq
    <2> DEFINE new == client'[r]
               a == client[r].addr
    <2>1. new = [C!Fresh EXCEPT !.phase = "off", !.addr = a] /\ a \in Addrs \cup {NoAddr}
      BY <1>1, <1>2 DEF C!Ended
    <2> HIDE DEF new, a
    <2>2. /\ new \in ClientState /\ new.phase = "off"
          /\ new.cipher = C!Fresh.cipher /\ new.reading = C!Fresh.reading
          /\ new.taken = C!Fresh.taken /\ new.sendSeq = C!Fresh.sendSeq
      BY <1>3, <2>1 DEF ClientState
    <2>3. QED
      BY <2>2 DEF new
  <1>5. /\ client'[r].cipher = NilCipher
        /\ client'[r].reading = NoPacket /\ client'[r].sendSeq = 0
        /\ \A s \in C!Senders : client'[r].taken[s] = C!None
    BY <1>4, SamePackets DEF C!Fresh
  <1>6. OnlyClient(r)
    BY <1>2, <1>4 DEF OnlyClient
  <1>7. ClientOK(r)'
    BY <1>1, <1>4, <1>5
       DEF ClientOK, Down, Welcomed, Taken, Reading, Sent, Sealed, Served, Numbers, C!None
  <1>8. QED
    BY <1>6, <1>7, OnlyClientInv

\* The WELCOME starts the session, or ends the client.
LEMMA ReadWelcomeClient ==
    ASSUME ServerInv, ShapeInv, ClientInv, NEW r \in ClientRandoms, NEW m \in net,
           C!ReadWelcome(r, m)
    PROVE  ClientInv'
  <1>1. client[r].phase = "waiting" /\ m.addr = client[r].addr /\ UNCHANGED <<net, received>>
    BY DEF C!ReadWelcome
  <1>2. CASE ~(DecodesWelcome(m, r) /\ m.seq = 1)
    BY <1>1, <1>2, SamePackets, EndedClient DEF C!ReadWelcome
  <1>3. CASE DecodesWelcome(m, r) /\ m.seq = 1
    <2> DEFINE k == PeerKey(m.id, r, m.random)
               w == Accept(NewWindow, m.seq)
    <2>1. client' = [client EXCEPT ![r].phase = "up", ![r].id = m.id, ![r].tunnelIP = m.body,
                                   ![r].cipher = k, ![r].sendSeq = 1, ![r].window = w]
      BY <1>3, SamePackets, SameWindow DEF C!ReadWelcome
    <2>2. m.id \in PeerIDs /\ m.id \in Nat /\ m.body \in Nat
      BY <1>3, ServerInvParts DEF DecodesWelcome, ShapeInv, TypeOK, Packet
    <2>3. m.random \in Nat
      BY <1>3, WelcomeRandom, ServerInvParts
    <2>4. k \in PeerKeys
      BY <2>2, <2>3, PeerKeyFacts
    <2>5. w \in ReplayWindows
      BY <1>3, AcceptType, NewWindowType
    <2> DEFINE c == client[r]
               new == client'[r]
    <2>6. c \in ClientState /\ ClientOK(r)
      BY DEF ClientInv, ClientType
    <2> HIDE DEF k, w
    <2>7. /\ new = [c EXCEPT !.phase = "up", !.id = m.id, !.tunnelIP = m.body,
                             !.cipher = k, !.sendSeq = 1, !.window = w]
          /\ client' = [client EXCEPT ![r] = new]
      BY <2>1 DEF ClientInv, ClientType
    <2> HIDE DEF c, new
    <2>8. /\ new \in ClientState /\ new.phase = "up"
          /\ new.reading = c.reading /\ new.taken = c.taken
          /\ new.id = m.id /\ new.tunnelIP = m.body /\ new.cipher = k
          /\ new.addr = c.addr /\ new.sendSeq = 1
      BY <2>2, <2>4, <2>5, <2>6, <2>7 DEF ClientState
    <2> USE DEF c, new
    <2>9. WelcomedBy(r, m)'
      BY <1>1, <1>3, <2>8 DEF WelcomedBy, k
    <2>10. OnlyClient(r)
      BY <1>1, <2>7, <2>8 DEF OnlyClient
    <2>11. ClientOK(r)'
      BY <1>1, <2>6, <2>8, <2>9
         DEF ClientOK, Down, Welcomed, Taken, Reading, Sent, Sealed, Served, Numbers, C!None
    <2>12. QED
      BY <2>10, <2>11, OnlyClientInv
  <1>4. QED
    BY <1>2, <1>3

\* The session, which the steps from here on leave as it is.
SameSession(c, new) ==
    /\ new.phase = c.phase /\ new.addr = c.addr
    /\ new.id = c.id /\ new.tunnelIP = c.tunnelIP /\ new.cipher = c.cipher

\* A number is taken once, whichever goroutine takes it.
LEMMA NumberClient ==
    ASSUME ServerInv, ShapeInv, ClientInv, NEW r \in ClientRandoms, NEW s \in C!Senders,
           C!Number(r, s)
    PROVE  ClientInv'
  <1> DEFINE c == client[r]
             new == client'[r]
             seq == c.sendSeq + 1
  <1>1. c.phase = "up" /\ UNCHANGED <<net, received>> /\ ClientOK(r)
    BY DEF C!Number, C!Up, ClientInv
  <1>2. c \in ClientState
    BY DEF ClientInv, ClientType
  <1>3. /\ new = [c EXCEPT !.sendSeq = seq, !.taken[s] = seq]
        /\ client' = [client EXCEPT ![r] = new]
    BY DEF C!Number, ClientInv, ClientType
  <1> HIDE DEF c, new
  <1>4. c.sendSeq \in Nat /\ seq \in Nat /\ c.taken \in [C!Senders -> Nat]
    BY <1>2 DEF ClientState
  <1>5. /\ new \in ClientState /\ SameSession(c, new) /\ new.sendSeq = seq
        /\ new.taken = [c.taken EXCEPT ![s] = seq]
        /\ new.reading = c.reading /\ new.window = c.window
    BY <1>2, <1>3, <1>4 DEF ClientState, SameSession
  <1>6. /\ new.taken[s] = seq
        /\ \A o \in C!Senders \ {s} : new.taken[o] = c.taken[o]
        /\ \A o \in C!Senders : c.taken[o] \in Nat
    BY <1>4, <1>5
  <1>7. OnlyClient(r)
    BY <1>1, <1>3, <1>5 DEF OnlyClient, new
  <1>8. Down(r)' /\ Welcomed(r)' /\ Taken(r)' /\ Reading(r)'
    BY <1>1, <1>5
       DEF ClientOK, Down, Welcomed, WelcomedBy, Taken, Reading, Served, SameSession, c, new
  <1>9. Sent(r)'
    <2>1. \A m \in net : m.seq \in Nat
      BY ServerInvParts DEF TypeOK, Packet
    <2>2. \A m \in net : Sealed(r, m) =>
            /\ m.seq <= c.sendSeq
            /\ \A o \in C!Senders : c.taken[o] # C!None => m.seq # c.taken[o]
      BY <1>1 DEF ClientOK, Sent, c
    <2>3. Served(r)'
      BY <1>1, <1>5 DEF Served, SameSession, c, new
    <2>4. \A m \in net : Sealed(r, m) =>
            /\ m.seq <= new.sendSeq
            /\ \A o \in C!Senders : new.taken[o] # C!None => m.seq # new.taken[o]
      BY <1>4, <1>5, <1>6, <2>1, <2>2
    <2>5. QED
      BY <1>1, <2>3, <2>4 DEF Sent, Sealed, new
  <1>10. Numbers(r)'
    <2>1. \A o \in C!Senders :
            /\ c.taken[o] <= c.sendSeq
            /\ \A x \in C!Senders \ {o} : c.taken[o] # C!None => c.taken[o] # c.taken[x]
      BY <1>1 DEF ClientOK, Numbers, c
    <2>2. \A o \in C!Senders :
            /\ new.taken[o] <= new.sendSeq
            /\ \A x \in C!Senders \ {o} : new.taken[o] # C!None => new.taken[o] # new.taken[x]
      BY <1>4, <1>5, <1>6, <2>1
    <2>3. QED
      BY <2>2 DEF Numbers, new
  <1>11. QED
    BY <1>7, <1>8, <1>9, <1>10, OnlyClientInv DEF ClientOK

\* The packet goes out with the number that its sender held, and that no
\* other packet of this key has.
LEMMA SendClient ==
    ASSUME ServerInv, ShapeInv, ClientInv, NEW r \in ClientRandoms, NEW s \in C!Senders,
           C!Send(r, s)
    PROVE  ClientInv'
  <1> DEFINE c == client[r]
             new == client'[r]
             out == C!Outgoing(r, s)
  <1>1. /\ c.phase = "up" /\ c.taken[s] # C!None /\ UNCHANGED received /\ ClientOK(r)
        /\ net' = net \cup {out}
    BY DEF C!Send, C!Up, ClientInv
  <1>2. c \in ClientState
    BY DEF ClientInv, ClientType
  <1>3. /\ new = [c EXCEPT !.taken[s] = C!None]
        /\ client' = [client EXCEPT ![r] = new]
    BY DEF C!Send, ClientInv, ClientType
  <1>4. /\ out.key \in PeerKeys /\ out.key[2] = r /\ out.seq = c.taken[s] /\ ~FromServer(out)
    BY <1>1, SessionFacts, OutgoingFacts, NotFromServer DEF ClientInv
  <1> HIDE DEF c, new, out
  <1>5. c.sendSeq \in Nat /\ c.taken \in [C!Senders -> Nat] /\ C!None \in Nat
    BY <1>2 DEF ClientState, C!None
  <1>6. /\ new \in ClientState /\ SameSession(c, new) /\ new.sendSeq = c.sendSeq
        /\ new.taken = [c.taken EXCEPT ![s] = C!None]
        /\ new.reading = c.reading /\ new.window = c.window
    BY <1>2, <1>3, <1>5 DEF ClientState, SameSession
  <1>7. /\ new.taken[s] = C!None
        /\ \A o \in C!Senders \ {s} : new.taken[o] = c.taken[o]
        /\ \A o \in C!Senders : c.taken[o] \in Nat
    BY <1>5, <1>6
  <1>8. OnlyClient(r)
    BY <1>1, <1>3, <1>4, <1>6 DEF OnlyClient, new
  <1>9. Down(r)' /\ Welcomed(r)' /\ Taken(r)' /\ Reading(r)'
    BY <1>1, <1>6
       DEF ClientOK, Down, Welcomed, WelcomedBy, Taken, Reading, Served, SameSession, c, new
  <1>10. \A o \in C!Senders :
            /\ c.taken[o] <= c.sendSeq
            /\ \A x \in C!Senders \ {o} : c.taken[o] # C!None => c.taken[o] # c.taken[x]
    BY <1>1 DEF ClientOK, Numbers, c
  <1>11. Sent(r)'
    <2>1. \A m \in net : Sealed(r, m) =>
            /\ m.seq <= c.sendSeq
            /\ \A o \in C!Senders : c.taken[o] # C!None => m.seq # c.taken[o]
      BY <1>1 DEF ClientOK, Sent, c
    <2>2. Served(r)'
      BY <1>1, <1>6 DEF Served, SameSession, c, new
    <2>3. \A m \in net' : Sealed(r, m) =>
            /\ m.seq <= new.sendSeq
            /\ \A o \in C!Senders : new.taken[o] # C!None => m.seq # new.taken[o]
      BY <1>1, <1>4, <1>6, <1>7, <1>10, <2>1
    <2>4. QED
      BY <2>2, <2>3 DEF Sent, Sealed, new
  <1>12. Numbers(r)'
    <2>1. \A o \in C!Senders :
            /\ new.taken[o] <= new.sendSeq
            /\ \A x \in C!Senders \ {o} : new.taken[o] # C!None => new.taken[o] # new.taken[x]
      BY <1>5, <1>6, <1>7, <1>10 DEF C!None
    <2>2. QED
      BY <2>1 DEF Numbers, new
  <1>13. QED
    BY <1>8, <1>9, <1>11, <1>12, OnlyClientInv DEF ClientOK

\* A server packet passes the window once, and it is for this client: its
\* key names the peer, and the peer the inner address.
LEMMA ReadFromServerClient ==
    ASSUME ServerInv, ShapeInv, ClientInv, NEW r \in ClientRandoms, NEW m \in net,
           C!ReadFromServer(r, m)
    PROVE  ClientInv'
  <1> DEFINE c == client[r]
             new == client'[r]
             w == Accept(c.window, m.seq)
             d == [key |-> m.key, seq |-> m.seq]
  <1>1. /\ c.phase = "up" /\ m.key = c.cipher /\ FromServer(m) /\ m.type = "DATA"
        /\ Accepts(c.window, m.seq) /\ UNCHANGED <<net, received>> /\ ClientOK(r)
    BY SamePackets, SameWindow
       DEF C!ReadFromServer, C!Up, DecodesPacket, Opens, FromServer, ClientInv
  <1>2. c \in ClientState
    BY DEF ClientInv, ClientType
  <1>3. /\ new = [c EXCEPT !.window = w, !.reading = m]
        /\ client' = [client EXCEPT ![r] = new]
    BY SameWindow DEF C!ReadFromServer, ClientInv, ClientType
  <1>4. m.body = c.tunnelIP /\ m.key[2] = r
    BY <1>1, SessionFacts DEF ShapeInv
  <1>5. m \in Packet /\ m.seq \in Nat
    BY ServerInvParts DEF TypeOK, Packet
  <1> HIDE DEF c, new
  <1>6. c.window \in ReplayWindows
    BY <1>2 DEF ClientState
  <1>7. w \in ReplayWindows /\ ~Accepts(w, m.seq)
    BY <1>1, <1>5, <1>6, AcceptType, AcceptOnce
  <1> HIDE DEF w
  <1>8. /\ new \in ClientState /\ SameSession(c, new) /\ new.sendSeq = c.sendSeq
        /\ new.taken = c.taken /\ new.reading = m /\ new.window = w
    BY <1>2, <1>3, <1>5, <1>7 DEF ClientState, SameSession
  <1>9. OnlyClient(r)
    BY <1>1, <1>3, <1>8 DEF OnlyClient, new
  <1>10. Down(r)' /\ Welcomed(r)' /\ Sent(r)' /\ Numbers(r)'
    BY <1>1, <1>8
       DEF ClientOK, Down, Welcomed, WelcomedBy, Sent, Sealed, Numbers, Served, SameSession,
           c, new
  <1>11. \A x \in received : x.key[2] = r => ~Accepts(c.window, x.seq) /\ x.seq \in Nat
    BY <1>1 DEF ClientOK, Taken, c, ClientInv, ClientType
  <1>12. Taken(r)'
    <2>1. \A x \in received : x.key[2] = r => ~Accepts(w, x.seq)
      BY <1>5, <1>6, <1>11, RefusedForEver DEF w
    <2>2. QED
      BY <1>1, <1>8, <2>1 DEF Taken, Served, SameSession, c, new
  <1>13. d \notin received
    BY <1>1, <1>4, <1>11
  <1>14. Reading(r)'
    BY <1>1, <1>4, <1>7, <1>8, <1>13 DEF Reading, SameSession, c, new
  <1>15. QED
    BY <1>9, <1>10, <1>12, <1>14, OnlyClientInv DEF ClientOK

\* tun.WriteContext.
LEMMA WriteTunClient ==
    ASSUME ServerInv, ShapeInv, ClientInv, NEW r \in ClientRandoms, C!WriteTun(r)
    PROVE  ClientInv'
  <1> DEFINE c == client[r]
             new == client'[r]
             d == [key |-> c.reading.key, seq |-> c.reading.seq]
  <1>1. /\ c.phase = "up" /\ c.reading # NoPacket /\ UNCHANGED net /\ ClientOK(r)
        /\ received' = received \cup {d}
    BY SamePackets DEF C!WriteTun, C!Up, ClientInv
  <1>2. c \in ClientState
    BY DEF ClientInv, ClientType
  <1>3. /\ new = [c EXCEPT !.reading = NoPacket]
        /\ client' = [client EXCEPT ![r] = new]
    BY SamePackets DEF C!WriteTun, ClientInv, ClientType
  <1>4. /\ c.reading.key = c.cipher /\ ~Accepts(c.window, c.reading.seq)
    BY <1>1 DEF ClientOK, Reading
  <1>5. d.key \in PeerKeys /\ d.key[2] = r
    BY <1>1, <1>4, SessionFacts
  <1> HIDE DEF c, new
  <1>6. d.seq \in Nat
    BY <1>1, <1>2 DEF ClientState, Packet
  <1>7. /\ new \in ClientState /\ SameSession(c, new) /\ new.sendSeq = c.sendSeq
        /\ new.taken = c.taken /\ new.reading = NoPacket /\ new.window = c.window
    BY <1>2, <1>3 DEF ClientState, SameSession
  <1>8. OnlyClient(r)
    BY <1>1, <1>3, <1>5, <1>6, <1>7 DEF OnlyClient, new
  <1>9. Down(r)' /\ Welcomed(r)' /\ Sent(r)' /\ Numbers(r)' /\ Reading(r)'
    BY <1>1, <1>7
       DEF ClientOK, Down, Welcomed, WelcomedBy, Sent, Sealed, Numbers, Reading, Served,
           SameSession, c, new
  <1>10. Taken(r)'
    BY <1>1, <1>4, <1>7 DEF ClientOK, Taken, Served, SameSession, c, new
  <1>11. QED
    BY <1>8, <1>9, <1>10, OnlyClientInv DEF ClientOK

\* What clients put on the wire is theirs, and shaped as it should be.
LEMMA ClientStepWire ==
    ASSUME ServerInv, ShapeInv, ClientInv, NEW r \in ClientRandoms, C!ClientStep(r),
           NEW m \in net' \ net
    PROVE  /\ ClientPacket(m)
           /\ m.type = "ALOHA" =>
                \E q \in ClientRandoms, a \in Addrs : m = EncodeAloha(q, a)
  <1>1. ASSUME NEW a \in Addrs, C!SendAloha(r, a)
        PROVE  m = EncodeAloha(r, a) /\ ClientPacket(m)
    <2>1. m = EncodeAloha(r, a)
      BY <1>1, SamePackets DEF C!SendAloha
    <2>2. /\ m \in Packet /\ m.type = "ALOHA" /\ m.key \in AlohaKeys
          /\ m.nonce = BuildNonce("c2s", m.seq)
      BY <2>1, ArrivalTypes DEF EncodeAloha, Seal, Header, AlohaKey, AlohaKeys
    <2>3. QED
      BY <2>1, <2>2 DEF ClientPacket
  <1>2. ASSUME NEW s \in C!Senders, C!Send(r, s)
        PROVE  ClientPacket(m) /\ m.type # "ALOHA"
    <2>1. m = C!Outgoing(r, s) /\ client[r].phase = "up"
      BY <1>2 DEF C!Send, C!Up
    <2>2. /\ m \in Packet /\ m.type = s /\ m.nonce = BuildNonce("c2s", m.seq)
          /\ m.key \in PeerKeys /\ m.key[3] <= randoms
      BY <2>1, SessionFacts, OutgoingFacts DEF ClientInv
    <2>3. QED
      BY <2>2 DEF ClientPacket, C!Senders
  <1>3. \/ \E a \in Addrs : C!SendAloha(r, a)
        \/ \E s \in C!Senders : C!Send(r, s)
    BY DEF C!ClientStep, C!ReadWelcome, C!ReadFromServer, C!Stop, C!Number, C!WriteTun
  <1>4. QED
    BY <1>1, <1>2, <1>3

LEMMA ClientStepInv ==
    ASSUME TunnelInv, C!ClientNext, UNCHANGED serverVars
    PROVE  TunnelInv'
  <1>0. ServerInv /\ ShapeInv /\ ClientInv
    BY DEF TunnelInv
  <1>1. PICK r \in ClientRandoms : C!ClientStep(r)
    BY DEF C!ClientNext
  <1>2. \A m \in net' \ net :
            /\ ClientPacket(m)
            /\ m.type = "ALOHA" =>
                 \E q \in ClientRandoms, a \in Addrs : m = EncodeAloha(q, a)
    BY <1>0, <1>1, ClientStepWire
  <1>3. ServerInv'
    BY <1>0, <1>2, ClientPacketInv
  <1>4. ShapeInv'
    <2>1. \A m \in net' \ net : ~FromServer(m) /\ m.type # "WELCOME"
      BY <1>2, NotFromServer DEF ClientPacket
    <2>2. UNCHANGED t
      BY DEF serverVars
    <2>3. QED
      BY <1>0, <1>2, <2>1, <2>2 DEF ShapeInv
  <1>5. ClientInv'
    <2>1. CASE C!Stop(r)
      BY <1>0, <2>1, EndedClient DEF C!Stop
    <2>2. QED
      BY <1>0, <1>1, <2>1, SendAlohaClient, ReadWelcomeClient, NumberClient, SendClient,
         ReadFromServerClient, WriteTunClient
         DEF C!ClientStep
  <1>6. QED
    BY <1>3, <1>4, <1>5 DEF TunnelInv

-----------------------------------------------------------------------------
(***************************************************************************)
(* The invariant of the tunnel                                             *)
(***************************************************************************)
LEMMA TunnelInitInv == TunnelInit => TunnelInv
  <1> SUFFICES ASSUME Init, C!ClientInit PROVE TunnelInv
    BY DEF TunnelInit
  <1>1. ServerInv
    <2>1. StopInv /\ AddressInv
      BY InitStop
    <2>2. QED
      BY <2>1, InitStore, InitNonce, InitWelcomes DEF ServerInv
  <1>2. net = {} /\ t.pc = "read" /\ received = {}
    BY ReadingTypes DEF Init, C!ClientInit
  <1>3. ShapeInv
    BY <1>2 DEF ShapeInv
  <1>4. C!Fresh \in ClientState
    BY SameWindow, SamePackets, NewWindowType DEF C!Fresh, ClientState, C!None, NoAddr
  <1>5. ASSUME NEW r \in ClientRandoms PROVE ClientOK(r)
    <2>1. client[r] = C!Fresh
      BY DEF C!ClientInit
    <2>2. /\ client[r].phase = "new" /\ client[r].cipher = NilCipher
          /\ client[r].reading = NoPacket /\ client[r].sendSeq = 0
          /\ \A s \in C!Senders : client[r].taken[s] = C!None
      BY <2>1, SamePackets DEF C!Fresh
    <2>3. QED
      BY <1>2, <2>2
         DEF ClientOK, Down, Welcomed, Taken, Reading, Sent, Numbers, C!None
  <1>6. ClientType
    BY <1>2, <1>4 DEF ClientType, C!ClientInit
  <1>7. QED
    BY <1>1, <1>3, <1>5, <1>6 DEF TunnelInv, ClientInv

LEMMA TunnelNextInv == TunnelInv /\ [TunnelNext]_tunnelVars => TunnelInv'
  <1> SUFFICES ASSUME TunnelInv, [TunnelNext]_tunnelVars PROVE TunnelInv'
    OBVIOUS
  <1>0. ServerInv /\ ShapeInv /\ ClientInv
    BY DEF TunnelInv
  <1>1. CASE (PacketArrives \/ ServerStep) /\ UNCHANGED <<client, received>>
    BY <1>0, <1>1, ServerStepInv, PacketArrivesInv, ServerStepShape, ServerStepSends,
       ServerStepClient
       DEF TunnelInv
  <1>2. CASE C!ClientNext /\ UNCHANGED serverVars
    BY <1>2, ClientStepInv
  <1>3. CASE UNCHANGED tunnelVars
    <2>1. UNCHANGED <<client, received, net, t>> /\ UNCHANGED serverVars
      BY <1>3 DEF tunnelVars, vars, history, serverVars
    <2>2. ServerInv'
      BY <1>0, <2>1, ClientPacketInv
    <2>3. ShapeInv'
      BY <1>0, <2>1 DEF ShapeInv
    <2>4. ServerSends
      BY <2>1 DEF ServerSends
    <2>5. QED
      BY <1>0, <2>1, <2>2, <2>3, <2>4, ServerStepClient DEF TunnelInv
  <1>4. QED
    BY <1>1, <1>2, <1>3 DEF TunnelNext, serverVars

LEMMA TunnelAlwaysInv == TunnelSpec => []TunnelInv
  BY TunnelInitInv, TunnelNextInv, PTL DEF TunnelSpec

(***************************************************************************)
(* The two ends of a session agree on its key and on both addresses for as *)
(* long as the server has the peer, and nobody shares it, whatever number  *)
(* of clients comes and goes, and whatever arrives late or twice.          *)
(***************************************************************************)
THEOREM SessionsAgree == TunnelSpec => []SessionAgreement
  <1>1. TunnelInv => SessionAgreement
    <2> SUFFICES ASSUME TunnelInv, NEW r \in ClientRandoms, client[r].phase = "up",
                        client[r].id \in byID,
                        peers[client[r].id].cipher = client[r].cipher
                 PROVE  /\ peers[client[r].id].clientRandom = r
                        /\ peers[client[r].id].addr = client[r].addr
                        /\ byTunnelIP[client[r].tunnelIP] = client[r].id
                        /\ \A q \in ClientRandoms \ {r} : client[q].cipher # client[r].cipher
      BY DEF SessionAgreement
    <2>0. ServerInv /\ ShapeInv /\ ClientInv
      BY DEF TunnelInv
    <2> DEFINE p == client[r].id
    <2>1. /\ client[r].cipher \in PeerKeys /\ client[r].cipher[2] = r
      BY <2>0, SessionFacts
    <2>2. p \in PeerIDs
      BY <2>0, ServerInvParts DEF TypeOK
    <2>3. peers[p].clientRandom = r
      BY <2>0, <2>1, <2>2, KeysDisjoint DEF ServerInv, WelcomesInv, OwnerInv
    <2>4. PICK w \in net : WelcomedBy(r, w)
      BY <2>0 DEF ClientInv, ClientOK, Welcomed
    <2>5. Current(w, r)
      BY <2>2, <2>4 DEF WelcomedBy, Current
    <2>6. /\ peers[p].addr = client[r].addr
          /\ peers[p].tunnelIP = client[r].tunnelIP /\ peers[p].tunnelIP # NoIP
      BY <2>0, <2>4, <2>5 DEF WelcomedBy, ServerInv, WelcomesInv, GrantInv
    <2>7. byTunnelIP[client[r].tunnelIP] = p
      BY <2>0, <2>6 DEF ServerInv, StoreInv, StoreConsistent
    <2>8. ASSUME NEW q \in ClientRandoms \ {r} PROVE client[q].cipher # client[r].cipher
      <3>1. CASE client[q].phase = "up"
        BY <2>0, <2>1, <3>1, SessionFacts
      <3>2. CASE client[q].phase # "up"
        BY <2>0, <2>1, <3>2, KeysDisjoint DEF ClientInv, ClientOK, Down
      <3>3. QED
        BY <3>1, <3>2
    <2>9. QED
      BY <2>3, <2>6, <2>7, <2>8
  <1>2. QED
    BY <1>1, TunnelAlwaysInv, PTL

(***************************************************************************)
(* An inner packet reaches the TUN of no other client than the one it is   *)
(* addressed to, and no packet reaches a TUN twice.                        *)
(***************************************************************************)
THEOREM DeliveryIsPrivate == TunnelSpec => []PrivateDelivery
  <1>1. TunnelInv => PrivateDelivery
    BY DEF TunnelInv, ClientInv, ClientOK, Reading, PrivateDelivery
  <1>2. QED
    BY <1>1, TunnelAlwaysInv, PTL

(***************************************************************************)
(* The goroutines of both ends share one key and never use a nonce of it   *)
(* twice.                                                                  *)
(***************************************************************************)
THEOREM TunnelNoncesAreFresh == TunnelSpec => []TunnelNonceFresh
  <1>1. ASSUME TunnelInv, NEW r \in ClientRandoms, NEW s \in C!Senders,
               client[r].taken[s] # C!None
        PROVE  Unused(C!Outgoing(r, s))
    <2>0. ServerInv /\ ShapeInv /\ ClientInv /\ ClientOK(r)
      BY <1>1 DEF TunnelInv, ClientInv
    <2>1. client[r].phase = "up"
      BY <1>1, <2>0 DEF ClientOK, Down
    <2> DEFINE out == C!Outgoing(r, s)
    <2>2. /\ out.key \in PeerKeys /\ out.key[2] = r /\ out.seq = client[r].taken[s]
          /\ out.nonce = BuildNonce("c2s", out.seq)
      BY <2>0, <2>1, SessionFacts, OutgoingFacts DEF ClientInv
    <2> HIDE DEF out
    <2>3. ASSUME NEW m \in net, m.key = out.key, m.nonce = out.nonce PROVE FALSE
      <3>1. m.nonce = BuildNonce("c2s", m.seq) /\ m.seq = out.seq
        BY <2>0, <2>2, <2>3, ServerInvParts DEF WireInv, FromServer, BuildNonce
      <3>2. Sealed(r, m)
        BY <2>2, <2>3, <3>1, NotFromServer DEF Sealed
      <3>3. m.seq # client[r].taken[s]
        BY <1>1, <2>0, <2>1, <3>2 DEF ClientOK, Sent
      <3>4. QED
        BY <2>2, <3>1, <3>3
    <2>4. QED
      BY <2>3 DEF Unused, out
  <1>2. TunnelInv => TunnelNonceFresh
    BY <1>1, NonceInvFresh DEF TunnelInv, ServerInv, TunnelNonceFresh
  <1>3. QED
    BY <1>2, TunnelAlwaysInv, PTL

(***************************************************************************)
(* Also with real clients and what they send, no client packet is written  *)
(* to the server's TUN twice.                                              *)
(***************************************************************************)
THEOREM TunnelDeliversAtMostOnce == TunnelSpec => []AtMostOnce
  <1>1. TunnelInv => AtMostOnce
    BY DEF TunnelInv, ServerInv, TakenInv, AtMostOnce
  <1>2. QED
    BY <1>1, TunnelAlwaysInv, PTL
=============================================================================
