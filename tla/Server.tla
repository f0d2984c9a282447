------------------------------- MODULE Server -------------------------------
(***************************************************************************)
(* The running server of internal/server: its peer store and the three     *)
(* goroutines that share it.                                               *)
(*                                                                         *)
(*   u   udpToTun          reads a datagram, runs its handler to the end   *)
(*   t   tunToUdp          reads an inner packet, sends it to a peer       *)
(*   e   expirePeersLoop   removes silent peers at every tick              *)
(*                                                                         *)
(* A step is what a goroutine does under one lock (peerStore.mu or         *)
(* peer.mu) or in one system call; between two steps of a handler the      *)
(* others may run.  A *peer is its ID: register gives every new peer the   *)
(* next ID and no ID is given twice by a running server, so a pointer that *)
(* a goroutine still holds after deleteExpired is an ID outside byID.      *)
(*                                                                         *)
(* Time.  A peer's lastSeen is kept as "idle", the time since; tick is the *)
(* time since the ticker last fired, and e.age the time since the loop     *)
(* read the "now" that it gives to deleteExpired.                          *)
(*                                                                         *)
(* The first error cancels the context of the errgroup: AfterFunc closes   *)
(* the socket and writes to the eventfd, at any later moment, and every    *)
(* loop returns the next time it waits or uses the socket.                 *)
(***************************************************************************)
EXTENDS Packets, ReplayWindow

CONSTANTS
    ClientRandoms,      \* what clients draw as clientRandom
    Addrs,              \* UDP addresses of clients
    MaxPeers,           \* bound: registrations per run of the server
    MaxSend,            \* bound: numbers one peer's DATA may use
    MaxHandshakes,      \* bound: handshakes over all runs
    MaxRestarts,        \* bound: times the server is started again
    NetworkSize,        \* addresses of the VPN network: 2^(32 - prefix)
    PeerTimeout,        \* defaultPeerTimeout
    CleanupInterval,    \* defaultPeerCleanupInterval
    IOFails,            \* bound: whether reads and writes may fail
    MaxLag,             \* bound: how long a sweep may wait for the processor
    ClientSequences     \* bound: the sequences of session packets that arrive

ASSUME BoundsAssumption ==
    /\ MaxPeers \in Nat /\ MaxSend \in Nat
    /\ MaxHandshakes \in Nat /\ MaxRestarts \in Nat
    /\ IOFails \in BOOLEAN
    /\ ClientSequences \subseteq Nat

\* normalize refuses a prefix above /30, so the network has four addresses
\* at least.
ASSUME NetworkAssumption == NetworkSize \in Nat /\ NetworkSize >= 4

ASSUME TimeAssumption ==
    /\ PeerTimeout \in Nat
    /\ CleanupInterval \in Nat \ {0}
    /\ MaxLag \in 0 .. CleanupInterval

PeerIDs == 1 .. MaxPeers

\* Inner addresses by their offset in the VPN network; 0 is the zero
\* netip.Addr that a peer has before setTunnelIP.
TunnelIPs == 1 .. NetworkSize - 1
NoIP == 0

\* The nil of a *peer, and a map entry that is not there.
NoPeer == 0

VARIABLES
    byID,           \* peerStore.byID: the IDs in the map
    byTunnelIP,     \* peerStore.byTunnelIP
    byClientRandom, \* peerStore.byClientRandom
    nextID,         \* peerStore.nextID
    peers,          \* the peer structs ever allocated by this run
    u, t, e,        \* the goroutines
    tick,           \* time since the ticker fired
    cause,          \* the first error returned to the errgroup
    randoms,        \* server randoms drawn so far, over all runs
    net,            \* every packet put on the wire, over all runs
    delivered,      \* client packets written to the TUN, over all runs
    restarts        \* times the server was started again

store == <<byID, byTunnelIP, byClientRandom, nextID>>
history == <<randoms, net, delivered, restarts>>
vars == <<store, peers, u, t, e, tick, cause, history>>

-----------------------------------------------------------------------------
(***************************************************************************)
(* Structures                                                              *)
(***************************************************************************)
NewPeer(addr, clientRandom) ==
    [addr         |-> addr,
     clientRandom |-> clientRandom,
     tunnelIP     |-> NoIP,
     cipher       |-> NilCipher,
     sendSeq      |-> 0,
     window       |-> NewWindow,
     idle         |-> 0]

NoAddr == 0
FreePeer == NewPeer(NoAddr, NoRandom)

NoPacket == [type |-> "none"]

\* udpToTun: where it is, the *peer it holds, the packet it handles, and the
\* serverRandom and the WELCOME's sequence once it has them.
UdpAt(pc, peer, m) ==
    [pc |-> pc, peer |-> peer, m |-> m, random |-> NoRandom, seq |-> 0]
UdpReading == UdpAt("read", NoPeer, NoPacket)
UdpStopped == UdpAt("stopped", NoPeer, NoPacket)

\* tunToUdp: where it is, the *peer it holds, the inner destination of the
\* packet in its buffer and the sequence it took for it.
TunAt(pc, peer, dst) == [pc |-> pc, peer |-> peer, dst |-> dst, seq |-> 0]
TunReading == TunAt("read", NoPeer, NoIP)
TunStopped == TunAt("stopped", NoPeer, NoIP)

\* expirePeersLoop: where it is, and the age of its "now".
SweepAt(pc) == [pc |-> pc, age |-> 0]

\* Mutant: the host bits of the prefix are counted one short.
MutValidIPRange(id) == id # 0 /\ id <= NetworkSize \div 2 - 3

\* allocateTunnelIP: network base + 1 + peer ID, when validIPRange allows.
ValidIPRange(id) == id # 0 /\ id <= NetworkSize - 3
TunnelIPOf(id) == 1 + id

\* errgroup keeps the first error.
Fail(why) == cause' = IF cause = "none" THEN why ELSE cause

\* A system call returns an error.
IOError == IOFails /\ Fail("i/o")

\* The same, where the cancelled context makes it so: on the socket that is
\* closed, and on the TUN that is read together with the eventfd.
IOEnds == (IOFails \/ cause # "none") /\ Fail("i/o")

-----------------------------------------------------------------------------
(***************************************************************************)
(* udpToTun: handleAloha                                                   *)
(***************************************************************************)
\* Mutant: the smallest ID that is not in use.
MutNewID == CHOOSE id \in PeerIDs \ byID : \A q \in PeerIDs \ byID : id <= q

\* Mutant: the counter is used before it is set, and the first ID is 0.
MutNewIDLow == nextID - 1

NewID == nextID

\* ReadFromUDP returns an error.
ReadUdpFails ==
    /\ u.pc = "read"
    /\ IOEnds
    /\ u' = UdpStopped
    /\ UNCHANGED <<store, peers, t, e, tick, history>>

\* peerStore.register.  A random that is already there ends the handler:
\* nothing is sent for a repeated ALOHA.
Register(m) ==
    /\ u.pc = "read"
    /\ DecodesAloha(m)
    /\ IF byClientRandom[m.random] # NoPeer
       THEN UNCHANGED <<store, peers, u>>
       ELSE /\ nextID <= MaxPeers /\ randoms < MaxHandshakes
            /\ nextID' = nextID + 1
            /\ byID' = byID \cup {NewID}
            /\ byClientRandom' = [byClientRandom EXCEPT ![m.random] = NewID]
            /\ peers' = [peers EXCEPT ![NewID] = NewPeer(m.addr, m.random)]
            /\ u' = UdpAt("key", NewID, m)
            /\ UNCHANGED byTunnelIP
    /\ UNCHANGED <<t, e, tick, cause, history>>

\* Mutant: the cipher is made and not kept.
MutNewPeerCipher(serverRandom) == NilCipher

NewPeerCipher(serverRandom) == PeerKey(u.peer, u.m.random, serverRandom)

\* acceptClientSequence on the window of a new peer, which takes any
\* sequence DecodeAloha lets through; a fresh serverRandom; setCipher.
SetCipher ==
    /\ u.pc = "key"
    /\ randoms' = randoms + 1
    /\ peers' = [peers EXCEPT
                    ![u.peer].window = Accept(@, u.m.seq),
                    ![u.peer].cipher = NewPeerCipher(randoms')]
    /\ u' = [u EXCEPT !.pc = "route", !.random = randoms']
    /\ UNCHANGED <<store, t, e, tick, cause, net, delivered, restarts>>

\* Mutant: setTunnelIP trusts the *peer and does not look it up in byID.
MutRefusal ==
    IF ~ValidIPRange(u.peer) THEN "address range"
    ELSE IF byTunnelIP[TunnelIPOf(u.peer)] # NoPeer THEN "address taken"
    ELSE "none"

\* The error of allocateTunnelIP or of peerStore.setTunnelIP, if any.
Refusal ==
    IF ~ValidIPRange(u.peer) THEN "address range"
    ELSE IF u.peer \notin byID THEN "peer not found"
    ELSE IF byTunnelIP[TunnelIPOf(u.peer)] # NoPeer THEN "address taken"
    ELSE "none"

\* allocateTunnelIP and peerStore.setTunnelIP.  None of their errors is one
\* that handlePacketError drops.
SetTunnelIP ==
    /\ u.pc = "route"
    /\ LET ip == TunnelIPOf(u.peer)
       IN  IF Refusal = "none"
           THEN /\ peers' = [peers EXCEPT ![u.peer].tunnelIP = ip]
                /\ byTunnelIP' = [byTunnelIP EXCEPT ![ip] = u.peer]
                /\ u' = [u EXCEPT !.pc = "number"]
                /\ UNCHANGED cause
           ELSE /\ Fail(Refusal)
                /\ u' = UdpStopped
                /\ UNCHANGED <<peers, byTunnelIP>>
    /\ UNCHANGED <<byID, byClientRandom, nextID, t, e, tick, history>>

\* nextSendSequence for the WELCOME.
NumberWelcome ==
    /\ u.pc = "number"
    /\ peers' = [peers EXCEPT ![u.peer].sendSeq = @ + 1]
    /\ u' = [u EXCEPT !.pc = "welcome", !.seq = peers[u.peer].sendSeq + 1]
    /\ UNCHANGED <<store, t, e, tick, cause, history>>

\* Mutant: the payload forgets that the first address is the server's.
MutWelcome ==
    EncodeWelcome(u.peer, u.seq, u.m.random, u.random, u.peer, u.m.addr)

\* The WELCOME that the handler seals.
Welcome ==
    EncodeWelcome(u.peer, u.seq, u.m.random, u.random, TunnelIPOf(u.peer), u.m.addr)

\* EncodeWelcomePacket and WriteToUDP.
SendWelcome ==
    /\ u.pc = "welcome"
    /\ \/ /\ net' = net \cup {Welcome}
          /\ u' = UdpReading
          /\ UNCHANGED cause
       \/ /\ IOEnds
          /\ u' = UdpStopped
          /\ UNCHANGED net
    /\ UNCHANGED <<store, peers, t, e, tick, randoms, delivered, restarts>>

-----------------------------------------------------------------------------
(***************************************************************************)
(* udpToTun: session packets                                               *)
(***************************************************************************)
\* getByID, cipherSnapshot and DecodePacket.  A packet that fails any of
\* them, or is a DATA without payload, is dropped.
ReadPacket(m) ==
    /\ u.pc = "read"
    /\ m.type # "ALOHA"
    /\ u' = IF /\ m.id \in byID
               /\ DecodesPacket(m, peers[m.id].cipher, "c2s")
               /\ \/ m.type = "KEEPALIVE"
                  \/ m.type = "DATA" /\ m.body # NoBody
            THEN UdpAt("handle", m.id, m)
            ELSE u
    /\ UNCHANGED <<store, peers, t, e, tick, cause, history>>

\* handleKeepalive and handleData up to the TUN: a second getByID, for DATA
\* the address check, and acceptClientSequence.
HandlePacket ==
    /\ u.pc = "handle"
    /\ IF /\ u.peer \in byID
          /\ u.m.type = "DATA" => u.m.addr = peers[u.peer].addr
          /\ Accepts(peers[u.peer].window, u.m.seq)
       THEN /\ peers' = [peers EXCEPT ![u.peer].window = Accept(@, u.m.seq)]
            /\ u' = [u EXCEPT !.pc = IF u.m.type = "DATA" THEN "deliver" ELSE "touch"]
       ELSE /\ u' = UdpReading
            /\ UNCHANGED peers
    /\ UNCHANGED <<store, t, e, tick, cause, history>>

\* WriteContext.
Deliver ==
    /\ u.pc = "deliver"
    /\ \/ /\ delivered' = delivered \cup {[key |-> u.m.key, seq |-> u.m.seq]}
          /\ u' = [u EXCEPT !.pc = "touch"]
          /\ UNCHANGED cause
       \/ /\ IOError
          /\ u' = UdpStopped
          /\ UNCHANGED delivered
    /\ UNCHANGED <<store, peers, t, e, tick, randoms, net, restarts>>

Touch ==
    /\ u.pc = "touch"
    /\ peers' = [peers EXCEPT ![u.peer].idle = 0]
    /\ u' = UdpReading
    /\ UNCHANGED <<store, t, e, tick, cause, history>>

-----------------------------------------------------------------------------
(***************************************************************************)
(* tunToUdp                                                                *)
(***************************************************************************)
\* ReadContext, extractIPv4Dst, getByTunnelIP.  Without an entry the inner
\* packet is dropped, and nothing has happened.
ReadTun(dst) ==
    /\ t.pc = "read"
    /\ LET p == byTunnelIP[dst]
       IN  /\ p # NoPeer
           /\ peers[p].sendSeq < MaxSend
           /\ t' = TunAt("number", p, dst)
    /\ UNCHANGED <<store, peers, u, e, tick, cause, history>>

\* A read error, the eventfd, or an inner packet that is not well-formed
\* IPv4.
ReadTunFails ==
    /\ t.pc = "read"
    /\ IOEnds
    /\ t' = TunStopped
    /\ UNCHANGED <<store, peers, u, e, tick, history>>

\* nextSendSequence for a DATA.
NumberData ==
    /\ t.pc = "number"
    /\ peers' = [peers EXCEPT ![t.peer].sendSeq = @ + 1]
    /\ t' = [t EXCEPT !.pc = "send", !.seq = peers[t.peer].sendSeq + 1]
    /\ UNCHANGED <<store, u, e, tick, cause, history>>

Data ==
    EncodePacket(peers[t.peer].cipher, "s2c", Header("DATA", t.peer, t.seq),
                 t.dst, peers[t.peer].addr)

\* cipherSnapshot, EncodePacket and WriteToUDP.  Without a cipher the
\* packet is dropped, and its number with it.
SendData ==
    /\ t.pc = "send"
    /\ \/ /\ net' = IF peers[t.peer].cipher = NilCipher THEN net
                    ELSE net \cup {Data}
          /\ t' = TunReading
          /\ UNCHANGED cause
       \/ /\ peers[t.peer].cipher # NilCipher
          /\ IOEnds
          /\ t' = TunStopped
          /\ UNCHANGED net
    /\ UNCHANGED <<store, peers, u, e, tick, randoms, delivered, restarts>>

-----------------------------------------------------------------------------
(***************************************************************************)
(* expirePeersLoop                                                         *)
(***************************************************************************)
TickerFires ==
    /\ e.pc = "wait"
    /\ tick = CleanupInterval
    /\ tick' = 0
    /\ e' = SweepAt("fired")
    /\ UNCHANGED <<store, peers, u, t, cause, history>>

\* The loop wakes up and reads the time.
ReadNow ==
    /\ e.pc = "fired"
    /\ e' = SweepAt("sweep")
    /\ UNCHANGED <<store, peers, u, t, tick, cause, history>>

\* Mutant: a peer expires when its timeout is reached, not when it is over.
MutExpired(p) == peers[p].idle - e.age >= PeerTimeout

\* peer.expired(now, timeout), with a "now" that is e.age old.
Expired(p) == peers[p].idle - e.age > PeerTimeout

\* Mutant: a peer that has no address yet is not looked at.
MutExpiredPeers == {p \in byID : Expired(p) /\ peers[p].tunnelIP # NoIP}

ExpiredPeers == {p \in byID : Expired(p)}

\* deleteExpired.  It holds peerStore.mu from start to end; a touch can only
\* come before or after the look at its own peer.
DeleteExpired ==
    /\ e.pc = "sweep"
    /\ byID' = byID \ ExpiredPeers
    /\ byTunnelIP' =
        [ip \in TunnelIPs |->
            IF \E p \in ExpiredPeers : peers[p].tunnelIP = ip
            THEN NoPeer ELSE byTunnelIP[ip]]
    /\ byClientRandom' =
        [r \in ClientRandoms |->
            IF \E p \in ExpiredPeers : peers[p].clientRandom = r
            THEN NoPeer ELSE byClientRandom[r]]
    /\ e' = SweepAt("wait")
    /\ UNCHANGED <<nextID, peers, u, t, tick, cause, history>>

\* ctx.Done; when the ticker has fired as well, select takes either.
ExpiryEnds ==
    /\ e.pc \in {"wait", "fired"}
    /\ cause # "none"
    /\ e' = SweepAt("stopped")
    /\ UNCHANGED <<store, peers, u, t, tick, cause, history>>

-----------------------------------------------------------------------------
(***************************************************************************)
(* Time passes for the peers in the store; a peer outside it is never      *)
(* looked at again, nor is any once the loop has ended.  The ticker is on  *)
(* time, and a sweep is over at most MaxLag after it fired.  MaxIdle,      *)
(* where the count of idle time stops, is out of reach: see PromptRemoval. *)
(***************************************************************************)
MaxIdle == PeerTimeout + CleanupInterval + MaxLag + 1

Tick ==
    /\ tick < CleanupInterval
    /\ e.pc # "stopped"
    /\ e.pc \in {"fired", "sweep"} => tick < MaxLag
    /\ tick' = tick + 1
    /\ e' = IF e.pc = "sweep" THEN [e EXCEPT !.age = @ + 1] ELSE e
    /\ peers' = [p \in PeerIDs |->
                    IF p \in byID /\ peers[p].idle < MaxIdle
                    THEN [peers[p] EXCEPT !.idle = @ + 1]
                    ELSE peers[p]]
    /\ UNCHANGED <<store, u, t, cause, history>>

\* What New and runTunnel start with.
Start ==
    /\ byID' = {}
    /\ byTunnelIP' = [ip \in TunnelIPs |-> NoPeer]
    /\ byClientRandom' = [r \in ClientRandoms |-> NoPeer]
    /\ nextID' = 1
    /\ peers' = [p \in PeerIDs |-> FreePeer]
    /\ u' = UdpReading /\ t' = TunReading /\ e' = SweepAt("wait")
    /\ tick' = 0
    /\ cause' = "none"

\* The process ends, by an error, a signal or a crash, at any point, and is
\* started again.  Nothing of its state is on disk.  (Without a packet on the
\* wire there is no past, and the server is as in Init.)
Restart ==
    /\ restarts < MaxRestarts
    /\ net # {}
    /\ restarts' = restarts + 1
    /\ Start
    /\ UNCHANGED <<randoms, net, delivered>>

\* errgroup.Wait has returned.
Terminated ==
    /\ u.pc = "stopped" /\ t.pc = "stopped" /\ e.pc = "stopped"
    /\ UNCHANGED vars

Init ==
    /\ byID = {}
    /\ byTunnelIP = [ip \in TunnelIPs |-> NoPeer]
    /\ byClientRandom = [r \in ClientRandoms |-> NoPeer]
    /\ nextID = 1
    /\ peers = [p \in PeerIDs |-> FreePeer]
    /\ u = UdpReading /\ t = TunReading /\ e = SweepAt("wait")
    /\ tick = 0
    /\ cause = "none"
    /\ randoms = 0
    /\ net = {}
    /\ delivered = {}
    /\ restarts = 0

-----------------------------------------------------------------------------
(***************************************************************************)
(* The server against every client that holds the PSK: an ALOHA with any   *)
(* random comes from any address, again and again; whoever can open a      *)
(* WELCOME of this or an earlier run sends session packets under its key   *)
(* with any of the sequences, in any order, any number of times, from any  *)
(* address.  (A client starts its session packets at sequence 2.)          *)
(***************************************************************************)
AlohaArrives ==
    \E r \in ClientRandoms, a \in Addrs : Register(EncodeAloha(r, a))

Payloads == {<<"KEEPALIVE", NoBody>>, <<"DATA", NoBody>>, <<"DATA", 1>>}

SessionPacketArrives ==
    \E w \in net, r \in ClientRandoms, p \in Payloads,
       s \in ClientSequences, a \in Addrs :
        /\ DecodesWelcome(w, r)
        /\ ReadPacket(EncodePacket(PeerKey(w.id, r, w.random), "c2s",
                                   Header(p[1], w.id, s), p[2], a))

UdpToTun ==
    \/ SetCipher \/ SetTunnelIP \/ NumberWelcome \/ SendWelcome
    \/ HandlePacket \/ Deliver \/ Touch \/ ReadUdpFails

TunToUdp ==
    \/ \E dst \in TunnelIPs : ReadTun(dst)
    \/ ReadTunFails \/ NumberData \/ SendData

ExpirePeersLoop == TickerFires \/ ReadNow \/ DeleteExpired \/ ExpiryEnds

ServerStep ==
    UdpToTun \/ TunToUdp \/ ExpirePeersLoop \/ Tick \/ Restart \/ Terminated

Next == AlohaArrives \/ SessionPacketArrives \/ ServerStep

Spec == Init /\ [][Next]_vars

\* Time goes on, and the goroutine that waits for the ticker is scheduled.
FairSpec == Spec /\ WF_vars(Tick) /\ WF_vars(ExpirePeersLoop)

-----------------------------------------------------------------------------
(***************************************************************************)
(* Types                                                                   *)
(***************************************************************************)
PeerKeys == PeerIDs \X ClientRandoms \X Nat

Keys == {<<r>> : r \in ClientRandoms} \cup (ClientRandoms \X Nat) \cup PeerKeys

Packet ==
    [type   : {"ALOHA", "WELCOME", "DATA", "KEEPALIVE"},
     id     : Nat,
     seq    : Nat,
     random : ClientRandoms \cup Nat,
     key    : Keys,
     nonce  : {"c2s", "s2c"} \X Nat,
     body   : Nat,
     addr   : Addrs \cup {NoAddr}]

Peer ==
    [addr         : Addrs \cup {NoAddr},
     clientRandom : ClientRandoms \cup {NoRandom},
     tunnelIP     : TunnelIPs \cup {NoIP},
     cipher       : PeerKeys \cup {NilCipher},
     sendSeq      : Nat,
     window       : ReplayWindows,
     idle         : Nat]

AlohaPcs == {"key", "route", "number", "welcome"}
SessionPcs == {"handle", "deliver", "touch"}

UdpState ==
    [pc     : {"read", "stopped"} \cup AlohaPcs \cup SessionPcs,
     peer   : PeerIDs \cup {NoPeer},
     m      : Packet \cup {NoPacket},
     random : Nat,
     seq    : Nat]

TunState ==
    [pc   : {"read", "number", "send", "stopped"},
     peer : PeerIDs \cup {NoPeer},
     dst  : TunnelIPs \cup {NoIP},
     seq  : Nat]

Causes == {"none", "i/o", "address range", "peer not found", "address taken"}

\* Type correctness: in particular, a handler in progress holds a *peer and
\* the packet it was started with.
TypeOK ==
    /\ byID \in SUBSET PeerIDs
    /\ byTunnelIP \in [TunnelIPs -> PeerIDs \cup {NoPeer}]
    /\ byClientRandom \in [ClientRandoms -> PeerIDs \cup {NoPeer}]
    /\ nextID \in 1 .. MaxPeers + 1
    /\ peers \in [PeerIDs -> Peer]
    /\ u \in UdpState
    /\ u.pc \notin {"read", "stopped"} => u.peer \in PeerIDs /\ u.m \in Packet
    /\ u.pc \in AlohaPcs => u.m.random \in ClientRandoms
    /\ t \in TunState
    /\ t.pc \in {"number", "send"} => t.peer \in PeerIDs
    /\ e \in [pc : {"wait", "fired", "sweep", "stopped"}, age : Nat]
    /\ tick \in 0 .. CleanupInterval
    /\ cause \in Causes
    /\ randoms \in Nat
    /\ net \in SUBSET Packet
    /\ delivered \in SUBSET [key : Keys, seq : Nat]
    /\ restarts \in 0 .. MaxRestarts

-----------------------------------------------------------------------------
(***************************************************************************)
(* Properties                                                              *)
(***************************************************************************)
(***************************************************************************)
(* The three maps of the peer store describe the same set of peers: an     *)
(* entry of byTunnelIP or byClientRandom leads to a peer that byID has and *)
(* that carries this address or random, and a peer of byID is found under  *)
(* its own random and, once it has one, its own address.  deleteExpired,   *)
(* register and setTunnelIP must keep this while a handler that holds a    *)
(* *peer is interrupted anywhere.                                          *)
(***************************************************************************)
StoreConsistent ==
    /\ \A p \in byID :
        /\ p < nextID
        /\ peers[p].clientRandom \in ClientRandoms
        /\ byClientRandom[peers[p].clientRandom] = p
        /\ peers[p].tunnelIP # NoIP => byTunnelIP[peers[p].tunnelIP] = p
    /\ \A r \in ClientRandoms : byClientRandom[r] # NoPeer =>
        byClientRandom[r] \in byID /\ peers[byClientRandom[r]].clientRandom = r
    /\ \A ip \in TunnelIPs : byTunnelIP[ip] # NoPeer =>
        byTunnelIP[ip] \in byID /\ peers[byTunnelIP[ip]].tunnelIP = ip

(***************************************************************************)
(* tunToUdp never meets a peer without a cipher: handleAloha publishes the *)
(* address only after setCipher, so an inner packet is not dropped (and    *)
(* its number not wasted) for a handshake that is half done.               *)
(***************************************************************************)
KeyedBeforeRouted ==
    /\ \A ip \in TunnelIPs :
        byTunnelIP[ip] # NoPeer => peers[byTunnelIP[ip]].cipher # NilCipher
    /\ t.pc \in {"number", "send"} => peers[t.peer].cipher # NilCipher

(***************************************************************************)
(* The server never seals two packets under one key and nonce, although    *)
(* two goroutines draw numbers from one counter, ALOHAs are repeated after *)
(* their peer expired, and a restarted server gives out the same peer IDs  *)
(* and counts from 1 again.                                                *)
(***************************************************************************)
Unused(packet) ==
    \A m \in net : m.key = packet.key => m.nonce # packet.nonce

NonceFresh ==
    /\ u.pc = "welcome" => Unused(Welcome)
    /\ t.pc = "send" => Unused(Data)

(***************************************************************************)
(* A client packet reaches the server's TUN at most once, however often    *)
(* the network repeats it, in whatever order, across expiry and restart.   *)
(***************************************************************************)
AtMostOnce ==
    u.pc = "deliver" => [key |-> u.m.key, seq |-> u.m.seq] \notin delivered

(***************************************************************************)
(* A WELCOME on the wire is honoured for as long as its peer is there: the *)
(* inner address it grants leads to this peer and to the UDP address the   *)
(* ALOHA came from.                                                        *)
(***************************************************************************)
WelcomeHonoured ==
    \A w \in net : \A r \in ClientRandoms :
        /\ DecodesWelcome(w, r)
        /\ w.id \in byID
        /\ peers[w.id].cipher = PeerKey(w.id, r, w.random)
        => byTunnelIP[w.body] = w.id /\ peers[w.id].addr = w.addr

(***************************************************************************)
(* A silent peer is out of the store, and its address free, no later than  *)
(* one cleanup interval (and the delay of the sweep) after its timeout,    *)
(* although the sweep works with a time that it read some while ago.       *)
(***************************************************************************)
PromptRemoval ==
    \A p \in byID : peers[p].idle <= PeerTimeout + CleanupInterval + MaxLag

\* A running server removes no peer before its timeout is over, even when
\* the sweep is late.
KeptWhileHeard ==
    [][restarts' = restarts =>
        \A p \in byID \ byID' : peers[p].idle > PeerTimeout]_vars

\* A removed peer does not come back, neither by a handler that still holds
\* it and touches it nor by its ID being given to another client.
RemovedForGood ==
    [][restarts' = restarts =>
        \A p \in byID' \ byID : p >= nextID]_vars

\* A peer of the store is heard of or removed in the end, again and again,
\* unless an error ends the server first.
SilentPeerRemoved ==
    \A p \in PeerIDs :
        []<>(p \notin byID \/ peers[p].idle = 0 \/ e.pc = "stopped")

(***************************************************************************)
(* When an ALOHA may stop the server.  handleAloha returns an error that   *)
(* is not dropped only when this run has registered more peers than the    *)
(* network has addresses for clients, those that have expired included, or *)
(* when the peer it has just registered was removed under it by the sweep. *)
(* It never finds the address of its peer taken, although that of an       *)
(* expired peer is free and the sweep and the handler work on the three    *)
(* maps in turn.                                                           *)
(***************************************************************************)
StopsForCause ==
    /\ cause # "address taken"
    /\ cause = "address range" => nextID - 1 > NetworkSize - 3
    /\ cause = "peer not found" => nextID - 1 \notin byID

-----------------------------------------------------------------------------
\* README.en.md, "Handshake": the server sends "WELCOME(sequence=1)"; the
\* client of handshake.go accepts no other.
WelcomeIsFirst == \A w \in net : w.type = "WELCOME" => w.seq = 1

\* docs/plan.txt, "7.": errors of a packet, which may be dropped, are told
\* apart from the I/O errors that have to end the tunnel.  So no packet ends
\* the server.
OnlyIOEndsServer == cause \in {"none", "i/o"}
=============================================================================
