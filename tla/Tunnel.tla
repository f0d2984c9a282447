------------------------------- MODULE Tunnel -------------------------------
(***************************************************************************)
(* The server and its clients over one UDP network.  A packet that was put *)
(* on the wire stays in net: it may arrive at either end now, much later,  *)
(* more than once or never, and in any order with the others.  The server  *)
(* may be restarted and clients may come and go at any time.               *)
(***************************************************************************)
EXTENDS Server

CONSTANT MaxClientSend      \* bound: the largest sequence a client sends

VARIABLES client, received

tunnelVars == <<vars, client, received>>

C == INSTANCE Client

TunnelInit == Init /\ C!ClientInit

\* udpToTun reads any datagram of the network.
PacketArrives == \E m \in net : Register(m) \/ ReadPacket(m)

TunnelNext ==
    \/ /\ PacketArrives \/ ServerStep
       /\ UNCHANGED <<client, received>>
    \/ /\ C!ClientNext
       /\ UNCHANGED <<store, peers, u, t, e, tick, cause,
                      randoms, delivered, restarts>>

TunnelSpec == TunnelInit /\ [][TunnelNext]_tunnelVars

-----------------------------------------------------------------------------
(***************************************************************************)
(* The two ends agree.  While the server still has the peer behind a       *)
(* client's session, both have the same key, inner address and UDP         *)
(* address, the inner address leads to that peer, and no other client has  *)
(* the session.  This must survive repeated and late ALOHAs, expiry, and a *)
(* restarted server that gives the same IDs and addresses to others.       *)
(***************************************************************************)
SessionAgreement ==
    \A r \in ClientRandoms :
        LET c == client[r]
        IN  /\ c.phase = "up"
            /\ c.id \in byID
            /\ peers[c.id].cipher = c.cipher
            => /\ peers[c.id].clientRandom = r
               /\ peers[c.id].addr = c.addr
               /\ byTunnelIP[c.tunnelIP] = c.id
               /\ \A q \in ClientRandoms \ {r} : client[q].cipher # c.cipher

(***************************************************************************)
(* An inner packet reaches the TUN of the client it is addressed to, and   *)
(* only once, although the address may have been another client's before a *)
(* restart and the UDP address another client's a moment ago.              *)
(***************************************************************************)
PrivateDelivery ==
    \A r \in ClientRandoms :
        LET m == client[r].reading
        IN  m # NoPacket =>
                /\ m.body = client[r].tunnelIP
                /\ [key |-> m.key, seq |-> m.seq] \notin received

(***************************************************************************)
(* No key and nonce seal two packets, whichever end and whichever          *)
(* goroutine seals: both directions use the peer key, both number from 1.  *)
(***************************************************************************)
TunnelNonceFresh ==
    /\ NonceFresh
    /\ \A r \in ClientRandoms, s \in C!Senders :
        client[r].taken[s] # C!None => Unused(C!Outgoing(r, s))
=============================================================================
