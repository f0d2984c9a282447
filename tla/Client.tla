------------------------------- MODULE Client -------------------------------
(***************************************************************************)
(* The clients of internal/client: handshake and session.                  *)
(*                                                                         *)
(* A client is one invocation of Client.Run.  It draws one clientRandom,   *)
(* and is named by it.  Once up it runs three goroutines that share the    *)
(* session's mutex: udpToTun, tunToUdp and keepAliveLoop; the last two     *)
(* draw numbers from one counter.                                          *)
(*                                                                         *)
(* net is everything that was ever put on the wire.  Any packet of it may  *)
(* arrive at its address now, later, again, or never.                      *)
(***************************************************************************)
EXTENDS Packets, ReplayWindow

CONSTANTS
    ClientRandoms,      \* the clients
    Addrs,              \* their UDP addresses
    MaxClientSend       \* bound: the largest sequence a client sends

VARIABLES
    client,             \* the state of every client
    net,                \* every packet put on the wire
    received            \* history: server packets written to a client's TUN

cvars == <<client, net, received>>

NoPacket == [type |-> "none"]
NoAddr == 0

\* The goroutines that send, by the type of what they send.  A sender holds
\* the number it took until its packet is written.
Senders == {"DATA", "KEEPALIVE"}
None == 0

Fresh ==
    [phase     |-> "new",
     addr      |-> NoAddr,
     id        |-> 0,
     tunnelIP  |-> 0,
     cipher    |-> NilCipher,
     sendSeq   |-> 0,
     window    |-> NewWindow,
     taken     |-> [s \in Senders |-> None],
     reading   |-> NoPacket]

ClientInit ==
    /\ client = [r \in ClientRandoms |-> Fresh]
    /\ received = {}

Up(r) == client[r].phase = "up"

\* Run has returned: of the client only the address remains, for others to
\* take over.
Ended(r) == [Fresh EXCEPT !.phase = "off", !.addr = client[r].addr]

-----------------------------------------------------------------------------
(***************************************************************************)
(* Client.handshake                                                        *)
(***************************************************************************)
\* DialUDP and the ALOHA.  ListenAddr may be a fixed port, so an address
\* can be one that an earlier client had.
SendAloha(r, addr) ==
    /\ client[r].phase = "new"
    /\ \A q \in ClientRandoms : client[q].addr = addr => client[q].phase = "off"
    /\ client' = [client EXCEPT ![r].phase = "waiting", ![r].addr = addr]
    /\ net' = net \cup {EncodeAloha(r, addr)}
    /\ UNCHANGED received

\* The one datagram that handshake reads.  Unless it is the WELCOME for this
\* random, with sequence 1, Run returns an error.
ReadWelcome(r, m) ==
    /\ client[r].phase = "waiting"
    /\ m.addr = client[r].addr
    /\ client' =
        IF DecodesWelcome(m, r) /\ m.seq = 1
        THEN [client EXCEPT
                ![r].phase    = "up",
                ![r].id       = m.id,
                ![r].tunnelIP = m.body,
                ![r].cipher   = PeerKey(m.id, r, m.random),
                ![r].sendSeq  = 1,
                ![r].window   = Accept(NewWindow, m.seq)]
        ELSE [client EXCEPT ![r] = Ended(r)]
    /\ UNCHANGED <<net, received>>

\* The handshake's deadline, an error in setting up or running the session,
\* or a signal: Run returns.
Stop(r) ==
    /\ client[r].phase \in {"waiting", "up"}
    /\ client' = [client EXCEPT ![r] = Ended(r)]
    /\ UNCHANGED <<net, received>>

-----------------------------------------------------------------------------
(***************************************************************************)
(* session.tunToUdp and session.keepAliveLoop: nextSendSequence under the  *)
(* mutex, then EncodePacket and Write outside it.                          *)
(***************************************************************************)
Number(r, s) ==
    /\ Up(r)
    /\ client[r].taken[s] = None
    /\ client[r].sendSeq < MaxClientSend
    /\ LET seq == client[r].sendSeq + 1
       IN  client' = [client EXCEPT ![r].sendSeq = seq, ![r].taken[s] = seq]
    /\ UNCHANGED <<net, received>>

\* The packet that sender s writes: an inner packet, or no payload at all.
Outgoing(r, s) ==
    EncodePacket(client[r].cipher, "c2s",
                 Header(s, client[r].id, client[r].taken[s]),
                 IF s = "DATA" THEN 1 ELSE NoBody, client[r].addr)

Send(r, s) ==
    /\ Up(r)
    /\ client[r].taken[s] # None
    /\ net' = net \cup {Outgoing(r, s)}
    /\ client' = [client EXCEPT ![r].taken[s] = None]
    /\ UNCHANGED received

-----------------------------------------------------------------------------
(***************************************************************************)
(* session.udpToTun                                                        *)
(***************************************************************************)
\* Read, DecodePacket, the type check and acceptServerSequence.  A packet
\* that fails one of them is dropped.
ReadFromServer(r, m) ==
    /\ Up(r)
    /\ client[r].reading = NoPacket
    /\ m.addr = client[r].addr
    /\ DecodesPacket(m, client[r].cipher, "s2c")
    /\ m.type = "DATA"
    /\ Accepts(client[r].window, m.seq)
    /\ client' = [client EXCEPT ![r].window = Accept(@, m.seq),
                                ![r].reading = m]
    /\ UNCHANGED <<net, received>>

\* tun.WriteContext.
WriteTun(r) ==
    /\ Up(r)
    /\ client[r].reading # NoPacket
    /\ received' = received \cup
            {[key |-> client[r].reading.key, seq |-> client[r].reading.seq]}
    /\ client' = [client EXCEPT ![r].reading = NoPacket]
    /\ UNCHANGED net

-----------------------------------------------------------------------------
ClientStep(r) ==
    \/ \E a \in Addrs : SendAloha(r, a)
    \/ \E m \in net : ReadWelcome(r, m) \/ ReadFromServer(r, m)
    \/ Stop(r)
    \/ \E s \in Senders : Number(r, s) \/ Send(r, s)
    \/ WriteTun(r)

ClientNext == \E r \in ClientRandoms : ClientStep(r)
=============================================================================
