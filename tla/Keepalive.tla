----------------------------- MODULE Keepalive ------------------------------
(***************************************************************************)
(* Keepalive against expiry: the tickers of keepAliveLoop and              *)
(* expirePeersLoop, which know nothing of each other, and the KEEPALIVEs   *)
(* between them, some of them lost and all of them late.  The client has   *)
(* no data to send, so that KEEPALIVEs alone hold its peer.                *)
(*                                                                         *)
(* Time goes in units.  What must happen by some time stops the clock      *)
(* until it has.                                                           *)
(***************************************************************************)
EXTENDS Integers

CONSTANTS
    KeepaliveInterval,      \* defaultKeepaliveInterval
    PeerCleanupInterval,    \* defaultPeerCleanupInterval
    PeerTimeout,            \* defaultPeerTimeout
    MaxDelay,               \* how long a packet is under way at most
    MaxSetup,               \* how long the client sets up TUN and routes
    MaxLost                 \* how many KEEPALIVEs are lost in a row at most

(***************************************************************************)
(* The periods leave room for the losses.  The worst gap is the first one: *)
(* the WELCOME is late, the set-up slow, and so many KEEPALIVEs are lost.  *)
(***************************************************************************)
ASSUME PeriodAssumption ==
    /\ KeepaliveInterval \in Nat \ {0}
    /\ PeerCleanupInterval \in Nat \ {0}
    /\ {PeerTimeout, MaxDelay, MaxSetup, MaxLost} \subseteq Nat
    /\ MaxDelay + MaxSetup + (MaxLost + 1) * KeepaliveInterval + MaxDelay <= PeerTimeout

VARIABLES
    registered,     \* the peer is in the store
    idle,           \* now - peer.lastSeen
    sweep,          \* time since expirePeersLoop's ticker fired
    pc,             \* the client: "welcome", "setup" or "up"
    since,          \* time since it is there, or since its ticker fired
    lost,           \* KEEPALIVEs lost in a row
    flight          \* the ages of the KEEPALIVEs under way, which all differ

vars == <<registered, idle, sweep, pc, since, lost, flight>>

\* The server has just registered the peer.  Its ticker is anywhere.
Init ==
    /\ registered = TRUE
    /\ idle = 0
    /\ sweep \in 0 .. PeerCleanupInterval
    /\ pc = "welcome"
    /\ since = 0
    /\ lost = 0
    /\ flight = {}

-----------------------------------------------------------------------------
(***************************************************************************)
(* The client                                                              *)
(***************************************************************************)
HandshakeReturns ==
    /\ pc = "welcome"
    /\ pc' = "setup"
    /\ since' = 0
    /\ UNCHANGED <<registered, idle, sweep, lost, flight>>

\* ApplyAll is done and keepAliveLoop makes its ticker.
SessionRuns ==
    /\ pc = "setup"
    /\ pc' = "up"
    /\ since' = 0
    /\ UNCHANGED <<registered, idle, sweep, lost, flight>>

SendKeepalive ==
    /\ pc = "up"
    /\ since = KeepaliveInterval
    /\ since' = 0
    /\ \/ flight' = flight \cup {0} /\ lost' = 0
       \/ lost < MaxLost /\ lost' = lost + 1 /\ UNCHANGED flight
    /\ UNCHANGED <<registered, idle, sweep, pc>>

-----------------------------------------------------------------------------
(***************************************************************************)
(* The server                                                              *)
(***************************************************************************)
\* peer.touch
Touch == idle' = 0

\* KEEPALIVEs arrive in any order.  One for a peer that is gone is an error
\* that udpToTun logs.
HandleKeepalive ==
    /\ \E age \in flight : flight' = flight \ {age}
    /\ IF registered THEN Touch ELSE UNCHANGED idle
    /\ UNCHANGED <<registered, sweep, pc, since, lost>>

\* Mutant: at the timeout, not after it.
MutExpired == idle >= PeerTimeout

\* peer.expired
Expired == idle > PeerTimeout

\* A turn of expirePeersLoop: deleteExpired.
DeleteExpired ==
    /\ sweep = PeerCleanupInterval
    /\ sweep' = 0
    /\ registered' = (registered /\ ~Expired)
    /\ UNCHANGED <<idle, pc, since, lost, flight>>

-----------------------------------------------------------------------------
\* The longest time the client is where it is.
Patience ==
    CASE pc = "welcome" -> MaxDelay
      [] pc = "setup"   -> MaxSetup
      [] pc = "up"      -> KeepaliveInterval

Tick ==
    /\ since < Patience
    /\ sweep < PeerCleanupInterval
    /\ \A age \in flight : age < MaxDelay
    /\ since' = since + 1
    /\ sweep' = sweep + 1
    /\ flight' = {age + 1 : age \in flight}
    /\ idle' = IF registered THEN idle + 1 ELSE idle
    /\ UNCHANGED <<registered, pc, lost>>

Next ==
    \/ HandshakeReturns \/ SessionRuns \/ SendKeepalive
    \/ HandleKeepalive \/ DeleteExpired
    \/ Tick

Spec == Init /\ [][Next]_vars

-----------------------------------------------------------------------------
(***************************************************************************)
(* A client that is up, and whose KEEPALIVEs are not lost more often in a  *)
(* row than the periods allow for, keeps its peer for ever, wherever the   *)
(* two tickers stand to each other.  Nothing would tell the client that    *)
(* its peer is gone.                                                       *)
(***************************************************************************)
PeerStays == registered
=============================================================================
