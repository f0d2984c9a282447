-------------------------- MODULE KeepaliveProofs ---------------------------
(***************************************************************************)
(* Proof that a client within the assumed losses keeps its peer.           *)
(***************************************************************************)
EXTENDS Keepalive, TLAPS

\* The time from the registration to the first KEEPALIVE, but for losses.
Lead == MaxDelay + MaxSetup

\* The time until a KEEPALIVE goes out that is not lost.
Gap == (MaxLost + 1) * KeepaliveInterval

TypeInv ==
    /\ registered \in BOOLEAN
    /\ idle \in Nat
    /\ sweep \in Nat
    /\ pc \in {"welcome", "setup", "up"}
    /\ since \in Nat /\ since <= Patience
    /\ lost \in 0 .. MaxLost
    /\ flight \subseteq 0 .. MaxDelay

(***************************************************************************)
(* How long the peer can have been idle: by what the client has done since *)
(* the last KEEPALIVE if none is under way, and by the age of the oldest.  *)
(***************************************************************************)
IdleInv ==
    /\ pc = "welcome" => idle <= since
    /\ pc = "setup" => idle <= MaxDelay + since
    /\ pc = "up" /\ flight = {} => idle <= Lead + lost * KeepaliveInterval + since
    /\ flight # {} => \E age \in flight : idle <= Lead + Gap + age
    /\ pc # "up" => flight = {} /\ lost = 0

Inv == TypeInv /\ IdleInv /\ registered

-----------------------------------------------------------------------------
\* The two products, and what they are to each other.
LEMMA Products ==
    ASSUME NEW l \in 0 .. MaxLost
    PROVE  /\ Lead \in Nat /\ Gap \in Nat
           /\ l * KeepaliveInterval \in Nat
           /\ l * KeepaliveInterval + KeepaliveInterval <= Gap
           /\ (l + 1) * KeepaliveInterval = l * KeepaliveInterval + KeepaliveInterval
<1>1. KeepaliveInterval \in Nat /\ MaxLost \in Nat /\ MaxDelay \in Nat /\ MaxSetup \in Nat
  BY PeriodAssumption
<1>2. l \in Nat /\ l <= MaxLost
  BY <1>1
<1>3. l * KeepaliveInterval <= MaxLost * KeepaliveInterval
  BY <1>1, <1>2
<1>4. Gap = MaxLost * KeepaliveInterval + KeepaliveInterval
  BY <1>1 DEF Gap
<1>5. /\ l * KeepaliveInterval \in Nat
      /\ MaxLost * KeepaliveInterval \in Nat
      /\ (l + 1) * KeepaliveInterval = l * KeepaliveInterval + KeepaliveInterval
  BY <1>1, <1>2
<1>6. QED
  BY <1>1, <1>3, <1>4, <1>5 DEF Lead

\* With the invariant a peer is never found expired.
LEMMA NotExpired == Inv => ~Expired
<1> SUFFICES ASSUME Inv PROVE idle <= PeerTimeout
  BY PeriodAssumption DEF Inv, TypeInv, Expired
<1>1. Lead + Gap + MaxDelay <= PeerTimeout /\ PeerTimeout \in Nat /\ MaxDelay \in Nat
      /\ MaxSetup \in Nat /\ KeepaliveInterval \in Nat
  BY PeriodAssumption DEF Lead, Gap
<1>2. lost \in 0 .. MaxLost /\ idle \in Nat /\ since \in Nat /\ since <= Patience
  BY DEF Inv, TypeInv
<1>3. /\ Lead \in Nat /\ Gap \in Nat
      /\ lost * KeepaliveInterval \in Nat
      /\ lost * KeepaliveInterval + KeepaliveInterval <= Gap
  BY <1>2, Products
<1>4. CASE flight # {}
  <2>1. PICK age \in flight : idle <= Lead + Gap + age
    BY <1>4 DEF Inv, IdleInv
  <2>2. age \in Nat /\ age <= MaxDelay
    BY <1>1 DEF Inv, TypeInv
  <2>3. QED
    BY <1>1, <1>2, <1>3, <2>1, <2>2
<1>5. CASE flight = {} /\ pc = "up"
  <2>1. idle <= Lead + lost * KeepaliveInterval + since /\ since <= KeepaliveInterval
    BY <1>2, <1>5 DEF Inv, IdleInv, Patience
  <2>2. QED
    BY <1>1, <1>2, <1>3, <2>1
<1>6. CASE pc = "welcome"
  <2>1. idle <= since /\ since <= MaxDelay
    BY <1>2, <1>6 DEF Inv, IdleInv, Patience
  <2>2. QED
    BY <1>1, <1>2, <1>3, <2>1 DEF Lead
<1>7. CASE pc = "setup"
  <2>1. idle <= MaxDelay + since /\ since <= MaxSetup
    BY <1>2, <1>7 DEF Inv, IdleInv, Patience
  <2>2. QED
    BY <1>1, <1>2, <1>3, <2>1 DEF Lead
<1>8. QED
  BY <1>4, <1>5, <1>6, <1>7 DEF Inv, TypeInv

LEMMA InitInv == Init => Inv
<1> SUFFICES ASSUME Init PROVE Inv
  OBVIOUS
<1>1. MaxDelay \in Nat /\ MaxLost \in Nat /\ PeerCleanupInterval \in Nat
  BY PeriodAssumption
<1>2. TypeInv
  BY <1>1 DEF Init, TypeInv, Patience
<1>3. IdleInv
  BY <1>1 DEF Init, IdleInv
<1>4. QED
  BY <1>2, <1>3 DEF Init, Inv

-----------------------------------------------------------------------------
LEMMA StepInv == Inv /\ [Next]_vars => Inv'
<1> SUFFICES ASSUME Inv, [Next]_vars PROVE Inv'
  OBVIOUS
<1>0. /\ MaxDelay \in Nat /\ MaxSetup \in Nat /\ MaxLost \in Nat
      /\ KeepaliveInterval \in Nat /\ PeerCleanupInterval \in Nat
  BY PeriodAssumption
<1>t. /\ idle \in Nat /\ since \in Nat /\ sweep \in Nat /\ lost \in 0 .. MaxLost
      /\ flight \subseteq 0 .. MaxDelay
  BY DEF Inv, TypeInv
<1>p. /\ Lead \in Nat /\ Gap \in Nat
      /\ lost * KeepaliveInterval \in Nat
      /\ lost * KeepaliveInterval + KeepaliveInterval <= Gap
      /\ (lost + 1) * KeepaliveInterval = lost * KeepaliveInterval + KeepaliveInterval
  BY <1>t, Products
<1>1. CASE HandshakeReturns
  <2>1. TypeInv'
    BY <1>0, <1>1 DEF Inv, TypeInv, HandshakeReturns, Patience
  <2>2. idle <= MaxDelay /\ flight = {} /\ lost = 0
    BY <1>0, <1>1, <1>t DEF Inv, TypeInv, IdleInv, HandshakeReturns, Patience
  <2>3. IdleInv'
    BY <1>0, <1>1, <1>t, <2>2 DEF IdleInv, HandshakeReturns
  <2>4. QED
    BY <1>1, <2>1, <2>3 DEF Inv, HandshakeReturns
<1>2. CASE SessionRuns
  <2>1. TypeInv'
    BY <1>0, <1>2 DEF Inv, TypeInv, SessionRuns, Patience
  <2>2. idle <= Lead /\ flight = {} /\ lost = 0
    BY <1>0, <1>2, <1>t DEF Inv, TypeInv, IdleInv, SessionRuns, Patience, Lead
  <2>3. IdleInv'
    BY <1>0, <1>2, <1>t, <1>p, <2>2 DEF IdleInv, SessionRuns
  <2>4. QED
    BY <1>2, <2>1, <2>3 DEF Inv, SessionRuns
<1>3. CASE SendKeepalive
  <2>1. TypeInv'
    BY <1>0, <1>3, <1>t DEF Inv, TypeInv, SendKeepalive, Patience
  <2>2. flight = {} => idle <= Lead + lost * KeepaliveInterval + KeepaliveInterval
    BY <1>3 DEF Inv, IdleInv, SendKeepalive
  <2>3. CASE flight' = flight \cup {0} /\ lost' = 0
    <3>1. \E age \in flight' : idle <= Lead + Gap + age
      <4>1. CASE flight = {}
        BY <1>0, <1>t, <1>p, <2>2, <2>3, <4>1
      <4>2. CASE flight # {}
        BY <2>3, <4>2 DEF Inv, IdleInv
      <4>3. QED
        BY <4>1, <4>2
    <3>2. IdleInv'
      BY <1>3, <2>3, <3>1 DEF IdleInv, SendKeepalive
    <3>3. QED
      BY <1>3, <2>1, <3>2 DEF Inv, SendKeepalive
  <2>4. CASE lost' = lost + 1 /\ flight' = flight
    <3>1. IdleInv'
      BY <1>0, <1>3, <1>t, <1>p, <2>2, <2>4 DEF Inv, IdleInv, SendKeepalive
    <3>2. QED
      BY <1>3, <2>1, <3>1 DEF Inv, SendKeepalive
  <2>5. QED
    BY <1>3, <2>3, <2>4 DEF SendKeepalive
<1>4. CASE HandleKeepalive
  <2>1. idle' = 0 /\ flight' \subseteq flight /\ registered'
        /\ UNCHANGED <<sweep, pc, since, lost>> /\ flight # {}
    BY <1>4 DEF Inv, HandleKeepalive, Touch
  <2>2. TypeInv'
    BY <1>0, <1>t, <2>1 DEF Inv, TypeInv, Patience
  <2>3. pc = "up"
    BY <2>1 DEF Inv, TypeInv, IdleInv
  <2>4. \A age \in flight' : age \in Nat
    BY <1>0, <1>t, <2>1
  <2>5. IdleInv'
    <3>1. flight' # {} => \E age \in flight' : idle' <= Lead + Gap + age
      <4>1. \A age \in flight' : idle' <= Lead + Gap + age
        BY <1>p, <2>1, <2>4
      <4>2. QED
        BY <4>1
    <3>2. idle' <= Lead + lost' * KeepaliveInterval + since'
      BY <1>t, <1>p, <2>1
    <3>3. pc' = "up"
      BY <2>1, <2>3
    <3>4. QED
      BY <3>1, <3>2, <3>3 DEF IdleInv
  <2>6. QED
    BY <2>1, <2>2, <2>5 DEF Inv
<1>5. CASE DeleteExpired
  <2>1. registered'
    BY <1>5, NotExpired DEF Inv, DeleteExpired
  <2>2. TypeInv'
    BY <1>5, <2>1 DEF Inv, TypeInv, DeleteExpired, Patience
  <2>3. IdleInv'
    BY <1>5 DEF Inv, IdleInv, DeleteExpired
  <2>4. QED
    BY <2>1, <2>2, <2>3 DEF Inv
<1>6. CASE Tick
  <2>1. TypeInv'
    BY <1>0, <1>6, <1>t DEF Inv, TypeInv, Tick, Patience
  <2>2. flight # {} => \E age \in flight' : idle' <= Lead + Gap + age
    <3>1. SUFFICES ASSUME flight # {} PROVE \E age \in flight' : idle' <= Lead + Gap + age
      OBVIOUS
    <3>2. PICK age \in flight : idle <= Lead + Gap + age
      BY <3>1 DEF Inv, IdleInv
    <3>3. age \in Nat /\ age + 1 \in flight' /\ idle' = idle + 1
      BY <1>0, <1>6, <1>t DEF Inv, Tick
    <3>4. idle' <= Lead + Gap + (age + 1)
      BY <1>t, <1>p, <3>2, <3>3
    <3>5. QED
      BY <3>3, <3>4
  <2>3. flight' = {} <=> flight = {}
    BY <1>6 DEF Tick
  <2>4. IdleInv'
    BY <1>0, <1>6, <1>t, <1>p, <2>2, <2>3 DEF Inv, IdleInv, Tick
  <2>5. QED
    BY <1>6, <2>1, <2>4 DEF Inv, Tick
<1>7. CASE UNCHANGED vars
  BY <1>7 DEF Inv, TypeInv, IdleInv, Patience, vars
<1>8. QED
  BY <1>1, <1>2, <1>3, <1>4, <1>5, <1>6, <1>7 DEF Next

(***************************************************************************)
(* A client that is up keeps its peer for ever, for all periods that leave *)
(* room for its losses and delays: expirePeersLoop never finds it expired. *)
(***************************************************************************)
THEOREM PeerKept == Spec => []PeerStays
<1>1. Inv => PeerStays
  BY DEF Inv, PeerStays
<1>2. QED
  BY <1>1, InitInv, StepInv, PTL DEF Spec
=============================================================================
