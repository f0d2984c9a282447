---------------------------- MODULE ReplayProofs ----------------------------
(***************************************************************************)
(* For every window size: the window is an exact digest of what it         *)
(* accepted, and therefore implements the filter with unbounded memory.    *)
(***************************************************************************)
EXTENDS ReplayReceiver, TLAPS

\* What Accept returns is again a window: no bit leaves the word.
LEMMA AcceptType ==
    ASSUME NEW w \in ReplayWindows, NEW s \in Nat
    PROVE  Accept(w, s) \in ReplayWindows
  <1> USE WindowSizeAssumption DEF ReplayWindows, Offsets
  <1>1. Advance(w, s) \in ReplayWindows
        \/ ~Accepts(w, s)
    BY DEF Advance, Accepts, Verdict, ShiftLeft
  <1>2. QED
    BY <1>1 DEF Accept

\* Every state of the receiver is well typed.
THEOREM ReceiverTyping == Spec => []TypeOK
  <1>1. Init => TypeOK
    BY WindowSizeAssumption DEF Init, TypeOK, NewWindow, ReplayWindows, Offsets
  <1>2. TypeOK /\ [Next]_vars => TypeOK'
    <2> SUFFICES ASSUME TypeOK, [Next]_vars PROVE TypeOK'
      OBVIOUS
    <2>1. CASE UNCHANGED vars
      BY <2>1 DEF TypeOK, vars
    <2>2. ASSUME NEW s \in Arriving, Receive(s) PROVE TypeOK'
      <3>1. rw' \in ReplayWindows
        BY <2>2, AcceptType, ArrivingAssumption DEF TypeOK, Receive
      <3>2. accepted' \in SUBSET Arriving
        BY <2>2 DEF TypeOK, Receive
      <3>3. verdict' \in Arriving \X BOOLEAN
        BY <2>2 DEF Receive, Accepts
      <3>4. QED
        BY <3>1, <3>2, <3>3 DEF TypeOK
    <2>3. QED
      BY <2>1, <2>2 DEF Next
  <1>3. QED
    BY <1>1, <1>2, PTL DEF Spec

-----------------------------------------------------------------------------
(***************************************************************************)
(* One call of Accept keeps the digest exact.                              *)
(***************************************************************************)
LEMMA ReceiveExact ==
    ASSUME TypeOK, WindowExact, NEW s \in Arriving, Receive(s)
    PROVE  WindowExact'
  <1> USE WindowSizeAssumption, ArrivingAssumption
      DEF ReplayWindows, Offsets, TypeOK
  <1>t. /\ s \in Nat /\ rw.highest \in Nat /\ accepted \subseteq Nat
        /\ rw.bitmap \subseteq Offsets
        /\ rw = [highest |-> rw.highest, bitmap |-> rw.bitmap]
    OBVIOUS
  <1>1. CASE ~Accepts(rw, s)
    <2>1. rw' = rw /\ accepted' = accepted
      BY <1>1 DEF Receive, Accept
    <2>2. QED
      BY <2>1 DEF WindowExact
  <1>2. CASE Accepts(rw, s)
    <2>1. /\ rw' = Advance(rw, s) /\ accepted' = accepted \cup {s}
      BY <1>2 DEF Receive, Accept
    <2>2. /\ s > 0 /\ rw.highest - s < WindowSize
          /\ rw.highest - s \notin rw.bitmap
      BY <1>2, <1>t DEF Accepts, Verdict
    <2>3. CASE rw.highest = 0 \/ s - rw.highest >= WindowSize
      <3>1. rw'.highest = s /\ rw'.bitmap = {0}
        BY <2>1, <2>3 DEF Advance
      <3>2. \A a \in accepted : a <= rw.highest
        BY DEF WindowExact
      <3>3. s > rw.highest
        BY <2>2, <2>3, <1>t
      <3>4. \A o \in Offsets : o \in rw'.bitmap <=> rw'.highest - o \in accepted'
        <4> SUFFICES ASSUME NEW o \in Offsets
                     PROVE  o = 0 <=> s - o \in accepted \cup {s}
          BY <3>1, <2>1
        <4>1. CASE accepted = {}
          BY <4>1, <1>t
        <4>2. CASE accepted # {}
          <5>1. s - rw.highest >= WindowSize
            BY <2>3, <4>2 DEF WindowExact
          <5>2. s - o > rw.highest
            BY <5>1, <1>t
          <5>3. s - o \notin accepted
            BY <5>2, <3>2, <1>t
          <5>4. QED
            BY <5>3, <1>t
        <4>3. QED
          BY <4>1, <4>2
      <3>5. QED
        BY <3>1, <3>2, <3>3, <3>4, <2>1, <2>2, <1>t DEF WindowExact
    <2>4. CASE rw.highest > 0 /\ s > rw.highest /\ s - rw.highest < WindowSize
      <3>1. /\ rw'.highest = s
            /\ rw'.bitmap = ShiftLeft(rw.bitmap, s - rw.highest) \cup {0}
        BY <2>1, <2>4, <1>t DEF Advance
      <3>2. \A o \in Offsets : o \in rw'.bitmap <=> rw'.highest - o \in accepted'
        <4> SUFFICES ASSUME NEW o \in Offsets
                     PROVE  o \in rw'.bitmap <=> s - o \in accepted \cup {s}
          BY <3>1, <2>1
        <4> DEFINE p == o - (s - rw.highest)
        <4>1. s - o = rw.highest - p /\ p \in Int /\ p < WindowSize
          BY <2>4, <1>t
        <4>2. CASE o = 0
          BY <4>2, <3>1, <1>t
        <4>3. CASE o # 0 /\ p \in Offsets
          <5>1. p \in rw.bitmap <=> rw.highest - p \in accepted
            BY <4>3 DEF WindowExact
          <5>2. o \in rw'.bitmap <=> p \in rw.bitmap
            BY <4>3, <3>1 DEF ShiftLeft
          <5>3. s - o # s
            BY <4>3, <1>t
          <5>4. QED
            BY <5>1, <5>2, <5>3, <4>1
        <4>4. CASE o # 0 /\ p \notin Offsets
          <5>1. p < 0
            BY <4>1, <4>4
          <5>2. o \notin rw'.bitmap
            BY <5>1, <4>4, <3>1, <1>t DEF ShiftLeft
          <5>3. s - o > rw.highest /\ s - o # s
            BY <5>1, <4>1, <4>4, <1>t
          <5>4. s - o \notin accepted
            BY <5>3, <1>t DEF WindowExact
          <5>5. QED
            BY <5>2, <5>3, <5>4
        <4>5. QED
          BY <4>2, <4>3, <4>4
      <3>3. QED
        BY <3>1, <3>2, <2>1, <2>2, <2>4, <1>t DEF WindowExact
    <2>5. CASE rw.highest > 0 /\ s <= rw.highest
      <3>1. /\ rw'.highest = rw.highest
            /\ rw'.bitmap = rw.bitmap \cup {rw.highest - s}
        BY <2>1, <2>2, <2>5, <1>t DEF Advance
      <3>2. accepted # {}
        BY <2>5 DEF WindowExact
      <3>3. \A o \in Offsets : o \in rw'.bitmap <=> rw'.highest - o \in accepted'
        <4> SUFFICES ASSUME NEW o \in Offsets
                     PROVE  o \in rw.bitmap \cup {rw.highest - s}
                            <=> rw.highest - o \in accepted \cup {s}
          BY <3>1, <2>1
        <4>1. o = rw.highest - s <=> rw.highest - o = s
          BY <1>t
        <4>2. QED
          BY <4>1 DEF WindowExact
      <3>4. QED
        BY <3>1, <3>2, <3>3, <2>1, <2>2, <2>5, <1>t DEF WindowExact
    <2>6. QED
      BY <2>3, <2>4, <2>5, <1>t
  <1>3. QED
    BY <1>1, <1>2

(***************************************************************************)
(* The digest is exact in every reachable state, whatever arrives and in   *)
(* whatever order: no replayed sequence inside the window is forgotten and *)
(* none outside it is remembered as seen.                                  *)
(***************************************************************************)
THEOREM ReceiverExact == Spec => []WindowExact
  <1>1. Init => WindowExact
    BY WindowSizeAssumption DEF Init, WindowExact, NewWindow, Offsets
  <1>2. TypeOK /\ WindowExact /\ [Next]_vars => WindowExact'
    <2> SUFFICES ASSUME TypeOK, WindowExact, [Next]_vars PROVE WindowExact'
      OBVIOUS
    <2>1. CASE UNCHANGED vars
      BY <2>1 DEF WindowExact, vars
    <2>2. CASE Next
      BY <2>2, ReceiveExact DEF Next
    <2>3. QED
      BY <2>1, <2>2
  <1>3. QED
    BY <1>1, <1>2, ReceiverTyping, PTL DEF Spec

-----------------------------------------------------------------------------
(***************************************************************************)
(* Accept says yes exactly when the filter that never forgets would.       *)
(***************************************************************************)
LEMMA AcceptsIsFresh ==
    ASSUME TypeOK, WindowExact, NEW s \in Arriving
    PROVE  Accepts(rw, s) <=> Filter!Fresh(s)
  <1> USE WindowSizeAssumption, ArrivingAssumption
      DEF ReplayWindows, Offsets, TypeOK
  <1>t. s \in Nat /\ rw.highest \in Nat /\ accepted \subseteq Nat
    OBVIOUS
  <1>1. Accepts(rw, s) <=> /\ s # 0
                           /\ rw.highest - s < WindowSize
                           /\ rw.highest - s \notin rw.bitmap
    BY <1>t DEF Accepts, Verdict
  <1>2. rw.highest - s < WindowSize <=> \A a \in accepted : a - s < WindowSize
    <2>1. CASE accepted = {}
      BY <2>1, <1>t DEF WindowExact
    <2>2. CASE accepted # {}
      BY <2>2, <1>t DEF WindowExact
    <2>3. QED
      BY <2>1, <2>2
  <1>3. ASSUME rw.highest - s < WindowSize
        PROVE  rw.highest - s \in rw.bitmap <=> s \in accepted
    <2>1. CASE rw.highest - s \in Offsets
      <3>1. rw.highest - (rw.highest - s) = s
        BY <1>t
      <3>2. QED
        BY <2>1, <3>1 DEF WindowExact
    <2>2. CASE rw.highest < s
      <3>1. s \notin accepted
        BY <2>2, <1>t DEF WindowExact
      <3>2. rw.highest - s \notin rw.bitmap
        BY <2>2, <1>t
      <3>3. QED
        BY <3>1, <3>2
    <2>3. QED
      BY <2>1, <2>2, <1>3, <1>t
  <1>4. QED
    BY <1>1, <1>2, <1>3, <1>t DEF Filter!Fresh

(***************************************************************************)
(* The receiver with its fixed-size window implements the filter with      *)
(* unbounded memory: forgetting what lies behind the window changes no     *)
(* answer.                                                                 *)
(***************************************************************************)
THEOREM ReceiverImplementsFilter == Spec => FilterSpec
  <1>1. Init => Filter!Init
    BY DEF Init, Filter!Init
  <1>2. TypeOK /\ WindowExact /\ [Next]_vars => [Filter!Next]_Filter!vars
    <2> SUFFICES ASSUME TypeOK, WindowExact, [Next]_vars
                 PROVE  [Filter!Next]_Filter!vars
      OBVIOUS
    <2>1. CASE UNCHANGED vars
      BY <2>1 DEF vars, Filter!vars
    <2>2. ASSUME NEW s \in Arriving, Receive(s) PROVE Filter!Next
      <3>1. Accepts(rw, s) <=> Filter!Fresh(s)
        BY AcceptsIsFresh
      <3>2. CASE Accepts(rw, s)
        BY <2>2, <3>1, <3>2 DEF Receive, Filter!Next, Filter!Take
      <3>3. CASE ~Accepts(rw, s)
        <4>1. Accepts(rw, s) = FALSE
          BY <3>3 DEF Accepts
        <4>2. QED
          BY <2>2, <3>1, <4>1 DEF Receive, Filter!Next, Filter!Refuse
      <3>4. QED
        BY <3>2, <3>3
    <2>3. QED
      BY <2>1, <2>2 DEF Next
  <1>3. QED
    BY <1>1, <1>2, ReceiverTyping, ReceiverExact, PTL
       DEF Spec, FilterSpec, Filter!Spec
=============================================================================
