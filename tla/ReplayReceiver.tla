--------------------------- MODULE ReplayReceiver ---------------------------
(***************************************************************************)
(* One ReplayWindow fed by the network: sequence numbers arrive in any     *)
(* order, any number of times, with gaps.  The window is the only state    *)
(* the code keeps; "accepted" is the history that the properties are about *)
(* and that the code does not have.                                        *)
(***************************************************************************)
EXTENDS ReplayWindow

CONSTANT Arriving       \* the sequence numbers that may arrive

ASSUME ArrivingAssumption == Arriving \subseteq Nat

VARIABLES rw,           \* the ReplayWindow
          accepted,     \* history: the sequence numbers Accept took
          verdict       \* the sequence of the last call and whether it was taken

vars == <<rw, accepted, verdict>>

Init ==
    /\ rw = NewWindow
    /\ accepted = {}
    /\ verdict = <<>>

Receive(s) ==
    /\ rw' = Accept(rw, s)
    /\ accepted' = IF Accepts(rw, s) THEN accepted \cup {s} ELSE accepted
    /\ verdict' = <<s, Accepts(rw, s)>>

Next == \E s \in Arriving : Receive(s)

Spec == Init /\ [][Next]_vars

-----------------------------------------------------------------------------
\* Type correctness: the bitmap never holds a position outside the word.
TypeOK ==
    /\ rw \in ReplayWindows
    /\ accepted \in SUBSET Arriving
    /\ verdict \in {<<>>} \cup (Arriving \X BOOLEAN)

(***************************************************************************)
(* The window is an exact digest of the history: highest is the largest    *)
(* sequence ever accepted, and inside the window a bit is set exactly when *)
(* its sequence was accepted.  A lost bit would let a replayed packet in;  *)
(* a bit too many would drop a good packet.                                *)
(***************************************************************************)
WindowExact ==
    /\ 0 \notin accepted
    /\ rw.highest = 0 <=> accepted = {}
    /\ accepted = {} => rw.bitmap = {}
    /\ accepted # {} => rw.highest \in accepted
    /\ \A a \in accepted : a <= rw.highest
    /\ \A o \in Offsets : o \in rw.bitmap <=> rw.highest - o \in accepted

(***************************************************************************)
(* The window implements the filter with unbounded memory: what it takes   *)
(* and what it refuses is what the filter would, although it forgets       *)
(* everything WindowSize or more behind the highest.                       *)
(***************************************************************************)
Filter == INSTANCE ReplayFilter WITH Sequences_ <- Arriving

FilterSpec == Filter!Spec
=============================================================================
