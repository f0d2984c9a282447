---------------------------- MODULE ReplayFilter ----------------------------
(***************************************************************************)
(* What a replay filter promises, with no window and no bitmap: it         *)
(* remembers every sequence number it ever took, and takes a new one when  *)
(* it has not taken it before and it is less than WindowSize behind all    *)
(* that it took.  This is the promise the tests of ReplayWindow spell out  *)
(* case by case (internal/protocol/replay_window_test.go).                 *)
(***************************************************************************)
EXTENDS Integers

CONSTANTS WindowSize,   \* how far behind a sequence may be
          Sequences_    \* the sequence numbers that may arrive

VARIABLES accepted,     \* every sequence number taken so far
          verdict       \* the answer to the last one

vars == <<accepted, verdict>>

Fresh(s) ==
    /\ s > 0
    /\ s \notin accepted
    /\ \A a \in accepted : a - s < WindowSize

Init == accepted = {} /\ verdict = <<>>

Take(s) ==
    /\ Fresh(s)
    /\ accepted' = accepted \cup {s}
    /\ verdict' = <<s, TRUE>>

Refuse(s) ==
    /\ ~Fresh(s)
    /\ verdict' = <<s, FALSE>>
    /\ UNCHANGED accepted

Next == \E s \in Sequences_ : Take(s) \/ Refuse(s)

Spec == Init /\ [][Next]_vars
=============================================================================
