---------------------------- MODULE ReplayWindow ----------------------------
(***************************************************************************)
(* protocol.ReplayWindow (internal/protocol/replay_window.go): the value   *)
(* that the server keeps per peer and the client keeps per session to      *)
(* refuse a sequence number it has already taken.                          *)
(*                                                                         *)
(* The uint64 bitmap is the set of the positions of its one bits: position *)
(* o stands for the sequence highest - o.  A shift that moves a bit past   *)
(* the last position loses it, as a shift of a machine word does.          *)
(***************************************************************************)
EXTENDS Integers

CONSTANT WindowSize     \* replayWindowSize: 64 in the code

ASSUME WindowSizeAssumption == WindowSize \in Nat \ {0}

Offsets == 0 .. WindowSize - 1

ReplayWindows == [highest : Nat, bitmap : SUBSET Offsets]

\* The zero value of the Go struct.
NewWindow == [highest |-> 0, bitmap |-> {}]

\* Mutant: the shift is made in a wider word and loses nothing.
MutShiftWide(bitmap, n) == {o + n : o \in bitmap}

\* Mutant: the shift forgets by how far the window moves.
MutShiftByOne(bitmap, n) == {o \in Offsets : o - 1 \in bitmap}

\* bitmap << n
ShiftLeft(bitmap, n) == {o \in Offsets : o - n \in bitmap}

-----------------------------------------------------------------------------
(***************************************************************************)
(* Accept.  Its three errors are told apart because handlePacketError      *)
(* names them one by one; its nil is "accepted".  A sequence above highest *)
(* (any sequence, while highest is 0) is at a negative position: neither   *)
(* too old nor in the bitmap.                                              *)
(***************************************************************************)
Verdicts == {"accepted", "invalid", "too old", "duplicate"}

Verdict(rw, sequence) ==
    IF sequence = 0 THEN "invalid"
    ELSE IF rw.highest - sequence >= WindowSize THEN "too old"
    ELSE IF rw.highest - sequence \in rw.bitmap THEN "duplicate"
    ELSE "accepted"

Accepts(rw, sequence) == Verdict(rw, sequence) = "accepted"

\* Mutant: a jump past the whole window keeps the old bits in place.
MutAdvanceKeepsBits(rw, sequence) ==
    IF sequence > rw.highest
    THEN [highest |-> sequence, bitmap |-> rw.bitmap \cup {0}]
    ELSE [rw EXCEPT !.bitmap = @ \cup {rw.highest - sequence}]

\* Mutant: a sequence that comes late is taken and its bit not set.
MutAdvanceNoBit(rw, sequence) ==
    IF sequence > rw.highest THEN [highest |-> sequence, bitmap |-> {0}] ELSE rw

\* The window that Accept leaves behind when it returns nil.
Advance(rw, sequence) ==
    IF rw.highest = 0 \/ sequence - rw.highest >= WindowSize
    THEN [highest |-> sequence, bitmap |-> {0}]
    ELSE IF sequence > rw.highest
    THEN [highest |-> sequence,
          bitmap  |-> ShiftLeft(rw.bitmap, sequence - rw.highest) \cup {0}]
    ELSE [rw EXCEPT !.bitmap = @ \cup {rw.highest - sequence}]

Accept(rw, sequence) ==
    IF Accepts(rw, sequence) THEN Advance(rw, sequence) ELSE rw
=============================================================================
