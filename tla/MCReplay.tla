------------------------------ MODULE MCReplay ------------------------------
(***************************************************************************)
(* ReplayReceiver with a window of three positions and sequence numbers    *)
(* reaching past two full windows; and the packets that carry them, with   *)
(* short fields and payloads up to the largest size.                       *)
(***************************************************************************)
EXTENDS ReplayReceiver, WireFormat

MaxSequence == 8

MCArriving == 0 .. MaxSequence

\* Numbers of one and of two bytes, and an invalid type.
MCMessages ==
    [type : 0 .. 4, flags : {0}, reserved : {0}, peerID : {0, 1, 6},
     sequence : {0, 5}, payload : {<<>>, <<0>>, <<1, 0>>, <<0, 1, 0>>}]
    \cup [type : {2}, flags : {1}, reserved : {3}, peerID : {1}, sequence : {6},
          payload : {<<0>>}]

MCRandoms == {<<0, 1>>, <<1, 0>>}

(***************************************************************************)
(* A sequence that was accepted came with a packet, which was understood   *)
(* as it was meant.                                                        *)
(***************************************************************************)
PacketUnderstood == accepted # {} => UnderstoodAsMeant
=============================================================================
