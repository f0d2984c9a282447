----------------------------- MODULE MCNetlink ------------------------------
(***************************************************************************)
(* Netlink for TLC, with the bytes of its packets (Messages).              *)
(***************************************************************************)
EXTENDS Netlink, Messages

\* Values with and without padding; one looks like an attribute itself.
SomePayloads == {<<>>, <<7>>, <<5, 0, 1>>, <<5, 0, 1, 0>>, <<1, 2, 3, 4, 5, 6>>}

(***************************************************************************)
(* The kernel that answers a call has found in its packet the messages     *)
(* that nlMsg made, each under its sequence number, and in them the        *)
(* attributes that putAttr and putNestAttr put there, whatever their       *)
(* lengths; and none in a packet that was cut short that was not put       *)
(* there.                                                                  *)
(***************************************************************************)
PacketsSurvive == pc = "recv" => AttributesRead /\ MessagesRead
=============================================================================
