---------------------------- MODULE MCHostSetup -----------------------------
(***************************************************************************)
(* HostSetup for TLC.                                                      *)
(***************************************************************************)
EXTENDS HostSetup

CONSTANTS server, s1, s2

\* Any request may be refused; netlink acknowledgements may be lost.
NetlinkOps == {"newtable", "deltable", "add", "replace", "restore", "del"}
AnyFault ==
    [op \in Ops |-> {"refused"} \cup (IF op \in NetlinkOps THEN {"lost"} ELSE {})]

NoFault == [op \in Ops |-> {}]

\* All interface names of up to two letters out of two.
AllNames == UNION {[1 .. len -> {1, 2}] : len \in 1 .. 2}
=============================================================================
