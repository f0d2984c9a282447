---------------------------- MODULE MCRouteDump -----------------------------
(***************************************************************************)
(* RouteDump for TLC: default routes among routes to networks, in the main *)
(* table (254) and in the local one (255).                                 *)
(***************************************************************************)
EXTENDS RouteDump

Default == Route(0, 254, 0, 11, 1)
Network == Route(24, 254, 0, 0, 2)
Far     == Route(16, 254, 0, 12, 2)
Local   == Route(0, 255, 0, 13, 3)
Standby == Route(0, 254, 1, 14, 2)

\* One default route, or none, at any place; or two.
SomeTables ==
    {t \in [1 .. 3 -> {Default, Network, Far, Local}] :
        Cardinality({k \in 1 .. 3 : t[k] = Default}) <= 1}
    \cup {<<Default, Standby>>, <<Default, Standby, Network>>}
=============================================================================
