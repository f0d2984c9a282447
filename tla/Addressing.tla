----------------------------- MODULE Addressing -----------------------------
(***************************************************************************)
(* The VPN network: the addresses that the server makes of vpn-network-    *)
(* cidr for itself and its peers, and the nftables rule that masquerades   *)
(* what they send.  The rule is a program of six expressions, which the    *)
(* kernel runs on every packet that leaves.  No state: operators, and what *)
(* they have to do for every configuration and packet.                     *)
(*                                                                         *)
(* An address is a number of Width bits, 32 in the code; a name is a       *)
(* sequence of bytes, and NameLen is IFNAMSIZ, 16.                         *)
(***************************************************************************)
EXTENDS Integers, Sequences, SequencesExt

CONSTANTS
    Width,          \* bits of an address
    NameLen,        \* bytes of a padded interface name
    Names           \* the interface names, without their closing zero

ASSUME AddressingAssumption ==
    /\ Width \in Nat /\ Width >= 2
    /\ NameLen \in Nat
    /\ \A name \in Names :
        name \in Seq(Nat \ {0}) /\ Len(name) \in 1 .. NameLen - 1

\* Arithmetic: what the proofs use of powers of two.  It restricts nothing.
ASSUME PowersOfTwo ==
    \A b \in 0 .. Width :
        /\ 2 ^ b \in Nat \ {0}
        /\ b >= 2 => 2 ^ b >= 4
        /\ 2 ^ Width = 2 ^ b * 2 ^ (Width - b)

IPs == 0 .. 2 ^ Width - 1

\* vpn-network-cidr: any address of the network, and the bits of the host part.
CIDRs == [addr : IPs, hostBits : 2 .. Width]

-----------------------------------------------------------------------------
(***************************************************************************)
(* normalize, allocateTunnelIP and validIPRange                            *)
(***************************************************************************)
\* The address with the mask applied.
Masked(addr, hostBits) == addr - (addr % 2 ^ hostBits)

Network(cidr) == Masked(cidr.addr, cidr.hostBits)

ServerAddr(cidr) == (Network(cidr) + 1) % 2 ^ Width

\* Mutant: one peer too many.
MutValidIPRange(cidr, peerID) ==
    peerID # 0 /\ cidr.hostBits >= 2 /\ peerID <= 2 ^ cidr.hostBits - 2

\* The network has no room for fewer than two host bits.
ValidIPRange(cidr, peerID) ==
    peerID # 0 /\ cidr.hostBits >= 2 /\ peerID <= 2 ^ cidr.hostBits - 3

TunnelAddr(cidr, peerID) == (Network(cidr) + 1 + peerID) % 2 ^ Width

-----------------------------------------------------------------------------
(***************************************************************************)
(* The rule: exprPayloadIPv4Saddr, exprBitwiseMask, exprCmpIPv4,           *)
(* exprMetaOIFName, exprCmpIfName and exprMasq.                            *)
(***************************************************************************)
Expr(op, reg, data) == [op |-> op, reg |-> reg, data |-> data]

\* Mutant: the name as it is.
MutName16(name) == name

\* The name in sixteen bytes: its closing zero is compared too.
Name16(name) == [k \in 1 .. NameLen |-> IF k <= Len(name) THEN name[k] ELSE 0]

Rule(cidr, out) ==
    <<Expr("payload", 1, <<>>), Expr("bitwise", 1, <<cidr.hostBits>>),
      Expr("cmp", 1, <<Network(cidr)>>),
      Expr("meta", 2, <<>>), Expr("cmp", 2, Name16(out)),
      Expr("masq", 1, <<>>)>>

-----------------------------------------------------------------------------
(***************************************************************************)
(* The kernel runs the rule on a packet.  It keeps names padded too.  A    *)
(* comparison looks at as many bytes as the rule gives, and ends the rule  *)
(* when they differ.                                                       *)
(***************************************************************************)
Packets == [src : IPs, oif : Names]

Padded(name) == [k \in 1 .. NameLen |-> IF k <= Len(name) THEN name[k] ELSE 0]

State(reg1, reg2, verdict) == [reg |-> <<reg1, reg2>>, verdict |-> verdict]

Load(st, reg, data) == [st EXCEPT !.reg[reg] = data]
Mask(st, reg, data) == Load(st, reg, <<Masked(st.reg[reg][1], data[1])>>)
End(st, verdict)    == [st EXCEPT !.verdict = verdict]

Compare(st, reg, data) ==
    IF SubSeq(st.reg[reg], 1, Len(data)) = data THEN st ELSE End(st, "accept")

Effect(st, expr, packet) ==
    CASE expr.op = "payload" -> Load(st, expr.reg, <<packet.src>>)
      [] expr.op = "bitwise" -> Mask(st, expr.reg, expr.data)
      [] expr.op = "meta"    -> Load(st, expr.reg, Padded(packet.oif))
      [] expr.op = "cmp"     -> Compare(st, expr.reg, expr.data)
      [] expr.op = "masq"    -> End(st, "masquerade")

Execute(st, expr, packet) ==
    IF st.verdict = "none" THEN Effect(st, expr, packet) ELSE st

\* The six expressions in turn.
Verdict(cidr, out, packet) ==
    LET expr(k)  == Rule(cidr, out)[k]
        loaded   == Execute(State(<<>>, <<>>, "none"), expr(1), packet)
        masked   == Execute(loaded, expr(2), packet)
        compared == Execute(masked, expr(3), packet)
        named    == Execute(compared, expr(4), packet)
        matched  == Execute(named, expr(5), packet)
    IN  Execute(matched, expr(6), packet).verdict

-----------------------------------------------------------------------------
InNetwork(cidr, addr) ==
    \E h \in 0 .. 2 ^ cidr.hostBits - 1 : addr = Network(cidr) + h

(***************************************************************************)
(* Exactly the packets from the VPN network that leave by the server's own *)
(* interface are masqueraded: not those that leave by an interface whose   *)
(* name only begins like it, nor those of a network next to it.            *)
(***************************************************************************)
RuleExact ==
    \A cidr \in CIDRs, out \in Names, packet \in Packets :
        Verdict(cidr, out, packet) =
            IF InNetwork(cidr, packet.src) /\ packet.oif = out THEN "masquerade"
                                                              ELSE "accept"

(***************************************************************************)
(* Every peer that gets an address gets one of the VPN network that is not *)
(* the server's, not the network's and not the broadcast address, and no   *)
(* other peer has it; whatever host bits the configured CIDR has set, and  *)
(* also when the network is as large as it can be.                         *)
(***************************************************************************)
PoolExact ==
    \A cidr \in CIDRs :
        LET given    == {id \in IPs : ValidIPRange(cidr, id)}
            reserved == {Network(cidr), ServerAddr(cidr),
                         Network(cidr) + 2 ^ cidr.hostBits - 1}
        IN  /\ \A id \in given :
                /\ InNetwork(cidr, TunnelAddr(cidr, id))
                /\ TunnelAddr(cidr, id) \notin reserved
            /\ \A id1, id2 \in given :
                TunnelAddr(cidr, id1) = TunnelAddr(cidr, id2) => id1 = id2
=============================================================================
