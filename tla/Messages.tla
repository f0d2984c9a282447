------------------------------ MODULE Messages ------------------------------
(***************************************************************************)
(* The bytes of netlink packets: attributes and nested attributes, padded  *)
(* to four bytes, in messages, in a batch of messages; and the two loops   *)
(* that walk through such bytes, over the messages of a datagram           *)
(* (recvAcks) and over the attributes of a message (recvDefaultRoute).     *)
(* The kernel's own walks follow the same rules.  No state: operators, and *)
(* what they have to do for all lists and packets.                         *)
(***************************************************************************)
EXTENDS Integers, Sequences, SequencesExt

CONSTANTS
    Types,          \* attribute types
    Payloads,       \* values of attributes, sequences of bytes
    MaxAttrs,       \* bound: attributes of a list
    MaxMessages     \* bound: messages of a packet

ASSUME MessagesAssumption ==
    /\ Types \subseteq 0 .. 32767
    /\ \A p \in Payloads : \A k \in DOMAIN p : p[k] \in 0 .. 255
    /\ MaxAttrs \in Nat /\ MaxMessages \in Nat

\* Attribute lists of up to MaxAttrs attributes.
Attrs == [typ : Types, value : Payloads]
Lists == SeqOf(Attrs, MaxAttrs)

-----------------------------------------------------------------------------
(***************************************************************************)
(* Building                                                                *)
(***************************************************************************)
Uint16(v) == <<v % 256, v \div 256>>
Uint32(v) == Uint16(v % 65536) \o Uint16(v \div 65536)
Zeros(k) == [z \in 1 .. k |-> 0]

align4(k) == 4 * ((k + 3) \div 4)

\* Mutant: no padding.
MutPutAttr(buf, typ, payload) ==
    buf \o Uint16(4 + Len(payload)) \o Uint16(typ) \o payload

\* The length does not count the padding.
PutAttr(buf, typ, payload) ==
    LET length == 4 + Len(payload)
    IN  buf \o Uint16(length) \o Uint16(typ) \o payload \o Zeros(align4(length) - length)

NLAFNested == 32768

PutNestAttr(buf, typ, nested) == PutAttr(buf, typ + NLAFNested, nested)

\* nfgen: family, version, resource ID.
NfGen(family, resID) == <<family, 0, resID \div 256, resID % 256>>

NlMsg(seq, msgType, flags, payload) ==
    Uint32(16 + Len(payload)) \o Uint16(msgType) \o Uint16(flags) \o Uint32(seq) \o Uint32(0)
        \o payload

-----------------------------------------------------------------------------
(***************************************************************************)
(* Walking.  Positions count from 0.                                       *)
(***************************************************************************)
Get16(buf, pos) == buf[pos + 1] + 256 * buf[pos + 2]
Get32(buf, pos) == Get16(buf, pos) + 65536 * Get16(buf, pos + 2)

\* The loop of recvDefaultRoute over attributes.
Attributes(buf) ==
    LET endPos == Len(buf)
        walk[pos \in 0 .. endPos + 3] ==
            IF pos + 4 > endPos THEN <<>>
            ELSE LET length == Get16(buf, pos)
                 IN  IF length < 4 \/ pos + length > endPos THEN <<>>
                     ELSE <<[typ |-> Get16(buf, pos + 2),
                             value |-> SubSeq(buf, pos + 5, pos + length)]>>
                          \o walk[pos + align4(length)]
    IN  walk[0]

Invalid == [seq |-> 0, type |-> 0, payload |-> <<>>]

\* The loop of recvAcks over messages, to its end or to an invalid one.
Datagram(buf) ==
    LET len == Len(buf)
        walk[off \in 0 .. len] ==
            IF off + 16 > len THEN <<>>
            ELSE LET msgLen == Get32(buf, off)
                 IN  IF msgLen < 16 \/ off + align4(msgLen) > len THEN <<Invalid>>
                     ELSE <<[seq |-> Get32(buf, off + 8), type |-> Get16(buf, off + 4),
                             payload |-> SubSeq(buf, off + 17, off + msgLen)]>>
                          \o walk[off + align4(msgLen)]
    IN  walk[0]

-----------------------------------------------------------------------------
(***************************************************************************)
(* Packets are built in the ways of nftable.go.                            *)
(***************************************************************************)
\* One putAttr after the other.
PutAttrs(list) == FoldLeft(LAMBDA buf, a : PutAttr(buf, a.typ, a.value), <<>>, list)

\* One putNestAttr after the other, of the lists in turn.
PutNests(lists) ==
    FoldLeft(LAMBDA buf, list : PutNestAttr(buf, 1, PutAttrs(list)), <<>>, lists)

\* A message, before it has its place in a packet.
Msg(type, flags, payload) == [type |-> type, flags |-> flags, payload |-> payload]

\* nftMsg: NFT_MSG_NEWTABLE (0) of NFNL_SUBSYS_NFTABLES (10), NFPROTO_IPV4
\* (2), NLM_F_REQUEST and NLM_F_ACK.
NftMsg(attrs) == Msg(10 * 256 + 0, 1 + 4, NfGen(2, 0) \o attrs)

\* batchMsg: NFNL_MSG_BATCH_BEGIN (16), AF_UNSPEC (0), NLM_F_REQUEST.
BatchMsg == Msg(16, 1, NfGen(0, 10))

\* The packet is one append after the other, numbered from 1.
Batch(msgs) ==
    FlattenSeq([seq \in DOMAIN msgs |->
                    NlMsg(seq, msgs[seq].type, msgs[seq].flags, msgs[seq].payload)])

-----------------------------------------------------------------------------
(***************************************************************************)
(* What was put into an attribute list is what a walk through it finds, at *)
(* both levels of nesting and whatever the lengths of the values; and when *)
(* the bytes are cut off anywhere, the walk finds the attributes before    *)
(* the cut and invents none.                                               *)
(***************************************************************************)
AttributesRead ==
    /\ \A list \in Lists :
        LET buf == PutAttrs(list)
        IN  /\ Attributes(buf) = list
            /\ \A cut \in 0 .. Len(buf) : IsPrefix(Attributes(SubSeq(buf, 1, cut)), list)
    /\ \A lists \in SeqOf(Lists, 2) :
        LET found == Attributes(PutNests(lists))
        IN  /\ Len(found) = Len(lists)
            /\ \A k \in DOMAIN lists : /\ found[k].typ = 1 + NLAFNested
                                       /\ Attributes(found[k].value) = lists[k]

(***************************************************************************)
(* A packet is the messages that were put into it: none is cut short or    *)
(* read from the wrong place because of the lengths of those before it.    *)
(***************************************************************************)
MessagesRead ==
    \A msgs \in SeqOf({BatchMsg} \cup {NftMsg(PutAttrs(list)) : list \in Lists}, MaxMessages) :
        Datagram(Batch(msgs)) =
            [seq \in DOMAIN msgs |->
                [seq |-> seq, type |-> msgs[seq].type, payload |-> msgs[seq].payload]]
=============================================================================
