----------------------------- MODULE RouteDump ------------------------------
(***************************************************************************)
(* GetDefaultRoute: the kernel dumps its routing table in one or more      *)
(* datagrams, and recvDefaultRoute looks for the default route in them.    *)
(*                                                                         *)
(* All datagrams are read into one buffer, of 4-byte words here.  The      *)
(* gateway that is found is kept as a slice of that buffer: as a position, *)
(* whose content counts only when the caller looks at it.                  *)
(***************************************************************************)
EXTENDS Integers, Sequences, FiniteSets

CONSTANTS
    Tables,         \* the routing tables to try, each a sequence of routes
    Splits,         \* bound: the datagrams a dump may come in
    MaxForeign      \* bound: messages of others among the answers

(***************************************************************************)
(* A route.  Metric 0 is preferred to metric 1.  gw is 0 for a route that  *)
(* has no gateway.                                                         *)
(***************************************************************************)
Route(dst, table, metric, gw, oif) ==
    [dst |-> dst, table |-> table, metric |-> metric, gw |-> gw, oif |-> oif]

Routes == [dst : Nat, table : Nat, metric : Nat, gw : Nat, oif : Nat \ {0}]

ASSUME DumpAssumption ==
    /\ \A t \in Tables : t \in Seq(Routes)
    /\ Splits \in Nat \ {0}
    /\ MaxForeign \in Nat

VARIABLES
    table,      \* the kernel's routes, in the order of the dump
    links,      \* the interfaces there are
    unsent,     \* the routes the dump has not come to yet
    dump,       \* the datagram the kernel is filling, a sequence of words
    over,       \* whether the dump is
    datagrams,  \* datagrams of routes so far
    foreign,    \* messages of others so far
    queue,      \* the socket: datagrams, each a sequence of words
    buf, n,     \* the buffer, and how many words the last Recvfrom gave
    pos,        \* where recvDefaultRoute reads, from 0
    endPos,     \* the end of the message whose attributes it walks through
    next,       \* nextMsgPos
    gateway,    \* DefaultRoute.Gateway: a position in buf, or Nil
    ifindex,    \* DefaultRoute.InterfaceIndex
    pc          \* "recv", "message", "attr", "returned" or "error"

vars == <<table, links, unsent, dump, over, datagrams, foreign, queue,
          buf, n, pos, endPos, next, gateway, ifindex, pc>>
found == <<gateway, ifindex>>
reader == <<buf, n, pos, endPos, next, found, pc>>
kernel == <<table, links, unsent, dump, over, datagrams, foreign, queue>>

Nil == -1

-----------------------------------------------------------------------------
(***************************************************************************)
(* Layout.  A word is the first of a message, the first of an attribute, a *)
(* value, or something that is not looked at.  16 bytes of header are 4    *)
(* words; a route message has 3 more and then attributes, an error or DONE *)
(* one more.                                                               *)
(***************************************************************************)
Word(a, b, c) == <<a, b, c>>
Skip == Word("skip", 0, 0)
Value(v) == Word("value", v, 0)

Header(type, len, seq) == <<Word(type, len, seq), Skip, Skip, Skip>>

\* fib_dump_info: rtm_dst_len and rtm_table, then the attributes.
Attrs(r) ==
    IF r.gw = 0
    THEN <<Word("RTA_PRIORITY", 2, 0), Value(r.metric), Word("RTA_OIF", 2, 0), Value(r.oif)>>
    ELSE <<Word("RTA_PRIORITY", 2, 0), Value(r.metric), Word("RTA_GATEWAY", 2, 0), Value(r.gw),
           Word("RTA_OIF", 2, 0), Value(r.oif)>>

RouteMessage(r) ==
    Header("RTM_NEWROUTE", 7 + Len(Attrs(r)), 1)
    \o <<Word("rtmsg", r.dst, r.table), Skip, Skip>> \o Attrs(r)

Done == Header("NLMSG_DONE", 5, 1) \o <<Skip>>
Refusal == Header("NLMSG_ERROR", 5, 1) \o <<Skip>>
ForeignMessage == Header("RTM_NEWROUTE", 7, 2) \o <<Skip, Skip, Skip>>

-----------------------------------------------------------------------------
(***************************************************************************)
(* The kernel                                                              *)
(***************************************************************************)
Init ==
    /\ table \in Tables
    /\ links = {table[k].oif : k \in DOMAIN table}
    /\ unsent = table
    /\ dump = <<>>
    /\ over = FALSE
    /\ datagrams = 0
    /\ foreign = 0
    /\ queue = <<>>
    /\ buf = <<>> /\ n = 0
    /\ pos = 0 /\ endPos = 0 /\ next = 0
    /\ gateway = Nil /\ ifindex = 0
    /\ pc = "recv"

Arrive(words) == queue' = Append(queue, words)

\* The next route is put behind those before it in the datagram.
DumpRoute ==
    /\ ~over /\ unsent # <<>>
    /\ dump' = dump \o RouteMessage(Head(unsent))
    /\ unsent' = Tail(unsent)
    /\ UNCHANGED <<table, links, over, datagrams, foreign, queue, reader>>

\* The datagram is full.
DumpDatagram ==
    /\ dump # <<>>
    /\ unsent # <<>> => datagrams + 1 < Splits
    /\ Arrive(dump)
    /\ dump' = <<>>
    /\ datagrams' = datagrams + 1
    /\ UNCHANGED <<table, links, unsent, over, foreign, reader>>

\* DONE comes behind the last routes, or in a datagram of its own.
DumpDone ==
    /\ ~over /\ unsent = <<>>
    /\ over' = TRUE
    /\ Arrive(dump \o Done)
    /\ datagrams' = IF dump = <<>> THEN datagrams ELSE datagrams + 1
    /\ dump' = <<>>
    /\ UNCHANGED <<table, links, unsent, foreign, reader>>

\* The kernel does not dump, or does not go on.
DumpRefused ==
    /\ ~over /\ dump = <<>>
    /\ over' = TRUE
    /\ Arrive(Refusal)
    /\ UNCHANGED <<table, links, unsent, dump, datagrams, foreign, reader>>

\* A message that answers nobody's request here: a route without attributes
\* and with another sequence number.
Interfere ==
    /\ pc \notin {"returned", "error"}
    /\ foreign < MaxForeign
    /\ foreign' = foreign + 1
    /\ Arrive(ForeignMessage)
    /\ UNCHANGED <<table, links, unsent, dump, over, datagrams, reader>>

LinkGoes ==
    /\ pc \notin {"returned", "error"}
    /\ \E link \in links : links' = links \ {link}
    /\ UNCHANGED <<table, unsent, dump, over, datagrams, foreign, queue, reader>>

-----------------------------------------------------------------------------
(***************************************************************************)
(* recvDefaultRoute.  at(p) is the word at position p, counted from 0.     *)
(***************************************************************************)
at(p) == buf[p + 1]

\* Recvfrom writes over the beginning of the buffer and leaves the rest.
Overwrite(words) ==
    words \o SubSeq(buf, Len(words) + 1, Len(buf))

Recv ==
    /\ pc = "recv"
    /\ queue # <<>>
    /\ queue' = Tail(queue)
    /\ buf' = Overwrite(Head(queue))
    /\ n' = Len(Head(queue))
    /\ pos' = 0
    /\ pc' = "message"
    /\ UNCHANGED <<table, links, unsent, dump, over, datagrams, foreign, endPos, next, found>>

\* SO_RCVTIMEO, ENOBUFS or another error.
RecvFails ==
    /\ pc = "recv"
    /\ pc' = "error"
    /\ UNCHANGED <<kernel, buf, n, pos, endPos, next, found>>

DatagramEnds ==
    /\ pc = "message"
    /\ pos + 4 > n
    /\ pc' = "recv"
    /\ UNCHANGED <<kernel, buf, n, pos, endPos, next, found>>

Message(type) == pc = "message" /\ pos + 4 <= n /\ at(pos)[3] = 1 /\ at(pos)[1] = type

\* A message with another sequence number is passed over.
SkipMessage ==
    /\ pc = "message" /\ pos + 4 <= n /\ at(pos)[3] # 1
    /\ pos' = pos + at(pos)[2]
    /\ UNCHANGED <<kernel, buf, n, endPos, next, found, pc>>

MessageDone ==
    /\ Message("NLMSG_DONE")
    /\ pc' = IF ifindex = 0 \/ gateway = Nil THEN "error" ELSE "returned"
    /\ UNCHANGED <<kernel, buf, n, pos, endPos, next, found>>

MessageError ==
    /\ Message("NLMSG_ERROR")
    /\ pc' = "error"
    /\ UNCHANGED <<kernel, buf, n, pos, endPos, next, found>>

\* Mutant: a route to a network is taken for a default route too.
MutIsDefault(rtmsg) == rtmsg[3] = 254

\* Destination length 0, in the main table.
IsDefault(rtmsg) == rtmsg[2] = 0 /\ rtmsg[3] = 254

MessageRoute ==
    /\ Message("RTM_NEWROUTE")
    /\ IF IsDefault(at(pos + 4))
       THEN pos' = pos + 7 /\ pc' = "attr"
       ELSE pos' = pos + at(pos)[2] /\ UNCHANGED pc
    /\ endPos' = pos + at(pos)[2]
    /\ next' = pos + at(pos)[2]
    /\ UNCHANGED <<kernel, buf, n, found>>

\* Mutant: the length is added to a position that has moved on.
MutAttrsEnd ==
    /\ pc = "attr"
    /\ pos + 1 > endPos
    /\ pos' = pos + next
    /\ pc' = "message"
    /\ UNCHANGED <<kernel, buf, n, endPos, next, found>>

AttrsEnd ==
    /\ pc = "attr"
    /\ pos + 1 > endPos
    /\ pos' = next
    /\ pc' = "message"
    /\ UNCHANGED <<kernel, buf, n, endPos, next, found>>

ReadsAttr(type) == pc = "attr" /\ pos + 1 <= endPos /\ at(pos)[1] = type

\* To the next attribute.
Advance == pos' = pos + at(pos)[2]

\* Mutant: the walk stays where it is, as it does for a lost interface.
MutAttrGateway ==
    /\ ReadsAttr("RTA_GATEWAY")
    /\ gateway' = pos + 1
    /\ UNCHANGED <<kernel, buf, n, pos, endPos, next, ifindex, pc>>

AttrGateway ==
    /\ ReadsAttr("RTA_GATEWAY")
    /\ gateway' = pos + 1
    /\ Advance
    /\ UNCHANGED <<kernel, buf, n, endPos, next, ifindex, pc>>

AttrOther ==
    /\ ReadsAttr("RTA_PRIORITY")
    /\ Advance
    /\ UNCHANGED <<kernel, buf, n, endPos, next, found, pc>>

\* InterfaceByIndex asks for an interface that may be gone by now.  Then
\* the loop goes on with the same attribute.
AttrOIF ==
    /\ ReadsAttr("RTA_OIF")
    /\ IF at(pos + 1)[2] \in links
       THEN ifindex' = at(pos + 1)[2] /\ Advance
       ELSE UNCHANGED <<ifindex, pos>>
    /\ UNCHANGED <<kernel, buf, n, endPos, next, gateway, pc>>

-----------------------------------------------------------------------------
Terminated ==
    /\ pc \in {"returned", "error"}
    /\ UNCHANGED vars

Parse ==
    \/ DatagramEnds \/ SkipMessage \/ MessageDone \/ MessageError \/ MessageRoute
    \/ AttrsEnd \/ AttrGateway \/ AttrOther \/ AttrOIF

Dump == DumpRoute \/ DumpDatagram \/ DumpDone \/ DumpRefused

Next ==
    \/ Dump \/ Interfere \/ LinkGoes
    \/ Recv \/ RecvFails \/ Parse
    \/ Terminated

Spec == Init /\ [][Next]_vars

(***************************************************************************)
(* The kernel finishes the dump it has begun; Recvfrom returns what is in  *)
(* the socket; the goroutine goes on.                                      *)
(***************************************************************************)
FairSpec ==
    /\ Spec
    /\ WF_vars(Dump)
    /\ WF_vars(Recv \/ Parse)

-----------------------------------------------------------------------------
(***************************************************************************)
(* Type invariant.                                                         *)
(***************************************************************************)
TypeOK ==
    /\ table \in Tables
    /\ pos \in 0 .. Len(buf)
    /\ endPos \in 0 .. Len(buf)
    /\ next \in 0 .. Len(buf)
    /\ n \in 0 .. Len(buf)
    /\ gateway \in {Nil} \cup 7 .. Len(buf) - 1
    /\ ifindex \in {0} \cup {table[k].oif : k \in DOMAIN table}
    /\ pc \in {"recv", "message", "attr", "returned", "error"}

Defaults == {k \in DOMAIN table : table[k].dst = 0 /\ table[k].table = 254}

(***************************************************************************)
(* What GetDefaultRoute returns is the host's original default route: its  *)
(* interface together with its gateway.  The bypass routes and the         *)
(* restored default route are made from it.  The gateway is right as long  *)
(* as the routes come in one datagram: a second one would overwrite the    *)
(* buffer that it is a slice of.  A host with several default routes is    *)
(* left out: the last one is returned, not the one in use.                 *)
(***************************************************************************)
OriginalRoute ==
    pc = "returned" /\ Cardinality(Defaults) <= 1 =>
        \E k \in Defaults :
            /\ ifindex = table[k].oif
            /\ datagrams <= 1 => at(gateway) = Value(table[k].gw)

\* The walk is at the interface of a default route, and that is gone.
AtLostLink == ReadsAttr("RTA_OIF") /\ at(pos + 1)[2] \notin links

(***************************************************************************)
(* recvDefaultRoute returns: the dump ends with NLMSG_DONE and every       *)
(* message before it is passed, whatever else disappears meanwhile.  Only  *)
(* the lost interface of a default route keeps it: the loop over the       *)
(* attributes then stays where it is.                                      *)
(***************************************************************************)
DumpEnds == <>(pc \in {"returned", "error"} \/ AtLostLink)
=============================================================================
