------------------------------ MODULE SockDiag ------------------------------
(***************************************************************************)
(* GetEstablishedTCPRemoteIPsByLocalPort: the addresses that have an SSH   *)
(* session with this host, for which the client makes bypass routes.       *)
(*                                                                         *)
(* The kernel dumps its table of sockets slot by slot, while connections   *)
(* come and go.  recvEstablishedTCPRemoteIP collects the remote addresses  *)
(* from the datagrams.                                                     *)
(***************************************************************************)
EXTENDS Integers, Sequences, SequencesExt

CONSTANTS
    Slots,          \* the slots of the kernel's table are 1 .. Slots
    Remotes,        \* remote addresses
    Ports,          \* local ports
    Port,           \* the port asked for
    MaxChanges,     \* bound: connections made or closed during the dump
    MaxForeign      \* bound: messages of others among the answers

ASSUME DiagAssumption ==
    /\ Slots \in Nat /\ MaxChanges \in Nat /\ MaxForeign \in Nat
    /\ Port \in Ports

Sockets == [state : {"established", "listen"}, port : Ports, remote : Remotes]
Free == [state |-> "free", port |-> Port, remote |-> CHOOSE r \in Remotes : TRUE]

VARIABLES
    sockets,    \* the kernel: slot -> socket
    steady,     \* history: the slots that have not changed since the request
    ever,       \* history: all sockets there have been since
    cursor,     \* the slot the dump comes to next
    dump,       \* the messages of the datagram the kernel is filling
    queue,      \* the datagrams waiting in the socket
    rest,       \* recvEstablishedTCPRemoteIP: what is unread of the datagram in buf
    changes,    \* connections made or closed so far
    foreign,    \* messages of others so far
    result,     \* recvEstablishedTCPRemoteIP: the addresses found
    pc          \* "recv", "returned" or "error"

vars == <<sockets, steady, ever, cursor, dump, queue, rest, changes, foreign, result, pc>>
table == <<sockets, steady, ever, changes>>
reader == <<rest, result, pc>>

Message(type, seq, socket) == [type |-> type, seq |-> seq, socket |-> socket]

-----------------------------------------------------------------------------
(***************************************************************************)
(* The kernel                                                              *)
(***************************************************************************)
Init ==
    /\ sockets \in [1 .. Slots -> Sockets \cup {Free}]
    /\ steady = 1 .. Slots
    /\ ever = {sockets[s] : s \in 1 .. Slots}
    /\ cursor = 1
    /\ dump = <<>>
    /\ queue = <<>>
    /\ rest = <<>>
    /\ changes = 0
    /\ foreign = 0
    /\ result = <<>>
    /\ pc = "recv"

\* A connection is made, or ends.
Change ==
    /\ pc = "recv"
    /\ changes < MaxChanges
    /\ changes' = changes + 1
    /\ \E s \in 1 .. Slots, k \in Sockets \cup {Free} :
        /\ sockets' = [sockets EXCEPT ![s] = k]
        /\ ever' = ever \cup {k}
        /\ steady' = steady \ {s}
    /\ UNCHANGED <<cursor, dump, queue, foreign, reader>>

\* newInetDiagReqV2 asks for the IPv4 sockets in state established.
Asked(socket) == socket.state = "established"

\* The dump comes to a slot.
DumpSlot ==
    /\ cursor <= Slots
    /\ cursor' = cursor + 1
    /\ dump' = IF Asked(sockets[cursor])
               THEN Append(dump, Message("SOCK_DIAG_BY_FAMILY", 1, sockets[cursor]))
               ELSE dump
    /\ UNCHANGED <<table, queue, foreign, reader>>

\* The datagram is full.
DumpDatagram ==
    /\ dump # <<>>
    /\ queue' = Append(queue, dump)
    /\ dump' = <<>>
    /\ UNCHANGED <<table, cursor, foreign, reader>>

\* NLMSG_DONE, or an error with which the dump ends.
DumpOver ==
    /\ cursor = Slots + 1
    /\ cursor' = Slots + 2
    /\ \E type \in {"NLMSG_DONE", "NLMSG_ERROR"} :
            queue' = Append(queue, Append(dump, Message(type, 1, Free)))
    /\ dump' = <<>>
    /\ UNCHANGED <<table, foreign, reader>>

\* A message for another request, one that is cut short, or an error number 0.
Interfere ==
    /\ pc = "recv"
    /\ foreign < MaxForeign
    /\ foreign' = foreign + 1
    /\ \E m \in {Message("NLMSG_DONE", 2, Free), Message("malformed", 1, Free),
                Message("ack", 1, Free)} :
            queue' = Append(queue, <<m>>)
    /\ UNCHANGED <<table, cursor, dump, reader>>

-----------------------------------------------------------------------------
(***************************************************************************)
(* recvEstablishedTCPRemoteIP                                              *)
(***************************************************************************)
kernel == <<table, cursor, dump, foreign>>

\* Mutant: each datagram begins a new list.
MutCollected == <<>>

\* What the datagrams before have given.
Collected == result

Recv ==
    /\ pc = "recv"
    /\ rest = <<>>
    /\ queue # <<>>
    /\ queue' = Tail(queue)
    /\ rest' = Head(queue)
    /\ result' = Collected
    /\ UNCHANGED <<kernel, pc>>

\* SO_RCVTIMEO of one second, ENOBUFS, or another error.
RecvFails ==
    /\ pc = "recv"
    /\ rest = <<>>
    /\ pc' = "error"
    /\ UNCHANGED <<kernel, queue, rest, result>>

\* A length that does not fit.
MessageMalformed ==
    /\ pc = "recv" /\ rest # <<>>
    /\ Head(rest).type = "malformed"
    /\ pc' = "error"
    /\ UNCHANGED <<kernel, queue, rest, result>>

\* Another sequence number.
MessageForeign ==
    /\ pc = "recv" /\ rest # <<>>
    /\ Head(rest).type # "malformed" /\ Head(rest).seq # 1
    /\ rest' = Tail(rest)
    /\ UNCHANGED <<kernel, queue, result, pc>>

Answer(type) ==
    /\ pc = "recv" /\ rest # <<>>
    /\ Head(rest).type = type /\ Head(rest).seq = 1

MessageDone ==
    /\ Answer("NLMSG_DONE")
    /\ pc' = "returned"
    /\ UNCHANGED <<kernel, queue, rest, result>>

MessageError ==
    /\ Answer("NLMSG_ERROR")
    /\ pc' = "error"
    /\ UNCHANGED <<kernel, queue, rest, result>>

\* An error number 0.
MessageAck ==
    /\ Answer("ack")
    /\ rest' = Tail(rest)
    /\ UNCHANGED <<kernel, queue, result, pc>>

Matches(socket) == socket.state = "established" /\ socket.port = Port

MessageSocket ==
    /\ Answer("SOCK_DIAG_BY_FAMILY")
    /\ rest' = Tail(rest)
    /\ result' = IF Matches(Head(rest).socket)
                 THEN Append(result, Head(rest).socket.remote) ELSE result
    /\ UNCHANGED <<kernel, queue, pc>>

-----------------------------------------------------------------------------
Terminated ==
    /\ pc # "recv"
    /\ UNCHANGED vars

Next ==
    \/ Change \/ DumpSlot \/ DumpDatagram \/ DumpOver \/ Interfere
    \/ Recv \/ RecvFails
    \/ MessageMalformed \/ MessageForeign
    \/ MessageDone \/ MessageError \/ MessageAck \/ MessageSocket
    \/ Terminated

Spec == Init /\ [][Next]_vars

-----------------------------------------------------------------------------
Sessions(set) == {k \in set : k.state = "established" /\ k.port = Port}

(***************************************************************************)
(* The SSH sessions of the host are found, those over IPv4: the dump is    *)
(* asked for no others.  An address whose session lasted throughout the    *)
(* dump is in the result, however the dump was cut into datagrams; an      *)
(* address in the result had a session with the port asked for at some     *)
(* time of it.                                                             *)
(***************************************************************************)
SessionsFound ==
    pc = "returned" =>
        /\ ToSet(result) \subseteq {k.remote : k \in Sessions(ever)}
        /\ {k.remote : k \in Sessions({sockets[s] : s \in steady})} \subseteq ToSet(result)
=============================================================================
