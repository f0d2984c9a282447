--------------------------- MODULE SockDiagProofs ---------------------------
(***************************************************************************)
(* Proofs that the SSH sessions of the host are found, for a table of any  *)
(* size, any number of changes to it during the dump, and however the dump *)
(* is cut into datagrams.                                                  *)
(***************************************************************************)
EXTENDS SockDiag, TLAPS

AnySocket == Sockets \cup {Free}
Types == {"SOCK_DIAG_BY_FAMILY", "NLMSG_DONE", "NLMSG_ERROR", "ack", "malformed"}
Messages == [type : Types, seq : {1, 2}, socket : AnySocket]
Datagrams == Seq(Messages)

TypeInv ==
    /\ sockets \in [1 .. Slots -> AnySocket]
    /\ steady \subseteq 1 .. Slots
    /\ ever \subseteq AnySocket
    /\ cursor \in 1 .. Slots + 2
    /\ dump \in Datagrams /\ rest \in Datagrams /\ queue \in Seq(Datagrams)
    /\ result \in Seq(Remotes)
    /\ pc \in {"recv", "returned", "error"}

Socket(m) == m.type = "SOCK_DIAG_BY_FAMILY"
Done(m) == m.type = "NLMSG_DONE" /\ m.seq = 1

(***************************************************************************)
(* Only sockets that there have been are told of.                          *)
(***************************************************************************)
Known(datagram, set) ==
    \A k \in DOMAIN datagram : Socket(datagram[k]) => datagram[k].socket \in set

EverInv ==
    /\ \A s \in 1 .. Slots : sockets[s] \in ever
    /\ Known(dump, ever) /\ Known(rest, ever)
    /\ \A d \in DOMAIN queue : Known(queue[d], ever)
    /\ \A k \in DOMAIN result : \E x \in ever : Matches(x) /\ result[k] = x.remote

(***************************************************************************)
(* A session that lasts and that the dump has passed is found, or on its   *)
(* way.                                                                    *)
(***************************************************************************)
Names(m, x) == Socket(m) /\ m.seq = 1 /\ m.socket = x
Tells(datagram, x) == \E k \in DOMAIN datagram : Names(datagram[k], x)

Found(x) ==
    \/ \E k \in DOMAIN result : result[k] = x.remote
    \/ Tells(rest, x)
    \/ \E d \in DOMAIN queue : Tells(queue[d], x)
    \/ Tells(dump, x)

FoundInv ==
    pc = "recv" => \A s \in steady : s < cursor /\ Matches(sockets[s]) => Found(sockets[s])

(***************************************************************************)
(* NLMSG_DONE is the last the kernel says.                                 *)
(***************************************************************************)
Silent(datagram) == \A k \in DOMAIN datagram : ~Socket(datagram[k])
DoneLast(datagram) == \A k \in DOMAIN datagram : Done(datagram[k]) => Len(datagram) = k
HasDone(datagram) == \E k \in DOMAIN datagram : Done(datagram[k])

DoneInv ==
    /\ ~HasDone(dump)
    /\ cursor = Slots + 2 => dump = <<>>
    /\ DoneLast(rest) /\ \A d \in DOMAIN queue : DoneLast(queue[d])
    /\ HasDone(rest) => cursor = Slots + 2 /\ \A d \in DOMAIN queue : Silent(queue[d])
    /\ \A d \in DOMAIN queue : HasDone(queue[d]) =>
        cursor = Slots + 2 /\ \A e \in DOMAIN queue : e > d => Silent(queue[e])

Inv == TypeInv /\ EverInv /\ FoundInv /\ DoneInv /\ SessionsFound

-----------------------------------------------------------------------------
(***************************************************************************)
(* Datagrams                                                               *)
(***************************************************************************)
LEMMA EmptyFacts ==
    /\ <<>> \in Datagrams
    /\ \A set : Known(<<>>, set)
    /\ \A x : ~Tells(<<>>, x)
    /\ ~HasDone(<<>>) /\ DoneLast(<<>>) /\ Silent(<<>>)
BY DEF Datagrams, Known, Tells, HasDone, DoneLast, Silent

LEMMA AppendFacts ==
    ASSUME NEW s \in Datagrams, NEW m \in Messages
    PROVE  /\ Append(s, m) \in Datagrams
           /\ \A set : Known(s, set) /\ (Socket(m) => m.socket \in set) => Known(Append(s, m), set)
           /\ \A x : Tells(s, x) \/ Names(m, x) => Tells(Append(s, m), x)
           /\ ~HasDone(s) => DoneLast(Append(s, m))
           /\ HasDone(Append(s, m)) => HasDone(s) \/ Done(m)
<1>1. /\ Append(s, m) \in Datagrams /\ Len(s) \in Nat /\ Len(Append(s, m)) = Len(s) + 1
      /\ DOMAIN s = 1 .. Len(s) /\ DOMAIN Append(s, m) = 1 .. Len(s) + 1
      /\ \A k \in 1 .. Len(s) : Append(s, m)[k] = s[k]
      /\ Append(s, m)[Len(s) + 1] = m
    BY DEF Datagrams
<1>2. PICK a : a = Append(s, m)
    OBVIOUS
<1>3. \A set : Known(s, set) /\ (Socket(m) => m.socket \in set) => Known(a, set)
    BY <1>1, <1>2 DEF Known
<1>4. \A x : Tells(s, x) \/ Names(m, x) => Tells(a, x)
    BY <1>1, <1>2 DEF Tells
<1>5. ~HasDone(s) => DoneLast(a)
    BY <1>1, <1>2 DEF HasDone, DoneLast
<1>6. HasDone(a) => HasDone(s) \/ Done(m)
    BY <1>1, <1>2 DEF HasDone
<1>7. QED  BY <1>1, <1>2, <1>3, <1>4, <1>5, <1>6

LEMMA TailFacts ==
    ASSUME NEW s \in Datagrams, s # <<>>
    PROVE  /\ Tail(s) \in Datagrams /\ Head(s) \in Messages
           /\ \A set : Known(s, set) => Known(Tail(s), set) /\ (Socket(Head(s)) => Head(s).socket \in set)
           /\ \A x : Tells(s, x) => Names(Head(s), x) \/ Tells(Tail(s), x)
           /\ DoneLast(s) => DoneLast(Tail(s))
           /\ HasDone(Tail(s)) => HasDone(s)
           /\ Done(Head(s)) => HasDone(s)
           /\ DoneLast(s) /\ Done(Head(s)) => \A x : ~Tells(s, x)
<1>1. /\ Tail(s) \in Datagrams /\ Head(s) \in Messages /\ Len(s) \in Nat /\ Len(s) > 0
      /\ DOMAIN s = 1 .. Len(s) /\ DOMAIN Tail(s) = 1 .. Len(s) - 1 /\ Len(Tail(s)) = Len(s) - 1
      /\ \A k \in 1 .. Len(s) - 1 : Tail(s)[k] = s[k + 1]
      /\ Head(s) = s[1]
    BY DEF Datagrams
<1>2. PICK t : t = Tail(s)
    OBVIOUS
<1>3. \A k \in DOMAIN s : k = 1 \/ (k - 1 \in DOMAIN t /\ t[k - 1] = s[k])
    BY <1>1, <1>2
<1>4. \A set : Known(s, set) => Known(t, set) /\ (Socket(Head(s)) => Head(s).socket \in set)
    BY <1>1, <1>2 DEF Known
<1>5. \A x : Tells(s, x) => Names(Head(s), x) \/ Tells(t, x)
    BY <1>1, <1>3 DEF Tells
<1>6. DoneLast(s) => DoneLast(t)
    BY <1>1, <1>2 DEF DoneLast
<1>7. (HasDone(t) => HasDone(s)) /\ (Done(Head(s)) => HasDone(s))
    BY <1>1, <1>2 DEF HasDone
<1>8. DoneLast(s) /\ Done(Head(s)) => \A x : ~Tells(s, x)
    BY <1>1 DEF DoneLast, Tells, Names, Done, Socket
<1>9. QED  BY <1>1, <1>2, <1>4, <1>5, <1>6, <1>7, <1>8

\* A datagram is put at the end of the queue.
LEMMA QueueAppend ==
    ASSUME TypeInv, NEW s \in Datagrams, queue' = Append(queue, s)
    PROVE  /\ queue' \in Seq(Datagrams)
           /\ Len(queue) \in Nat /\ DOMAIN queue = 1 .. Len(queue)
           /\ DOMAIN queue' = 1 .. Len(queue) + 1
           /\ \A d \in 1 .. Len(queue) : queue'[d] = queue[d]
           /\ queue'[Len(queue) + 1] = s
BY DEF TypeInv

-----------------------------------------------------------------------------
(***************************************************************************)
(* The kernel                                                              *)
(***************************************************************************)
LEMMA InitInv == Init => Inv
<1> SUFFICES ASSUME Init PROVE Inv
    OBVIOUS
<1>1. TypeInv
    BY DiagAssumption, EmptyFacts DEF Init, TypeInv, AnySocket
<1>2. EverInv
    BY EmptyFacts DEF Init, EverInv
<1>3. FoundInv
    BY DiagAssumption DEF Init, FoundInv
<1>4. DoneInv
    BY DiagAssumption, EmptyFacts DEF Init, DoneInv
<1>5. QED  BY <1>1, <1>2, <1>3, <1>4 DEF Init, Inv, SessionsFound

LEMMA ChangeInv ==
    ASSUME Inv, Change
    PROVE  Inv'
<1>1. PICK s \in 1 .. Slots, k \in AnySocket :
        /\ sockets' = [sockets EXCEPT ![s] = k]
        /\ ever' = ever \cup {k}
        /\ steady' = steady \ {s}
    BY DEF Change, AnySocket
<1>2. /\ pc = "recv" /\ UNCHANGED <<cursor, dump, queue, rest, result, pc>>
      /\ sockets \in [1 .. Slots -> AnySocket] /\ steady \subseteq 1 .. Slots
    BY DEF Change, reader, Inv, TypeInv
<1>3. TypeInv'
    BY <1>1, <1>2 DEF Inv, TypeInv
<1>4. EverInv'
    <2>1. \A r \in 1 .. Slots : sockets'[r] \in ever'
        BY <1>1, <1>2 DEF Inv, EverInv
    <2>2. \A datagram : Known(datagram, ever) => Known(datagram, ever')
        BY <1>1 DEF Known
    <2>3. QED  BY <1>1, <1>2, <2>1, <2>2 DEF Inv, EverInv
<1>5. FoundInv'
    <2>1. \A x : Found(x)' <=> Found(x)
        BY <1>2 DEF Found, Tells
    <2>2. \A r \in steady' : r \in steady /\ sockets'[r] = sockets[r]
        BY <1>1, <1>2
    <2>3. QED  BY <1>2, <2>1, <2>2 DEF Inv, FoundInv
<1>6. DoneInv'
    BY <1>2 DEF Inv, DoneInv
<1>7. QED  BY <1>2, <1>3, <1>4, <1>5, <1>6 DEF Inv, SessionsFound

\* The dump goes on: what was found stays found.
LEMMA DumpStep ==
    ASSUME Inv, UNCHANGED <<sockets, steady, ever, rest, result, pc>>,
           TypeInv', Known(dump', ever), \A d \in DOMAIN queue' : Known(queue'[d], ever),
           \A x \in AnySocket : (Tells(dump, x) \/ \E d \in DOMAIN queue : Tells(queue[d], x))
                => Tells(dump', x) \/ \E d \in DOMAIN queue' : Tells(queue'[d], x),
           \A s \in steady : ~(s < cursor) /\ s < cursor' /\ Matches(sockets[s])
                => Tells(dump', sockets[s]),
           DoneInv'
    PROVE  Inv'
<1>1. EverInv'
    BY DEF Inv, EverInv
<1>2. FoundInv'
    <2> SUFFICES ASSUME pc = "recv", NEW s \in steady, s < cursor', Matches(sockets[s])
                 PROVE  Found(sockets[s])'
        BY DEF FoundInv
    <2>1. sockets[s] \in AnySocket
        BY DEF Inv, TypeInv
    <2>2. CASE s < cursor
        <3>1. Found(sockets[s])
            BY <2>2 DEF Inv, FoundInv
        <3>2. QED  BY <2>1, <3>1 DEF Found
    <2>3. CASE ~(s < cursor)
        <3>1. Tells(dump', sockets[s])
            BY <2>3
        <3>2. QED  BY <3>1 DEF Found
    <2>4. QED  BY <2>2, <2>3
<1>3. SessionsFound'
    BY DEF Inv, SessionsFound, Sessions
<1>4. QED  BY <1>1, <1>2, <1>3 DEF Inv

LEMMA DumpSlotInv ==
    ASSUME Inv, DumpSlot
    PROVE  Inv'
<1> DEFINE m == Message("SOCK_DIAG_BY_FAMILY", 1, sockets[cursor])
<1>1. /\ UNCHANGED <<sockets, steady, ever, rest, result, pc, queue>>
      /\ cursor \in 1 .. Slots /\ cursor' = cursor + 1 /\ Slots \in Nat
      /\ dump' = IF Asked(sockets[cursor]) THEN Append(dump, m) ELSE dump
      /\ sockets[cursor] \in AnySocket /\ sockets[cursor] \in ever
      /\ dump \in Datagrams
    BY DiagAssumption DEF DumpSlot, table, reader, Inv, TypeInv, EverInv
<1>2. /\ m \in Messages /\ ~Done(m) /\ m.socket \in ever
      /\ Names(m, sockets[cursor])
    BY <1>1 DEF Message, Messages, Types, Done, Names, Socket
<1> HIDE DEF m
<1>3. /\ dump' \in Datagrams /\ Known(dump', ever)
      /\ \A x : Tells(dump, x) => Tells(dump', x)
      /\ ~HasDone(dump')
      /\ Asked(sockets[cursor]) => Tells(dump', sockets[cursor])
    <2>1. /\ Append(dump, m) \in Datagrams
          /\ Known(dump, ever) => Known(Append(dump, m), ever)
          /\ \A x : Tells(dump, x) \/ Names(m, x) => Tells(Append(dump, m), x)
          /\ HasDone(Append(dump, m)) => HasDone(dump)
        BY <1>1, <1>2, AppendFacts
    <2>2. Known(dump, ever) /\ ~HasDone(dump)
        BY DEF Inv, EverInv, DoneInv
    <2>3. QED  BY <1>1, <1>2, <2>1, <2>2
<1>4. TypeInv'
    BY <1>1, <1>3 DEF Inv, TypeInv
<1>5. DoneInv'
    BY <1>1, <1>3 DEF Inv, DoneInv
<1>6. \A s \in steady : ~(s < cursor) /\ s < cursor' /\ Matches(sockets[s])
                => Tells(dump', sockets[s])
    <2> SUFFICES ASSUME NEW s \in steady, ~(s < cursor), s < cursor', Matches(sockets[s])
                 PROVE  Tells(dump', sockets[s])
        OBVIOUS
    <2>1. s = cursor
        BY <1>1 DEF Inv, TypeInv
    <2>2. Asked(sockets[cursor])
        BY <2>1 DEF Matches, Asked
    <2>3. QED  BY <1>3, <2>1, <2>2
<1>7. \A d \in DOMAIN queue' : Known(queue'[d], ever)
    BY <1>1 DEF Inv, EverInv
<1>8. QED  BY <1>1, <1>3, <1>4, <1>5, <1>6, <1>7, DumpStep

LEMMA DumpDatagramInv ==
    ASSUME Inv, DumpDatagram
    PROVE  Inv'
<1>1. /\ UNCHANGED <<sockets, steady, ever, rest, result, pc, cursor>>
      /\ dump # <<>> /\ dump' = <<>> /\ queue' = Append(queue, dump)
      /\ dump \in Datagrams /\ cursor \in Nat
      /\ cursor # Slots + 2
    BY DiagAssumption DEF DumpDatagram, table, reader, Inv, TypeInv, DoneInv
<1>2. /\ queue' \in Seq(Datagrams)
      /\ Len(queue) \in Nat /\ DOMAIN queue = 1 .. Len(queue)
      /\ DOMAIN queue' = 1 .. Len(queue) + 1
      /\ \A d \in 1 .. Len(queue) : queue'[d] = queue[d]
      /\ queue'[Len(queue) + 1] = dump
    BY <1>1, QueueAppend DEF Inv
<1>3. TypeInv'
    BY <1>1, <1>2, EmptyFacts DEF Inv, TypeInv
<1>4. Known(dump', ever) /\ \A d \in DOMAIN queue' : Known(queue'[d], ever)
    BY <1>1, <1>2, EmptyFacts DEF Inv, EverInv
<1>5. \A x \in AnySocket : (Tells(dump, x) \/ \E d \in DOMAIN queue : Tells(queue[d], x))
                => Tells(dump', x) \/ \E d \in DOMAIN queue' : Tells(queue'[d], x)
    BY <1>2
<1>6. DoneInv'
    <2>1. ~HasDone(dump') /\ ~HasDone(dump) /\ DoneLast(dump)
        BY <1>1, EmptyFacts DEF Inv, DoneInv, HasDone, DoneLast
    <2>2. \A d \in DOMAIN queue' : ~HasDone(queue'[d]) /\ DoneLast(queue'[d])
        BY <1>1, <1>2, <2>1 DEF Inv, DoneInv
    <2>3. QED  BY <1>1, <2>1, <2>2 DEF Inv, DoneInv
<1>7. \A s \in steady : ~(s < cursor) /\ s < cursor' /\ Matches(sockets[s])
                => Tells(dump', sockets[s])
    BY <1>1
<1>8. QED  BY <1>1, <1>3, <1>4, <1>5, <1>6, <1>7, DumpStep

LEMMA FreeMessage ==
    ASSUME NEW type \in Types \ {"SOCK_DIAG_BY_FAMILY"}, NEW seq \in {1, 2}
    PROVE  /\ Message(type, seq, Free) \in Messages
           /\ ~Socket(Message(type, seq, Free))
           /\ Done(Message(type, seq, Free)) <=> (type = "NLMSG_DONE" /\ seq = 1)
BY DEF Message, Messages, AnySocket, Socket, Done, Types

LEMMA DumpOverInv ==
    ASSUME Inv, DumpOver
    PROVE  Inv'
<1>1. PICK type \in {"NLMSG_DONE", "NLMSG_ERROR"} :
            queue' = Append(queue, Append(dump, Message(type, 1, Free)))
    BY DEF DumpOver
<1>2. PICK m : m = Message(type, 1, Free)
    OBVIOUS
<1>3. PICK last : last = Append(dump, m)
    OBVIOUS
<1>4. /\ UNCHANGED <<sockets, steady, ever, rest, result, pc>>
      /\ cursor = Slots + 1 /\ cursor' = Slots + 2 /\ Slots \in Nat
      /\ dump' = <<>> /\ dump \in Datagrams
    BY DiagAssumption DEF DumpOver, table, reader, Inv, TypeInv
<1>5. m \in Messages /\ ~Socket(m)
    BY <1>2, FreeMessage DEF Types
<1>6. /\ last \in Datagrams
      /\ Known(last, ever)
      /\ \A x : Tells(dump, x) => Tells(last, x)
      /\ DoneLast(last)
    BY <1>3, <1>4, <1>5, AppendFacts DEF Inv, EverInv, DoneInv
<1>7. /\ queue' \in Seq(Datagrams)
      /\ Len(queue) \in Nat /\ DOMAIN queue = 1 .. Len(queue)
      /\ DOMAIN queue' = 1 .. Len(queue) + 1
      /\ \A d \in 1 .. Len(queue) : queue'[d] = queue[d]
      /\ queue'[Len(queue) + 1] = last
    BY <1>1, <1>2, <1>3, <1>6, QueueAppend DEF Inv
<1>8. TypeInv'
    BY <1>4, <1>7, EmptyFacts DEF Inv, TypeInv
<1>9. Known(dump', ever) /\ \A d \in DOMAIN queue' : Known(queue'[d], ever)
    BY <1>4, <1>6, <1>7, EmptyFacts DEF Inv, EverInv
<1>10. \A x \in AnySocket : (Tells(dump, x) \/ \E d \in DOMAIN queue : Tells(queue[d], x))
                => Tells(dump', x) \/ \E d \in DOMAIN queue' : Tells(queue'[d], x)
    BY <1>6, <1>7
<1>11. DoneInv'
    <2>1. ~HasDone(dump')
        BY <1>4, EmptyFacts
    <2>2. /\ ~HasDone(rest) /\ DoneLast(rest)
          /\ \A d \in DOMAIN queue : ~HasDone(queue[d]) /\ DoneLast(queue[d])
        BY <1>4 DEF Inv, DoneInv
    <2>3. \A d \in DOMAIN queue' : DoneLast(queue'[d])
        BY <1>6, <1>7, <2>2
    <2>4. \A d \in DOMAIN queue' : HasDone(queue'[d]) => d = Len(queue) + 1
        BY <1>7, <2>2
    <2>5. QED  BY <1>4, <1>7, <2>1, <2>2, <2>3, <2>4 DEF DoneInv
<1>12. \A s \in steady : ~(s < cursor) /\ s < cursor' /\ Matches(sockets[s])
                => Tells(dump', sockets[s])
    BY <1>4 DEF Inv, TypeInv
<1>13. QED  BY <1>4, <1>8, <1>9, <1>10, <1>11, <1>12, DumpStep

LEMMA InterfereInv ==
    ASSUME Inv, Interfere
    PROVE  Inv'
<1>1. PICK m \in {Message("NLMSG_DONE", 2, Free), Message("malformed", 1, Free),
                  Message("ack", 1, Free)} :
            queue' = Append(queue, <<m>>)
    BY DEF Interfere
<1>2. /\ UNCHANGED <<sockets, steady, ever, rest, result, pc, cursor, dump>>
      /\ cursor \in Nat
    BY DiagAssumption DEF Interfere, table, reader, Inv, TypeInv
<1>3. m \in Messages /\ ~Socket(m) /\ ~Done(m)
    BY <1>1, FreeMessage DEF Types
<1>4. PICK s : s = <<m>>
    OBVIOUS
<1>5. s \in Datagrams /\ Known(s, ever) /\ ~HasDone(s) /\ DoneLast(s) /\ Silent(s)
    BY <1>3, <1>4 DEF Datagrams, Known, HasDone, DoneLast, Silent
<1>6. /\ queue' \in Seq(Datagrams)
      /\ Len(queue) \in Nat /\ DOMAIN queue = 1 .. Len(queue)
      /\ DOMAIN queue' = 1 .. Len(queue) + 1
      /\ \A d \in 1 .. Len(queue) : queue'[d] = queue[d]
      /\ queue'[Len(queue) + 1] = s
    BY <1>1, <1>4, <1>5, QueueAppend DEF Inv
<1>7. TypeInv'
    BY <1>2, <1>6 DEF Inv, TypeInv
<1>8. Known(dump', ever) /\ \A d \in DOMAIN queue' : Known(queue'[d], ever)
    BY <1>2, <1>5, <1>6 DEF Inv, EverInv
<1>9. \A x \in AnySocket : (Tells(dump, x) \/ \E d \in DOMAIN queue : Tells(queue[d], x))
                => Tells(dump', x) \/ \E d \in DOMAIN queue' : Tells(queue'[d], x)
    BY <1>2, <1>6
<1>10. DoneInv'
    <2>1. \A d \in DOMAIN queue' : DoneLast(queue'[d])
        BY <1>5, <1>6 DEF Inv, DoneInv
    <2>2. HasDone(rest) => cursor = Slots + 2 /\ \A d \in DOMAIN queue' : Silent(queue'[d])
        BY <1>5, <1>6 DEF Inv, DoneInv
    <2>3. ASSUME NEW d \in DOMAIN queue', HasDone(queue'[d])
          PROVE  cursor = Slots + 2 /\ \A e \in DOMAIN queue' : e > d => Silent(queue'[e])
        <3>1. d \in DOMAIN queue /\ queue'[d] = queue[d]
            BY <1>5, <1>6, <2>3
        <3>2. QED  BY <1>5, <1>6, <2>3, <3>1 DEF Inv, DoneInv
    <2>4. QED  BY <1>2, <2>1, <2>2, <2>3 DEF Inv, DoneInv
<1>11. \A r \in steady : ~(r < cursor) /\ r < cursor' /\ Matches(sockets[r])
                => Tells(dump', sockets[r])
    BY <1>2
<1>12. QED  BY <1>2, <1>7, <1>8, <1>9, <1>10, <1>11, DumpStep

-----------------------------------------------------------------------------
(***************************************************************************)
(* recvEstablishedTCPRemoteIP                                              *)
(***************************************************************************)
LEMMA RecvInv ==
    ASSUME Inv, Recv
    PROVE  Inv'
<1>1. /\ pc = "recv" /\ pc' = "recv" /\ rest = <<>> /\ rest' = Head(queue)
      /\ queue # <<>> /\ queue' = Tail(queue) /\ queue \in Seq(Datagrams)
      /\ UNCHANGED <<sockets, steady, ever, cursor, dump, result>>
    BY DEF Recv, Collected, kernel, table, Inv, TypeInv
<1>2. /\ rest' = queue[1] /\ rest' \in Datagrams /\ queue' \in Seq(Datagrams)
      /\ Len(queue) \in Nat /\ Len(queue) > 0
      /\ DOMAIN queue = 1 .. Len(queue) /\ DOMAIN queue' = 1 .. Len(queue) - 1
      /\ \A d \in 1 .. Len(queue) - 1 : queue'[d] = queue[d + 1]
    BY <1>1
<1>3. \A d \in DOMAIN queue' : d + 1 \in DOMAIN queue /\ queue'[d] = queue[d + 1]
    BY <1>2
<1>4. 1 \in DOMAIN queue
    BY <1>2
<1>5. TypeInv'
    BY <1>1, <1>2 DEF Inv, TypeInv
<1>6. EverInv'
    BY <1>1, <1>2, <1>3, <1>4 DEF Inv, EverInv
<1>7. FoundInv'
    <2> SUFFICES ASSUME NEW s \in steady, s < cursor, Matches(sockets[s])
                 PROVE  Found(sockets[s])'
        BY <1>1 DEF FoundInv
    <2>1. PICK x : x = sockets[s]
        OBVIOUS
    <2>2. Found(x) /\ ~Tells(rest, x)
        BY <1>1, <2>1, EmptyFacts DEF Inv, FoundInv
    <2>3. ASSUME NEW d \in DOMAIN queue, Tells(queue[d], x)
          PROVE  Tells(rest', x) \/ \E e \in DOMAIN queue' : Tells(queue'[e], x)
        <3>1. CASE d = 1
            BY <1>2, <2>3, <3>1
        <3>2. CASE d # 1
            <4>1. d - 1 \in DOMAIN queue' /\ queue'[d - 1] = queue[d]
                BY <1>2, <3>2
            <4>2. QED  BY <2>3, <4>1
        <3>3. QED  BY <3>1, <3>2
    <2>4. QED  BY <1>1, <2>1, <2>2, <2>3 DEF Found
<1>8. DoneInv'
    <2>1. DoneLast(rest') /\ \A d \in DOMAIN queue' : DoneLast(queue'[d])
        BY <1>2, <1>3, <1>4 DEF Inv, DoneInv
    <2>2. HasDone(rest') => cursor = Slots + 2 /\ \A d \in DOMAIN queue' : Silent(queue'[d])
        BY <1>2, <1>3, <1>4 DEF Inv, DoneInv
    <2>3. ASSUME NEW d \in DOMAIN queue', HasDone(queue'[d])
          PROVE  cursor = Slots + 2 /\ \A e \in DOMAIN queue' : e > d => Silent(queue'[e])
        BY <1>2, <1>3, <2>3 DEF Inv, DoneInv
    <2>4. QED  BY <1>1, <2>1, <2>2, <2>3 DEF Inv, DoneInv
<1>9. QED  BY <1>1, <1>5, <1>6, <1>7, <1>8 DEF Inv, SessionsFound

LEMMA FailInv ==
    ASSUME Inv, RecvFails \/ MessageMalformed \/ MessageError
    PROVE  Inv'
<1>1. /\ pc' = "error"
      /\ UNCHANGED <<sockets, steady, ever, cursor, dump, queue, rest, result>>
    BY DEF RecvFails, MessageMalformed, MessageError, kernel, table
<1>2. TypeInv' /\ EverInv' /\ DoneInv'
    BY <1>1 DEF Inv, TypeInv, EverInv, DoneInv
<1>3. QED  BY <1>1, <1>2 DEF Inv, FoundInv, SessionsFound

\* A message is read.  A session it tells of is in the result.
LEMMA ReadInv ==
    ASSUME Inv, pc = "recv", pc' = "recv", rest # <<>>, rest' = Tail(rest),
           UNCHANGED <<kernel, queue>>,
           result' \in Seq(Remotes),
           \A k \in DOMAIN result' : \E x \in ever : Matches(x) /\ result'[k] = x.remote,
           \A r : (\E k \in DOMAIN result : result[k] = r) => \E k \in DOMAIN result' : result'[k] = r,
           \A x \in AnySocket : Names(Head(rest), x) /\ Matches(x) =>
                \E k \in DOMAIN result' : result'[k] = x.remote
    PROVE  Inv'
<1>1. UNCHANGED <<sockets, steady, ever, cursor, dump, queue>> /\ rest \in Datagrams
    BY DEF kernel, table, Inv, TypeInv
<1>2. /\ rest' \in Datagrams
      /\ Known(rest, ever) => Known(rest', ever)
      /\ \A x : Tells(rest, x) => Names(Head(rest), x) \/ Tells(rest', x)
      /\ DoneLast(rest) => DoneLast(rest')
      /\ HasDone(rest') => HasDone(rest)
    BY <1>1, TailFacts
<1>3. TypeInv'
    BY <1>1, <1>2 DEF Inv, TypeInv
<1>4. EverInv'
    BY <1>1, <1>2 DEF Inv, EverInv
<1>5. FoundInv'
    <2> SUFFICES ASSUME NEW s \in steady, s < cursor, Matches(sockets[s])
                 PROVE  Found(sockets[s])'
        BY <1>1 DEF FoundInv
    <2>1. PICK x \in AnySocket : x = sockets[s]
        BY DEF Inv, TypeInv
    <2>2. Found(x) /\ Matches(x)
        BY <2>1 DEF Inv, FoundInv
    <2>3. QED  BY <1>1, <1>2, <2>1, <2>2 DEF Found
<1>6. DoneInv'
    BY <1>1, <1>2 DEF Inv, DoneInv
<1>7. QED  BY <1>3, <1>4, <1>5, <1>6 DEF Inv, SessionsFound

LEMMA MessageSkipInv ==
    ASSUME Inv, MessageForeign \/ MessageAck
    PROVE  Inv'
<1>1. /\ pc = "recv" /\ pc' = "recv" /\ rest # <<>> /\ rest' = Tail(rest)
      /\ UNCHANGED <<kernel, queue>> /\ result' = result
      /\ \A x : ~Names(Head(rest), x)
    BY DEF MessageForeign, MessageAck, Answer, Names, Socket
<1>2. /\ result' \in Seq(Remotes)
      /\ \A k \in DOMAIN result' : \E x \in ever : Matches(x) /\ result'[k] = x.remote
    BY <1>1 DEF Inv, TypeInv, EverInv
<1>3. QED  BY <1>1, <1>2, ReadInv

LEMMA MessageSocketInv ==
    ASSUME Inv, MessageSocket
    PROVE  Inv'
<1>1. PICK socket : socket = Head(rest).socket
    OBVIOUS
<1>2. /\ pc = "recv" /\ pc' = "recv" /\ rest # <<>> /\ rest' = Tail(rest)
      /\ UNCHANGED <<kernel, queue>>
      /\ result' = IF Matches(socket) THEN Append(result, socket.remote) ELSE result
      /\ Socket(Head(rest)) /\ rest \in Datagrams /\ result \in Seq(Remotes)
    BY <1>1 DEF MessageSocket, Answer, Socket, Inv, TypeInv
<1>3. socket \in ever /\ socket \in AnySocket
    <2>1. Head(rest) \in Messages /\ (Known(rest, ever) => socket \in ever)
        BY <1>1, <1>2, TailFacts
    <2>2. QED  BY <1>1, <2>1 DEF Messages, Inv, EverInv
<1>4. \A x : Names(Head(rest), x) => x = socket
    BY <1>1 DEF Names
<1>5. CASE ~Matches(socket)
    <2>1. /\ result' = result
          /\ \A k \in DOMAIN result' : \E x \in ever : Matches(x) /\ result'[k] = x.remote
        BY <1>2, <1>5 DEF Inv, EverInv
    <2>2. QED  BY <1>2, <1>4, <1>5, <2>1, ReadInv
<1>6. CASE Matches(socket)
    <2>1. socket.remote \in Remotes
        BY <1>3, <1>6 DEF AnySocket, Sockets, Free, Matches
    <2>2. PICK r \in Remotes : r = socket.remote
        BY <2>1
    <2>3. /\ result' \in Seq(Remotes) /\ Len(result) \in Nat
          /\ DOMAIN result = 1 .. Len(result) /\ DOMAIN result' = 1 .. Len(result) + 1
          /\ \A k \in 1 .. Len(result) : result'[k] = result[k]
          /\ result'[Len(result) + 1] = r
        BY <1>2, <1>6, <2>2
    <2>4. \A k \in DOMAIN result' : \E x \in ever : Matches(x) /\ result'[k] = x.remote
        BY <1>3, <1>6, <2>2, <2>3 DEF Inv, EverInv
    <2>5. \A q : (\E k \in DOMAIN result : result[k] = q) => \E k \in DOMAIN result' : result'[k] = q
        BY <2>3
    <2>6. \E k \in DOMAIN result' : result'[k] = socket.remote
        BY <2>2, <2>3
    <2>7. QED  BY <1>2, <1>4, <2>3, <2>4, <2>5, <2>6, ReadInv
<1>7. QED  BY <1>5, <1>6

LEMMA MessageDoneInv ==
    ASSUME Inv, MessageDone
    PROVE  Inv'
<1>1. /\ pc = "recv" /\ pc' = "returned" /\ rest # <<>> /\ rest \in Datagrams
      /\ UNCHANGED <<sockets, steady, ever, cursor, dump, queue, rest, result>>
      /\ Done(Head(rest))
    BY DEF MessageDone, Answer, Done, kernel, table, Inv, TypeInv
<1>2. HasDone(rest) /\ \A x : ~Tells(rest, x)
    BY <1>1, TailFacts DEF Inv, DoneInv
<1>3. /\ cursor = Slots + 2 /\ dump = <<>>
      /\ \A d \in DOMAIN queue : Silent(queue[d])
    BY <1>2 DEF Inv, DoneInv
<1>4. \A x : ~Tells(dump, x) /\ \A d \in DOMAIN queue : ~Tells(queue[d], x)
    BY <1>3, EmptyFacts DEF Silent, Tells, Names
<1>5. \A s \in steady : Matches(sockets[s]) => \E k \in DOMAIN result : result[k] = sockets[s].remote
    <2> SUFFICES ASSUME NEW s \in steady, Matches(sockets[s])
                 PROVE  \E k \in DOMAIN result : result[k] = sockets[s].remote
        OBVIOUS
    <2>1. s < cursor
        BY <1>3, DiagAssumption DEF Inv, TypeInv
    <2>2. Found(sockets[s])
        BY <1>1, <2>1 DEF Inv, FoundInv
    <2>3. QED  BY <1>2, <1>4, <2>2 DEF Found
<1>6. ToSet(result) \subseteq {k.remote : k \in Sessions(ever)}
    BY DEF ToSet, Sessions, Inv, EverInv, Matches
<1>7. {k.remote : k \in Sessions({sockets[s] : s \in steady})} \subseteq ToSet(result)
    BY <1>5 DEF ToSet, Sessions, Matches
<1>8. SessionsFound'
    BY <1>1, <1>6, <1>7 DEF SessionsFound, Sessions, ToSet
<1>9. TypeInv' /\ EverInv' /\ DoneInv'
    BY <1>1 DEF Inv, TypeInv, EverInv, DoneInv
<1>10. QED  BY <1>1, <1>8, <1>9 DEF Inv, FoundInv

-----------------------------------------------------------------------------
(***************************************************************************)
(* The theorem                                                             *)
(***************************************************************************)
LEMMA NextInv == Inv /\ [Next]_vars => Inv'
<1> SUFFICES ASSUME Inv, [Next]_vars PROVE Inv'
    OBVIOUS
<1>1. CASE UNCHANGED vars
    <2>1. TypeInv' /\ EverInv' /\ DoneInv'
        BY <1>1 DEF vars, Inv, TypeInv, EverInv, DoneInv
    <2>2. FoundInv'
        BY <1>1 DEF vars, Inv, FoundInv, Found
    <2>3. SessionsFound'
        BY <1>1 DEF vars, Inv, SessionsFound
    <2>4. QED  BY <2>1, <2>2, <2>3 DEF Inv
<1>2. CASE Change \/ DumpSlot \/ DumpDatagram \/ DumpOver \/ Interfere
    BY <1>2, ChangeInv, DumpSlotInv, DumpDatagramInv, DumpOverInv, InterfereInv
<1>3. CASE Recv \/ RecvFails \/ MessageMalformed \/ MessageError
    BY <1>3, RecvInv, FailInv
<1>4. CASE MessageForeign \/ MessageAck \/ MessageSocket \/ MessageDone
    BY <1>4, MessageSkipInv, MessageSocketInv, MessageDoneInv
<1>5. QED  BY <1>1, <1>2, <1>3, <1>4 DEF Next, Terminated

(***************************************************************************)
(* What recvEstablishedTCPRemoteIP returns has every address whose session *)
(* lasted throughout the dump, and only addresses that had one.            *)
(***************************************************************************)
THEOREM SessionsAreFound == Spec => []SessionsFound
<1>1. Inv => SessionsFound
    BY DEF Inv
<1>2. QED  BY InitInv, NextInv, <1>1, PTL DEF Spec
=============================================================================
