--------------------------- MODULE NetlinkProofs ----------------------------
(***************************************************************************)
(* Proofs that what recvAcks says of a request is true, for any number of  *)
(* requests and however the answers are lost, repeated or mixed with       *)
(* messages of others.                                                     *)
(***************************************************************************)
EXTENDS Netlink, FiniteSetTheorems, TLAPS

Objects == Masquerading \cup {"host", "viatun"}
Messages == [type : {"NLMSG_ERROR", "other", "malformed"}, seq : Nat, errno : {0, 1}]
Datagrams == Seq(Messages)

\* The numbers that have been acknowledged.
Acked == {seq \in DOMAIN expected : expected[seq] = TRUE}

TypeInv ==
    /\ objects \subseteq Objects /\ before \subseteq Objects /\ staged \subseteq Objects
    /\ call \in Calls
    /\ next \in Nat
    /\ answers \in Seq(Seq(Messages))
    /\ queue \in Seq(Seq(Messages))
    /\ rest \in Seq(Messages)
    /\ pc \in {"idle", "send", "recv", "ok", "errno", "error"}

\* recvAcks counts an acknowledgement once.
CountInv ==
    /\ expected \in [DOMAIN expected -> BOOLEAN]
    /\ DOMAIN expected \subseteq 1 .. 5
    /\ got = Cardinality(Acked)

Errno(m) == m.type = "NLMSG_ERROR" /\ m.errno # 0
Ack(m, seq) == m.type = "NLMSG_ERROR" /\ m.errno = 0 /\ m.seq = seq

HasErrno(datagram) == \E k \in DOMAIN datagram : Errno(datagram[k])
NoAck(datagram, seq) == \A k \in DOMAIN datagram : ~Ack(datagram[k], seq)

-----------------------------------------------------------------------------
(***************************************************************************)
(* Inside Sendto.  The answers are to different messages that the kernel   *)
(* has come through and that asked for one.                                *)
(***************************************************************************)
AnswersInv ==
    pc = "send" =>
        /\ objects = before
        /\ next \in 1 .. Len(Packet(call)) + 1
        /\ expected = [seq \in Want(call) |-> FALSE]
        /\ rest = <<>>
        /\ \A k \in DOMAIN answers :
            /\ Len(answers[k]) = 1
            /\ answers[k][1].type = "NLMSG_ERROR"
            /\ answers[k][1].seq \in Want(call)
            /\ answers[k][1].seq < next
        /\ \A j, k \in DOMAIN answers : answers[j][1].seq = answers[k][1].seq => j = k

\* The part of the packet that the kernel has come through, when none of it
\* failed, has done its part of what the call promises.
StagedInv ==
    pc = "send" /\ Accepted =>
        /\ call = "ApplyMasquerade" =>
            /\ next > 2 => "table" \in staged
            /\ next > 3 => "chain" \in staged
            /\ next > 4 => "rule" \in staged
        /\ call = "DeleteMasqueradeTable" /\ next > 2 => staged \cap Masquerading = {}
        /\ call = "AddHostRoute" /\ next > 1 => "host" \in staged
        /\ call = "DelHostRoute" /\ next > 1 => "host" \notin staged
        /\ call = "ReplaceDefaultRoute" /\ next > 1 => "viatun" \in staged
        /\ call = "RestoreDefaultRoute" /\ next > 1 => "viatun" \notin staged

(***************************************************************************)
(* recvAcks.  Either the kernel has done what was asked, and no error      *)
(* number is on its way; or it has done nothing, and a message that is     *)
(* waited for is not acknowledged, and never before an error number.       *)
(***************************************************************************)
Done ==
    /\ Promise(call)
    /\ ~HasErrno(rest)
    /\ \A d \in DOMAIN queue : ~HasErrno(queue[d])

\* No acknowledgement of seq is read before an error number.
Blocked(seq) ==
    /\ expected[seq] = FALSE
    /\ NoAck(rest, seq)
    /\ \/ HasErrno(rest)
       \/ \A d \in DOMAIN queue : NoAck(queue[d], seq)
       \/ \E d \in DOMAIN queue :
            /\ HasErrno(queue[d])
            /\ \A e \in 1 .. d : NoAck(queue[e], seq)

Undone ==
    /\ objects = before
    /\ \E seq \in Want(call) : Blocked(seq)

RecvInv ==
    pc = "recv" => DOMAIN expected = Want(call) /\ (Done \/ Undone)

Inv ==
    /\ TypeInv /\ CountInv
    /\ AnswersInv /\ StagedInv
    /\ RecvInv /\ AnswerIsTrue

-----------------------------------------------------------------------------
(***************************************************************************)
(* Packets and datagrams                                                   *)
(***************************************************************************)
\* The messages of the packets: those that ask for an answer are those that
\* recvAcks waits for.
LEMMA PacketFacts ==
    ASSUME NEW c \in Calls
    PROVE  /\ Len(Packet(c)) \in Nat
           /\ Want(c) \subseteq 1 .. Len(Packet(c))
           /\ Want(c) \subseteq 1 .. 5
           /\ Want(c) # {}
           /\ \A k \in 1 .. Len(Packet(c)) : Asks(Packet(c)[k]) <=> k \in Want(c)
<1>1. CASE c = "ApplyMasquerade"
    BY <1>1 DEF Packet, Want, Asks
<1>2. CASE c = "DeleteMasqueradeTable"
    BY <1>2 DEF Packet, Want, Asks
<1>3. CASE c \notin {"ApplyMasquerade", "DeleteMasqueradeTable"}
    BY <1>3 DEF Packet, Want, Asks, Calls
<1>4. QED  BY <1>1, <1>2, <1>3

LEMMA EffectType ==
    ASSUME NEW m, NEW objs, objs \subseteq Objects
    PROVE  Effect(m, objs) \subseteq Objects
BY DEF Effect, Objects, Masquerading

LEMMA AnswerType ==
    ASSUME NEW seq \in Nat, NEW errno \in {0, 1}
    PROVE  /\ Answer(seq, errno) \in Messages
           /\ <<Answer(seq, errno)>> \in Seq(Messages)
BY DEF Answer, Messages

LEMMA InsertFacts ==
    ASSUME NEW q \in Seq(Datagrams), NEW e \in Datagrams, NEW at \in 1 .. Len(q) + 1
    PROVE  /\ InsertAt(q, at, e) \in Seq(Datagrams)
           /\ Len(InsertAt(q, at, e)) = Len(q) + 1
           /\ \A x \in 1 .. at - 1 : InsertAt(q, at, e)[x] = q[x]
           /\ InsertAt(q, at, e)[at] = e
           /\ \A x \in at .. Len(q) : InsertAt(q, at, e)[x + 1] = q[x]
<1> DEFINE front == SubSeq(q, 1, at - 1)
           back  == SubSeq(q, at, Len(q))
           part  == front \o <<e>>
<1>1. /\ front \in Seq(Datagrams) /\ Len(front) = at - 1
      /\ \A x \in 1 .. at - 1 : front[x] = q[x]
    OBVIOUS
<1>2. /\ back \in Seq(Datagrams) /\ Len(back) = Len(q) - at + 1
      /\ \A x \in 1 .. Len(q) - at + 1 : back[x] = q[at + x - 1]
    OBVIOUS
<1>3. /\ part \in Seq(Datagrams) /\ Len(part) = at
      /\ \A x \in 1 .. at - 1 : part[x] = q[x]
      /\ part[at] = e
    <2> HIDE DEF front
    <2> QED  BY <1>1
<1>4. InsertAt(q, at, e) = part \o back
    BY DEF InsertAt
<1> HIDE DEF part, back
<1>5. /\ part \o back \in Seq(Datagrams) /\ Len(part \o back) = Len(q) + 1
      /\ \A x \in 1 .. at : (part \o back)[x] = part[x]
      /\ \A x \in at .. Len(q) : (part \o back)[x + 1] = back[x + 1 - at]
    BY <1>2, <1>3
<1>6. QED  BY <1>2, <1>3, <1>4, <1>5

-----------------------------------------------------------------------------
(***************************************************************************)
(* The calls                                                               *)
(***************************************************************************)
LEMMA InitInv == Init => Inv
<1> SUFFICES ASSUME Init PROVE Inv
    OBVIOUS
<1>1. TypeInv
    BY DEF Init, TypeInv, Calls
<1>2. CountInv
    <2>1. Acked = {} /\ DOMAIN expected = {}
        BY DEF Init, Acked
    <2>2. QED  BY <2>1, FS_EmptySet DEF Init, CountInv
<1>3. QED  BY <1>1, <1>2 DEF Init, Inv, AnswersInv, StagedInv, RecvInv, AnswerIsTrue

LEMMA SendInv ==
    ASSUME Inv, NEW c \in Calls, Send(c)
    PROVE  Inv'
<1>1. TypeInv'
    BY DEF Inv, TypeInv, Send
<1>2. CountInv'
    <2>1. expected' \in [Want(c) -> BOOLEAN] /\ DOMAIN expected' = Want(c)
        BY DEF Send
    <2>2. Acked' = {}
        BY DEF Acked, Send
    <2>3. QED  BY <2>1, <2>2, FS_EmptySet, PacketFacts DEF Send, CountInv
<1>3. AnswersInv'
    <2>1. Len(Packet(c)) \in Nat
        BY PacketFacts
    <2>2. QED  BY <2>1 DEF Send, AnswersInv
<1>4. StagedInv'
    BY DEF Send, StagedInv
<1>5. QED  BY <1>1, <1>2, <1>3, <1>4 DEF Send, Inv, RecvInv, AnswerIsTrue

\* A step that leaves recvAcks with an error, or before it, promises nothing.
LEMMA ErrorInv ==
    ASSUME Inv, TypeInv', UNCHANGED <<expected, got>>, pc' = "error"
    PROVE  Inv'
<1>1. CountInv'
    BY DEF Inv, CountInv, Acked
<1>2. QED  BY <1>1 DEF Inv, AnswersInv, StagedInv, RecvInv, AnswerIsTrue

LEMMA FailsInv ==
    ASSUME Inv, (\E c \in Calls : SendFails(c)) \/ RecvFails \/ Timeout \/ MessageMalformed
    PROVE  Inv'
<1>1. TypeInv' /\ UNCHANGED <<expected, got>> /\ pc' = "error"
    <2>1. ASSUME NEW c \in Calls, SendFails(c)
          PROVE  TypeInv' /\ UNCHANGED <<expected, got>> /\ pc' = "error"
        BY <2>1 DEF Inv, TypeInv, SendFails, packet
    <2>2. CASE RecvFails
        BY <2>2 DEF Inv, TypeInv, RecvFails, kernel, packet
    <2>3. CASE Timeout
        BY <2>3 DEF Inv, TypeInv, Timeout, kernel, packet
    <2>4. CASE MessageMalformed
        BY <2>4 DEF Inv, TypeInv, MessageMalformed, kernel, packet
    <2>5. QED  BY <2>1, <2>2, <2>3, <2>4
<1>2. QED  BY <1>1, ErrorInv

-----------------------------------------------------------------------------
(***************************************************************************)
(* The kernel                                                              *)
(***************************************************************************)
LEMMA HandleInv ==
    ASSUME Inv, Handle
    PROVE  Inv'
<1> DEFINE message == Packet(call)[next]
<1>1. /\ call \in Calls /\ pc = "send" /\ next \in 1 .. Len(Packet(call))
      /\ Asks(message) <=> next \in Want(call)
      /\ next \in Nat /\ Len(Packet(call)) \in Nat
    BY PacketFacts DEF Inv, TypeInv, AnswersInv, Handle
<1>2. PICK errno \in {0, 1} :
        /\ errno = 0 => Valid(message, staged)
        /\ errno = 1 => Asks(message)
        /\ staged' = IF errno = 0 THEN Effect(message, staged) ELSE staged
        /\ answers' = IF Asks(message) THEN Append(answers, <<Answer(next, errno)>>)
                                       ELSE answers
    BY DEF Handle
<1>3. /\ next' = next + 1
      /\ UNCHANGED <<objects, call, before, queue, rest, expected, got, pc, noise, calls>>
    BY DEF Handle
<1>4. /\ Answer(next, errno) \in Messages
      /\ <<Answer(next, errno)>> \in Seq(Messages)
    BY <1>1, AnswerType
<1> HIDE DEF message
<1>5. TypeInv'
    <2>1. answers' \in Seq(Seq(Messages))
        BY <1>2, <1>4 DEF Inv, TypeInv
    <2>2. staged' \subseteq Objects
        BY <1>2, EffectType DEF Inv, TypeInv
    <2>3. QED  BY <1>1, <1>3, <2>1, <2>2 DEF Inv, TypeInv
<1>6. CountInv'
    BY <1>3 DEF Inv, CountInv, Acked
<1>7. AnswersInv'
    <2>1. CASE ~Asks(message)
        <3>1. Want(call) \subseteq Nat
            BY <1>1, PacketFacts
        <3>2. \A k \in DOMAIN answers : answers[k][1].seq < next + 1
            BY <1>1, <3>1 DEF Inv, AnswersInv
        <3>3. QED  BY <1>1, <1>2, <1>3, <2>1, <3>2 DEF Inv, AnswersInv
    <2>2. CASE Asks(message)
        <3>1. /\ Len(answers') = Len(answers) + 1 /\ Len(answers) \in Nat
              /\ \A k \in 1 .. Len(answers) : answers'[k] = answers[k]
              /\ answers'[Len(answers) + 1] = <<Answer(next, errno)>>
              /\ DOMAIN answers = 1 .. Len(answers)
              /\ DOMAIN answers' = 1 .. Len(answers) + 1
            BY <1>2, <1>4, <2>2 DEF Inv, TypeInv
        <3>2. /\ Len(<<Answer(next, errno)>>) = 1
              /\ <<Answer(next, errno)>>[1].type = "NLMSG_ERROR"
              /\ <<Answer(next, errno)>>[1].seq = next
            BY DEF Answer
        <3>3. \A k \in DOMAIN answers' :
                /\ Len(answers'[k]) = 1
                /\ answers'[k][1].type = "NLMSG_ERROR"
                /\ answers'[k][1].seq \in Want(call)
                /\ answers'[k][1].seq < next + 1
            <4> SUFFICES ASSUME NEW k \in 1 .. Len(answers) + 1
                         PROVE  /\ Len(answers'[k]) = 1
                                /\ answers'[k][1].type = "NLMSG_ERROR"
                                /\ answers'[k][1].seq \in Want(call)
                                /\ answers'[k][1].seq < next + 1
                BY <3>1
            <4>1. CASE k = Len(answers) + 1
                <5>1. answers'[k] = <<Answer(next, errno)>>
                    BY <3>1, <4>1
                <5>2. QED  BY <1>1, <2>2, <5>1 DEF Answer
            <4>2. CASE k \in 1 .. Len(answers)
                <5>1. answers[k][1].seq \in Want(call) /\ answers[k][1].seq < next
                    BY <1>1, <3>1, <4>2 DEF Inv, AnswersInv
                <5>2. answers[k][1].seq \in 1 .. Len(Packet(call))
                    BY <1>1, <5>1, PacketFacts
                <5>3. QED  BY <1>1, <3>1, <4>2, <5>1, <5>2 DEF Inv, AnswersInv
            <4>3. QED  BY <3>1, <4>1, <4>2
        <3>4. \A j, k \in DOMAIN answers' :
                    answers'[j][1].seq = answers'[k][1].seq => j = k
            <4>1. \A k \in 1 .. Len(answers) : answers'[k][1].seq < next
                BY <1>1, <3>1 DEF Inv, AnswersInv
            <4>2. answers'[Len(answers) + 1][1].seq = next
                BY <3>1, <3>2
            <4>3. \A j, k \in 1 .. Len(answers) :
                    answers'[j][1].seq = answers'[k][1].seq => j = k
                BY <1>1, <3>1 DEF Inv, AnswersInv
            <4>4. QED  BY <1>1, <3>1, <4>1, <4>2, <4>3
        <3>5. QED  BY <1>1, <1>3, <3>3, <3>4 DEF Inv, AnswersInv
    <2>3. QED  BY <2>1, <2>2
<1>8. StagedInv'
    <2> SUFFICES ASSUME Accepted'
                 PROVE  StagedInv'
        BY DEF StagedInv
    <2>1. Accepted /\ errno = 0
        <3>1. CASE ~Asks(message)
            BY <1>2, <3>1 DEF Accepted
        <3>2. CASE Asks(message)
            <4>1. /\ \A k \in DOMAIN answers : k \in DOMAIN answers' /\ answers'[k] = answers[k]
                  /\ Len(answers) + 1 \in DOMAIN answers'
                  /\ answers'[Len(answers) + 1] = <<Answer(next, errno)>>
                BY <1>2, <1>4, <3>2 DEF Inv, TypeInv
            <4>2. <<Answer(next, errno)>>[1].errno = errno
                BY DEF Answer
            <4>3. QED  BY <4>1, <4>2 DEF Accepted
        <3>3. QED  BY <3>1, <3>2
    <2>2. staged' = Effect(message, staged)
        BY <1>2, <2>1
    <2>3. CASE call = "ApplyMasquerade"
        BY <1>1, <1>3, <2>1, <2>2, <2>3 DEF message, Inv, StagedInv, Packet, Effect, Masquerading
    <2>4. CASE call = "DeleteMasqueradeTable"
        BY <1>1, <1>3, <2>1, <2>2, <2>4 DEF message, Inv, StagedInv, Packet, Effect, Masquerading
    <2>5. CASE call \notin {"ApplyMasquerade", "DeleteMasqueradeTable"}
        <3>1. next = 1 /\ next' = 2
            BY <1>1, <1>3, <2>5 DEF Packet, Calls
        <3>2. QED
            BY <1>1, <1>3, <2>1, <2>2, <2>5, <3>1
            DEF message, Inv, StagedInv, Packet, Effect, Masquerading, Calls
    <2>6. QED  BY <2>3, <2>4, <2>5
<1>9. QED
    BY <1>1, <1>3, <1>5, <1>6, <1>7, <1>8 DEF Inv, RecvInv, AnswerIsTrue

\* What the three ends of a packet have in common.
LEMMA HandledInv ==
    ASSUME Inv, NEW objs, NEW datagrams, Handled(objs, datagrams),
           objs \subseteq Objects, datagrams \in Seq(Seq(Messages)),
           Done' \/ Undone'
    PROVE  Inv'
<1>1. TypeInv'
    BY DEF Inv, TypeInv, Handled
<1>2. CountInv'
    BY DEF Inv, CountInv, Acked, Handled
<1>3. DOMAIN expected' = Want(call')
    BY DEF Inv, AnswersInv, Handled
<1>4. QED
    BY <1>1, <1>2, <1>3 DEF Handled, Inv, AnswersInv, StagedInv, RecvInv, AnswerIsTrue

\* Nothing of the packet's is read yet.
LEMMA AtTheEnd ==
    ASSUME Inv, NEW objs, NEW datagrams, Handled(objs, datagrams)
    PROVE  /\ call \in Calls /\ call' = call /\ queue' = datagrams
           /\ objects' = objs /\ objects = before /\ before' = before
           /\ rest' = <<>>
           /\ \A seq \in Want(call) : expected'[seq] = FALSE
           /\ answers \in Seq(Seq(Messages))
           /\ \A k \in DOMAIN answers :
                /\ DOMAIN answers[k] = {1}
                /\ answers[k][1].type = "NLMSG_ERROR"
                /\ answers[k][1].seq \in Want(call)
           /\ \A j, k \in DOMAIN answers : answers[j][1].seq = answers[k][1].seq => j = k
<1>1. /\ call \in Calls /\ call' = call /\ queue' = datagrams
      /\ objects' = objs /\ objects = before /\ before' = before
      /\ rest' = <<>>
      /\ \A seq \in Want(call) : expected'[seq] = FALSE
      /\ answers \in Seq(Seq(Messages))
    BY DEF Inv, TypeInv, AnswersInv, Handled
<1>2. \A k \in DOMAIN answers : DOMAIN answers[k] = {1}
    <2> SUFFICES ASSUME NEW k \in DOMAIN answers PROVE DOMAIN answers[k] = {1}
        OBVIOUS
    <2>1. answers[k] \in Seq(Messages)
        BY <1>1
    <2>2. Len(answers[k]) = 1
        BY DEF Inv, AnswersInv, Handled
    <2>3. QED  BY <2>1, <2>2
<1>3. QED  BY <1>1, <1>2 DEF Inv, AnswersInv, Handled

LEMMA CommitInv ==
    ASSUME Inv, Commit
    PROVE  Inv'
<1>1. Handled(staged, answers) /\ Accepted
    BY DEF Commit
<1>2. staged \subseteq Objects /\ answers \in Seq(Seq(Messages))
    BY DEF Inv, TypeInv
<1>3. Done'
    <2>1. /\ call \in Calls /\ call' = call /\ queue' = answers
          /\ objects' = staged /\ rest' = <<>>
          /\ \A k \in DOMAIN answers : DOMAIN answers[k] = {1}
        BY <1>1, AtTheEnd
    <2>2. Promise(call)'
        <3>1. next > Len(Packet(call)) /\ pc = "send" /\ next \in Nat
            BY <1>1 DEF Handled, Inv, TypeInv
        <3>2. CASE call = "ApplyMasquerade"
            <4>1. next > 4
                BY <3>1, <3>2 DEF Packet
            <4>2. QED  BY <1>1, <2>1, <3>1, <3>2, <4>1 DEF Inv, StagedInv, Promise, Masquerading
        <3>3. CASE call = "DeleteMasqueradeTable"
            <4>1. next > 2
                BY <3>1, <3>3 DEF Packet
            <4>2. QED  BY <1>1, <2>1, <3>1, <3>3, <4>1 DEF Inv, StagedInv, Promise
        <3>4. CASE call \notin {"ApplyMasquerade", "DeleteMasqueradeTable"}
            <4>1. next > 1
                BY <2>1, <3>1, <3>4 DEF Packet, Calls
            <4>2. QED  BY <1>1, <2>1, <3>1, <3>4, <4>1 DEF Inv, StagedInv, Promise, Calls
        <3>5. QED  BY <3>2, <3>3, <3>4
    <2>3. ~HasErrno(rest')
        BY <2>1 DEF HasErrno
    <2>4. \A d \in DOMAIN queue' : ~HasErrno(queue'[d])
        BY <1>1, <2>1 DEF HasErrno, Errno, Accepted
    <2>5. QED  BY <2>2, <2>3, <2>4 DEF Done
<1>4. QED  BY <1>1, <1>2, <1>3, HandledInv

LEMMA AbortInv ==
    ASSUME Inv, Abort
    PROVE  Inv'
<1>1. Handled(objects, answers) /\ ~Accepted
    BY DEF Abort
<1>2. objects \subseteq Objects /\ answers \in Seq(Seq(Messages))
    BY DEF Inv, TypeInv
<1>3. Undone'
    <2>1. PICK k \in DOMAIN answers : answers[k][1].errno # 0
        BY <1>1 DEF Accepted
    <2>2. PICK seq : seq = answers[k][1].seq
        OBVIOUS
    <2>3. /\ call' = call /\ queue' = answers
          /\ objects' = objects /\ objects = before /\ before' = before
          /\ rest' = <<>>
          /\ seq \in Want(call) /\ expected'[seq] = FALSE
          /\ \A d \in DOMAIN answers : DOMAIN answers[d] = {1}
          /\ \A d \in DOMAIN answers : answers[d][1].seq = seq => d = k
        BY <1>1, <2>2, AtTheEnd
    <2>4. \A d \in DOMAIN queue' : NoAck(queue'[d], seq)
        BY <2>1, <2>2, <2>3 DEF NoAck, Ack
    <2>5. NoAck(rest', seq)
        BY <2>3 DEF NoAck
    <2>6. Blocked(seq)'
        BY <2>3, <2>4, <2>5 DEF Blocked
    <2>7. QED  BY <2>3, <2>6 DEF Undone
<1>4. QED  BY <1>1, <1>2, <1>3, HandledInv

LEMMA CommitFailsInv ==
    ASSUME Inv, CommitFails
    PROVE  Inv'
<1> DEFINE report == <<Answer(1, 1)>>
<1>1. Handled(objects, <<report>> \o answers)
    BY DEF CommitFails
<1>2. objects \subseteq Objects /\ answers \in Seq(Seq(Messages))
    BY DEF Inv, TypeInv
<1>3. report \in Seq(Messages) /\ DOMAIN report = {1} /\ Errno(report[1])
    <2>1. report \in Seq(Messages)
        BY AnswerType
    <2>2. QED  BY <2>1 DEF Errno, Answer
<1> HIDE DEF report
<1>4. /\ <<report>> \o answers \in Seq(Seq(Messages))
      /\ 1 \in DOMAIN (<<report>> \o answers)
      /\ (<<report>> \o answers)[1] = report
    BY <1>2, <1>3
<1>5. Undone'
    <2>1. /\ call \in Calls /\ call' = call /\ queue' = <<report>> \o answers
          /\ objects' = objects /\ objects = before /\ before' = before
          /\ rest' = <<>>
          /\ \A seq \in Want(call) : expected'[seq] = FALSE
        BY <1>1, AtTheEnd
    <2>2. PICK seq \in Want(call) : TRUE
        BY <2>1, PacketFacts
    <2>3. HasErrno(queue'[1]) /\ NoAck(queue'[1], seq)
        BY <1>3, <1>4, <2>1 DEF HasErrno, NoAck, Ack, Errno
    <2>4. NoAck(rest', seq)
        BY <2>1 DEF NoAck
    <2>5. \A e \in 1 .. 1 : NoAck(queue'[e], seq)
        BY <2>3
    <2>6. Blocked(seq)'
        BY <1>4, <2>1, <2>3, <2>4, <2>5 DEF Blocked
    <2>7. QED  BY <2>1, <2>6 DEF Undone
<1>6. QED  BY <1>1, <1>2, <1>4, <1>5, HandledInv

-----------------------------------------------------------------------------
(***************************************************************************)
(* recvAcks and the socket                                                 *)
(***************************************************************************)
\* A step between two states of recvAcks: it must bring no error number to a
\* call that is done, and keep the others blocked.
LEMMA StepInv ==
    ASSUME Inv, pc = "recv", pc' = "recv", UNCHANGED kernel,
           queue' \in Seq(Seq(Messages)), rest' \in Seq(Messages),
           CountInv', DOMAIN expected' = DOMAIN expected,
           Done => ~HasErrno(rest') /\ \A d \in DOMAIN queue' : ~HasErrno(queue'[d]),
           \A seq \in Want(call) : Blocked(seq) => Blocked(seq)'
    PROVE  Inv'
<1>1. UNCHANGED <<objects, call, before, staged, next, answers>>
    BY DEF kernel, packet
<1>2. TypeInv'
    BY <1>1 DEF Inv, TypeInv
<1>3. CASE Done
    <2>1. Promise(call)'
        BY <1>1, <1>3 DEF Done, Promise
    <2>2. Done'
        BY <1>3, <2>1 DEF Done
    <2>3. QED
        BY <1>1, <1>2, <2>2 DEF Inv, AnswersInv, StagedInv, RecvInv, AnswerIsTrue
<1>4. CASE Undone
    <2>1. PICK seq \in Want(call) : Blocked(seq)
        BY <1>4 DEF Undone
    <2>2. Undone'
        BY <1>1, <1>4, <2>1 DEF Undone
    <2>3. QED
        BY <1>1, <1>2, <2>2 DEF Inv, AnswersInv, StagedInv, RecvInv, AnswerIsTrue
<1>5. QED  BY <1>3, <1>4 DEF Inv, RecvInv

LEMMA SameCount ==
    ASSUME Inv, UNCHANGED <<expected, got>>
    PROVE  CountInv' /\ DOMAIN expected' = DOMAIN expected
BY DEF Inv, CountInv, Acked

LEMMA AckedFinite ==
    ASSUME DOMAIN expected \subseteq 1 .. 5
    PROVE  IsFiniteSet(DOMAIN expected) /\ IsFiniteSet(Acked)
<1>1. 1 \in Int /\ 5 \in Int
    OBVIOUS
<1>2. IsFiniteSet(1 .. 5)
    BY <1>1, FS_Interval, Zenon
<1>3. Acked \in SUBSET (1 .. 5) /\ DOMAIN expected \in SUBSET (1 .. 5)
    BY DEF Acked
<1>4. QED  BY <1>2, <1>3, FS_Subset

LEMMA RecvStepInv ==
    ASSUME Inv, Recv
    PROVE  Inv'
<1>1. /\ pc = "recv" /\ pc' = "recv" /\ UNCHANGED kernel /\ UNCHANGED <<expected, got>>
      /\ rest = <<>> /\ rest' = Head(queue) /\ queue # <<>> /\ queue' = Tail(queue)
      /\ queue \in Seq(Seq(Messages))
    BY DEF Inv, TypeInv, Recv, Receiving
<1>2. /\ 1 \in DOMAIN queue /\ rest' = queue[1] /\ rest' \in Seq(Messages)
      /\ queue' \in Seq(Seq(Messages))
      /\ \A d \in DOMAIN queue' : d + 1 \in DOMAIN queue /\ queue'[d] = queue[d + 1]
      /\ \A d \in DOMAIN queue : d = 1 \/ d - 1 \in DOMAIN queue'
      /\ DOMAIN queue = 1 .. Len(queue) /\ Len(queue) \in Nat
      /\ DOMAIN queue' = 1 .. Len(queue) - 1
    BY <1>1
<1>3. CountInv' /\ DOMAIN expected' = DOMAIN expected
    BY <1>1, SameCount
<1>4. Done => ~HasErrno(rest') /\ \A d \in DOMAIN queue' : ~HasErrno(queue'[d])
    BY <1>2 DEF Done
<1>5. ASSUME NEW seq \in Want(call), Blocked(seq)
      PROVE  Blocked(seq)'
    <2>1. ~HasErrno(rest)
        BY <1>1 DEF HasErrno
    <2>2. CASE \A d \in DOMAIN queue : NoAck(queue[d], seq)
        BY <1>1, <1>2, <1>5, <2>2 DEF Blocked
    <2>3. CASE \E d \in DOMAIN queue :
                    HasErrno(queue[d]) /\ \A e \in 1 .. d : NoAck(queue[e], seq)
        <3>1. PICK d \in DOMAIN queue :
                    HasErrno(queue[d]) /\ \A e \in 1 .. d : NoAck(queue[e], seq)
            BY <2>3
        <3>2. NoAck(rest', seq)
            <4>1. 1 \in 1 .. d
                BY <1>2
            <4>2. QED  BY <1>2, <3>1, <4>1
        <3>3. CASE d = 1
            BY <1>1, <1>2, <1>5, <3>1, <3>2, <3>3 DEF Blocked
        <3>4. CASE d # 1
            <4>1. d - 1 \in DOMAIN queue' /\ HasErrno(queue'[d - 1])
                BY <1>2, <3>1, <3>4
            <4>2. ASSUME NEW e \in 1 .. d - 1 PROVE NoAck(queue'[e], seq)
                <5>1. e \in DOMAIN queue' /\ e + 1 \in 1 .. d
                    BY <1>2
                <5>2. QED  BY <1>2, <3>1, <5>1
            <4>3. QED  BY <1>1, <1>5, <3>2, <4>1, <4>2 DEF Blocked
        <3>5. QED  BY <3>3, <3>4
    <2>4. QED  BY <1>5, <2>1, <2>2, <2>3 DEF Blocked
<1>6. QED  BY <1>1, <1>2, <1>3, <1>4, <1>5, StepInv

\* What is left of a datagram after one of its messages.
LEMMA TailFacts ==
    ASSUME NEW S, NEW s \in Seq(S), s # <<>>
    PROVE  /\ Tail(s) \in Seq(S)
           /\ 1 \in DOMAIN s /\ Head(s) = s[1] /\ Head(s) \in S
           /\ \A k \in DOMAIN Tail(s) : k + 1 \in DOMAIN s /\ Tail(s)[k] = s[k + 1]
           /\ \A k \in DOMAIN s : k = 1 \/ (k - 1 \in DOMAIN Tail(s) /\ Tail(s)[k - 1] = s[k])
OBVIOUS

\* A message that is no error number is passed.
LEMMA PassInv ==
    ASSUME Inv, pc = "recv", rest # <<>>, ~Errno(Head(rest)),
           pc' = "recv", rest' = Tail(rest), UNCHANGED <<kernel, queue>>,
           CountInv', DOMAIN expected' = DOMAIN expected,
           \A seq \in Want(call) :
                expected[seq] = FALSE /\ ~Ack(Head(rest), seq) => expected'[seq] = FALSE
    PROVE  Inv'
<1>1. rest \in Seq(Messages) /\ queue \in Seq(Seq(Messages))
    BY DEF Inv, TypeInv
<1>2. /\ rest' \in Seq(Messages)
      /\ 1 \in DOMAIN rest /\ Head(rest) = rest[1]
      /\ \A k \in DOMAIN rest' : k + 1 \in DOMAIN rest /\ rest'[k] = rest[k + 1]
      /\ \A k \in DOMAIN rest : k = 1 \/ (k - 1 \in DOMAIN rest' /\ rest'[k - 1] = rest[k])
    BY <1>1, TailFacts
<1>3. HasErrno(rest') <=> HasErrno(rest)
    BY <1>2 DEF HasErrno
<1>4. \A seq : NoAck(rest, seq) => NoAck(rest', seq) /\ ~Ack(Head(rest), seq)
    BY <1>2 DEF NoAck
<1>5. Done => ~HasErrno(rest') /\ \A d \in DOMAIN queue' : ~HasErrno(queue'[d])
    BY <1>3 DEF Done
<1>6. \A seq \in Want(call) : Blocked(seq) => Blocked(seq)'
    BY <1>3, <1>4 DEF Blocked
<1>7. QED  BY <1>1, <1>2, <1>5, <1>6, StepInv

LEMMA MessageOtherInv ==
    ASSUME Inv, MessageOther
    PROVE  Inv'
<1>1. /\ pc = "recv" /\ pc' = "recv" /\ rest # <<>> /\ rest' = Tail(rest)
      /\ UNCHANGED <<kernel, queue>> /\ UNCHANGED <<expected, got>>
      /\ ~Errno(Head(rest))
    BY DEF MessageOther, Message, Errno
<1>2. CountInv' /\ DOMAIN expected' = DOMAIN expected
    BY <1>1, SameCount
<1>3. QED  BY <1>1, <1>2, PassInv

LEMMA MessageAckInv ==
    ASSUME Inv, MessageAck
    PROVE  Inv'
<1> DEFINE seq == Head(rest).seq
<1>1. /\ pc = "recv" /\ pc' = "recv" /\ rest # <<>> /\ rest' = Tail(rest)
      /\ UNCHANGED <<kernel, queue>>
      /\ ~Errno(Head(rest))
      /\ Ack(Head(rest), seq)
    BY DEF MessageAck, Message, Errno, Ack
<1>2. CASE ~Awaited(seq)
    <2>1. UNCHANGED <<expected, got>>
        BY <1>2 DEF MessageAck
    <2>2. CountInv' /\ DOMAIN expected' = DOMAIN expected
        BY <2>1, SameCount
    <2>3. QED  BY <1>1, <2>1, <2>2, PassInv
<1>3. CASE Awaited(seq)
    <2>1. /\ expected' = [expected EXCEPT ![seq] = TRUE] /\ got' = got + 1
          /\ seq \in DOMAIN expected /\ expected[seq] = FALSE
        BY <1>3 DEF MessageAck, Awaited
    <2>2. /\ expected \in [DOMAIN expected -> BOOLEAN]
          /\ DOMAIN expected \subseteq 1 .. 5
          /\ got = Cardinality(Acked)
        BY DEF Inv, CountInv
    <2> HIDE DEF seq
    <2>3. /\ expected' \in [DOMAIN expected' -> BOOLEAN] /\ DOMAIN expected' = DOMAIN expected
          /\ \A k \in DOMAIN expected : k # seq => expected'[k] = expected[k]
          /\ expected'[seq] = TRUE
        BY <2>1, <2>2
    <2>4. seq \notin Acked /\ Acked' = Acked \cup {seq}
        BY <2>1, <2>3 DEF Acked
    <2>5. IsFiniteSet(Acked)
        BY <2>2, AckedFinite
    <2>6. Cardinality(Acked') = Cardinality(Acked) + 1
        BY <2>4, <2>5, FS_AddElement
    <2>7. CountInv'
        BY <2>1, <2>2, <2>3, <2>6 DEF CountInv
    <2>8. \A k \in Want(call) :
            expected[k] = FALSE /\ ~Ack(Head(rest), k) => expected'[k] = FALSE
        BY <1>1, <2>1, <2>3 DEF Ack, seq, Inv, RecvInv
    <2>9. QED  BY <1>1, <2>3, <2>7, <2>8, PassInv
<1>4. QED  BY <1>2, <1>3

\* An error number is read only when the kernel has done nothing.
LEMMA MessageErrnoInv ==
    ASSUME Inv, MessageErrno
    PROVE  Inv'
<1>1. /\ pc = "recv" /\ pc' = "errno" /\ rest # <<>> /\ rest \in Seq(Messages)
      /\ UNCHANGED <<objects, call, before, staged, next, answers, queue, rest, expected, got>>
      /\ Errno(Head(rest))
    BY DEF Inv, TypeInv, MessageErrno, Message, Errno, kernel, packet
<1>2. HasErrno(rest)
    <2>1. 1 \in DOMAIN rest /\ Head(rest) = rest[1]
        BY <1>1, TailFacts
    <2>2. QED  BY <1>1, <2>1 DEF HasErrno
<1>3. objects = before
    BY <1>1, <1>2 DEF Inv, RecvInv, Done, Undone
<1>4. TypeInv'
    BY <1>1 DEF Inv, TypeInv
<1>5. CountInv'
    BY <1>1, SameCount
<1>6. QED
    BY <1>1, <1>3, <1>4, <1>5 DEF Inv, AnswersInv, StagedInv, RecvInv, AnswerIsTrue

\* All that is waited for is acknowledged only when the kernel has done it.
LEMMA RecvReturnsInv ==
    ASSUME Inv, RecvReturns
    PROVE  Inv'
<1>1. /\ pc = "recv" /\ pc' = "ok" /\ got >= Cardinality(DOMAIN expected)
      /\ UNCHANGED <<objects, call, before, staged, next, answers, queue, rest, expected, got>>
    BY DEF RecvReturns, kernel, packet
<1>2. Acked = DOMAIN expected
    <2>1. IsFiniteSet(DOMAIN expected) /\ Acked \in SUBSET DOMAIN expected
        BY AckedFinite DEF Inv, CountInv, Acked
    <2>2. /\ IsFiniteSet(Acked)
          /\ Cardinality(Acked) <= Cardinality(DOMAIN expected)
          /\ Cardinality(DOMAIN expected) = Cardinality(Acked) => DOMAIN expected = Acked
        BY <2>1, FS_Subset
    <2>3. Cardinality(Acked) \in Nat /\ Cardinality(DOMAIN expected) \in Nat
        BY <2>1, <2>2, FS_CardinalityType
    <2>4. got = Cardinality(Acked)
        BY DEF Inv, CountInv
    <2>5. QED  BY <1>1, <2>2, <2>3, <2>4
<1>3. ~Undone
    BY <1>1, <1>2 DEF Inv, RecvInv, Undone, Blocked, Acked
<1>4. Promise(call)'
    BY <1>1, <1>3 DEF Inv, RecvInv, Done, Promise
<1>5. TypeInv'
    BY <1>1 DEF Inv, TypeInv
<1>6. CountInv'
    BY <1>1, SameCount
<1>7. QED
    BY <1>1, <1>4, <1>5, <1>6 DEF Inv, AnswersInv, StagedInv, RecvInv, AnswerIsTrue

\* The error number that blocks seq waits in datagram d.
BlockedAt(seq, d) == HasErrno(queue[d]) /\ \A e \in 1 .. d : NoAck(queue[e], seq)

\* A datagram comes between the others.  It must have no acknowledgement of
\* what is blocked, unless it comes after the error number.
LEMMA InsertInv ==
    ASSUME Inv, pc = "recv",
           NEW datagram \in Seq(Messages), NEW at \in 1 .. Len(queue) + 1,
           queue' = InsertAt(queue, at, datagram),
           UNCHANGED <<kernel, rest, expected, got, pc>>,
           Done => ~HasErrno(datagram),
           \A seq \in Want(call) :
                Blocked(seq) => \/ NoAck(datagram, seq)
                                \/ HasErrno(rest)
                                \/ \E d \in 1 .. at - 1 : BlockedAt(seq, d)
    PROVE  Inv'
<1>1. /\ queue \in Seq(Seq(Messages)) /\ rest \in Seq(Messages)
      /\ UNCHANGED <<rest, expected, got>> /\ pc' = "recv" /\ UNCHANGED kernel
    BY DEF Inv, TypeInv
<1>2. /\ queue' \in Seq(Seq(Messages)) /\ Len(queue') = Len(queue) + 1
      /\ \A x \in 1 .. at - 1 : queue'[x] = queue[x]
      /\ queue'[at] = datagram
      /\ \A x \in at .. Len(queue) : queue'[x + 1] = queue[x]
    <2> DEFINE inserted == InsertAt(queue, at, datagram)
    <2>1. /\ inserted \in Seq(Seq(Messages)) /\ Len(inserted) = Len(queue) + 1
          /\ \A x \in 1 .. at - 1 : inserted[x] = queue[x]
          /\ inserted[at] = datagram
          /\ \A x \in at .. Len(queue) : inserted[x + 1] = queue[x]
        BY <1>1, InsertFacts DEF Datagrams
    <2>2. queue' = inserted
        OBVIOUS
    <2> HIDE DEF inserted
    <2>3. QED  BY <2>1, <2>2
<1>3. /\ Len(queue) \in Nat
      /\ DOMAIN queue = 1 .. Len(queue)
      /\ DOMAIN queue' = 1 .. Len(queue) + 1
    BY <1>1, <1>2
<1>4. CountInv' /\ DOMAIN expected' = DOMAIN expected
    BY <1>1, SameCount
<1>5. ASSUME NEW x \in 1 .. Len(queue) + 1
      PROVE  \/ x = at /\ queue'[x] = datagram
             \/ x \in 1 .. at - 1 /\ x \in DOMAIN queue /\ queue'[x] = queue[x]
             \/ x > at /\ x - 1 \in DOMAIN queue /\ queue'[x] = queue[x - 1]
    <2>1. CASE x > at
        <3>1. x - 1 \in at .. Len(queue) /\ x = (x - 1) + 1
            BY <1>3, <2>1
        <3>2. QED  BY <1>2, <1>3, <2>1, <3>1
    <2>2. CASE x <= at
        BY <1>2, <1>3, <2>2
    <2>3. QED  BY <2>1, <2>2, <1>3
<1>6. Done => ~HasErrno(rest') /\ \A d \in DOMAIN queue' : ~HasErrno(queue'[d])
    BY <1>1, <1>3, <1>5 DEF Done
<1>7. ASSUME NEW seq \in Want(call), Blocked(seq)
      PROVE  Blocked(seq)'
    <2>1. expected'[seq] = FALSE /\ NoAck(rest', seq)
        BY <1>1, <1>7 DEF Blocked
    <2>2. CASE HasErrno(rest)
        BY <1>1, <2>1, <2>2 DEF Blocked
    <2>3. CASE \E d \in 1 .. at - 1 : BlockedAt(seq, d)
        <3>1. PICK d \in 1 .. at - 1 : BlockedAt(seq, d)
            BY <2>3
        <3>2. d \in DOMAIN queue' /\ HasErrno(queue'[d])
            BY <1>2, <1>3, <3>1 DEF BlockedAt
        <3>3. ASSUME NEW e \in 1 .. d PROVE NoAck(queue'[e], seq)
            <4>1. e \in 1 .. at - 1
                BY <1>3
            <4>2. QED  BY <1>2, <3>1, <4>1 DEF BlockedAt
        <3>4. QED  BY <2>1, <3>2, <3>3 DEF Blocked
    <2>4. CASE NoAck(datagram, seq) /\ \A d \in DOMAIN queue : NoAck(queue[d], seq)
        <3>1. \A d \in DOMAIN queue' : NoAck(queue'[d], seq)
            BY <1>3, <1>5, <2>4
        <3>2. QED  BY <2>1, <3>1 DEF Blocked
    <2>5. CASE NoAck(datagram, seq) /\ \E d \in at .. Len(queue) : BlockedAt(seq, d)
        <3>1. PICK d \in at .. Len(queue) : BlockedAt(seq, d)
            BY <2>5
        <3>2. d + 1 \in DOMAIN queue' /\ HasErrno(queue'[d + 1])
            BY <1>2, <1>3, <3>1 DEF BlockedAt
        <3>3. ASSUME NEW e \in 1 .. d + 1 PROVE NoAck(queue'[e], seq)
            <4>1. e \in 1 .. Len(queue) + 1
                BY <1>3
            <4>2. CASE e = at
                BY <1>2, <2>5, <4>2
            <4>3. CASE e \in 1 .. at - 1
                <5>1. e \in 1 .. d
                    BY <1>3, <4>3
                <5>2. QED  BY <1>2, <3>1, <4>3, <5>1 DEF BlockedAt
            <4>4. CASE e > at
                <5>1. e - 1 \in 1 .. d
                    BY <1>3, <4>4
                <5>2. queue'[e] = queue[e - 1]
                    BY <1>3, <1>5, <4>1, <4>4
                <5>3. QED  BY <3>1, <5>1, <5>2 DEF BlockedAt
            <4>5. QED  BY <1>3, <4>1, <4>2, <4>3, <4>4
        <3>4. QED  BY <2>1, <3>2, <3>3 DEF Blocked
    <2>6. \/ HasErrno(rest)
          \/ \A d \in DOMAIN queue : NoAck(queue[d], seq)
          \/ \E d \in DOMAIN queue : BlockedAt(seq, d)
        BY <1>7 DEF Blocked, BlockedAt
    <2>7. QED
        BY <1>3, <1>7, <2>2, <2>3, <2>4, <2>5, <2>6
<1>8. QED  BY <1>1, <1>2, <1>4, <1>6, <1>7, StepInv

LEMMA ForeignFacts ==
    ASSUME NEW m \in Foreign, NEW c \in Calls
    PROVE  /\ m \in Messages
           /\ ~Errno(m)
           /\ \A seq \in Want(c) : ~Ack(m, seq)
<1>1. Want(c) \subseteq 1 .. 5
    BY PacketFacts
<1>2. QED  BY <1>1 DEF Foreign, Answer, Messages, Errno, Ack

LEMMA InterfereInv ==
    ASSUME Inv, Interfere
    PROVE  Inv'
<1>1. PICK m \in Foreign, at \in 1 .. Len(queue) + 1 :
        \/ queue' = InsertAt(queue, at, <<m>>)
        \/ at <= Len(queue) /\ queue' = [queue EXCEPT ![at] = <<m>> \o @]
    BY DEF Interfere
<1>2. /\ pc = "recv" /\ pc' = "recv" /\ UNCHANGED <<kernel, rest, expected, got, pc>>
      /\ call \in Calls /\ queue \in Seq(Seq(Messages)) /\ rest \in Seq(Messages)
    BY DEF Interfere, Inv, TypeInv
<1>3. /\ m \in Messages /\ ~Errno(m)
      /\ \A seq \in Want(call) : ~Ack(m, seq)
    BY <1>2, ForeignFacts
<1>4. /\ <<m>> \in Seq(Messages)
      /\ ~HasErrno(<<m>>)
      /\ \A seq \in Want(call) : NoAck(<<m>>, seq)
    BY <1>3 DEF HasErrno, NoAck
<1>5. CASE queue' = InsertAt(queue, at, <<m>>)
    BY <1>2, <1>4, <1>5, InsertInv
<1>6. CASE at <= Len(queue) /\ queue' = [queue EXCEPT ![at] = <<m>> \o @]
    <2>1. queue[at] \in Seq(Messages) /\ at \in DOMAIN queue /\ DOMAIN queue = 1 .. Len(queue)
        BY <1>2, <1>6
    <2>2. /\ DOMAIN queue' = DOMAIN queue
          /\ \A d \in DOMAIN queue : d # at => queue'[d] = queue[d]
          /\ queue'[at] = <<m>> \o queue[at]
        BY <1>2, <1>6, <2>1
    <2>3. <<m>> \o queue[at] \in Seq(Messages)
        BY <1>4, <2>1
    <2>4. queue' \in Seq(Seq(Messages))
        BY <1>2, <1>6, <2>1, <2>3
    <2>5. /\ \A k \in DOMAIN queue[at] :
                k + 1 \in DOMAIN queue'[at] /\ queue'[at][k + 1] = queue[at][k]
          /\ \A k \in DOMAIN queue'[at] :
                \/ queue'[at][k] = m
                \/ k - 1 \in DOMAIN queue[at] /\ queue'[at][k] = queue[at][k - 1]
        BY <1>4, <2>1, <2>2
    <2>6. /\ \A d \in DOMAIN queue : HasErrno(queue'[d]) <=> HasErrno(queue[d])
          /\ \A d \in DOMAIN queue, seq \in Want(call) :
                NoAck(queue'[d], seq) <=> NoAck(queue[d], seq)
        <3>1. HasErrno(queue'[at]) <=> HasErrno(queue[at])
            BY <1>3, <2>5, Zenon DEF HasErrno
        <3>2. \A seq \in Want(call) : NoAck(queue'[at], seq) <=> NoAck(queue[at], seq)
            BY <1>3, <2>5, Zenon DEF NoAck
        <3>3. QED  BY <2>2, <3>1, <3>2
    <2>7. Done => ~HasErrno(rest') /\ \A d \in DOMAIN queue' : ~HasErrno(queue'[d])
        BY <1>2, <2>2, <2>6 DEF Done
    <2>8. ASSUME NEW seq \in Want(call), Blocked(seq)
          PROVE  Blocked(seq)'
        <3>1. expected'[seq] = FALSE /\ NoAck(rest', seq)
            BY <1>2, <2>8 DEF Blocked
        <3>2. ASSUME NEW d \in DOMAIN queue, \A e \in 1 .. d : NoAck(queue[e], seq)
              PROVE  \A e \in 1 .. d : NoAck(queue'[e], seq)
            <4>1. \A e \in 1 .. d : e \in DOMAIN queue
                BY <1>2, <2>1
            <4>2. QED  BY <2>6, <3>2, <4>1
        <3>3. QED  BY <1>2, <2>2, <2>6, <2>8, <3>1, <3>2 DEF Blocked
    <2>9. CountInv' /\ DOMAIN expected' = DOMAIN expected
        BY <1>2, SameCount
    <2>10. QED  BY <1>2, <2>4, <2>7, <2>8, <2>9, StepInv
<1>7. QED  BY <1>1, <1>5, <1>6

LEMMA RepeatInv ==
    ASSUME Inv, Repeat
    PROVE  Inv'
<1>1. PICK k \in DOMAIN queue, at \in 1 .. Len(queue) + 1 :
            k < at /\ queue' = InsertAt(queue, at, queue[k])
    BY DEF Repeat
<1>2. /\ pc = "recv" /\ UNCHANGED <<kernel, rest, expected, got, pc>>
      /\ queue \in Seq(Seq(Messages))
    BY DEF Repeat, Inv, TypeInv
<1>3. queue[k] \in Seq(Messages) /\ DOMAIN queue = 1 .. Len(queue) /\ Len(queue) \in Nat
    BY <1>2
<1>4. Done => ~HasErrno(queue[k])
    BY DEF Done
<1>5. ASSUME NEW seq \in Want(call), Blocked(seq)
      PROVE  \/ NoAck(queue[k], seq)
             \/ HasErrno(rest)
             \/ \E d \in 1 .. at - 1 : BlockedAt(seq, d)
    <2>1. ASSUME NEW d \in DOMAIN queue, BlockedAt(seq, d)
          PROVE  NoAck(queue[k], seq) \/ d \in 1 .. at - 1
        <3>1. CASE d < at
            BY <1>3, <3>1
        <3>2. CASE d >= at
            <4>1. k \in 1 .. d
                BY <1>1, <1>3, <3>2
            <4>2. QED  BY <2>1, <4>1 DEF BlockedAt
        <3>3. QED  BY <1>3, <3>1, <3>2
    <2>2. QED  BY <1>5, <2>1 DEF Blocked, BlockedAt
<1>6. QED  BY <1>1, <1>2, <1>3, <1>4, <1>5, InsertInv

LEMMA LoseInv ==
    ASSUME Inv, Lose
    PROVE  Inv'
<1>1. PICK at \in DOMAIN queue : queue' = SubSeq(queue, 1, at - 1)
    BY DEF Lose
<1>2. /\ pc = "recv" /\ pc' = "recv" /\ UNCHANGED kernel /\ UNCHANGED <<rest, expected, got>>
      /\ queue \in Seq(Seq(Messages)) /\ rest \in Seq(Messages)
    BY DEF Lose, Inv, TypeInv
<1>3. /\ queue' \in Seq(Seq(Messages)) /\ at \in Nat
      /\ DOMAIN queue = 1 .. Len(queue) /\ Len(queue) \in Nat
      /\ DOMAIN queue' = 1 .. at - 1
      /\ \A d \in 1 .. at - 1 : d \in DOMAIN queue /\ queue'[d] = queue[d]
    BY <1>1, <1>2
<1>4. Done => ~HasErrno(rest') /\ \A d \in DOMAIN queue' : ~HasErrno(queue'[d])
    BY <1>2, <1>3 DEF Done
<1>5. ASSUME NEW seq \in Want(call), Blocked(seq)
      PROVE  Blocked(seq)'
    <2>1. expected'[seq] = FALSE /\ NoAck(rest', seq)
        BY <1>2, <1>5 DEF Blocked
    <2>2. CASE HasErrno(rest) \/ \A d \in DOMAIN queue : NoAck(queue[d], seq)
        BY <1>2, <1>3, <2>1, <2>2 DEF Blocked
    <2>3. ASSUME NEW d \in DOMAIN queue, BlockedAt(seq, d)
          PROVE  Blocked(seq)'
        <3>1. CASE d < at
            <4>1. d \in DOMAIN queue' /\ HasErrno(queue'[d])
                BY <1>3, <2>3, <3>1 DEF BlockedAt
            <4>2. \A e \in 1 .. d : NoAck(queue'[e], seq)
                BY <1>3, <2>3, <3>1 DEF BlockedAt
            <4>3. QED  BY <2>1, <4>1, <4>2 DEF Blocked
        <3>2. CASE d >= at
            <4>1. \A e \in DOMAIN queue' : NoAck(queue'[e], seq)
                BY <1>3, <2>3, <3>2 DEF BlockedAt
            <4>2. QED  BY <2>1, <4>1 DEF Blocked
        <3>3. QED  BY <1>3, <3>1, <3>2
    <2>4. QED  BY <1>5, <2>2, <2>3 DEF Blocked, BlockedAt
<1>6. CountInv' /\ DOMAIN expected' = DOMAIN expected
    BY <1>2, SameCount
<1>7. QED  BY <1>2, <1>3, <1>4, <1>5, <1>6, StepInv

-----------------------------------------------------------------------------
(***************************************************************************)
(* The theorems                                                            *)
(***************************************************************************)
LEMMA NextInv == Inv /\ [Next]_vars => Inv'
<1> SUFFICES ASSUME Inv, [Next]_vars PROVE Inv'
    OBVIOUS
<1>1. CASE UNCHANGED vars
    <2>1. TypeInv' /\ CountInv'
        BY <1>1 DEF vars, Inv, TypeInv, CountInv, Acked
    <2>2. AnswersInv' /\ StagedInv'
        BY <1>1 DEF vars, Inv, AnswersInv, StagedInv, Accepted
    <2>3. RecvInv'
        BY <1>1 DEF vars, Inv, RecvInv, Done, Undone, Blocked, HasErrno, NoAck, Promise
    <2>4. AnswerIsTrue'
        BY <1>1 DEF vars, Inv, AnswerIsTrue, Promise
    <2>5. QED  BY <2>1, <2>2, <2>3, <2>4 DEF Inv
<1>2. CASE \E c \in Calls : Send(c)
    BY <1>2, SendInv
<1>3. CASE (\E c \in Calls : SendFails(c)) \/ RecvFails \/ Timeout \/ MessageMalformed
    BY <1>3, FailsInv
<1>4. CASE Kernel
    BY <1>4, HandleInv, CommitInv, AbortInv, CommitFailsInv DEF Kernel
<1>5. CASE Recv \/ RecvReturns \/ MessageOther \/ MessageErrno \/ MessageAck
    BY <1>5, RecvStepInv, RecvReturnsInv, MessageOtherInv, MessageErrnoInv, MessageAckInv
<1>6. CASE Interfere \/ Repeat \/ Lose
    BY <1>6, InterfereInv, RepeatInv, LoseInv
<1>7. QED
    BY <1>1, <1>2, <1>3, <1>4, <1>5, <1>6 DEF Next, RecvAcks, Terminated

LEMMA InvHolds == Spec => []Inv
BY InitInv, NextInv, PTL DEF Spec

(***************************************************************************)
(* The variables keep their types, and recvAcks counts the numbers that    *)
(* are acknowledged, each once.                                            *)
(***************************************************************************)
THEOREM NetlinkTyping == Spec => []TypeOK
<1>1. Inv => TypeOK
    BY DEF Inv, TypeInv, CountInv, Acked, TypeOK, Objects
<1>2. QED  BY InvHolds, <1>1, PTL

(***************************************************************************)
(* What a call says is true: nil when the kernel has done all that was     *)
(* asked, an error number when it has done nothing.                        *)
(***************************************************************************)
THEOREM AnswersAreTrue == Spec => []AnswerIsTrue
<1>1. Inv => AnswerIsTrue
    BY DEF Inv
<1>2. QED  BY InvHolds, <1>1, PTL
=============================================================================
