------------------------------ MODULE Netlink -------------------------------
(***************************************************************************)
(* The requests that change the kernel's routes and nftables: a packet of  *)
(* one message, or a batch of several, and recvAcks, which collects the    *)
(* acknowledgements.  A message is identified by its sequence number, its  *)
(* place in the packet.                                                    *)
(*                                                                         *)
(* The kernel works through a packet inside Sendto, message by message.    *)
(* The messages of a batch take effect together or not at all, and are     *)
(* answered one by one.  Answers may be lost, come twice, or be mixed with *)
(* messages of others.                                                     *)
(***************************************************************************)
EXTENDS Integers, Sequences, FiniteSets, SequencesExt

CONSTANTS
    MaxCalls,       \* bound: how many requests are made
    MaxNoise        \* bound: datagrams per request that are not its answers

ASSUME NetlinkAssumption == MaxCalls \in Nat /\ MaxNoise \in Nat

Masquerading == {"table", "chain", "rule"}

VARIABLES
    objects,    \* the kernel: what of the rules and routes exists
    call,       \* the call in progress, or the last one
    before,     \* history: objects when it began
    staged,     \* the kernel: objects as the packet leaves them so far
    next,       \* the kernel: the message it comes to next
    answers,    \* the kernel: the answers to those before it, as datagrams
    queue,      \* the datagrams waiting in the socket
    rest,       \* recvAcks: what is unread of the datagram in buf
    expected,   \* recvAcks: sequence number -> has it been acknowledged
    got,        \* recvAcks: how many have
    pc,         \* "idle", "send", "recv", "ok", "errno" or "error"
    noise,      \* datagrams of others so far
    calls       \* requests so far

vars == <<objects, call, before, staged, next, answers,
          queue, rest, expected, got, pc, noise, calls>>
packet == <<staged, next, answers>>
kernel == <<objects, call, before, packet, calls>>

-----------------------------------------------------------------------------
(***************************************************************************)
(* Packets: the messages in order.  seq is the place in the packet.        *)
(***************************************************************************)
Calls == {"ApplyMasquerade", "DeleteMasqueradeTable", "AddHostRoute",
          "DelHostRoute", "ReplaceDefaultRoute", "RestoreDefaultRoute"}

Packet(c) ==
    CASE c = "ApplyMasquerade"       -> <<"begin", "newtable", "newchain", "newrule", "end">>
      [] c = "DeleteMasqueradeTable" -> <<"begin", "deltable", "end">>
      [] c = "AddHostRoute"          -> <<"newhost">>
      [] c = "DelHostRoute"          -> <<"delhost">>
      [] c = "ReplaceDefaultRoute"   -> <<"viatun">>
      [] c = "RestoreDefaultRoute"   -> <<"viagateway">>

\* batchMsg sets no NLM_F_ACK, the others do.
Asks(message) == message \notin {"begin", "end"}

\* Mutant: only the first message of a batch is waited for.
MutWant(c) == IF Len(Packet(c)) = 1 THEN {1} ELSE {2}

\* The sequence numbers given to recvAcks.
Want(c) ==
    CASE c = "ApplyMasquerade"       -> {2, 3, 4}
      [] c = "DeleteMasqueradeTable" -> {2}
      [] OTHER                       -> {1}

-----------------------------------------------------------------------------
(***************************************************************************)
(* The kernel                                                              *)
(***************************************************************************)
\* What a message needs, and what it leaves: NLM_F_CREATE and NLM_F_EXCL
\* want the object to be new, NLM_F_REPLACE takes it as it is.
Valid(message, objs) ==
    CASE message = "newtable" -> "table" \notin objs
      [] message = "newchain" -> "table" \in objs /\ "chain" \notin objs
      [] message = "newrule"  -> "chain" \in objs
      [] message = "deltable" -> "table" \in objs
      [] message = "newhost"  -> "host" \notin objs
      [] message = "delhost"  -> "host" \in objs
      [] OTHER                -> TRUE

Effect(message, objs) ==
    CASE message = "newtable"   -> objs \cup {"table"}
      [] message = "newchain"   -> objs \cup {"chain"}
      [] message = "newrule"    -> objs \cup {"rule"}
      [] message = "deltable"   -> objs \ Masquerading
      [] message = "newhost"    -> objs \cup {"host"}
      [] message = "delhost"    -> objs \ {"host"}
      [] message = "viatun"     -> objs \cup {"viatun"}
      [] message = "viagateway" -> objs \ {"viatun"}
      [] OTHER                  -> objs

Answer(seq, errno) == [type |-> "NLMSG_ERROR", seq |-> seq, errno |-> errno]

\* The next message, on what those before it have left.  One that is not
\* valid, or is refused, has no effect; errno is 0 for success.
Handle ==
    /\ pc = "send"
    /\ next <= Len(Packet(call))
    /\ LET message == Packet(call)[next]
       IN  \E errno \in {0, 1} :
            /\ errno = 0 => Valid(message, staged)
            /\ errno = 1 => Asks(message)
            /\ staged' = IF errno = 0 THEN Effect(message, staged) ELSE staged
            /\ answers' = IF Asks(message) THEN Append(answers, <<Answer(next, errno)>>)
                                           ELSE answers
    /\ next' = next + 1
    /\ UNCHANGED <<objects, call, before, queue, rest, expected, got, pc, noise, calls>>

Accepted == \A k \in DOMAIN answers : answers[k][1].errno = 0

\* The end of the packet: the answers go to the socket.
Handled(objs, datagrams) ==
    /\ pc = "send"
    /\ next > Len(Packet(call))
    /\ objects' = objs
    /\ queue' = datagrams
    /\ pc' = "recv"
    /\ staged' = {} /\ answers' = <<>>
    /\ UNCHANGED <<call, before, next, rest, expected, got, noise, calls>>

Commit == Accepted /\ Handled(staged, answers)

\* A failed message undoes the others.
Abort == ~Accepted /\ Handled(objects, answers)

\* So does a failure to commit the batch, which is reported under the
\* number of its first message and before the answers.
CommitFails ==
    /\ Accepted /\ Len(Packet(call)) > 1
    /\ Handled(objects, <<<<Answer(1, 1)>>>> \o answers)

-----------------------------------------------------------------------------
(***************************************************************************)
(* The calls                                                               *)
(***************************************************************************)
Init ==
    /\ objects = {}
    /\ call = "AddHostRoute"
    /\ before = {}
    /\ staged = {}
    /\ next = 1
    /\ answers = <<>>
    /\ queue = <<>>
    /\ rest = <<>>
    /\ expected = <<>>
    /\ got = 0
    /\ pc = "idle"
    /\ noise = 0
    /\ calls = 0

\* A socket of its own, Sendto, and the beginning of recvAcks.
Send(c) ==
    /\ pc \notin {"send", "recv"}
    /\ calls < MaxCalls
    /\ calls' = calls + 1
    /\ call' = c
    /\ before' = objects
    /\ staged' = objects
    /\ next' = 1
    /\ answers' = <<>>
    /\ queue' = <<>>
    /\ rest' = <<>>
    /\ expected' = [seq \in Want(c) |-> FALSE]
    /\ got' = 0
    /\ noise' = 0
    /\ pc' = "send"
    /\ UNCHANGED objects

\* openNetlink or Sendto fails: nothing has reached the kernel.
SendFails(c) ==
    /\ pc \notin {"send", "recv"}
    /\ calls < MaxCalls
    /\ calls' = calls + 1
    /\ call' = c
    /\ before' = objects
    /\ pc' = "error"
    /\ queue' = <<>> /\ rest' = <<>>
    /\ UNCHANGED <<objects, packet, expected, got, noise>>

-----------------------------------------------------------------------------
(***************************************************************************)
(* recvAcks                                                                *)
(***************************************************************************)
\* The outer loop calls Recvfrom.
Receiving ==
    /\ pc = "recv"
    /\ rest = <<>>
    /\ got < Cardinality(DOMAIN expected)

Recv ==
    /\ Receiving
    /\ queue # <<>>
    /\ queue' = Tail(queue)
    /\ rest' = Head(queue)
    /\ UNCHANGED <<kernel, expected, got, pc, noise>>

Message(type) == pc = "recv" /\ rest # <<>> /\ Head(rest).type = type

\* A length that does not fit.
MessageMalformed ==
    /\ Message("malformed")
    /\ pc' = "error"
    /\ UNCHANGED <<kernel, queue, rest, expected, got, noise>>

MessageOther ==
    /\ Message("other")
    /\ rest' = Tail(rest)
    /\ UNCHANGED <<kernel, queue, expected, got, pc, noise>>

\* An error number ends it whatever message it is for.
MessageErrno ==
    /\ Message("NLMSG_ERROR")
    /\ Head(rest).errno # 0
    /\ pc' = "errno"
    /\ UNCHANGED <<kernel, queue, rest, expected, got, noise>>

\* Mutant: an acknowledgement that comes twice counts twice.
MutAwaited(seq) == seq \in DOMAIN expected

Awaited(seq) == seq \in DOMAIN expected /\ expected[seq] = FALSE

MessageAck ==
    /\ Message("NLMSG_ERROR")
    /\ Head(rest).errno = 0
    /\ rest' = Tail(rest)
    /\ LET seq == Head(rest).seq
       IN  \/ /\ Awaited(seq)
              /\ expected' = [expected EXCEPT ![seq] = TRUE]
              /\ got' = got + 1
           \/ /\ ~Awaited(seq)
              /\ UNCHANGED <<expected, got>>
    /\ UNCHANGED <<kernel, queue, pc, noise>>

\* The datagram is read and all is acknowledged: recvAcks returns nil.
RecvReturns ==
    /\ pc = "recv"
    /\ rest = <<>>
    /\ got >= Cardinality(DOMAIN expected)
    /\ pc' = "ok"
    /\ UNCHANGED <<kernel, queue, rest, expected, got, noise>>

\* Mutant: no SO_RCVTIMEO.
MutTimeout == FALSE /\ UNCHANGED vars

\* SO_RCVTIMEO: five seconds without a datagram.
Timeout ==
    /\ Receiving
    /\ queue = <<>>
    /\ pc' = "error"
    /\ UNCHANGED <<kernel, queue, rest, expected, got, noise>>

-----------------------------------------------------------------------------
(***************************************************************************)
(* The socket.  A datagram of others comes between the answers, or goes    *)
(* before one of them in its datagram: a message of another type, one that *)
(* is cut short, an acknowledgement of nothing that was sent; or an answer *)
(* comes twice.  None of them has an error number, with which recvAcks     *)
(* would end: each call has a socket of its own, and the kernel sends the  *)
(* errors of other requests to other sockets.  The receive buffer is full  *)
(* and the later answers are lost: the kernel keeps their order.           *)
(***************************************************************************)
Foreign == {[type |-> "other", seq |-> 2, errno |-> 0],
            [type |-> "malformed", seq |-> 2, errno |-> 0],
            Answer(9, 0)}

Interfere ==
    /\ pc = "recv"
    /\ noise < MaxNoise
    /\ noise' = noise + 1
    /\ \E m \in Foreign, at \in 1 .. Len(queue) + 1 :
        \/ queue' = InsertAt(queue, at, <<m>>)
        \/ at <= Len(queue) /\ queue' = [queue EXCEPT ![at] = <<m>> \o @]
    /\ UNCHANGED <<kernel, rest, expected, got, pc>>

Repeat ==
    /\ pc = "recv"
    /\ noise < MaxNoise
    /\ noise' = noise + 1
    /\ \E k \in DOMAIN queue, at \in 1 .. Len(queue) + 1 :
        k < at /\ queue' = InsertAt(queue, at, queue[k])
    /\ UNCHANGED <<kernel, rest, expected, got, pc>>

Lose ==
    /\ pc = "recv"
    /\ \E at \in DOMAIN queue : queue' = SubSeq(queue, 1, at - 1)
    /\ UNCHANGED <<kernel, rest, expected, got, pc, noise>>

\* ENOBUFS, or another error of Recvfrom.
RecvFails ==
    /\ Receiving
    /\ pc' = "error"
    /\ UNCHANGED <<kernel, queue, rest, expected, got, noise>>

-----------------------------------------------------------------------------
\* No call is left.
Terminated ==
    /\ pc \notin {"send", "recv"} /\ calls = MaxCalls
    /\ UNCHANGED vars

Kernel == Handle \/ Commit \/ Abort \/ CommitFails

RecvAcks ==
    \/ Recv \/ RecvReturns
    \/ MessageMalformed \/ MessageOther \/ MessageErrno \/ MessageAck

Next ==
    \/ \E c \in Calls : Send(c) \/ SendFails(c)
    \/ Kernel
    \/ RecvAcks \/ RecvFails \/ Timeout
    \/ Interfere \/ Repeat \/ Lose
    \/ Terminated

Spec == Init /\ [][Next]_vars

(***************************************************************************)
(* The kernel comes to the end of the packet, and Recvfrom returns: with a *)
(* datagram, or after five seconds.                                        *)
(***************************************************************************)
FairSpec == Spec /\ WF_vars(Kernel) /\ WF_vars(RecvAcks) /\ WF_vars(Timeout)

-----------------------------------------------------------------------------
(***************************************************************************)
(* Type invariant.                                                         *)
(***************************************************************************)
TypeOK ==
    /\ objects \subseteq Masquerading \cup {"host", "viatun"}
    /\ before \subseteq Masquerading \cup {"host", "viatun"}
    /\ staged \subseteq Masquerading \cup {"host", "viatun"}
    /\ call \in Calls
    /\ DOMAIN expected \subseteq 1 .. 5
    /\ \A seq \in DOMAIN expected : expected[seq] \in BOOLEAN
    /\ got = Cardinality({seq \in DOMAIN expected : expected[seq] = TRUE})
    /\ pc \in {"idle", "send", "recv", "ok", "errno", "error"}

\* What a call promises when it returns nil.
Promise(c) ==
    CASE c = "ApplyMasquerade"       -> Masquerading \subseteq objects
      [] c = "DeleteMasqueradeTable" -> objects \cap Masquerading = {}
      [] c = "AddHostRoute"          -> "host" \in objects
      [] c = "DelHostRoute"          -> "host" \notin objects
      [] c = "ReplaceDefaultRoute"   -> "viatun" \in objects
      [] c = "RestoreDefaultRoute"   -> "viatun" \notin objects

(***************************************************************************)
(* The answer of a call is true.  nil means that the kernel has done all   *)
(* that was asked, whichever answers were lost or repeated, and with the   *)
(* messages of Foreign among them; an error number means that it has done  *)
(* nothing, not even a part of a batch.  The component manager relies on   *)
(* both.                                                                   *)
(***************************************************************************)
AnswerIsTrue ==
    /\ pc = "ok" => Promise(call)
    /\ pc = "errno" => objects = before

(***************************************************************************)
(* Every call returns, also when the kernel's answers are lost.            *)
(***************************************************************************)
CallReturns == pc = "send" ~> pc \notin {"send", "recv"}
=============================================================================
