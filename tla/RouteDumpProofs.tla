-------------------------- MODULE RouteDumpProofs ---------------------------
(***************************************************************************)
(* Theorems about GetDefaultRoute, for every routing table, every number   *)
(* of datagrams and of messages of others.                                 *)
(*                                                                         *)
(* Every datagram is cut into messages, and recvDefaultRoute, which adds   *)
(* the length a message tells to its position, always stands at a cut.     *)
(* Only a datagram with routes is long enough to overwrite a gateway.      *)
(***************************************************************************)
EXTENDS RouteDump, FiniteSetTheorems, SequenceTheorems, TLAPS

\* The words a datagram is made of.
Kinds == {"skip", "value", "rtmsg", "RTM_NEWROUTE", "NLMSG_DONE", "NLMSG_ERROR",
          "RTA_PRIORITY", "RTA_GATEWAY", "RTA_OIF"}
Words == Kinds \X Int \X Int

\* What the three places of a word hold.
LEMMA WordFacts ==
    \A a \in Kinds, b, c \in Int :
        /\ Word(a, b, c) \in Words
        /\ Word(a, b, c)[1] = a /\ Word(a, b, c)[2] = b /\ Word(a, b, c)[3] = c
  BY DEF Word, Words, Kinds

LEMMA SkipFacts == Skip \in Words
  BY DEF Skip, Word, Words, Kinds

LEMMA ValueFacts == \A v \in Int : Value(v) \in Words /\ Value(v)[2] = v
  BY DEF Value, Word, Words, Kinds

\* Where the words of s and of t are in s \o t.
LEMMA Concat ==
    ASSUME NEW s \in Seq(Words), NEW t \in Seq(Words)
    PROVE  /\ s \o t \in Seq(Words) /\ Len(s \o t) = Len(s) + Len(t)
           /\ \A k \in 1 .. Len(s) : (s \o t)[k] = s[k]
           /\ \A k \in 1 .. Len(t) : (s \o t)[Len(s) + k] = t[k]
  OBVIOUS

\* A header has four words, and the first says what the message is.
LEMMA HeaderFacts ==
    ASSUME NEW type \in Kinds, NEW len \in Int, NEW seq \in Int
    PROVE  /\ Header(type, len, seq) \in Seq(Words) /\ Len(Header(type, len, seq)) = 4
           /\ Header(type, len, seq)[1] = Word(type, len, seq)
  <1>1. Word(type, len, seq) \in Words
    BY WordFacts
  <1>2. QED
    BY <1>1, SkipFacts DEF Header

\* Where the attributes of a route are, with a gateway and without one.
LEMMA AttrFacts ==
    ASSUME NEW r \in Routes
    PROVE  /\ Attrs(r) \in Seq(Words)
           /\ Attrs(r)[1] = Word("RTA_PRIORITY", 2, 0)
           /\ r.gw = 0 => /\ Len(Attrs(r)) = 4
                          /\ Attrs(r)[3] = Word("RTA_OIF", 2, 0)
                          /\ Attrs(r)[4] = Value(r.oif)
           /\ r.gw # 0 => /\ Len(Attrs(r)) = 6
                          /\ Attrs(r)[3] = Word("RTA_GATEWAY", 2, 0)
                          /\ Attrs(r)[4] = Value(r.gw)
                          /\ Attrs(r)[5] = Word("RTA_OIF", 2, 0)
                          /\ Attrs(r)[6] = Value(r.oif)
  <1>1. /\ Word("RTA_PRIORITY", 2, 0) \in Words
        /\ Word("RTA_OIF", 2, 0) \in Words
        /\ Word("RTA_GATEWAY", 2, 0) \in Words
    BY DEF Word, Words, Kinds
  <1>2. Value(r.metric) \in Words /\ Value(r.gw) \in Words /\ Value(r.oif) \in Words
    BY ValueFacts DEF Routes
  <1>3. CASE r.gw = 0
    BY <1>1, <1>2, <1>3 DEF Attrs
  <1>4. CASE r.gw # 0
    BY <1>1, <1>2, <1>4 DEF Attrs
  <1>5. QED
    BY <1>3, <1>4

\* The words of a route's message that recvDefaultRoute looks at.
LEMMA RouteMessageFacts ==
    ASSUME NEW r \in Routes
    PROVE  /\ RouteMessage(r) \in Seq(Words)
           /\ Len(RouteMessage(r)) = 7 + Len(Attrs(r))
           /\ RouteMessage(r)[1] = Word("RTM_NEWROUTE", 7 + Len(Attrs(r)), 1)
           /\ RouteMessage(r)[5] = Word("rtmsg", r.dst, r.table)
           /\ \A k \in 1 .. Len(Attrs(r)) : RouteMessage(r)[7 + k] = Attrs(r)[k]
  <1>1. Word("rtmsg", r.dst, r.table) \in Words
    BY WordFacts DEF Routes, Kinds
  <1>2. /\ <<Word("rtmsg", r.dst, r.table), Skip, Skip>> \in Seq(Words)
        /\ Len(<<Word("rtmsg", r.dst, r.table), Skip, Skip>>) = 3
        /\ <<Word("rtmsg", r.dst, r.table), Skip, Skip>>[1] = Word("rtmsg", r.dst, r.table)
    BY <1>1, SkipFacts
  <1>3. PICK a \in Seq(Words) : a = Attrs(r)
    BY AttrFacts
  <1>4. PICK t \in Seq(Words) : /\ t = <<Word("rtmsg", r.dst, r.table), Skip, Skip>>
                                /\ Len(t) = 3 /\ t[1] = Word("rtmsg", r.dst, r.table)
    BY <1>2
  <1>5. 1 \in Int /\ 7 + Len(a) \in Int /\ "RTM_NEWROUTE" \in Kinds
    BY DEF Kinds
  <1>6. /\ Header("RTM_NEWROUTE", 7 + Len(a), 1) \in Seq(Words)
        /\ Len(Header("RTM_NEWROUTE", 7 + Len(a), 1)) = 4
        /\ Header("RTM_NEWROUTE", 7 + Len(a), 1)[1] = Word("RTM_NEWROUTE", 7 + Len(a), 1)
    BY <1>5, HeaderFacts
  <1>7. PICK h \in Seq(Words) : /\ h = Header("RTM_NEWROUTE", 7 + Len(a), 1)
                                /\ Len(h) = 4 /\ h[1] = Word("RTM_NEWROUTE", 7 + Len(a), 1)
    BY <1>6
  <1>8. RouteMessage(r) = h \o t \o a
    BY <1>3, <1>4, <1>7 DEF RouteMessage
  <1>9. /\ h \o t \in Seq(Words) /\ Len(h \o t) = 7 /\ (h \o t)[1] = h[1] /\ (h \o t)[5] = t[1]
    <2>1. Len(h) = 4 /\ Len(t) = 3 /\ 1 \in 1 .. 4 /\ 1 \in 1 .. 3 /\ 4 + 1 = 5
      BY <1>4, <1>7
    <2>2. h \o t \in Seq(Words) /\ Len(h \o t) = Len(h) + Len(t)
      BY Concat
    <2>3. (h \o t)[1] = h[1]
      BY <2>1, Concat
    <2>4. (h \o t)[Len(h) + 1] = t[1]
      <3>1. 1 \in 1 .. Len(t)
        BY <2>1
      <3>2. \A k \in 1 .. Len(t) : (h \o t)[Len(h) + k] = t[k]
        BY Concat
      <3>3. QED
        BY <3>1, <3>2
    <2>5. QED
      BY <2>1, <2>2, <2>3, <2>4
  <1>10. PICK m \in Seq(Words) : /\ m = h \o t /\ Len(m) = 7
                                 /\ m[1] = h[1] /\ m[5] = t[1]
    BY <1>9
  <1>11. /\ m \o a \in Seq(Words) /\ Len(m \o a) = 7 + Len(a)
         /\ (m \o a)[1] = m[1] /\ (m \o a)[5] = m[5]
         /\ \A k \in 1 .. Len(a) : (m \o a)[7 + k] = a[k]
    <2>1. Len(m) = 7 /\ 1 \in 1 .. Len(m) /\ 5 \in 1 .. Len(m)
      BY <1>10
    <2>2. m \o a \in Seq(Words) /\ Len(m \o a) = Len(m) + Len(a)
      BY Concat
    <2>3. \A k \in 1 .. Len(m) : (m \o a)[k] = m[k]
      BY Concat
    <2>4. \A k \in 1 .. Len(a) : (m \o a)[Len(m) + k] = a[k]
      BY Concat
    <2>5. QED
      BY <2>1, <2>2, <2>3, <2>4
  <1>12. QED
    BY <1>3, <1>4, <1>7, <1>8, <1>10, <1>11

\* The messages that are no routes are at most seven words long.
LEMMA ShortFacts ==
    /\ Done \in Seq(Words) /\ Len(Done) = 5 /\ Done[1] = Word("NLMSG_DONE", 5, 1)
    /\ Refusal \in Seq(Words) /\ Len(Refusal) = 5 /\ Refusal[1] = Word("NLMSG_ERROR", 5, 1)
    /\ ForeignMessage \in Seq(Words) /\ Len(ForeignMessage) = 7
    /\ ForeignMessage[1] = Word("RTM_NEWROUTE", 7, 2)
  <1>1. Word("NLMSG_DONE", 5, 1) \in Words
    BY DEF Word, Words, Kinds
  <1>2. Word("NLMSG_ERROR", 5, 1) \in Words
    BY DEF Word, Words, Kinds
  <1>3. Word("RTM_NEWROUTE", 7, 2) \in Words
    BY DEF Word, Words, Kinds
  <1>4. Done \in Seq(Words) /\ Len(Done) = 5 /\ Done[1] = Word("NLMSG_DONE", 5, 1)
    BY <1>1, SkipFacts DEF Done, Header
  <1>5. Refusal \in Seq(Words) /\ Len(Refusal) = 5 /\ Refusal[1] = Word("NLMSG_ERROR", 5, 1)
    BY <1>2, SkipFacts DEF Refusal, Header
  <1>6. /\ ForeignMessage \in Seq(Words) /\ Len(ForeignMessage) = 7
        /\ ForeignMessage[1] = Word("RTM_NEWROUTE", 7, 2)
    BY <1>3, SkipFacts DEF ForeignMessage, Header
  <1>7. QED
    BY <1>4, <1>5, <1>6

-----------------------------------------------------------------------------
Datagrams == Seq(Words)

\* The messages of which the datagrams of a dump consist.
Parts(t) == {RouteMessage(t[k]) : k \in DOMAIN t} \cup {Done, Refusal, ForeignMessage}

\* The words behind position p of w are those of m.
Stands(w, p, m) == \A x \in 1 .. Len(m) : w[p + x] = m[x]

(***************************************************************************)
(* S cuts the first len words of w into messages: at each position in S    *)
(* but the last a message begins, and it ends at a position in S.          *)
(***************************************************************************)
Cut(t, w, len, S) ==
    /\ S \subseteq 0 .. len /\ 0 \in S /\ len \in S
    /\ \A p \in S : p < len => \E m \in Parts(t) : p + Len(m) \in S /\ Stands(w, p, m)

Formed(t, w) == w \in Datagrams /\ \E S : Cut(t, w, Len(w), S)

\* A message tells its own length, and an answered RTM_NEWROUTE is a route.
LEMMA PartFacts ==
    ASSUME NEW t \in Tables, NEW m \in Parts(t)
    PROVE  /\ m \in Datagrams /\ Len(m) \in Nat /\ Len(m) >= 5
           /\ m[1][2] = Len(m)
           /\ m[1][1] = "RTM_NEWROUTE" /\ m[1][3] = 1 =>
                \E k \in DOMAIN t : m = RouteMessage(t[k])
           /\ m[1][3] \in Int
  <1>1. CASE m \in {Done, Refusal, ForeignMessage}
    <2>1. CASE m = Done
      <3>1. /\ Word("NLMSG_DONE", 5, 1)[1] = "NLMSG_DONE" /\ Word("NLMSG_DONE", 5, 1)[2] = 5
            /\ Word("NLMSG_DONE", 5, 1)[3] = 1
        BY DEF Word
      <3>2. QED
        BY <2>1, <3>1, ShortFacts DEF Datagrams
    <2>2. CASE m = Refusal
      <3>1. /\ Word("NLMSG_ERROR", 5, 1)[1] = "NLMSG_ERROR" /\ Word("NLMSG_ERROR", 5, 1)[2] = 5
            /\ Word("NLMSG_ERROR", 5, 1)[3] = 1
        BY DEF Word
      <3>2. QED
        BY <2>2, <3>1, ShortFacts DEF Datagrams
    <2>3. CASE m = ForeignMessage
      <3>1. Word("RTM_NEWROUTE", 7, 2)[2] = 7 /\ Word("RTM_NEWROUTE", 7, 2)[3] = 2
        BY DEF Word
      <3>2. QED
        BY <2>3, <3>1, ShortFacts DEF Datagrams
    <2>4. QED
      BY <1>1, <2>1, <2>2, <2>3
  <1>2. ASSUME NEW k \in DOMAIN t, m = RouteMessage(t[k])
        PROVE  /\ m \in Datagrams /\ Len(m) \in Nat /\ Len(m) >= 5
               /\ m[1][2] = Len(m) /\ m[1][3] \in Int
    <2>1. t[k] \in Routes
      BY DumpAssumption
    <2>2. PICK r \in Routes : r = t[k]
      BY <2>1
    <2>3. Len(Attrs(r)) \in {4, 6}
      BY AttrFacts
    <2>4. /\ RouteMessage(r) \in Seq(Words) /\ Len(RouteMessage(r)) = 7 + Len(Attrs(r))
          /\ RouteMessage(r)[1] = Word("RTM_NEWROUTE", 7 + Len(Attrs(r)), 1)
      BY RouteMessageFacts
    <2>5. PICK l \in Int : l = 7 + Len(Attrs(r))
      BY <2>3
    <2>6. Word("RTM_NEWROUTE", l, 1)[2] = l /\ Word("RTM_NEWROUTE", l, 1)[3] = 1
      BY DEF Word
    <2>7. QED
      BY <1>2, <2>2, <2>3, <2>4, <2>5, <2>6 DEF Datagrams
  <1>3. QED
    BY <1>1, <1>2 DEF Parts

\* A datagram consists of messages as long as the kernel adds messages to it.
LEMMA EmptyFormed ==
    ASSUME NEW t
    PROVE  Formed(t, <<>>)
  <1>1. <<>> \in Datagrams /\ Len(<<>>) = 0
    BY DEF Datagrams
  <1>2. Cut(t, <<>>, 0, {0})
    BY DEF Cut
  <1>3. QED
    BY <1>1, <1>2 DEF Formed

LEMMA ConcatFormed ==
    ASSUME NEW t \in Tables, NEW w, Formed(t, w), NEW m \in Parts(t)
    PROVE  Formed(t, w \o m) /\ Len(w \o m) = Len(w) + Len(m)
  <1>1. PICK S : Cut(t, w, Len(w), S)
    BY DEF Formed
  <1>2. w \in Seq(Words) /\ m \in Seq(Words) /\ Len(w) \in Nat /\ Len(m) \in Nat /\ Len(m) >= 5
    BY PartFacts DEF Formed, Datagrams
  <1>3. PICK v \in Seq(Words) :
          /\ v = w \o m /\ Len(v) = Len(w) + Len(m)
          /\ \A k \in 1 .. Len(w) : v[k] = w[k]
          /\ \A k \in 1 .. Len(m) : v[Len(w) + k] = m[k]
    BY <1>2, Concat
  <1>4. PICK T : T = S \cup {Len(w) + Len(m)}
    OBVIOUS
  <1>5. T \subseteq 0 .. Len(v) /\ 0 \in T /\ Len(v) \in T /\ Len(w) \in T
    <2>1. S \subseteq 0 .. Len(w) /\ 0 \in S /\ Len(w) \in S
      BY <1>1 DEF Cut
    <2>2. PICK lw, lm \in Nat : lw = Len(w) /\ lm = Len(m)
      BY <1>2
    <2>3. Len(v) = lw + lm /\ T = S \cup {lw + lm}
      BY <1>3, <1>4, <2>2
    <2>4. S \subseteq 0 .. lw + lm
      BY <2>1, <2>2
    <2>5. lw + lm \in 0 .. lw + lm
      OBVIOUS
    <2>6. T \subseteq 0 .. lw + lm /\ lw + lm \in T
      BY <2>3, <2>4, <2>5
    <2>7. QED
      BY <2>1, <2>3, <2>6
  <1>6. ASSUME NEW p \in T, p < Len(v)
        PROVE  \E x \in Parts(t) : p + Len(x) \in T /\ Stands(v, p, x)
    <2>1. p \in S
      BY <1>2, <1>3, <1>4, <1>6
    <2>2. CASE p = Len(w)
      <3>1. p + Len(m) \in T /\ Stands(v, p, m)
        BY <1>3, <1>4, <2>2 DEF Stands
      <3>2. QED
        BY <3>1
    <2>3. CASE p # Len(w)
      <3>1. p \in 0 .. Len(w) /\ p < Len(w)
        BY <1>1, <1>2, <2>1, <2>3 DEF Cut
      <3>2. PICK x \in Parts(t) : p + Len(x) \in S /\ Stands(w, p, x)
        BY <1>1, <2>1, <3>1 DEF Cut
      <3>3. p + Len(x) \in T /\ p + Len(x) \in 0 .. Len(w) /\ Len(x) \in Nat
        BY <1>1, <1>4, <3>2, PartFacts DEF Cut
      <3>4. Stands(v, p, x)
        <4> SUFFICES ASSUME NEW y \in 1 .. Len(x) PROVE v[p + y] = x[y]
          BY DEF Stands
        <4>1. p + y \in 1 .. Len(w)
          BY <1>2, <3>1, <3>3
        <4>2. QED
          BY <1>3, <3>2, <4>1 DEF Stands
      <3>5. QED
        BY <3>3, <3>4
    <2>4. QED
      BY <2>2, <2>3
  <1>7. Cut(t, v, Len(v), T)
    BY <1>5, <1>6 DEF Cut
  <1>8. QED
    BY <1>3, <1>7 DEF Formed, Datagrams

LEMMA PartFormed ==
    ASSUME NEW t \in Tables, NEW m \in Parts(t)
    PROVE  Formed(t, m)
  <1>1. m \in Seq(Words)
    BY PartFacts DEF Datagrams
  <1>2. <<>> \o m = m
    BY <1>1
  <1>3. QED
    BY <1>2, EmptyFormed, ConcatFormed

\* What lies behind the datagram in the buffer does not matter.
LEMMA CutKept ==
    ASSUME NEW t \in Tables, NEW w, NEW v, NEW len \in Nat, NEW S, Cut(t, w, len, S),
           \A k \in 1 .. len : v[k] = w[k]
    PROVE  Cut(t, v, len, S)
  <1>1. S \subseteq 0 .. len /\ 0 \in S /\ len \in S
    BY DEF Cut
  <1>2. ASSUME NEW p \in S, p < len
        PROVE  \E m \in Parts(t) : p + Len(m) \in S /\ Stands(v, p, m)
    <2>1. PICK m \in Parts(t) : p + Len(m) \in S /\ Stands(w, p, m)
      BY <1>2 DEF Cut
    <2>2. p \in Nat /\ Len(m) \in Nat /\ p + Len(m) <= len
      BY <1>1, <2>1, PartFacts
    <2>3. Stands(v, p, m)
      <3> SUFFICES ASSUME NEW x \in 1 .. Len(m) PROVE v[p + x] = m[x]
        BY DEF Stands
      <3>1. p + x \in 1 .. len
        BY <2>2
      <3>2. QED
        BY <2>1, <3>1 DEF Stands
    <2>4. QED
      BY <2>1, <2>3
  <1>3. QED
    BY <1>1, <1>2 DEF Cut

-----------------------------------------------------------------------------
\* What is in the dump, the socket and the buffer, and where the reader may be.
TypeInv ==
    /\ table \in Tables
    /\ unsent \in Seq(Routes)
    /\ \A k \in DOMAIN unsent : \E q \in DOMAIN table : unsent[k] = table[q]
    /\ datagrams \in Nat
    /\ Formed(table, dump)
    /\ queue \in Seq(Datagrams)
    /\ \A k \in DOMAIN queue : Formed(table, queue[k])
    /\ buf \in Datagrams
    /\ n \in 0 .. Len(buf)
    /\ pos \in 0 .. Len(buf) /\ endPos \in 0 .. Len(buf) /\ next \in 0 .. Len(buf)
    /\ pc \in {"recv", "message", "attr", "returned", "error"}

\* The message of route k begins at b, and pos is at one of its attributes or
\* behind the last.
Walks(k, b) ==
    /\ Stands(buf, b, RouteMessage(table[k]))
    /\ b + Len(RouteMessage(table[k])) = next
    /\ pos \in {b + 7, b + 9, b + 11, b + 13}
    /\ pos <= next

\* Between two messages the reader stands where one begins.
ReadInv ==
    /\ pc = "message" => \E S : Cut(table, buf, n, S) /\ pos \in S
    /\ pc = "attr" =>
        /\ \E S : Cut(table, buf, n, S) /\ next \in S
        /\ endPos = next
        /\ \E k \in Defaults, b \in Nat : Walks(k, b)

(***************************************************************************)
(* Only a datagram with routes is longer than seven words.  As long as one *)
(* such datagram has been sent there is no other to overwrite a gateway.   *)
(***************************************************************************)
LongInv ==
    /\ datagrams = 0 =>
        gateway = Nil /\ n <= 7 /\ \A k \in DOMAIN queue : Len(queue[k]) <= 7
    /\ datagrams <= 1 =>
        /\ \A k, l \in DOMAIN queue : Len(queue[k]) > 7 /\ Len(queue[l]) > 7 => k = l
        /\ gateway # Nil \/ n > 7 => \A k \in DOMAIN queue : Len(queue[k]) <= 7

\* What has been found so far belongs to a default route of the table.
FoundInv ==
    /\ ifindex = 0 \/ \E k \in Defaults : ifindex = table[k].oif
    /\ gateway = Nil \/ gateway \in 7 .. Len(buf) - 1
    /\ gateway # Nil /\ datagrams <= 1 =>
        \E k \in Defaults : buf[gateway + 1] = Value(table[k].gw)
    /\ pc = "returned" => ifindex # 0 /\ gateway # Nil

Inv == TypeInv /\ ReadInv /\ LongInv /\ FoundInv

LEMMA InitInv == Init => Inv
  <1> SUFFICES ASSUME Init PROVE Inv
    OBVIOUS
  <1>1. table \in Seq(Routes)
    BY DumpAssumption DEF Init
  <1>2. <<>> \in Datagrams /\ Len(<<>>) = 0 /\ <<>> \in Seq(Datagrams)
    BY DEF Datagrams
  <1>3. Formed(table, <<>>)
    BY EmptyFormed
  <1>4. TypeInv
    BY <1>1, <1>2, <1>3 DEF Init, TypeInv
  <1>5. ReadInv /\ LongInv /\ FoundInv
    BY <1>2 DEF Init, ReadInv, LongInv, FoundInv
  <1>6. QED
    BY <1>4, <1>5 DEF Inv

\* A datagram arrives.
\* The socket after a datagram has arrived.
LEMMA ArriveFacts ==
    ASSUME TypeInv, NEW w, Formed(table, w), Arrive(w)
    PROVE  /\ queue' \in Seq(Datagrams)
           /\ DOMAIN queue' = 1 .. Len(queue) + 1
           /\ \A k \in DOMAIN queue' :
                \/ k \in DOMAIN queue /\ queue'[k] = queue[k]
                \/ k = Len(queue) + 1 /\ queue'[k] = w
           /\ \A k \in DOMAIN queue' : Formed(table, queue'[k])
  <1>1. w \in Datagrams /\ queue \in Seq(Datagrams) /\ queue' = Append(queue, w)
    BY DEF Formed, TypeInv, Arrive
  <1>2. /\ queue' \in Seq(Datagrams) /\ DOMAIN queue' = 1 .. Len(queue) + 1
        /\ DOMAIN queue = 1 .. Len(queue) /\ Len(queue) \in Nat
        /\ \A k \in 1 .. Len(queue) : queue'[k] = queue[k]
        /\ queue'[Len(queue) + 1] = w
    BY <1>1
  <1>3. \A k \in DOMAIN queue' :
          \/ k \in DOMAIN queue /\ queue'[k] = queue[k]
          \/ k = Len(queue) + 1 /\ queue'[k] = w
    BY <1>2
  <1>4. QED
    BY <1>2, <1>3 DEF TypeInv

\* What the reader relies on stays as long as only the kernel moves.
\* What the kernel does disturbs nothing that the reader knows.
LEMMA ReaderKept ==
    ASSUME Inv, UNCHANGED <<table, reader>>, datagrams' >= datagrams, datagrams' \in Nat
    PROVE  ReadInv' /\ FoundInv'
  <1>1. UNCHANGED <<table, buf, n, pos, endPos, next, gateway, ifindex, pc>>
    BY DEF reader, found
  <1>2. Defaults' = Defaults
    BY <1>1 DEF Defaults
  <1>3. ReadInv'
    BY <1>1, <1>2 DEF Inv, ReadInv, Walks
  <1>4. FoundInv'
    BY <1>1, <1>2 DEF Inv, FoundInv, TypeInv
  <1>5. QED
    BY <1>3, <1>4

LEMMA DumpRouteInv ==
    ASSUME Inv, DumpRoute
    PROVE  Inv'
  <1> USE DEF Inv
  <1>1. /\ unsent # <<>> /\ dump' = dump \o RouteMessage(Head(unsent)) /\ unsent' = Tail(unsent)
        /\ UNCHANGED <<table, links, over, datagrams, foreign, queue, reader>>
    BY DEF DumpRoute
  <1>2. UNCHANGED <<buf, n, pos, endPos, next, gateway, ifindex, pc>>
    BY <1>1 DEF reader, found
  <1>3. PICK q \in DOMAIN table : Head(unsent) = table[q]
    BY <1>1 DEF TypeInv
  <1>4. RouteMessage(Head(unsent)) \in Parts(table)
    BY <1>3 DEF Parts
  <1>5. Formed(table, dump')
    BY <1>1, <1>4, ConcatFormed DEF TypeInv
  <1>6. unsent' \in Seq(Routes) /\ \A k \in DOMAIN unsent' : \E x \in DOMAIN table : unsent'[k] = table[x]
    <2>1. unsent \in Seq(Routes) /\ unsent # <<>>
      BY <1>1 DEF TypeInv
    <2>2. /\ Tail(unsent) \in Seq(Routes)
          /\ \A k \in DOMAIN Tail(unsent) : k + 1 \in DOMAIN unsent /\ Tail(unsent)[k] = unsent[k + 1]
      BY <2>1
    <2>3. QED
      BY <1>1, <2>2 DEF TypeInv
  <1>7. TypeInv'
    BY <1>1, <1>2, <1>5, <1>6 DEF TypeInv
  <1>8. ReadInv' /\ FoundInv'
    BY <1>1, ReaderKept DEF TypeInv
  <1>9. LongInv'
    BY <1>1, <1>2 DEF LongInv
  <1>10. QED
    BY <1>7, <1>8, <1>9

\* A datagram with routes arrives.
\* A datagram with routes arrives: it is the first, or LongInv says nothing more.
LEMMA RoutesArrive ==
    ASSUME Inv, NEW w, Formed(table, w), Arrive(w), datagrams' = datagrams + 1,
           UNCHANGED <<table, reader>>
    PROVE  LongInv' /\ ReadInv' /\ FoundInv'
  <1> USE DEF Inv
  <1>1. datagrams \in Nat /\ datagrams' \in Nat /\ datagrams' >= datagrams /\ datagrams' # 0
    BY DEF TypeInv
  <1>2. UNCHANGED <<n, gateway>>
    BY DEF reader, found
  <1>3. LongInv'
    <2> SUFFICES ASSUME datagrams' <= 1 PROVE LongInv'
      BY <1>1 DEF LongInv
    <2>1. datagrams = 0
      BY <1>1
    <2>2. gateway = Nil /\ n <= 7 /\ \A k \in DOMAIN queue : Len(queue[k]) <= 7
      BY <2>1 DEF LongInv
    <2>3. \A k \in DOMAIN queue' : Len(queue'[k]) > 7 => k = Len(queue) + 1
      <3>1. \A k \in DOMAIN queue : Len(queue[k]) <= 7 /\ Len(queue[k]) \in Nat
        BY <2>2 DEF TypeInv, Formed, Datagrams
      <3>2. QED
        BY <3>1, ArriveFacts
    <2>4. gateway' = Nil /\ n' <= 7 /\ n' \in Nat
      BY <1>2, <2>2 DEF TypeInv
    <2>5. QED
      BY <1>1, <2>3, <2>4 DEF LongInv
  <1>4. QED
    BY <1>1, <1>3, ReaderKept

\* A datagram of one message that is no route arrives.
\* A datagram without routes is too short for LongInv to speak of.
LEMMA ShortArrives ==
    ASSUME Inv, NEW w \in {Done, Refusal, ForeignMessage}, Arrive(w), datagrams' = datagrams,
           UNCHANGED <<table, reader>>
    PROVE  LongInv' /\ ReadInv' /\ FoundInv'
  <1> USE DEF Inv
  <1>1. datagrams \in Nat /\ datagrams' \in Nat /\ datagrams' >= datagrams
    BY DEF TypeInv
  <1>2. UNCHANGED <<n, gateway>>
    BY DEF reader, found
  <1>3. Len(w) <= 7 /\ Len(w) \in Nat /\ w \in Parts(table)
    <2>1. Len(Done) = 5 /\ Len(Refusal) = 5 /\ Len(ForeignMessage) = 7
      BY ShortFacts
    <2>2. PICK l \in {5, 7} : l = Len(w)
      BY <2>1
    <2>3. l <= 7 /\ l \in Nat
      OBVIOUS
    <2>4. w \in Parts(table)
      BY DEF Parts
    <2>5. QED
      BY <2>2, <2>3, <2>4
  <1>4. Formed(table, w)
    BY <1>3, PartFormed DEF TypeInv
  <1>5. \A k \in DOMAIN queue' : Len(queue'[k]) > 7 => k \in DOMAIN queue /\ queue'[k] = queue[k]
    BY <1>3, <1>4, ArriveFacts
  <1>6. \A k \in DOMAIN queue' : ~(Len(queue'[k]) > 7) => Len(queue'[k]) <= 7
    <2>1. \A k \in DOMAIN queue' : Len(queue'[k]) \in Nat
      BY <1>4, ArriveFacts DEF Formed, Datagrams
    <2>2. QED
      BY <2>1
  <1>7. \A k \in DOMAIN queue : Len(queue[k]) \in Nat
    BY DEF TypeInv, Formed, Datagrams
  <1>8. LongInv'
    BY <1>1, <1>2, <1>5, <1>6, <1>7 DEF LongInv
  <1>9. QED
    BY <1>1, <1>8, ReaderKept

LEMMA ArriveType ==
    ASSUME TypeInv, NEW w, Formed(table, w), Arrive(w), datagrams' \in Nat,
           UNCHANGED <<table, reader, unsent>>, dump' = dump \/ dump' = <<>>
    PROVE  TypeInv'
  <1>1. UNCHANGED <<buf, n, pos, endPos, next, pc>>
    BY DEF reader
  <1>2. Formed(table, dump')
    BY EmptyFormed DEF TypeInv
  <1>3. queue' \in Seq(Datagrams) /\ \A k \in DOMAIN queue' : Formed(table, queue'[k])
    BY ArriveFacts
  <1>4. QED
    BY <1>1, <1>2, <1>3 DEF TypeInv

LEMMA DumpInv ==
    ASSUME Inv, DumpDatagram \/ DumpDone \/ DumpRefused \/ Interfere
    PROVE  Inv'
  <1> USE DEF Inv
  <1>1. CASE DumpDatagram
    <2>1. /\ Arrive(dump) /\ dump' = <<>> /\ datagrams' = datagrams + 1
          /\ UNCHANGED <<table, reader, unsent>>
      BY <1>1 DEF DumpDatagram
    <2>2. Formed(table, dump) /\ datagrams' \in Nat
      BY <2>1 DEF TypeInv
    <2>3. TypeInv'
      BY <2>1, <2>2, ArriveType
    <2>4. QED
      BY <2>1, <2>2, <2>3, RoutesArrive
  <1>2. CASE DumpDone /\ dump # <<>>
    <2>1. /\ Arrive(dump \o Done) /\ dump' = <<>> /\ datagrams' = datagrams + 1
          /\ UNCHANGED <<table, reader, unsent>>
      BY <1>2 DEF DumpDone
    <2>2. Formed(table, dump \o Done) /\ datagrams' \in Nat
      <3>1. Done \in Parts(table)
        BY DEF Parts
      <3>2. QED
        BY <2>1, <3>1, ConcatFormed DEF TypeInv
    <2>3. TypeInv'
      BY <2>1, <2>2, ArriveType
    <2>4. QED
      BY <2>1, <2>2, <2>3, RoutesArrive
  <1>3. CASE DumpDone /\ dump = <<>>
    <2>1. /\ Arrive(dump \o Done) /\ dump' = <<>> /\ datagrams' = datagrams
          /\ UNCHANGED <<table, reader, unsent>>
      BY <1>3 DEF DumpDone
    <2>2. dump \o Done = Done
      BY <1>3, ShortFacts
    <2>3. Formed(table, Done) /\ datagrams' \in Nat
      BY <2>1, PartFormed DEF TypeInv, Parts
    <2>4. TypeInv'
      BY <2>1, <2>2, <2>3, ArriveType
    <2>5. QED
      BY <2>1, <2>2, <2>4, ShortArrives
  <1>4. CASE DumpRefused
    <2>1. /\ Arrive(Refusal) /\ dump' = dump /\ datagrams' = datagrams
          /\ UNCHANGED <<table, reader, unsent>>
      BY <1>4 DEF DumpRefused
    <2>2. Formed(table, Refusal) /\ datagrams' \in Nat
      BY <2>1, PartFormed DEF TypeInv, Parts
    <2>3. TypeInv'
      BY <2>1, <2>2, ArriveType
    <2>4. QED
      BY <2>1, <2>3, ShortArrives
  <1>5. CASE Interfere
    <2>1. /\ Arrive(ForeignMessage) /\ dump' = dump /\ datagrams' = datagrams
          /\ UNCHANGED <<table, reader, unsent>>
      BY <1>5 DEF Interfere
    <2>2. Formed(table, ForeignMessage) /\ datagrams' \in Nat
      BY <2>1, PartFormed DEF TypeInv, Parts
    <2>3. TypeInv'
      BY <2>1, <2>2, ArriveType
    <2>4. QED
      BY <2>1, <2>3, ShortArrives
  <1>6. QED
    BY <1>1, <1>2, <1>3, <1>4, <1>5

LEMMA LinkGoesInv ==
    ASSUME Inv, LinkGoes
    PROVE  Inv'
  <1>1. UNCHANGED <<table, unsent, dump, datagrams, queue, reader>>
    BY DEF LinkGoes
  <1>2. UNCHANGED <<buf, n, pos, endPos, next, gateway, ifindex, pc>>
    BY <1>1 DEF reader, found
  <1>3. TypeInv'
    BY <1>1, <1>2 DEF Inv, TypeInv
  <1>4. LongInv'
    BY <1>1, <1>2 DEF Inv, LongInv
  <1>5. ReadInv' /\ FoundInv'
    BY <1>1, ReaderKept DEF Inv, TypeInv
  <1>6. QED
    BY <1>3, <1>4, <1>5 DEF Inv

-----------------------------------------------------------------------------
\* Recvfrom into the buffer.
\* The buffer holds the new datagram, and behind it what it held before.
LEMMA OverwriteFacts ==
    ASSUME buf \in Datagrams, NEW w \in Datagrams
    PROVE  /\ Overwrite(w) \in Datagrams
           /\ Len(Overwrite(w)) >= Len(w) /\ Len(Overwrite(w)) >= Len(buf)
           /\ \A k \in 1 .. Len(w) : Overwrite(w)[k] = w[k]
           /\ \A k \in 1 .. Len(buf) : k > Len(w) => Overwrite(w)[k] = buf[k]
  <1>1. buf \in Seq(Words) /\ w \in Seq(Words) /\ Len(w) \in Nat /\ Len(buf) \in Nat
    BY DEF Datagrams
  <1>2. PICK r : r = SubSeq(buf, Len(w) + 1, Len(buf))
    OBVIOUS
  <1>3. /\ r \in Seq(Words)
        /\ Len(r) = IF Len(w) + 1 <= Len(buf) THEN Len(buf) - Len(w) ELSE 0
        /\ \A k \in 1 .. Len(r) : r[k] = buf[Len(w) + k]
    BY <1>1, <1>2
  <1>4. /\ w \o r \in Seq(Words) /\ Len(w \o r) = Len(w) + Len(r)
        /\ \A k \in 1 .. Len(w) : (w \o r)[k] = w[k]
        /\ \A k \in 1 .. Len(r) : (w \o r)[Len(w) + k] = r[k]
    BY <1>1, <1>3, Concat
  <1>5. Overwrite(w) = w \o r
    BY <1>2 DEF Overwrite
  <1>6. ASSUME NEW k \in 1 .. Len(buf), k > Len(w)
        PROVE  (w \o r)[k] = buf[k]
    <2>1. k - Len(w) \in 1 .. Len(r) /\ k = Len(w) + (k - Len(w))
      BY <1>1, <1>3, <1>6
    <2>2. QED
      BY <1>3, <1>4, <2>1
  <1>7. Len(w \o r) >= Len(w) /\ Len(w \o r) >= Len(buf)
    BY <1>1, <1>3, <1>4
  <1>8. QED
    BY <1>4, <1>5, <1>6, <1>7 DEF Datagrams

(***************************************************************************)
(* The next datagram is read.  When a gateway has been found and the       *)
(* routes came in one datagram, this one is short: it ends in front of the *)
(* gateway, which keeps its content.                                       *)
(***************************************************************************)
LEMMA RecvInv ==
    ASSUME Inv, Recv
    PROVE  Inv'
  <1> USE DEF Inv
  <1>1. /\ pc = "recv" /\ queue # <<>> /\ queue' = Tail(queue) /\ buf' = Overwrite(Head(queue))
        /\ n' = Len(Head(queue)) /\ pos' = 0 /\ pc' = "message"
        /\ UNCHANGED <<table, unsent, dump, datagrams, endPos, next, gateway, ifindex>>
    BY DEF Recv, found
  <1>2. PICK w : w = Head(queue)
    OBVIOUS
  <1>3. /\ queue \in Seq(Datagrams) /\ Len(queue) \in Nat /\ Len(queue) > 0 /\ 1 \in DOMAIN queue
        /\ w = queue[1] /\ Formed(table, w)
        /\ queue' \in Seq(Datagrams)
        /\ \A k \in DOMAIN queue' : k + 1 \in DOMAIN queue /\ queue'[k] = queue[k + 1] /\ k \in Nat /\ k >= 1
    BY <1>1, <1>2 DEF TypeInv
  <1>4. w \in Datagrams /\ Len(w) \in Nat /\ buf \in Datagrams /\ Len(buf) \in Nat
    BY <1>3 DEF Formed, TypeInv, Datagrams
  <1>5. /\ buf' \in Datagrams /\ Len(buf') >= Len(w) /\ Len(buf') >= Len(buf) /\ Len(buf') \in Nat
        /\ \A k \in 1 .. Len(w) : buf'[k] = w[k]
        /\ \A k \in 1 .. Len(buf) : k > Len(w) => buf'[k] = buf[k]
    BY <1>1, <1>2, <1>4, OverwriteFacts DEF Datagrams
  <1>6. TypeInv'
    <2>1. n' \in 0 .. Len(buf') /\ pos' \in 0 .. Len(buf')
      BY <1>1, <1>2, <1>4, <1>5
    <2>2. endPos' \in 0 .. Len(buf') /\ next' \in 0 .. Len(buf')
      BY <1>1, <1>4, <1>5 DEF TypeInv
    <2>3. \A k \in DOMAIN queue' : Formed(table, queue'[k])
      BY <1>3 DEF TypeInv
    <2>4. QED
      BY <1>1, <1>3, <1>5, <2>1, <2>2, <2>3 DEF TypeInv
  <1>7. ReadInv'
    <2>1. PICK S : Cut(table, w, Len(w), S)
      BY <1>3 DEF Formed
    <2>2. Cut(table, buf', Len(w), S)
      BY <1>4, <1>5, <2>1, CutKept DEF TypeInv
    <2>3. 0 \in S
      BY <2>1 DEF Cut
    <2>4. QED
      BY <1>1, <1>2, <2>2, <2>3 DEF ReadInv
  <1>8. LongInv'
    <2>1. ASSUME datagrams' = 0
          PROVE  gateway' = Nil /\ n' <= 7 /\ \A k \in DOMAIN queue' : Len(queue'[k]) <= 7
      BY <1>1, <1>2, <1>3, <2>1 DEF LongInv
    <2>2. ASSUME datagrams' <= 1, NEW k \in DOMAIN queue', NEW l \in DOMAIN queue',
                 Len(queue'[k]) > 7, Len(queue'[l]) > 7
          PROVE  k = l
      <3>1. k + 1 = l + 1
        BY <1>1, <1>3, <2>2 DEF LongInv
      <3>2. QED
        BY <1>3, <3>1
    <2>3. ASSUME datagrams' <= 1, gateway' # Nil \/ n' > 7, NEW k \in DOMAIN queue'
          PROVE  Len(queue'[k]) <= 7
      <3>1. Len(queue'[k]) \in Nat
        BY <1>6 DEF TypeInv, Formed, Datagrams
      <3>2. CASE gateway' # Nil
        BY <1>1, <1>3, <2>3, <3>2 DEF LongInv
      <3>3. CASE n' > 7
        <4> SUFFICES ASSUME Len(queue'[k]) > 7 PROVE FALSE
          BY <3>1
        <4>1. 1 = k + 1
          BY <1>1, <1>2, <1>3, <2>3, <3>3 DEF LongInv
        <4>2. QED
          BY <1>3, <4>1
      <3>4. QED
        BY <2>3, <3>2, <3>3
    <2>4. QED
      BY <2>1, <2>2, <2>3 DEF LongInv
  <1>9. FoundInv'
    <2>1. Defaults' = Defaults
      BY <1>1 DEF Defaults
    <2>2. gateway' = Nil \/ gateway' \in 7 .. Len(buf') - 1
      BY <1>1, <1>4, <1>5 DEF FoundInv
    <2>3. ASSUME gateway' # Nil, datagrams' <= 1
          PROVE  buf'[gateway' + 1] = buf[gateway + 1]
      <3>1. Len(w) <= 7
        BY <1>1, <1>3, <2>3 DEF LongInv
      <3>2. gateway + 1 \in 1 .. Len(buf) /\ gateway + 1 > Len(w)
        BY <1>1, <1>4, <2>3, <3>1 DEF FoundInv
      <3>3. QED
        BY <1>1, <1>5, <3>2
    <2>4. QED
      BY <1>1, <2>1, <2>2, <2>3 DEF FoundInv
  <1>10. QED
    BY <1>6, <1>7, <1>8, <1>9

-----------------------------------------------------------------------------
\* The message at pos.
\* At pos there is a whole message, and its length leads to the next one.
LEMMA MessageFacts ==
    ASSUME Inv, pc = "message", pos + 4 <= n
    PROVE  \E S : \E m \in Parts(table) :
             /\ Cut(table, buf, n, S) /\ pos \in S /\ pos + Len(m) \in S
             /\ Stands(buf, pos, m) /\ at(pos) = m[1] /\ at(pos)[2] = Len(m)
  <1>1. PICK S : Cut(table, buf, n, S) /\ pos \in S
    BY DEF Inv, ReadInv
  <1>2. pos \in Nat /\ n \in Nat /\ pos < n
    BY DEF Inv, TypeInv, Datagrams
  <1>3. PICK m \in Parts(table) : pos + Len(m) \in S /\ Stands(buf, pos, m)
    BY <1>1, <1>2 DEF Cut
  <1>4. 1 \in 1 .. Len(m) /\ m[1][2] = Len(m)
    BY PartFacts DEF Inv, TypeInv
  <1>5. at(pos) = m[1]
    BY <1>3, <1>4 DEF Stands, at
  <1>6. QED
    BY <1>1, <1>3, <1>4, <1>5

\* Where the first words of parts end is inside the buffer.
LEMMA MarkFacts ==
    ASSUME Inv, NEW S, Cut(table, buf, n, S), NEW p \in S
    PROVE  p \in 0 .. n /\ p \in 0 .. Len(buf)
  BY DEF Cut, Inv, TypeInv, Datagrams

LEMMA SkipMessageInv ==
    ASSUME Inv, SkipMessage
    PROVE  Inv'
  <1> USE DEF Inv
  <1>1. /\ pc = "message" /\ pos + 4 <= n /\ pos' = pos + at(pos)[2] /\ pc' = "message"
        /\ UNCHANGED <<table, unsent, dump, datagrams, queue, buf, n, endPos, next, gateway, ifindex>>
    BY DEF SkipMessage, kernel, found
  <1>2. PICK S : \E m \in Parts(table) : /\ Cut(table, buf, n, S) /\ pos + Len(m) \in S
                                         /\ at(pos)[2] = Len(m)
    BY <1>1, MessageFacts
  <1>3. Cut(table, buf, n, S) /\ pos' \in S
    BY <1>1, <1>2
  <1>4. pos' \in 0 .. Len(buf)
    BY <1>3, MarkFacts
  <1>5. TypeInv'
    BY <1>1, <1>4 DEF TypeInv
  <1>6. ReadInv'
    BY <1>1, <1>3 DEF ReadInv
  <1>7. Defaults' = Defaults
    BY <1>1 DEF Defaults
  <1>8. LongInv' /\ FoundInv'
    BY <1>1, <1>7 DEF LongInv, FoundInv
  <1>9. QED
    BY <1>5, <1>6, <1>8

LEMMA EndsInv ==
    ASSUME Inv, DatagramEnds \/ MessageDone \/ MessageError \/ RecvFails
    PROVE  Inv'
  <1> USE DEF Inv
  <1>1. /\ UNCHANGED <<table, unsent, dump, datagrams, queue, buf, n, pos, endPos, next,
                      gateway, ifindex>>
        /\ pc' \in {"recv", "returned", "error"}
        /\ pc' = "returned" => ifindex # 0 /\ gateway # Nil
    BY DEF DatagramEnds, MessageDone, MessageError, RecvFails, kernel, found
  <1>2. Defaults' = Defaults
    BY <1>1 DEF Defaults
  <1>3. TypeInv'
    BY <1>1 DEF TypeInv
  <1>4. ReadInv'
    BY <1>1 DEF ReadInv
  <1>5. LongInv'
    BY <1>1 DEF LongInv
  <1>6. FoundInv'
    BY <1>1, <1>2 DEF FoundInv
  <1>7. QED
    BY <1>3, <1>4, <1>5, <1>6

\* A default route of the main table is entered, every other one passed over.
LEMMA MessageRouteInv ==
    ASSUME Inv, MessageRoute
    PROVE  Inv'
  <1> USE DEF Inv
  <1>1. /\ pc = "message" /\ pos + 4 <= n /\ at(pos)[3] = 1 /\ at(pos)[1] = "RTM_NEWROUTE"
        /\ IF IsDefault(at(pos + 4)) THEN pos' = pos + 7 /\ pc' = "attr"
                                     ELSE pos' = pos + at(pos)[2] /\ pc' = pc
        /\ endPos' = pos + at(pos)[2] /\ next' = pos + at(pos)[2]
        /\ UNCHANGED <<table, unsent, dump, datagrams, queue, buf, n, gateway, ifindex>>
    BY DEF MessageRoute, Message, kernel, found
  <1>2. PICK S : \E m \in Parts(table) :
                   /\ Cut(table, buf, n, S) /\ pos \in S /\ pos + Len(m) \in S
                   /\ Stands(buf, pos, m) /\ at(pos) = m[1] /\ at(pos)[2] = Len(m)
    BY <1>1, MessageFacts
  <1>3. PICK m \in Parts(table) : /\ Cut(table, buf, n, S) /\ pos \in S /\ pos + Len(m) \in S
                                  /\ Stands(buf, pos, m) /\ at(pos) = m[1] /\ at(pos)[2] = Len(m)
    BY <1>2
  <1>4. PICK k \in DOMAIN table : m = RouteMessage(table[k])
    BY <1>1, <1>3, PartFacts DEF TypeInv
  <1>5. next' \in S /\ endPos' = next' /\ next' = pos + Len(m)
    BY <1>1, <1>3
  <1>6. next' \in 0 .. Len(buf)
    BY <1>3, <1>5, MarkFacts
  <1>7. PICK r \in Routes : r = table[k]
    BY DumpAssumption DEF TypeInv
  <1>8. Len(m) = 7 + Len(Attrs(r)) /\ Len(Attrs(r)) \in {4, 6} /\ m[5] = Word("rtmsg", r.dst, r.table)
    BY <1>4, <1>7, AttrFacts, RouteMessageFacts
  <1>9. Defaults' = Defaults
    BY <1>1 DEF Defaults
  <1>10. LongInv' /\ FoundInv'
    BY <1>1, <1>9 DEF LongInv, FoundInv
  <1>11. pos \in Nat /\ Len(m) \in Nat
    BY <1>8 DEF TypeInv, Datagrams
  <1>12. CASE IsDefault(at(pos + 4))
    <2>1. 5 \in 1 .. Len(m) /\ (pos + 4) + 1 = pos + 5
      BY <1>8, <1>11
    <2>2. at(pos + 4) = m[5]
      BY <1>3, <2>1 DEF at, Stands
    <2>3. Word("rtmsg", r.dst, r.table)[2] = r.dst /\ Word("rtmsg", r.dst, r.table)[3] = r.table
      BY DEF Word
    <2>4. k \in Defaults
      BY <1>7, <1>8, <1>12, <2>2, <2>3 DEF IsDefault, Defaults
    <2>5. pos' = pos + 7 /\ pc' = "attr" /\ pos' <= next' /\ pos' \in Nat
      BY <1>1, <1>5, <1>8, <1>11, <1>12
    <2>6. pos' \in 0 .. Len(buf)
      BY <1>6, <2>5
    <2>7. TypeInv'
      BY <1>1, <1>5, <1>6, <2>5, <2>6 DEF TypeInv
    <2>8. ReadInv'
      <3>1. PICK b \in Nat : b = pos
        BY <1>11
      <3>2. /\ Stands(buf, b, RouteMessage(table[k])) /\ b + Len(RouteMessage(table[k])) = next'
            /\ pos' = b + 7
        BY <1>3, <1>4, <1>5, <2>5, <3>1
      <3>3. Walks(k, b)'
        BY <1>1, <2>5, <3>2 DEF Walks
      <3>4. \E x \in Defaults, c \in Nat : Walks(x, c)'
        BY <2>4, <3>3
      <3>5. QED
        BY <1>1, <1>3, <1>5, <1>9, <2>5, <3>4 DEF ReadInv
    <2>9. QED
      BY <1>10, <2>7, <2>8
  <1>13. CASE ~IsDefault(at(pos + 4))
    <2>1. pos' = next' /\ pc' = "message"
      BY <1>1, <1>13
    <2>2. TypeInv'
      BY <1>1, <1>5, <1>6, <2>1 DEF TypeInv
    <2>3. ReadInv'
      BY <1>1, <1>3, <1>5, <2>1 DEF ReadInv
    <2>4. QED
      BY <1>10, <2>2, <2>3
  <1>14. QED
    BY <1>12, <1>13

\* The attribute at pos.
\* The attribute at pos, while the attributes of route k are walked through.
LEMMA AttrAt ==
    ASSUME Inv, NEW k \in Defaults, NEW b \in Nat, Walks(k, b), pos + 1 <= next
    PROVE  LET r == table[k]
           IN  \/ /\ pos = b + 7 /\ at(pos) = Word("RTA_PRIORITY", 2, 0)
               \/ /\ r.gw # 0 /\ pos = b + 9 /\ at(pos) = Word("RTA_GATEWAY", 2, 0)
                  /\ at(pos + 1) = Value(r.gw)
               \/ /\ pos = IF r.gw = 0 THEN b + 9 ELSE b + 11
                  /\ at(pos) = Word("RTA_OIF", 2, 0) /\ at(pos + 1) = Value(r.oif)
  <1>1. PICK r \in Routes : r = table[k]
    BY DumpAssumption DEF Inv, TypeInv, Defaults
  <1>2. PICK m : m = RouteMessage(r)
    OBVIOUS
  <1>3. PICK a : a = Attrs(r)
    OBVIOUS
  <1>4. PICK l \in {4, 6} : l = Len(a) /\ (r.gw = 0 <=> l = 4)
    <2>1. r.gw = 0 => Len(a) = 4
      BY <1>3, AttrFacts
    <2>2. r.gw # 0 => Len(a) = 6
      BY <1>3, AttrFacts
    <2>3. QED
      BY <2>1, <2>2
  <1>5. Len(m) = 7 + l
    BY <1>2, <1>3, <1>4, RouteMessageFacts
  <1>6. /\ \A x \in 1 .. 7 + l : buf[b + x] = m[x]
        /\ b + (7 + l) = next /\ pos \in {b + 7, b + 9, b + 11, b + 13}
    BY <1>1, <1>2, <1>5 DEF Walks, Stands
  <1>7. \A x \in 1 .. l : buf[b + 7 + x] = a[x]
    <2> SUFFICES ASSUME NEW x \in 1 .. l PROVE buf[b + 7 + x] = a[x]
      OBVIOUS
    <2>1. m[7 + x] = a[x]
      BY <1>2, <1>3, <1>4, RouteMessageFacts
    <2>2. 7 + x \in 1 .. 7 + l /\ b + (7 + x) = b + 7 + x
      OBVIOUS
    <2>3. QED
      BY <1>6, <2>1, <2>2
  <1>8. pos \in {b + 7, b + 9} \/ (l = 6 /\ pos = b + 11)
    BY <1>6
  <1>9. CASE pos = b + 7
    <2>1. at(pos) = a[1]
      BY <1>4, <1>7, <1>9 DEF at
    <2>2. QED
      BY <1>3, <1>9, <2>1, AttrFacts
  <1>10. CASE pos = b + 9 /\ l = 4
    <2>1. at(pos) = a[3] /\ at(pos + 1) = a[4]
      BY <1>7, <1>10 DEF at
    <2>2. QED
      BY <1>1, <1>3, <1>4, <1>10, <2>1, AttrFacts
  <1>11. CASE pos = b + 9 /\ l = 6
    <2>1. at(pos) = a[3] /\ at(pos + 1) = a[4]
      BY <1>7, <1>11 DEF at
    <2>2. QED
      BY <1>1, <1>3, <1>4, <1>11, <2>1, AttrFacts
  <1>12. CASE pos = b + 11 /\ l = 6
    <2>1. at(pos) = a[5] /\ at(pos + 1) = a[6]
      BY <1>7, <1>12 DEF at
    <2>2. QED
      BY <1>1, <1>3, <1>4, <1>12, <2>1, AttrFacts
  <1>13. QED
    BY <1>4, <1>8, <1>9, <1>10, <1>11, <1>12

\* The walk goes on to the next attribute, or stays.
\* To the next attribute, or not: still inside the message of route k.
LEMMA WalkKept ==
    ASSUME Inv, pc = "attr", pc' = "attr",
           UNCHANGED <<table, unsent, dump, datagrams, queue, buf, n, endPos, next>>,
           NEW k \in Defaults, NEW b \in Nat, Walks(k, b), pos + 1 <= next,
           \/ pos' = pos
           \/ pos' = pos + at(pos)[2]
    PROVE  TypeInv' /\ ReadInv'
  <1> USE DEF Inv
  <1>1. endPos = next /\ next \in Nat /\ pos \in Nat /\ Len(buf) \in Nat /\ next <= Len(buf)
    BY DEF ReadInv, TypeInv, Datagrams
  <1>2. at(pos)[2] = 2
    <2>1. /\ Word("RTA_PRIORITY", 2, 0)[2] = 2 /\ Word("RTA_GATEWAY", 2, 0)[2] = 2
          /\ Word("RTA_OIF", 2, 0)[2] = 2
      BY DEF Word
    <2>2. QED
      BY <2>1, AttrAt
  <1>3. pos' \in {b + 7, b + 9, b + 11, b + 13} /\ pos' <= next
    <2>1. pos \in {b + 7, b + 9, b + 11}
      BY AttrAt
    <2>2. PICK l \in {4, 6} : b + 7 + l = next
      <3>1. PICK r \in Routes : r = table[k]
        BY DumpAssumption DEF TypeInv, Defaults
      <3>2. PICK l \in {4, 6} : l = Len(Attrs(r))
        BY AttrFacts
      <3>3. Len(RouteMessage(r)) = 7 + l
        BY <3>2, RouteMessageFacts
      <3>4. QED
        BY <3>1, <3>3 DEF Walks
    <2>3. QED
      BY <1>1, <1>2, <2>1, <2>2
  <1>4. Walks(k, b)'
    BY <1>3 DEF Walks
  <1>5. Defaults' = Defaults
    BY DEF Defaults
  <1>6. ReadInv'
    BY <1>4, <1>5 DEF ReadInv
  <1>7. pos' \in 0 .. Len(buf)
    BY <1>1, <1>3
  <1>8. TypeInv'
    BY <1>7 DEF TypeInv
  <1>9. QED
    BY <1>6, <1>8

LEMMA AttrsEndInv ==
    ASSUME Inv, AttrsEnd
    PROVE  Inv'
  <1> USE DEF Inv
  <1>1. /\ pc = "attr" /\ pos' = next /\ pc' = "message"
        /\ UNCHANGED <<table, unsent, dump, datagrams, queue, buf, n, endPos, next, gateway, ifindex>>
    BY DEF AttrsEnd, kernel, found
  <1>2. Defaults' = Defaults
    BY <1>1 DEF Defaults
  <1>3. TypeInv'
    BY <1>1 DEF TypeInv
  <1>4. ReadInv'
    BY <1>1 DEF ReadInv
  <1>5. LongInv' /\ FoundInv'
    BY <1>1, <1>2 DEF LongInv, FoundInv
  <1>6. QED
    BY <1>3, <1>4, <1>5

LEMMA AttrOtherInv ==
    ASSUME Inv, AttrOther
    PROVE  Inv'
  <1> USE DEF Inv
  <1>1. /\ pc = "attr" /\ pos + 1 <= endPos /\ pc' = "attr" /\ pos' = pos + at(pos)[2]
        /\ UNCHANGED <<table, unsent, dump, datagrams, queue, buf, n, endPos, next, gateway, ifindex>>
    BY DEF AttrOther, ReadsAttr, Advance, kernel, found
  <1>2. PICK k \in Defaults, b \in Nat : Walks(k, b)
    BY <1>1 DEF ReadInv
  <1>3. pos + 1 <= next
    BY <1>1 DEF ReadInv
  <1>4. TypeInv' /\ ReadInv'
    BY <1>1, <1>2, <1>3, WalkKept
  <1>5. Defaults' = Defaults
    BY <1>1 DEF Defaults
  <1>6. LongInv' /\ FoundInv'
    BY <1>1, <1>5 DEF LongInv, FoundInv
  <1>7. QED
    BY <1>4, <1>6

\* The gateway is a position behind the seventh word of a long datagram.
LEMMA AttrGatewayInv ==
    ASSUME Inv, AttrGateway
    PROVE  Inv'
  <1> USE DEF Inv
  <1>1. /\ pc = "attr" /\ pos + 1 <= endPos /\ at(pos)[1] = "RTA_GATEWAY"
        /\ pc' = "attr" /\ pos' = pos + at(pos)[2] /\ gateway' = pos + 1
        /\ UNCHANGED <<table, unsent, dump, datagrams, queue, buf, n, endPos, next, ifindex>>
    BY DEF AttrGateway, ReadsAttr, Advance, kernel
  <1>2. PICK k \in Defaults, b \in Nat : Walks(k, b)
    BY <1>1 DEF ReadInv
  <1>3. pos + 1 <= next
    BY <1>1 DEF ReadInv
  <1>4. TypeInv' /\ ReadInv'
    BY <1>1, <1>2, <1>3, WalkKept
  <1>5. Defaults' = Defaults
    BY <1>1 DEF Defaults
  <1>6. table[k].gw # 0 /\ pos = b + 9 /\ at(pos + 1) = Value(table[k].gw)
    <2>1. /\ Word("RTA_PRIORITY", 2, 0)[1] = "RTA_PRIORITY" /\ Word("RTA_OIF", 2, 0)[1] = "RTA_OIF"
      BY DEF Word
    <2>2. QED
      BY <1>1, <1>2, <1>3, <2>1, AttrAt
  <1>7. b + 13 = next /\ next <= Len(buf) /\ Len(buf) \in Nat /\ next <= n
    <2>1. PICK r \in Routes : r = table[k]
      BY DumpAssumption DEF TypeInv, Defaults
    <2>2. Len(RouteMessage(r)) = 13
      <3>1. Len(Attrs(r)) = 6
        BY <1>6, <2>1, AttrFacts
      <3>2. Len(RouteMessage(r)) = 7 + Len(Attrs(r))
        BY <2>1, RouteMessageFacts
      <3>3. QED
        BY <3>1, <3>2
    <2>3. PICK S : Cut(table, buf, n, S) /\ next \in S
      BY <1>1 DEF ReadInv
    <2>4. next \in 0 .. n /\ next \in 0 .. Len(buf)
      BY <2>3, MarkFacts
    <2>5. QED
      BY <1>2, <2>1, <2>2, <2>4 DEF Walks, TypeInv, Datagrams
  <1>8. gateway' = b + 10 /\ gateway' \in 7 .. Len(buf) - 1 /\ n > 7
    BY <1>1, <1>6, <1>7 DEF TypeInv
  <1>9. LongInv'
    <2>1. gateway' # Nil
      BY <1>8 DEF Nil
    <2>2. datagrams # 0
      BY <1>8 DEF LongInv, TypeInv
    <2>3. datagrams <= 1 => \A x \in DOMAIN queue : Len(queue[x]) <= 7
      BY <1>8 DEF LongInv
    <2>4. QED
      BY <1>1, <2>2, <2>3 DEF LongInv
  <1>10. FoundInv'
    <2>1. buf[gateway' + 1] = Value(table[k].gw)
      BY <1>1, <1>6 DEF at
    <2>2. QED
      BY <1>1, <1>5, <1>8, <2>1 DEF FoundInv
  <1>11. QED
    BY <1>4, <1>9, <1>10

LEMMA AttrOIFInv ==
    ASSUME Inv, AttrOIF
    PROVE  Inv'
  <1> USE DEF Inv
  <1>1. /\ pc = "attr" /\ pos + 1 <= endPos /\ at(pos)[1] = "RTA_OIF" /\ pc' = "attr"
        /\ \/ ifindex' = at(pos + 1)[2] /\ pos' = pos + at(pos)[2]
           \/ ifindex' = ifindex /\ pos' = pos
        /\ UNCHANGED <<table, unsent, dump, datagrams, queue, buf, n, endPos, next, gateway>>
    BY DEF AttrOIF, ReadsAttr, Advance, kernel
  <1>2. PICK k \in Defaults, b \in Nat : Walks(k, b)
    BY <1>1 DEF ReadInv
  <1>3. pos + 1 <= next
    BY <1>1 DEF ReadInv
  <1>4. TypeInv' /\ ReadInv'
    BY <1>1, <1>2, <1>3, WalkKept
  <1>5. Defaults' = Defaults
    BY <1>1 DEF Defaults
  <1>6. at(pos + 1) = Value(table[k].oif)
    <2>1. /\ Word("RTA_PRIORITY", 2, 0)[1] = "RTA_PRIORITY"
          /\ Word("RTA_GATEWAY", 2, 0)[1] = "RTA_GATEWAY"
      BY DEF Word
    <2>2. QED
      BY <1>1, <1>2, <1>3, <2>1, AttrAt
  <1>7. at(pos + 1)[2] = table[k].oif
    BY <1>6 DEF Value, Word
  <1>8. ifindex' = 0 \/ \E x \in Defaults : ifindex' = table[x].oif
    BY <1>1, <1>7 DEF FoundInv
  <1>9. LongInv' /\ FoundInv'
    BY <1>1, <1>5, <1>8 DEF LongInv, FoundInv
  <1>10. QED
    BY <1>4, <1>9

LEMMA StepInv == Inv /\ [Next]_vars => Inv'
  <1> SUFFICES ASSUME Inv, [Next]_vars PROVE Inv'
    OBVIOUS
  <1>1. CASE Dump \/ Interfere \/ LinkGoes
    BY <1>1, DumpRouteInv, DumpInv, LinkGoesInv DEF Dump
  <1>2. CASE Recv \/ RecvFails
    BY <1>2, RecvInv, EndsInv
  <1>3. CASE Parse
    BY <1>3, EndsInv, SkipMessageInv, MessageRouteInv, AttrsEndInv, AttrGatewayInv,
       AttrOtherInv, AttrOIFInv DEF Parse
  <1>4. CASE UNCHANGED vars
    <2>1. UNCHANGED <<table, unsent, dump, datagrams, queue, reader>>
      BY <1>4 DEF vars, reader, found
    <2>2. UNCHANGED <<buf, n, pos, endPos, next, gateway, ifindex, pc>>
      BY <2>1 DEF reader, found
    <2>3. TypeInv' /\ LongInv'
      BY <2>1, <2>2 DEF Inv, TypeInv, LongInv
    <2>4. ReadInv' /\ FoundInv'
      BY <2>1, ReaderKept DEF Inv, TypeInv
    <2>5. QED
      BY <2>3, <2>4 DEF Inv
  <1>5. QED
    BY <1>1, <1>2, <1>3, <1>4 DEF Next, Terminated

LEMMA SpecInv == Spec => []Inv
  BY InitInv, StepInv, PTL DEF Spec

-----------------------------------------------------------------------------
\* Every state of recvDefaultRoute is well typed: no position of it, and no
\* gateway slice, is outside the buffer, whatever the routes and datagrams.
THEOREM DumpTyping == Spec => []TypeOK
  <1>1. Inv => TypeOK
    <2> SUFFICES ASSUME Inv PROVE TypeOK
      OBVIOUS
    <2>1. ifindex \in {0} \cup {table[k].oif : k \in DOMAIN table}
      BY DEF Inv, FoundInv, Defaults
    <2>2. gateway \in {Nil} \cup 7 .. Len(buf) - 1
      BY DEF Inv, FoundInv, TypeInv, Datagrams
    <2>3. QED
      BY <2>1, <2>2 DEF Inv, TypeInv, TypeOK
  <1>2. QED
    BY <1>1, SpecInv, PTL

(***************************************************************************)
(* What recvDefaultRoute returns is the interface of the default route and *)
(* the gateway that goes with it, for every routing table with at most one *)
(* default route, however the kernel cuts the dump into datagrams, with    *)
(* any number of short route messages of other requests in between.  The   *)
(* gateway is right when the routes come in one datagram.                  *)
(***************************************************************************)
THEOREM OriginalRouteIsFound == Spec => []OriginalRoute
  <1>1. Inv => OriginalRoute
    <2> SUFFICES ASSUME Inv, pc = "returned", Cardinality(Defaults) <= 1
                 PROVE  \E k \in Defaults :
                          /\ ifindex = table[k].oif
                          /\ datagrams <= 1 => at(gateway) = Value(table[k].gw)
      BY DEF OriginalRoute
    <2>1. PICK k \in Defaults : ifindex = table[k].oif
      BY DEF Inv, FoundInv
    <2>2. ASSUME NEW x \in Defaults PROVE x = k
      <3> SUFFICES ASSUME x # k PROVE FALSE
        OBVIOUS
      <3>1. table \in Seq(Routes)
        BY DumpAssumption DEF Inv, TypeInv
      <3>2. Defaults \subseteq 1 .. Len(table) /\ IsFiniteSet(1 .. Len(table))
        <4>1. 1 \in Int /\ Len(table) \in Int /\ DOMAIN table = 1 .. Len(table)
          BY <3>1
        <4>2. IsFiniteSet(1 .. Len(table))
          BY <4>1, FS_Interval, Zenon
        <4>3. Defaults \subseteq 1 .. Len(table)
          BY <4>1 DEF Defaults
        <4>4. QED
          BY <4>2, <4>3
      <3>3. IsFiniteSet(Defaults)
        BY <3>2, FS_Subset
      <3>4. Cardinality({k, x}) = 2 /\ {k, x} \subseteq Defaults
        <4>1. IsFiniteSet({k}) /\ Cardinality({k}) = 1
          BY FS_Singleton, Zenon
        <4>2. x \notin {k} /\ {k, x} = {k} \cup {x}
          OBVIOUS
        <4>3. Cardinality({k} \cup {x}) = Cardinality({k}) + 1
          BY <4>1, <4>2, FS_AddElement
        <4>4. QED
          BY <4>1, <4>2, <4>3
      <3>5. Cardinality({k, x}) <= Cardinality(Defaults)
        BY <3>3, <3>4, FS_Subset
      <3>6. QED
        BY <3>3, <3>4, <3>5, FS_CardinalityType
    <2>3. datagrams <= 1 => at(gateway) = Value(table[k].gw)
      BY <2>2 DEF Inv, FoundInv, at
    <2>4. QED
      BY <2>1, <2>3
  <1>2. QED
    BY <1>1, SpecInv, PTL
=============================================================================
