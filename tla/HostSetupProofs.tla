-------------------------- MODULE HostSetupProofs ---------------------------
(***************************************************************************)
(* Proofs that elevpn undoes on its host what it did there and nothing     *)
(* else, for every list of bypass routes, every way in which requests go   *)
(* wrong, and any number of starts and kills; and, at the end, that the    *)
(* addresses of peers are sound and the masquerade rule is exact, for      *)
(* every network.                                                          *)
(***************************************************************************)
EXTENDS HostSetup, TLAPS

Tun0 == DefaultVia("tun", 0)
Entries == {ServerIP} \cup Remotes
TunSteps == {"create", "mtu", "addr", "mask", "up"}

Host ==
    [tun     : SUBSET TunSteps,
     forward : {0, 1},
     table   : BOOLEAN,
     default : SUBSET [via : {"gateway", "tun"}, metric : Nat],
     hosts   : SUBSET (OwnHosts \cup Entries)]

Idle == {"exited", "killed"}

TypeInv ==
    /\ side \in {"server", "client"}
    /\ pc \in Idle \cup {"detect", "apply", "rollback", "running", "cleanup", "exiting"}
    /\ host \in Host /\ found \in Host
    /\ i \in Nat /\ j \in Nat /\ applied \in Nat
    /\ prev \in {Nil, 0, 1}
    /\ bypass \in Seq(Entries)

\* The number of components.
Number == IF side = "server" THEN 3 ELSE 2

(***************************************************************************)
(* Where ApplyAll and Teardown are.  The last component is applied only    *)
(* when none failed, so it is cleaned up once.                             *)
(***************************************************************************)
PlaceInv ==
    /\ pc = "apply" => i \in 1 .. Number /\ applied = i - 1
    /\ pc = "running" => applied = Number
    /\ pc = "rollback" => side = "client" /\ i = 2 /\ applied = 1 /\ j <= Len(bypass)
    /\ pc = "cleanup" => i <= applied /\ applied <= Number
    /\ pc = "cleanup" => applied < Number \/ caller = "Run"
    /\ side = "client" /\ pc = "apply" /\ i = 2 => j \in 1 .. Len(bypass) + 1
    /\ pc = "cleanup" /\ side = "client" /\ i = 2 => j <= Len(bypass) + 1
    /\ pc = "detect" => side = "client" /\ i = 1 /\ applied = 0
    /\ pc \in {"detect", "apply", "running"} => harm = {}

\* The TUN device is there while something else is applied, and never when
\* elevpn does not run.
TunInv ==
    /\ found.tun = {}
    /\ pc \in Idle => host.tun = {}
    /\ pc \in {"apply", "running"} /\ (pc = "apply" => i > 1) => "up" \in host.tun

\* Nothing has gone wrong that can leave something behind.
Harmless == harm \subseteq DoOps \X {"refused", "invalid"}

\* The bypass list without its first entry has no address twice.
ListInv ==
    /\ side = "client" /\ pc \notin Idle => Len(bypass) > 0 /\ bypass[1] = ServerIP
    /\ \A a, b \in 2 .. Len(bypass) : bypass[a] = bypass[b] => a = b

\* The host routes 1 .. Placed of the list are elevpn's own.
Placed ==
    IF side # "client" THEN 0
    ELSE CASE pc = "apply" /\ i = 2 -> j - 1
           [] pc = "rollback" -> j
           [] pc = "running" -> Len(bypass)
           [] pc = "cleanup" /\ i = 2 -> IF j > Len(bypass) THEN Len(bypass) ELSE j
           [] OTHER -> 0

HostsInv ==
    /\ \A k \in 1 .. Placed : bypass[k] \in host.hosts
    /\ \A a, b \in 1 .. Placed : bypass[a] = bypass[b] => a = b
    /\ pc # "killed" /\ Harmless =>
        /\ host.hosts = found.hosts \cup {bypass[k] : k \in 1 .. Placed}
        /\ \A k \in 1 .. Placed : bypass[k] \notin found.hosts

\* ip_forward.
ForwardInv ==
    /\ side = "client" /\ pc # "killed" => host.forward = found.forward
    /\ side = "server" /\ pc # "killed" /\ Harmless =>
        /\ applied < 2 \/ pc \in {"exited", "exiting"} \/ (pc = "cleanup" /\ i < 2)
               => host.forward = found.forward
        /\ applied >= 2 => prev = found.forward
    /\ side = "server" /\ applied >= 2 => prev # Nil

\* The nftables table.
TableInv ==
    /\ side = "server" /\ (pc = "running" \/ (pc = "cleanup" /\ i = 3)) => host.table
    /\ pc # "killed" /\ Harmless =>
        IF side = "server" /\ applied = 3 /\ (pc = "running" \/ (pc = "cleanup" /\ i = 3))
        THEN ~found.table
        ELSE host.table = found.table

\* The default route leads into the tunnel between the two requests.
Tunnelled ==
    /\ side = "client"
    /\ pc = "running" \/ (pc = "cleanup" /\ i = 2 /\ j > Len(bypass))

BypassInv ==
    /\ \A r \in host.default : r.via = "tun" => r.metric = 0
    /\ Tun0 \in host.default => pc \notin Idle \cup {"detect", "apply"}
    /\ Tun0 \in host.default /\ <<"replace", "lost">> \notin harm =>
        /\ pc # "rollback"
        /\ pc = "cleanup" /\ i = 2 => j > Len(bypass)
        /\ side = "client"
        /\ applied = 2
        /\ ToSet(bypass) \subseteq host.hosts

\* The default routes with a metric, and those of a host that has in
\* addition one that elevpn has set.
WithMetric(routes) == {r \in routes : r.metric # 0}
Beside(via) == WithMetric(found.default) \cup {DefaultVia(via, 0)}

\* The default routes while nothing has gone wrong: as they were found until
\* the replace, and with one through the gateway after the restore.
DefaultNow ==
    IF Tunnelled THEN Beside("tun")
    ELSE IF side = "client" /\ applied = 2 THEN Beside("gateway")
    ELSE found.default

DefaultInv ==
    /\ \A r \in found.default : r.via = "gateway"
    /\ WithMetric(host.default) = WithMetric(found.default)
    /\ pc # "killed" /\ {<<"restore", "refused">>, <<"replace", "lost">>} \cap harm = {} =>
           host.default = DefaultNow

Inv ==
    /\ TypeInv /\ PlaceInv /\ TunInv /\ ListInv /\ HostsInv
    /\ ForwardInv /\ TableInv /\ BypassInv /\ DefaultInv
    /\ UndoMatchesDo /\ RefusedForCause

-----------------------------------------------------------------------------
\* The components by their place.
LEMMA ComponentFacts ==
    ASSUME TypeInv
    PROVE  /\ Len(Components) = Number /\ Number \in 2 .. 3
           /\ side = "server" => Number = 3
           /\ side = "client" => Number = 2
           /\ Components[1] = "tun"
           /\ \A k \in 1 .. Number :
                /\ Components[k] = "tun" => k = 1
                /\ Components[k] = "forward" => side = "server" /\ k = 2
                /\ Components[k] = "masquerade" => side = "server" /\ k = 3
                /\ Components[k] = "route" => side = "client" /\ k = 2
  BY DEF TypeInv, Components, Number

\* A request: what it may do to the host, and what it leaves on record.
LEMMA RequestFacts ==
    ASSUME NEW op \in Ops, NEW valid, NEW o \in Outcomes(op, valid),
           NEW effect, Request(op, o, effect)
    PROVE  /\ o \in {"ok", "refused", "lost", "invalid"}
           /\ o = "invalid" <=> ~valid
           /\ host' = IF o \in {"ok", "lost"} THEN effect ELSE host
           /\ \A x : x \in harm' <=> x \in harm \/ (o # "ok" /\ x = <<op, o>>)
           /\ Harmless' =>
                Harmless /\ (o = "ok" \/ (op \in DoOps /\ o \in {"refused", "invalid"}))
<1>1. Faults[op] \subseteq {"refused", "lost"}
  BY HostAssumption
<1>2. o \in {"ok", "refused", "lost", "invalid"} /\ (o = "invalid" <=> ~valid)
  BY <1>1 DEF Outcomes
<1>3. \A x : x \in harm' <=> x \in harm \/ (o # "ok" /\ x = <<op, o>>)
  BY DEF Request
<1>4. Harmless' => Harmless /\ (o = "ok" \/ <<op, o>> \in DoOps \X {"refused", "invalid"})
  BY <1>3 DEF Harmless
<1>5. QED
  BY <1>2, <1>3, <1>4 DEF Request

\* A request that undoes something, on a host that has it.
LEMMA UndoFacts ==
    ASSUME NEW op \in UndoOps, NEW valid, valid, NEW o \in Outcomes(op, valid),
           NEW effect, Request(op, o, effect)
    PROVE  /\ o \in {"ok", "refused", "lost"}
           /\ host' = IF o \in {"ok", "lost"} THEN effect ELSE host
           /\ \A x : x \in harm' <=> x \in harm \/ (o # "ok" /\ x = <<op, o>>)
<1>1. op \in Ops
  BY DEF UndoOps, Ops
<1>2. o \in {"ok", "refused", "lost"}
  BY <1>1, HostAssumption DEF Outcomes
<1>3. QED
  BY <1>2 DEF Request

\* A step that leaves the default routes alone.
LEMMA SameDefault ==
    ASSUME DefaultInv, host'.default = host.default, UNCHANGED <<found, side>>,
           pc # "killed", harm \subseteq harm', Tunnelled' <=> Tunnelled,
           side = "client" => (applied' = 2 <=> applied = 2)
    PROVE  DefaultInv'
<1>1. DefaultNow' = DefaultNow
  BY DEF DefaultNow, Beside, WithMetric
<1>2. QED
  BY <1>1 DEF DefaultInv, WithMetric

\* A step with which the device goes, and a default route over it.
LEMMA TunGone ==
    ASSUME TypeInv, BypassInv, DefaultInv,
           host'.default = {r \in host.default : r.via # "tun"},
           UNCHANGED <<found, side, applied>>, harm \subseteq harm',
           pc' # "killed" => pc # "killed" /\ ~Tunnelled /\ ~Tunnelled'
    PROVE  DefaultInv'
<1>1. WithMetric(host'.default) = WithMetric(host.default)
  BY DEF WithMetric, BypassInv
<1>2. \A r \in found'.default : r.via = "gateway"
  BY DEF DefaultInv
<1>3. ASSUME pc' # "killed", {<<"restore", "refused">>, <<"replace", "lost">>} \cap harm' = {}
      PROVE  host'.default = DefaultNow'
  <2>1. host.default = DefaultNow
    BY <1>3 DEF DefaultInv
  <2>2. DefaultNow' = DefaultNow
    BY <1>3 DEF DefaultNow, Beside, WithMetric
  <2>3. \A r \in DefaultNow : r.via # "tun"
    BY <1>3 DEF DefaultNow, Beside, WithMetric, DefaultVia, DefaultInv
  <2>4. QED
    BY <2>1, <2>2, <2>3
<1>4. WithMetric(found'.default) = WithMetric(found.default)
  OBVIOUS
<1>5. QED
  BY <1>1, <1>2, <1>3, <1>4 DEF DefaultInv

-----------------------------------------------------------------------------
\* Any host that elevpn has not touched.
LEMMA InitInv == Init => Inv
<1> SUFFICES ASSUME Init PROVE Inv
  OBVIOUS
<1>1. PICK forward \in {0, 1}, hosts \in SUBSET OwnHosts, metric \in Metrics :
        host = Untouched(forward, hosts, metric)
  BY DEF Init
<1>2. host \in Host /\ found = host
  BY <1>1, HostAssumption DEF Init, Host, Untouched, DefaultVia
<1>3. TypeInv /\ PlaceInv /\ TunInv /\ ListInv
  <2>1. TypeInv
    <3>1. bypass \in Seq(Entries)
      BY DEF Init
    <3>2. prev \in {Nil, 0, 1} /\ side \in {"server", "client"}
      BY DEF Init
    <3>3. QED
      BY <1>2, <3>1, <3>2 DEF Init, TypeInv, Idle
  <2>2. PlaceInv /\ TunInv
    BY <1>1, <1>2 DEF Init, PlaceInv, TunInv, Untouched
  <2>3. ListInv
    BY DEF Init, ListInv, Idle
  <2>4. QED
    BY <2>1, <2>2, <2>3
<1>4. HostsInv /\ ForwardInv /\ TableInv
  BY <1>2 DEF Init, HostsInv, ForwardInv, TableInv, Placed
<1>5. BypassInv /\ DefaultInv
  BY <1>1, <1>2
     DEF Init, BypassInv, DefaultInv, DefaultNow, Tunnelled, Untouched, DefaultVia, Tun0
<1>6. UndoMatchesDo /\ RefusedForCause
  BY DEF Init, UndoMatchesDo, RefusedForCause
<1>7. QED
  BY <1>3, <1>4, <1>5, <1>6 DEF Inv

\* A start takes the host as it is, with what a killed run has left there.
LEMMA BeginInv ==
    ASSUME Inv, Begin
    PROVE  Inv'
<1> USE DEF Inv
<1>1. pc \in Idle /\ pc' \notin Idle /\ harm' = {} /\ host' = host /\ found' = host
  BY DEF Begin, Idle
<1>2. TypeInv' /\ PlaceInv'
  <2>1. TypeInv'
    <3>1. bypass' \in Seq(Entries)
      <4>1. <<>> \in Seq(Entries) /\ <<ServerIP>> \in Seq(Entries)
        BY DEF Entries
      <4>2. QED
        BY <4>1 DEF Begin
    <3>2. QED
      BY <1>1, <3>1 DEF Begin, TypeInv, Idle
  <2>2. PlaceInv'
    BY DEF Begin, TypeInv, PlaceInv, Number, Idle
  <2>3. QED
    BY <2>1, <2>2
<1>3. TunInv' /\ ListInv'
  BY DEF Begin, TypeInv, TunInv, ListInv, Idle
<1>4. HostsInv' /\ ForwardInv' /\ TableInv'
  BY <1>1 DEF Begin, TypeInv, HostsInv, ForwardInv, TableInv, Placed, Idle
<1>5. BypassInv' /\ DefaultInv'
  <2>1. Tun0 \notin host.default
    BY <1>1 DEF BypassInv
  <2>2. BypassInv'
    BY <1>1, <2>1 DEF BypassInv, Tun0, DefaultVia
  <2>3. \A r \in host.default : r.via = "gateway"
    BY <2>1 DEF BypassInv, TypeInv, Host, Tun0, DefaultVia
  <2>4. ~Tunnelled' /\ applied' = 0
    BY DEF Begin, Tunnelled
  <2>5. DefaultInv'
    BY <1>1, <2>3, <2>4 DEF DefaultInv, DefaultNow
  <2>6. QED
    BY <2>2, <2>5
<1>6. UndoMatchesDo' /\ RefusedForCause'
  BY <1>1 DEF UndoMatchesDo, RefusedForCause
<1>7. QED
  BY <1>2, <1>3, <1>4, <1>5, <1>6

\* The list of bypass routes is built; nothing is asked of the kernel.
LEMMA DetectInv ==
    ASSUME Inv, (\E ip \in Remotes : Detect(ip)) \/ DetectFails \/ BuildBypass
    PROVE  Inv'
<1> USE DEF Inv
<1>1. /\ pc = "detect" /\ pc' \in {"detect", "apply"}
      /\ UNCHANGED <<host, i, j, applied, caller, harm, side, found, prev, starts>>
  BY DEF Detect, DetectFails, BuildBypass, position, memory
<1>2. bypass' \in Seq(Entries) /\ ListInv'
  <2>1. CASE \E ip \in Remotes : Detect(ip)
    <3>1. PICK ip \in Remotes : Detect(ip)
      BY <2>1
    <3>2. CASE Contains(Tail(bypass), ip)
      BY <1>1, <3>1, <3>2 DEF Detect, Seen, TypeInv, ListInv, Idle
    <3>3. CASE ~Contains(Tail(bypass), ip)
      <4>1. bypass' = Append(bypass, ip) /\ ip \in Entries
        BY <3>1, <3>3 DEF Detect, Seen, Entries
      <4>2. \A k \in 2 .. Len(bypass) : bypass[k] # ip
        <5> SUFFICES ASSUME NEW k \in 2 .. Len(bypass) PROVE bypass[k] # ip
          OBVIOUS
        <5>1. Len(bypass) \in Nat /\ bypass # <<>>
          BY DEF TypeInv
        <5>2. k - 1 \in 1 .. Len(Tail(bypass)) /\ Tail(bypass)[k - 1] = bypass[k]
          BY <5>1 DEF TypeInv
        <5>3. QED
          BY <3>3, <5>2 DEF Contains
      <4>3. QED
        BY <1>1, <4>1, <4>2 DEF TypeInv, ListInv, Idle
    <3>4. QED
      BY <3>2, <3>3
  <2>2. CASE DetectFails
    BY <1>1, <2>2 DEF DetectFails, TypeInv, ListInv, Entries
  <2>3. CASE BuildBypass
    BY <1>1, <2>3 DEF BuildBypass, TypeInv, ListInv, memory, Idle
  <2>4. QED
    BY <2>1, <2>2, <2>3
<1>3. TypeInv' /\ PlaceInv' /\ TunInv'
  BY <1>1, <1>2 DEF TypeInv, PlaceInv, Number, TunInv, Idle
<1>4. HostsInv' /\ ForwardInv' /\ TableInv'
  BY <1>1, <1>2 DEF TypeInv, PlaceInv, HostsInv, ForwardInv, TableInv, Placed, Harmless
<1>5. BypassInv' /\ UndoMatchesDo' /\ RefusedForCause'
  BY <1>1, <1>2 DEF TypeInv, PlaceInv, BypassInv, UndoMatchesDo, RefusedForCause
<1>6. DefaultInv'
  <2>1. ~Tunnelled /\ ~Tunnelled'
    BY <1>1 DEF Tunnelled
  <2>2. QED
    BY <1>1, <2>1, SameDefault
<1>7. QED
  BY <1>2, <1>3, <1>4, <1>5, <1>6

-----------------------------------------------------------------------------
(***************************************************************************)
(* The TUN device.  Only its own field of the host is concerned, and what  *)
(* a failure leaves goes with the process.                                 *)
(***************************************************************************)
LEMMA TunStepInv ==
    ASSUME Inv, NEW op \in TunSteps, NEW o \in Outcomes(op, TRUE),
           Applying("tun"),
           Request(op, o, [host EXCEPT !.tun = @ \cup {op}]),
           IF o = "ok" THEN IF op = "up" THEN Applied ELSE UNCHANGED position
                       ELSE ApplyFails,
           UNCHANGED memory
    PROVE  Inv'
<1> USE DEF Inv
<1>1. pc = "apply" /\ i = 1 /\ applied = 0 /\ harm = {} /\ Harmless /\ Placed = 0
  BY ComponentFacts DEF Applying, PlaceInv, Harmless, Placed
<1>2. /\ o \in {"ok", "refused", "lost"}
      /\ host' = IF o \in {"ok", "lost"} THEN [host EXCEPT !.tun = @ \cup {op}] ELSE host
      /\ \A x : x \in harm' <=> o # "ok" /\ x = <<op, o>>
      /\ Harmless' => o \in {"ok", "refused"}
  <2>1. op \in Ops
    BY DEF Ops, TunSteps
  <2>2. QED
    BY <1>1, <2>1, RequestFacts
<1>3. UNCHANGED <<side, found, prev, bypass, starts>>
  BY DEF memory
<1>4. \/ o = "ok" /\ op # "up" /\ UNCHANGED <<pc, i, j, applied, caller>>
      \/ o = "ok" /\ op = "up" /\ pc' = "apply" /\ i' = 2 /\ j' = 1 /\ applied' = 1
         /\ UNCHANGED caller
      \/ o # "ok" /\ pc' = "cleanup" /\ i' = 0 /\ j' = Len(bypass) + 1 /\ applied' = 0
         /\ caller' = "ApplyAll"
  <2>1. CASE o = "ok" /\ op # "up"
    BY <2>1 DEF position
  <2>2. CASE o = "ok" /\ op = "up"
    <3>1. Len(Components) # 1
      BY ComponentFacts
    <3>2. QED
      BY <1>1, <2>2, <3>1 DEF Applied
  <2>3. CASE o # "ok"
    BY <1>1, <2>3 DEF ApplyFails, Teardown, LastApplied
  <2>4. QED
    BY <2>1, <2>2, <2>3
<1>5. /\ host' \in Host
      /\ host'.forward = host.forward /\ host'.table = host.table
      /\ host'.default = host.default /\ host'.hosts = host.hosts
      /\ o = "ok" => op \in host'.tun
  BY <1>2 DEF TypeInv, Host
<1>6. TypeInv' /\ PlaceInv'
  <2>1. TypeInv'
    BY <1>1, <1>3, <1>4, <1>5 DEF TypeInv
  <2>2. Number' = Number /\ Number \in 2 .. 3
    BY <1>3, ComponentFacts DEF Number
  <2>3. o = "ok" => harm' = {}
    BY <1>2
  <2>4. QED
    BY <1>1, <1>3, <1>4, <2>1, <2>2, <2>3 DEF TypeInv, PlaceInv
<1>7. TunInv' /\ ListInv'
  BY <1>1, <1>3, <1>4, <1>5 DEF TypeInv, TunInv, ListInv, Idle
<1>8. HostsInv'
  <2>1. Placed' = 0
    BY <1>1, <1>3, <1>4 DEF Placed
  <2>2. QED
    BY <1>1, <1>3, <1>4, <1>5, <2>1 DEF TypeInv, HostsInv
<1>9. ForwardInv' /\ TableInv'
  BY <1>1, <1>3, <1>4, <1>5 DEF TypeInv, ForwardInv, TableInv
<1>10. BypassInv' /\ DefaultInv'
  <2>1. Tun0 \notin host.default
    BY <1>1 DEF BypassInv
  <2>2. BypassInv'
    BY <1>5, <2>1 DEF BypassInv, Tun0
  <2>3. ~Tunnelled /\ ~Tunnelled'
    BY <1>1, <1>3, <1>4 DEF Tunnelled
  <2>4. applied' # 2 /\ harm \subseteq harm'
    BY <1>1, <1>2, <1>4
  <2>5. DefaultInv'
    BY <1>1, <1>3, <1>5, <2>3, <2>4, SameDefault
  <2>6. QED
    BY <2>2, <2>5
<1>11. UndoMatchesDo' /\ RefusedForCause'
  BY <1>2, <1>3 DEF UndoMatchesDo, RefusedForCause, TunSteps
<1>12. QED
  BY <1>6, <1>7, <1>8, <1>9, <1>10, <1>11

\* All of Tun.Apply.
LEMMA TunApplyInv ==
    ASSUME Inv, Create \/ SetMTU \/ SetIPv4CIDR \/ SetNetmask \/ Up
    PROVE  Inv'
<1>1. PICK op \in TunSteps :
        /\ Applying("tun") /\ UNCHANGED memory
        /\ \E o \in Outcomes(op, TRUE) :
            /\ Request(op, o, [host EXCEPT !.tun = @ \cup {op}])
            /\ IF o = "ok" THEN IF op = "up" THEN Applied ELSE UNCHANGED position
                           ELSE ApplyFails
  BY DEF Create, SetMTU, SetIPv4CIDR, SetNetmask, Up, TunStep, ApplyStep, TunSteps
<1>2. QED
  BY <1>1, TunStepInv

\* The place of Cleanup, and what follows its return.
LEMMA CleaningFacts ==
    ASSUME Inv, NEW c, Cleaning(c)
    PROVE  /\ pc = "cleanup" /\ i \in 1 .. Number /\ i <= applied
           /\ Components[i] = c
           /\ i - 1 \in Nat /\ Len(bypass) + 1 \in Nat
  BY ComponentFacts DEF Inv, Cleaning, TypeInv, PlaceInv

\* Tun.Cleanup closes the device; a default route over it goes too.
LEMMA CleanupTunInv ==
    ASSUME Inv, CleanupTun
    PROVE  Inv'
<1> USE DEF Inv
<1>1. pc = "cleanup" /\ i = 1 /\ i <= applied /\ Placed = 0
  BY CleaningFacts, ComponentFacts DEF CleanupTun, Placed
<1>2. /\ pc' = "cleanup" /\ i' = 0 /\ j' = Len(bypass) + 1
      /\ UNCHANGED <<applied, caller, side, found, prev, bypass, starts>>
  <2>1. CleanedUp /\ UNCHANGED memory
    BY DEF CleanupTun, CleanupStep
  <2>2. QED
    BY <1>1, <2>1 DEF CleanedUp, memory
<1>3. /\ host' = host \/ host' = RemoveTun(host)
      /\ harm' = harm \/ \E o \in {"refused", "lost"} : harm' = harm \cup {<<"close", o>>}
  <2>1. CASE host.tun = {}
    BY <2>1 DEF CleanupTun
  <2>2. CASE host.tun # {}
    <3>1. PICK o \in Outcomes("close", TRUE) : Request("close", o, RemoveTun(host))
      BY <2>2 DEF CleanupTun, CleanupStep
    <3>2. Faults["close"] \subseteq {"refused", "lost"}
      BY HostAssumption DEF Ops
    <3>3. QED
      BY <3>1, <3>2 DEF Outcomes, Request
  <2>3. QED
    BY <2>1, <2>2
<1>4. /\ host' \in Host
      /\ host'.forward = host.forward /\ host'.table = host.table
      /\ host'.hosts = host.hosts
      /\ \/ host'.default = host.default
         \/ host'.default = {r \in host.default : r.via # "tun"}
  BY <1>3 DEF TypeInv, Host, RemoveTun
<1>5. Harmless' => Harmless
  BY <1>3 DEF Harmless
<1>6. TypeInv' /\ PlaceInv'
  <2>1. Number' = Number /\ Number \in 2 .. 3
    BY <1>2 DEF Number
  <2>2. QED
    BY <1>1, <1>2, <1>4, <2>1 DEF TypeInv, PlaceInv
<1>7. TunInv' /\ ListInv'
  BY <1>1, <1>2 DEF TypeInv, TunInv, ListInv, Idle
<1>8. HostsInv'
  <2>1. Placed' = 0
    BY <1>2 DEF Placed
  <2>2. QED
    BY <1>1, <1>2, <1>4, <1>5, <2>1 DEF TypeInv, HostsInv
<1>9. ForwardInv' /\ TableInv'
  BY <1>1, <1>2, <1>4, <1>5 DEF TypeInv, ForwardInv, TableInv
<1>10. BypassInv' /\ DefaultInv'
  <2>1. BypassInv'
    BY <1>1, <1>2, <1>3, <1>4 DEF TypeInv, BypassInv, Tun0
  <2>2. ~Tunnelled /\ ~Tunnelled'
    BY <1>1, <1>2 DEF Tunnelled
  <2>3. harm \subseteq harm'
    BY <1>3
  <2>4. DefaultInv'
    BY <1>1, <1>2, <1>4, <2>2, <2>3, SameDefault, TunGone
  <2>5. QED
    BY <2>1, <2>4
<1>11. UndoMatchesDo' /\ RefusedForCause'
  BY <1>2, <1>3 DEF UndoMatchesDo, RefusedForCause
<1>12. QED
  BY <1>6, <1>7, <1>8, <1>9, <1>10, <1>11

-----------------------------------------------------------------------------
(***************************************************************************)
(* The components of the server.  Its hosts and default routes are not     *)
(* touched, and no step of it is about the bypass list.                    *)
(***************************************************************************)
LEMMA ServerOnly ==
    ASSUME Inv, side = "server", host' \in Host,
           host'.hosts = host.hosts, host'.default = host.default, host'.tun = host.tun,
           pc \in {"apply", "cleanup"}, pc' \in {"apply", "running", "cleanup"},
           pc = "cleanup" => pc' = "cleanup", pc = "apply" => i >= 2,
           UNCHANGED <<side, found, bypass>>, harm \subseteq harm'
    PROVE  TunInv' /\ ListInv' /\ HostsInv' /\ BypassInv' /\ DefaultInv'
<1> USE DEF Inv
<1>1. Placed = 0 /\ Placed' = 0 /\ ~Tunnelled /\ ~Tunnelled'
  BY DEF Placed, Tunnelled
<1>2. Harmless' => Harmless
  BY DEF Harmless
<1>3. TunInv' /\ ListInv'
  BY DEF TypeInv, TunInv, ListInv, Idle
<1>4. HostsInv'
  BY <1>1, <1>2 DEF TypeInv, HostsInv
<1>5. BypassInv'
  BY DEF TypeInv, BypassInv, Tun0, Idle
<1>6. DefaultInv'
  BY <1>1, SameDefault
<1>7. QED
  BY <1>3, <1>4, <1>5, <1>6

\* IPForward.Apply keeps the value it found before it writes.
LEMMA ApplyForwardInv ==
    ASSUME Inv, ApplyForward
    PROVE  Inv'
<1> USE DEF Inv
<1>1. side = "server" /\ pc = "apply" /\ i = 2 /\ applied = 1 /\ harm = {} /\ Harmless
      /\ Number = 3
  BY ComponentFacts DEF ApplyForward, Applying, PlaceInv, Harmless
<1>2. PICK o \in Outcomes("forward", TRUE) :
        ApplyStep("forward", o, [host EXCEPT !.forward = 1], Applied)
  BY DEF ApplyForward
<1>3. /\ o \in {"ok", "refused", "lost"}
      /\ host' = IF o \in {"ok", "lost"} THEN [host EXCEPT !.forward = 1] ELSE host
      /\ \A x : x \in harm' <=> o # "ok" /\ x = <<"forward", o>>
      /\ Harmless' => o \in {"ok", "refused"}
  <2>1. "forward" \in Ops
    BY DEF Ops
  <2>2. QED
    BY <1>1, <1>2, <2>1, RequestFacts DEF ApplyStep
<1>4. UNCHANGED <<side, found, bypass, starts>> /\ prev' = host.forward
  BY DEF ApplyForward
<1>5. \/ o = "ok" /\ pc' = "apply" /\ i' = 3 /\ j' = 1 /\ applied' = 2
      \/ o # "ok" /\ pc' = "cleanup" /\ i' = 1 /\ j' = Len(bypass) + 1 /\ applied' = 1
         /\ caller' = "ApplyAll"
  BY <1>1, <1>2, ComponentFacts DEF ApplyStep, Applied, ApplyFails, Teardown, LastApplied
<1>6. /\ host' \in Host
      /\ host'.tun = host.tun /\ host'.table = host.table
      /\ host'.default = host.default /\ host'.hosts = host.hosts
  BY <1>3 DEF TypeInv, Host
<1>7. TypeInv' /\ PlaceInv'
  <2>1. Number' = Number /\ Number \in 2 .. 3
    BY <1>4 DEF Number
  <2>2. o = "ok" => harm' = {}
    BY <1>3
  <2>3. prev' \in {0, 1}
    BY <1>4 DEF TypeInv, Host
  <2>4. TypeInv'
    BY <1>1, <1>4, <1>5, <1>6, <2>3 DEF TypeInv
  <2>5. QED
    BY <1>1, <1>4, <1>5, <2>1, <2>2, <2>4 DEF PlaceInv
<1>8. TunInv' /\ ListInv' /\ HostsInv' /\ BypassInv' /\ DefaultInv'
  BY <1>1, <1>3, <1>4, <1>5, <1>6, ServerOnly
<1>9. ForwardInv'
  <2>1. host.forward \in {0, 1} /\ host.forward # Nil
    BY DEF TypeInv, Host, Nil
  <2>2. QED
    BY <1>1, <1>3, <1>4, <1>5, <2>1 DEF TypeInv, ForwardInv
<1>10. TableInv'
  BY <1>1, <1>4, <1>5, <1>6 DEF TypeInv, TableInv
<1>11. UndoMatchesDo' /\ RefusedForCause'
  BY <1>3, <1>4 DEF UndoMatchesDo, RefusedForCause, UndoOps
<1>12. QED
  BY <1>7, <1>8, <1>9, <1>10, <1>11

\* IPForward.Cleanup writes the value that Apply has kept.
LEMMA CleanupForwardInv ==
    ASSUME Inv, CleanupForward
    PROVE  Inv'
<1> USE DEF Inv
<1>1. side = "server" /\ pc = "cleanup" /\ i = 2 /\ applied >= 2
  BY CleaningFacts, ComponentFacts DEF CleanupForward
<1>2. PICK o \in Outcomes("unforward", TRUE) :
        CleanupStep("unforward", o, [host EXCEPT !.forward = prev])
  BY DEF CleanupForward, PreviousValue
<1>3. /\ o \in {"ok", "refused", "lost"}
      /\ host' = IF o \in {"ok", "lost"} THEN [host EXCEPT !.forward = prev] ELSE host
      /\ \A x : x \in harm' <=> x \in harm \/ (o # "ok" /\ x = <<"unforward", o>>)
      /\ Harmless' => Harmless /\ o = "ok"
  <2>1. "unforward" \in UndoOps /\ Request("unforward", o, [host EXCEPT !.forward = prev])
    BY <1>2 DEF UndoOps, CleanupStep
  <2>2. Harmless' => Harmless /\ o = "ok"
    BY <2>1 DEF Request, Harmless, DoOps, UndoOps
  <2>3. QED
    BY <1>2, <2>1, <2>2, UndoFacts
<1>4. /\ UNCHANGED <<side, found, prev, bypass, starts, pc, applied, caller>>
      /\ i' = 1 /\ j' = Len(bypass) + 1
  BY <1>1, <1>2 DEF CleanupForward, CleanupStep, CleanedUp, memory
<1>5. /\ host' \in Host
      /\ host'.tun = host.tun /\ host'.table = host.table
      /\ host'.default = host.default /\ host'.hosts = host.hosts
      /\ o = "ok" => host'.forward = prev
  BY <1>1, <1>3 DEF TypeInv, ForwardInv, Host
<1>6. TypeInv' /\ PlaceInv'
  <2>1. Number' = Number /\ Number \in 2 .. 3
    BY <1>4 DEF Number
  <2>2. QED
    BY <1>1, <1>4, <1>5, <2>1 DEF TypeInv, PlaceInv
<1>7. TunInv' /\ ListInv' /\ HostsInv' /\ BypassInv' /\ DefaultInv'
  BY <1>1, <1>3, <1>4, <1>5, ServerOnly
<1>8. ForwardInv' /\ TableInv'
  BY <1>1, <1>3, <1>4, <1>5 DEF TypeInv, ForwardInv, TableInv
<1>9. UndoMatchesDo' /\ RefusedForCause'
  BY <1>3, <1>4 DEF UndoMatchesDo, RefusedForCause, UndoOps
<1>10. QED
  BY <1>6, <1>7, <1>8, <1>9

\* Masquerade.Apply is refused only by a host that has the table.
LEMMA ApplyMasqueradeInv ==
    ASSUME Inv, ApplyMasquerade
    PROVE  Inv'
<1> USE DEF Inv
<1>1. side = "server" /\ pc = "apply" /\ i = 3 /\ applied = 2 /\ harm = {} /\ Harmless
      /\ Number = 3
  BY ComponentFacts DEF ApplyMasquerade, Applying, PlaceInv, Harmless
<1>2. PICK o \in Outcomes("newtable", ~host.table) :
        ApplyStep("newtable", o, [host EXCEPT !.table = TRUE], Applied)
  BY DEF ApplyMasquerade
<1>3. /\ o \in {"ok", "refused", "lost", "invalid"}
      /\ o = "invalid" <=> host.table
      /\ host' = IF o \in {"ok", "lost"} THEN [host EXCEPT !.table = TRUE] ELSE host
      /\ \A x : x \in harm' <=> o # "ok" /\ x = <<"newtable", o>>
      /\ Harmless' => o \in {"ok", "refused", "invalid"}
  <2>1. "newtable" \in Ops
    BY DEF Ops
  <2>2. QED
    BY <1>1, <1>2, <2>1, RequestFacts DEF ApplyStep
<1>4. UNCHANGED <<side, found, prev, bypass, starts>>
  BY DEF ApplyMasquerade, memory
<1>5. \/ o = "ok" /\ pc' = "running" /\ i' = 3 /\ j' = 1 /\ applied' = 3
      \/ o # "ok" /\ pc' = "cleanup" /\ i' = 2 /\ j' = Len(bypass) + 1 /\ applied' = 2
         /\ caller' = "ApplyAll"
  BY <1>1, <1>2, ComponentFacts DEF ApplyStep, Applied, ApplyFails, Teardown, LastApplied
<1>6. /\ host' \in Host
      /\ host'.tun = host.tun /\ host'.forward = host.forward
      /\ host'.default = host.default /\ host'.hosts = host.hosts
      /\ o = "ok" => host'.table
  BY <1>3 DEF TypeInv, Host
<1>7. TypeInv' /\ PlaceInv'
  <2>1. Number' = Number /\ Number \in 2 .. 3
    BY <1>4 DEF Number
  <2>2. o = "ok" => harm' = {}
    BY <1>3
  <2>3. TypeInv'
    BY <1>1, <1>4, <1>5, <1>6 DEF TypeInv
  <2>4. CASE o = "ok"
    BY <1>1, <1>4, <1>5, <2>1, <2>2, <2>3, <2>4 DEF PlaceInv
  <2>5. CASE o # "ok"
    BY <1>1, <1>4, <1>5, <2>1, <2>3, <2>5 DEF PlaceInv
  <2>6. QED
    BY <2>4, <2>5
<1>8. TunInv' /\ ListInv' /\ HostsInv' /\ BypassInv' /\ DefaultInv'
  BY <1>1, <1>3, <1>4, <1>5, <1>6, ServerOnly
<1>9. ForwardInv'
  BY <1>1, <1>4, <1>5, <1>6 DEF TypeInv, ForwardInv
<1>10. host.table = found.table
  BY <1>1 DEF TableInv
<1>11. TableInv'
  <2>1. CASE o = "ok"
    BY <1>1, <1>3, <1>4, <1>5, <1>6, <1>10, <2>1 DEF TableInv
  <2>2. CASE o # "ok"
    <3>1. Harmless' => host'.table = found'.table
      BY <1>3, <1>4, <1>10, <2>2
    <3>2. QED
      BY <1>5, <2>2, <3>1 DEF TableInv
  <2>3. QED
    BY <2>1, <2>2
<1>12. UndoMatchesDo' /\ RefusedForCause'
  BY <1>3, <1>4, <1>10 DEF UndoMatchesDo, RefusedForCause, UndoOps
<1>13. QED
  BY <1>7, <1>8, <1>9, <1>11, <1>12

\* Masquerade.Cleanup finds the table it has made.
LEMMA CleanupMasqueradeInv ==
    ASSUME Inv, CleanupMasquerade
    PROVE  Inv'
<1> USE DEF Inv
<1>1. side = "server" /\ pc = "cleanup" /\ i = 3 /\ applied = 3 /\ host.table
  BY CleaningFacts, ComponentFacts DEF CleanupMasquerade, PlaceInv, TypeInv, TableInv
<1>2. PICK o \in Outcomes("deltable", host.table) :
        CleanupStep("deltable", o, [host EXCEPT !.table = FALSE])
  BY DEF CleanupMasquerade
<1>3. /\ o \in {"ok", "refused", "lost"}
      /\ host' = IF o \in {"ok", "lost"} THEN [host EXCEPT !.table = FALSE] ELSE host
      /\ \A x : x \in harm' <=> x \in harm \/ (o # "ok" /\ x = <<"deltable", o>>)
      /\ Harmless' => Harmless /\ o = "ok"
  <2>1. "deltable" \in UndoOps /\ Request("deltable", o, [host EXCEPT !.table = FALSE])
    BY <1>2 DEF UndoOps, CleanupStep
  <2>2. Harmless' => Harmless /\ o = "ok"
    BY <2>1 DEF Request, Harmless, DoOps, UndoOps
  <2>3. QED
    BY <1>1, <1>2, <2>1, <2>2, UndoFacts
<1>4. /\ UNCHANGED <<side, found, prev, bypass, starts, pc, applied, caller>>
      /\ i' = 2 /\ j' = Len(bypass) + 1
  BY <1>1, <1>2 DEF CleanupMasquerade, CleanupStep, CleanedUp, memory
<1>5. /\ host' \in Host
      /\ host'.tun = host.tun /\ host'.forward = host.forward
      /\ host'.default = host.default /\ host'.hosts = host.hosts
      /\ o = "ok" => ~host'.table
  BY <1>1, <1>3 DEF TypeInv, Host
<1>6. TypeInv' /\ PlaceInv'
  <2>1. Number' = Number /\ Number \in 2 .. 3
    BY <1>4 DEF Number
  <2>2. QED
    BY <1>1, <1>4, <1>5, <2>1 DEF TypeInv, PlaceInv
<1>7. TunInv' /\ ListInv' /\ HostsInv' /\ BypassInv' /\ DefaultInv'
  BY <1>1, <1>3, <1>4, <1>5, ServerOnly
<1>8. ForwardInv'
  BY <1>1, <1>3, <1>4, <1>5 DEF TypeInv, ForwardInv
<1>9. TableInv'
  <2>1. Harmless' => ~found.table /\ ~host'.table
    BY <1>1, <1>3, <1>5 DEF TableInv
  <2>2. found.table \in BOOLEAN /\ host'.table \in BOOLEAN
    BY <1>5 DEF TypeInv, Host
  <2>3. Harmless' => host'.table = found'.table
    BY <1>4, <2>1, <2>2
  <2>4. QED
    BY <1>1, <1>4, <2>3 DEF TableInv
<1>10. UndoMatchesDo' /\ RefusedForCause'
  BY <1>3, <1>4 DEF UndoMatchesDo, RefusedForCause, UndoOps
<1>11. QED
  BY <1>6, <1>7, <1>8, <1>9, <1>10

-----------------------------------------------------------------------------
(***************************************************************************)
(* The routes of the client.  Forwarding, masquerading and the TUN device  *)
(* are not touched.                                                        *)
(***************************************************************************)
LEMMA ClientOnly ==
    ASSUME Inv, side = "client", pc \notin Idle, pc' \notin Idle,
           host'.forward = host.forward, host'.table = host.table, host'.tun = host.tun,
           pc' \in {"apply", "running"} => pc = "apply" /\ i > 1,
           harm \subseteq harm',
           UNCHANGED <<side, found, prev, bypass>>
    PROVE  TunInv' /\ ListInv' /\ ForwardInv' /\ TableInv'
<1> USE DEF Inv
<1>1. Harmless' => Harmless
  BY DEF Harmless
<1>2. TunInv' /\ ListInv'
  BY DEF TunInv, ListInv, Idle
<1>3. ForwardInv' /\ TableInv'
  BY <1>1 DEF ForwardInv, TableInv, Idle
<1>4. QED
  BY <1>2, <1>3

\* Route.resolve fails before the first request.
LEMMA ResolveFailsInv ==
    ASSUME Inv, ResolveFails
    PROVE  Inv'
<1> USE DEF Inv
<1>1. side = "client" /\ pc = "apply" /\ i = 2 /\ applied = 1 /\ j = 1 /\ harm = {}
      /\ Number = 2
  BY ComponentFacts DEF ResolveFails, Applying, PlaceInv
<1>2. /\ UNCHANGED <<host, harm, side, found, prev, bypass, starts>>
      /\ pc' = "cleanup" /\ i' = 1 /\ j' = Len(bypass) + 1 /\ applied' = 1
      /\ caller' = "ApplyAll"
  BY <1>1 DEF ResolveFails, ApplyFails, Teardown, LastApplied, memory
<1>3. TypeInv' /\ PlaceInv'
  <2>1. Number' = Number /\ Number \in 2 .. 3
    BY <1>2 DEF Number
  <2>2. QED
    BY <1>1, <1>2, <2>1 DEF TypeInv, PlaceInv
<1>4. TunInv' /\ ListInv' /\ ForwardInv' /\ TableInv'
  BY <1>1, <1>2, ClientOnly DEF Idle
<1>5. HostsInv'
  <2>1. Placed = 0 /\ Placed' = 0
    BY <1>1, <1>2 DEF Placed
  <2>2. QED
    BY <1>1, <1>2, <2>1 DEF HostsInv, Harmless
<1>6. BypassInv' /\ DefaultInv'
  <2>1. ~Tunnelled /\ ~Tunnelled'
    BY <1>1, <1>2 DEF Tunnelled
  <2>2. QED
    BY <1>1, <1>2, <2>1, SameDefault DEF BypassInv
<1>7. UndoMatchesDo' /\ RefusedForCause'
  BY <1>1, <1>2 DEF UndoMatchesDo, RefusedForCause
<1>8. QED
  BY <1>3, <1>4, <1>5, <1>6, <1>7

\* AddHostRoute: what the kernel takes is new, and becomes one of the routes
\* that are elevpn's own.
LEMMA AddHostRouteInv ==
    ASSUME Inv, AddHostRoute
    PROVE  Inv'
<1> USE DEF Inv
<1>1. side = "client" /\ pc = "apply" /\ i = 2 /\ applied = 1 /\ j \in 1 .. Len(bypass)
      /\ harm = {} /\ Harmless /\ bypass[j] \in Entries
  BY ComponentFacts DEF AddHostRoute, Applying, PlaceInv, TypeInv, Harmless
<1>2. PICK o \in Outcomes("add", bypass[j] \notin host.hosts) :
        /\ Request("add", o, [host EXCEPT !.hosts = @ \cup {bypass[j]}])
        /\ IF o = "ok" THEN j' = j + 1 /\ UNCHANGED <<pc, i, applied, caller>>
                       ELSE Rollback
  BY DEF AddHostRoute
<1>3. /\ o \in {"ok", "refused", "lost", "invalid"}
      /\ o = "invalid" <=> bypass[j] \in host.hosts
      /\ host' = IF o \in {"ok", "lost"}
                 THEN [host EXCEPT !.hosts = @ \cup {bypass[j]}] ELSE host
      /\ \A x : x \in harm' <=> o # "ok" /\ x = <<"add", o>>
      /\ Harmless' => o \in {"ok", "refused", "invalid"}
  <2>1. "add" \in Ops
    BY DEF Ops
  <2>2. QED
    BY <1>1, <1>2, <2>1, RequestFacts
<1>4. UNCHANGED memory
  BY DEF AddHostRoute
<1>5. host' \in Host
  BY <1>1, <1>3 DEF TypeInv, Host
<1>6. TypeInv' /\ PlaceInv'
  BY <1>1, <1>2, <1>3, <1>4, <1>5
     DEF TypeInv, PlaceInv, Number, Rollback, RollbackFrom, memory, Idle
<1>7. TunInv' /\ ListInv' 
  BY <1>1, <1>2, <1>3, <1>4, <1>5 DEF TypeInv, TunInv, ListInv, Rollback, memory, Idle, Host
<1>8. HostsInv'
  <2>1. CASE o = "ok"
    <3>1. Placed = j - 1 /\ Placed' = j
      BY <1>1, <1>2, <1>4, <2>1 DEF TypeInv, Placed, memory
    <3>2. host'.hosts = host.hosts \cup {bypass[j]} /\ bypass[j] \notin host.hosts
      BY <1>3, <2>1 DEF TypeInv, Host
    <3>3. QED
      BY <1>1, <1>4, <3>1, <3>2, <2>1 DEF TypeInv, HostsInv, memory
  <2>2. CASE o # "ok"
    <3>1. Placed = j - 1 /\ Placed' = j - 1
      BY <1>1, <1>2, <1>4, <2>2 DEF TypeInv, Placed, memory, Rollback, RollbackFrom
    <3>2. host.hosts \subseteq host'.hosts /\ (Harmless' => host' = host)
      BY <1>3, <2>2 DEF TypeInv, Host
    <3>3. QED
      BY <1>1, <1>4, <3>1, <3>2, <2>2 DEF TypeInv, HostsInv, memory
  <2>3. QED
    BY <2>1, <2>2
<1>9. ForwardInv' /\ TableInv' 
  BY <1>1, <1>2, <1>3, <1>4, <1>5
     DEF TypeInv, ForwardInv, TableInv, Rollback, memory, Idle, Host
<1>10. BypassInv' /\ DefaultInv'
  <2>1. BypassInv'
    BY <1>1, <1>2, <1>3, <1>4, <1>5
       DEF TypeInv, BypassInv, Rollback, memory, Idle, Host
  <2>2. ~Tunnelled /\ ~Tunnelled'
    BY <1>1, <1>2, <1>4 DEF Tunnelled, Rollback, memory
  <2>3. host'.default = host.default /\ harm \subseteq harm'
    BY <1>1, <1>3 DEF TypeInv, Host
  <2>4. UNCHANGED <<found, side, applied>>
    BY <1>2, <1>4 DEF Rollback, memory
  <2>5. QED
    BY <1>1, <2>1, <2>2, <2>3, <2>4, SameDefault
<1>11. UndoMatchesDo' /\ RefusedForCause'
  <2>1. UndoMatchesDo'
    BY <1>3 DEF UndoMatchesDo, UndoOps
  <2>2. ASSUME o = "invalid"
        PROVE  ToSet(bypass) \cap found.hosts # {} \/ Contains(Tail(bypass), ServerIP)
    <3>1. Placed = j - 1
      BY <1>1 DEF Placed
    <3>2. bypass[j] \in found.hosts \/ \E k \in 1 .. j - 1 : bypass[k] = bypass[j]
      BY <1>1, <1>3, <2>2, <3>1 DEF HostsInv
    <3>3. CASE bypass[j] \in found.hosts
      BY <1>1, <3>3 DEF ToSet, TypeInv
    <3>4. CASE \E k \in 1 .. j - 1 : bypass[k] = bypass[j]
      <4>1. bypass[j] = ServerIP /\ j > 1
        BY <1>1, <3>4 DEF ListInv, TypeInv, Idle
      <4>2. j - 1 \in 1 .. Len(Tail(bypass)) /\ Tail(bypass)[j - 1] = ServerIP
        BY <1>1, <4>1 DEF TypeInv
      <4>3. QED
        BY <4>2 DEF Contains
    <3>5. QED
      BY <3>2, <3>3, <3>4
  <2>3. QED
    BY <1>3, <1>4, <2>1, <2>2 DEF RefusedForCause, memory
<1>12. QED
  BY <1>6, <1>7, <1>8, <1>9, <1>10, <1>11

\* The default route moves into the tunnel when all bypass routes are there.
LEMMA ReplaceDefaultRouteInv ==
    ASSUME Inv, ReplaceDefaultRoute
    PROVE  Inv'
<1> USE DEF Inv
<1>1. side = "client" /\ pc = "apply" /\ i = 2 /\ applied = 1 /\ j = Len(bypass) + 1
      /\ harm = {} /\ Harmless /\ Number = 2 /\ "up" \in host.tun
      /\ Len(bypass) \in Nat
  BY ComponentFacts DEF ReplaceDefaultRoute, Applying, PlaceInv, Harmless, TunInv, TypeInv
<1>2. PICK o \in Outcomes("replace", "up" \in host.tun) :
        /\ Request("replace", o, ReplaceDefault(host, "tun"))
        /\ IF o = "ok" THEN Applied ELSE Rollback
  BY DEF ReplaceDefaultRoute
<1>3. /\ o \in {"ok", "refused", "lost"}
      /\ host' = IF o \in {"ok", "lost"} THEN ReplaceDefault(host, "tun") ELSE host
      /\ \A x : x \in harm' <=> o # "ok" /\ x = <<"replace", o>>
      /\ Harmless' => o \in {"ok", "refused"}
  <2>1. "replace" \in Ops
    BY DEF Ops
  <2>2. QED
    BY <1>1, <1>2, <2>1, RequestFacts
<1>4. UNCHANGED <<side, found, prev, bypass, starts>>
  BY DEF ReplaceDefaultRoute, memory
<1>5. \/ o = "ok" /\ pc' = "running" /\ i' = 2 /\ j' = 1 /\ applied' = 2
      \/ o # "ok" /\ pc' = "rollback" /\ i' = 2 /\ j' = Len(bypass) /\ applied' = 1
  BY <1>1, <1>2, ComponentFacts DEF Applied, Rollback, RollbackFrom
<1>6. /\ host' \in Host
      /\ host'.tun = host.tun /\ host'.forward = host.forward
      /\ host'.table = host.table /\ host'.hosts = host.hosts
      /\ o \in {"ok", "lost"} =>
            host'.default = {r \in host.default : r.metric # 0} \cup {Tun0}
  BY <1>3 DEF TypeInv, Host, ReplaceDefault, DefaultVia, Tun0
<1>7. TypeInv' /\ PlaceInv'
  <2>1. Number' = Number /\ Number \in 2 .. 3
    BY <1>4 DEF Number
  <2>2. o = "ok" => harm' = {}
    BY <1>3
  <2>3. TypeInv'
    BY <1>1, <1>4, <1>5, <1>6 DEF TypeInv
  <2>4. QED
    BY <1>1, <1>4, <1>5, <2>1, <2>2, <2>3 DEF PlaceInv
<1>8. TunInv' /\ ListInv' /\ ForwardInv' /\ TableInv'
  BY <1>1, <1>3, <1>4, <1>5, <1>6, ClientOnly DEF Idle
<1>9. Placed = Len(bypass) /\ Placed' = Len(bypass)
  BY <1>1, <1>4, <1>5 DEF Placed
<1>10. HostsInv'
  BY <1>1, <1>4, <1>5, <1>6, <1>9 DEF HostsInv
<1>11. BypassInv'
  <2>1. ToSet(bypass) \subseteq host.hosts
    BY <1>9 DEF HostsInv, ToSet, TypeInv
  <2>2. Tun0 \notin host.default /\ Tun0.via = "tun" /\ Tun0.metric = 0
    BY <1>1 DEF BypassInv, Tun0, DefaultVia
  <2>3. CASE o = "ok"
    BY <1>1, <1>4, <1>5, <1>6, <2>1, <2>2, <2>3 DEF BypassInv, Idle, Tun0
  <2>4. CASE o = "lost"
    BY <1>3, <1>5, <1>6, <2>2, <2>4 DEF BypassInv, Idle, Tun0
  <2>5. CASE o = "refused"
    BY <1>3, <2>2, <2>5 DEF BypassInv, Tun0
  <2>6. QED
    BY <1>3, <2>3, <2>4, <2>5
<1>12. DefaultInv'
  <2>1. ~Tunnelled /\ (Tunnelled' <=> o = "ok")
    BY <1>1, <1>4, <1>5 DEF Tunnelled
  <2>2. CASE o = "refused"
    BY <1>1, <1>3, <1>4, <1>5, <2>1, <2>2, SameDefault
  <2>3. CASE o \in {"ok", "lost"}
    <3>1. host'.default = WithMetric(host.default) \cup {Tun0}
      BY <1>6, <2>3 DEF WithMetric, Tun0
    <3>2. WithMetric(host'.default) = WithMetric(host.default)
      BY <3>1 DEF WithMetric, Tun0, DefaultVia
    <3>3. host'.default = Beside("tun")
      BY <3>1 DEF DefaultInv, Beside, Tun0
    <3>4. Beside("tun")' = Beside("tun")
      BY <1>4 DEF Beside, WithMetric
    <3>5. <<"replace", "lost">> \in harm' \/ o = "ok"
      BY <1>3, <2>3
    <3>6. QED
      BY <1>4, <2>1, <3>2, <3>3, <3>4, <3>5 DEF DefaultInv, DefaultNow
  <2>4. QED
    BY <1>3, <2>2, <2>3
<1>13. UndoMatchesDo' /\ RefusedForCause'
  BY <1>3, <1>4 DEF UndoMatchesDo, RefusedForCause, UndoOps
<1>14. QED
  BY <1>7, <1>8, <1>10, <1>11, <1>12, <1>13

\* Where deleteHostRoutes is called: in Apply's rollback and in Cleanup.
Deleting ==
    /\ side = "client" /\ i = 2 /\ j <= Len(bypass)
    /\ \/ pc = "rollback" /\ applied = 1
       \/ pc = "cleanup" /\ applied = 2

\* In neither does the default route lead into the tunnel, unless the
\* answer to the request to replace it was lost.
LEMMA DeletingFacts ==
    ASSUME Inv, Deleting
    PROVE  /\ ~Tunnelled /\ Placed = j /\ j \in Nat /\ Len(bypass) \in Nat
           /\ Number = 2
           /\ Tun0 \in host.default => <<"replace", "lost">> \in harm
<1>1. j \in Nat /\ Len(bypass) \in Nat
  BY DEF Inv, TypeInv
<1>2. ~Tunnelled /\ Placed = j
  BY <1>1 DEF Deleting, Tunnelled, Placed
<1>3. Tun0 \in host.default => <<"replace", "lost">> \in harm
  BY <1>1 DEF Inv, BypassInv, Deleting
<1>4. QED
  BY <1>1, <1>2, <1>3, ComponentFacts DEF Inv, Deleting

\* One turn of deleteHostRoutes.
LEMMA DeleteInv ==
    ASSUME Inv, Deleting, j > 0,
           NEW o \in Outcomes("del", bypass[j] \in host.hosts),
           Request("del", o, [host EXCEPT !.hosts = @ \ {bypass[j]}]),
           j' = j - 1,
           UNCHANGED <<pc, i, applied, caller>>,
           UNCHANGED memory
    PROVE  Inv'
<1> USE DEF Inv
<1>1. /\ ~Tunnelled /\ Placed = j /\ j \in 1 .. Len(bypass) /\ Len(bypass) \in Nat
      /\ Number = 2 /\ bypass[j] \in host.hosts
      /\ Tun0 \in host.default => <<"replace", "lost">> \in harm
  BY DeletingFacts DEF Deleting, HostsInv
<1>2. /\ o \in {"ok", "refused", "lost"}
      /\ host' = IF o \in {"ok", "lost"}
                 THEN [host EXCEPT !.hosts = @ \ {bypass[j]}] ELSE host
      /\ \A x : x \in harm' <=> x \in harm \/ (o # "ok" /\ x = <<"del", o>>)
      /\ Harmless' => Harmless /\ o = "ok"
  <2>1. "del" \in UndoOps
    BY DEF UndoOps
  <2>2. Harmless' => Harmless /\ o = "ok"
    BY DEF Request, Harmless, DoOps, UndoOps
  <2>3. QED
    BY <1>1, <2>1, <2>2, UndoFacts
<1>3. UNCHANGED <<side, found, prev, bypass, starts>>
  BY DEF memory
<1>4. /\ host' \in Host
      /\ host'.tun = host.tun /\ host'.forward = host.forward
      /\ host'.table = host.table /\ host'.default = host.default
      /\ host'.hosts \in {host.hosts, host.hosts \ {bypass[j]}}
      /\ o = "ok" => host'.hosts = host.hosts \ {bypass[j]}
  BY <1>2 DEF TypeInv, Host
<1>5. TypeInv' /\ PlaceInv'
  <2>1. Number' = Number /\ Number \in 2 .. 3
    BY <1>3 DEF Number
  <2>2. TypeInv'
    BY <1>1, <1>3, <1>4 DEF TypeInv
  <2>3. CASE pc = "rollback"
    BY <1>1, <1>3, <2>1, <2>2, <2>3 DEF TypeInv, PlaceInv, Deleting
  <2>4. CASE pc = "cleanup"
    BY <1>1, <1>3, <2>1, <2>2, <2>4 DEF TypeInv, PlaceInv, Deleting
  <2>5. QED
    BY <2>3, <2>4 DEF Deleting
<1>6. TunInv' /\ ListInv' /\ ForwardInv' /\ TableInv'
  BY <1>2, <1>3, <1>4, ClientOnly DEF Deleting, Idle
<1>7. HostsInv'
  <2>1. Placed' = j - 1
    BY <1>1, <1>3 DEF Placed, Deleting
  <2>2. \A k \in 1 .. j - 1 : bypass[k] # bypass[j] /\ bypass[k] \in host.hosts
    BY <1>1 DEF HostsInv
  <2>3. ASSUME Harmless'
        PROVE  /\ host'.hosts = found.hosts \cup {bypass[k] : k \in 1 .. j - 1}
               /\ \A k \in 1 .. j - 1 : bypass[k] \notin found.hosts
    <3>1. /\ host.hosts = found.hosts \cup {bypass[k] : k \in 1 .. j}
          /\ \A k \in 1 .. j : bypass[k] \notin found.hosts
      BY <1>1, <1>2, <2>3 DEF HostsInv, Deleting
    <3>2. host'.hosts = host.hosts \ {bypass[j]}
      BY <1>2, <1>4, <2>3
    <3>3. QED
      BY <1>1, <2>2, <3>1, <3>2
  <2>4. QED
    BY <1>1, <1>3, <1>4, <2>1, <2>2, <2>3 DEF HostsInv
<1>8. BypassInv' /\ DefaultInv'
  <2>1. BypassInv'
    BY <1>1, <1>2, <1>3, <1>4 DEF BypassInv, Tun0
  <2>2. ~Tunnelled'
    BY <1>1, <1>3 DEF Tunnelled, Deleting
  <2>3. DefaultInv'
    BY <1>1, <1>2, <1>3, <1>4, <2>2, SameDefault DEF Deleting
  <2>4. QED
    BY <2>1, <2>3
<1>9. UndoMatchesDo' /\ RefusedForCause'
  BY <1>2, <1>3 DEF UndoMatchesDo, RefusedForCause
<1>10. QED
  BY <1>5, <1>6, <1>7, <1>8, <1>9

\* deleteHostRoutes is through: Apply returns its error, Cleanup returns.
LEMMA DeletedInv ==
    ASSUME Inv, Deleting, j = 0,
           pc' = "cleanup" /\ i' = 1 /\ j' = Len(bypass) + 1,
           applied' = applied,
           caller' = IF pc = "rollback" THEN "ApplyAll" ELSE caller,
           UNCHANGED <<host, harm>>,
           UNCHANGED memory
    PROVE  Inv'
<1> USE DEF Inv
<1>1. /\ ~Tunnelled /\ Placed = 0 /\ Len(bypass) \in Nat /\ Number = 2
      /\ Tun0 \in host.default => <<"replace", "lost">> \in harm
  BY DeletingFacts
<1>2. UNCHANGED <<side, found, prev, bypass, starts>>
  BY DEF memory
<1>3. TypeInv' /\ PlaceInv'
  <2>1. Number' = Number /\ Number \in 2 .. 3
    BY <1>2 DEF Number
  <2>2. TypeInv'
    BY <1>1, <1>2 DEF TypeInv
  <2>3. CASE pc = "rollback"
    BY <1>1, <1>2, <2>1, <2>2, <2>3 DEF TypeInv, PlaceInv, Deleting
  <2>4. CASE pc = "cleanup"
    BY <1>1, <1>2, <2>1, <2>2, <2>4 DEF TypeInv, PlaceInv, Deleting
  <2>5. QED
    BY <2>3, <2>4 DEF Deleting
<1>4. TunInv' /\ ListInv' /\ ForwardInv' /\ TableInv'
  BY <1>2, ClientOnly DEF Deleting, Idle
<1>5. HostsInv'
  <2>1. Placed' = 0
    BY <1>1, <1>2 DEF Placed
  <2>2. QED
    BY <1>1, <1>2, <2>1 DEF HostsInv, Harmless, Deleting
<1>6. BypassInv' /\ DefaultInv'
  <2>1. BypassInv'
    BY <1>1, <1>2 DEF BypassInv, Tun0, Idle
  <2>2. ~Tunnelled'
    BY <1>1 DEF Tunnelled
  <2>3. DefaultInv'
    BY <1>1, <1>2, <2>2, SameDefault DEF Deleting
  <2>4. QED
    BY <2>1, <2>3
<1>7. UndoMatchesDo' /\ RefusedForCause'
  BY <1>2 DEF UndoMatchesDo, RefusedForCause
<1>8. QED
  BY <1>3, <1>4, <1>5, <1>6, <1>7

\* deleteHostRoutes in Apply's rollback.
LEMMA RollbackRouteInv ==
    ASSUME Inv, RollbackRoute
    PROVE  Inv'
<1>1. Deleting /\ j \in Nat /\ pc = "rollback" /\ applied = 1
  BY DEF Inv, TypeInv, PlaceInv, RollbackRoute, Deleting
<1>2. CASE j > 0
  BY <1>1, <1>2, DeleteInv DEF RollbackRoute, DeleteHostRoute
<1>3. CASE j = 0
  <2>1. ApplyFails /\ UNCHANGED <<host, harm>> /\ UNCHANGED memory
    BY <1>3 DEF RollbackRoute, DeleteHostRoute
  <2>2. QED
    BY <1>1, <1>3, <2>1, DeletedInv DEF ApplyFails, Teardown, LastApplied
<1>4. QED
  BY <1>1, <1>2, <1>3

\* deleteHostRoutes in Cleanup.
LEMMA CleanupRouteInv ==
    ASSUME Inv, CleanupRoute
    PROVE  Inv'
<1>1. Deleting /\ j \in Nat /\ pc = "cleanup" /\ i = 2
  BY CleaningFacts, ComponentFacts DEF Inv, TypeInv, PlaceInv, CleanupRoute, Deleting
<1>2. CASE j > 0
  BY <1>1, <1>2, DeleteInv DEF CleanupRoute, DeleteHostRoute
<1>3. CASE j = 0
  <2>1. CleanedUp /\ UNCHANGED <<host, harm>> /\ UNCHANGED memory
    BY <1>3 DEF CleanupRoute, DeleteHostRoute
  <2>2. QED
    BY <1>1, <1>3, <2>1, DeletedInv DEF CleanedUp
<1>4. QED
  BY <1>1, <1>2, <1>3

\* Cleanup restores the default route while all bypass routes are there.
LEMMA RestoreDefaultRouteInv ==
    ASSUME Inv, RestoreDefaultRoute
    PROVE  Inv'
<1> USE DEF Inv
<1>1. side = "client" /\ pc = "cleanup" /\ i = 2 /\ applied = 2 /\ j = Len(bypass) + 1
      /\ Len(bypass) \in Nat /\ Tunnelled
  BY CleaningFacts, ComponentFacts DEF RestoreDefaultRoute, TypeInv, PlaceInv, Tunnelled
<1>2. PICK o \in Outcomes("restore", TRUE) :
        /\ Request("restore", o, ReplaceDefault(host, "gateway"))
        /\ IF o = "ok" THEN j' = Len(bypass) /\ UNCHANGED <<pc, i, applied, caller>>
                       ELSE CleanedUp
  BY DEF RestoreDefaultRoute
<1>3. /\ o \in {"ok", "refused", "lost"}
      /\ host' = IF o \in {"ok", "lost"} THEN ReplaceDefault(host, "gateway") ELSE host
      /\ \A x : x \in harm' <=> x \in harm \/ (o # "ok" /\ x = <<"restore", o>>)
      /\ Harmless' => Harmless /\ o = "ok"
  <2>1. "restore" \in UndoOps
    BY DEF UndoOps
  <2>2. Harmless' => Harmless /\ o = "ok"
    BY <1>2 DEF Request, Harmless, DoOps, UndoOps
  <2>3. QED
    BY <1>2, <2>1, <2>2, UndoFacts
<1>4. UNCHANGED <<side, found, prev, bypass, starts>>
  BY DEF RestoreDefaultRoute, memory
<1>5. /\ UNCHANGED <<pc, applied, caller>>
      /\ \/ o = "ok" /\ i' = 2 /\ j' = Len(bypass)
         \/ o # "ok" /\ i' = 1 /\ j' = Len(bypass) + 1
  BY <1>1, <1>2 DEF CleanedUp
<1>6. /\ host' \in Host
      /\ host'.tun = host.tun /\ host'.forward = host.forward
      /\ host'.table = host.table /\ host'.hosts = host.hosts
      /\ o = "refused" => host'.default = host.default
      /\ o \in {"ok", "lost"} => host'.default =
            {r \in host.default : r.metric # 0} \cup {DefaultVia("gateway", 0)}
  BY <1>3 DEF TypeInv, Host, ReplaceDefault, DefaultVia
<1>7. TypeInv' /\ PlaceInv'
  <2>1. Number' = Number
    BY <1>4 DEF Number
  <2>2. TypeInv'
    BY <1>1, <1>4, <1>5, <1>6 DEF TypeInv
  <2>3. QED
    BY <1>1, <1>4, <1>5, <2>1, <2>2 DEF PlaceInv
<1>8. TunInv' /\ ListInv' /\ ForwardInv' /\ TableInv'
  BY <1>1, <1>3, <1>4, <1>5, <1>6, ClientOnly DEF Idle
<1>9. Placed = Len(bypass) /\ (IF o = "ok" THEN Placed' = Len(bypass) ELSE Placed' = 0)
  BY <1>1, <1>4, <1>5 DEF Placed
<1>10. HostsInv'
  <2>1. CASE o = "ok"
    BY <1>1, <1>3, <1>4, <1>6, <1>9, <2>1 DEF HostsInv
  <2>2. CASE o # "ok"
    BY <1>3, <1>9, <2>2 DEF HostsInv
  <2>3. QED
    BY <2>1, <2>2
<1>11. BypassInv'
  <2>1. ToSet(bypass) \subseteq host.hosts
    BY <1>9 DEF HostsInv, ToSet, TypeInv
  <2>2. CASE o \in {"ok", "lost"}
    BY <1>6, <2>2 DEF BypassInv, Tun0, DefaultVia
  <2>3. CASE o = "refused"
    BY <1>1, <1>3, <1>4, <1>5, <1>6, <2>1, <2>3 DEF BypassInv, Tun0
  <2>4. QED
    BY <1>3, <2>2, <2>3
<1>12. DefaultInv'
  <2>1. ~Tunnelled' /\ applied' = 2 /\ side' = "client"
    BY <1>1, <1>4, <1>5 DEF Tunnelled
  <2>2. WithMetric(found.default)' = WithMetric(found.default) /\ found' = found
    BY <1>4
  <2>3. CASE o \in {"ok", "lost"}
    <3>1. host'.default = WithMetric(host.default) \cup {DefaultVia("gateway", 0)}
      BY <1>6, <2>3 DEF WithMetric
    <3>2. WithMetric(host'.default) = WithMetric(host.default)
      BY <3>1 DEF WithMetric, DefaultVia
    <3>3. host'.default = Beside("gateway")'
      BY <2>2, <3>1 DEF DefaultInv, Beside
    <3>4. QED
      BY <2>1, <2>2, <3>2, <3>3 DEF DefaultInv, DefaultNow
  <2>4. CASE o = "refused"
    <3>1. <<"restore", "refused">> \in harm' /\ host' = host
      BY <1>3, <2>4
    <3>2. QED
      BY <2>2, <3>1 DEF DefaultInv
  <2>5. QED
    BY <1>3, <2>3, <2>4
<1>13. UndoMatchesDo' /\ RefusedForCause'
  BY <1>3, <1>4 DEF UndoMatchesDo, RefusedForCause
<1>14. QED
  BY <1>7, <1>8, <1>10, <1>11, <1>12, <1>13

-----------------------------------------------------------------------------
(***************************************************************************)
(* Run returns: Teardown begins, or begins again, or is over.              *)
(***************************************************************************)
LEMMA ReturnInv ==
    ASSUME Inv, Stop \/ TornDown
    PROVE  Inv'
<1> USE DEF Inv
<1>1. UNCHANGED <<host, harm, side, found, prev, bypass, starts, applied>>
  BY DEF Stop, TornDown, Teardown, memory
<1>2. \/ /\ pc = "running" /\ applied = Number /\ pc' = "cleanup"
         /\ i' = applied /\ j' = Len(bypass) + 1 /\ caller' = "Run"
      \/ /\ pc = "cleanup" /\ i = 0 /\ applied < Number /\ pc' = "cleanup"
         /\ i' = applied /\ j' = Len(bypass) + 1 /\ caller' = "Run"
      \/ /\ pc = "cleanup" /\ i = 0 /\ pc' = "exiting" /\ UNCHANGED <<i, j, caller>>
  BY DEF Stop, TornDown, Teardown, LastApplied, PlaceInv
<1>3. Number' = Number /\ Number = (IF side = "server" THEN 3 ELSE 2) /\ Len(bypass) \in Nat
  BY <1>1 DEF Number, TypeInv
<1>4. TypeInv' /\ PlaceInv'
  BY <1>1, <1>2, <1>3 DEF TypeInv, PlaceInv
<1>5. TunInv' /\ ListInv'
  BY <1>1, <1>2 DEF TunInv, ListInv, Idle
<1>6. HostsInv'
  <2>1. Placed' = Placed
    BY <1>1, <1>2, <1>3 DEF Placed, TypeInv
  <2>2. QED
    BY <1>1, <1>2, <2>1 DEF HostsInv, Harmless
<1>7. ForwardInv' /\ TableInv'
  BY <1>1, <1>2, <1>3 DEF TypeInv, ForwardInv, TableInv, Harmless
<1>8. BypassInv' /\ DefaultInv'
  <2>1. BypassInv'
    BY <1>1, <1>2, <1>3 DEF TypeInv, BypassInv, Tun0, Idle
  <2>2. Tunnelled' <=> Tunnelled
    BY <1>1, <1>2, <1>3 DEF Tunnelled, TypeInv
  <2>3. QED
    BY <1>1, <1>2, <2>1, <2>2, SameDefault
<1>9. UndoMatchesDo' /\ RefusedForCause'
  BY <1>1 DEF UndoMatchesDo, RefusedForCause
<1>10. QED
  BY <1>4, <1>5, <1>6, <1>7, <1>8, <1>9

\* The process ends: the TUN device goes, and a default route over it.
LEMMA EndInv ==
    ASSUME Inv, Exit \/ Kill
    PROVE  Inv'
<1> USE DEF Inv
<1>1. /\ UNCHANGED <<harm, side, found, prev, bypass, starts, i, j, applied, caller>>
      /\ host' = RemoveTun(host)
      /\ pc' = "killed" \/ (pc = "exiting" /\ pc' = "exited")
  BY DEF Exit, Kill, memory
<1>2. /\ host' \in Host /\ host'.tun = {}
      /\ host'.forward = host.forward /\ host'.table = host.table
      /\ host'.hosts = host.hosts
      /\ host'.default = {r \in host.default : r.via # "tun"}
  BY <1>1 DEF TypeInv, Host, RemoveTun
<1>3. TypeInv' /\ PlaceInv'
  BY <1>1, <1>2 DEF TypeInv, PlaceInv, Idle
<1>4. TunInv' /\ ListInv'
  BY <1>1, <1>2 DEF TunInv, ListInv, Idle
<1>5. HostsInv'
  <2>1. Placed' = 0 /\ (pc = "exiting" => Placed = 0)
    BY <1>1 DEF Placed
  <2>2. QED
    BY <1>1, <1>2, <2>1 DEF HostsInv, Harmless
<1>6. ForwardInv' /\ TableInv'
  BY <1>1, <1>2 DEF ForwardInv, TableInv, Harmless
<1>7. BypassInv' /\ DefaultInv'
  <2>1. BypassInv'
    BY <1>2 DEF BypassInv, Tun0, DefaultVia
  <2>2. ~Tunnelled' /\ (pc = "exiting" => ~Tunnelled)
    BY <1>1 DEF Tunnelled
  <2>3. DefaultInv'
    BY <1>1, <1>2, <2>2, TunGone
  <2>4. QED
    BY <2>1, <2>3
<1>8. UndoMatchesDo' /\ RefusedForCause'
  BY <1>1 DEF UndoMatchesDo, RefusedForCause
<1>9. QED
  BY <1>3, <1>4, <1>5, <1>6, <1>7, <1>8

\* A step that changes nothing.
LEMMA StutterInv ==
    ASSUME Inv, UNCHANGED vars
    PROVE  Inv'
  BY DEF Inv, vars, TypeInv, PlaceInv, Number, TunInv, ListInv, HostsInv, Placed, Harmless,
         ForwardInv, TableInv, BypassInv, DefaultInv, DefaultNow, Beside, WithMetric,
         Tunnelled, Tun0, DefaultVia,
         UndoMatchesDo, RefusedForCause

\* Every step keeps the invariant.
LEMMA StepInv == Inv /\ [Next]_vars => Inv'
<1> SUFFICES ASSUME Inv, [Next]_vars PROVE Inv'
  OBVIOUS
<1>1. CASE Begin \/ (Create \/ SetMTU \/ SetIPv4CIDR \/ SetNetmask \/ Up) \/ CleanupTun
  BY <1>1, BeginInv, TunApplyInv, CleanupTunInv
<1>2. CASE ServerNext
  BY <1>2, ApplyForwardInv, CleanupForwardInv, ApplyMasqueradeInv, CleanupMasqueradeInv
     DEF ServerNext
<1>3. CASE ClientNext
  BY <1>3, DetectInv, ResolveFailsInv, AddHostRouteInv, ReplaceDefaultRouteInv,
     RollbackRouteInv, RestoreDefaultRouteInv, CleanupRouteInv DEF ClientNext
<1>4. CASE Stop \/ TornDown \/ Exit \/ Kill
  BY <1>4, ReturnInv, EndInv
<1>5. CASE UNCHANGED vars
  BY <1>5, StutterInv
<1>6. QED
  BY <1>1, <1>2, <1>3, <1>4, <1>5 DEF Next, Terminated

\* The invariant holds in every state.
LEMMA SpecInv == Spec => []Inv
  BY InitInv, StepInv, PTL DEF Spec

-----------------------------------------------------------------------------
(***************************************************************************)
(* The addresses of the VPN network and the masquerading rule.  A mask     *)
(* cuts the addresses into blocks of 2^hostBits; the network is one of     *)
(* them and lies below 2^Width as a whole, so no addition wraps around.    *)
(***************************************************************************)
\* A number, by its quotient and its remainder.
LEMMA Quotient ==
    ASSUME NEW a \in Nat, NEW m \in Nat \ {0}
    PROVE  /\ a \div m \in Nat /\ a % m \in 0 .. m - 1
           /\ a = m * (a \div m) + (a % m)
<1>1. a % m \in 0 .. m - 1
  OBVIOUS
<1>2. a \div m \in Int /\ a = m * (a \div m) + (a % m)
  OBVIOUS
<1>3. a \div m \in Nat
  OBVIOUS
<1>4. QED
  BY <1>1, <1>2, <1>3

\* The remainder of a number that is put together from both.
LEMMA RemainderOf ==
    ASSUME NEW m \in Nat \ {0}, NEW q \in Nat, NEW h \in 0 .. m - 1
    PROVE  (m * q + h) % m = h
  OBVIOUS

\* A block of m addresses that begins below p ends there or before.
LEMMA BlockFits ==
    ASSUME NEW m \in Nat \ {0}, NEW k \in Nat, NEW a \in 0 .. m * k - 1
    PROVE  a - (a % m) \in Nat /\ a - (a % m) + m <= m * k
<1>1. a \in Nat /\ m * k \in Nat
  OBVIOUS
<1>2. PICK q \in Nat : q = a \div m
  BY <1>1, Quotient
<1>3. a % m \in 0 .. m - 1 /\ a = m * q + (a % m)
  BY <1>1, <1>2, Quotient
<1>4. m * q \in Nat /\ a - (a % m) = m * q
  BY <1>3
<1>5. q < k
  <2> SUFFICES ASSUME q >= k PROVE FALSE
    OBVIOUS
  <2>1. m * q >= m * k
    OBVIOUS
  <2>2. QED
    BY <1>1, <1>3, <1>4, <2>1
<1>6. m * (q + 1) <= m * k
  BY <1>5
<1>7. m * (q + 1) = m * q + m
  OBVIOUS
<1>8. QED
  BY <1>1, <1>4, <1>6, <1>7

\* Two addresses have one masked form when they are of one block.
LEMMA SameBlock ==
    ASSUME NEW m \in Nat \ {0}, NEW a \in Nat, NEW b \in Nat
    PROVE  b - (b % m) = a - (a % m)  <=>  \E h \in 0 .. m - 1 : b = a - (a % m) + h
<1>1. ASSUME b - (b % m) = a - (a % m)
      PROVE  \E h \in 0 .. m - 1 : b = a - (a % m) + h
  BY <1>1
<1>2. ASSUME NEW h \in 0 .. m - 1, b = a - (a % m) + h
      PROVE  b - (b % m) = a - (a % m)
  <2>1. PICK q \in Nat : a = m * q + (a % m)
    BY Quotient
  <2>2. a % m \in Int /\ m * q \in Int
    OBVIOUS
  <2>3. b = m * q + h
    BY <1>2, <2>1, <2>2
  <2>4. b % m = h
    BY <2>3, RemainderOf
  <2>5. QED
    BY <1>2, <2>4, <2>1, <2>2
<1>3. QED
  BY <1>1, <1>2

\* The VPN network has room for two hosts at least and ends where the addresses do.
LEMMA NetworkFacts ==
    ASSUME NEW cidr \in CIDRs
    PROVE  /\ 2 ^ cidr.hostBits \in Nat \ {0, 1, 2, 3}
           /\ 2 ^ Width \in Nat
           /\ Network(cidr) \in Nat
           /\ Network(cidr) + 2 ^ cidr.hostBits <= 2 ^ Width
<1> DEFINE m == 2 ^ cidr.hostBits
           k == 2 ^ (Width - cidr.hostBits)
<1>1. cidr.hostBits \in 2 .. Width /\ cidr.addr \in 0 .. 2 ^ Width - 1
  BY DEF CIDRs, IPs
<1>2. cidr.hostBits \in 0 .. Width /\ Width - cidr.hostBits \in 0 .. Width /\ Width \in 0 .. Width
  BY <1>1, AddressingAssumption
<1>3. /\ m \in Nat \ {0} /\ m >= 4 /\ k \in Nat /\ 2 ^ Width \in Nat
      /\ 2 ^ Width = m * k
  BY <1>1, <1>2, PowersOfTwo
<1>4. cidr.addr \in 0 .. m * k - 1
  BY <1>1, <1>3
<1> HIDE DEF m, k
<1>5. cidr.addr - (cidr.addr % m) \in Nat /\ cidr.addr - (cidr.addr % m) + m <= m * k
  BY <1>3, <1>4, BlockFits
<1>6. Network(cidr) = cidr.addr - (cidr.addr % m)
  BY DEF Network, Masked, m
<1>7. QED
  BY <1>3, <1>5, <1>6 DEF m

\* What allocateTunnelIP gives out.
LEMMA PoolFacts == PoolExact
<1> SUFFICES ASSUME NEW cidr \in CIDRs
             PROVE  LET given    == {id \in IPs : ValidIPRange(cidr, id)}
                        reserved == {Network(cidr), ServerAddr(cidr),
                                     Network(cidr) + 2 ^ cidr.hostBits - 1}
                    IN  /\ \A id \in given :
                            /\ InNetwork(cidr, TunnelAddr(cidr, id))
                            /\ TunnelAddr(cidr, id) \notin reserved
                        /\ \A id1, id2 \in given :
                            TunnelAddr(cidr, id1) = TunnelAddr(cidr, id2) => id1 = id2
  BY DEF PoolExact
<1> DEFINE given    == {id \in IPs : ValidIPRange(cidr, id)}
           m        == 2 ^ cidr.hostBits
           n        == Network(cidr)
           space    == 2 ^ Width
<1>1. m \in Nat \ {0, 1, 2, 3} /\ space \in Nat /\ n \in Nat /\ n + m <= space
  BY NetworkFacts
<1>2. \A id \in given : id \in 1 .. m - 3
  BY <1>1 DEF ValidIPRange, IPs
<1>3. /\ ServerAddr(cidr) = (n + 1) % space
      /\ \A id : TunnelAddr(cidr, id) = (n + 1 + id) % space
      /\ \A addr : InNetwork(cidr, addr) <=> \E h \in 0 .. m - 1 : addr = n + h
  BY DEF ServerAddr, TunnelAddr, InNetwork
<1> HIDE DEF given, m, n, space
<1>4. ServerAddr(cidr) = n + 1
  BY <1>1, <1>3
<1>5. \A id \in given : TunnelAddr(cidr, id) = n + 1 + id
  BY <1>1, <1>2, <1>3
<1>6. ASSUME NEW id \in given
      PROVE  /\ InNetwork(cidr, TunnelAddr(cidr, id))
             /\ TunnelAddr(cidr, id) \notin {n, ServerAddr(cidr), n + m - 1}
  <2>1. 1 + id \in 0 .. m - 1 /\ TunnelAddr(cidr, id) = n + (1 + id)
    BY <1>1, <1>2, <1>5
  <2>2. InNetwork(cidr, TunnelAddr(cidr, id))
    BY <1>3, <2>1
  <2>3. TunnelAddr(cidr, id) \notin {n, ServerAddr(cidr), n + m - 1}
    BY <1>1, <1>2, <1>4, <2>1
  <2>4. QED
    BY <2>2, <2>3
<1>7. ASSUME NEW id1 \in given, NEW id2 \in given, TunnelAddr(cidr, id1) = TunnelAddr(cidr, id2)
      PROVE  id1 = id2
  BY <1>1, <1>2, <1>5, <1>7
<1>8. QED
  BY <1>6, <1>7 DEF given, m, n

\* An expression of a rule that has not ended has its effect.
LEMMA ExecuteFacts ==
    ASSUME NEW st, NEW expr, NEW packet, st.verdict = "none"
    PROVE  /\ expr.op = "payload" =>
                Execute(st, expr, packet) = Load(st, expr.reg, <<packet.src>>)
           /\ expr.op = "bitwise" =>
                Execute(st, expr, packet) = Mask(st, expr.reg, expr.data)
           /\ expr.op = "meta" =>
                Execute(st, expr, packet) = Load(st, expr.reg, Padded(packet.oif))
           /\ expr.op = "cmp" =>
                Execute(st, expr, packet) = Compare(st, expr.reg, expr.data)
           /\ expr.op = "masq" =>
                Execute(st, expr, packet) = End(st, "masquerade")
<1>1. Execute(st, expr, packet) = Effect(st, expr, packet)
  BY DEF Execute
<1>2. expr.op = "payload" => Effect(st, expr, packet) = Load(st, expr.reg, <<packet.src>>)
  BY DEF Effect
<1>3. expr.op = "bitwise" => Effect(st, expr, packet) = Mask(st, expr.reg, expr.data)
  BY DEF Effect
<1>4. expr.op = "meta" => Effect(st, expr, packet) = Load(st, expr.reg, Padded(packet.oif))
  BY DEF Effect
<1>5. expr.op = "cmp" => Effect(st, expr, packet) = Compare(st, expr.reg, expr.data)
  BY DEF Effect
<1>6. expr.op = "masq" => Effect(st, expr, packet) = End(st, "masquerade")
  BY DEF Effect
<1>7. QED
  BY <1>1, <1>2, <1>3, <1>4, <1>5, <1>6

\* The fields of an expression.
LEMMA ExprFacts ==
    ASSUME NEW op, NEW reg, NEW data
    PROVE  /\ Expr(op, reg, data).op = op
           /\ Expr(op, reg, data).reg = reg
           /\ Expr(op, reg, data).data = data
  BY DEF Expr

\* The registers of a state.
LEMMA RegisterFacts ==
    ASSUME NEW r1, NEW r2, NEW v
    PROVE  /\ State(r1, r2, v).reg[1] = r1
           /\ State(r1, r2, v).reg[2] = r2
           /\ State(r1, r2, v).verdict = v
  BY DEF State

\* What the effects make of the registers.
LEMMA EffectFacts ==
    ASSUME NEW r1, NEW r2, NEW v, NEW data
    PROVE  /\ Load(State(r1, r2, v), 1, data) = State(data, r2, v)
           /\ Load(State(r1, r2, v), 2, data) = State(r1, data, v)
           /\ End(State(r1, r2, v), data) = State(r1, r2, data)
  BY DEF State, Load, End

\* exprPayloadIPv4Saddr.
LEMMA PayloadFacts ==
    ASSUME NEW r1, NEW r2, NEW packet
    PROVE  Execute(State(r1, r2, "none"), Expr("payload", 1, <<>>), packet) =
             State(<<packet.src>>, r2, "none")
<1>1. PICK st : st = State(r1, r2, "none")
  OBVIOUS
<1>2. PICK expr : expr = Expr("payload", 1, <<>>)
  OBVIOUS
<1>3. st.verdict = "none" /\ expr.op = "payload" /\ expr.reg = 1
  BY <1>1, <1>2, RegisterFacts, ExprFacts
<1>4. Execute(st, expr, packet) = Load(st, 1, <<packet.src>>)
  BY <1>3, ExecuteFacts
<1>5. QED
  BY <1>1, <1>2, <1>4, EffectFacts

\* exprBitwiseMask.
LEMMA BitwiseFacts ==
    ASSUME NEW a, NEW r2, NEW packet, NEW bits
    PROVE  Execute(State(<<a>>, r2, "none"), Expr("bitwise", 1, <<bits>>), packet) =
             State(<<Masked(a, bits)>>, r2, "none")
<1>1. PICK st : st = State(<<a>>, r2, "none")
  OBVIOUS
<1>2. PICK expr : expr = Expr("bitwise", 1, <<bits>>)
  OBVIOUS
<1>3. st.verdict = "none" /\ st.reg[1] = <<a>>
  BY <1>1, RegisterFacts
<1>4. expr.op = "bitwise" /\ expr.reg = 1 /\ expr.data = <<bits>>
  BY <1>2, ExprFacts
<1>5. Execute(st, expr, packet) = Mask(st, 1, <<bits>>)
  BY <1>3, <1>4, ExecuteFacts
<1>6. Mask(st, 1, <<bits>>) = Load(st, 1, <<Masked(a, bits)>>)
  BY <1>3 DEF Mask
<1>7. QED
  BY <1>1, <1>2, <1>5, <1>6, EffectFacts

\* A sequence is its own longest part.
LEMMA WholeFacts ==
    ASSUME NEW s \in Seq(Int)
    PROVE  SubSeq(s, 1, Len(s)) = s
  OBVIOUS

\* exprCmpIPv4.
LEMMA CmpAddressFacts ==
    ASSUME NEW a \in Int, NEW b \in Int, NEW r2, NEW packet
    PROVE  Execute(State(<<a>>, r2, "none"), Expr("cmp", 1, <<b>>), packet) =
             State(<<a>>, r2, IF a = b THEN "none" ELSE "accept")
<1>1. PICK st : st = State(<<a>>, r2, "none")
  OBVIOUS
<1>2. PICK expr : expr = Expr("cmp", 1, <<b>>)
  OBVIOUS
<1>3. st.verdict = "none" /\ st.reg[1] = <<a>>
  BY <1>1, RegisterFacts
<1>4. expr.op = "cmp" /\ expr.reg = 1 /\ expr.data = <<b>>
  BY <1>2, ExprFacts
<1>5. Execute(st, expr, packet) = Compare(st, 1, <<b>>)
  BY <1>3, <1>4, ExecuteFacts
<1>6. SubSeq(<<a>>, 1, Len(<<b>>)) = <<b>> <=> a = b
  <2>1. <<a>> \in Seq(Int) /\ <<b>> \in Seq(Int) /\ Len(<<a>>) = 1 /\ Len(<<b>>) = 1
    OBVIOUS
  <2>2. SubSeq(<<a>>, 1, 1) = <<a>>
    BY <2>1, WholeFacts
  <2>3. <<a>> = <<b>> <=> a = b
    OBVIOUS
  <2>4. QED
    BY <2>1, <2>2, <2>3
<1>7. CASE a = b
  <2>1. Compare(st, 1, <<b>>) = st
    BY <1>3, <1>6, <1>7 DEF Compare
  <2>2. QED
    BY <1>1, <1>2, <1>5, <1>7, <2>1
<1>8. CASE a # b
  <2>1. Compare(st, 1, <<b>>) = End(st, "accept")
    BY <1>3, <1>6, <1>8 DEF Compare
  <2>2. QED
    BY <1>1, <1>2, <1>5, <1>8, <2>1, EffectFacts
<1>9. QED
  BY <1>7, <1>8

\* exprMetaOIFName.
LEMMA MetaFacts ==
    ASSUME NEW r1, NEW r2, NEW packet
    PROVE  Execute(State(r1, r2, "none"), Expr("meta", 2, <<>>), packet) =
             State(r1, Padded(packet.oif), "none")
<1>1. PICK st : st = State(r1, r2, "none")
  OBVIOUS
<1>2. PICK expr : expr = Expr("meta", 2, <<>>)
  OBVIOUS
<1>3. st.verdict = "none" /\ expr.op = "meta" /\ expr.reg = 2
  BY <1>1, <1>2, RegisterFacts, ExprFacts
<1>4. Execute(st, expr, packet) = Load(st, 2, Padded(packet.oif))
  BY <1>3, ExecuteFacts
<1>5. QED
  BY <1>1, <1>2, <1>4, EffectFacts

\* A padded name holds a zero: it says where the name ends.
LEMMA NameFacts ==
    ASSUME NEW oif \in Names, NEW out \in Names
    PROVE  SubSeq(Padded(oif), 1, Len(Name16(out))) = Name16(out) <=> oif = out
<1>1. /\ NameLen \in Nat
      /\ \A name \in {oif, out} :
            /\ name \in Seq(Nat \ {0}) /\ Len(name) \in 1 .. NameLen - 1
            /\ \A k \in 1 .. Len(name) : name[k] \in Nat \ {0}
  BY AddressingAssumption
<1>2. /\ Padded(oif) \in Seq(Nat) /\ Len(Padded(oif)) = NameLen
      /\ Name16(out) \in Seq(Nat) /\ Len(Name16(out)) = NameLen
      /\ \A k \in 1 .. NameLen : /\ Padded(oif)[k] = IF k <= Len(oif) THEN oif[k] ELSE 0
                                 /\ Name16(out)[k] = IF k <= Len(out) THEN out[k] ELSE 0
  BY <1>1 DEF Padded, Name16
<1>3. SubSeq(Padded(oif), 1, NameLen) = Padded(oif)
  BY <1>1, <1>2
<1>4. ASSUME Padded(oif) = Name16(out)
      PROVE  oif = out
  <2>1. \A k \in 1 .. NameLen :
            (IF k <= Len(oif) THEN oif[k] ELSE 0) = IF k <= Len(out) THEN out[k] ELSE 0
    BY <1>2, <1>4
  <2>2. \A k \in 1 .. NameLen : k <= Len(oif) <=> k <= Len(out)
    BY <1>1, <2>1
  <2>3. Len(oif) = Len(out)
    <3>1. Len(oif) \in 1 .. NameLen /\ Len(out) \in 1 .. NameLen
      BY <1>1
    <3>2. QED
      BY <2>2, <3>1
  <2>4. \A k \in 1 .. Len(oif) : oif[k] = out[k]
    BY <1>1, <2>1, <2>3
  <2>5. QED
    BY <1>1, <2>3, <2>4
<1>5. ASSUME oif = out
      PROVE  Padded(oif) = Name16(out)
  BY <1>5 DEF Padded, Name16
<1>6. QED
  BY <1>2, <1>3, <1>4, <1>5

\* exprCmpIfName.
LEMMA CmpNameFacts ==
    ASSUME NEW r1, NEW oif \in Names, NEW out \in Names, NEW packet
    PROVE  Execute(State(r1, Padded(oif), "none"), Expr("cmp", 2, Name16(out)), packet) =
             State(r1, Padded(oif), IF oif = out THEN "none" ELSE "accept")
<1>1. PICK st : st = State(r1, Padded(oif), "none")
  OBVIOUS
<1>2. PICK expr : expr = Expr("cmp", 2, Name16(out))
  OBVIOUS
<1>3. st.verdict = "none" /\ st.reg[2] = Padded(oif)
  BY <1>1, RegisterFacts
<1>4. expr.op = "cmp" /\ expr.reg = 2 /\ expr.data = Name16(out)
  BY <1>2, ExprFacts
<1>5. Execute(st, expr, packet) = Compare(st, 2, Name16(out))
  BY <1>3, <1>4, ExecuteFacts
<1>6. SubSeq(st.reg[2], 1, Len(Name16(out))) = Name16(out) <=> oif = out
  BY <1>3, NameFacts
<1>7. CASE oif = out
  <2>1. Compare(st, 2, Name16(out)) = st
    BY <1>6, <1>7 DEF Compare
  <2>2. QED
    BY <1>1, <1>2, <1>5, <1>7, <2>1
<1>8. CASE oif # out
  <2>1. Compare(st, 2, Name16(out)) = End(st, "accept")
    BY <1>6, <1>8 DEF Compare
  <2>2. QED
    BY <1>1, <1>2, <1>5, <1>8, <2>1, EffectFacts
<1>9. QED
  BY <1>7, <1>8

\* exprMasq.
LEMMA MasqFacts ==
    ASSUME NEW r1, NEW r2, NEW packet
    PROVE  Execute(State(r1, r2, "none"), Expr("masq", 1, <<>>), packet).verdict = "masquerade"
<1>1. PICK st : st = State(r1, r2, "none")
  OBVIOUS
<1>2. PICK expr : expr = Expr("masq", 1, <<>>)
  OBVIOUS
<1>3. st.verdict = "none" /\ expr.op = "masq"
  BY <1>1, <1>2, RegisterFacts, ExprFacts
<1>4. Execute(st, expr, packet) = End(st, "masquerade")
  BY <1>3, ExecuteFacts
<1>5. QED
  BY <1>1, <1>2, <1>4, EffectFacts, RegisterFacts

\* A rule that has ended goes no further.
LEMMA EndedFacts ==
    ASSUME NEW r1, NEW r2, NEW expr, NEW packet
    PROVE  Execute(State(r1, r2, "accept"), expr, packet) = State(r1, r2, "accept")
  BY RegisterFacts DEF Execute

\* The six expressions in turn.
LEMMA VerdictFacts ==
    ASSUME NEW cidr, NEW out \in Names, NEW packet, packet.oif \in Names,
           Network(cidr) \in Int, Masked(packet.src, cidr.hostBits) \in Int
    PROVE  Verdict(cidr, out, packet) =
             IF Masked(packet.src, cidr.hostBits) = Network(cidr) /\ packet.oif = out
             THEN "masquerade" ELSE "accept"
<1>1. PICK r : r = Rule(cidr, out)
  OBVIOUS
<1>2. /\ r[1] = Expr("payload", 1, <<>>) /\ r[2] = Expr("bitwise", 1, <<cidr.hostBits>>)
      /\ r[3] = Expr("cmp", 1, <<Network(cidr)>>)
      /\ r[4] = Expr("meta", 2, <<>>) /\ r[5] = Expr("cmp", 2, Name16(out))
      /\ r[6] = Expr("masq", 1, <<>>)
  BY <1>1 DEF Rule
<1> DEFINE a == Masked(packet.src, cidr.hostBits)
           n == Network(cidr)
<1>3. PICK loaded : loaded = Execute(State(<<>>, <<>>, "none"), r[1], packet)
  OBVIOUS
<1>4. PICK masked : masked = Execute(loaded, r[2], packet)
  OBVIOUS
<1>5. PICK compared : compared = Execute(masked, r[3], packet)
  OBVIOUS
<1>6. PICK named : named = Execute(compared, r[4], packet)
  OBVIOUS
<1>7. PICK matched : matched = Execute(named, r[5], packet)
  OBVIOUS
<1>8. Verdict(cidr, out, packet) = Execute(matched, r[6], packet).verdict
  BY <1>1, <1>3, <1>4, <1>5, <1>6, <1>7 DEF Verdict
<1>9. loaded = State(<<packet.src>>, <<>>, "none")
  BY <1>2, <1>3, PayloadFacts
<1>10. masked = State(<<a>>, <<>>, "none")
  BY <1>2, <1>4, <1>9, BitwiseFacts
<1>11. compared = State(<<a>>, <<>>, IF a = n THEN "none" ELSE "accept")
  BY <1>2, <1>5, <1>10, CmpAddressFacts
<1>12. CASE a # n
  <2>1. compared = State(<<a>>, <<>>, "accept")
    BY <1>11, <1>12
  <2>2. named = compared
    BY <1>6, <2>1, EndedFacts
  <2>3. matched = compared
    BY <1>7, <2>1, <2>2, EndedFacts
  <2>4. Execute(matched, r[6], packet) = compared
    BY <2>1, <2>3, EndedFacts
  <2>5. Verdict(cidr, out, packet) = "accept"
    BY <1>8, <2>1, <2>4, RegisterFacts
  <2>6. QED
    BY <1>12, <2>5
<1>13. CASE a = n
  <2>1. compared = State(<<a>>, <<>>, "none")
    BY <1>11, <1>13
  <2>2. named = State(<<a>>, Padded(packet.oif), "none")
    BY <1>2, <1>6, <2>1, MetaFacts
  <2>3. matched = State(<<a>>, Padded(packet.oif), IF packet.oif = out THEN "none" ELSE "accept")
    BY <1>2, <1>7, <2>2, CmpNameFacts
  <2>4. CASE packet.oif = out
    <3>1. matched = State(<<a>>, Padded(packet.oif), "none")
      BY <2>3, <2>4
    <3>2. Execute(matched, r[6], packet).verdict = "masquerade"
      BY <1>2, <3>1, MasqFacts
    <3>3. QED
      BY <1>8, <1>13, <2>4, <3>2
  <2>5. CASE packet.oif # out
    <3>1. matched = State(<<a>>, Padded(packet.oif), "accept")
      BY <2>3, <2>5
    <3>2. Execute(matched, r[6], packet) = matched
      BY <3>1, EndedFacts
    <3>3. Verdict(cidr, out, packet) = "accept"
      BY <1>8, <3>1, <3>2, RegisterFacts
    <3>4. QED
      BY <2>5, <3>3
  <2>6. QED
    BY <2>4, <2>5
<1>14. QED
  BY <1>12, <1>13

\* The rule that masquerade.go adds.
LEMMA RuleFacts == RuleExact
<1> SUFFICES ASSUME NEW cidr \in CIDRs, NEW out \in Names, NEW packet \in Packets
             PROVE  Verdict(cidr, out, packet) =
                      IF InNetwork(cidr, packet.src) /\ packet.oif = out
                      THEN "masquerade" ELSE "accept"
  BY DEF RuleExact
<1>1. PICK m : m = 2 ^ cidr.hostBits
  OBVIOUS
<1>2. m \in Nat \ {0} /\ 2 ^ Width \in Nat
  BY <1>1, NetworkFacts
<1>3. packet.src \in Nat /\ cidr.addr \in Nat /\ packet.oif \in Names
  BY <1>2 DEF Packets, CIDRs, IPs
<1>4. /\ Network(cidr) = cidr.addr - (cidr.addr % m)
      /\ Masked(packet.src, cidr.hostBits) = packet.src - (packet.src % m)
  BY <1>1 DEF Network, Masked
<1>5. Network(cidr) \in Int /\ Masked(packet.src, cidr.hostBits) \in Int
  BY <1>2, <1>3, <1>4
<1>6. InNetwork(cidr, packet.src) <=> \E h \in 0 .. m - 1 : packet.src = Network(cidr) + h
  BY <1>1 DEF InNetwork
<1>7. InNetwork(cidr, packet.src) <=> Masked(packet.src, cidr.hostBits) = Network(cidr)
  <2>1. PICK a, b \in Nat : a = cidr.addr /\ b = packet.src
    BY <1>3
  <2>2. b - (b % m) = a - (a % m) <=> \E h \in 0 .. m - 1 : b = a - (a % m) + h
    BY <1>2, SameBlock
  <2>3. QED
    BY <1>4, <1>6, <2>1, <2>2
<1>8. CASE InNetwork(cidr, packet.src) /\ packet.oif = out
  BY <1>3, <1>5, <1>7, <1>8, VerdictFacts
<1>9. CASE ~(InNetwork(cidr, packet.src) /\ packet.oif = out)
  BY <1>3, <1>5, <1>7, <1>9, VerdictFacts
<1>10. QED
  BY <1>8, <1>9

-----------------------------------------------------------------------------
(***************************************************************************)
(* While the default route leads into the tunnel, the server and the SSH   *)
(* remotes are routed around it, for every list of remotes: Route.Apply    *)
(* and Route.Cleanup change the default route in between.                  *)
(***************************************************************************)
THEOREM BypassRoutesHold == Spec => []BypassHolds
<1>1. Inv => BypassHolds
  BY DEF Inv, BypassInv, BypassHolds, Tun0
<1>2. QED
  BY <1>1, SpecInv, PTL

(***************************************************************************)
(* Rollback and the two Teardowns of VpnManager ask the kernel for nothing *)
(* that this run has not set up, also when the list of bypass routes has   *)
(* an address twice.                                                       *)
(***************************************************************************)
THEOREM OnlyItsOwnIsUndone == Spec => []UndoMatchesDo
<1>1. Inv => UndoMatchesDo
  BY DEF Inv
<1>2. QED
  BY <1>1, SpecInv, PTL

(***************************************************************************)
(* ApplyAll fails on a host that answers every request only because the    *)
(* host had what it wanted to add, or because of an SSH session from the   *)
(* server.                                                                 *)
(***************************************************************************)
THEOREM StartsFailForCause == Spec => []RefusedForCause
<1>1. Inv => RefusedForCause
  BY DEF Inv
<1>2. QED
  BY <1>1, SpecInv, PTL

(***************************************************************************)
(* The default routes the host had are there after Run, whatever their     *)
(* metrics, unless the request to restore the one without a metric was     *)
(* refused or the answer to the one that replaced it was lost; those with  *)
(* a metric are there at all times, also when elevpn is killed.            *)
(***************************************************************************)
THEOREM DefaultRouteIsKept == Spec => []DefaultKept
<1>1. Inv => DefaultKept
  <2> SUFFICES ASSUME Inv, NEW r \in found.default \ host.default
               PROVE  /\ r.metric = 0
                      /\ pc = "exited" =>
                           {<<"restore", "refused">>, <<"replace", "lost">>} \cap harm # {}
    BY DEF DefaultKept
  <2> USE DEF Inv
  <2>1. r.metric = 0
    <3>1. r \in WithMetric(found.default) => r \in host.default
      BY DEF DefaultInv, WithMetric
    <3>2. QED
      BY <3>1 DEF WithMetric
  <2>2. r = DefaultVia("gateway", 0)
    BY <2>1 DEF DefaultInv, TypeInv, Host, DefaultVia
  <2>3. pc = "exited" => r \in DefaultNow
    BY <2>2 DEF DefaultNow, Beside, Tunnelled
  <2>4. QED
    BY <2>1, <2>3 DEF DefaultInv
<1>2. QED
  BY <1>1, SpecInv, PTL

(***************************************************************************)
(* The host is as Run found it when Run is over, but for the metric of the *)
(* route a client puts back: after any failed Apply, rollback and          *)
(* Teardown, whatever an earlier run that was killed had left there, and   *)
(* for every metric of the host's own default route.                       *)
(***************************************************************************)
THEOREM HostIsRestored == Spec => []Restores
<1>1. Inv => Restores
  <2> SUFFICES ASSUME Inv, pc = "exited", Harmless
               PROVE  host = IF side = "client" /\ applied = Len(Components)
                             THEN ReplaceDefault(found, "gateway") ELSE found
    BY DEF Restores, Harmless
  <2> USE DEF Inv
  <2>1. host.tun = found.tun
    BY DEF TunInv, Idle
  <2>2. host.forward = found.forward
    BY DEF ForwardInv, TypeInv
  <2>3. host.table = found.table
    BY DEF TableInv
  <2>4. host.hosts = found.hosts
    <3>1. Placed = 0
      BY DEF Placed
    <3>2. {bypass[k] : k \in 1 .. Placed} = {}
      BY <3>1
    <3>3. host.hosts = found.hosts \cup {bypass[k] : k \in 1 .. Placed}
      BY DEF HostsInv
    <3>4. QED
      BY <3>2, <3>3
  <2>5. host.default = IF side = "client" /\ applied = 2 THEN Beside("gateway")
                       ELSE found.default
    <3>1. {<<"restore", "refused">>, <<"replace", "lost">>} \cap harm = {}
      BY DEF Harmless, DoOps, UndoOps
    <3>2. QED
      BY <3>1 DEF DefaultInv, DefaultNow, Tunnelled
  <2>6. side = "client" => Len(Components) = 2
    BY ComponentFacts
  <2>7. ReplaceDefault(found, "gateway") = [found EXCEPT !.default = Beside("gateway")]
    BY DEF ReplaceDefault, Beside, WithMetric, TypeInv, Host
  <2>8. CASE side = "client" /\ applied = 2
    <3>1. host = [found EXCEPT !.default = Beside("gateway")]
      BY <2>1, <2>2, <2>3, <2>4, <2>5, <2>8 DEF TypeInv, Host
    <3>2. QED
      BY <2>6, <2>7, <2>8, <3>1
  <2>9. CASE ~(side = "client" /\ applied = 2)
    <3>1. host = found
      BY <2>1, <2>2, <2>3, <2>4, <2>5, <2>9 DEF TypeInv, Host
    <3>2. QED
      BY <2>6, <2>9, <3>1
  <2>10. QED
    BY <2>8, <2>9
<1>2. QED
  BY <1>1, SpecInv, PTL

(***************************************************************************)
(* A peer of a running server has an address of its own in the VPN         *)
(* network, for addresses of any width and every vpn-network-cidr: what    *)
(* allocateTunnelIP adds to the network neither wraps around nor meets an  *)
(* address that is taken.                                                  *)
(***************************************************************************)
THEOREM PoolIsSound == Spec => []PoolSound
<1>1. Inv => PoolSound
  BY PoolFacts DEF PoolSound
<1>2. QED
  BY <1>1, SpecInv, PTL

(***************************************************************************)
(* The rule in elevpn's nftables table masquerades exactly the packets of  *)
(* the VPN network that leave by the server's interface, for addresses of  *)
(* any width and all interface names shorter than the padding.             *)
(***************************************************************************)
THEOREM MasqueradeIsExact == Spec => []MasqueradeExact
<1>1. Inv => MasqueradeExact
  BY RuleFacts DEF MasqueradeExact
<1>2. QED
  BY <1>1, SpecInv, PTL
=============================================================================
