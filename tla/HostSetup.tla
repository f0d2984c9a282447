----------------------------- MODULE HostSetup ------------------------------
(***************************************************************************)
(* What elevpn does to its host, and undoes: VpnManager.ApplyAll and       *)
(* Teardown over the components of a server (TUN device, IP forwarding,    *)
(* masquerading) or of a client (TUN device, routes).                      *)
(*                                                                         *)
(* A step is one request to the kernel.  It is refused, or carried out and *)
(* acknowledged, or carried out while its acknowledgement is lost: for the *)
(* code the last is a failure too.  The process may be killed between any  *)
(* two steps and started again on the host it left behind.  What the rule  *)
(* of the masquerade does to packets is in Addressing.                     *)
(***************************************************************************)
EXTENDS Addressing

CONSTANTS
    ServerIP,       \* the address of the VPN server
    Remotes,        \* the addresses from which SSH sessions may come
    OwnHosts,       \* the host routes that the administrator may have set
    Metrics,        \* the metrics that the host's own default route may have
    Faults,         \* bound: how each request may go wrong
    MaxStarts       \* bound: how often elevpn is started

Ops == {"create", "mtu", "addr", "mask", "up", "close", "forward", "unforward",
        "newtable", "deltable", "resolve", "add", "replace", "restore", "del"}

ASSUME HostAssumption ==
    /\ Metrics \subseteq Nat
    /\ MaxStarts \in Nat
    /\ Faults \in [Ops -> SUBSET {"refused", "lost"}]

VARIABLES
    side,       \* which program this is, "server" or "client"
    host,       \* the kernel's side
    found,      \* the host as it was when Run began
    pc,         \* where the process is
    i,          \* the component at work
    j,          \* the host route at work, 1 .. Len(bypass), or beyond them
    applied,    \* Len(m.components): the components that have been applied
    caller,     \* who called the Teardown under way, "ApplyAll" or "Run"
    prev,       \* IPForward.previousValue
    bypass,     \* Route.bypassIPs
    harm,       \* history: the requests of this run that went wrong
    starts      \* times elevpn was started

vars == <<side, host, found, pc, i, j, applied, caller, prev, bypass, harm, starts>>
position == <<pc, i, j, applied, caller>>
memory == <<side, found, prev, bypass, starts>>

\* The order in Run; ApplyAll goes up, Teardown comes down.
Components ==
    IF side = "server" THEN <<"tun", "forward", "masquerade">>
                       ELSE <<"tun", "route">>

Nil == -1

-----------------------------------------------------------------------------
(***************************************************************************)
(* The kernel.  default holds the default routes; the one with the least   *)
(* metric is used.  elevpn gives no metric, which is metric 0.  A replace  *)
(* takes the place of a route of the same metric and otherwise adds one.   *)
(***************************************************************************)
DefaultVia(via, metric) == [via |-> via, metric |-> metric]

ReplaceDefault(h, via) ==
    [h EXCEPT !.default = {r \in @ : r.metric # 0} \cup {DefaultVia(via, 0)}]

\* With the last descriptor of a TUN device the device goes, and its routes.
RemoveTun(h) ==
    [h EXCEPT !.tun = {}, !.default = {r \in @ : r.via # "tun"}]

Untouched(forward, hosts, metric) ==
    [tun     |-> {},
     forward |-> forward,
     table   |-> FALSE,
     default |-> {DefaultVia("gateway", metric)},
     hosts   |-> hosts]

\* The outcomes of request op, which the kernel can carry out if valid.
Outcomes(op, valid) == IF valid THEN {"ok"} \cup Faults[op] ELSE {"invalid"}

Request(op, outcome, effect) ==
    /\ host' = IF outcome \in {"ok", "lost"} THEN effect ELSE host
    /\ harm' = IF outcome = "ok" THEN harm ELSE harm \cup {<<op, outcome>>}

-----------------------------------------------------------------------------
(***************************************************************************)
(* Run, ApplyAll and Teardown                                              *)
(***************************************************************************)
Init ==
    /\ side \in {"server", "client"}
    /\ \E forward \in {0, 1}, hosts \in SUBSET OwnHosts, metric \in Metrics :
            host = Untouched(forward, hosts, metric)
    /\ found = host
    /\ pc = "exited"
    /\ i = 0 /\ j = 0 /\ applied = 0
    /\ caller = "Run"
    /\ prev = Nil
    /\ bypass = <<>>
    /\ harm = {}
    /\ starts = 0

\* Run up to ApplyAll, or to buildBypassCIDRs.  Without a default route
\* through a gateway it ends before it has done anything.
Begin ==
    /\ pc \in {"exited", "killed"}
    /\ starts < MaxStarts
    /\ \E r \in host.default : r.via = "gateway"
    /\ starts' = starts + 1
    /\ found' = host
    /\ IF side = "server" THEN pc' = "apply" /\ bypass' = <<>>
                          ELSE pc' = "detect" /\ bypass' = <<ServerIP>>
    /\ prev' = Nil
    /\ harm' = {}
    /\ i' = 1 /\ j' = 1 /\ applied' = 0 /\ caller' = "Run"
    /\ UNCHANGED <<side, host>>

\* Mutant: two sessions from one host count twice.
MutSeen(list, ip) == Append(list, ip)

\* An address is taken once; the first of the list is not compared with.
Seen(list, ip) == IF Contains(Tail(list), ip) THEN list ELSE Append(list, ip)

\* detectSSHClientCIDRs, for the next of the sessions.
Detect(ip) ==
    /\ pc = "detect"
    /\ bypass' = Seen(bypass, ip)
    /\ UNCHANGED <<host, position, harm, side, found, prev, starts>>

\* The search failed or met an address that is not IPv4: its result is lost.
DetectFails ==
    /\ pc = "detect"
    /\ pc' = "apply"
    /\ bypass' = <<ServerIP>>
    /\ UNCHANGED <<host, i, j, applied, caller, harm, side, found, prev, starts>>

\* No session is left.
BuildBypass ==
    /\ pc = "detect"
    /\ pc' = "apply"
    /\ UNCHANGED <<host, i, j, applied, caller, harm, memory>>

Applying(c) == pc = "apply" /\ Components[i] = c

\* Apply returned nil: the component is the manager's.
Applied ==
    /\ applied' = i
    /\ j' = 1
    /\ IF i = Len(Components) THEN pc' = "running" /\ UNCHANGED i
                              ELSE i' = i + 1 /\ UNCHANGED pc
    /\ UNCHANGED caller

\* Mutant: the component at work, also when its Apply has failed.
MutAtWork == i

LastApplied == applied

\* Teardown starts with the last component applied.
Teardown(by) ==
    /\ pc' = "cleanup"
    /\ i' = LastApplied
    /\ j' = Len(bypass) + 1
    /\ caller' = by
    /\ UNCHANGED applied

\* Apply returned an error: ApplyAll tears down.
ApplyFails == Teardown("ApplyAll")

\* One request of an Apply that has no rollback of its own.
ApplyStep(op, outcome, effect, next) ==
    /\ Request(op, outcome, effect)
    /\ IF outcome = "ok" THEN next ELSE ApplyFails

\* The tunnel ends, or cannot start: Run returns.
Stop ==
    /\ pc = "running"
    /\ Teardown("Run")
    /\ UNCHANGED <<host, harm, memory>>

Cleaning(c) == pc = "cleanup" /\ i > 0 /\ Components[i] = c

\* Cleanup returned; errors are logged.
CleanedUp ==
    /\ i' = i - 1
    /\ j' = Len(bypass) + 1
    /\ UNCHANGED <<pc, applied, caller>>

CleanupStep(op, outcome, effect) == Request(op, outcome, effect) /\ CleanedUp

\* ApplyAll's Teardown is followed by the deferred one, over the same
\* components, and that by the end of the process.
TornDown ==
    /\ pc = "cleanup" /\ i = 0
    /\ IF caller = "Run"
       THEN pc' = "exiting" /\ UNCHANGED <<i, j, applied, caller>>
       ELSE Teardown("Run")
    /\ UNCHANGED <<host, harm, memory>>

Exit ==
    /\ pc = "exiting"
    /\ pc' = "exited"
    /\ host' = RemoveTun(host)
    /\ UNCHANGED <<i, j, applied, caller, harm, memory>>

\* The process is killed.
Kill ==
    /\ pc \notin {"exited", "killed"}
    /\ pc' = "killed"
    /\ host' = RemoveTun(host)
    /\ UNCHANGED <<i, j, applied, caller, harm, memory>>

-----------------------------------------------------------------------------
(***************************************************************************)
(* Tun.  Each step of Apply needs the one before; a device left by a       *)
(* failed Apply stays until the process ends.                              *)
(***************************************************************************)
TunStep(op, needs, next) ==
    /\ Applying("tun")
    /\ host.tun = needs
    /\ \E o \in Outcomes(op, TRUE) :
            ApplyStep(op, o, [host EXCEPT !.tun = @ \cup {op}], next)
    /\ UNCHANGED memory

Create == TunStep("create", {}, UNCHANGED position)
SetMTU == TunStep("mtu", {"create"}, UNCHANGED position)
SetIPv4CIDR == TunStep("addr", {"create", "mtu"}, UNCHANGED position)
SetNetmask == TunStep("mask", {"create", "mtu", "addr"}, UNCHANGED position)
Up == TunStep("up", {"create", "mtu", "addr", "mask"}, Applied)

\* Close.  The second time there is no file any more.
CleanupTun ==
    /\ Cleaning("tun")
    /\ IF host.tun = {}
       THEN CleanedUp /\ UNCHANGED <<host, harm>>
       ELSE \E o \in Outcomes("close", TRUE) : CleanupStep("close", o, RemoveTun(host))
    /\ UNCHANGED memory

-----------------------------------------------------------------------------
(***************************************************************************)
(* IPForward and Masquerade                                                *)
(***************************************************************************)
ApplyForward ==
    /\ Applying("forward")
    /\ prev' = host.forward
    /\ \E o \in Outcomes("forward", TRUE) :
            ApplyStep("forward", o, [host EXCEPT !.forward = 1], Applied)
    /\ UNCHANGED <<side, found, bypass, starts>>

PreviousValue == prev

CleanupForward ==
    /\ Cleaning("forward")
    /\ \E o \in Outcomes("unforward", TRUE) :
            CleanupStep("unforward", o, [host EXCEPT !.forward = PreviousValue])
    /\ UNCHANGED memory

\* One batch: table, chain and rule, or nothing.  The table must be new.
ApplyMasquerade ==
    /\ Applying("masquerade")
    /\ \E o \in Outcomes("newtable", ~host.table) :
            ApplyStep("newtable", o, [host EXCEPT !.table = TRUE], Applied)
    /\ UNCHANGED memory

CleanupMasquerade ==
    /\ Cleaning("masquerade")
    /\ \E o \in Outcomes("deltable", host.table) :
            CleanupStep("deltable", o, [host EXCEPT !.table = FALSE])
    /\ UNCHANGED memory

-----------------------------------------------------------------------------
(***************************************************************************)
(* Route                                                                   *)
(***************************************************************************)
ResolveFails ==
    /\ Applying("route") /\ j = 1
    /\ "refused" \in Faults["resolve"]
    /\ ApplyFails
    /\ UNCHANGED <<host, harm, memory>>

\* Mutant: the last route that was added stays.
MutRollbackShort == IF j > 1 THEN j - 2 ELSE 0

\* Apply failed at host route j, or behind the last one: delete the ones
\* before it.
RollbackFrom == j - 1

Rollback ==
    /\ pc' = "rollback"
    /\ j' = RollbackFrom
    /\ UNCHANGED <<i, applied, caller>>

\* AddHostRoute: the route must be new.
AddHostRoute ==
    /\ Applying("route")
    /\ j <= Len(bypass)
    /\ \E o \in Outcomes("add", bypass[j] \notin host.hosts) :
        /\ Request("add", o, [host EXCEPT !.hosts = @ \cup {bypass[j]}])
        /\ IF o = "ok" THEN j' = j + 1 /\ UNCHANGED <<pc, i, applied, caller>>
                       ELSE Rollback
    /\ UNCHANGED memory

\* The kernel takes no route over a device that is not up.
ReplaceDefaultRoute ==
    /\ Applying("route")
    /\ j > Len(bypass)
    /\ \E o \in Outcomes("replace", "up" \in host.tun) :
        /\ Request("replace", o, ReplaceDefault(host, "tun"))
        /\ IF o = "ok" THEN Applied ELSE Rollback
    /\ UNCHANGED memory

\* One turn of deleteHostRoutes; what follows the last one is next.
DeleteHostRoute(next) ==
    IF j > 0
    THEN \E o \in Outcomes("del", bypass[j] \in host.hosts) :
            /\ Request("del", o, [host EXCEPT !.hosts = @ \ {bypass[j]}])
            /\ j' = j - 1
            /\ UNCHANGED <<pc, i, applied, caller>>
    ELSE next /\ UNCHANGED <<host, harm>>

RollbackRoute ==
    /\ pc = "rollback"
    /\ DeleteHostRoute(ApplyFails)
    /\ UNCHANGED memory

\* Mutant: the host routes go without the default route being back.
MutRestoreDefaultRoute ==
    /\ Cleaning("route")
    /\ j > Len(bypass)
    /\ j' = Len(bypass)
    /\ UNCHANGED <<pc, i, applied, caller, host, harm, memory>>

\* Mutant: nothing is restored.
MutSkipRestore ==
    /\ Cleaning("route")
    /\ j > Len(bypass)
    /\ CleanedUp
    /\ UNCHANGED <<host, harm, memory>>

\* Cleanup.  Without the default route back, the host routes stay.
RestoreDefaultRoute ==
    /\ Cleaning("route")
    /\ j > Len(bypass)
    /\ \E o \in Outcomes("restore", TRUE) :
        /\ Request("restore", o, ReplaceDefault(host, "gateway"))
        /\ IF o = "ok" THEN j' = Len(bypass) /\ UNCHANGED <<pc, i, applied, caller>>
                       ELSE CleanedUp
    /\ UNCHANGED memory

CleanupRoute ==
    /\ Cleaning("route")
    /\ j <= Len(bypass)
    /\ DeleteHostRoute(CleanedUp)
    /\ UNCHANGED memory

-----------------------------------------------------------------------------
\* No start is left, or none is possible.
Terminated ==
    /\ pc \in {"exited", "killed"}
    /\ UNCHANGED vars

ServerNext == ApplyForward \/ CleanupForward \/ ApplyMasquerade \/ CleanupMasquerade

ClientNext ==
    \/ (\E ip \in Remotes : Detect(ip)) \/ DetectFails \/ BuildBypass
    \/ ResolveFails \/ AddHostRoute \/ ReplaceDefaultRoute \/ RollbackRoute
    \/ RestoreDefaultRoute \/ CleanupRoute

Next ==
    \/ Begin
    \/ Create \/ SetMTU \/ SetIPv4CIDR \/ SetNetmask \/ Up \/ CleanupTun
    \/ ServerNext \/ ClientNext
    \/ Stop \/ TornDown \/ Exit \/ Kill
    \/ Terminated

Spec == Init /\ [][Next]_vars

-----------------------------------------------------------------------------
\* The requests that undo others, and those that ApplyAll makes.
UndoOps == {"close", "unforward", "deltable", "restore", "del"}
DoOps == Ops \ UndoOps

(***************************************************************************)
(* Run leaves the host as it found it: after a normal stop, after a start  *)
(* that failed at any step, on a host on which an earlier process was      *)
(* killed; unless an acknowledgement was lost or the kernel refused to     *)
(* undo something.  A start that meets what a killed process left behind   *)
(* must not take it, or anything of the administrator's, for its own.      *)
(* The default route that a client puts back, after it was set up, has no  *)
(* metric: it is the one that was found if that had none, and otherwise    *)
(* stays beside it, and is the only thing that stays.                      *)
(***************************************************************************)
Restores ==
    pc = "exited" /\ harm \subseteq DoOps \X {"refused", "invalid"} =>
        host = IF side = "client" /\ applied = Len(Components)
               THEN ReplaceDefault(found, "gateway")
               ELSE found

(***************************************************************************)
(* While the default route leads into the tunnel, the server and the SSH   *)
(* remotes are routed around it (README: "bypass the tunnel through the    *)
(* original gateway and interface"): set up before, taken away after; only *)
(* a lost acknowledgement of the replaced route makes a rollback take them *)
(* away too early.                                                         *)
(***************************************************************************)
BypassHolds ==
    DefaultVia("tun", 0) \in host.default /\ <<"replace", "lost">> \notin harm
        => ToSet(bypass) \subseteq host.hosts

(***************************************************************************)
(* A default route that the host had is never lost if it has a metric, not *)
(* even when elevpn is killed.  One without a metric is replaced while the *)
(* tunnel is up, and is back when Run has ended, whatever else goes wrong, *)
(* unless the very request to restore it was refused or the                *)
(* acknowledgement of the one that replaced it was lost.                   *)
(***************************************************************************)
DefaultKept ==
    \A r \in found.default \ host.default :
        /\ r.metric = 0
        /\ pc = "exited" =>
                {<<"restore", "refused">>, <<"replace", "lost">>} \cap harm # {}

(***************************************************************************)
(* Nothing is undone that was not done: rollback and the two Teardowns ask *)
(* for no deletion that the kernel cannot carry out.                       *)
(***************************************************************************)
UndoMatchesDo == harm \cap (UndoOps \X {"invalid"}) = {}

(***************************************************************************)
(* A start fails on its own accord only on a host that already had what it *)
(* wanted to add (docs/plan.txt: the client adds bypass routes for the     *)
(* server endpoint and for the current SSH remotes), or when an SSH        *)
(* session comes from the server: the list then has its address twice.     *)
(***************************************************************************)
RefusedForCause ==
    /\ <<"add", "invalid">> \in harm =>
            ToSet(bypass) \cap found.hosts # {} \/ Contains(Tail(bypass), ServerIP)
    /\ <<"newtable", "invalid">> \in harm => found.table
    /\ <<"replace", "invalid">> \notin harm

(***************************************************************************)
(* While the host has elevpn's nftables table, exactly the packets from    *)
(* the VPN network that leave by the server's own interface are            *)
(* masqueraded: not those that leave by an interface whose name only       *)
(* begins like it, nor those of a network next to it.                      *)
(***************************************************************************)
MasqueradeExact == host.table => RuleExact

(***************************************************************************)
(* Every peer of a server that runs gets an address of the VPN network     *)
(* that is not the server's, not the network's and not the broadcast       *)
(* address, and no other peer has it; whatever host bits the configured    *)
(* CIDR has set, and also when the network is as large as it can be.       *)
(***************************************************************************)
PoolSound == side = "server" /\ pc = "running" => PoolExact

-----------------------------------------------------------------------------
\* docs/plan.txt, "3.": the default route is changed to tun0 and on exit the
\* route that was there is restored.  So a run in which nothing went wrong
\* leaves the default routes it found.
DefaultRestored == pc = "exited" /\ harm = {} => host.default = found.default
=============================================================================
