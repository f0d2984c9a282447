# elevpn in TLA+

A verification development of elevpn, a small layer-3 VPN for Linux written in
Go: one server, many clients, UDP between them, a pre-shared key, AES-GCM.  The
modules are translated from the code; `PROJECT.json` names, for every definition
that models code, the lines it stands for.

1. [The system](#the-system): inventory of the components
2. [Modules](#modules): which module models what
3. [Runs](#runs): what TLC checks, bounds, fairness
4. [Proofs](#proofs): what TLAPS proves and how
5. [Findings](#findings)
6. [Not modelled](#not-modelled) and [what is open](#what-is-open)

## The system

### Replay window — `internal/protocol/replay_window.go`

State: the highest sequence taken and a 64-bit map of the ones below it.
Operation: `Accept(sequence)`, which takes a sequence or answers invalid, too old
or duplicate.  One per peer on the server, one per session on the client, each
under its owner's mutex.

Hard: the edges (zero, shift by the full width, exactly 64 behind), each needing
a particular order of several packets.  Correct when it never takes a sequence
twice and refuses nothing new inside the window.

### Wire protocol — `internal/protocol/*.go`

No state.  Keys are derived from the PSK: the ALOHA key from the client random,
the WELCOME key from both randoms, the peer key from the peer ID and both
randoms.  A nonce is a direction and a sequence.  The header is authenticated as
AAD, and in a handshake the random behind it too.  Correct when no key and nonce
ever seal two packets, and a packet opens only in the session and direction it
was sealed for, understood as it was meant.

### Peer store — `internal/server/peer_store.go`, `peer.go`

State: three maps (by ID, inner address, client random), the next ID, all under
one mutex; per peer its cipher, send counter, replay window, last-seen time,
under the peer's own mutex.  Operations: `register`, `setTunnelIP`, `getBy...`,
`deleteExpired`; `setCipher`, `acceptClientSequence`, `nextSendSequence`, `touch`.

Hard: a handler keeps a `*peer` over several critical sections, and
`deleteExpired` may take the peer out of the maps between any two of them.
Correct when the maps always describe the same peers, an expired peer does not
come back, and a live one is not lost.

### Server tunnel — `internal/server/server.go`, `handler.go`

Three goroutines in an errgroup.  `udpToTun` reads datagrams and runs the
handlers (`handleAloha`, `handleKeepalive`, `handleData`) to their end;
`tunToUdp` reads inner packets and sends them to the peer that has the
destination address; `expirePeersLoop` removes every 10 s the peers that have not
been heard of for 30 s.  They share the peer store and nothing else.  The first
error cancels all three.

Hard: the handshake publishes the peer to `tunToUdp` half way; two goroutines
number packets from one counter; errors that stop the server versus errors that
drop a packet; a restarted server remembers nothing, repeats IDs, addresses and
sequences while old packets and old clients are still about.

### Client session — `internal/client/handshake.go`, `session.go`, `client.go`

`Run` does one handshake (one ALOHA, one datagram read, 10 s), sets up TUN and
routes, and runs `udpToTun`, `tunToUdp` and `keepAliveLoop`; the last two share
the send counter.  Hard: two senders that write outside the lock; a handshake
that reads exactly one datagram; agreement with a server that may have forgotten
the session.

### Stopping — `server.go`, `session.go`, `tun.go`

`errgroup`, `context.AfterFunc`, an eventfd and deferred calls end a tunnel.  One
loop sits in a read of the socket, which only closing it ends; one in a `poll`
of eventfd and TUN, which only the eventfd ends; one in a `select`.  `AfterFunc`
runs in a goroutine that nobody waits for.  Hard: a lost wake-up would keep the
teardown waiting; a file may be closed under a loop that uses it, or its number
used after it was closed; the wrong error may be reported.

### Component manager, routes, forwarding, NAT, TUN — `internal/vpn`, `internal/tun`, `internal/client/route.go`

`VpnManager.ApplyAll` applies components in order and tears them down in reverse;
a route component adds bypass host routes and replaces the default route, with
rollback.  The state is the host's: interfaces, routes, `ip_forward`, nftables.
Hard: partial failure, a kernel that did what it failed to acknowledge, what a
crash leaves behind, a teardown that runs twice.  Correct when a run undoes what
it did and nothing else, and the way to the server never leads into the tunnel.

### Netlink — `internal/netlink`

Builds messages and batches and counts acknowledgements (`recvAcks`); asks for the
routing table (`GetDefaultRoute`) and for the TCP connections
(`GetEstablishedTCPRemoteIPsByLocalPort`) and walks through the dumps.  Hard:
acknowledgements that are lost, repeated or another's; dumps in several
datagrams; a host that changes during the dump; lengths and padding.

### Command line, build, infrastructure — `main.go`, `cmd`, `magefile.go`, `infra`

Flags and signals; no state of their own.

## Modules

| Module | Models | Uses |
|---|---|---|
| `ReplayWindow` | `ReplayWindow.Accept`, as operators | |
| `ReplayFilter` | the promise of a replay filter, without a window | |
| `ReplayReceiver` | one window fed by the network | `ReplayWindow`, refines `ReplayFilter` |
| `WireFormat` | the bytes of packets, keys and buffers, as operators | |
| `Packets` | keys, nonces, sealing and opening, as symbols | |
| `Server` | peer store and the three goroutines | `Packets`, `ReplayWindow` |
| `Client` | handshake and session of every client | `Packets`, `ReplayWindow` |
| `Tunnel` | server, clients and the network between them | `Server`, `Client` |
| `Keepalive` | the client's keepalives against the server's expiry | |
| `Shutdown` | how a server or a client stops | |
| `HostSetup` | component manager, TUN, forwarding, masquerade, routes, bypass list | `Addressing` |
| `Addressing` | the VPN network's addresses and the nftables rule, as operators | |
| `Netlink` | requests and their acknowledgements | |
| `Messages` | the bytes of netlink messages, as operators | |
| `RouteDump` | `GetDefaultRoute` against the kernel's dump | |
| `SockDiag` | the search for SSH sessions against the kernel's dump | |
| `ReplayProofs` | proofs about the window | |
| `TunnelProofs` | proofs about the server, its sessions, and server and clients together | |
| `KeepaliveProofs` | proof about the periods | |
| `ShutdownProofs`, `HostSetupProofs` | proofs about these modules and about `Addressing` | |
| `NetlinkProofs`, `RouteDumpProofs`, `SockDiagProofs` | proofs about these modules | |
| `MCReplay` | TLC: `ReplayReceiver`, `WireFormat` | |
| `MCServer`, `MCTunnel`, `MCKeepalive`, `MCShutdown` | TLC: the modules of these names | |
| `MCHostSetup` | TLC: `HostSetup` with `Addressing` | |
| `MCNetlink` | TLC: `Netlink`, `Messages` | |
| `MCRouteDump`, `MCSockDiag` | TLC: the modules of these names | |

Three modules are pure operators: `WireFormat`, `Addressing` and `Messages`.  What
they have to do for all inputs is one formula in each, and TLC evaluates it over all
bounded inputs at the states where it matters; `HostSetup` or the MC module of the
component says which these are.

**ReplayWindow.** The bitmap is the set of the positions of its one bits, position
`o` standing for sequence `highest - o`; `ShiftLeft` loses what it moves past the
last position.  `WindowSize` is 64 in the code and a parameter here.

**Packets.** Cryptography is symbolic: a key is the tuple of what is hashed, and a
packet opens under exactly the key and nonce that sealed it.  The three
derivations hash inputs of different lengths, so tuples of different lengths are
different keys (`WireFormat` checks this on the bytes).  Random numbers do not
repeat.  Whoever lacks the PSK can make no
packet that opens, so such packets are left out.

**Server.** A step is what a goroutine does in one critical section or one system
call.  `handleAloha` is `Register`, `SetCipher`, `SetTunnelIP`, `NumberWelcome`,
`SendWelcome`; a session packet is `ReadPacket`, `HandlePacket`, `Deliver`,
`Touch`; `tunToUdp` is `ReadTun`, `NumberData`, `SendData`; the cleanup is
`TickerFires`, `ReadNow`, `DeleteExpired`.  `ReadUdpFails`, `ReadTunFails` and
`ExpiryEnds` are the ends of the loops, by an I/O error or because another one
failed.  A `*peer` is its ID: IDs are not reused by a running server, so a
pointer to a peer that was deleted is an ID that is not in `byID`.

Merged into one step where no other goroutine can tell: in `SetCipher` the
window of the new peer (nobody else has its ID yet, since no client can send
under an unknown key), the server random and the cipher; in `HandlePacket` the
second lookup, the address comparison and the window, as only `udpToTun` writes
to windows and `addr` never changes.  One order is fixed: `tunToUdp` takes its
number before it looks at the cipher, as in the code, and `SendData` reads the
cipher again.

Time is relative: `idle` is the time since `lastSeen`, `tick` the time since the
ticker fired, `e.age` the time since `expirePeersLoop` read its clock.  Peers
outside the store do not age, as nobody looks at them.

`Restart` ends the process anywhere and starts it again, with empty state; the
history variables `net`, `delivered` and `randoms` go on.  They are not state of
the program: they are what the network and the TUN have seen.

In `Server` alone, clients are an environment that may do anything a PSK holder
can: repeat ALOHAs, send any session packet of any WELCOME of this or an earlier
run, from any address.

**Client.** Named by its random, as each `Run` draws one.  `ReadWelcome` ends the
client on anything but its WELCOME with sequence 1, as `handshake` does.  A
sender holds its number between `nextSendSequence` and `Write`.  `Stop` is any end
of `Run`: deadline, failed set-up, I/O error, signal.  Addresses can be taken over
by a later client, since `ListenAddr` may be a fixed port.

**Tunnel.** `net` keeps every packet ever sent; any of them may arrive at its
address at any time, any number of times, or never.

**WireFormat.** The layout behind `Packets`: header, random, ciphertext and tag as a
sequence of bytes, the byte order of the numbers, what the HMAC is fed, what the
AAD is, every check of the decoders, the receive buffers, which cut off what does not
fit, and the dispatch of the two `udpToTun` by type and peer ID (`ServerReads`,
`ClientReadsPacket`).  AES-GCM is ideal: its output bytes stand for all that went in, and
`AEADOpen` accepts exactly these.  Decoders return a set, empty for an error.

**Keepalive.** Only time: the ages of the keepalives under way, the two tickers, the
idle time of the peer.  What must happen by some time stops the clock until it
has.  The constants are periods and limits on delays and losses; the assumption
`PeriodAssumption` says that the periods leave room for them.

**Shutdown.** A step is what a goroutine does up to its next blocking call.  The
descriptor number of the eventfd is state: after it is closed, a netlink socket of
the teardown may get it.  `Deferred` is the order of the deferred calls, which
differs between server and client.  `side` says which of the two it is.

**HostSetup.** A step is one request to the kernel: refused, done, or done while the
acknowledgement is lost, which the code takes for a failure.  `Kill` may come
between any two steps, and elevpn is started again on what is left.  The kernel
(external) keeps a set of default routes with metrics, host routes, the TUN
interface, the nftables table and `ip_forward`.  `found` is the host when `Run`
began, `harm` what went wrong since: properties say what holds when nothing did,
or how little did.  The bypass list is built one SSH session at a time (`Detect`), in
any order and number; `DetectFails` is the search that ends in an error and gives
up what it had.

**Addressing.** `normalize`, `allocateTunnelIP`, `validIPRange`, and the six
expressions of the nftables rule with a small machine (external) that runs them one
after the other on a register.

**Netlink.** The kernel (external) works inside `Sendto`, one message of the packet per
step: `Handle` refuses the message or stages what it asks for, `Commit` puts a batch
into force when no message of it was refused, `CommitFails` and `Abort` drop it.  Each
acknowledgement, or error number, is a datagram.  `recvAcks` then takes one step per
message: `Recv` reads a datagram, `MessageMalformed`, `MessageOther`, `MessageErrno`
and `MessageAck` are the branches of its loop, `RecvReturns` the comparison of the count.
Answers may be lost or repeated, foreign messages mixed in, and the receive timeout
may come at any time.

**Messages.** `putAttr`, `putNestAttr`, `nlMsg`, `nftMsg`, `batchMsg`, and the two loops
that walk through messages and attributes.

**RouteDump.** One buffer of 4-byte words into which every datagram is read.  The
gateway is what the code has, a slice of that buffer: a position whose content
counts when the caller reads it.  Interfaces may disappear at any time.  The
kernel (external) fills a datagram route by route and sends it when it likes
(`DumpRoute`, `DumpDatagram`, `DumpDone`, `DumpRefused`).  `recvDefaultRoute` takes one
step per message and one per attribute.

**SockDiag.** The kernel (external) goes through a table of sockets slot by slot while
connections are made and closed; `recvEstablishedTCPRemoteIP` takes the messages of a
datagram one per step, collects what matches, and drops what has another sequence
number.

## Runs

| Run | Question | Properties | Distinct states |
|---|---|---|---|
| `replay` | Is the window exact for every order of arrival, and a packet understood as meant? | `TypeOK`, `WindowExact`, `FilterSpec`, `PacketUnderstood` | 2 300 |
| `server` | With interrupted handlers, late sweeps, errors and a restart: is the store sound, do peers leave in time, what stops the server? | `TypeOK`, `StoreConsistent`, `KeyedBeforeRouted`, `WelcomeHonoured`, `PromptRemoval`, `NonceFresh`, `StopsForCause`, `KeptWhileHeard`, `RemovedForGood`, `SilentPeerRemoved` | 2 200 000 |
| `tunnel` | Do two clients and the server agree, across a restart, with private deliveries and fresh nonces at both ends? | `SessionAgreement`, `PrivateDelivery`, `AtMostOnce`, `TunnelNonceFresh` | 2 000 000 |
| `keepalive` | Do the code's periods hold a quiet client's peer? | `PeerStays` | 620 |
| `shutdown` | Does every end of a tunnel come to its end, in order? | `NoLostWakeup`, `DeviceOutlivesLoops`, `CauseReported`, `StrayWriteNeedsFailure`, `EveryEndReturns` | 1 700 |
| `host` | Is the host as it was after a run, with any fault and a kill? | `BypassHolds`, `DefaultKept`, `UndoMatchesDo`, `RefusedForCause`, `Restores`, `MasqueradeExact`, `PoolSound` | 206 000 |
| `netlink` | Is what `recvAcks` says true, and do packets hold what was put in? | `TypeOK`, `AnswerIsTrue`, `PacketsSurvive`, `CallReturns` | 134 000 |
| `route_dump` | Is the default route found, and does the parser return? | `TypeOK`, `OriginalRoute`, `DumpEnds` | 400 000 |
| `sock_diag` | Are lasting SSH sessions found in a changing table? | `SessionsFound` | 670 000 |
| `welcome_sequence` | Is a WELCOME the first packet of its peer? | `WelcomeIsFirst` | violation |
| `fatal_aloha` | Does only an I/O error end the server? | `OnlyIOEndsServer` | violation |
| `restored_metric` | Are the default routes those that were found? | `DefaultRestored` | violation |

Properties in words:

- `WindowExact`: `highest` is the largest sequence accepted, and a bit of the
  window is set exactly when its sequence was accepted.
- `FilterSpec`: the window implements a filter that remembers everything.
- `PacketUnderstood`: every packet, of a handshake or of a session in either
  direction, is given to the server with each peer, to each client in its session and
  to each client that waits for a WELCOME.  Whoever it is for gets the message that was
  sent, up to the largest size, if it has a type that this reader acts on and, at the
  server, the peer ID of the session; all others get nothing, nor does anybody get
  anything of a packet that was cut off at any place.
- `StoreConsistent`: the three maps describe the same peers.
- `KeyedBeforeRouted`: an inner address never leads to a peer without cipher.
- `WelcomeHonoured`: what a WELCOME granted is in force while its session is.
- `PromptRemoval`, `KeptWhileHeard`, `RemovedForGood`: a peer leaves the store
  neither too late nor too early, and does not come back.
- `SilentPeerRemoved`: it does leave, unless an error ends the server first.
- `StopsForCause`: an ALOHA stops the server only when this run has registered more
  peers than the network has client addresses, or when its peer expired under the
  handler; never because an address is still taken.  Expired peers count: their
  addresses are free and not given out again (see `fatal_aloha`).
- `NonceFresh`, `TunnelNonceFresh`: no key and nonce seal two packets, at the
  server and at both ends.
- `AtMostOnce`, `PrivateDelivery`: an inner packet reaches a TUN once only, and
  only that of the client whose address it bears.
- `SessionAgreement`: while the server has the peer of a client's session, both
  have the same key and addresses, and nobody else has it.
- `PeerStays`: a client that is up keeps its peer by keepalives alone.
- `NoLostWakeup`: once `AfterFunc` has written, the poll finds the eventfd readable
  until the loop has seen it.  `DeviceOutlivesLoops`: neither TUN nor eventfd is
  closed before the loops have returned.  `CauseReported`: without a signal `Run`
  returns the error that ended it; a client stopped by a signal returns none
  unless a call really failed.  `StrayWriteNeedsFailure`: the late
  write to a closed eventfd needs a failure, a signal alone cannot cause it.
  `EveryEndReturns`: whatever ends the tunnel, `Run` returns.
- `Restores`: a run leaves the host as it found it, also when it failed half way,
  unless an acknowledgement was lost or the kernel refused to undo something; the
  default route that a client puts back has no metric, and is the one it found
  exactly when that had none (see `restored_metric`).  `UndoMatchesDo`: nothing is
  undone that this run did not do.  `BypassHolds`: while the default route leads into
  the tunnel, server and SSH remotes are routed around it, unless the acknowledgement
  of the replace was lost.  `DefaultKept`: a default route with a
  metric is never lost; one without is back at the end, unless restoring it was refused
  or the acknowledgement of the replace was lost.  `RefusedForCause`: the client's routes
  are refused only because of what was on the host before, or of an SSH session from the
  server.
- `MasqueradeExact`, `PoolSound`: the rule matches exactly the VPN network on
  exactly one interface; addresses of peers are distinct and usable.
- `AnswerIsTrue`: nil means all was done, an error number that nothing was.  Messages
  of others are of another type, malformed, or acknowledge nothing that was sent; an
  error number, with which `recvAcks` ends whatever its sequence (`socket.go:88`), is not
  among them, since the kernel sends it only to the socket of the request.
  `CallReturns`: a call returns when its answers are lost.  `PacketsSurvive`: walks
  over attributes and messages find what was put in, and nothing else after a cut.
- `OriginalRoute`, `DumpEnds`: what the parser returns, and that it does, also when a
  route message without attributes and with another sequence number comes in between.
- `SessionsFound`: sessions over IPv4 that lasted are found, and nothing that never
  was; the dump is asked for `AF_INET` only, so sockets have no family in the model.

### Bounds

- `WindowSize` 3 (replay) or 2, with sequences running over two windows and
  more: every branch of `Accept` is taken, including jumps over the
  whole window.  The proofs are for every size.
- `WireFormat`: bytes of 5 values, numbers and randoms of 2 bytes, tags of 2,
  payloads up to 2: small enough for all pairs of packets and decoders, while
  numbers still need both bytes, and one random can be read as two halves.
- `MaxPeers` 2 in `server`: a peer expires and its client, or another one, is
  registered again while handlers still hold the first.  In `tunnel` one: the restart
  gives the same ID out again, to the other client or to the same one.
- `MaxSend`, `MaxClientSend` 1 to 3: a WELCOME and DATA from the same counter, and
  two senders at once; with 3 and a window of 2 a packet falls out of the window.
- `MaxRestarts` 1: one old and one new life of the server.  `MaxHandshakes` 2, over both
  lives: two peers of one life, or one of each.  A restart before any packet was sent
  is left out, as the server would be as in `Init`.
- `PeerTimeout`, `CleanupInterval` 1, `MaxLag` 0 or 1: in `server` a sweep may be
  a whole interval late, with a clock read before, at or after the delay.
  `MaxIdle` caps the count of idle time above the bound of `PromptRemoval`.
- `ClientSequences`: what session packets in `Server` alone carry; in `Tunnel` the
  clients number their own packets.
- `IOFails` is TRUE in `server`: every system call may fail.  So it may in `shutdown`.
- `NetworkSize` 8, so that two peers have addresses; or 4 in `fatal_aloha`, the smallest
  that `normalize` allows, where the second registration finds none.  The case of
  `StopsForCause` in which the addresses are used up is that run's and the theorem's.
- `Keepalive`: 5, 5 and 15 units of two seconds are the code's 10 s, 10 s and 30 s;
  a packet takes up to 2 s, the set-up up to 6 s, one keepalive in a row is lost.
  That is all the timeout has room for: 1 + 3 + 2 * 5 + 1 = 15.
- `HostSetup`: `Faults` lets every request be refused and every netlink
  acknowledgement be lost, any number of times; `MaxStarts` 2 is a start on what a
  crash left; SSH sessions, as many as one likes, from two hosts and from the server;
  `Metrics` 0 and 1: a default route that the replace meets, and one that it does not.
  `restored_metric` has one start and no faults.
- `Addressing`: addresses of 4 bits, all networks in them; names of up to two
  letters padded to three.  `Messages`: lists of up to 2 attributes, lengths 0 to 6,
  up to 3 messages.
- `Netlink`: `MaxCalls` 2, so that the second call meets what the first left;
  `MaxNoise` 2 foreign, repeated or lost answers per call.
- `RouteDump`: tables of up to 3 routes, `Splits` 3 datagrams, 1 foreign message.
  `SockDiag`: 2 slots, 1 change and 1 foreign message during the dump.

Client randoms and addresses are symmetric in the runs without liveness: the
model only compares them for equality.

### Fairness

- `SilentPeerRemoved`: weak fairness of `Tick` (time passes) and of
  `ExpirePeersLoop` (the Go scheduler runs a goroutine that is ready, and nobody
  holds the store's mutex for ever, as no code blocks while it does).  None is
  assumed for the network, the clients or the other goroutines.
- `EveryEndReturns`: weak fairness of the goroutines, of `AfterFunc` and of `Run`,
  where they can go on.  None for what comes from outside: packets, signals and
  errors need not come.
- `CallReturns`: weak fairness of the kernel, which finishes the packet it was given, of
  `recvAcks`, and of the socket's receive timeout.
- `DumpEnds`: weak fairness of the parser and of the kernel that goes on with a
  dump it began; the timeout is not needed.

Deadlock is checked in all passing runs; a program that has returned is in
`Terminated`.

## Proofs

All for every value of the constants, from the assumptions named in the modules:
`WindowSizeAssumption` (the window has a position), `ArrivingAssumption`
(sequences are naturals), `BoundsAssumption` (bounds are naturals),
`NetworkAssumption` (four addresses at least, from `normalize`), `TimeAssumption`
(times are naturals, the interval is not zero, a sweep is over within it),
`PeriodAssumption` (delay, set-up and losses fit into the timeout),
`HostAssumption` (a fault is a refusal or a lost answer, a metric a natural), `NetlinkAssumption` and
`DiagAssumption` (bounds are naturals, the port asked for is one),
`DumpAssumption` (a routing table is a sequence of routes, each with an interface),
`AddressingAssumption` (addresses have at least two bits, an interface name fits into
its field with a zero behind it) and `PowersOfTwo`.  The last one restricts nothing: it
is what the proofs use of `2 ^ b`, of which the provers know nothing.

| Theorem | Module | Shows |
|---|---|---|
| `ReceiverTyping`, `ReceiverExact` | `ReplayProofs` | `TypeOK`, `WindowExact` |
| `ReceiverImplementsFilter` | `ReplayProofs` | the refinement `FilterSpec` |
| `ServerTyping` | `TunnelProofs` | `TypeOK` |
| `StoreIsConsistent`, `RoutedPeersAreKeyed` | `TunnelProofs` | `StoreConsistent`, `KeyedBeforeRouted` |
| `PeersRemovedForGood`, `HeardPeersAreKept` | `TunnelProofs` | the action properties |
| `RemovalIsPrompt` | `TunnelProofs` | `PromptRemoval` |
| `ServerStopsForCause` | `TunnelProofs` | `StopsForCause` |
| `NoncesAreFresh` | `TunnelProofs` | `NonceFresh` |
| `DeliveredAtMostOnce` | `TunnelProofs` | `AtMostOnce` |
| `WelcomesAreHonoured` | `TunnelProofs` | `WelcomeHonoured` |
| `SessionsAgree` | `TunnelProofs` | `SessionAgreement` |
| `DeliveryIsPrivate` | `TunnelProofs` | `PrivateDelivery` |
| `TunnelNoncesAreFresh` | `TunnelProofs` | `TunnelNonceFresh` |
| `TunnelDeliversAtMostOnce` | `TunnelProofs` | `AtMostOnce`, with real clients |
| `PeerKept` | `KeepaliveProofs` | `PeerStays` |
| `WakeupsAreKept`, `DeviceIsClosedLast` | `ShutdownProofs` | `NoLostWakeup`, `DeviceOutlivesLoops` |
| `CauseIsReported`, `StrayWritesNeedFailure` | `ShutdownProofs` | `CauseReported`, `StrayWriteNeedsFailure` |
| `BypassRoutesHold`, `OnlyItsOwnIsUndone`, `StartsFailForCause` | `HostSetupProofs` | `BypassHolds`, `UndoMatchesDo`, `RefusedForCause` |
| `DefaultRouteIsKept`, `HostIsRestored` | `HostSetupProofs` | `DefaultKept`, `Restores` |
| `PoolIsSound`, `MasqueradeIsExact` | `HostSetupProofs` | `PoolSound`, `MasqueradeExact` |
| `NetlinkTyping`, `AnswersAreTrue` | `NetlinkProofs` | `TypeOK`, `AnswerIsTrue` |
| `DumpTyping`, `OriginalRouteIsFound` | `RouteDumpProofs` | `TypeOK`, `OriginalRoute` |
| `SessionsAreFound` | `SockDiagProofs` | `SessionsFound` |

How the arguments go:

- *Window.* `WindowExact` is inductive with `TypeOK`.  From it `Accepts` is the
  filter's `Fresh`, which gives the refinement step by step.  Two lemmas are for
  the users of a window: `AcceptOnce` (what was taken is refused at once) and
  `RefusedForEver` (what is refused stays refused whatever arrives).
- *Store.* `StoreConsistent` is not inductive: `setTunnelIP` writes to a peer that
  was looked up some steps ago.  `HandlerInv` says what the handler may rely on:
  its peer was given out, has no address before `setTunnelIP`, and has its cipher
  after `setCipher`.  Most steps are `Quiet`, they touch no indexed field, and are
  dealt with once.
- *Expiry.* `SweepBound` bounds the idle time by where the loop is: after a sweep,
  waiting, or between ticker and sweep, when an interval has to be added.
- *Nonces.* `NonceInv`: a cipher names its peer and a server random already drawn
  (`CipherInv`), so does everything on the wire (`WireInv`); a handshake's random
  is in no WELCOME yet (`WelcomeInv`); a peer's counter, and the number that
  `tunToUdp` holds, are ahead of all that was sent under its cipher (`NumberInv`).
  A new cipher or a restart then meets no old packet, since the random is new.
- *At most once.* `TakenInv`: what was delivered under a cipher in use is refused
  by its peer's window.  `AcceptOnce` establishes it, `RefusedForEver` keeps it.
- *WELCOMEs.* `GrantInv` ties each WELCOME of a current cipher to the peer's
  address, `GreetInv` does so for the one still being made; `WelcomeInv` shows that
  no WELCOME of the session is out when the address is set.
- *What stops the server.* `StopsForCause` speaks of peers that expired, the handler
  of a peer it looked up before.  `StopInv` says what the handler has found so far,
  `AddressInv` that a peer that is in the store has the address of its ID or none, so
  that only IDs beyond the network fail.
- *Tunnel.* The invariants of the server are used again as they stand: `WireInv` and
  `NumberInv` leave room for what clients send, which differs by the direction in the
  nonce.  `ServerInv` therefore holds with clients in the place of `SessionPacketArrives`.
  `ShapeInv` adds what packets say: a WELCOME grants the address of its peer ID, DATA
  from the server is for the address of the peer that owns its key.  For each client,
  `ClientOK`: it has the session of some WELCOME on the wire (`Welcomed`), its window
  refuses what was delivered (`Taken`) and the packet it is about to deliver
  (`Reading`), its counter is ahead of what it sent and its two senders hold different
  numbers (`Sent`, `Numbers`).  A step of one client leaves `ClientOK` of the others
  alone because a key names its client's random (`OnlyClientInv`).  `SameWindow` and
  `SamePackets` connect the operators of the client's instances with the server's.
- *Keepalive.* `PeerStays` says that the peer is registered, which is inductive only
  with `IdleInv`: how long the peer can have been idle, by what the client did since
  its last keepalive, or by the age of one that is under way.  The bound is the
  left side of `PeriodAssumption`, so the peer is never `Expired`.  In units of the
  code: it holds as long as no two keepalives in a row are lost and delays and
  set-up take no more than 10 s together.
- *Shutdown.* That the wake-up is not lost depends on how far everybody is: `RunInv` says
  what `Run` has not touched before the loops are done, `GroupInv` ties the group's
  error and context to the loops that have returned and to `AfterFunc`, and `WakeInv`
  says that the eventfd is readable through `AfterFunc` alone.  A loop's step either
  goes on or returns to the group; each kind is dealt with once (`MoveInv`,
  `ReturnInv`).
- *HostSetup.* `PlaceInv` says that the last component is applied only if none failed,
  so it is cleaned up once, although `Teardown` runs twice after a failure.  `Placed` is
  the number of bypass routes that this run has put in place, by where `Apply`, its
  rollback or `Cleanup` is; `HostsInv` says that those are on the host, are different and
  were not there before.  That they are different does not come from the list, which
  may have the server twice, but from the kernel, which has taken each as new.
  `BypassInv` says where a default route over the tunnel can be met, and `DefaultInv`
  which default routes there are at each place (`DefaultNow`): those found, or those found
  with a metric and the one that replace or restore has set beside them.  A
  request that fails while undoing, or whose answer is lost, ends the claims that
  speak of a restored host (`Harmless`), not those of `BypassHolds` and `UndoMatchesDo`.

- *Addresses.* A network is a block of `2 ^ hostBits` addresses that begins at a multiple
  of its size, so an address lies in it exactly when masking gives its first address
  (`Quotient` and the lemmas after it); the pool begins behind the server's address and
  ends in front of the broadcast address (`PoolFacts`).  For the rule, `ExecuteFacts` says
  what each expression does to the register and the verdict, and `VerdictFacts` puts the
  six together; padded names are equal exactly when the names are.
- *Netlink.* `AnswerIsTrue` speaks of calls that have returned.  While the kernel works,
  `AnswersInv` says that the answers so far are to different messages that asked for one,
  `StagedInv` what is staged when none was refused.  While `recvAcks` works, `RecvInv`
  leaves two cases.  Either all is done, and no error number is on its way (`Done`); or
  nothing is, and there is a number that `recvAcks` waits for of which no acknowledgement is
  read before an error number (`Undone`, `Blocked`).  Losing, repeating or adding datagrams
  keeps both.  `CountInv` ties the counter to the set of acknowledged numbers, so the count
  is complete only in the first case.
- *RouteDump.* `ReadInv`: the datagram in the buffer is cut into whole messages (`Cut`), and
  the parser, which adds the length each message tells, stands at a cut, or at an attribute
  of a default route (`Walks`).  The gateway is a position in a buffer that is written again:
  `LongInv` says that only a datagram with routes is longer than seven words, and that
  there is one such at most while `datagrams` is not above 1; a gateway lies behind the
  seventh word, so that what is read later, DONE or a message of others, does not reach it.
  `FoundInv` then keeps interface and gateway.
- *SockDiag.* `FoundInv`: a session that lasts and that the dump has passed is in the result,
  or in a datagram that is unread, queued or being filled.  `DoneInv`: NLMSG_DONE is the last
  thing the kernel says, so that when it is read nothing is on its way any more.
  `EverInv` gives the converse, that nothing is found that never was.

Only model-checked:

- liveness (`SilentPeerRemoved`, `EveryEndReturns`, `CallReturns`, `DumpEnds`), which needs
  fairness and `ENABLED` and is outside the prover;
- what the walks and folds of `Messages` and `WireFormat` compute (`PacketsSurvive`,
  `PacketUnderstood`), which needs induction over data.

All other properties of the passing runs are theorems.

## Findings

- `welcome_sequence`: an inner packet for the new address, in the moment between
  `setTunnelIP` and the WELCOME's `nextSendSequence`, takes sequence 1; the WELCOME
  gets 2 and the client rejects it.  The client has to be started again, with a
  new random; its peer stays until it expires.

- `fatal_aloha`: peer IDs are not reused, so after as many registrations as the
  network has client addresses, expired ones included, the next ALOHA is an error that
  `handlePacketError` does not drop, and the server stops; `docs/plan.txt:65` wants packet
  errors told apart from the I/O errors that end the tunnel.
- `restored_metric`: neither the replaced nor the restored default route carries a
  metric (`netlink/route.go:106`, `113`).  On a host whose default route has one, a run
  without faults leaves a second default route behind; `docs/plan.txt:26` says that the
  existing route is restored.

The properties of the passing runs that meet these cases name them as conditions, so
that they say what holds of the code as it is; the violation runs have no condition.

### Observations

Further conditions of properties for which the code is the reason: without the
condition TLC finds a counterexample.

- *Replay.* `README.en.md` (lines 194, 333) describes strictly increasing sequences;
  the code has a 64-position window and takes late packets, as `docs/plan.txt:32` says.
- *Late eventfd write* (`StrayWriteNeedsFailure`).  When the loops fail by themselves,
  `errgroup.Wait` may return and the eventfd be closed before `AfterFunc` writes
  (`server.go:139`, `session.go:51`), to a closed number or to a netlink socket.
- *Signal on the server* (the second part of `CauseReported` is about the client).  `handleAloha` returns the
  raw error of a write to the closed socket, so a server stopped by a signal in
  that moment reports an error.
- *Interface gone* (`DumpEnds`).  When the interface of the default route disappears
  between dump and lookup, the loop over attributes continues without moving on
  (`link.go:140`).
- *Lost acknowledgement of the replace* (`BypassHolds`, `DefaultKept`).  The kernel has
  replaced the default route, `recvAcks` times out, and the rollback deletes the bypass
  routes (`vpn/route.go:77`) and leaves the default route on the tunnel;
  `docs/command.txt:178` has them removed after the default route was restored.
- *SSH from the server* (`RefusedForCause`).  With a session from the server's address
  the bypass list has it twice (`client/route.go:36`); the kernel refuses the second
  route, and the client does not start.
- *Dump in several datagrams* (`OriginalRoute`).  The gateway is a slice of the receive
  buffer (`link.go:150`), which the next datagram overwrites.
- *Several default routes* (`OriginalRoute`).  The last one of the dump is returned
  (`link.go:142`); the kernel dumps them by rising metric and uses the first.

## Not modelled

- Datagrams that do not open (wrong PSK): dropped before any state is touched.
  That packets of others do not open is `PacketUnderstood`.
- Failures of the random generator, of cipher construction and of the encoders:
  with the fixed key and buffer sizes of the code they do not occur.
- The contents of inner packets beyond their destination.
- The overflow of the 64-bit counters and of the 32-bit peer ID: out of reach of
  a running server; the address range ends long before the IDs do.
- The kernel, beyond what elevpn asks of it: `HostSetup`, `Netlink`, `RouteDump` and
  `SockDiag` have as much of it as the code relies on.  Attributes too short for
  their number, which no kernel sends, are left out of `RouteDump`.
- The bytes of the route and socket-diagnosis requests, which are fixed.
- Flag parsing, build and infrastructure: no state of their own.

## What is open

All components that keep or change state are modelled and checked, and every safety
property of the passing runs is proved, except the two that need induction over data.
Left for a later extension:

1. `Messages` and `WireFormat`: the layout of single fields could be proved without
   induction, for attributes and payloads of any length.
2. A gateway that survives a dump in several datagrams, should the code come to copy it:
   `OriginalRoute` would lose its condition on `datagrams`, and the proof `LongInv`.
