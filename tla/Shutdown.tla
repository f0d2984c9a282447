------------------------------ MODULE Shutdown ------------------------------
(***************************************************************************)
(* How a server or a client stops: runTunnel and session.run with their    *)
(* errgroup, the context.AfterFunc that wakes the goroutines, the eventfd  *)
(* and the poll of Tun.ReadContext, and the deferred calls of Run.         *)
(*                                                                         *)
(*   udp    udpToTun       blocked in a read of the UDP socket             *)
(*   tun    tunToUdp       blocked in a poll of eventfd and TUN            *)
(*   timer  expirePeersLoop or keepAliveLoop, blocked in a select          *)
(*   after  the function given to AfterFunc, a goroutine of its own that   *)
(*          nobody waits for                                               *)
(*   run    the goroutine that called Run                                  *)
(*                                                                         *)
(* Nothing but the eventfd ends the poll, and nothing but the closing of   *)
(* the socket ends the read.  A descriptor is a number: once the eventfd   *)
(* is closed, a socket that the teardown opens may get its number.         *)
(***************************************************************************)
EXTENDS Sequences

CONSTANT
    IOFails         \* bound: whether system calls may fail by themselves

ASSUME ShutdownAssumption == IOFails \in BOOLEAN

Loops == {"udp", "tun", "timer"}

VARIABLES
    side,       \* which program this is, "server" or "client"
    signalled,  \* the context of main is cancelled: SIGINT or SIGTERM came
    errCtx,     \* the errgroup's context is cancelled
    err,        \* the errgroup's first error: "none", "canceled" or "failed"
    g,          \* where each of the loops is
    after,      \* where AfterFunc's goroutine is
    run,        \* where Run is
    todo,       \* Run's deferred calls, the next one first
    readable,   \* the eventfd's counter is not zero
    fd,         \* what the number of the eventfd names: "eventfd", "free", "netlink"
    wrote,      \* what AfterFunc wrote to
    conn,       \* the UDP socket: "open" or "closed"
    device,     \* the TUN device: "open" or "closed"
    queued,     \* an inner packet waits in the TUN device
    broken      \* history: a system call failed by itself

vars == <<side, signalled, errCtx, err, g, after, run, todo, readable, fd, wrote,
          conn, device, queued, broken>>

\* The context of the errgroup, what hangs on it, and its error.
group == <<errCtx, err, after>>
files == <<readable, fd, conn, device, queued>>

\* The deferred calls in the order they run.  runTunnel's own comes first;
\* Server.Run deferred Teardown before conn.Close, Client.Run after it.
\* Teardown opens netlink sockets and in the end closes the TUN device.
Deferred ==
    IF side = "server" THEN <<"eventfd", "conn", "netlink", "device">>
                       ELSE <<"eventfd", "netlink", "device", "conn">>

Init ==
    /\ side \in {"server", "client"}
    /\ signalled = FALSE
    /\ errCtx = FALSE
    /\ err = "none"
    /\ g = [p \in Loops |-> "unborn"]
    /\ after = "idle"
    /\ run = "setup"
    /\ todo = <<>>
    /\ readable = FALSE
    /\ fd = "free"
    /\ wrote = "nothing"
    /\ conn = "open"
    /\ device = "open"
    /\ queued = FALSE
    /\ broken = FALSE

-----------------------------------------------------------------------------
(***************************************************************************)
(* The context and the errgroup                                            *)
(***************************************************************************)
\* Cancelling starts AfterFunc's goroutine, once.
Cancel ==
    /\ errCtx' = TRUE
    /\ after' = IF errCtx THEN after ELSE "write"

\* errOnce: the group keeps the first error.
FirstError(why) == IF err = "none" THEN why ELSE err

\* Loop p returns an error to the group, which cancels.
Return(p, why) ==
    /\ g' = [g EXCEPT ![p] = "done"]
    /\ err' = FirstError(why)
    /\ Cancel

\* Mutant: the error as it is.
MutCtxErr == "failed"

\* What a loop makes of an I/O error: ctx.Err() once the context is done.
CtxErr == IF errCtx THEN "canceled" ELSE "failed"

\* A system call on a socket that is closed, or one that fails by itself.
CallError == IOFails /\ broken' = TRUE
ConnError == CallError \/ (conn = "closed" /\ UNCHANGED broken)

\* NotifyContext: the signal cancels the parent context, and with it errCtx
\* when the group is there.
Signal ==
    /\ ~signalled
    /\ run # "returned"
    /\ signalled' = TRUE
    /\ IF run = "setup" THEN UNCHANGED <<errCtx, after>> ELSE Cancel
    /\ UNCHANGED <<side, err, g, run, todo, files, wrote, broken>>

-----------------------------------------------------------------------------
(***************************************************************************)
(* udpToTun                                                                *)
(***************************************************************************)
\* A datagram arrives.  The server answers an ALOHA on the socket; all else
\* goes to the TUN device, or is dropped.
ReadUdp ==
    /\ g["udp"] = "read"
    /\ conn = "open"
    /\ \E pc \in {"deliver"} \cup (IF side = "server" THEN {"welcome"} ELSE {}) :
            g' = [g EXCEPT !["udp"] = pc]
    /\ UNCHANGED <<side, signalled, group, run, todo, files, wrote, broken>>

ReadUdpEnds ==
    /\ g["udp"] = "read"
    /\ ConnError
    /\ Return("udp", CtxErr)
    /\ UNCHANGED <<side, signalled, run, todo, files, wrote>>

\* WriteContext of handleData and of the client's udpToTun.
Deliver ==
    /\ g["udp"] = "deliver"
    /\ \/ /\ g' = [g EXCEPT !["udp"] = "read"]
          /\ UNCHANGED <<group, broken>>
       \/ CallError /\ Return("udp", CtxErr)
    /\ UNCHANGED <<side, signalled, run, todo, files, wrote>>

\* handleAloha returns its errors as they are, also those of the socket
\* that AfterFunc closed.
SendWelcome ==
    /\ g["udp"] = "welcome"
    /\ \/ /\ conn = "open"
          /\ g' = [g EXCEPT !["udp"] = "read"]
          /\ UNCHANGED <<group, broken>>
       \/ ConnError /\ Return("udp", "failed")
    /\ UNCHANGED <<side, signalled, run, todo, files, wrote>>

-----------------------------------------------------------------------------
(***************************************************************************)
(* tunToUdp and Tun.ReadContext                                            *)
(***************************************************************************)
\* Mutant: the TUN device is looked at before the eventfd.
MutWakes == readable /\ ~queued

\* poll returns: the eventfd comes first in fds, and is looked at first.
Wakes == readable

\* Mutant: the eventfd is read and the loop goes on.
MutPollWakes ==
    /\ g["tun"] = "poll"
    /\ Wakes
    /\ readable' = FALSE
    /\ UNCHANGED <<side, signalled, group, g, run, todo, fd, conn, device, queued, wrote, broken>>

PollWakes ==
    /\ g["tun"] = "poll"
    /\ Wakes
    /\ readable' = FALSE
    /\ Return("tun", "canceled")
    /\ UNCHANGED <<side, signalled, run, todo, fd, conn, device, queued, wrote, broken>>

\* An inner packet.  The server drops it when no peer has its destination.
PollReads ==
    /\ g["tun"] = "poll"
    /\ queued /\ ~Wakes
    /\ queued' = FALSE
    /\ \/ g' = [g EXCEPT !["tun"] = "send"]
       \/ side = "server" /\ UNCHANGED g
    /\ UNCHANGED <<side, signalled, group, run, todo, readable, fd, conn, device, wrote, broken>>

\* POLLNVAL, POLLERR, POLLHUP, a failed read, or an inner packet that is
\* not well-formed IPv4.
PollFails ==
    /\ g["tun"] = "poll"
    /\ IOFails \/ fd # "eventfd" \/ device = "closed"
    /\ broken' = (broken \/ (fd = "eventfd" /\ device = "open"))
    /\ Return("tun", "failed")
    /\ UNCHANGED <<side, signalled, run, todo, files, wrote>>

SendTun ==
    /\ g["tun"] = "send"
    /\ \/ /\ conn = "open"
          /\ g' = [g EXCEPT !["tun"] = "poll"]
          /\ UNCHANGED <<group, broken>>
       \/ ConnError /\ Return("tun", CtxErr)
    /\ UNCHANGED <<side, signalled, run, todo, files, wrote>>

-----------------------------------------------------------------------------
(***************************************************************************)
(* expirePeersLoop and keepAliveLoop.  What the server does at a tick      *)
(* cannot fail and blocks on nothing; the client sends a KEEPALIVE.        *)
(***************************************************************************)
Tick ==
    /\ side = "client"
    /\ g["timer"] = "select"
    /\ g' = [g EXCEPT !["timer"] = "send"]
    /\ UNCHANGED <<side, signalled, group, run, todo, files, wrote, broken>>

SendKeepalive ==
    /\ g["timer"] = "send"
    /\ \/ /\ conn = "open"
          /\ g' = [g EXCEPT !["timer"] = "select"]
          /\ UNCHANGED <<group, broken>>
       \/ ConnError /\ Return("timer", CtxErr)
    /\ UNCHANGED <<side, signalled, run, todo, files, wrote>>

TimerEnds ==
    /\ g["timer"] = "select"
    /\ errCtx
    /\ Return("timer", "canceled")
    /\ UNCHANGED <<side, signalled, run, todo, files, wrote, broken>>

-----------------------------------------------------------------------------
(***************************************************************************)
(* AfterFunc                                                               *)
(***************************************************************************)
\* Mutant: the socket is closed first.
MutAfterWrites ==
    /\ after = "write"
    /\ IF conn = "open"
       THEN conn' = "closed" /\ UNCHANGED <<wrote, readable, after>>
       ELSE /\ wrote' = fd
            /\ readable' = (readable \/ fd = "eventfd")
            /\ after' = "close"
            /\ UNCHANGED conn
    /\ UNCHANGED <<side, signalled, errCtx, err, g, run, todo, fd, device, queued, broken>>

\* unix.Write to the number of the eventfd, whatever that now names.
AfterWrites ==
    /\ after = "write"
    /\ wrote' = fd
    /\ readable' = (readable \/ fd = "eventfd")
    /\ after' = "close"
    /\ UNCHANGED <<side, signalled, errCtx, err, g, run, todo, fd, conn, device, queued, broken>>

\* Mutant: AfterFunc closes the TUN device too, as it once did.
MutAfterCloses ==
    /\ after = "close"
    /\ conn' = "closed"
    /\ device' = "closed"
    /\ after' = "done"
    /\ UNCHANGED <<side, signalled, errCtx, err, g, run, todo, readable, fd, queued, wrote, broken>>

AfterCloses ==
    /\ after = "close"
    /\ conn' = "closed"
    /\ after' = "done"
    /\ UNCHANGED <<side, signalled, errCtx, err, g, run, todo, readable, fd, device,
                   queued, wrote, broken>>

-----------------------------------------------------------------------------
(***************************************************************************)
(* Run                                                                     *)
(***************************************************************************)
\* Handshake or set-up fails.  Neither looks at the context.
SetupFails ==
    /\ run = "setup"
    /\ IOFails
    /\ run' = "returned"
    /\ err' = "failed"
    /\ device' = "closed"
    /\ conn' = "closed"
    /\ broken' = TRUE
    /\ UNCHANGED <<side, signalled, errCtx, after, g, todo, readable, fd, queued, wrote>>

\* What each loop waits in first.
Born ==
    [p \in Loops |-> CASE p = "udp" -> "read" [] p = "tun" -> "poll"
                       [] p = "timer" -> "select"]

\* Eventfd, errgroup.WithContext, AfterFunc and the three Go calls.  A
\* context that is cancelled already starts AfterFunc's goroutine at once.
Start ==
    /\ run = "setup"
    /\ run' = "wait"
    /\ todo' = Deferred
    /\ fd' = "eventfd"
    /\ readable' = FALSE
    /\ g' = Born
    /\ errCtx' = signalled
    /\ after' = IF signalled THEN "write" ELSE "idle"
    /\ UNCHANGED <<side, signalled, err, conn, device, queued, wrote, broken>>

\* errGroup.Wait returns when every loop has.
Wait ==
    /\ run = "wait"
    /\ \A p \in Loops : g[p] = "done"
    /\ run' = "unwind"
    /\ UNCHANGED <<side, signalled, group, g, todo, files, wrote, broken>>

\* The next deferred call.  A new socket takes the lowest free number; that
\* may be the eventfd's.
Unwind ==
    /\ run = "unwind"
    /\ todo # <<>>
    /\ todo' = Tail(todo)
    /\ CASE Head(todo) = "eventfd" -> fd' = "free" /\ UNCHANGED <<conn, device>>
         [] Head(todo) = "conn"    -> conn' = "closed" /\ UNCHANGED <<fd, device>>
         [] Head(todo) = "netlink" -> fd' \in {fd, "netlink"} /\ UNCHANGED <<conn, device>>
         [] Head(todo) = "device"  -> device' = "closed" /\ fd' = "free" /\ UNCHANGED conn
    /\ UNCHANGED <<side, signalled, group, g, run, readable, queued, wrote, broken>>

ReturnFromRun ==
    /\ run = "unwind"
    /\ todo = <<>>
    /\ run' = "returned"
    /\ UNCHANGED <<side, signalled, group, g, todo, files, wrote, broken>>

-----------------------------------------------------------------------------
\* The kernel gives the TUN device a packet.
InnerPacket ==
    /\ ~queued
    /\ device = "open"
    /\ run # "returned"
    /\ queued' = TRUE
    /\ UNCHANGED <<side, signalled, group, g, run, todo, readable, fd, conn, device, wrote, broken>>

\* Run has returned and nothing of it is left.
Terminated ==
    /\ run = "returned"
    /\ after \in {"idle", "done"}
    /\ UNCHANGED vars

UdpToTun == ReadUdp \/ ReadUdpEnds \/ Deliver \/ SendWelcome
TunToUdp == PollWakes \/ PollReads \/ PollFails \/ SendTun
TimerLoop == Tick \/ SendKeepalive \/ TimerEnds
AfterFunc == AfterWrites \/ AfterCloses
Run == SetupFails \/ Start \/ Wait \/ Unwind \/ ReturnFromRun

Next ==
    \/ Signal \/ InnerPacket
    \/ UdpToTun \/ TunToUdp \/ TimerLoop \/ AfterFunc \/ Run
    \/ Terminated

Spec == Init /\ [][Next]_vars

(***************************************************************************)
(* The scheduler runs a goroutine that can go on; system calls that do not *)
(* block come back.  Packets, ticks, signals and failures need not come.   *)
(***************************************************************************)
Fairness ==
    /\ WF_vars((conn = "closed" /\ ReadUdpEnds) \/ Deliver \/ SendWelcome)
    /\ WF_vars(PollWakes \/ PollReads \/ SendTun)
    /\ WF_vars(SendKeepalive \/ TimerEnds)
    /\ WF_vars(AfterFunc)
    /\ WF_vars(Start \/ Wait \/ Unwind \/ ReturnFromRun)

FairSpec == Spec /\ Fairness

-----------------------------------------------------------------------------
(***************************************************************************)
(* No wake-up is lost.  Once AfterFunc has written, and as long as         *)
(* tunToUdp has not returned, the eventfd is open and readable: neither a  *)
(* busy TUN device nor Run's deferred close takes the wake-up away.        *)
(***************************************************************************)
NoLostWakeup ==
    after \in {"close", "done"} /\ g["tun"] # "done" => readable /\ fd = "eventfd"

(***************************************************************************)
(* The TUN device and the eventfd outlive the loops that use them: they    *)
(* are closed only after all loops have returned, although AfterFunc and   *)
(* Run clean up side by side ("tun.Close: final clean-up", tun.go).        *)
(***************************************************************************)
DeviceOutlivesLoops ==
    (\E p \in Loops : g[p] \notin {"unborn", "done"}) => device = "open" /\ fd = "eventfd"

(***************************************************************************)
(* Run reports what ended the tunnel.  Without a signal it never reports   *)
(* success: the group keeps the error that came first, not one of the      *)
(* cancellations that it causes.  A client that a signal stops reports no  *)
(* error unless a system call failed by itself: what fails on the socket   *)
(* that AfterFunc closed is told apart, whichever loop meets it.           *)
(***************************************************************************)
CauseReported ==
    run = "returned" =>
        /\ ~signalled => err = "failed"
        /\ side = "client" /\ ~broken => err = "canceled"

(***************************************************************************)
(* AfterFunc, which nobody waits for, writes to the number of an eventfd   *)
(* that Run has closed, and that may name another file by then, only when  *)
(* the loops failed by themselves; a signal alone cannot bring it about,   *)
(* for then somebody is still waiting for the write.                       *)
(***************************************************************************)
StrayWriteNeedsFailure == wrote \in {"free", "netlink"} => broken

(***************************************************************************)
(* Whatever ends a tunnel, a signal or an error, Run returns: all loops    *)
(* are woken, also under a steady stream of inner packets, and when the    *)
(* signal came before they were started.                                   *)
(***************************************************************************)
EveryEndReturns == (signalled \/ errCtx) ~> run = "returned"
=============================================================================
