--------------------------- MODULE ShutdownProofs ---------------------------
(***************************************************************************)
(* Proofs that a tunnel is taken down in order: no wake-up is lost, the    *)
(* device outlives the loops, Run reports what ended the tunnel, and only  *)
(* a failure lets AfterFunc write to a closed eventfd.                     *)
(***************************************************************************)
EXTENDS Shutdown, TLAPS

TypeInv ==
    /\ side \in {"server", "client"}
    /\ signalled \in BOOLEAN
    /\ errCtx \in BOOLEAN
    /\ err \in {"none", "canceled", "failed"}
    /\ g \in [Loops -> {"unborn", "read", "deliver", "welcome", "poll", "select",
                        "send", "done"}]
    /\ after \in {"idle", "write", "close", "done"}
    /\ run \in {"setup", "wait", "unwind", "returned"}
    /\ readable \in BOOLEAN
    /\ broken \in BOOLEAN

AllAre(pc) == \A p \in Loops : g[p] = pc

(***************************************************************************)
(* How far Run is, and what it has not touched yet.  Run has returned from *)
(* a failed set-up, without any loop, or after all loops have.             *)
(***************************************************************************)
RunInv ==
    /\ run = "setup" => AllAre("unborn") /\ device = "open" /\ conn = "open" /\ ~readable
    /\ run = "wait" =>
        /\ \A p \in Loops : g[p] # "unborn"
        /\ device = "open" /\ fd = "eventfd"
        /\ conn = "closed" => after = "done"
    /\ run = "unwind" => AllAre("done")
    /\ run = "returned" => AllAre("done") \/ (AllAre("unborn") /\ broken /\ err = "failed")
    /\ AllAre("unborn") => after = "idle" /\ (run = "setup" => err = "none")

(***************************************************************************)
(* The group: a loop that has returned has cancelled it and left an error, *)
(* and AfterFunc has been started when it is cancelled and only then.      *)
(***************************************************************************)
GroupInv ==
    /\ errCtx <=> after # "idle"
    /\ (\E p \in Loops : g[p] = "done") => errCtx /\ err # "none"
    /\ run = "wait" /\ err # "none" => errCtx
    /\ errCtx /\ ~signalled => err = "failed"
    /\ err = "failed" => side = "server" \/ broken
    /\ g["udp"] = "welcome" => side = "server"

(***************************************************************************)
(* The eventfd: readable through AfterFunc alone, and until tunToUdp has   *)
(* seen it.  As long as AfterFunc has not written, only a failure can have *)
(* ended tunToUdp.                                                         *)
(***************************************************************************)
WakeInv ==
    /\ readable => after \in {"close", "done"}
    /\ NoLostWakeup
    /\ g["tun"] = "done" /\ after = "write" => broken

Inv == TypeInv /\ RunInv /\ GroupInv /\ WakeInv /\ StrayWriteNeedsFailure

-----------------------------------------------------------------------------
LEMMA InitInv == Init => Inv
  BY DEF Init, Inv, TypeInv, RunInv, GroupInv, WakeInv, StrayWriteNeedsFailure,
         NoLostWakeup, AllAre, Loops

\* What happens outside: a signal, an inner packet.
LEMMA OutsideInv ==
    ASSUME Inv, Signal \/ InnerPacket
    PROVE  Inv'
<1> USE DEF Inv, Loops, group, files
<1>1. CASE Signal
  <2>1. TypeInv'
    BY <1>1 DEF Signal, Cancel, TypeInv
  <2>2. RunInv'
    BY <1>1 DEF Signal, Cancel, TypeInv, RunInv, GroupInv, AllAre
  <2>3. GroupInv'
    BY <1>1 DEF Signal, Cancel, TypeInv, RunInv, GroupInv, AllAre
  <2>4. WakeInv' /\ StrayWriteNeedsFailure'
    BY <1>1 DEF Signal, Cancel, TypeInv, RunInv, GroupInv, WakeInv, NoLostWakeup,
                StrayWriteNeedsFailure, AllAre
  <2>5. QED
    BY <2>1, <2>2, <2>3, <2>4
<1>2. CASE InnerPacket
  BY <1>2 DEF InnerPacket, TypeInv, RunInv, GroupInv, WakeInv, NoLostWakeup,
              StrayWriteNeedsFailure, AllAre
<1>3. QED
  BY <1>1, <1>2

-----------------------------------------------------------------------------
(***************************************************************************)
(* What a loop can do to the others: go on, or return to the group.        *)
(***************************************************************************)
Living == {"read", "deliver", "welcome", "poll", "select", "send"}

\* Loops live only while Run waits for them.
LEMMA LivingWaits ==
    ASSUME Inv, NEW p \in Loops, g[p] \in Living
    PROVE  run = "wait" /\ (conn = "closed" => errCtx /\ after = "done")
  BY DEF Inv, TypeInv, RunInv, GroupInv, AllAre, Loops, Living

\* A call on the socket fails: AfterFunc has closed it, or a real failure.
LEMMA ConnErrorCause ==
    ASSUME Inv, ConnError, NEW p \in Loops, g[p] \in Living
    PROVE  /\ broken' \in BOOLEAN /\ (broken => broken')
           /\ broken' \/ (errCtx /\ after = "done")
           /\ CtxErr \in {"canceled", "failed"}
           /\ CtxErr = "canceled" => errCtx
           /\ CtxErr = "failed" => broken'
  BY LivingWaits DEF ConnError, CallError, CtxErr, Inv, TypeInv

\* A loop goes on.
LEMMA MoveInv ==
    ASSUME Inv, NEW p \in Loops, NEW pc \in Living,
           g[p] \in Living,
           g' = [g EXCEPT ![p] = pc],
           pc = "welcome" => side = "server",
           UNCHANGED <<side, signalled, group, run, todo, readable, fd, conn, device,
                       wrote, broken>>
    PROVE  Inv'
<1> USE DEF Inv, Loops, Living, group
<1>1. TypeInv'
  BY DEF TypeInv
<1>2. RunInv'
  BY LivingWaits DEF TypeInv, RunInv, AllAre
<1>3. GroupInv'
  BY DEF TypeInv, GroupInv
<1>4. WakeInv' /\ StrayWriteNeedsFailure'
  BY DEF TypeInv, WakeInv, NoLostWakeup, StrayWriteNeedsFailure
<1>5. QED
  BY <1>1, <1>2, <1>3, <1>4

(***************************************************************************)
(* A loop returns.  It may say that it was cancelled only when it was; a   *)
(* failure of the client's loops, and the end of tunToUdp before the       *)
(* eventfd was written, are real failures.                                 *)
(***************************************************************************)
LEMMA ReturnInv ==
    ASSUME Inv, NEW p \in Loops, NEW why \in {"canceled", "failed"},
           g[p] \in Living,
           Return(p, why),
           why = "canceled" => errCtx,
           why = "failed" => side = "server" \/ broken',
           p = "tun" => after \in {"close", "done"} \/ broken',
           broken => broken',
           broken' \in BOOLEAN,
           readable' \in BOOLEAN,
           readable' = readable \/ (p = "tun" /\ ~readable'),
           UNCHANGED <<side, signalled, run, todo, fd, conn, device, wrote>>
    PROVE  Inv'
<1> USE DEF Inv, Loops, Living, Return, Cancel, FirstError
<1>1. TypeInv'
  BY DEF TypeInv
<1>2. RunInv'
  BY LivingWaits DEF TypeInv, RunInv, AllAre
<1>3. GroupInv'
  <2>1. err' # "none" /\ errCtx' /\ after' # "idle"
    BY DEF TypeInv, GroupInv
  <2>2. ~signalled => err' = "failed"
    BY LivingWaits DEF TypeInv, GroupInv
  <2>3. err' = "failed" => side = "server" \/ broken'
    BY DEF TypeInv, GroupInv
  <2>4. g'["udp"] = "welcome" => side = "server"
    BY DEF TypeInv, GroupInv
  <2>5. QED
    BY <2>1, <2>2, <2>3, <2>4 DEF GroupInv
<1>4. WakeInv' /\ StrayWriteNeedsFailure'
  <2>1. g["tun"] = "done" => errCtx
    BY DEF GroupInv
  <2>2. p # "tun" => g'["tun"] = g["tun"] /\ readable' = readable
    BY DEF TypeInv
  <2>3. after' = after \/ (after = "idle" /\ after' = "write")
    BY DEF TypeInv, GroupInv
  <2>4. QED
    BY <2>1, <2>2, <2>3 DEF TypeInv, GroupInv, WakeInv, NoLostWakeup, StrayWriteNeedsFailure
<1>5. QED
  BY <1>1, <1>2, <1>3, <1>4

\* udpToTun.
LEMMA UdpToTunInv ==
    ASSUME Inv, UdpToTun
    PROVE  Inv'
<1> USE DEF Loops, Living, files
<1>1. CASE ReadUdp
  <2>1. PICK pc \in {"deliver", "welcome"} :
            g' = [g EXCEPT !["udp"] = pc] /\ (pc = "welcome" => side = "server")
    BY <1>1 DEF ReadUdp
  <2>2. QED
    BY <1>1, <2>1, MoveInv DEF ReadUdp
<1>2. CASE ReadUdpEnds
  BY <1>2, ConnErrorCause, ReturnInv DEF ReadUdpEnds, Inv, TypeInv
<1>3. CASE Deliver
  <2>1. CASE g' = [g EXCEPT !["udp"] = "read"] /\ UNCHANGED <<group, broken>>
    BY <1>3, <2>1, MoveInv DEF Deliver
  <2>2. CASE CallError /\ Return("udp", CtxErr)
    BY <1>3, <2>2, ReturnInv DEF Deliver, CallError, CtxErr, Inv, TypeInv
  <2>3. QED
    BY <1>3, <2>1, <2>2 DEF Deliver
<1>4. CASE SendWelcome
  <2>1. side = "server"
    BY <1>4 DEF SendWelcome, Inv, GroupInv
  <2>2. CASE g' = [g EXCEPT !["udp"] = "read"] /\ UNCHANGED <<group, broken>>
    BY <1>4, <2>2, MoveInv DEF SendWelcome
  <2>3. CASE ConnError /\ Return("udp", "failed")
    BY <1>4, <2>1, <2>3, ConnErrorCause, ReturnInv DEF SendWelcome, Inv, TypeInv
  <2>4. QED
    BY <1>4, <2>2, <2>3 DEF SendWelcome
<1>5. QED
  BY <1>1, <1>2, <1>3, <1>4 DEF UdpToTun

\* tunToUdp.
LEMMA TunToUdpInv ==
    ASSUME Inv, TunToUdp
    PROVE  Inv'
<1> USE DEF Loops, Living, files
<1>1. CASE PollWakes
  <2>1. after \in {"close", "done"} /\ errCtx
    BY <1>1 DEF PollWakes, Wakes, Inv, WakeInv, GroupInv
  <2>2. QED
    BY <1>1, <2>1, ReturnInv DEF PollWakes, Inv, TypeInv
<1>2. CASE PollReads
  <2>1. CASE g' = [g EXCEPT !["tun"] = "send"]
    BY <1>2, <2>1, MoveInv DEF PollReads
  <2>2. CASE UNCHANGED g
    <3>1. g' = [g EXCEPT !["tun"] = "poll"]
      BY <1>2, <2>2 DEF PollReads, Inv, TypeInv
    <3>2. QED
      BY <1>2, <3>1, MoveInv DEF PollReads
  <2>3. QED
    BY <1>2, <2>1, <2>2 DEF PollReads
<1>3. CASE PollFails
  <2>1. fd = "eventfd" /\ device = "open"
    BY <1>3, LivingWaits DEF PollFails, Inv, RunInv
  <2>2. broken' = TRUE
    BY <1>3, <2>1 DEF PollFails, Inv, TypeInv
  <2>3. QED
    BY <1>3, <2>2, ReturnInv DEF PollFails, Inv, TypeInv
<1>4. CASE SendTun
  <2>1. CASE g' = [g EXCEPT !["tun"] = "poll"] /\ UNCHANGED <<group, broken>>
    BY <1>4, <2>1, MoveInv DEF SendTun
  <2>2. CASE ConnError /\ Return("tun", CtxErr)
    BY <1>4, <2>2, ConnErrorCause, ReturnInv DEF SendTun, Inv, TypeInv
  <2>3. QED
    BY <1>4, <2>1, <2>2 DEF SendTun
<1>5. QED
  BY <1>1, <1>2, <1>3, <1>4 DEF TunToUdp

\* expirePeersLoop and keepAliveLoop.
LEMMA TimerLoopInv ==
    ASSUME Inv, TimerLoop
    PROVE  Inv'
<1> USE DEF Loops, Living, files
<1>1. CASE Tick
  BY <1>1, MoveInv DEF Tick
<1>2. CASE SendKeepalive
  <2>1. CASE g' = [g EXCEPT !["timer"] = "select"] /\ UNCHANGED <<group, broken>>
    BY <1>2, <2>1, MoveInv DEF SendKeepalive
  <2>2. CASE ConnError /\ Return("timer", CtxErr)
    BY <1>2, <2>2, ConnErrorCause, ReturnInv DEF SendKeepalive, Inv, TypeInv
  <2>3. QED
    BY <1>2, <2>1, <2>2 DEF SendKeepalive
<1>3. CASE TimerEnds
  BY <1>3, ReturnInv DEF TimerEnds, Inv, TypeInv
<1>4. QED
  BY <1>1, <1>2, <1>3 DEF TimerLoop

-----------------------------------------------------------------------------
(***************************************************************************)
(* AfterFunc and Run                                                       *)
(***************************************************************************)
\* A write to a number that is no eventfd any more comes after all loops
\* have returned, tunToUdp before its wake-up.
LEMMA AfterFuncInv ==
    ASSUME Inv, AfterFunc
    PROVE  Inv'
<1> USE DEF Inv, Loops
<1>1. CASE AfterWrites
  <2>1. run # "setup" /\ ~AllAre("unborn")
    BY <1>1 DEF AfterWrites, RunInv
  <2>2. g["tun"] # "done" => fd = "eventfd"
    BY <2>1 DEF TypeInv, RunInv, AllAre
  <2>3. fd # "eventfd" => broken
    BY <1>1, <2>2 DEF AfterWrites, WakeInv
  <2>4. TypeInv' /\ RunInv' /\ GroupInv'
    BY <1>1, <2>1 DEF AfterWrites, TypeInv, RunInv, GroupInv, AllAre
  <2>5. WakeInv' /\ StrayWriteNeedsFailure'
    BY <1>1, <2>2, <2>3 DEF AfterWrites, TypeInv, WakeInv, NoLostWakeup, StrayWriteNeedsFailure
  <2>6. QED
    BY <2>4, <2>5
<1>2. CASE AfterCloses
  <2>1. run # "setup"
    BY <1>2 DEF AfterCloses, RunInv
  <2>2. TypeInv' /\ RunInv' /\ GroupInv'
    BY <1>2, <2>1 DEF AfterCloses, TypeInv, RunInv, GroupInv, AllAre
  <2>3. WakeInv' /\ StrayWriteNeedsFailure'
    BY <1>2 DEF AfterCloses, TypeInv, WakeInv, NoLostWakeup, StrayWriteNeedsFailure
  <2>4. QED
    BY <2>2, <2>3
<1>3. QED
  BY <1>1, <1>2 DEF AfterFunc

\* Run.  Nothing that the loops use is touched before all have returned.
LEMMA RunStepInv ==
    ASSUME Inv, Run
    PROVE  Inv'
<1> USE DEF Inv, Loops, group, files
<1>1. CASE SetupFails
  <2>1. TypeInv' /\ RunInv' /\ GroupInv'
    BY <1>1 DEF SetupFails, TypeInv, RunInv, GroupInv, AllAre
  <2>2. WakeInv' /\ StrayWriteNeedsFailure'
    BY <1>1 DEF SetupFails, TypeInv, RunInv, WakeInv, NoLostWakeup, StrayWriteNeedsFailure
  <2>3. QED
    BY <2>1, <2>2
<1>2. CASE Start
  <2>1. g' = Born
    BY <1>2 DEF Start
  <2>2. /\ g' \in [Loops -> {"read", "poll", "select"}]
        /\ g'["udp"] = "read" /\ g'["tun"] = "poll" /\ g'["timer"] = "select"
    BY <2>1 DEF Born
  <2>3. err = "none"
    BY <1>2 DEF Start, RunInv
  <2>4. TypeInv'
    BY <1>2, <2>2 DEF Start, TypeInv
  <2>5. RunInv'
    BY <1>2, <2>2 DEF Start, RunInv, AllAre
  <2>6. GroupInv'
    BY <1>2, <2>2, <2>3 DEF Start, GroupInv
  <2>7. WakeInv' /\ StrayWriteNeedsFailure'
    BY <1>2, <2>2 DEF Start, TypeInv, WakeInv, NoLostWakeup, StrayWriteNeedsFailure
  <2>8. QED
    BY <2>4, <2>5, <2>6, <2>7
<1>3. CASE Wait
  BY <1>3 DEF Wait, TypeInv, RunInv, GroupInv, WakeInv, NoLostWakeup,
              StrayWriteNeedsFailure, AllAre
<1>4. CASE Unwind
  <2>1. /\ AllAre("done")
        /\ UNCHANGED <<side, signalled, errCtx, err, after, g, run, readable, wrote, broken>>
    BY <1>4 DEF Unwind, RunInv
  <2>2. run = "unwind"
    BY <1>4 DEF Unwind
  <2>3. QED
    BY <2>1, <2>2 DEF TypeInv, RunInv, GroupInv, WakeInv, NoLostWakeup,
                      StrayWriteNeedsFailure, AllAre
<1>5. CASE ReturnFromRun
  BY <1>5 DEF ReturnFromRun, TypeInv, RunInv, GroupInv, WakeInv, NoLostWakeup,
              StrayWriteNeedsFailure, AllAre
<1>6. QED
  BY <1>1, <1>2, <1>3, <1>4, <1>5 DEF Run

-----------------------------------------------------------------------------
LEMMA StepInv == Inv /\ [Next]_vars => Inv'
<1> SUFFICES ASSUME Inv, [Next]_vars PROVE Inv'
  OBVIOUS
<1>1. CASE UNCHANGED vars
  BY <1>1 DEF vars, Inv, TypeInv, RunInv, GroupInv, WakeInv, NoLostWakeup,
              StrayWriteNeedsFailure, AllAre
<1>2. CASE Next
  BY <1>1, <1>2, OutsideInv, UdpToTunInv, TunToUdpInv, TimerLoopInv, AfterFuncInv,
     RunStepInv DEF Next, Terminated
<1>3. QED
  BY <1>1, <1>2

\* The invariant holds in every state.
LEMMA SpecInv == Spec => []Inv
  BY InitInv, StepInv, PTL DEF Spec

(***************************************************************************)
(* Once AfterFunc has written to the eventfd, tunToUdp finds it readable   *)
(* and open, however the goroutines and Run's deferred calls interleave.   *)
(***************************************************************************)
THEOREM WakeupsAreKept == Spec => []NoLostWakeup
<1>1. Inv => NoLostWakeup
  BY DEF Inv, WakeInv
<1>2. QED
  BY <1>1, SpecInv, PTL

(***************************************************************************)
(* Neither the TUN device nor the eventfd is closed under a running loop.  *)
(***************************************************************************)
THEOREM DeviceIsClosedLast == Spec => []DeviceOutlivesLoops
<1>1. Inv => DeviceOutlivesLoops
  BY DEF Inv, TypeInv, RunInv, DeviceOutlivesLoops, AllAre, Loops
<1>2. QED
  BY <1>1, SpecInv, PTL

(***************************************************************************)
(* Run returns the error that ended the tunnel, and a client that a signal *)
(* ends returns none.                                                      *)
(***************************************************************************)
THEOREM CauseIsReported == Spec => []CauseReported
<1>1. Inv => CauseReported
  <2> SUFFICES ASSUME Inv, run = "returned"
               PROVE  /\ ~signalled => err = "failed"
                      /\ side = "client" /\ ~broken => err = "canceled"
    BY DEF CauseReported
  <2>1. CASE AllAre("done")
    <3>1. errCtx /\ err # "none"
      BY <2>1 DEF Inv, GroupInv, AllAre, Loops
    <3>2. QED
      BY <3>1 DEF Inv, TypeInv, GroupInv
  <2>2. CASE broken /\ err = "failed"
    BY <2>2
  <2>3. QED
    BY <2>1, <2>2 DEF Inv, RunInv
<1>2. QED
  BY <1>1, SpecInv, PTL

(***************************************************************************)
(* A write of AfterFunc to a closed eventfd has a failed system call       *)
(* behind it; a signal alone does not lead there.                          *)
(***************************************************************************)
THEOREM StrayWritesNeedFailure == Spec => []StrayWriteNeedsFailure
<1>1. Inv => StrayWriteNeedsFailure
  BY DEF Inv
<1>2. QED
  BY <1>1, SpecInv, PTL
=============================================================================
