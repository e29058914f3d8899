--------------------------- MODULE ExternalHandle ---------------------------
(***************************************************************************)
(* PodManagerUpperHandle / PodManagerLowerHandle (external_handle.rs): the *)
(* rendezvous between the watcher's verdict and the HTTP wait().  The shim *)
(* task receives the verdict, then select!s between a 60 s patience sleep  *)
(* and a tokio Barrier(2) shared with wait(), and forwards the verdict on  *)
(* a second channel.  wait() memoises its outcome in `phantom`.            *)
(*                                                                         *)
(* tokio's Barrier::wait counts a party as arrived on its first poll and   *)
(* does not withdraw it when the future is dropped: a shim that gave up   *)
(* stays in `arrived`, so a late wait() passes the barrier alone.          *)
(***************************************************************************)
EXTENDS Sequences

VARIABLES
    shim,       \* "recv", "barrier", "send", "done"
    shimVal,    \* the verdict the shim received
    patience,   \* the shim's 60 s patience sleep has elapsed
    arrived,    \* parties counted at the barrier: subset of {"shim", "upper"}
    released,   \* the barrier's generation has completed
    outbound,   \* the outbound mpsc channel (capacity 1) from shim to wait()
    upper,      \* wait(): "idle", "barrier", "recv", "returned"
    waitOut,    \* the value the last wait() returned
    phantom,    \* the memoised outcome: "none", "Ok", "Err"
    waitLog,    \* history: every value wait() returned
    verdict,    \* the inbound verdict channel (capacity 1) from the watcher
    ew          \* the event watcher, owner of the verdict sender

ehVars == <<shim, shimVal, patience, arrived, released, outbound, upper,
            waitOut, phantom, waitLog>>

EhInit ==
    /\ shim = "recv"
    /\ shimVal = "none"
    /\ patience = FALSE
    /\ arrived = {}
    /\ released = FALSE
    /\ outbound = << >>
    /\ upper = "idle"
    /\ waitOut = "none"
    /\ phantom = "none"
    /\ waitLog = << >>

(* Barrier::wait by party p: the second arrival completes the generation.  *)
Arrive(p) ==
    IF arrived # {}
       THEN /\ arrived' = {}
            /\ released' = TRUE
       ELSE /\ arrived' = {p}
            /\ UNCHANGED released

---------------------------------------------------------------------------
(* The shim (PodManagerUpperHandle::new, lines 23-59).                   *)

(* rx1.recv() yields the verdict; the select! then polls the barrier.      *)
ShimRecv ==
    /\ shim = "recv"
    /\ verdict # << >>
    /\ shimVal' = Head(verdict)
    /\ verdict' = Tail(verdict)
    /\ Arrive("shim")
    /\ shim' = IF arrived # {} THEN "send" ELSE "barrier"
    /\ UNCHANGED <<patience, outbound, upper, waitOut, phantom, waitLog>>

(* Mutant: the shim returns on None (`let Some(result) = .. else return`)  *)
(* without ever arriving at the barrier.                                   *)
ShimRecvClosedReturns ==
    /\ shim = "recv"
    /\ verdict = << >>
    /\ ew = "panicked"
    /\ shim' = "done"
    /\ UNCHANGED <<shimVal, patience, arrived, released, outbound, upper,
                   waitOut, phantom, waitLog, verdict>>

(* rx1.recv() yields None: the watcher's task ended (panicked) without     *)
(* sending; the shim carries InboundResultChannelDropped to the barrier.   *)
ShimRecvClosed ==
    /\ shim = "recv"
    /\ verdict = << >>
    /\ ew = "panicked"
    /\ shimVal' = "InboundResultChannelDropped"
    /\ Arrive("shim")
    /\ shim' = IF arrived # {} THEN "send" ELSE "barrier"
    /\ UNCHANGED <<patience, outbound, upper, waitOut, phantom, waitLog, verdict>>

ShimPatienceElapses ==
    /\ shim = "barrier"
    /\ ~patience
    /\ patience' = TRUE
    /\ UNCHANGED <<shim, shimVal, arrived, released, outbound, upper, waitOut,
                   phantom, waitLog, verdict>>

(* select! branch barrier.                                                 *)
ShimWake ==
    /\ shim = "barrier"
    /\ released
    /\ shim' = "send"
    /\ UNCHANGED <<shimVal, patience, arrived, released, outbound, upper,
                   waitOut, phantom, waitLog, verdict>>

(* select! branch patience: return, dropping the verdict and tx2; the      *)
(* barrier future is dropped with the shim still counted.                  *)
ShimGiveUp ==
    /\ shim = "barrier"
    /\ patience
    /\ shim' = "done"
    /\ UNCHANGED <<shimVal, patience, arrived, released, outbound, upper,
                   waitOut, phantom, waitLog, verdict>>

(* tx2.send(result): wait() holds the receiver, so it succeeds.            *)
ShimSend ==
    /\ shim = "send" /\ shim' = "done"
    /\ outbound' = Append(outbound, shimVal)
    /\ UNCHANGED <<shimVal, patience, arrived, released, upper, waitOut,
                   phantom, waitLog, verdict>>

ShimNext ==
    \/ ShimRecv
    \/ ShimRecvClosed
    \/ ShimPatienceElapses
    \/ ShimWake
    \/ ShimGiveUp
    \/ ShimSend

---------------------------------------------------------------------------
(* PodManagerUpperHandle::wait (lines 61-81).                              *)

(* Mutant: a memoised error is returned again instead of PhantomError.     *)
WaitBeginRepeatsError ==
    /\ upper = "idle"
    /\ \/ /\ phantom = "Ok"
          /\ upper' = "returned"
          /\ waitOut' = "Ok"
          /\ waitLog' = Append(waitLog, "Ok")
          /\ UNCHANGED <<arrived, released>>
       \/ /\ phantom = "Err"
          /\ upper' = "returned"
          /\ waitLog' = Append(waitLog, waitOut)
          /\ UNCHANGED <<arrived, released, waitOut>>
       \/ /\ phantom = "none"
          /\ Arrive("upper")
          /\ upper' = IF arrived # {} THEN "recv" ELSE "barrier"
          /\ UNCHANGED <<waitOut, waitLog>>
    /\ UNCHANGED <<shim, shimVal, patience, outbound, phantom, verdict>>

(* A memoised outcome returns at once; otherwise arrive at the barrier.    *)
WaitBegin ==
    /\ upper = "idle"
    /\ \/ /\ phantom = "Ok"
          /\ upper' = "returned"
          /\ waitOut' = "Ok"
          /\ waitLog' = Append(waitLog, "Ok")
          /\ UNCHANGED <<arrived, released>>
       \/ /\ phantom = "Err"
          /\ upper' = "returned"
          /\ waitOut' = "PhantomError"
          /\ waitLog' = Append(waitLog, "PhantomError")
          /\ UNCHANGED <<arrived, released>>
       \/ /\ phantom = "none"
          /\ Arrive("upper")
          /\ upper' = IF arrived # {} THEN "recv" ELSE "barrier"
          /\ UNCHANGED <<waitOut, waitLog>>
    /\ UNCHANGED <<shim, shimVal, patience, outbound, phantom, verdict>>

WaitWake ==
    /\ upper = "barrier"
    /\ released
    /\ upper' = "recv"
    /\ UNCHANGED <<shim, shimVal, patience, arrived, released, outbound,
                   waitOut, phantom, waitLog, verdict>>

(* Mutant: recv() waits for a value and ignores the sender's drop.         *)
WaitRecvNoClose ==
    /\ upper = "recv"
    /\ outbound # << >>
    /\ waitOut' = Head(outbound)
    /\ outbound' = Tail(outbound)
    /\ phantom' = IF waitOut' = "Ok" THEN "Ok" ELSE "Err"
    /\ waitLog' = Append(waitLog, waitOut')
    /\ upper' = "returned"
    /\ UNCHANGED <<shim, shimVal, patience, arrived, released, verdict>>

(* self.result.recv(): the forwarded verdict, or InboundResultChannelDropped*)
(* once the shim has returned without sending.  The outcome is memoised.   *)
WaitRecv ==
    /\ upper = "recv"
    /\ \/ /\ outbound # << >>
          /\ waitOut' = Head(outbound)
          /\ outbound' = Tail(outbound)
       \/ /\ outbound = << >>
          /\ shim = "done"
          /\ waitOut' = "InboundResultChannelDropped"
          /\ UNCHANGED outbound
    /\ phantom' = IF waitOut' = "Ok" THEN "Ok" ELSE "Err"
    /\ waitLog' = Append(waitLog, waitOut')
    /\ upper' = "returned"
    /\ UNCHANGED <<shim, shimVal, patience, arrived, released, verdict>>

=============================================================================
