-------------------------- MODULE GarbageCollector --------------------------
(***************************************************************************)
(* GarbageCollectorDaemon::gc and the GarbageCollector facade              *)
(* (garbage_collector.rs).  The daemon is armed until the event watcher    *)
(* sends a GcStatus; on Running it builds a KeepAliveTicket, patches the   *)
(* pod's execution_date label and counts down, answering refresh requests  *)
(* with fresh tickets, until the deadline fires (delete the pod), or the   *)
(* watcher sends Terminated.  Tickets are numbered: gcTicket is the ticket *)
(* whose deadline the countdown sleeps on.                                 *)
(***************************************************************************)
EXTENDS Naturals, Sequences, Kubernetes

VARIABLES
    gc,           \* "armed", "patch", "counting", "repatch", "done"
    gcTicket,     \* number of the current keep_alive ticket (0: none yet)
    gcExit,       \* why the daemon returned: "none", "terminated", "timeout",
                  \* "panic", "senderDropped"
    gcChan,       \* the GcStatus mpsc channel (capacity 100) from the watcher
    refreshReq,   \* the refresh mpsc slot: "idle", "queued", "replied"
    replyTicket,  \* the ticket sent back on the request's oneshot
    ew            \* the event watcher, owner of the GcStatus sender

gcVars == <<gc, gcTicket, gcExit, gcChan, refreshReq, replyTicket>>

GcStatusValues == {"Running", "Terminated"}

GcInit ==
    /\ gc = "armed"
    /\ gcTicket = 0
    /\ gcExit = "none"
    /\ gcChan = << >>
    /\ refreshReq = "idle"
    /\ replyTicket = 0

(* KeepAliveTicket::new: a fresh ticket, deadline now + ttl.               *)
NewTicket == gcTicket + 1

---------------------------------------------------------------------------
(* Mutant: the armed receive only reacts to Running.                       *)
GcArmedIgnoresTerminated ==
    /\ gc = "armed"
    /\ gcChan # << >>
    /\ gcChan' = Tail(gcChan)
    /\ \/ /\ Head(gcChan) = "Terminated"
          /\ UNCHANGED <<gc, gcExit, gcTicket>>
       \/ /\ Head(gcChan) = "Running"
          /\ gc' = "patch"
          /\ gcTicket' = NewTicket
          /\ UNCHANGED gcExit
    /\ UNCHANGED <<refreshReq, replyTicket>>
    /\ UNCHANGED k8sVars

(* Phase 1: self.status.recv() while armed.  Terminated ends the daemon,   *)
(* Running starts the countdown.                                           *)
GcArmed ==
    /\ gc = "armed"
    /\ gcChan # << >>
    /\ gcChan' = Tail(gcChan)
    /\ \/ /\ Head(gcChan) = "Terminated"
          /\ gc' = "done"
          /\ gcExit' = "terminated"
          /\ UNCHANGED gcTicket
       \/ /\ Head(gcChan) = "Running"
          /\ gc' = "patch"
          /\ gcTicket' = NewTicket
          /\ UNCHANGED gcExit
    /\ UNCHANGED <<refreshReq, replyTicket>>
    /\ UNCHANGED k8sVars

(* Phase 1, recv() yields None: the watcher's task ended without sending   *)
(* anything (only its panic does that).  The daemon logs and returns; it   *)
(* does not delete the pod.                                                *)
GcArmedSenderDropped ==
    /\ gc = "armed"
    /\ gcChan = << >>
    /\ ew = "panicked"
    /\ gc' = "done"
    /\ gcExit' = "senderDropped"
    /\ UNCHANGED <<gcTicket, gcChan, refreshReq, replyTicket>>
    /\ UNCHANGED k8sVars

(* client.patch(execution_date).await.unwrap(), after the first ticket and *)
(* after every refresh: an Err panics the daemon's task.                   *)
GcPatch ==
    /\ gc \in {"patch", "repatch"}
    /\ \/ /\ PatchMaySucceed
          /\ gc' = "counting"
          /\ UNCHANGED gcExit
       \/ /\ PatchMayFail
          /\ gc' = "done"
          /\ gcExit' = "panic"
    /\ UNCHANGED <<gcTicket, gcChan, refreshReq, replyTicket>>
    /\ UNCHANGED k8sVars

(* Mutant: `let keep_alive = KeepAliveTicket::new()` inside the branch    *)
(* shadows the countdown's ticket instead of replacing it.                 *)
GcRefreshShadowed ==
    /\ gc = "counting"
    /\ refreshReq = "queued"
    /\ refreshReq' = "replied"
    /\ replyTicket' = NewTicket
    /\ gc' = "repatch"
    /\ UNCHANGED <<gcTicket, gcExit, gcChan>>
    /\ UNCHANGED k8sVars

(* select! branch refresh_request: a new ticket replaces keep_alive, is    *)
(* sent back on the oneshot, and the label is re-patched.                  *)
GcRefresh ==
    /\ gc = "counting"
    /\ refreshReq = "queued"
    /\ gcTicket' = NewTicket
    /\ refreshReq' = "replied"
    /\ replyTicket' = NewTicket
    /\ gc' = "repatch"
    /\ UNCHANGED <<gcExit, gcChan>>
    /\ UNCHANGED k8sVars

(* Mutant: the timeout branch returns without deleting the pod.           *)
GcTimeoutNoDelete ==
    /\ gc = "counting"
    /\ gc' = "done"
    /\ gcExit' = "timeout"
    /\ UNCHANGED <<gcTicket, gcChan, refreshReq, replyTicket>>
    /\ UNCHANGED k8sVars

(* select! branch timeout: keep_alive's deadline is reached; the pod is    *)
(* deleted with delete(..).await.unwrap(), which panics on an Err.         *)
GcTimeout ==
    /\ gc = "counting" /\ gc' = "done"
    /\ \/ DeleteOk /\ gcExit' = "timeout"
       \/ DeleteFails /\ gcExit' = "panic" /\ UNCHANGED k8sVars
    /\ UNCHANGED <<gcTicket, gcChan, refreshReq, replyTicket>>

(* select! branch status_change: Terminated from the watcher ends the      *)
(* daemon without deleting the pod.                                        *)
GcStatusChange ==
    /\ gc = "counting" /\ gcChan # << >>
    /\ Head(gcChan) = "Terminated"
    /\ gcChan' = Tail(gcChan)
    /\ gc' = "done" /\ gcExit' = "terminated"
    /\ UNCHANGED <<gcTicket, refreshReq, replyTicket>> /\ UNCHANGED k8sVars

GcNext ==
    \/ GcArmed
    \/ GcArmedSenderDropped
    \/ GcPatch
    \/ GcRefresh
    \/ GcTimeout
    \/ GcStatusChange

---------------------------------------------------------------------------
(* The facade GarbageCollector::refresh: send a oneshot on the refresh     *)
(* channel, then await the ticket.  Either await reports                   *)
(* RefreshChannelClosed once the daemon is gone.                           *)

RefreshSend ==
    /\ refreshReq = "idle"
    /\ gc # "done"
    /\ refreshReq' = "queued"

RefreshSendClosed ==
    /\ refreshReq = "idle"
    /\ gc = "done"
    /\ UNCHANGED refreshReq

RefreshReply ==
    /\ refreshReq = "replied"
    /\ refreshReq' = "idle"

(* Mutant: only the deadline path drops the refresh receiver; after a      *)
(* Terminated return the buffered oneshot is kept alive and never answered. *)
RefreshDroppedOnTimeout ==
    /\ refreshReq = "queued"
    /\ gc = "done" /\ gcExit = "timeout"
    /\ refreshReq' = "idle"

(* The daemon returned with the request still buffered: the oneshot sender *)
(* is dropped with the channel.                                            *)
RefreshDropped ==
    /\ refreshReq = "queued"
    /\ gc = "done"
    /\ refreshReq' = "idle"

=============================================================================
