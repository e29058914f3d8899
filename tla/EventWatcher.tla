---------------------------- MODULE EventWatcher ----------------------------
(***************************************************************************)
(* EventWatcherDaemon::watch (event_watcher.rs): the three-phase state     *)
(* machine over the pod's watch stream.  Phase 1 awaits Running; phase 2   *)
(* races the stream against the health checker's oneshot; phase 3 lives    *)
(* beside the healthy pod.  Every terminal path runs terminate(err):       *)
(* send_result(Err), kill_gc, kill_pod, each an await at which the other   *)
(* tasks interleave, so the exit is a queue of steps (ewTodo).             *)
(***************************************************************************)
EXTENDS Naturals, Sequences, Kubernetes

CONSTANTS
    BackoffLimit,    \* consecutive stream errors the ExponentialBackoff absorbs
    MaxHcAttempts

ASSUME BackoffLimit \in Nat

VARIABLES
    ew,          \* "p1", "p2", "p2kill", "p3", "exit", "done", "panicked"
    ewTodo,      \* remaining exit steps: a subsequence of <<"send", "gc", "pod">>
    ewErr,       \* the error terminate() will deliver
    backoff,     \* consecutive stream errors since the last reset
    verdictLog,  \* history: every result placed in the inbound verdict channel
    gcLog,       \* history: every GcStatus sent to the garbage collector
    verdict,     \* the inbound verdict mpsc channel (capacity 1) to the shim
    shim,        \* the handle shim's control state (owner of the receiver)
    gcChan, gc,
    hc, hcLastErr, hcOver, hcAttempts, hcOut, hcSigint

ewVars == <<ew, ewTodo, ewErr, backoff, verdictLog, gcLog>>

WatcherErrors ==
    {"PodDeleted", "PodCrashed", "PodRebooted", "ErrImagePull",
     "KubernetesUnresponsive", "UnexpectedCloseOfEventStream",
     "TooManyFailures", "NotReady"}

EwInit ==
    /\ ew = "p1"
    /\ ewTodo = << >>
    /\ ewErr = "none"
    /\ backoff = 0
    /\ verdictLog = << >>
    /\ gcLog = << >>

(* Mutant: terminate() without the kill_pod await.                        *)
TerminateWithoutKillPod(err) ==
    /\ ew' = "exit"
    /\ ewTodo' = <<"send", "gc">>
    /\ ewErr' = err

(* terminate(err): the three awaits, queued.                               *)
Terminate(err) ==
    /\ ew' = "exit"
    /\ ewTodo' = <<"send", "gc", "pod">>
    /\ ewErr' = err

(* check.kill(): send sigint, then await the checker's JoinHandle before    *)
(* terminate(err).                                                         *)
KillCheck(err) ==
    /\ hcSigint' = TRUE
    /\ ew' = "p2kill"
    /\ ewErr' = err
    /\ UNCHANGED ewTodo

(* err_image_pull() unwraps waiting.message, which was_err_image_pull     *)
(* never checked: on None the watcher's task panics.  Nothing is sent; the *)
(* task's senders (GcStatus, verdict) are dropped with it.                 *)
WatcherPanics ==
    /\ ew' = "panicked"
    /\ UNCHANGED <<ewTodo, ewErr>>

---------------------------------------------------------------------------
(* Phase 1 (lines 71-207): one iteration of the loop on an event.         *)
P1Event ==
    /\ ew = "p1"
    /\ ReadEvent
    /\ backoff' = 0
    /\ LET e == Head(stream) IN
       \/ /\ e.kind \in {"Added", "Restarted"}
          /\ UNCHANGED <<ew, ewTodo, ewErr, gcLog, gcChan, hc>>
       \/ /\ e.kind = "Applied"
          /\ e.phase = "Pending"
          /\ UNCHANGED <<ew, ewTodo, ewErr, gcLog, gcChan, hc>>
       \/ /\ e.kind = "Applied"
          /\ e.phase = "Running"
          /\ gcChan' = Append(gcChan, "Running")
          /\ gcLog' = Append(gcLog, "Running")
          /\ hc' = "top"   \* ServerCheck::new spawns the checker
          /\ ew' = "p2"
          /\ UNCHANGED <<ewTodo, ewErr>>
       \/ /\ e.kind = "Applied"
          /\ e.phase = "Crashed"
          /\ Terminate("PodCrashed")
          /\ UNCHANGED <<gcLog, gcChan, hc>>
       \/ /\ e.kind = "Applied"
          /\ e.phase = "ErrImagePull"
          /\ Terminate("ErrImagePull")
          /\ UNCHANGED <<gcLog, gcChan, hc>>
       \/ /\ e.kind = "Applied"
          /\ e.phase = "ErrImagePullBare"
          /\ WatcherPanics
          /\ UNCHANGED <<gcLog, gcChan, hc>>
       \/ /\ e.kind = "Deleted"
          /\ Terminate("PodDeleted")
          /\ UNCHANGED <<gcLog, gcChan, hc>>
       \/ /\ e.kind = "EOF"
          /\ Terminate("UnexpectedCloseOfEventStream")
          /\ UNCHANGED <<gcLog, gcChan, hc>>
    /\ UNCHANGED <<hcSigint, verdict, verdictLog>>

(* Mutant: the backoff is exhausted one error late.                        *)
StreamErrorOffByOne ==
    /\ ew \in {"p1", "p2", "p3"}
    /\ ReadError
    /\ \/ /\ backoff <= BackoffLimit
          /\ backoff' = backoff + 1
          /\ UNCHANGED <<ew, ewTodo, ewErr, hcSigint>>
       \/ /\ backoff > BackoffLimit
          /\ UNCHANGED backoff
          /\ IF ew = "p2"
                THEN KillCheck("KubernetesUnresponsive")
                ELSE Terminate("KubernetesUnresponsive") /\ UNCHANGED hcSigint
    /\ UNCHANGED <<verdictLog, gcLog, verdict, gcChan, hc>>

(* A stream error in any phase: sleep next_backoff() and retry, or give up *)
(* with KubernetesUnresponsive once the backoff is exhausted (in phase 2   *)
(* after killing the checker).                                             *)
StreamError ==
    /\ ew \in {"p1", "p2", "p3"}
    /\ ReadError
    /\ \/ /\ backoff < BackoffLimit
          /\ backoff' = backoff + 1
          /\ UNCHANGED <<ew, ewTodo, ewErr, hcSigint>>
       \/ /\ backoff = BackoffLimit
          /\ UNCHANGED backoff
          /\ IF ew = "p2"
                THEN KillCheck("KubernetesUnresponsive")
                ELSE Terminate("KubernetesUnresponsive") /\ UNCHANGED hcSigint
    /\ UNCHANGED <<verdictLog, gcLog, verdict, gcChan, hc>>

---------------------------------------------------------------------------
(* Phase 2 (lines 211-322): the select! over the stream and the checker.   *)
P2Event ==
    /\ ew = "p2"
    /\ ReadEvent
    /\ LET e == Head(stream) IN
       \/ /\ e.kind = "Deleted"
          /\ KillCheck("PodDeleted")
          /\ UNCHANGED backoff
       \/ /\ e.kind = "Restarted"
          /\ KillCheck("PodRebooted")
          /\ UNCHANGED backoff
       \/ /\ e.kind = "EOF"
          /\ KillCheck("UnexpectedCloseOfEventStream")
          /\ UNCHANGED backoff
       \/ /\ e.kind \in {"Added", "Applied"}
          /\ backoff' = 0
          /\ UNCHANGED <<ew, ewTodo, ewErr, hcSigint>>
    /\ UNCHANGED <<verdictLog, gcLog, verdict, gcChan, hc>>

(* The checker's oneshot answers; check.join() returns at once because the *)
(* checker sends as its last act.  Ok is delivered to the handle through  *)
(* send_result (the channel is empty and its receiver, the shim, alive:    *)
(* the shim drops it only after receiving); an error terminates.           *)
P2Health ==
    /\ ew = "p2"
    /\ hcOut # "none"
    /\ hc = "done"
    /\ \/ /\ hcOut = "Ok"
          /\ Len(verdict) = 0
          /\ verdict' = Append(verdict, "Ok")
          /\ verdictLog' = Append(verdictLog, "Ok")
          /\ ew' = "p3"
          /\ UNCHANGED <<ewTodo, ewErr>>
       \/ /\ hcOut # "Ok"
          /\ Terminate(hcOut)
          /\ UNCHANGED <<verdict, verdictLog>>
    /\ UNCHANGED <<backoff, gcLog, gcChan, hc, hcSigint>>
    /\ UNCHANGED k8sVars

(* check.kill() returns once the checker's task has ended.                 *)
P2Killed ==
    /\ ew = "p2kill"
    /\ hc = "done"
    /\ Terminate(ewErr)
    /\ UNCHANGED <<backoff, verdictLog, gcLog, verdict, gcChan, hc, hcSigint>>
    /\ UNCHANGED k8sVars

---------------------------------------------------------------------------
(* Mutant: the Deleted arm of phase 3 calls kill_gc but lacks its return, *)
(* so the loop goes on reading the stream.                                 *)
P3EventNoReturn ==
    /\ ew = "p3"
    /\ ReadEvent
    /\ backoff' = 0
    /\ LET e == Head(stream) IN
       \/ /\ e.kind = "Deleted"
          /\ gcChan' = IF gc # "done" THEN Append(gcChan, "Terminated") ELSE gcChan
          /\ gcLog' = IF gc # "done" THEN Append(gcLog, "Terminated") ELSE gcLog
          /\ UNCHANGED <<ew, ewTodo, ewErr>>
       \/ /\ e.kind = "Restarted"
          /\ Terminate("PodRebooted")
          /\ UNCHANGED <<gcLog, gcChan>>
       \/ /\ e.kind = "EOF"
          /\ Terminate("UnexpectedCloseOfEventStream")
          /\ UNCHANGED <<gcLog, gcChan>>
       \/ /\ e.kind \in {"Added", "Applied"}
          /\ UNCHANGED <<ew, ewTodo, ewErr, gcLog, gcChan>>
    /\ UNCHANGED <<verdictLog, verdict, hc, hcSigint>>

(* Phase 3 (lines 331-384): Deleted is the normal end of life (kill_gc     *)
(* only); Restarted and EOF terminate; anything else is ignored.           *)
P3Event ==
    /\ ew = "p3"
    /\ ReadEvent
    /\ backoff' = 0
    /\ LET e == Head(stream) IN
       \/ /\ e.kind = "Deleted"
          /\ ew' = "exit"
          /\ ewTodo' = <<"gc">>
          /\ UNCHANGED ewErr
       \/ /\ e.kind = "Restarted"
          /\ Terminate("PodRebooted")
       \/ /\ e.kind = "EOF"
          /\ Terminate("UnexpectedCloseOfEventStream")
       \/ /\ e.kind \in {"Added", "Applied"}
          /\ UNCHANGED <<ew, ewTodo, ewErr>>
    /\ UNCHANGED <<verdictLog, gcLog, verdict, gcChan, hc, hcSigint>>

---------------------------------------------------------------------------
(* The exit awaits (lines 389-414).  send_result blocks while the channel  *)
(* holds a value the shim has not taken and fails, ignored, once the shim  *)
(* is gone; kill_gc fails, ignored, once the collector is gone; kill_pod   *)
(* ignores the delete's result.                                            *)
(* Mutant: the result channel keeps only the latest value (a watch rather *)
(* than an mpsc channel), so a later error replaces an unread Ok.          *)
SendResultOverwrite ==
    /\ ew = "exit"
    /\ Head(ewTodo) = "send"
    /\ \/ /\ shim # "done"
          /\ verdict' = <<ewErr>>
          /\ verdictLog' = Append(verdictLog, ewErr)
       \/ /\ shim = "done"
          /\ UNCHANGED <<verdict, verdictLog>>
    /\ ewTodo' = Tail(ewTodo)
    /\ UNCHANGED <<ew, ewErr, backoff, gcLog, gcChan, hc, hcSigint>>
    /\ UNCHANGED k8sVars

SendResult ==
    /\ ew = "exit"
    /\ Head(ewTodo) = "send"
    /\ \/ /\ shim # "done"
          /\ Len(verdict) = 0
          /\ verdict' = Append(verdict, ewErr)
          /\ verdictLog' = Append(verdictLog, ewErr)
       \/ /\ shim = "done"
          /\ UNCHANGED <<verdict, verdictLog>>
    /\ ewTodo' = Tail(ewTodo)
    /\ UNCHANGED <<ew, ewErr, backoff, gcLog, gcChan, hc, hcSigint>>
    /\ UNCHANGED k8sVars

KillGc ==
    /\ ew = "exit"
    /\ Head(ewTodo) = "gc"
    /\ \/ /\ gc # "done"
          /\ gcChan' = Append(gcChan, "Terminated")
          /\ gcLog' = Append(gcLog, "Terminated")
       \/ /\ gc = "done"
          /\ UNCHANGED <<gcChan, gcLog>>
    /\ ewTodo' = Tail(ewTodo)
    /\ ew' = IF Tail(ewTodo) = << >> THEN "done" ELSE "exit"
    /\ UNCHANGED <<ewErr, backoff, verdictLog, verdict, hc, hcSigint>>
    /\ UNCHANGED k8sVars

KillPod ==
    /\ ew = "exit"
    /\ Head(ewTodo) = "pod"
    /\ \/ DeleteOk
       \/ DeleteFails /\ UNCHANGED k8sVars
    /\ ewTodo' = Tail(ewTodo)
    /\ ew' = "done"
    /\ UNCHANGED <<ewErr, backoff, verdictLog, gcLog, verdict, gcChan, hc, hcSigint>>

EwExit == SendResult \/ KillGc \/ KillPod

EwNext ==
    \/ P1Event
    \/ StreamError
    \/ P2Event
    \/ P2Health
    \/ P2Killed
    \/ P3Event
    \/ EwExit

=============================================================================
