----------------------------- MODULE Kubernetes -----------------------------
(***************************************************************************)
(* The Kubernetes API server as the pod manager sees it: the one pod a     *)
(* PodManager leases, the filtered watch stream over that pod              *)
(* (k8s::watcher with field selector metadata.name=<id>), and the delete  *)
(* and patch calls the daemons make.  The environment may change the pod,  *)
(* close or fail the stream and resync it; none of those steps is fair,   *)
(* except (in Spec of PodManager) that a pod does not stay Pending forever.*)
(***************************************************************************)
EXTENDS Naturals, Sequences

CONSTANTS
    MaxStreamErrors,  \* transient watch-stream errors the API server may produce
    MaxResyncs,       \* Restarted (re-list) markers the watch layer may emit
    ApiFaults,        \* subset of {"patch", "delete"}: calls that may fail transiently
    BareImagePull     \* the kubelet may report ErrImagePull with no waiting.message

ASSUME /\ MaxStreamErrors \in Nat
       /\ BareImagePull \in BOOLEAN
       /\ MaxResyncs \in Nat
       /\ ApiFaults \subseteq {"patch", "delete"}

VARIABLES
    pod,          \* phase of the pod's containers, or "Gone" once the object is deleted
    stream,       \* watch events delivered but not yet read by the event watcher
    streamOpen,   \* FALSE once the API server has closed the stream (EOF queued)
    streamErrors, \* stream errors produced so far
    resyncs       \* Restarted markers produced so far

k8sVars == <<pod, stream, streamOpen, streamErrors, resyncs>>

(* The pod predicates of PodExt (running, terminated || crashed,           *)
(* was_err_image_pull) collapse the container statuses to one phase.      *)
(* ErrImagePullBare is a container waiting with reason ErrImagePull and    *)
(* message None: ContainerStateWaiting.message is optional in the API.     *)
PodPhases == {"Pending", "Running", "Crashed", "ErrImagePull", "ErrImagePullBare"}

(* The phases a Pending pod can move to.                                   *)
PendingExits ==
    {"Running", "Crashed", "ErrImagePull"}
        \cup (IF BareImagePull THEN {"ErrImagePullBare"} ELSE {})

EventKinds == {"Added", "Applied", "Restarted", "Deleted", "EOF"}

Event(kind, phase) == [kind |-> kind, phase |-> phase]

Events == [kind : EventKinds, phase : PodPhases \cup {"none"}]

(* A change of the pod object reaches the watcher only while the stream is *)
(* open.                                                                   *)
Emit(e) == stream' = IF streamOpen THEN Append(stream, e) ELSE stream

K8sInit ==
    /\ pod = "Pending"
    /\ stream = << Event("Added", "none"), Event("Applied", "Pending") >>
    /\ streamOpen = TRUE
    /\ streamErrors = 0
    /\ resyncs = 0

K8sTypeOK ==
    /\ pod \in PodPhases \cup {"Gone"}
    /\ stream \in Seq(Events)
    /\ streamOpen \in BOOLEAN
    /\ streamErrors \in 0..MaxStreamErrors
    /\ resyncs \in 0..MaxResyncs

---------------------------------------------------------------------------
(* Operations the daemons perform on the API server.                       *)

(* try_next() yields the next queued event.                                *)
ReadEvent ==
    /\ stream # << >>
    /\ stream' = Tail(stream)
    /\ UNCHANGED <<pod, streamOpen, streamErrors, resyncs>>

(* try_next() yields Err: the API server is flapping.                      *)
ReadError ==
    /\ streamErrors < MaxStreamErrors
    /\ streamErrors' = streamErrors + 1
    /\ UNCHANGED <<pod, stream, streamOpen, resyncs>>

(* Api::delete that takes effect: the object is removed and the watch      *)
(* stream reports Deleted.                                                 *)
DeleteOk ==
    /\ pod # "Gone"
    /\ pod' = "Gone"
    /\ Emit(Event("Deleted", "none"))
    /\ UNCHANGED <<streamOpen, streamErrors, resyncs>>

(* Api::delete that returns an error: 404 once the pod is gone, or a       *)
(* transient API failure when "delete" is in ApiFaults.                    *)
DeleteFails == pod = "Gone" \/ "delete" \in ApiFaults

(* Api::patch of the execution_date label errs when the pod is gone, or   *)
(* transiently when "patch" is in ApiFaults.                               *)
PatchMayFail == pod = "Gone" \/ "patch" \in ApiFaults

PatchMaySucceed == pod # "Gone"

---------------------------------------------------------------------------
(* Steps of the environment.                                               *)

(* The kubelet moves the pod out of Pending.                               *)
PodLeavesPending ==
    /\ pod = "Pending"
    /\ \E p \in PendingExits :
          /\ pod' = p
          /\ Emit(Event("Applied", p))
    /\ UNCHANGED <<streamOpen, streamErrors, resyncs>>

(* A running container terminates (restartPolicy Never).                   *)
PodCrashes ==
    /\ pod = "Running"
    /\ pod' = "Crashed"
    /\ Emit(Event("Applied", "Crashed"))
    /\ UNCHANGED <<streamOpen, streamErrors, resyncs>>

(* The watch layer re-lists and emits Restarted.                          *)
Resync ==
    /\ resyncs < MaxResyncs
    /\ resyncs' = resyncs + 1
    /\ Emit(Event("Restarted", "none"))
    /\ UNCHANGED <<pod, streamOpen, streamErrors>>

(* The API server permanently closes the stream.                          *)
StreamCloses ==
    /\ streamOpen
    /\ stream' = Append(stream, Event("EOF", "none"))
    /\ streamOpen' = FALSE
    /\ UNCHANGED <<pod, streamErrors, resyncs>>

(* DELETE /delete?id=X (main.rs delete, k8s::delete): a client deletes the *)
(* pod directly, outside the pod manager's mutex.  On a pod that is gone   *)
(* the 404 is mapped to success and nothing changes.                       *)
ClientDelete == DeleteOk

=============================================================================
