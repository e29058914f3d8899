----------------------------- MODULE PodManager -----------------------------
(***************************************************************************)
(* One PodManager (podmanager/mod.rs) and the HTTP surface that reaches it *)
(* (main.rs): the event watcher, garbage collector, health checker and     *)
(* external handle composed over their channels, the registry entry that  *)
(* new_podmanager inserts and the reaper removes once the watcher, the     *)
(* collector and the shim have joined, and the wait / refresh handlers     *)
(* that run under the PodManager's mutex (at most one at a time: `http`).  *)
(***************************************************************************)
EXTENDS Naturals, Sequences

CONSTANTS
    BackoffLimit, MaxStreamErrors, MaxResyncs, ApiFaults, BareImagePull,
    MaxHcAttempts,
    MaxHttpCalls   \* GET /wait and POST /refresh calls the client makes

ASSUME MaxHttpCalls \in Nat

VARIABLES
    \* Kubernetes
    pod, stream, streamOpen, streamErrors, resyncs,
    \* event watcher
    ew, ewTodo, ewErr, backoff, verdictLog, gcLog,
    \* garbage collector and its refresh facade
    gc, gcTicket, gcExit, gcChan, refreshReq, replyTicket,
    \* health checker
    hc, hcLastErr, hcOver, hcAttempts, hcOut, hcSigint,
    \* external handle
    verdict, shim, shimVal, patience, arrived, released, outbound, upper,
    waitOut, phantom, waitLog,
    \* registry, reaper and HTTP handlers
    registry,    \* POD_MANAGER_CACHE entry: "absent", "present", "removed"
    reaper,      \* the join!-then-remove task: "waiting", "done"
    http,        \* handler holding the mutex: "idle", "wait", "waitRefresh", "refresh"
    httpCalls,   \* handler calls made so far
    heldTicket   \* number of the newest ticket a client received

K8s == INSTANCE Kubernetes
EW  == INSTANCE EventWatcher
GC  == INSTANCE GarbageCollector
HC  == INSTANCE HealthChecker
EH  == INSTANCE ExternalHandle

k8sVars == <<pod, stream, streamOpen, streamErrors, resyncs>>
ewOwn   == <<ew, ewTodo, ewErr, backoff, verdictLog, gcLog>>
gcOwn   == <<gc, gcTicket, gcExit, refreshReq, replyTicket>>
hcOwn   == <<hcLastErr, hcOver, hcAttempts, hcOut>>
ehOwn   == <<shim, shimVal, patience, arrived, released, outbound, upper,
             waitOut, phantom, waitLog>>
pmVars  == <<registry, reaper, http, httpCalls, heldTicket>>

vars == <<k8sVars, ewOwn, gcOwn, gcChan, hc, hcSigint, hcOwn, verdict, ehOwn,
          pmVars>>

(* new_podmanager (mod.rs:66): the three daemons start, the entry is       *)
(* not yet inserted and its reaper waits on their joins.                   *)
NewPodManager ==
    /\ EW!EwInit
    /\ GC!GcInit
    /\ HC!HcInit
    /\ verdict = << >>
    /\ EH!EhInit
    /\ registry = "absent"
    /\ reaper = "waiting"
    /\ http = "idle"
    /\ httpCalls = 0
    /\ heldTicket = 0

(* main.rs deploy: k8s::deploy creates the pod, then the manager starts   *)
(* (main.rs:67 names it PodManager::new; mod.rs defines new_podmanager).  *)
(* A failed deploy returns its error before any task exists.              *)
Init == K8s!K8sInit /\ NewPodManager

---------------------------------------------------------------------------
(* The daemons, each a tokio task stepping on its own.                     *)

Watcher(A) == A /\ UNCHANGED <<gcOwn, hcOwn, ehOwn, pmVars>>

Collector(A) ==
    A /\ UNCHANGED <<ewOwn, verdict, hc, hcSigint, hcOwn, ehOwn, pmVars>>

Checker(A) ==
    A /\ UNCHANGED <<ewOwn, gcOwn, gcChan, verdict, ehOwn, pmVars, k8sVars>>

Handle(A) ==
    A /\ UNCHANGED <<ewOwn, gcOwn, gcChan, hc, hcSigint, hcOwn, pmVars,
                     k8sVars>>

Environment(A) ==
    A /\ UNCHANGED <<ewOwn, gcOwn, gcChan, hc, hcSigint, hcOwn, verdict,
                     ehOwn, pmVars>>

(* The shim's patience is 60 s; new_podmanager inserts the entry right     *)
(* after spawning the tasks, so the patience cannot elapse before it.      *)
ShimPatience == EH!ShimPatienceElapses /\ registry # "absent"

---------------------------------------------------------------------------
(* new_podmanager (mod.rs 66-119): the reaper and the registry insert.     *)

(* Everything the daemons own: the handlers and the reaper leave it alone. *)
daemons == <<k8sVars, ewOwn, gcChan, hc, hcSigint, hcOwn, verdict>>

Insert ==
    /\ registry = "absent"
    /\ registry' = "present"
    /\ UNCHANGED <<daemons, gcOwn, ehOwn, reaper, http, httpCalls, heldTicket>>

(* Mutant: the reaper unwraps the watcher's JoinHandle result, so a        *)
(* panicked watcher panics the reaper before the remove.                   *)
ReapJoinedCleanly ==
    /\ reaper = "waiting" /\ ew = "done" /\ gc = "done" /\ shim = "done"
    /\ reaper' = "done"
    /\ registry' = IF registry = "present" THEN "removed" ELSE registry
    /\ UNCHANGED <<daemons, gcOwn, ehOwn, http, httpCalls, heldTicket>>

(* join!(watcher, gc, shim), whose results (a panic's JoinError included)  *)
(* are discarded, then POD_MANAGER_CACHE.remove(&pod).                     *)
Reap ==
    /\ reaper = "waiting" /\ ew \in {"done", "panicked"}
    /\ gc = "done" /\ shim = "done"
    /\ reaper' = "done"
    /\ registry' = IF registry = "present" THEN "removed" ELSE registry
    /\ UNCHANGED <<daemons, gcOwn, ehOwn, http, httpCalls, heldTicket>>

---------------------------------------------------------------------------
(* HTTP handlers (main.rs).  PodManager::get misses with NotFound once the *)
(* reaper has removed the entry; a client only learns the id from deploy,  *)
(* which returns after the insert.                                         *)

CallStart ==
    /\ http = "idle" /\ registry # "absent"
    /\ httpCalls < MaxHttpCalls
    /\ httpCalls' = httpCalls + 1

(* GET /wait: lock, then manager.wait().                                   *)
HttpWait ==
    /\ CallStart
    /\ \/ registry = "present" /\ EH!WaitBegin /\ http' = "wait"
       \/ registry = "removed" /\ UNCHANGED <<http, ehOwn>>
    /\ UNCHANGED <<daemons, gcOwn, registry, reaper, heldTicket>>

(* wait() returned: an error is the response; Ok(pod) is followed by       *)
(* manager.refresh(), whose send fails at once if the collector is gone.   *)
HttpWaitReturn ==
    /\ http = "wait" /\ upper = "returned"
    /\ upper' = "idle"
    /\ \/ waitOut = "Ok" /\ GC!RefreshSend /\ http' = "waitRefresh"
       \/ waitOut = "Ok" /\ GC!RefreshSendClosed /\ http' = "idle"
       \/ waitOut # "Ok" /\ http' = "idle" /\ UNCHANGED refreshReq
    /\ UNCHANGED <<daemons, gc, gcTicket, gcExit, replyTicket, shim, shimVal,
                   patience, arrived, released, outbound, waitOut, phantom,
                   waitLog, registry, reaper, httpCalls, heldTicket>>

(* POST /refresh: lock, then manager.refresh().                            *)
HttpRefresh ==
    /\ CallStart
    /\ \/ registry = "present" /\ GC!RefreshSend /\ http' = "refresh"
       \/ registry = "present" /\ GC!RefreshSendClosed /\ UNCHANGED http
       \/ registry = "removed" /\ UNCHANGED <<http, refreshReq>>
    /\ UNCHANGED <<daemons, gc, gcTicket, gcExit, replyTicket, ehOwn,
                   registry, reaper, heldTicket>>

(* rx.await in GarbageCollector::refresh: a ticket, or RefreshChannelClosed.*)
HttpRefreshReturn ==
    /\ http \in {"waitRefresh", "refresh"}
    /\ \/ GC!RefreshReply /\ heldTicket' = replyTicket
       \/ GC!RefreshDropped /\ UNCHANGED heldTicket
    /\ http' = "idle"
    /\ UNCHANGED <<daemons, gc, gcTicket, gcExit, replyTicket, ehOwn,
                   registry, reaper, httpCalls>>

---------------------------------------------------------------------------
(* The system has stopped: every task joined and the entry removed.        *)
Finished ==
    /\ reaper = "done"
    /\ http = "idle"
    /\ UNCHANGED vars

Next ==
    \/ Watcher(EW!P1Event) \/ Watcher(EW!StreamError) \/ Watcher(EW!P2Event)
    \/ Watcher(EW!P2Health) \/ Watcher(EW!P2Killed) \/ Watcher(EW!P3Event)
    \/ Watcher(EW!SendResult) \/ Watcher(EW!KillGc) \/ Watcher(EW!KillPod)
    \/ Collector(GC!GcArmed) \/ Collector(GC!GcArmedSenderDropped)
    \/ Collector(GC!GcPatch)
    \/ Collector(GC!GcRefresh) \/ Collector(GC!GcTimeout)
    \/ Collector(GC!GcStatusChange)
    \/ Checker(HC!HcNextBackoff) \/ Checker(HC!HcSleepDone)
    \/ Checker(HC!HcConnect) \/ Checker(HC!HcPatience)
    \/ Checker(HC!HcCancelled) \/ Checker(HC!HcBudgetElapses)
    \/ Handle(EH!ShimRecv) \/ Handle(EH!ShimRecvClosed) \/ Handle(EH!ShimWake) \/ Handle(EH!ShimGiveUp)
    \/ Handle(EH!ShimSend) \/ Handle(ShimPatience)
    \/ Handle(EH!WaitWake) \/ Handle(EH!WaitRecv)
    \/ Environment(K8s!PodLeavesPending) \/ Environment(K8s!PodCrashes)
    \/ Environment(K8s!Resync) \/ Environment(K8s!StreamCloses)
    \/ Environment(K8s!ClientDelete)
    \/ Insert
    \/ Reap
    \/ HttpWait
    \/ HttpWaitReturn
    \/ HttpRefresh
    \/ HttpRefreshReturn
    \/ Finished

(* Tokio runs every task that can make progress, and time passes, so every *)
(* step of a daemon is weakly fair, as are the timers (the collector's     *)
(* deadline, the checker's budget, the shim's patience).  The client and   *)
(* the API server's faults are not fair: they may never act.               *)
TaskFairness ==
    /\ WF_vars(Watcher(EW!P1Event)) /\ WF_vars(Watcher(EW!P2Event))
    /\ WF_vars(Watcher(EW!P2Health)) /\ WF_vars(Watcher(EW!P2Killed))
    /\ WF_vars(Watcher(EW!P3Event)) /\ WF_vars(Watcher(EW!EwExit))
    /\ WF_vars(Collector(GC!GcNext))
    /\ WF_vars(Collector(GC!GcTimeout))
    /\ WF_vars(Checker(HC!HcNext))
    /\ WF_vars(Checker(HC!HcBudgetElapses))
    /\ WF_vars(Handle(EH!ShimRecv)) /\ WF_vars(Handle(EH!ShimRecvClosed))
    /\ WF_vars(Handle(EH!ShimWake))
    /\ WF_vars(Handle(EH!ShimSend)) /\ WF_vars(Handle(ShimPatience))
    /\ WF_vars(Handle(EH!ShimGiveUp))
    /\ WF_vars(Handle(EH!WaitWake)) /\ WF_vars(Handle(EH!WaitRecv))
    /\ WF_vars(Insert) /\ WF_vars(Reap)
    /\ WF_vars(HttpWaitReturn) /\ WF_vars(HttpRefreshReturn)

(* The kubelet does not leave a pod Pending forever.                       *)
KubeletFairness == WF_vars(Environment(K8s!PodLeavesPending))

Spec == Init /\ [][Next]_vars /\ TaskFairness /\ KubeletFairness

(* The same system when a pod may stay Pending (unschedulable, stuck).     *)
SpecPendingMayStall == Init /\ [][Next]_vars /\ TaskFairness

---------------------------------------------------------------------------
(* Properties.                                                             *)

Verdicts == EW!WatcherErrors \cup {"Ok"}

WaitResults == Verdicts \cup {"InboundResultChannelDropped", "PhantomError"}

TypeOK ==
    /\ K8s!K8sTypeOK
    /\ ew \in {"p1", "p2", "p2kill", "p3", "exit", "done", "panicked"}
    /\ ewTodo \in Seq({"send", "gc", "pod"})
    /\ ewErr \in EW!WatcherErrors \cup {"none"}
    /\ backoff \in 0..BackoffLimit
    /\ verdictLog \in Seq(Verdicts)
    /\ gcLog \in Seq(GC!GcStatusValues)
    /\ gc \in {"armed", "patch", "counting", "repatch", "done"}
    /\ gcTicket \in Nat
    /\ gcExit \in {"none", "terminated", "timeout", "panic", "senderDropped"}
    /\ gcChan \in Seq(GC!GcStatusValues)
    /\ refreshReq \in {"idle", "queued", "replied"}
    /\ replyTicket \in Nat
    /\ HC!HcTypeOK
    /\ verdict \in Seq(Verdicts) /\ Len(verdict) <= 1
    /\ shim \in {"recv", "barrier", "send", "done"}
    /\ shimVal \in Verdicts \cup {"none", "InboundResultChannelDropped"}
    /\ patience \in BOOLEAN
    /\ arrived \in SUBSET {"shim", "upper"}
    /\ released \in BOOLEAN
    /\ outbound \in Seq(Verdicts \cup {"InboundResultChannelDropped"})
    /\ Len(outbound) <= 1
    /\ upper \in {"idle", "barrier", "recv", "returned"}
    /\ waitOut \in WaitResults \cup {"none"}
    /\ phantom \in {"none", "Ok", "Err"}
    /\ waitLog \in Seq(WaitResults)
    /\ registry \in {"absent", "present", "removed"}
    /\ reaper \in {"waiting", "done"}
    /\ http \in {"idle", "wait", "waitRefresh", "refresh"}
    /\ httpCalls \in 0..MaxHttpCalls
    /\ heldTicket \in Nat

(* The handle passes on the watcher's first verdict and nothing else: a    *)
(* wait() that returns a verdict (not one of the handle's own errors)      *)
(* returns the first result send_result placed in the channel, even when   *)
(* terminate() later sends an error after Ok (phase 3).                    *)
WaitReportsFirstVerdict ==
    \A i \in 1..Len(waitLog) :
        waitLog[i] \in Verdicts =>
            /\ verdictLog # << >>
            /\ waitLog[i] = verdictLog[1]

(* wait() is memoised: after Ok(pod) every later wait() returns Ok; after  *)
(* an error every later wait() returns PhantomError.                       *)
WaitMemoised ==
    \A i, j \in 1..Len(waitLog) :
        i < j => waitLog[j] = IF waitLog[i] = "Ok" THEN "Ok" ELSE "PhantomError"

(* The collector hears Running at most once, Terminated at most once, and  *)
(* never Running after Terminated, whichever exit path the watcher takes.  *)
(* Terminated alone is allowed: the phase-1 terminate() (a crash,          *)
(* ErrImagePull, Deleted or EOF before Running) sends it to the armed      *)
(* collector, although spec 8.2 says Terminated never precedes Running.    *)
GcSignalOrder ==
    gcLog \in { << >>, <<"Running">>, <<"Terminated">>,
                <<"Running", "Terminated">> }

(* Once the watcher and the collector have both returned (or panicked),    *)
(* the pod has been deleted: no exit path of either leaves the pod behind. *)
(* The collector's comment on its closed channel says it must clean up a   *)
(* watcher that "crashed and burned".                                      *)
NoOrphanWhenDaemonsDone ==
    (ew \in {"done", "panicked"} /\ gc = "done") => pod = "Gone"

(* Every wait() that starts returns (Ok, an error, or a handle error).     *)
WaitReturns == (http = "wait") ~> (upper = "returned")

(* Every refresh() a handler starts (POST /refresh, or the one GET /wait   *)
(* makes after Ok) returns a ticket or RefreshChannelClosed and releases   *)
(* the PodManager's mutex, even when the collector ends (deadline,         *)
(* Terminated, a panic on a failed patch) with the request still buffered: *)
(* dropping the refresh channel drops the oneshot sender and wakes rx.     *)
RefreshReturns == (http \in {"waitRefresh", "refresh"}) ~> (http = "idle")

(* The leased pod is eventually deleted (by the collector's deadline, by  *)
(* terminate()'s kill_pod or by a client), unless the watcher panicked:   *)
(* that leak is the panic_leaks_pod counterexample.                        *)
PodEventuallyDeleted == <>(pod = "Gone" \/ ew = "panicked")

(* The registry entry is eventually removed.                               *)
ManagerEventuallyReaped == <>(registry = "removed")

---------------------------------------------------------------------------
(* The collector implements the abstract lease of module Lease.  Armed is  *)
(* an idle lease, done an ended one, and every countdown state an active   *)
(* one; the deadline in force is the countdown's ticket, the grant the     *)
(* ticket on the refresh oneshot, the pod is alive until it is Gone, and   *)
(* the lease is revoked once the watcher has sent Terminated.              *)
LeaseAbs == INSTANCE Lease WITH
    lease    <- CASE gc = "armed" -> "idle"
                  [] gc = "done"  -> "ended"
                  [] OTHER        -> "active",
    deadline <- gcTicket,
    granted  <- replyTicket,
    alive    <- pod # "Gone",
    revoked  <- \E i \in DOMAIN gcLog : gcLog[i] = "Terminated"

(* Every step of the collector (GcArmed, GcRefresh, GcTimeout, its         *)
(* Terminated and closed-channel arms) and of the pod's other deleters is  *)
(* a step of the lease: a refresh grants exactly the new deadline, only    *)
(* expiry ends a lease by deleting the pod, and no active lease lasts      *)
(* forever.                                                                *)
LeaseRefinement == LeaseAbs!Spec

---------------------------------------------------------------------------
(* Statements of spec.md section 8 that the code does not meet.           *)

(* The watcher has read the pod's Deleted event (phases 1 and 2 terminate  *)
(* with PodDeleted; phase 3 goes straight to kill_gc).                     *)
WatcherSawDelete ==
    \/ ewErr = "PodDeleted"
    \/ ew \in {"exit", "done"} /\ ewErr = "none"

(* Spec 8, scenario 6: once the watcher has observed the delete, refresh  *)
(* fails.  The collector keeps answering refresh requests until the        *)
(* Terminated that kill_gc sends is picked by its select!.                 *)
NoRefreshAfterWatcherSawDelete ==
    [][ (refreshReq = "queued" /\ refreshReq' = "replied") => ~WatcherSawDelete ]_vars

(* Spec 8.4: after a successful wait() the watcher issues no pod delete.   *)
(* In phase 3 a Restarted event or the stream's end runs terminate(),      *)
(* whose kill_pod deletes the pod the client was handed.                   *)
NoWatcherDeleteAfterOk ==
    [][ (ew = "exit" /\ ew' = "done" /\ pod # "Gone" /\ pod' = "Gone")
          => \A i \in 1..Len(waitLog) : waitLog[i] # "Ok" ]_vars

=============================================================================
