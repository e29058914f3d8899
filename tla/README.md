# TLA+ models of the Alation Connector Manager and the image manager

These modules model the two services under `src/k8s/service`:

- **ACM**, in `acm`. It deploys a connector pod in Kubernetes and supervises it with a set of cooperating tokio tasks:
  - a watcher of the pod's events;
  - a lease-based garbage collector;
  - a gRPC health checker;
  - a rendezvous handle for the HTTP `wait` call.
- **AIM**, in `aim`. It installs connector images into a registry, either ECR or a Minikube docker registry. It does this through `ctr` (containerd) in a temporary namespace. It also lists, gets and uninstalls images.

TLC checks each model over every interleaving of its tasks, handlers and environment.

## 1. Inventory

### Components and their state

| Component | Source | State it keeps |
|---|---|---|
| Event watcher | `acm/.../podmanager/event_watcher.rs` | Its phase (1: wait for Running, 2: health check, 3: healthy). The `ExponentialBackoff` over stream errors. The watch stream. The sender of the GC-status channel (capacity 100). The producer side of the verdict channel (capacity 1). |
| Garbage collector | `podmanager/garbage_collector.rs` | Armed, then counting on a `KeepAliveTicket` (deadline = now + ttl). The receivers of the status channel and the refresh channel; each refresh request carries a oneshot for its reply. |
| Health checker | `podmanager/server_check.rs` | A backoff with a 30 s budget. `latest_error`. A sigint oneshot and a result oneshot. |
| External handle | `podmanager/external_handle.rs` | The shim task: the single-slot inbound and outbound channels, a `Barrier(2)` and a 60 s patience. The upper handle's `phantom`, which memoises the first outcome of `wait()`. |
| Pod manager and registry | `podmanager/mod.rs` | `POD_MANAGER_CACHE`: id → `Arc<Mutex<PodManager>>`. A reaper task per id that joins the three daemons and then removes the entry. |
| ACM HTTP API | `acm/src/main.rs` | Stateless handlers. `deploy` creates the pod and the manager. `wait` and `refresh` lock the manager's mutex. `delete` goes straight to Kubernetes. |
| Kubernetes library | `library/k8s/src/{lib,pod}.rs` | `deploy` and `delete` (a 404 counts as success). The `PodExt` predicates that classify a pod. |
| AIM install workflow | `aim/.../registry/containerd/*.rs` | A `Namespace` and the `TmpImage`s created in it. Each is removed by a background task on drop, which retries with an exponential backoff until its budget is spent. |
| AIM registry API | `aim/src/main.rs`, `registry/{mod,ecr/mod,minikube/mod}.rs` | No state of its own. The remote registry maps each tag to a digest. The backend is `Implementation::which()`. |
| Support crates | `library/{os,names,...}` | `os::process::exec` runs a command. `names` generates fresh tags and pod names (modelled in `Names`). |

### How the ACM's parts interact

`deploy` creates the pod and then starts its manager. `main.rs:67` calls it `PodManager::new`, but `podmanager/mod.rs` defines no such function; the one the model follows is `PodManager::new_podmanager` (`mod.rs:66`). It does three things:
1. It spawns the shim, the watcher and the collector.
2. It spawns the reaper, which runs `join!(watcher, gc, shim)` and then removes the entry.
3. It inserts the entry.

The daemons talk only over channels:
- **Watcher → collector.** `GcStatus::Running` on entering phase 2. `Terminated` from `terminate()` or from the phase-3 `Deleted` arm.
- **Watcher → shim.** The verdict: `Ok(pod)`, or the error that `terminate()` carries.
- **Shim → `wait()`.** The verdict, once both have passed the barrier.
- **HTTP `refresh` → collector.** A oneshot sender; the collector replies with a new ticket.
- **Watcher → checker.** A sigint, then a join.

`terminate(err)` awaits three steps in order: `send_result(Err)`, `kill_gc` and `kill_pod`. Every other task can run between them.

### How the AIM's parts interact

`POST /install` runs these steps in a fresh containerd namespace:
1. `ctr images import`.
2. `ctr images ls`, whose single row is parsed.
3. `ctr images tag` to a fresh tag.
4. `ctr images push`. For ECR, the push first runs `aws ecr get-login-password`.

Each intermediate image is owned by a `TmpImage`, and the namespace by a `Namespace`. Dropping either one spawns a task that loops on `ctr ... remove` until it succeeds or its backoff budget is spent. The drops happen as the handler's values go out of scope, so the removals race one another. containerd refuses to remove a namespace that still holds an image, and its content GC runs asynchronously.

The other handlers depend on the backend:
- **ECR.** `uninstall`, `list` and `get` are one `aws ecr` command each.
- **Minikube.** `list` is `tags/list` followed by one manifest GET per tag. `uninstall` is a list followed by a DELETE of the manifest by digest. Other requests interleave between these calls.

## 2. Modules

| Module | Models |
|---|---|
| `Kubernetes` | The pod, the watch stream, delete, patch and the kubelet. |
| `EventWatcher`, `GarbageCollector` | One task each. They EXTEND `Kubernetes`, because TLC rejects a module INSTANCEd by `PodManager` that itself INSTANCEs `Kubernetes`. |
| `HealthChecker`, `ExternalHandle` | One task each. |
| `PodManager` | Composes the tasks, the environment, the registry entry, the reaper and the HTTP handlers. It INSTANCEs each task module, and each task's step leaves the other tasks' variables unchanged. |
| `Lease` | The abstract specification of what the collector promises. It is a lease on one pod: idle, then active with a deadline, then ended by expiry (which deletes the pod) or by release. |
| `MC_PodManager` | What TLC checks for the ACM. |
| `AimImport`, `MC_AimImport` | The install workflow and its cleanup tasks. |
| `Registry`, `MC_Registry` | The registry API and both backends under concurrent clients. |
| `Names` | `names::rfc1123_subdomain` as a pure operator, checked over a bounded set of deploy names. |

## 3. How the modules correspond to the code

`PROJECT.json` `map` gives the lines each definition translates.

**`EventWatcher`.**
- State:
  - `ew` is the phase: `p1`, `p2`, `p2kill` (while `check.kill()` is awaited), `p3`, `exit` or `done`;
  - `ewTodo` is the remaining awaits of `terminate()`;
  - `backoff` counts consecutive stream errors.
- Actions:
  - one per arm of the phase loops: `P1Event`, `StreamError`, `P2Event`, `P2Health`, `P2Killed` and `P3Event`;
  - one per await of `terminate()`: `SendResult`, `KillGc` and `KillPod`.
- `WatcherPanics` is the `unwrap` in `err_image_pull` on a container status without a message. It ends the task with its senders dropped.

**`GarbageCollector`.**
- State:
  - `gc` is `armed`, `patch`, `counting`, `repatch` or `done`;
  - `gcTicket` numbers the ticket the countdown sleeps on;
  - `refreshReq` and `replyTicket` are the refresh channel and its oneshot.
- Actions:
  - the task: `GcArmed`, `GcPatch`, `GcRefresh`, `GcTimeout` and `GcStatusChange`;
  - the channel-closed arms;
  - the facade: `RefreshSend`, `RefreshSendClosed`, `RefreshReply` and `RefreshDropped`.

**`HealthChecker`.**
- `hc` is the loop position: top, sleep or connect.
- `hcOver` says the 30 s budget has elapsed, and `hcOut` holds the value sent on the result oneshot.

**`ExternalHandle`.**
- `shim` and `upper` are the two parties. `arrived` and `released` model the tokio barrier; a waiter that is dropped stays counted. `verdict` and `outbound` are the two channels.
- `phantom` is the memoised outcome, and `waitLog` records every value `wait()` returned.

**`PodManager`.**
- `Init` is the `deploy` handler: `K8sInit`, then `NewPodManager`.
- `registry` (absent, present or removed) and `reaper` model the entry and its reaper.
- `http` is the handler that holds the mutex, and `heldTicket` is the newest ticket a client received.
- `LeaseAbs` maps the collector onto `Lease`:
  - `lease` is idle while `gc` is armed, ended when it is done, and active otherwise;
  - `deadline` is `gcTicket`;
  - `granted` is `replyTicket`;
  - `alive` means the pod is not gone;
  - `revoked` means the watcher has sent Terminated.

**`AimImport`.**
- State:
  - `phase` is the handler's position;
  - `images` and `content` are what containerd holds in the namespace;
  - `tmp` is the set of images owned by a live `TmpImage`;
  - `cleaner` and `tries` are each removal task's state and its failed attempts.
- Actions:
  - the handler's steps: `CtrImport`, `CtrImagesLs`, `CtrTag` and `CtrPush`;
  - the drop tasks: `RemoveImage(r)` and `RemoveNamespace`;
  - `ContainerdGc`.
- Helpers:
  - `CommandMayFail` is `os::process::exec`;
  - `GetCredentialsMayFail` is the ECR login;
  - `BudgetMayRunOut` says when a task's backoff may give up.

**`Registry`.**
- State:
  - `reg` maps each tag to its digest or `NoImage`;
  - `backend` is fixed in `Init`;
  - each client has a request (`op`, `arg`), a position (`pc`), the tags still to fetch (`todo`), the pairs collected (`out`) and a result (`res`);
  - `seen` is a history variable of every pair the registry held while the request ran.
- Actions:
  - `Install` pushes a `FreshTags` element;
  - `Begin` and `Return` bracket a request;
  - `EcrList` and `EcrUninstall` are the ECR calls;
  - `MkTagsList`, `MkManifest`, `MkListed`, `MkDelete` and `MkGet` are the Minikube calls. Under `RegistryFaults`, a tags/list error panics the handler (`Finish(c, "err")`), and a manifest GET may answer 5xx. The code hashes that body like any other, so the digest is `ErrBody`;
  - `Answer` is `registry::get`'s TagNotFound.

### Names

A string is a sequence of character classes with their UTF-8 widths (`lower`, `digit`, `punct` 1 byte; `eth`, a non-ASCII lowercase letter, 2 bytes; `emoji` 4 bytes), because the code classifies characters with `char::is_alphanumeric` but measures and truncates with byte lengths. `Normalized` is steps 1 and 2 (lines 65-75): non-alphanumerics become spaces, and `to_case(Case::Kebab)` splits words at spaces and at letter/digit boundaries (the tests show "v1" becoming "v-1"). `Rfc1123Subdomain` is the three cases of step 3, and `Truncate` is `String::truncate`, which panics off a character boundary. `Uuid` is 32 hex characters; its value does not matter. The module has one variable, the input, drawn in `Init` from a run of `RunLengths` letters followed by up to `TailLength` arbitrary characters; that is the argument `pod::new` passes. `SubdomainValid` is a state invariant over it.

### Abstractions

**Time is abstracted to events:**
- the collector's deadline can fire whenever it is counting;
- the checker's budget elapses while it sleeps or connects;
- the shim's patience elapses while it waits at the barrier;
- a removal task's budget may run out after `MaxRemoveAttempts` failures.

**Names, tags and digests are model values.** A digest is the content it hashes, and `ErrBody` is the hash of a registry error body.

**Omitted branches:**
- **Never taken in a reachable state.** Examples: the phase-1 send of Running failing; `HealthCheckDroppedItsChannel`; a Running status reaching the counting collector.
- **`ServerCheck::new` failing on a Running pod.** The pod that `deploy` creates always has an IP and a declared port.

## 4. Runs

| Run | cfg | Expect | What it shows |
|---|---|---|---|
| safety | `MC_PodManager.cfg` | pass | `TypeOK` and four invariants hold over 5.2 M states (about 3.5 min). |
| liveness | `MC_PodManager_live.cfg` | pass | Under fairness, with the watcher's panic possible: `wait()` and `refresh()` return, the entry is reaped, the pod is deleted unless the watcher panicked, and the collector refines `Lease` (`LeaseRefinement`). |
| pending_never_collected | `MC_PendingNeverCollected.cfg` | violation | A pod stuck in Pending is never deleted. |
| patch_failure_leaks | `MC_PatchFailureLeaks.cfg` | violation | A failed label patch kills the collector, and the pod leaks. |
| refresh_after_delete | `MC_RefreshAfterDelete.cfg` | violation | Spec 8, scenario 6, is broken: a refresh succeeds after the watcher has seen the delete. |
| delete_after_ok | `MC_DeleteAfterOk.cfg` | violation | Spec 8.4 is broken: the watcher deletes a pod after `wait()` returned Ok. |
| panic_leaks_pod | `MC_PanicLeaksPod.cfg` | violation | The watcher's panic in `err_image_pull` leaves the pod alive after every daemon has ended. |
| aim_import | `MC_AimImport.cfg` | pass | The namespace is destroyed unless a temporary image was orphaned. The `images ls` fault and two-image tarballs are excluded; they are `aim_namespace_leak`. |
| aim_namespace_leak | `MC_AimNamespaceLeak.cfg` | violation | A tarball with two images fails the `images ls` parse, and the namespace and its images are orphaned. |
| minikube_list_race | `MC_MinikubeListRace.cfg` | violation | A Minikube list that overlaps an uninstall reports the deleted tag with the digest of the 404 body. |
| minikube_uninstall_false_ok | `MC_MinikubeUninstallOk.cfg` | violation | A 5xx answer to the manifest GET of a Minikube uninstall is hashed as the digest. The DELETE of that digest gets 404, which counts as Ok, and the tag stays. |
| names_truncate_panic | `MC_NamesPanic.cfg` | violation | A deploy name of 53 ASCII letters and one two-byte letter makes `rfc1123_subdomain` panic in `truncate(54)`. |

### The properties

**ACM safety:**
- **`WaitReportsFirstVerdict`.** Every verdict `wait()` returns is the first result the watcher sent.
- **`WaitMemoised`.** After Ok, every later `wait()` returns Ok. After an error, it returns PhantomError.
- **`GcSignalOrder`.** The collector's messages are a prefix of Running, Terminated, or Terminated alone. Terminated alone comes from a phase-1 failure. Spec 8.2 rules it out; see the findings.
- **`NoOrphanWhenDaemonsDone`.** Once the watcher and the collector have returned, the pod is gone.

**ACM liveness:**
- **`WaitReturns`.** Every `wait()` returns.
- **`RefreshReturns`.** Every `refresh()` a handler starts (POST /refresh, or the one GET /wait makes after Ok) returns and releases the PodManager's mutex, even when the collector ends with the request still buffered: dropping its refresh receiver drops the oneshot sender, and `rx.await` fails with RefreshChannelClosed.
- **`PodEventuallyDeleted`.** The pod is eventually deleted, unless the watcher panicked (that leak is `panic_leaks_pod`).
- **`ManagerEventuallyReaped`.** The registry entry is eventually removed.

**ACM refinement:**
- **`LeaseRefinement`.** Each step of the collector, and each other deletion of the pod, is a `Lease` step:
  - a refresh grants exactly the new deadline;
  - only expiry ends a lease by deleting the pod;
  - a release from an active lease on a live pod follows Terminated;
  - an active lease does not last forever.

**AIM:**
- **`NamespaceEventuallyDestroyed`.** The namespace is eventually removed, unless some temporary image's task was orphaned. This is the exception the `Namespace` doc comment makes.

**Registry:**
- **`UninstallOkMeansGone`.** An Ok uninstall means the tag had no manifest at some moment while the request ran. `registry/mod.rs:97-98` promises this. On Minikube it is violated (`minikube_uninstall_false_ok`).
- **`ListedImagesReal`.** Every pair a list or get returns was in the registry while it ran. On Minikube it is violated (`minikube_list_race`).

Both registry properties are checked only in violation runs. The twelve-run budget has no slot for a passing ECR run, so the ECR backend's actions are modelled but no passing run checks them.

Each property of a passing run has a mutant in `PROJECT.json`: a plausible bug in the mapped code, with which TLC finds the property violated. Examples:
- a `let keep_alive` that shadows the ticket (`LeaseRefinement`: the countdown no longer enforces the granted deadline);
- `terminate` without `kill_pod`;
- a reaper that unwraps the join result;
- a collector that keeps its refresh receiver alive after a Terminated return;
- a namespace task that does not retry.

### Bounds

**safety:**
- `BackoffLimit = 1` and `MaxStreamErrors = 2`, so both the retry and the give-up happen, in each phase.
- `MaxResyncs = 1`.
- `MaxHcAttempts = 1`: one failed connect, then a retry.
- `MaxHttpCalls = 2`: a `wait` followed by a `refresh`, or two refreshes.
- `ApiFaults = {}`: a delete fails only with a 404 on a pod that is already gone.

With `ApiFaults = {"delete"}`, `NoOrphanWhenDaemonsDone` is violated at once (`kill_pod` ignores the result). That run is not kept; the hazard entry records it.

**liveness:**
- No stream errors and `MaxResyncs = 0`, to keep the fairness checking near one minute.
- `BareImagePull = TRUE`, so the watcher's panic can happen.
- Two HTTP calls, so a refresh can race the panic and the deadline.

**aim_import:**
- The import, tag, login, push and image-remove commands may fail.
- A tarball holds zero or one image. Zero fails the parse with nothing to clean up.
- `MaxRemoveAttempts = 3` lets a removal retry twice before its budget runs out.
- Excluded: the `images ls` fault (`CtrFaults` has no "ls") and two-image tarballs (`TarballImages = {0, 1}`). Each of them leaks the namespace, so `NamespaceEventuallyDestroyed` fails. `aim_namespace_leak` shows this, and the finding records it.

**minikube_uninstall_false_ok:** Minikube only, two clients, two tags, one content, registry faults on. One client alone reaches the counterexample in seven states: install, uninstall begins, tags/list, a 5xx manifest GET, the DELETE, Ok.

Every action, and every disjunct of every next-state relation, fires in some passing run.

**names_truncate_panic:** `RunLengths = {53}` and `TailLength = 1`: 53 letters put byte 54 inside a following two-byte letter. Without the two-byte letter (runs of 0 to 60 letters, tails of up to two ASCII characters or emoji), every name is a valid label, as the fuzz test asserts for ASCII input.

**Violation runs:** the smallest bounds that reach the counterexample.

## 5. Fairness

**ACM.** Tokio schedules every ready task, and timers do expire. So:
- every step of the watcher, collector, checker and shim is weakly fair;
- so are the collector's deadline, the checker's budget, the shim's patience, the insert, the reaper and the return of an HTTP handler.

The watcher's stream errors are not fair, and neither are the environment's changes or the client's calls. `Spec` also assumes the kubelet moves a pod out of Pending. `SpecPendingMayStall` leaves that out, for the pending run.

**AIM workflow.** The handler's steps, the removal tasks and containerd's GC are weakly fair: each is a spawned tokio task or containerd's own loop. A failing command is not fair.

`BudgetMayRunOut` lets the namespace's budget end only after every image task has ended and the GC has run. All budgets are the same 15 minutes, and the namespace's task is spawned last.

**Registry.** Its runs are safety violations, so no fairness is assumed.

## 6. Findings

The full text is in `PROJECT.json`.

**Code bugs:**
- **The watcher's panic leaks the pod** (`panic_leaks_pod`). The armed collector reads the closed status channel as a reason to stop.
- **A namespace leaks after a failed `images ls` parse** (`aim_namespace_leak`). No `TmpImage` owns the imported images yet.
- **A Minikube list can report a fabricated digest** for a tag deleted mid-list (`minikube_list_race`).
- **A Minikube uninstall can answer Ok and leave the tag** (`minikube_uninstall_false_ok`). A 5xx body is hashed as the digest (`minikube/mod.rs:87`), and the DELETE's 404 counts as Ok.
- **`rfc1123_subdomain` panics on a multi-byte letter at byte 54** (`names_truncate_panic`). It keeps every Unicode alphanumeric but truncates in bytes, and `String::truncate` panics off a character boundary. Non-ASCII letters also survive into the pod name, which Kubernetes rejects.

**Spec divergences:**
- the pending pod;
- the patch failure;
- Terminated before Running (`GcSignalOrder` allows it);
- a refresh after a delete;
- a delete after Ok.

## 7. Not modelled

- **`adoption.rs`, and ACM restarts.** `find_orphans` is a stub that nothing calls. The manager registry and its tasks live only in memory, so after a restart nothing deletes a deployed pod; a crash action would violate `PodEventuallyDeleted` at once and shows nothing more. spec.md makes this a non-goal ("loss of the controller process is equivalent to losing every lease"). The hazard list records it.
- **Several registry ids in the ACM**, and an id reused while its reaper is pending (spec section 9). The model has one pod manager; several would multiply the composed daemons' state space past what a run can check. The reuse is listed as a hazard: a long deploy name keeps only 8 hex digits of the UUID (case 3b in `Names`), and a stale reaper removes the new manager's entry.
- **`Implementation::configure` in the AIM.** It runs once at startup and panics on an unknown `IMPLEMENTATION` or a failed `aws configure`. A failure stops the service before it serves a request.
- **The env getters.**
- **An unreachable Minikube registry** (the panic in `send().unwrap()`). An error status from a reachable registry is modelled.
- **ECR's `list-images` on an untagged image.** The image has no `imageTag`, so deserialising it fails. The AIM never creates such an image, because its tags are fresh.
- **The error, response, kind and httpcode crates and their derives, and term_colors.** They are data conversion with no state.
- **Log streaming in the k8s client, `servicer`, `dns`, `port`, `terminated_reason` and `terminated_message`.** These only feed log lines and labels.
- **Formatting.** The HTTP envelope, labels and log text are left out, because no property is about them.
- **Faults on namespace removal (`rmns`) in the passing AIM run.** With them, the namespace's budget may run out and the liveness property becomes false for a reason the code accepts.
