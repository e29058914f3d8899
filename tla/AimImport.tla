----------------------------- MODULE AimImport -----------------------------
(***************************************************************************)
(* POST /install of the AIM (registry::containerd::import): one uploaded   *)
(* image tarball runs import -> retag -> push in a fresh containerd        *)
(* namespace.  Every intermediate image is owned by a TmpImage and the     *)
(* namespace by a Namespace; dropping either spawns a background task that *)
(* retries `ctr ... remove` with an ExponentialBackoff until it succeeds   *)
(* or the backoff's budget is spent (the object is then orphaned).  The   *)
(* drops happen as the handler's values go out of scope, so the cleanup    *)
(* tasks run concurrently with one another: containerd refuses to remove  *)
(* a namespace that still holds an image.                                  *)
(***************************************************************************)
EXTENDS Naturals, FiniteSets, FiniteSetsExt

CONSTANTS
    CtrFaults,         \* subset of {"import", "ls", "tag", "login", "push", "rmi", "rmns"}:
                       \* ctr (and aws) invocations that may exit non-zero;
                       \* login: aws ecr get-login-password,
                       \* rmi: images remove, rmns: namespace remove
    TarballImages,     \* the numbers of images an uploaded tarball may hold
    MaxRemoveAttempts  \* failed removals before the backoff's budget is spent

ASSUME /\ CtrFaults \subseteq {"import", "ls", "tag", "login", "push", "rmi", "rmns"}
       /\ TarballImages \subseteq 0..2
       /\ MaxRemoveAttempts \in Nat \ {0}

(* The tarball's images, and the reference retag creates.                  *)
TarballRefs == <<"orig", "extra">>
Refs == {"orig", "extra", "new"}
Tasks == Refs \cup {"ns"}

(* os::process::exec: a command fails (FailedToSpawn, FailedToRun,         *)
(* CommandFailed on a non-zero exit, InvalidUTF8 output) or returns its    *)
(* stdout; which commands may fail is the model's fault set.               *)
CommandMayFail(cmd) == cmd \in CtrFaults

VARIABLES
    phase,     \* the handler: "import", "ls", "tag", "push", "done"
    resp,      \* the response: "none", "ok", "err"
    images,    \* image records in the namespace
    nsExists,  \* the containerd namespace exists
    content,   \* blobs in the namespace, until containerd's GC collects them
    tmp,       \* references owned by a live TmpImage
    cleaner,   \* per drop task: "none", "trying", "ok", "orphaned"
    tries      \* per drop task: failed removals so far

vars == <<phase, resp, images, nsExists, content, tmp, cleaner, tries>>

Init ==
    /\ phase = "import"
    /\ resp = "none"
    /\ images = {}
    /\ nsExists = FALSE
    /\ content = FALSE
    /\ tmp = {}
    /\ cleaner = [t \in Tasks |-> "none"]
    /\ tries = [t \in Tasks |-> 0]

(* Drop of the TmpImages (and the Namespace) in ts: each spawns its task.  *)
Spawn(ts) == cleaner' = [t \in Tasks |-> IF t \in ts THEN "trying" ELSE cleaner[t]]

(* The handler returns: the Namespace, the last value in scope, drops.     *)
Respond(r, owned) ==
    /\ phase' = "done"
    /\ resp' = r
    /\ tmp' = {}
    /\ Spawn(owned \cup {"ns"})

(* extract_image_metadata_from_str on `ctr images ls` output of `lines`    *)
(* lines (after trim_end): a header and exactly one row, or an error.      *)
ExtractImageMetadata(lines) ==
    CASE lines = 2 -> "Ok"
      [] lines = 1 -> "NoData"
      [] OTHER     -> "UnexpectedContainerdImageLsFormat"

---------------------------------------------------------------------------
(* The handler: Import::import_path, Retag::retag, Push::push.             *)

(* ctr -n <ns> images import --no-unpack <path>.  A failed import may or   *)
(* may not have created the namespace before it exited.                   *)
CtrImport ==
    /\ phase = "import"
    /\ \/ \E n \in TarballImages :
             /\ images' = {TarballRefs[i] : i \in 1..n}
             /\ nsExists' = TRUE
             /\ content' = TRUE
             /\ phase' = "ls"
             /\ UNCHANGED <<resp, tmp, cleaner>>
       \/ /\ CommandMayFail("import")
          /\ nsExists' \in BOOLEAN
          /\ content' = nsExists'
          /\ Respond("err", {})
          /\ UNCHANGED images
    /\ UNCHANGED tries

(* ctr -n <ns> images ls, parsed: the single row becomes the first         *)
(* TmpImage; a failed command or any other output is an error, returned    *)
(* with the imported images owned by nobody.                               *)
CtrImagesLs ==
    /\ phase = "ls"
    /\ \E result \in {ExtractImageMetadata(1 + Cardinality(images))}
                    \cup (IF CommandMayFail("ls") THEN {"CommandFailed"} ELSE {}) :
          IF result = "Ok" THEN tmp' = images /\ phase' = "tag" /\ UNCHANGED <<resp, cleaner>>
                           ELSE Respond("err", {})
    /\ UNCHANGED <<images, nsExists, content, tries>>

(* ctr -n <ns> images tag <orig> <registry>/<repository>:<new tag>: the    *)
(* Push owns a TmpImage of the new reference; retag(self) returns and the *)
(* original TmpImage drops.  On an error the original drops, then the      *)
(* namespace.                                                              *)
CtrTag ==
    /\ phase = "tag"
    /\ \/ /\ images' = images \cup {"new"}
          /\ tmp' = {"new"}
          /\ Spawn(tmp)
          /\ phase' = "push"
          /\ UNCHANGED resp
       \/ /\ CommandMayFail("tag")
          /\ Respond("err", tmp)
          /\ UNCHANGED images
    /\ UNCHANGED <<nsExists, content, tries>>

(* ecr::get_credentials: the ECR push first asks aws for the current      *)
(* login password, a command of its own that may fail before ctr runs.    *)
GetCredentialsMayFail == CommandMayFail("login")

(* ctr images push (ECR credentials from aws ecr get-login-password, or    *)
(* --plain-http for Minikube).  Either way the new TmpImage drops: into()  *)
(* consumes it on success, `?` drops the Push on failure.                  *)
CtrPush ==
    /\ phase = "push"
    /\ \/ Respond("ok", tmp)
       \/ /\ GetCredentialsMayFail \/ CommandMayFail("push")
          /\ Respond("err", tmp)
    /\ UNCHANGED <<images, nsExists, content, tries>>

---------------------------------------------------------------------------
(* The drop tasks (TmpImage::drop, Namespace::drop): loop { ctr remove;   *)
(* next_backoff() }.  An Err with a pause left sleeps and retries; an Err  *)
(* with the budget spent logs "may be orphaned" and returns.  All tasks    *)
(* have the same 15-minute budget and the namespace's task is spawned      *)
(* last, so its budget runs out only after the image tasks have ended and  *)
(* containerd's garbage collector (milliseconds) has done its work.        *)

BudgetMayRunOut(t) ==
    t = "ns" => /\ \A r \in Refs : cleaner[r] \in {"none", "ok", "orphaned"}
                /\ ~(content /\ images = {})

(* The backoff's elapsed time only grows: after MaxRemoveAttempts failures *)
(* next_backoff() returns None and the task logs the object as orphaned.   *)
RemoveFailed(t) ==
    /\ \/ /\ tries[t] + 1 < MaxRemoveAttempts \/ ~BudgetMayRunOut(t)
          /\ tries' = [tries EXCEPT ![t] = Min({tries[t] + 1, MaxRemoveAttempts})]
          /\ UNCHANGED cleaner
       \/ /\ tries[t] + 1 >= MaxRemoveAttempts /\ BudgetMayRunOut(t)
          /\ cleaner' = [cleaner EXCEPT ![t] = "orphaned"]
          /\ UNCHANGED tries

(* ctr -n <ns> images remove <ref>: a reference already gone is reported   *)
(* as not found, and the command still succeeds.                           *)
RemoveImage(r) ==
    /\ cleaner[r] = "trying"
    /\ \/ /\ images' = images \ {r}
          /\ cleaner' = [cleaner EXCEPT ![r] = "ok"]
          /\ UNCHANGED tries
       \/ /\ CommandMayFail("rmi")
          /\ RemoveFailed(r)
          /\ UNCHANGED images
    /\ UNCHANGED <<phase, resp, nsExists, content, tmp>>

(* Mutant: the namespace is removed once, without the backoff's retries.   *)
RemoveNamespaceOnce ==
    /\ cleaner["ns"] = "trying"
    /\ \/ /\ nsExists /\ images = {} /\ ~content
          /\ nsExists' = FALSE
          /\ cleaner' = [cleaner EXCEPT !["ns"] = "ok"]
       \/ /\ ~nsExists \/ images # {} \/ content \/ CommandMayFail("rmns")
          /\ cleaner' = [cleaner EXCEPT !["ns"] = "orphaned"]
          /\ UNCHANGED nsExists
    /\ UNCHANGED <<phase, resp, images, content, tmp, tries>>

(* ctr namespace remove <ns>: fails while the namespace holds an image or  *)
(* content, or when it was never created.                                  *)
RemoveNamespace ==
    /\ cleaner["ns"] = "trying"
    /\ \/ /\ nsExists /\ images = {} /\ ~content
          /\ nsExists' = FALSE
          /\ cleaner' = [cleaner EXCEPT !["ns"] = "ok"]
          /\ UNCHANGED tries
       \/ /\ ~nsExists \/ images # {} \/ content \/ CommandMayFail("rmns")
          /\ RemoveFailed("ns")
          /\ UNCHANGED nsExists
    /\ UNCHANGED <<phase, resp, images, content, tmp>>

(* containerd's garbage collector removes the blobs no image references    *)
(* any more, some time after the last image delete.                        *)
ContainerdGc ==
    /\ content /\ images = {}
    /\ content' = FALSE
    /\ UNCHANGED <<phase, resp, images, nsExists, tmp, cleaner, tries>>

(* The request has been answered and every drop task has returned.         *)
Quiescent ==
    /\ phase = "done"
    /\ \A t \in Tasks : cleaner[t] # "trying"

Finished == Quiescent /\ UNCHANGED vars

Next ==
    \/ CtrImport
    \/ CtrImagesLs
    \/ CtrTag
    \/ CtrPush
    \/ \E r \in Refs : RemoveImage(r)
    \/ RemoveNamespace
    \/ ContainerdGc
    \/ Finished

(* Tokio runs every spawned task and every ctr process exits.              *)
Spec ==
    /\ Init /\ [][Next]_vars
    /\ WF_vars(CtrImport) /\ WF_vars(CtrImagesLs)
    /\ WF_vars(CtrTag) /\ WF_vars(CtrPush)
    /\ \A r \in Refs : WF_vars(RemoveImage(r))
    /\ WF_vars(RemoveNamespace) /\ WF_vars(ContainerdGc)

---------------------------------------------------------------------------
TypeOK ==
    /\ phase \in {"import", "ls", "tag", "push", "done"}
    /\ resp \in {"none", "ok", "err"}
    /\ images \subseteq Refs
    /\ nsExists \in BOOLEAN
    /\ content \in BOOLEAN
    /\ tmp \subseteq Refs
    /\ cleaner \in [Tasks -> {"none", "trying", "ok", "orphaned"}]
    /\ tries \in [Tasks -> 0..MaxRemoveAttempts]

(* The Namespace doc comment: its drop "guarantees that it is always       *)
(* destroyed upon the exit of the import workflow", the exception being    *)
(* temporary images that TmpImage::drop could not destroy.                 *)
NamespaceEventuallyDestroyed ==
    <>[](/\ phase = "done"
         /\ ~nsExists \/ \E r \in Refs : cleaner[r] = "orphaned")

=============================================================================
