------------------------------ MODULE Registry ------------------------------
(***************************************************************************)
(* The AIM's registry API (registry/mod.rs) and its two backends, under   *)
(* concurrent HTTP clients.  The image registry is a map from tag to       *)
(* digest.  POST /install pushes a fresh tag (names::rfc1035_label) and    *)
(* is modelled in AimImport; here it is the manifest PUT that makes the    *)
(* tag visible.  DELETE /uninstall, GET /list and GET /get are sequences   *)
(* of registry calls:                                                      *)
(*   ECR       one `aws ecr` command per request (list-images, or          *)
(*             batch-delete-image by tag);                                 *)
(*   Minikube  HTTP to the docker registry: tags/list, then one manifest   *)
(*             GET per tag, whose body is hashed without a status check;   *)
(*             uninstall lists, then DELETEs the manifest by digest.       *)
(* Other requests interleave between the calls of a Minikube request.      *)
(***************************************************************************)
EXTENDS FiniteSets

CONSTANTS
    Backends,        \* implementations the environment may name
    Clients,         \* concurrent HTTP requests
    Tags,            \* tag names an install may generate
    Contents,        \* image contents; the digest of a content is itself
    NoImage,         \* a tag with no manifest
    ErrBody,         \* the digest of a registry error body
    RegistryFaults   \* whether a registry call may fail (5xx, failure code)

ASSUME /\ Backends \subseteq {"ecr", "minikube"}
       /\ NoImage \notin Contents /\ ErrBody \notin Contents
       /\ RegistryFaults \in BOOLEAN

VARIABLES
    backend,    \* Implementation::which(), fixed at startup
    reg,        \* tag -> digest, or NoImage
    installed,  \* tags an install has pushed (generated tags are fresh)
    op,         \* per client: the request, "none" when idle
    arg,        \* per client: the tag of an uninstall or a get
    pc,         \* per client: "idle", "call", "tags", "manifests", "delete", "done"
    todo,       \* per client: tags of tags/list whose manifest is not yet fetched
    out,        \* per client: the <<tag, digest>> pairs collected
    res,        \* per client: "none", "ok", "err", "notFound"
    seen        \* per client: every <<tag, digest or NoImage>> pair the
                \* registry held while the request ran (history)

vars == <<backend, reg, installed, op, arg, pc, todo, out, res, seen>>
clientVars == <<op, arg, pc, todo, out, res>>

Pairs(r) == {<<t, r[t]>> : t \in Tags}

(* The images a registry holds, as list-images reports them (imageIds, each *)
(* turned into an Image of its tag and digest).                            *)
Present(r) == {p \in Pairs(r) : p[2] # NoImage}

(* Implementation::which() reads IMPLEMENTATION once per call; the value   *)
(* does not change while the service runs (any other value panics at the  *)
(* configure() of startup, before a request is served).                    *)
Init ==
    /\ backend \in Backends
    /\ reg = [t \in Tags |-> NoImage]
    /\ installed = {}
    /\ op = [c \in Clients |-> "none"]
    /\ arg = [c \in Clients |-> NoImage]
    /\ pc = [c \in Clients |-> "idle"]
    /\ todo = [c \in Clients |-> {}]
    /\ out = [c \in Clients |-> {}]
    /\ res = [c \in Clients |-> "none"]
    /\ seen = [c \in Clients |-> {}]

(* The registry's contents change to r; every request in flight sees it.   *)
SetReg(r) ==
    /\ reg' = r
    /\ seen' = [c \in Clients |->
                  IF pc[c] = "idle" THEN seen[c] ELSE seen[c] \cup Pairs(r)]

Finish(c, r) ==
    /\ pc' = [pc EXCEPT ![c] = "done"]
    /\ res' = [res EXCEPT ![c] = r]

(* registry::get maps a None from the backend to a TagNotFound error; list *)
(* and uninstall pass the backend's Ok through.                            *)
Answer(c, found) ==
    Finish(c, IF op[c] = "get" /\ found = {} THEN "notFound" ELSE "ok")

(* names::rfc1035_label: a random 128-bit UUID whose first character is    *)
(* forced to a letter; a repeat is taken to be impossible.                 *)
FreshTags == Tags \ installed

---------------------------------------------------------------------------
(* main.rs install -> registry::import: the push of a fresh tag.           *)
Install(c) ==
    /\ pc[c] = "idle"
    /\ \E t \in FreshTags, x \in Contents :
          /\ SetReg([reg EXCEPT ![t] = x])
          /\ installed' = installed \cup {t}
    /\ UNCHANGED clientVars

(* A request arrives: main.rs uninstall, list or get, then configure() and *)
(* the dispatch on Implementation::which().                                *)
Begin(c) ==
    /\ pc[c] = "idle"
    /\ \E o \in {"uninstall", "list", "get"}, t \in Tags :
          /\ op' = [op EXCEPT ![c] = o]
          /\ arg' = [arg EXCEPT ![c] = IF o = "list" THEN NoImage ELSE t]
          /\ pc' = [pc EXCEPT ![c] =
                      IF backend = "minikube" /\ o # "get" THEN "tags" ELSE "call"]
    /\ out' = [out EXCEPT ![c] = {}]
    /\ res' = [res EXCEPT ![c] = "none"]
    /\ seen' = [seen EXCEPT ![c] = Pairs(reg)]
    /\ UNCHANGED <<reg, installed, todo>>

(* The response has been written; the client may send another request.     *)
Return(c) ==
    /\ pc[c] = "done"
    /\ pc' = [pc EXCEPT ![c] = "idle"]
    /\ op' = [op EXCEPT ![c] = "none"]
    /\ UNCHANGED <<reg, installed, arg, todo, out, res, seen>>

---------------------------------------------------------------------------
(* ecr::list (and ecr::get, which is list then find): one list-images     *)
(* command; a failing command is an error.                                 *)
EcrList(c) ==
    /\ backend = "ecr" /\ pc[c] = "call" /\ op[c] \in {"list", "get"}
    /\ \/ LET found == {p \in Present(reg) : op[c] = "list" \/ p[1] = arg[c]}
          IN  out' = [out EXCEPT ![c] = found] /\ Answer(c, found)
       \/ RegistryFaults /\ Finish(c, "err") /\ UNCHANGED out
    /\ UNCHANGED <<reg, installed, op, arg, todo, seen>>

(* ecr::uninstall: batch-delete-image --image-ids imageTag=<tag> removes   *)
(* that tag only (ImageNotFound when it is absent, which is success).  A   *)
(* failing command, or another failure code, is an error.                  *)
EcrUninstall(c) ==
    /\ backend = "ecr" /\ pc[c] = "call" /\ op[c] = "uninstall"
    /\ \/ SetReg([reg EXCEPT ![arg[c]] = NoImage]) /\ Finish(c, "ok")
       \/ RegistryFaults /\ Finish(c, "err") /\ UNCHANGED <<reg, seen>>
    /\ UNCHANGED <<installed, op, arg, todo, out>>

---------------------------------------------------------------------------
(* minikube::list, first call: GET /v2/<repository>/tags/list.  A 404 (no *)
(* repository yet) is an empty list; the body of any other error fails    *)
(* the json().unwrap() and the handler panics (a 500).                     *)
MkTagsList(c) ==
    /\ backend = "minikube" /\ pc[c] = "tags"
    /\ \/ /\ todo' = [todo EXCEPT ![c] = {t \in Tags : reg[t] # NoImage}]
          /\ pc' = [pc EXCEPT ![c] = "manifests"]
          /\ UNCHANGED res
       \/ RegistryFaults /\ Finish(c, "err") /\ UNCHANGED todo
    /\ UNCHANGED <<reg, installed, op, arg, out, seen>>

(* One GET /v2/<repository>/manifests/<tag> of the loop: the body is       *)
(* hashed whatever the status.  A tag deleted since tags/list is listed    *)
(* with the digest of the registry's 404 body, and a 5xx body is hashed    *)
(* in place of the manifest of a tag that exists.                          *)
MkManifest(c) ==
    /\ backend = "minikube" /\ pc[c] = "manifests"
    /\ \E t \in todo[c] :
          \E d \in {IF reg[t] = NoImage THEN ErrBody ELSE reg[t]}
                   \cup (IF RegistryFaults THEN {ErrBody} ELSE {}) :
             /\ todo' = [todo EXCEPT ![c] = @ \ {t}]
             /\ out' = [out EXCEPT ![c] = @ \cup {<<t, d>>}]
    /\ UNCHANGED <<reg, installed, op, arg, pc, res, seen>>

(* The loop is over: list returns its images; uninstall looks for its tag  *)
(* and returns Ok when it is not listed.                                    *)
MkListed(c) ==
    /\ backend = "minikube" /\ pc[c] = "manifests" /\ todo[c] = {}
    /\ IF op[c] = "uninstall" /\ \E p \in out[c] : p[1] = arg[c]
          THEN pc' = [pc EXCEPT ![c] = "delete"] /\ UNCHANGED res
          ELSE Finish(c, "ok")
    /\ UNCHANGED <<reg, installed, op, arg, todo, out, seen>>

(* The digest minikube::uninstall found for its tag.                        *)
FoundDigest(c) == (CHOOSE p \in out[c] : p[1] = arg[c])[2]

(* DELETE /v2/<repository>/manifests/<digest>: every tag of that digest    *)
(* goes.  202 and 404 are Ok, any other status an ImageDeleteError.        *)
MkDelete(c) ==
    /\ backend = "minikube" /\ pc[c] = "delete"
    /\ \/ SetReg([t \in Tags |->
                    IF reg[t] = FoundDigest(c) THEN NoImage ELSE reg[t]])
          /\ Finish(c, "ok")
       \/ RegistryFaults /\ Finish(c, "err") /\ UNCHANGED <<reg, seen>>
    /\ UNCHANGED <<installed, op, arg, todo, out>>

(* minikube::get: one manifest GET; 404 is None, and any other status      *)
(* (a 5xx) is hashed as if it were the manifest.                            *)
MkGet(c) ==
    /\ backend = "minikube" /\ pc[c] = "call" /\ op[c] = "get"
    /\ \E found \in {IF reg[arg[c]] = NoImage THEN {} ELSE {<<arg[c], reg[arg[c]]>>}}
                    \cup (IF RegistryFaults THEN {{<<arg[c], ErrBody>>}} ELSE {}) :
          out' = [out EXCEPT ![c] = found] /\ Answer(c, found)
    /\ UNCHANGED <<reg, installed, op, arg, todo, seen>>

Next ==
    /\ UNCHANGED backend
    /\ \E c \in Clients :
          \/ Install(c) \/ Begin(c) \/ Return(c)
          \/ EcrList(c) \/ EcrUninstall(c)
          \/ MkTagsList(c) \/ MkManifest(c) \/ MkListed(c) \/ MkDelete(c)
          \/ MkGet(c)

Spec == Init /\ [][Next]_vars

---------------------------------------------------------------------------
TypeOK ==
    /\ backend \in Backends
    /\ reg \in [Tags -> Contents \cup {NoImage}]
    /\ installed \subseteq Tags
    /\ op \in [Clients -> {"none", "uninstall", "list", "get"}]
    /\ arg \in [Clients -> Tags \cup {NoImage}]
    /\ pc \in [Clients -> {"idle", "call", "tags", "manifests", "delete", "done"}]
    /\ todo \in [Clients -> SUBSET Tags]
    /\ \A c \in Clients :
          /\ out[c] \subseteq Tags \X (Contents \cup {ErrBody})
          /\ seen[c] \subseteq Tags \X (Contents \cup {NoImage})
    /\ res \in [Clients -> {"none", "ok", "err", "notFound"}]

(* An uninstall that answers Ok leaves its tag absent: at some moment      *)
(* while the request ran the registry held no manifest under the tag.      *)
(* registry::uninstall (mod.rs:97-98) and main.rs promise that it removes  *)
(* the tag, and "silently succeeds" only when no such tag exists.          *)
UninstallOkMeansGone ==
    \A c \in Clients :
        pc[c] = "done" /\ op[c] = "uninstall" /\ res[c] = "ok"
            => <<arg[c], NoImage>> \in seen[c]

(* list (and get) return "all unique tag:digest pairs installed to the     *)
(* registry": every pair in an answer was in the registry at some moment  *)
(* while the request ran.                                                   *)
ListedImagesReal ==
    \A c \in Clients :
        pc[c] = "done" /\ op[c] \in {"list", "get"} /\ res[c] = "ok"
            => out[c] \subseteq seen[c]

=============================================================================
