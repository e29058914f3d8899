--------------------------- MODULE HealthChecker ---------------------------
(***************************************************************************)
(* ServerCheck::check (server_check.rs): the gRPC readiness prober the     *)
(* event watcher spawns in its phase 2.  It loops over an exponential      *)
(* backoff capped at MAXIMUM_POLLING_TIME, sleeping and then connecting    *)
(* with the remaining patience, and reports exactly one of Ok,             *)
(* TooManyFailures and NotReady on a oneshot, or nothing when cancelled    *)
(* through its sigint oneshot.  Time is abstracted to one event: the 30 s  *)
(* budget has elapsed (hcOver).                                            *)
(***************************************************************************)
EXTENDS Naturals

CONSTANT MaxHcAttempts  \* failed connects before the budget must run out

ASSUME MaxHcAttempts \in Nat \ {0}

VARIABLES
    hc,         \* "idle" (not spawned), "top", "sleep", "connect", "done"
    hcLastErr,  \* latest_error is Some
    hcOver,     \* elapsed time has passed MAXIMUM_POLLING_TIME
    hcAttempts, \* failed connection attempts so far
    hcOut,      \* the result oneshot: "none" or the value sent
    hcSigint    \* the sigint oneshot has been sent by ServerCheck::kill

hcVars == <<hc, hcLastErr, hcOver, hcAttempts, hcOut, hcSigint>>

HcResults == {"Ok", "TooManyFailures", "NotReady"}

HcInit ==
    /\ hc = "idle"
    /\ hcLastErr = FALSE
    /\ hcOver = FALSE
    /\ hcAttempts = 0
    /\ hcOut = "none"
    /\ hcSigint = FALSE

HcTypeOK ==
    /\ hc \in {"idle", "top", "sleep", "connect", "done"}
    /\ hcLastErr \in BOOLEAN
    /\ hcOver \in BOOLEAN
    /\ hcAttempts \in 0..MaxHcAttempts
    /\ hcOut \in HcResults \cup {"none"}
    /\ hcSigint \in BOOLEAN

(* Top of the loop: next_backoff() is None once the budget is spent; the   *)
(* checker then reports TooManyFailures carrying latest_error.unwrap().    *)
HcNextBackoff ==
    /\ hc = "top"
    /\ \/ /\ hcOver
          /\ hcLastErr
          /\ hcOut' = "TooManyFailures"
          /\ hc' = "done"
       \/ /\ ~hcOver
          /\ hc' = "sleep"
          /\ UNCHANGED hcOut
    /\ UNCHANGED <<hcLastErr, hcOver, hcAttempts, hcSigint>>

(* select! { wait => (), sigint => return }: the backoff sleep ends.       *)
HcSleepDone ==
    /\ hc = "sleep"
    /\ hc' = "connect"
    /\ UNCHANGED <<hcLastErr, hcOver, hcAttempts, hcOut, hcSigint>>

(* HealthClient::connect answers: Ok ends the check, Err is recorded as    *)
(* latest_error and the loop continues.                                    *)
HcConnect ==
    /\ hc = "connect"
    /\ \/ /\ hcOut' = "Ok"
          /\ hc' = "done"
          /\ UNCHANGED <<hcLastErr, hcAttempts>>
       \/ /\ hcAttempts < MaxHcAttempts
          /\ hcLastErr' = TRUE
          /\ hcAttempts' = hcAttempts + 1
          /\ hc' = "top"
          /\ UNCHANGED hcOut
    /\ UNCHANGED <<hcOver, hcSigint>>

(* The patience timer (budget minus elapsed) fires before the handshake    *)
(* completes: a slow-loris server is reported NotReady.                    *)
HcPatience ==
    /\ hc = "connect"
    /\ hcOver
    /\ hcOut' = "NotReady"
    /\ hc' = "done"
    /\ UNCHANGED <<hcLastErr, hcOver, hcAttempts, hcSigint>>

(* The sigint branch of either select!: exit without reporting.            *)
HcCancelled ==
    /\ hc \in {"sleep", "connect"}
    /\ hcSigint
    /\ hc' = "done"
    /\ UNCHANGED <<hcLastErr, hcOver, hcAttempts, hcOut, hcSigint>>

(* Wall-clock time passes MAXIMUM_POLLING_TIME while the checker sleeps or *)
(* connects.                                                               *)
HcBudgetElapses ==
    /\ hc \in {"sleep", "connect"}
    /\ ~hcOver
    /\ hcOver' = TRUE
    /\ UNCHANGED <<hc, hcLastErr, hcAttempts, hcOut, hcSigint>>

HcNext ==
    \/ HcNextBackoff
    \/ HcSleepDone
    \/ HcConnect
    \/ HcPatience
    \/ HcCancelled
    \/ HcBudgetElapses

=============================================================================
