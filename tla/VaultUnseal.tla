---------------------------- MODULE VaultUnseal ----------------------------
(***************************************************************************)
(* The threshold unseal protocol of VaultClient.unseal (vault_client.py)   *)
(* and its two callers, run concurrently against one Vault server:         *)
(*                                                                         *)
(*  - Checkers: VaultOperatorV2.check_and_unseal_vault (operator_v2.py),   *)
(*    run by the create/update handlers and the 30s timer; it publishes a  *)
(*    VaultStatus.                                                         *)
(*  - Watchers: PodWatcher._handle_pod_event -> _attempt_unseal            *)
(*    (pod_watcher.py); it only logs the result.                           *)
(*                                                                         *)
(* All callers are asyncio tasks on one event loop.  Their only suspension *)
(* points are the HTTP requests run in the executor, so each action below  *)
(* is the code between two such requests, ending with the request and the  *)
(* state its response leaves behind.  The Vault server (not code of this   *)
(* repository) is the environment: it collects distinct key shares,        *)
(* combines them when VaultThreshold are present, resets its progress      *)
(* after every combine, and may be resealed at any time (pod restart,      *)
(* `vault operator seal`).  An HTTP request may fail; the urllib3 Retry    *)
(* policy of VaultClient.__init__ (total=3, PUT included) may apply a      *)
(* key submission up to Retries+1 times before one response, or an error,  *)
(* reaches the caller.                                                     *)
(***************************************************************************)
EXTENDS Naturals, FiniteSets, Sequences, SequencesExt

CONSTANTS
    KeyList,        \* the ordered unseal keys of the spec (model values)
    Threshold,      \* spec.threshold as validated by SecurityValidator
    GoodShares,     \* the keys that are real shares of this Vault
    Undecodable,    \* keys that pass validate_unseal_keys but fail the
                    \* strict b64decode(validate=True).decode("utf-8")
    Malformed,      \* keys that validate_unseal_keys rejects
    KeySource,      \* "secret" (inline) or "secretRef"
    VaultThreshold, \* the Vault's own Shamir threshold
    Retries,        \* Retry(total=3) of the requests session
    Checkers,       \* tasks running check_and_unseal_vault
    Watchers,       \* tasks running the pod watcher's unseal attempt
    MaxReseals      \* bound on environment reseals

ASSUME Threshold \in Nat /\ VaultThreshold \in Nat \ {0}
ASSUME KeySource \in {"secret", "secretRef"}
ASSUME Checkers \cap Watchers = {}

Callers == Checkers \cup Watchers
Keys == ToSet(KeyList)

VARIABLES
    vault,      \* the server: [sealed |-> BOOLEAN, parts |-> SUBSET Keys]
    reseals,    \* number of environment reseals so far
    pc,         \* per caller: "idle", "status" (awaiting get_seal_status
                \* before the loop) or "submit" (in the key loop)
    idx,        \* index of the next key of KeyList[:threshold] to submit
    outcome,    \* result of the caller's last completed call
    sawSealed,  \* history: is_sealed() of the current call returned True
    failed,     \* history: key submissions of the current call that failed
    resealed    \* history: the Vault was resealed during the current call

vars == <<vault, reseals, pc, idx, outcome, sawSealed, failed, resealed>>

Outcomes == {"none", "unsealed", "sealed", "error", "skipped"}

TypeOK ==
    /\ vault \in [sealed : BOOLEAN, parts : SUBSET Keys]
    /\ reseals \in 0..MaxReseals
    /\ pc \in [Callers -> {"idle", "status", "submit"}]
    /\ idx \in [Callers -> 1..(Threshold + 1)]
    /\ outcome \in [Callers -> Outcomes]
    /\ sawSealed \in [Callers -> BOOLEAN]
    /\ failed \in [Callers -> 0..Threshold]
    /\ resealed \in [Callers -> BOOLEAN]

(***************************************************************************)
(* The Vault server (environment).  A share already collected is ignored; *)
(* the VaultThreshold-th distinct share triggers the combine, which resets *)
(* the progress and unseals only if every collected share is genuine;     *)
(* a failed combine is answered with an error.                            *)
(***************************************************************************)
Combines(v, k) ==
    v.sealed /\ k \notin v.parts /\ Cardinality(v.parts \cup {k}) >= VaultThreshold

Rejects(v, k) == Combines(v, k) /\ ~((v.parts \cup {k}) \subseteq GoodShares)

Submit(v, k) ==
    IF ~v.sealed \/ k \in v.parts THEN v
    ELSE IF Combines(v, k)
         THEN [sealed |-> Rejects(v, k), parts |-> {}]
         ELSE [v EXCEPT !.parts = @ \cup {k}]

RECURSIVE SubmitTimes(_, _, _)
SubmitTimes(v, k, n) == IF n = 0 THEN v ELSE SubmitTimes(Submit(v, k), k, n - 1)

(***************************************************************************)
(* SecurityValidator.validate_unseal_keys and the precondition checks at  *)
(* the top of VaultClient.unseal: any failure raises before any request.  *)
(***************************************************************************)
UnsealInputValid ==
    /\ Len(KeyList) >= 1
    /\ Len(KeyList) <= 10
    /\ 1 <= Threshold /\ Threshold <= Len(KeyList)
    /\ Keys \cap Malformed = {}

\* check_and_unseal_vault's VaultStatus for each outcome of a call.
StatusOf(o) ==
    CASE o = "unsealed" -> [sealed |-> FALSE, lastUnsealed |-> TRUE, error |-> FALSE]
      [] o = "sealed"   -> [sealed |-> TRUE, lastUnsealed |-> FALSE, error |-> FALSE]
      [] OTHER          -> [sealed |-> TRUE, lastUnsealed |-> FALSE, error |-> TRUE]

Return(c, o) ==
    /\ pc' = [pc EXCEPT ![c] = "idle"]
    /\ outcome' = [outcome EXCEPT ![c] = o]

Init ==
    /\ vault \in {v \in [sealed : BOOLEAN, parts : SUBSET Keys] :
                    v.sealed \/ v.parts = {}}
    /\ Cardinality(vault.parts) < VaultThreshold
    /\ reseals = 0
    /\ pc = [c \in Callers |-> "idle"]
    /\ idx = [c \in Callers |-> 1]
    /\ outcome = [c \in Callers |-> "none"]
    /\ sawSealed = [c \in Callers |-> FALSE]
    /\ failed = [c \in Callers |-> 0]
    /\ resealed = [c \in Callers |-> FALSE]

(***************************************************************************)
(* A call starts with is_sealed() (check_and_unseal_vault, or             *)
(* _is_vault_pod_ready_and_sealed for a watcher).  A checker turns a       *)
(* failure into an error status and an unsealed answer into a success      *)
(* status; a watcher treats both as "not actionable" and attempts nothing. *)
(***************************************************************************)
StartCall(c) ==
    /\ pc[c] = "idle"
    /\ sawSealed' = [sawSealed EXCEPT ![c] = FALSE]
    /\ failed' = [failed EXCEPT ![c] = 0]
    /\ resealed' = [resealed EXCEPT ![c] = FALSE]
    /\ UNCHANGED <<vault, reseals, idx>>

IsSealedFails(c) ==
    /\ StartCall(c)
    /\ Return(c, IF c \in Checkers THEN "error" ELSE "skipped")

IsSealedFalse(c) ==
    /\ ~vault.sealed
    /\ StartCall(c)
    /\ Return(c, IF c \in Checkers THEN "unsealed" ELSE "skipped")

\* Mutant: the per-call error bookkeeping is not reset when a call starts.
IsSealedTrue_NoReset(c) ==
    /\ vault.sealed
    /\ pc[c] = "idle"
    /\ sawSealed' = [sawSealed EXCEPT ![c] = TRUE]
    /\ resealed' = [resealed EXCEPT ![c] = FALSE]
    /\ pc' = [pc EXCEPT ![c] = "status"]
    /\ UNCHANGED <<vault, reseals, idx, outcome, failed>>

\* Sealed: a checker fetches the keys (get_unseal_keys, which may raise for
\* a secretRef); then unseal() validates its input and sends
\* get_seal_status().
IsSealedTrue(c) ==
    /\ vault.sealed
    /\ pc[c] = "idle"
    /\ sawSealed' = [sawSealed EXCEPT ![c] = TRUE]
    /\ failed' = [failed EXCEPT ![c] = 0]
    /\ resealed' = [resealed EXCEPT ![c] = FALSE]
    /\ \E fetched \in IF c \in Checkers /\ KeySource = "secretRef"
                      THEN BOOLEAN ELSE {TRUE} :
         IF fetched /\ UnsealInputValid
         THEN /\ pc' = [pc EXCEPT ![c] = "status"]
              /\ UNCHANGED outcome
         ELSE Return(c, "error")
    /\ UNCHANGED <<vault, reseals, idx>>

\* The get_seal_status() before the loop: an unsealed Vault is returned
\* as is, a failure propagates out of unseal().
SealStatus(c) ==
    /\ pc[c] = "status"
    /\ \/ Return(c, "error")
       \/ /\ ~vault.sealed
          /\ Return(c, "unsealed")
       \/ /\ vault.sealed
          /\ pc' = [pc EXCEPT ![c] = "submit"]
          /\ UNCHANGED outcome
    /\ idx' = [idx EXCEPT ![c] = 1]
    /\ UNCHANGED <<vault, reseals, sawSealed, failed, resealed>>

\* Mutant: the exception handler breaks out of the loop instead of going on.
KeyFailed_Break(c) ==
    /\ idx' = [idx EXCEPT ![c] = Threshold + 1]
    /\ failed' = [failed EXCEPT ![c] = @ + 1]
    /\ UNCHANGED <<pc, outcome>>

\* Mutant: the exception handler retries the same key instead of the next.
KeyFailed_Retry(c) == UNCHANGED <<idx, failed, pc, outcome>>

\* The exception handler of the loop body: remember the error (last_error)
\* and continue with the next key.
KeyFailed(c) ==
    /\ idx' = [idx EXCEPT ![c] = @ + 1]
    /\ failed' = [failed EXCEPT ![c] = @ + 1]
    /\ UNCHANGED <<pc, outcome>>

\* One iteration of the loop over validated_keys[:threshold]: decode the
\* key, submit it; an unsealed answer returns at once, a sealed one moves
\* on to the next key.
SubmitKey(c) ==
    LET key == KeyList[idx[c]] IN
    /\ pc[c] = "submit"
    /\ idx[c] <= Threshold
    /\ \/ /\ key \in Undecodable
          /\ KeyFailed(c)
          /\ UNCHANGED vault
       \/ /\ key \notin Undecodable
          /\ \E n \in 0..(Retries + 1), answered \in BOOLEAN :
               LET before == IF n = 0 THEN vault ELSE SubmitTimes(vault, key, n - 1)
                   after == SubmitTimes(vault, key, n)
               IN
               /\ n = 0 => ~answered
               /\ vault' = after
               /\ IF ~answered \/ Rejects(before, key)
                  THEN KeyFailed(c)
                  ELSE IF after.sealed
                  THEN /\ idx' = [idx EXCEPT ![c] = @ + 1]
                       /\ UNCHANGED <<pc, outcome, failed>>
                  ELSE Return(c, "unsealed") /\ UNCHANGED <<idx, failed>>
    /\ UNCHANGED <<reseals, sawSealed, resealed>>

\* Mutant: the status read before the loop is returned instead of a fresh one.
FinalStatus_Stale(c) ==
    /\ pc[c] = "submit"
    /\ idx[c] > Threshold
    /\ \/ Return(c, "error")
       \/ Return(c, "sealed")
    /\ UNCHANGED <<vault, reseals, idx, sawSealed, failed, resealed>>

\* After the loop: a final get_seal_status() is returned whatever it says.
FinalStatus(c) ==
    /\ pc[c] = "submit"
    /\ idx[c] > Threshold
    /\ \/ Return(c, "error")
       \/ Return(c, IF vault.sealed THEN "sealed" ELSE "unsealed")
    /\ UNCHANGED <<vault, reseals, idx, sawSealed, failed, resealed>>

\* Environment: the Vault is sealed again, losing any unseal progress.
Reseal ==
    /\ reseals < MaxReseals
    /\ reseals' = reseals + 1
    /\ vault' = [sealed |-> TRUE, parts |-> {}]
    /\ resealed' = [c \in Callers |-> resealed[c] \/ pc[c] # "idle"]
    /\ UNCHANGED <<pc, idx, outcome, sawSealed, failed>>

CallStep(c) == SealStatus(c) \/ SubmitKey(c) \/ FinalStatus(c)

Next ==
    \/ \E c \in Callers :
         \/ IsSealedFails(c) \/ IsSealedFalse(c) \/ IsSealedTrue(c)
         \/ CallStep(c)
    \/ Reseal

\* Every request carries the client's timeout, so a started call always
\* gets its next answer; starting a call is up to the timer and the events.
Fairness == \A c \in Callers : WF_vars(CallStep(c))

Spec == Init /\ [][Next]_vars /\ Fairness

-----------------------------------------------------------------------------
(***************************************************************************)
(* Properties                                                              *)
(***************************************************************************)

\* The first VaultThreshold keys the loop may use are distinct genuine
\* shares and the loop is allowed to reach that many.
QuorumInKeys ==
    /\ VaultThreshold <= Threshold
    /\ \A i \in 1..Threshold : KeyList[i] \in GoodShares \ Undecodable
    /\ \A i, j \in 1..Threshold : i # j => KeyList[i] # KeyList[j]

(* Partial-failure tolerance of the key loop (VaultClient.unseal): when   *)
(* the keys are genuine shares, a call that ends with the Vault still      *)
(* sealed must have seen more than Threshold - VaultThreshold of its key   *)
(* submissions fail, or the Vault resealed under it -- even while other    *)
(* tasks submit the same keys concurrently.                                *)
FailedKeysExplainSealed ==
    QuorumInKeys =>
      \A c \in Callers :
        (pc[c] = "idle" /\ outcome[c] = "sealed" /\ ~resealed[c])
          => failed[c] > Threshold - VaultThreshold

(* Spec 4.4: check_and_unseal_vault sets VaultStatus.lastUnsealed only    *)
(* when the call found the Vault sealed and it is now unsealed.            *)
LastUnsealedOnTransition ==
    \A c \in Checkers :
        (pc[c] = "idle" /\ StatusOf(outcome[c]).lastUnsealed) => sawSealed[c]

(* Spec 7: a call that leaves the Vault sealed after a key submission     *)
(* failed surfaces an error in the VaultStatus it publishes.               *)
PartialFailureSurfaced ==
    \A c \in Checkers :
        (pc[c] = "idle" /\ outcome[c] = "sealed" /\ failed[c] > 0)
          => StatusOf(outcome[c]).error

(* Every started unseal call returns: the key loop is bounded by the      *)
(* threshold and no request is waited on forever.                          *)
CallsReturn == \A c \in Callers : pc[c] # "idle" ~> pc[c] = "idle"

(* VaultClient.unseal and its callers implement UnsealContract: the Vault *)
(* unseals only through a key submission of a running call, every outcome  *)
(* a call returns (the final get_seal_status() after the key loop included)*)
(* is true of the Vault when it returns, and every started call returns.   *)
Contract == INSTANCE UnsealContract
    WITH sealed <- vault.sealed,
         busy <- [c \in Callers |-> pc[c] # "idle"]

ImplementsContract == Contract!Spec
=============================================================================
