--------------------------- MODULE UnsealContract ---------------------------
(***************************************************************************)
(* What an unseal call promises its caller, stated without keys, shares,  *)
(* retries or HTTP requests.  A caller (check_and_unseal_vault, or the pod *)
(* watcher's unseal attempt) runs one call at a time.  While a call runs,  *)
(* its key submissions may unseal the Vault; the environment may seal it   *)
(* again at any moment.  A call returns an outcome that is true of the     *)
(* Vault when it returns: "unsealed" only if the Vault is unsealed then,   *)
(* "sealed" only if it is sealed then; an error or a skipped attempt says  *)
(* nothing.  A call may also return at once, without ever running.         *)
(* VaultUnseal is checked to implement this specification.                 *)
(***************************************************************************)
CONSTANTS
    Checkers,   \* callers whose call publishes a VaultStatus
    Watchers    \* callers that only log the result

Callers == Checkers \cup Watchers

\* A checker never skips; a watcher skips when the pod is not actionable.
OutcomesOf(c) ==
    IF c \in Checkers THEN {"unsealed", "sealed", "error"}
    ELSE {"unsealed", "sealed", "error", "skipped"}

VARIABLES
    sealed,     \* the Vault is sealed
    busy,       \* per caller: a call of it is running
    outcome     \* per caller: the outcome of its last call, or "none"

avars == <<sealed, busy, outcome>>

\* The outcome o tells the truth about a Vault whose sealed flag is s.
Truthful(o, s) == (o = "unsealed" => ~s) /\ (o = "sealed" => s)

Init ==
    /\ sealed \in BOOLEAN
    /\ busy = [c \in Callers |-> FALSE]
    /\ outcome = [c \in Callers |-> "none"]

\* A call starts.
Begin(c) ==
    /\ ~busy[c]
    /\ busy' = [busy EXCEPT ![c] = TRUE]
    /\ UNCHANGED <<sealed, outcome>>

\* A call returns at once, without submitting anything.
Answer(c, o) ==
    /\ ~busy[c]
    /\ Truthful(o, sealed)
    /\ outcome' = [outcome EXCEPT ![c] = o]
    /\ UNCHANGED <<sealed, busy>>

\* A key submission of a running call completes the Vault's quorum.
Unseal(c) ==
    /\ busy[c]
    /\ sealed
    /\ sealed' = FALSE
    /\ UNCHANGED <<busy, outcome>>

\* A running call returns; its last submission may have unsealed the Vault.
Finish(c, o) ==
    /\ busy[c]
    /\ sealed' \in {sealed, FALSE}
    /\ Truthful(o, sealed')
    /\ busy' = [busy EXCEPT ![c] = FALSE]
    /\ outcome' = [outcome EXCEPT ![c] = o]

\* The environment seals the Vault.
Seal ==
    /\ sealed' = TRUE
    /\ UNCHANGED <<busy, outcome>>

Next ==
    \/ \E c \in Callers :
         \/ Begin(c) \/ Unseal(c)
         \/ \E o \in OutcomesOf(c) : Answer(c, o) \/ Finish(c, o)
    \/ Seal

\* A running call eventually returns.
Spec ==
    /\ Init /\ [][Next]_avars
    /\ \A c \in Callers : WF_avars(\E o \in OutcomesOf(c) : Finish(c, o))
=============================================================================
