----------------------------- MODULE CRDManager -----------------------------
(***************************************************************************)
(* Installation of the VaultUnsealConfig CustomResourceDefinition by      *)
(* CRDManager (crd_manager.py), as main.py runs it before kopf.run and as  *)
(* the CLI (cli.py) runs install-crd, update-crd and uninstall-crd.  Each  *)
(* operator pod and each CLI invocation is a process of its own; they meet *)
(* only at the API server, which holds one CRD.  Every request is          *)
(* synchronous and atomic at the server; between two requests of one       *)
(* process any other process may act.  A request may fail with an          *)
(* ApiException other than 404 (server unavailable, forbidden), up to      *)
(* MaxErrors times in a behaviour.                                         *)
(*                                                                         *)
(* The API server (the environment) establishes a created CRD after a     *)
(* while, and removes a deleted one once its finalizer has run; until then *)
(* it is still returned by a read.  A failed operator pod exits and the    *)
(* kubelet restarts it; a failed CLI invocation exits with status 1.       *)
(*                                                                         *)
(* An operator pod that gets past ensure_crd_exists awaits kopf.run, a     *)
(* synchronous function that starts an event loop of its own; called from  *)
(* inside asyncio.run(main()) it raises RuntimeError, which main()         *)
(* re-raises, so the pod exits there too.                                  *)
(***************************************************************************)
EXTENDS Naturals

CONSTANTS
    Operators,   \* operator pods running main.main()
    Clis,        \* CLI invocations
    Command,     \* per CLI invocation: "install", "update" or "uninstall"
    Timeout,     \* iterations of _wait_for_crd_established (30 in the code)
    MaxErrors    \* bound on requests failing with a non-404 ApiException

ASSUME Operators \cap Clis = {}
ASSUME Command \in [Clis -> {"install", "update", "uninstall"}]
ASSUME Timeout \in Nat \ {0} /\ MaxErrors \in Nat

Procs == Operators \cup Clis

\* The CRD as the API server holds it.
CrdStates == {"absent", "pending", "established", "terminating"}

VARIABLES
    crd,      \* the CRD at the API server
    pc,       \* per process: the request it makes next, or how it ended
    tries,    \* per process: iterations of the wait loop so far
    errors    \* requests failed with a non-404 ApiException so far

vars == <<crd, pc, tries, errors>>

TypeOK ==
    /\ crd \in CrdStates
    /\ pc \in [Procs -> {"read", "create", "wait", "patch", "delete",
                         "kopf", "done", "failed"}]
    /\ tries \in [Procs -> 0..Timeout]
    /\ errors \in 0..MaxErrors

\* Where a process goes when ensure_crd_exists returns True: an operator
\* pod calls kopf.run, install-crd prints its success.
Ensured(p) == IF p \in Operators THEN "kopf" ELSE "done"

\* The first request of each command (cli.main's dispatch; main.main
\* calls operator_instance.ensure_crd_exists()).
FirstRequest(p) ==
    IF p \in Operators \/ Command[p] = "install" THEN "read"
    ELSE IF Command[p] = "update" THEN "patch" ELSE "delete"

Init ==
    /\ crd \in {"absent", "established"}
    /\ pc = [p \in Procs |-> FirstRequest(p)]
    /\ tries = [p \in Procs |-> 0]
    /\ errors = 0

\* A request of p fails with an ApiException that is not a 404; the
\* exception is re-raised to main() or to the CLI, which exits.
RequestFails(p) ==
    /\ errors < MaxErrors
    /\ errors' = errors + 1
    /\ pc' = [pc EXCEPT ![p] = "failed"]
    /\ UNCHANGED <<crd, tries>>

Goto(p, s) == pc' = [pc EXCEPT ![p] = s]

\* ensure_crd_exists: read the CRD; any CRD returned counts as existing,
\* a 404 goes on to create_crd.
EnsureCrdExists(p) ==
    /\ pc[p] = "read"
    /\ \/ RequestFails(p)
       \/ /\ crd # "absent"
          /\ Goto(p, Ensured(p))
          /\ UNCHANGED <<crd, tries, errors>>
       \/ /\ crd = "absent"
          /\ Goto(p, "create")
          /\ UNCHANGED <<crd, tries, errors>>

\* create_crd: a 409 AlreadyExists is an ApiException like any other and
\* is re-raised.
CreateCrd(p) ==
    /\ pc[p] = "create"
    /\ \/ RequestFails(p)
       \/ /\ crd = "absent"
          /\ crd' = "pending"
          /\ Goto(p, "wait")
          /\ tries' = [tries EXCEPT ![p] = 0]
          /\ UNCHANGED errors
       \/ /\ crd # "absent"
          /\ Goto(p, "failed")
          /\ UNCHANGED <<crd, tries, errors>>

\* Mutant: the loop runs one iteration more than range(timeout) gives.
WaitForCrdEstablished_OffByOne(p) ==
    /\ pc[p] = "wait"
    /\ tries[p] <= Timeout
    /\ \/ /\ crd = "established"
          /\ Goto(p, Ensured(p))
          /\ UNCHANGED <<tries, errors>>
       \/ /\ crd # "established"
          /\ tries' = [tries EXCEPT ![p] = @ + 1]
          /\ UNCHANGED <<pc, errors>>
    /\ UNCHANGED crd

(***************************************************************************)
(* One iteration of _wait_for_crd_established: read the CRD and return    *)
(* once it has the Established condition.  A 404 or any other              *)
(* ApiException is passed over; then the loop sleeps for a second.         *)
(***************************************************************************)
WaitForCrdEstablished(p) ==
    /\ pc[p] = "wait"
    /\ tries[p] < Timeout
    /\ \/ /\ crd = "established"
          /\ Goto(p, Ensured(p))
          /\ UNCHANGED <<tries, errors>>
       \/ /\ crd # "established"
          /\ tries' = [tries EXCEPT ![p] = @ + 1]
          /\ UNCHANGED <<pc, errors>>
       \/ /\ errors < MaxErrors
          /\ errors' = errors + 1
          /\ tries' = [tries EXCEPT ![p] = @ + 1]
          /\ UNCHANGED pc
    /\ UNCHANGED crd

\* After Timeout iterations the loop raises TimeoutError.
WaitTimedOut(p) ==
    /\ pc[p] = "wait"
    /\ tries[p] = Timeout
    /\ Goto(p, "failed")
    /\ UNCHANGED <<crd, tries, errors>>

\* update_crd: patch the CRD; a 404 is re-raised like any other error.
UpdateCrd(p) ==
    /\ pc[p] = "patch"
    /\ \/ RequestFails(p)
       \/ /\ Goto(p, IF crd = "absent" THEN "failed" ELSE "done")
          /\ UNCHANGED <<crd, tries, errors>>

\* delete_crd: a 404 counts as success; a CRD returned is marked for
\* deletion and stays readable until the server removes it.
DeleteCrd(p) ==
    /\ pc[p] = "delete"
    /\ \/ RequestFails(p)
       \/ /\ crd' = IF crd = "absent" THEN "absent" ELSE "terminating"
          /\ Goto(p, "done")
          /\ UNCHANGED <<tries, errors>>

\* main() awaits kopf.run(...), which raises RuntimeError inside the
\* running loop; main() logs it, re-raises it, and the pod exits.
KopfRun(p) ==
    /\ pc[p] = "kopf"
    /\ Goto(p, "failed")
    /\ UNCHANGED <<crd, tries, errors>>

\* Environment: the kubelet restarts an operator pod whose main() raised.
RestartPod(p) ==
    /\ pc[p] = "failed"
    /\ Goto(p, "read")
    /\ UNCHANGED <<crd, tries, errors>>

\* Environment: the API server establishes a created CRD.
CrdEstablished ==
    /\ crd = "pending"
    /\ crd' = "established"
    /\ UNCHANGED <<pc, tries, errors>>

\* Environment: the API server removes a deleted CRD.
CrdRemoved ==
    /\ crd = "terminating"
    /\ crd' = "absent"
    /\ UNCHANGED <<pc, tries, errors>>

Step(p) ==
    \/ EnsureCrdExists(p) \/ CreateCrd(p)
    \/ WaitForCrdEstablished(p) \/ WaitTimedOut(p)
    \/ UpdateCrd(p) \/ DeleteCrd(p) \/ KopfRun(p)

Next ==
    \/ \E p \in Procs : Step(p)
    \/ \E p \in Operators : RestartPod(p)
    \/ CrdEstablished \/ CrdRemoved

(***************************************************************************)
(* A process runs its requests one after the other; the kubelet restarts  *)
(* a failed pod (restartPolicy Always); the API server completes what it   *)
(* has accepted.  Users starting CLI commands are not fair: the commands   *)
(* present at the start are all there are.                                 *)
(***************************************************************************)
Fairness ==
    /\ \A p \in Procs : WF_vars(Step(p))
    /\ \A p \in Operators : WF_vars(RestartPod(p))
    /\ WF_vars(CrdEstablished) /\ WF_vars(CrdRemoved)

Spec == Init /\ [][Next]_vars /\ Fairness

-----------------------------------------------------------------------------
(* Spec: the operator ensures the CRD and then runs kopf, which serves the *)
(* handlers for good: every pod eventually stays in kopf.run.              *)
OperatorServes == \A p \in Operators : <>[](pc[p] = "kopf")

(* main() starts kopf.run only on a CRD the API server has established,  *)
(* as create_crd makes sure of by waiting for the Established condition.  *)
ServesOnEstablished ==
    [][\A p \in Operators :
         pc[p] # "kopf" /\ pc'[p] = "kopf" => crd = "established"]_vars
=============================================================================
