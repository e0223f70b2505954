----------------------------- MODULE OperatorV2 -----------------------------
(***************************************************************************)
(* The instance registry and the kopf handlers of operator_v2.py.          *)
(*                                                                         *)
(* VaultOperatorV2 keeps, per "namespace/name", one VaultClient and, when  *)
(* haEnabled, one PodWatcher whose watch task runs until stop().  Four     *)
(* handlers drive it: create/resume, update, delete, and a 30s timer.      *)
(* They are asyncio tasks of one loop; a handler suspends only at awaits   *)
(* that really yield: PodWatcher.stop() (awaiting the cancelled task) and  *)
(* the HTTP requests of check_and_unseal_vault.  setup_vault_client has no *)
(* such await (get_unseal_keys reads the Secret with a blocking call and   *)
(* watcher.start() does not yield), so it is one atomic step.  The result  *)
(* of check_and_unseal_vault is modelled in VaultUnseal; here it is one    *)
(* suspension.                                                             *)
(*                                                                         *)
(* kopf (the environment) runs the change handlers of one object one at a *)
(* time, with the newest body, and records the last handled spec; it runs *)
(* the timer of a live object as a separate task, concurrently with them,  *)
(* from the moment it first sees the object.  On deletion it signals the   *)
(* timer to stop at once and runs the delete handler; a timer invocation   *)
(* already running finishes concurrently, and the finalizer is removed    *)
(* only once the handler has returned and the timer has exited.            *)
(* A restart of the operator process loses all of VaultOperatorV2; kopf    *)
(* then calls the resume handler (create_vault_config) for every object.   *)
(***************************************************************************)
EXTENDS Naturals, Sequences, FiniteSets, Functions

CONSTANTS
    Resources,   \* the VaultUnsealConfig objects ("namespace/name" keys)
    Specs,       \* the spec bodies a user may write (model values)
    UrlValid,    \* specs whose url passes SecurityValidator.validate_url
    SpecValid,   \* specs that pass SecurityValidator.validate_spec
    HA,          \* specs with haEnabled
    SecretRef,   \* specs whose keys come from a secretRef (the read may fail)
    NoSpec,      \* model value: no client registered / nothing handled yet
    MaxUpdates,  \* bound on spec edits by users
    MaxRestarts  \* bound on operator process restarts

ASSUME SpecValid \subseteq UrlValid /\ UrlValid \cup HA \cup SecretRef \subseteq Specs
ASSUME NoSpec \notin Specs

NoWatcher == 0

VARIABLES
    phase,       \* per object: "absent", "live", "deleting", "finalizing"
                 \* (delete handler returned), "gone"
    spec,        \* per object: its current spec body
    lastHandled, \* per object: the spec kopf last recorded as handled
    resume,      \* per object: kopf owes it a resume call after a restart
    hpc,         \* per object: the change handler in progress and where
    hbody,       \* per object: the body that handler is applying
    timer,       \* per object: "idle", "check" (in check_and_unseal) or
                 \* "stopped"
    operator,    \* the process memory of VaultOperatorV2: vault_clients and
                 \* pod_watchers (per key: the spec the client was built
                 \* from, the id of the watcher), watch_tasks (ids of the
                 \* watch tasks still running) and watcher_spec (per id,
                 \* the spec the watcher was built from)
    updates,     \* spec edits so far
    restarts     \* restarts so far

vars == <<phase, spec, lastHandled, resume, hpc, hbody, timer, operator,
          updates, restarts>>

EmptyOperator ==
    [vault_clients |-> [r \in Resources |-> NoSpec],
     pod_watchers  |-> [r \in Resources |-> NoWatcher],
     watch_tasks   |-> {},
     watcher_spec  |-> << >>]

TypeOK ==
    /\ phase \in [Resources -> {"absent", "live", "deleting", "finalizing", "gone"}]
    /\ spec \in [Resources -> Specs \cup {NoSpec}]
    /\ lastHandled \in [Resources -> Specs \cup {NoSpec}]
    /\ resume \in [Resources -> BOOLEAN]
    /\ hpc \in [Resources -> {"idle", "update_due", "update_stop", "delete_stop",
                                   "create_check"}]
    /\ hbody \in [Resources -> Specs \cup {NoSpec}]
    /\ timer \in [Resources -> {"idle", "check", "stopped"}]
    /\ operator.vault_clients \in [Resources -> Specs \cup {NoSpec}]
    /\ operator.pod_watchers \in [Resources -> Nat]
    /\ operator.watcher_spec \in Seq(Specs)
    /\ operator.watch_tasks \subseteq 1..Len(operator.watcher_spec)
    /\ updates \in 0..MaxUpdates
    /\ restarts \in 0..MaxRestarts

\* Mutant: the new watcher's id is computed off by one.
SetupVaultClient_IdOffByOne(r, s, op) ==
    LET withClient == [op EXCEPT !.vault_clients[r] = s]
        w == Len(op.watcher_spec) + 2
        withWatcher == [withClient EXCEPT !.pod_watchers[r] = w,
                                          !.watch_tasks = @ \cup {w},
                                          !.watcher_spec = Append(@, s)]
    IN
    IF s \notin UrlValid THEN {[op |-> op, raised |-> TRUE]}
    ELSE IF s \notin HA THEN {[op |-> withClient, raised |-> FALSE]}
    ELSE {[op |-> withWatcher, raised |-> FALSE]}
         \cup (IF s \in SecretRef THEN {[op |-> withClient, raised |-> TRUE]} ELSE {})

(***************************************************************************)
(* setup_vault_client(spec, namespace, name): always overwrites.  The      *)
(* VaultClient constructor raises on a bad url before anything is stored;  *)
(* with haEnabled, get_unseal_keys may raise after the client was stored,  *)
(* before any watcher exists.  Each element is a possible result: the new  *)
(* process memory and whether the call raised.                             *)
(***************************************************************************)
SetupVaultClient(r, s, op) ==
    LET withClient == [op EXCEPT !.vault_clients[r] = s]
        w == Len(op.watcher_spec) + 1
        withWatcher == [withClient EXCEPT !.pod_watchers[r] = w,
                                          !.watch_tasks = @ \cup {w},
                                          !.watcher_spec = Append(@, s)]
    IN
    IF s \notin UrlValid THEN {[op |-> op, raised |-> TRUE]}
    ELSE IF s \notin HA THEN {[op |-> withClient, raised |-> FALSE]}
    ELSE {[op |-> withWatcher, raised |-> FALSE]}
         \cup (IF s \in SecretRef THEN {[op |-> withClient, raised |-> TRUE]} ELSE {})

\* cleanup_vault_instance after its await of PodWatcher.stop() returned:
\* the watch task has ended and both registry entries are deleted.
CleanupVaultInstance(r, op) ==
    [op EXCEPT !.watch_tasks = @ \ {op.pod_watchers[r]},
               !.pod_watchers[r] = NoWatcher,
               !.vault_clients[r] = NoSpec]

\* create_vault_config up to its first await: validate_spec, then
\* setup_vault_client; a validation error or a raise ends the handler
\* (Ready=False), otherwise check_and_unseal_vault starts.
CreateVaultConfig(r, s, op) ==
    IF s \notin SpecValid THEN {[op |-> op, checking |-> FALSE]}
    ELSE {[op |-> x.op, checking |-> ~x.raised] : x \in SetupVaultClient(r, s, op)}

\* The handler has returned normally: kopf records the body as handled.  A
\* resume records nothing: with an unchanged body there is nothing to
\* record; a body changed while the process was down makes the cycle an
\* update with the resume handler mixed in, so the update handler runs
\* next on the same body ("update_due").
Handled(r, s) ==
    /\ hpc' = [hpc EXCEPT ![r] = IF resume[r] /\ s # lastHandled[r]
                                 THEN "update_due" ELSE "idle"]
    /\ lastHandled' = [lastHandled EXCEPT ![r] = IF resume[r] THEN @ ELSE s]
    /\ resume' = [resume EXCEPT ![r] = FALSE]

\* kopf owes the object a run of the update handler, and the body it gets.
UpdateDue(r) ==
    \/ hpc[r] = "update_due"
    \/ /\ hpc[r] = "idle"
       /\ ~resume[r]
       /\ lastHandled[r] \notin {NoSpec, spec[r]}

UpdateBody(r) == IF hpc[r] = "update_due" THEN hbody[r] ELSE spec[r]

\* Run the body of create_vault_config for s on the process memory op.
ApplyCreate(r, s, op) ==
    \E x \in CreateVaultConfig(r, s, op) :
        /\ operator' = x.op
        /\ hbody' = [hbody EXCEPT ![r] = s]
        /\ IF x.checking
           THEN /\ hpc' = [hpc EXCEPT ![r] = "create_check"]
                /\ UNCHANGED <<lastHandled, resume>>
           ELSE Handled(r, s)

Init ==
    /\ phase = [r \in Resources |-> "absent"]
    /\ spec = [r \in Resources |-> NoSpec]
    /\ lastHandled = [r \in Resources |-> NoSpec]
    /\ resume = [r \in Resources |-> FALSE]
    /\ hpc = [r \in Resources |-> "idle"]
    /\ hbody = [r \in Resources |-> NoSpec]
    /\ timer = [r \in Resources |-> "idle"]
    /\ operator = EmptyOperator
    /\ updates = 0
    /\ restarts = 0

-----------------------------------------------------------------------------
(* kopf.on.create / kopf.on.resume: create_vault_config with the newest    *)
(* body.                                                                   *)
CreateHandler(r) ==
    /\ phase[r] = "live"
    /\ hpc[r] = "idle"
    /\ lastHandled[r] = NoSpec \/ resume[r]
    /\ ApplyCreate(r, spec[r], operator)
    /\ UNCHANGED <<phase, spec, timer, updates, restarts>>

\* create_vault_config after check_and_unseal_vault returned: the status
\* is written and the handler returns.
CreateCheckDone(r) ==
    /\ hpc[r] = "create_check"
    /\ Handled(r, hbody[r])
    /\ UNCHANGED <<phase, spec, hbody, timer, operator, updates, restarts>>

\* Mutant: update_vault_config re-runs create without the cleanup first.
UpdateHandler_NoCleanup(r) ==
    /\ phase[r] = "live"
    /\ UpdateDue(r)
    /\ ApplyCreate(r, UpdateBody(r), operator)
    /\ UNCHANGED <<phase, spec, timer, updates, restarts>>

(* kopf.on.update: update_vault_config = cleanup_vault_instance, then      *)
(* create_vault_config.  Without a registered watcher the cleanup has no   *)
(* await and runs together with the create; with one, it first awaits      *)
(* stop() of that watcher.                                                 *)
UpdateHandler(r) ==
    /\ phase[r] = "live"
    /\ UpdateDue(r)
    /\ \/ /\ operator.pod_watchers[r] = NoWatcher
          /\ ApplyCreate(r, UpdateBody(r), CleanupVaultInstance(r, operator))
       \/ /\ operator.pod_watchers[r] # NoWatcher
          /\ hpc' = [hpc EXCEPT ![r] = "update_stop"]
          /\ hbody' = [hbody EXCEPT ![r] = UpdateBody(r)]
          /\ UNCHANGED <<operator, lastHandled, resume>>
    /\ UNCHANGED <<phase, spec, timer, updates, restarts>>

\* Mutant: stop() awaits the watch task without cancelling it, so the
\* await of a task blocked in the watch stream never returns.
UpdateAfterStop_NoCancel(r) ==
    /\ hpc[r] = "update_stop"
    /\ FALSE
    /\ UNCHANGED vars

UpdateAfterStop(r) ==
    /\ hpc[r] = "update_stop"
    /\ ApplyCreate(r, hbody[r], CleanupVaultInstance(r, operator))
    /\ UNCHANGED <<phase, spec, timer, updates, restarts>>

\* Mutant: the cleanup only runs when a watcher is registered.
DeleteHandler_OnlyWithWatcher(r) ==
    /\ phase[r] = "deleting"
    /\ hpc[r] \in {"idle", "update_due"}
    /\ \/ /\ operator.pod_watchers[r] = NoWatcher
          /\ phase' = [phase EXCEPT ![r] = "finalizing"]
          /\ hpc' = [hpc EXCEPT ![r] = "idle"]
          /\ UNCHANGED operator
       \/ /\ operator.pod_watchers[r] # NoWatcher
          /\ hpc' = [hpc EXCEPT ![r] = "delete_stop"]
          /\ UNCHANGED <<operator, phase>>
    /\ UNCHANGED <<spec, lastHandled, resume, hbody, timer, updates, restarts>>

(* kopf.on.delete: delete_vault_config = cleanup_vault_instance.          *)
DeleteHandler(r) ==
    /\ phase[r] = "deleting"
    /\ hpc[r] \in {"idle", "update_due"}
    /\ \/ /\ operator.pod_watchers[r] = NoWatcher
          /\ operator' = CleanupVaultInstance(r, operator)
          /\ phase' = [phase EXCEPT ![r] = "finalizing"]
          /\ hpc' = [hpc EXCEPT ![r] = "idle"]
       \/ /\ operator.pod_watchers[r] # NoWatcher
          /\ hpc' = [hpc EXCEPT ![r] = "delete_stop"]
          /\ UNCHANGED <<operator, phase>>
    /\ UNCHANGED <<spec, lastHandled, resume, hbody, timer, updates, restarts>>

DeleteAfterStop(r) ==
    /\ hpc[r] = "delete_stop"
    /\ operator' = CleanupVaultInstance(r, operator)
    /\ phase' = [phase EXCEPT ![r] = "finalizing"]
    /\ hpc' = [hpc EXCEPT ![r] = "idle"]
    /\ UNCHANGED <<spec, lastHandled, resume, hbody, timer, updates, restarts>>

(* kopf.timer(interval=30): reconcile_vault_config runs                    *)
(* check_and_unseal_vault on the raw, unvalidated body; when no client is  *)
(* registered it calls setup_vault_client first, and a raise there is      *)
(* caught by reconcile_vault_config as an error status.                    *)
TimerFires(r) ==
    /\ phase[r] = "live"
    /\ timer[r] = "idle"
    /\ \/ /\ operator.vault_clients[r] # NoSpec
          /\ timer' = [timer EXCEPT ![r] = "check"]
          /\ UNCHANGED operator
       \/ /\ operator.vault_clients[r] = NoSpec
          /\ \E x \in SetupVaultClient(r, spec[r], operator) :
               /\ operator' = x.op
               /\ timer' = [timer EXCEPT ![r] = IF x.raised THEN "idle" ELSE "check"]
    /\ UNCHANGED <<phase, spec, lastHandled, resume, hpc, hbody, updates, restarts>>

\* The invocation returns; a timer signalled to stop meanwhile exits.
TimerCheckDone(r) ==
    /\ timer[r] = "check"
    /\ timer' = [timer EXCEPT ![r] = IF phase[r] = "live" THEN "idle" ELSE "stopped"]
    /\ UNCHANGED <<phase, spec, lastHandled, resume, hpc, hbody, operator, updates, restarts>>

\* kopf stops the idle timer of an object marked for deletion.
TimerStops(r) ==
    /\ phase[r] \in {"deleting", "finalizing"}
    /\ timer[r] = "idle"
    /\ timer' = [timer EXCEPT ![r] = "stopped"]
    /\ UNCHANGED <<phase, spec, lastHandled, resume, hpc, hbody, operator, updates, restarts>>

\* kopf removes the finalizer once the delete handler returned and the
\* timer exited; the object disappears.
Finalize(r) ==
    /\ phase[r] = "finalizing"
    /\ timer[r] = "stopped"
    /\ phase' = [phase EXCEPT ![r] = "gone"]
    /\ UNCHANGED <<spec, lastHandled, resume, hpc, hbody, timer, operator, updates, restarts>>

-----------------------------------------------------------------------------
(* Environment: users create, edit and delete objects; the process         *)
(* restarts.                                                               *)
CreateObject(r) ==
    /\ phase[r] = "absent"
    /\ \E s \in Specs : spec' = [spec EXCEPT ![r] = s]
    /\ phase' = [phase EXCEPT ![r] = "live"]
    /\ UNCHANGED <<lastHandled, resume, hpc, hbody, timer, operator, updates, restarts>>

EditSpec(r) ==
    /\ phase[r] = "live"
    /\ updates < MaxUpdates
    /\ \E s \in Specs \ {spec[r]} : spec' = [spec EXCEPT ![r] = s]
    /\ updates' = updates + 1
    /\ UNCHANGED <<phase, lastHandled, resume, hpc, hbody, timer, operator, restarts>>

RequestDelete(r) ==
    /\ phase[r] = "live"
    /\ phase' = [phase EXCEPT ![r] = "deleting"]
    /\ UNCHANGED <<spec, lastHandled, resume, hpc, hbody, timer, operator, updates, restarts>>

Restart ==
    /\ restarts < MaxRestarts
    /\ restarts' = restarts + 1
    /\ operator' = EmptyOperator
    /\ hpc' = [r \in Resources |-> "idle"]
    /\ timer' = [r \in Resources |-> IF phase[r] \in {"absent", "live"} THEN "idle" ELSE "stopped"]
    /\ resume' = [r \in Resources |-> phase[r] = "live" /\ lastHandled[r] # NoSpec]
    /\ UNCHANGED <<phase, spec, lastHandled, hbody, updates>>

Next ==
    \/ \E r \in Resources :
         \/ CreateHandler(r) \/ CreateCheckDone(r)
         \/ UpdateHandler(r) \/ UpdateAfterStop(r)
         \/ DeleteHandler(r) \/ DeleteAfterStop(r)
         \/ TimerFires(r) \/ TimerCheckDone(r) \/ TimerStops(r) \/ Finalize(r)
         \/ CreateObject(r) \/ EditSpec(r) \/ RequestDelete(r)
    \/ Restart

(***************************************************************************)
(* kopf runs a pending handler of an object, lets a started one continue  *)
(* once its await completes, fires the timer every 30s and removes the     *)
(* finalizer when it may.  Users and restarts are not fair.                *)
(***************************************************************************)
Handler(r) ==
    \/ CreateHandler(r) \/ CreateCheckDone(r)
    \/ UpdateHandler(r) \/ UpdateAfterStop(r)
    \/ DeleteHandler(r) \/ DeleteAfterStop(r)

Timer(r) == TimerFires(r) \/ TimerCheckDone(r) \/ TimerStops(r)

Fairness ==
    \A r \in Resources :
        WF_vars(Handler(r)) /\ WF_vars(Timer(r)) /\ WF_vars(Finalize(r))

Spec == Init /\ [][Next]_vars /\ Fairness

-----------------------------------------------------------------------------
(***************************************************************************)
(* Properties                                                              *)
(***************************************************************************)

(* Spec 4.4 and 9: every running watch task belongs to the watcher the     *)
(* registry holds for its key, so cleanup_vault_instance can stop it.  A   *)
(* setup_vault_client that overwrites a registered watcher leaks it.       *)
NoOrphanWatcher ==
    operator.watch_tasks \subseteq Range(operator.pod_watchers)

(* Spec 4.4: validation failures short-circuit before any client or        *)
(* watcher is created: whatever is registered was built from a spec that   *)
(* passed SecurityValidator.validate_spec.                                 *)
RegisteredSpecValidated ==
    \A r \in Resources :
        operator.vault_clients[r] # NoSpec => operator.vault_clients[r] \in SpecValid

(* Spec 4.4: the entry of an HA instance owns a watcher: a client built    *)
(* from an haEnabled spec never stands without one in the registry.        *)
HAClientHasWatcher ==
    \A r \in Resources :
        operator.vault_clients[r] \in HA => operator.pod_watchers[r] # NoWatcher

(* A deleted object leaves nothing behind in the registry: a timer run    *)
(* still in flight when deletion starts may set up a client, yet           *)
(* delete_vault_config's cleanup, even after stop() let other tasks run,   *)
(* leaves neither client nor watcher once the finalizer is removed.        *)
GoneLeavesNoEntry ==
    \A r \in Resources :
        phase[r] = "gone" =>
            /\ operator.vault_clients[r] = NoSpec
            /\ operator.pod_watchers[r] = NoWatcher

(* Spec 4.4, onUpdate is a full rebuild: the step in which kopf records  *)
(* a new body as handled for an object handled before (that is,           *)
(* update_vault_config returning) leaves no client in the                  *)
(* registry but one built from that body.                                  *)
HandledBodyOwnsClient ==
    [][\A r \in Resources :
         (lastHandled[r] # NoSpec /\ lastHandled'[r] # lastHandled[r])
           => operator'.vault_clients[r] \in {NoSpec, lastHandled'[r]}]_vars

(* Spec 4.4: the registry converges to the spec.  A live object whose      *)
(* current spec passes validate_spec eventually has a client built from    *)
(* that spec -- through the update handler's cleanup and rebuild, kopf's   *)
(* resume after a restart, or the timer -- unless it is deleted or edited  *)
(* into an invalid spec first.                                            *)
RegistryConverges ==
    \A r \in Resources :
        (phase[r] = "live" /\ spec[r] \in SpecValid)
          ~> \/ phase[r] # "live"
             \/ spec[r] \notin SpecValid
             \/ operator.vault_clients[r] = spec[r]

=============================================================================
