----------------------------- MODULE OperatorV1 -----------------------------
(***************************************************************************)
(* The handlers of operator.py (VaultUnsealOperator), the module main.py   *)
(* registers with kopf.  A VaultUnsealConfig lists vaultInstances, each    *)
(* with a name, an endpoint, unseal keys and haEnabled.  One process-wide  *)
(* registry holds a VaultClient and, for HA instances, a PodWatcher per    *)
(* key f"{namespace}/{instance_name}": the key does not include the        *)
(* object, so objects of one namespace listing the same instance name      *)
(* share an entry.  The model has one namespace; an entry is keyed by the  *)
(* instance name.                                                          *)
(*                                                                         *)
(* Handlers and the timer are tasks of one asyncio loop.  A handler        *)
(* suspends at PodWatcher.stop() (it awaits the cancelled watch task) and  *)
(* at the HTTP requests of unseal_vault_instance (is_sealed, unseal);      *)
(* setup_vault_instance has no await that yields (watcher.start() only     *)
(* creates the task).  So a handler is a sequence of steps, one per        *)
(* instance: a setup of an instance and the start of its unseal call, or   *)
(* a cleanup of an instance, split at its await of stop().  The result of  *)
(* the unseal call is modelled in VaultUnseal; here it is a suspension.    *)
(* kopf (the environment) behaves as in OperatorV2: change handlers of one *)
(* object run one at a time and are retried after an exception, the timer *)
(* runs beside them, a restart loses the registry and resumes handled      *)
(* objects.                                                                *)
(***************************************************************************)
EXTENDS Naturals, Sequences, FiniteSets, Functions

CONSTANTS
    Objects,     \* the VaultUnsealConfig objects, all in one namespace
    NameOrder,   \* the instance names, in the order a list gives them
    Confs,       \* instance configurations (endpoint, keys, HA) a user writes
    UrlValid,    \* configurations whose endpoint passes validate_url
    HA,          \* configurations with haEnabled
    Specs,       \* spec bodies: functions from names to Confs \cup {NoInst}
    NoInst,      \* model value: the name is not listed
    NoSpec,      \* model value: no body / nothing handled yet
    MaxUpdates,  \* bound on spec edits by users
    MaxRestarts  \* bound on operator process restarts

Names == Range(NameOrder)

ASSUME UrlValid \cup HA \subseteq Confs /\ NoInst \notin Confs
ASSUME Specs \subseteq [Names -> Confs \cup {NoInst}] /\ NoSpec \notin Specs

\* A registry client is known by the object whose configuration built it.
NoClient == NoSpec
\* A registered watcher: its task runs, or it was cancelled by stop().
WatcherStates == {"none", "running", "cancelled"}

VARIABLES
    phase,       \* per object: "absent", "live", "deleting", "finalizing",
                 \* "gone"
    spec,        \* per object: its current spec body
    lastHandled, \* per object: the body kopf last recorded as handled
    resume,      \* per object: kopf owes it a resume call after a restart
    hpc,         \* per object: the stage of its change handler
    hkind,       \* per object: "create", "update" or "delete"
    hbody,       \* per object: the body that handler is applying
    clean,       \* per object: names its handler still has to clean up
    todo,        \* per object: names its handler still has to set up
    cur,         \* per object: the name whose stop() the handler awaits
    timer,       \* per object: "idle", "run" or "stopped"
    ttodo,       \* per object: names the running timer call still visits
    tbody,       \* per object: the body of the running timer call
    operator,    \* the process memory: vault_clients (per name, the object
                 \* whose configuration built the client), pod_watchers (per
                 \* name, the state of the registered watcher's task) and
                 \* orphaned (some watch task runs that no entry holds; no
                 \* code refers to it again, so it runs until the process
                 \* exits)
    updates,     \* spec edits so far
    restarts     \* restarts so far

vars == <<phase, spec, lastHandled, resume, hpc, hkind, hbody, clean, todo,
          cur, timer, ttodo, tbody, operator, updates, restarts>>

EmptyOperator ==
    [vault_clients |-> [n \in Names |-> NoClient],
     pod_watchers  |-> [n \in Names |-> "none"],
     orphaned      |-> FALSE]

\* spec.get("vaultInstances", []) as a list of names.
Instances(s) == IF s = NoSpec THEN << >> ELSE SelectSeq(NameOrder, LAMBDA n : s[n] # NoInst)

TypeOK ==
    /\ phase \in [Objects -> {"absent", "live", "deleting", "finalizing", "gone"}]
    /\ spec \in [Objects -> Specs \cup {NoSpec}]
    /\ lastHandled \in [Objects -> Specs \cup {NoSpec}]
    /\ hbody \in [Objects -> Specs \cup {NoSpec}]
    /\ resume \in [Objects -> BOOLEAN]
    /\ hpc \in [Objects -> {"idle", "update_due", "cleanup", "stop", "setup",
                                  "return"}]
    /\ hkind \in [Objects -> {"create", "update", "delete"}]
    /\ clean \in [Objects -> Seq(Names)] /\ todo \in [Objects -> Seq(Names)]
    /\ cur \in [Objects -> Names]
    /\ timer \in [Objects -> {"idle", "run", "stopped"}]
    /\ ttodo \in [Objects -> Seq(Names)]
    /\ tbody \in [Objects -> Specs \cup {NoSpec}]
    /\ operator.vault_clients \in [Names -> Objects \cup {NoClient}]
    /\ operator.pod_watchers \in [Names -> WatcherStates]
    /\ operator.orphaned \in BOOLEAN
    /\ updates \in 0..MaxUpdates
    /\ restarts \in 0..MaxRestarts

\* Mutant: the instance configuration is stored where the client belongs.
SetupVaultInstance_StoreConf(o, n, c, op) ==
    LET withClient == [op EXCEPT !.vault_clients[n] = c] IN
    IF c \notin UrlValid THEN [op |-> op, raised |-> TRUE]
    ELSE IF c \notin HA THEN [op |-> withClient, raised |-> FALSE]
    ELSE [op |-> [withClient EXCEPT !.pod_watchers[n] = "running",
                                    !.orphaned = @ \/ op.pod_watchers[n] = "running"],
          raised |-> FALSE]

(***************************************************************************)
(* setup_vault_instance(instance, namespace) for object o: always          *)
(* overwrites.  The VaultClient constructor raises on a bad endpoint       *)
(* before anything is stored; otherwise the client is stored and, with     *)
(* haEnabled, a new PodWatcher is stored over the old one and started; a   *)
(* running watcher it replaces is orphaned.  The result: the new process   *)
(* memory and whether the call raised.                                     *)
(***************************************************************************)
SetupVaultInstance(o, n, c, op) ==
    LET withClient == [op EXCEPT !.vault_clients[n] = o] IN
    IF c \notin UrlValid THEN [op |-> op, raised |-> TRUE]
    ELSE IF c \notin HA THEN [op |-> withClient, raised |-> FALSE]
    ELSE [op |-> [withClient EXCEPT !.pod_watchers[n] = "running",
                                    !.orphaned = @ \/ op.pod_watchers[n] = "running"],
          raised |-> FALSE]

\* The stage a handler goes on with: its cleanups first, then its setups,
\* then it returns.
NextStage(cl, td) ==
    IF cl # << >> THEN "cleanup" ELSE IF td # << >> THEN "setup" ELSE "return"

Init ==
    /\ phase = [o \in Objects |-> "absent"]
    /\ spec = [o \in Objects |-> NoSpec]
    /\ lastHandled = [o \in Objects |-> NoSpec]
    /\ hbody = [o \in Objects |-> NoSpec]
    /\ resume = [o \in Objects |-> FALSE]
    /\ hpc = [o \in Objects |-> "idle"]
    /\ hkind = [o \in Objects |-> "create"]
    /\ clean = [o \in Objects |-> << >>]
    /\ todo = [o \in Objects |-> << >>]
    /\ cur = [o \in Objects |-> NameOrder[1]]
    /\ timer = [o \in Objects |-> "idle"]
    /\ ttodo = [o \in Objects |-> << >>]
    /\ tbody = [o \in Objects |-> NoSpec]
    /\ operator = EmptyOperator
    /\ updates = 0
    /\ restarts = 0
-----------------------------------------------------------------------------
(* The locals of an idle handler.                                          *)
HandlerIdle(o) ==
    /\ hpc' = [hpc EXCEPT ![o] = "idle"]
    /\ hkind' = [hkind EXCEPT ![o] = "create"]
    /\ hbody' = [hbody EXCEPT ![o] = NoSpec]
    /\ clean' = [clean EXCEPT ![o] = << >>]
    /\ todo' = [todo EXCEPT ![o] = << >>]
    /\ cur' = [cur EXCEPT ![o] = NameOrder[1]]

\* The handler of object o raised: kopf records nothing and retries it.
Fail(o) == HandlerIdle(o)

\* The handler has returned normally: kopf records the body as handled
\* (a resume call records nothing, as in OperatorV2).
Handled(o) ==
    /\ lastHandled' = [lastHandled EXCEPT ![o] = IF resume[o] THEN @ ELSE hbody[o]]
    /\ resume' = [resume EXCEPT ![o] = FALSE]

\* kopf owes the object a run of the update handler: the body differs from
\* the one last handled, or a body changed while the process was down made
\* the resume cycle an update, whose handler runs next on the same body.
UpdateDue(o) ==
    \/ hpc[o] = "update_due"
    \/ ~resume[o] /\ lastHandled[o] \notin {NoSpec, spec[o]}

UpdateBody(o) == IF hpc[o] = "update_due" THEN hbody[o] ELSE spec[o]

(***************************************************************************)
(* kopf picks the handler of an idle object: delete_vault_unseal_config   *)
(* once deletion is requested (over the instances of the current body);    *)
(* create_vault_unseal_config for a new object or after a restart (setup   *)
(* and unseal of every instance); update_vault_unseal_config when the body *)
(* differs from the one last handled (cleanup of the names no longer       *)
(* listed, then setup and unseal of every instance still listed).          *)
(***************************************************************************)
HandlerStart(o) ==
    /\ hpc[o] \in {"idle", "update_due"}
    /\ \/ /\ phase[o] = "deleting"
          /\ hkind' = [hkind EXCEPT ![o] = "delete"]
          /\ clean' = [clean EXCEPT ![o] = Instances(spec[o])]
          /\ todo' = [todo EXCEPT ![o] = << >>]
          /\ hbody' = [hbody EXCEPT ![o] = spec[o]]
       \/ /\ phase[o] = "live"
          /\ lastHandled[o] = NoSpec \/ resume[o]
          /\ hkind' = [hkind EXCEPT ![o] = "create"]
          /\ clean' = [clean EXCEPT ![o] = << >>]
          /\ todo' = [todo EXCEPT ![o] = Instances(spec[o])]
          /\ hbody' = [hbody EXCEPT ![o] = spec[o]]
       \/ /\ phase[o] = "live"
          /\ UpdateDue(o)
          /\ hkind' = [hkind EXCEPT ![o] = "update"]
          /\ clean' = [clean EXCEPT ![o] =
                         SelectSeq(Instances(lastHandled[o]),
                                   LAMBDA n : UpdateBody(o)[n] = NoInst)]
          /\ todo' = [todo EXCEPT ![o] = Instances(UpdateBody(o))]
          /\ hbody' = [hbody EXCEPT ![o] = UpdateBody(o)]
    /\ hpc' = [hpc EXCEPT ![o] = NextStage(clean'[o], todo'[o])]
    /\ UNCHANGED <<phase, spec, lastHandled, resume, cur, timer, ttodo, tbody,
                   operator, updates, restarts>>

\* Mutant: the "client_key in self.pod_watchers" check is dropped, so the
\* cleanup of a key without a watcher raises KeyError.
CleanupStep_NoCheck(o) ==
    LET n == Head(clean[o])
        w == operator.pod_watchers[n]
    IN
    /\ hpc[o] = "cleanup"
    /\ \/ /\ w # "none"
          /\ clean' = [clean EXCEPT ![o] = Tail(@)]
          /\ operator' = [operator EXCEPT !.pod_watchers[n] = "cancelled"]
          /\ cur' = [cur EXCEPT ![o] = n]
          /\ hpc' = [hpc EXCEPT ![o] = "stop"]
          /\ UNCHANGED <<hkind, hbody, todo>>
       \/ /\ w = "none"
          /\ Fail(o)
          /\ UNCHANGED operator
    /\ UNCHANGED <<phase, spec, lastHandled, resume, timer, ttodo, tbody,
                   updates, restarts>>

(***************************************************************************)
(* cleanup_vault_instance(name) up to its await: with a registered watcher *)
(* it cancels that watcher's task and awaits it; without one it deletes    *)
(* the client, if any, and the handler goes on at once.                    *)
(***************************************************************************)
CleanupStep(o) ==
    LET n == Head(clean[o])
        w == operator.pod_watchers[n]
    IN
    /\ hpc[o] = "cleanup"
    /\ clean' = [clean EXCEPT ![o] = Tail(@)]
    /\ \/ /\ w # "none"
          /\ operator' = [operator EXCEPT !.pod_watchers[n] = "cancelled"]
          /\ cur' = [cur EXCEPT ![o] = n]
          /\ hpc' = [hpc EXCEPT ![o] = "stop"]
       \/ /\ w = "none"
          /\ operator' = [operator EXCEPT !.vault_clients[n] = NoClient]
          /\ hpc' = [hpc EXCEPT ![o] = NextStage(clean'[o], todo[o])]
          /\ UNCHANGED cur
    /\ UNCHANGED <<phase, spec, lastHandled, resume, hkind, hbody, todo, timer,
                   ttodo, tbody, updates, restarts>>

\* Mutant: only the client is deleted after stop(); the watcher stays.
StopReturned_KeepWatcher(o) ==
    LET n == cur[o]
        w == operator.pod_watchers[n]
    IN
    /\ hpc[o] = "stop"
    /\ \/ /\ w = "none"
          /\ Fail(o)
          /\ UNCHANGED operator
       \/ /\ w # "none"
          /\ operator' = [operator EXCEPT !.vault_clients[n] = NoClient]
          /\ hpc' = [hpc EXCEPT ![o] = NextStage(clean[o], todo[o])]
          /\ UNCHANGED <<hkind, hbody, clean, todo, cur>>
    /\ UNCHANGED <<phase, spec, lastHandled, resume, timer, ttodo, tbody,
                   updates, restarts>>

\* cleanup_vault_instance after stop() returned: del pod_watchers[key]
\* removes whatever watcher is registered now (a running one that another
\* task's setup stored meanwhile is orphaned), and raises KeyError when
\* another task removed the entry meanwhile; then the client is deleted.
StopReturned(o) ==
    LET n == cur[o]
        w == operator.pod_watchers[n]
    IN
    /\ hpc[o] = "stop"
    /\ \/ /\ w = "none"
          /\ Fail(o)
          /\ UNCHANGED operator
       \/ /\ w # "none"
          /\ operator' = [operator EXCEPT !.pod_watchers[n] = "none",
                                          !.vault_clients[n] = NoClient,
                                          !.orphaned = @ \/ w = "running"]
          /\ hpc' = [hpc EXCEPT ![o] = NextStage(clean[o], todo[o])]
          /\ UNCHANGED <<hkind, hbody, clean, todo, cur>>
    /\ UNCHANGED <<phase, spec, lastHandled, resume, timer, ttodo, tbody,
                   updates, restarts>>

(***************************************************************************)
(* One instance of create or update: setup_vault_instance, then            *)
(* unseal_vault_instance, which finds the client just stored and awaits    *)
(* is_sealed() on it.  A raise in setup ends the handler.                  *)
(***************************************************************************)
SetupStep(o) ==
    LET n == Head(todo[o])
        x == SetupVaultInstance(o, n, hbody[o][n], operator)
    IN
    /\ hpc[o] = "setup"
    /\ \/ /\ x.raised
          /\ Fail(o)
          /\ UNCHANGED operator
       \/ /\ ~x.raised
          /\ operator' = x.op
          /\ todo' = [todo EXCEPT ![o] = Tail(@)]
          /\ hpc' = [hpc EXCEPT ![o] = NextStage(clean[o], todo'[o])]
          /\ UNCHANGED <<hkind, hbody, clean, cur>>
    /\ UNCHANGED <<phase, spec, lastHandled, resume, timer, ttodo, tbody,
                   updates, restarts>>

\* The last call returned and the handler returns: kopf records a create or
\* update as handled, or lets the finalizer go after a delete.
Return(o) ==
    /\ hpc[o] = "return"
    /\ IF hkind[o] = "delete"
       THEN /\ HandlerIdle(o)
            /\ phase' = [phase EXCEPT ![o] = "finalizing"]
            /\ UNCHANGED <<lastHandled, resume>>
       ELSE /\ Handled(o)
            /\ IF resume[o] /\ hbody[o] # lastHandled[o]
               THEN /\ hpc' = [hpc EXCEPT ![o] = "update_due"]
                    /\ UNCHANGED <<hkind, hbody, clean, todo, cur>>
               ELSE HandlerIdle(o)
            /\ UNCHANGED phase
    /\ UNCHANGED <<spec, timer, ttodo, tbody, operator, updates, restarts>>

(***************************************************************************)
(* kopf.timer(interval=30): reconcile_vault_unseal_config calls            *)
(* unseal_vault_instance for every instance of the body, one after the     *)
(* other.  Each call first sets the instance up when no client is          *)
(* registered under its key, outside the try: a raise there ends the       *)
(* invocation.  Then it awaits is_sealed() on the client registered under  *)
(* the key, whoever built it.                                              *)
(***************************************************************************)
TimerStart(o) ==
    /\ phase[o] = "live"
    /\ timer[o] = "idle"
    /\ timer' = [timer EXCEPT ![o] = "run"]
    /\ tbody' = [tbody EXCEPT ![o] = spec[o]]
    /\ ttodo' = [ttodo EXCEPT ![o] = Instances(spec[o])]
    /\ UNCHANGED <<phase, spec, lastHandled, resume, hpc, hkind, hbody, clean,
                   todo, cur, operator, updates, restarts>>

\* The end of an invocation; a timer signalled to stop meanwhile exits.
TimerEnd(o) ==
    /\ timer' = [timer EXCEPT ![o] = IF phase[o] = "live" THEN "idle" ELSE "stopped"]
    /\ ttodo' = [ttodo EXCEPT ![o] = << >>]
    /\ tbody' = [tbody EXCEPT ![o] = NoSpec]

TimerStep(o) ==
    LET n == Head(ttodo[o])
        x == SetupVaultInstance(o, n, tbody[o][n], operator)
    IN
    /\ timer[o] = "run"
    /\ ttodo[o] # << >>
    /\ \/ /\ operator.vault_clients[n] # NoClient
          /\ ttodo' = [ttodo EXCEPT ![o] = Tail(@)]
          /\ UNCHANGED <<operator, timer, tbody>>
       \/ /\ operator.vault_clients[n] = NoClient
          /\ IF x.raised
             THEN TimerEnd(o) /\ UNCHANGED operator
             ELSE /\ operator' = x.op
                  /\ ttodo' = [ttodo EXCEPT ![o] = Tail(@)]
                  /\ UNCHANGED <<timer, tbody>>
    /\ UNCHANGED <<phase, spec, lastHandled, resume, hpc, hkind, hbody, clean,
                   todo, cur, updates, restarts>>

\* The last unseal_vault_instance returned.
TimerDone(o) ==
    /\ timer[o] = "run"
    /\ ttodo[o] = << >>
    /\ TimerEnd(o)
    /\ UNCHANGED <<phase, spec, lastHandled, resume, hpc, hkind, hbody, clean,
                   todo, cur, operator, updates, restarts>>

\* kopf stops the idle timer of an object marked for deletion.
TimerStops(o) ==
    /\ phase[o] \in {"deleting", "finalizing"}
    /\ timer[o] = "idle"
    /\ timer' = [timer EXCEPT ![o] = "stopped"]
    /\ UNCHANGED <<phase, spec, lastHandled, resume, hpc, hkind, hbody, clean,
                   todo, cur, ttodo, tbody, operator, updates, restarts>>

\* kopf removes the finalizer once the delete handler returned and the
\* timer exited.
Finalize(o) ==
    /\ phase[o] = "finalizing"
    /\ timer[o] = "stopped"
    /\ phase' = [phase EXCEPT ![o] = "gone"]
    /\ UNCHANGED <<spec, lastHandled, resume, hpc, hkind, hbody, clean, todo,
                   cur, timer, ttodo, tbody, operator, updates, restarts>>

-----------------------------------------------------------------------------
(* Environment: users create, edit and delete objects; the process         *)
(* restarts.                                                               *)
CreateObject(o) ==
    /\ phase[o] = "absent"
    /\ \E s \in Specs : spec' = [spec EXCEPT ![o] = s]
    /\ phase' = [phase EXCEPT ![o] = "live"]
    /\ UNCHANGED <<lastHandled, resume, hpc, hkind, hbody, clean, todo, cur,
                   timer, ttodo, tbody, operator, updates, restarts>>

EditSpec(o) ==
    /\ phase[o] = "live"
    /\ updates < MaxUpdates
    /\ \E s \in Specs \ {spec[o]} : spec' = [spec EXCEPT ![o] = s]
    /\ updates' = updates + 1
    /\ UNCHANGED <<phase, lastHandled, resume, hpc, hkind, hbody, clean, todo,
                   cur, timer, ttodo, tbody, operator, restarts>>

RequestDelete(o) ==
    /\ phase[o] = "live"
    /\ phase' = [phase EXCEPT ![o] = "deleting"]
    /\ UNCHANGED <<spec, lastHandled, resume, hpc, hkind, hbody, clean, todo,
                   cur, timer, ttodo, tbody, operator, updates, restarts>>

Restart ==
    /\ restarts < MaxRestarts
    /\ restarts' = restarts + 1
    /\ operator' = EmptyOperator
    /\ hpc' = [o \in Objects |-> "idle"]
    /\ hkind' = [o \in Objects |-> "create"]
    /\ hbody' = [o \in Objects |-> NoSpec]
    /\ clean' = [o \in Objects |-> << >>]
    /\ todo' = [o \in Objects |-> << >>]
    /\ cur' = [o \in Objects |-> NameOrder[1]]
    /\ timer' = [o \in Objects |-> IF phase[o] \in {"absent", "live"} THEN "idle" ELSE "stopped"]
    /\ ttodo' = [o \in Objects |-> << >>]
    /\ tbody' = [o \in Objects |-> NoSpec]
    /\ resume' = [o \in Objects |-> phase[o] = "live" /\ lastHandled[o] # NoSpec]
    /\ UNCHANGED <<phase, spec, lastHandled, updates>>

Handler(o) ==
    HandlerStart(o) \/ CleanupStep(o) \/ StopReturned(o) \/ SetupStep(o) \/ Return(o)

Timer(o) == TimerStart(o) \/ TimerStep(o) \/ TimerDone(o) \/ TimerStops(o)

Next ==
    \/ \E o \in Objects :
         \/ Handler(o) \/ Timer(o) \/ Finalize(o)
         \/ CreateObject(o) \/ EditSpec(o) \/ RequestDelete(o)
    \/ Restart

(***************************************************************************)
(* kopf retries a failed handler (with back-off) and fires the timer of a  *)
(* live object every 30 seconds; every await of a handler returns (the     *)
(* cancelled watch task ends, requests have timeouts).  Users and restarts *)
(* get no fairness.                                                        *)
(***************************************************************************)
Fairness ==
    \A o \in Objects : WF_vars(Handler(o)) /\ WF_vars(Timer(o)) /\ WF_vars(Finalize(o))

Spec == Init /\ [][Next]_vars /\ Fairness
-----------------------------------------------------------------------------
(***************************************************************************)
(* Properties                                                              *)
(***************************************************************************)

(* Every running watch task belongs to the watcher the registry holds for  *)
(* its key, so that a later cleanup_vault_instance can stop it: neither    *)
(* setup_vault_instance's overwrite nor the del after stop() may leave a   *)
(* watch task running outside the registry.                                *)
WatchersRegistered == ~operator.orphaned

(* The unseal call the timer of an object makes for one of its instances  *)
(* uses a VaultClient built from that object's own instance configuration *)
(* -- its endpoint -- never one another object registered under the same   *)
(* "namespace/instance_name" key.  (The handlers' calls use the client     *)
(* their own setup has just stored.)                                       *)
ServedByOwnClient ==
    [][\A o \in Objects :
         TimerStep(o) =>
           operator'.vault_clients[Head(ttodo[o])] \in {NoClient, o}]_vars

(* A watcher the registry holds has a running watch task, except while a  *)
(* cleanup_vault_instance of its key awaits stop(): the del after the      *)
(* await, even when another object's task replaced or removed the entry    *)
(* meanwhile, never leaves a cancelled watcher registered, where the       *)
(* timer's "client_key not in vault_clients" check would never replace it. *)
RegisteredWatcherRunning ==
    \A n \in Names :
        operator.pod_watchers[n] = "cancelled"
          => \E o \in Objects : hpc[o] = "stop" /\ cur[o] = n

(* Deletion completes: an object marked for deletion is eventually gone,   *)
(* even when delete_vault_unseal_config raised KeyError because another    *)
(* object's cleanup of a shared key ran during its await of stop().        *)
DeletionCompletes ==
    \A o \in Objects : phase[o] = "deleting" ~> phase[o] = "gone"
=============================================================================
