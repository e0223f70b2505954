# TLA+ models of vault-autounseal-operator

These modules model the operator under `src/src/vault_autounseal_operator/`. The operator is a kopf-based Kubernetes operator. It watches `VaultUnsealConfig` objects and submits unseal key shares to HashiCorp Vault whenever the Vault is sealed. The models are checked with TLC. `PROJECT.json` lists:

- the components;
- the runs;
- the mutants, which are code-level bugs every property must catch;
- the map from each definition to the source lines it models;
- the findings;
- the hazards.

## The system and how its parts interact

| Part | Source | Role |
|---|---|---|
| Vault seal client | `vault_client.py` | `is_sealed`, `get_seal_status` and `unseal(keys, threshold)`. `unseal` checks its input, decodes every key strictly (base64 and UTF-8), then submits the first `threshold` keys one by one. It logs and skips a key whose submission raises, then reads the final status. The HTTP session retries every method, PUT included, up to 3 times. |
| Registry and handlers | `operator_v2.py` | `VaultOperatorV2` keeps `vault_clients` and `pod_watchers` keyed by `namespace/name`. kopf runs `create_vault_config` (also on resume), `update_vault_config`, `delete_vault_config` and a 30 s timer, `reconcile_vault_config`. Each of them ends in `check_and_unseal_vault`, which builds the status (`sealed`, `lastUnsealed`, `error`). |
| Pod watch subsystem | `pod_watcher.py` | For an HA instance, a task watches Vault pods matching the selector. For each ready pod it asks `is_sealed` and calls `unseal`. It keeps `monitored_pods`. `stop()` cancels the task. |
| Config validator | `security.py` | `validate_spec` and the validators it calls: url, names, keys, threshold with default `min(3, num_keys)`, interval and labels. |
| v1 operator | `operator.py` | The handler set over a `vaultInstances` list. **`main.py` imports this module, not `operator_v2`**, and the CRD that `crd_manager.py` installs (`crd_schema.py`) has the same `vaultInstances` shape. So v1 is the operator that ships. `spec.md` and the tests describe V2. Both are modelled. |
| CRD manager | `crd_manager.py` | `ensure_crd_exists` reads the CRD and creates it on a 404. `create_crd` then polls `_wait_for_crd_established` for up to 30 one-second iterations and raises `TimeoutError` after that. `update_crd` patches the CRD, and `delete_crd` deletes it. |
| Entry point, CLI | `main.py`, `cli.py` | `main()` runs `ensure_crd_exists` and then awaits `kopf.run`. `kopf.run` is synchronous and starts its own event loop, so inside `asyncio.run(main())` it raises RuntimeError. `main()` re-raises it (main.py:57). Every exception ends the pod, which the kubelet restarts. `install-crd`, `update-crd` and `uninstall-crd` each run one CRDManager call. |
| CRD generation | `crd_schema.py`, `crd_kopf.py`, `kopf_crd.py` | `CRDGenerator.generate_schema` builds the v1 openAPIV3Schema that `create_crd` and `update_crd` send. `generate-crd` writes it as YAML through `_schema_to_dict`. `generate-crd --use-kopf` would write `crd_kopf`'s YAML text instead, which has the operator_v2 shape (`url`, `unsealKeys.secret`/`secretRef`, `status.vaultStatus`). It raises first, because `kopf.build_object_reference` is called on a dataclass class (crd_kopf.py:18). The API server prunes, defaults and validates every object against the installed schema. |

Every operator pod and every CLI invocation is a separate process. They meet only at the API server, which holds the one CRD. Inside an operator pod, all handlers, the timer and the watch tasks share one asyncio event loop. A task is suspended only at an `await`: the blocking HTTP calls go through `run_in_executor`, along with `stop()`, the watch stream and `asyncio.sleep`. Between two awaits a handler runs atomically. kopf serialises the handlers of one object, but the timer is a separate task and interleaves with them. The actions of the models are cut at exactly these awaits.

## Modules

| Module | Models | State | Actions |
|---|---|---|---|
| `VaultUnseal` | `VaultClient.unseal`/`is_sealed`/`get_seal_status` and `check_and_unseal_vault`'s status. Two concurrent callers (the timer and a pod watcher) act on one Vault server. | The Vault's `sealed` and its set of received shares. Per caller: the program counter, the key index, the failed keys, and whether it started sealed. | `StartCall`, `IsSealed*`, `SealStatus`, `SubmitKey`, `KeyFailed`, `FinalStatus`, `Reseal` |
| `OperatorV2` | The registry and handlers of `operator_v2.py` under kopf's per-object serialisation. The object's lifecycle and a process restart are part of the model. | The object body (spec version, validity, HA, keys readable), kopf's handled body, and the registry entry (client and watcher with the spec each was built from). Also in the state: the watchers ever started, and the stage of an update or delete paused at `await stop()`. | `CreateHandler`, `CreateCheckDone`, `UpdateHandler`, `UpdateAfterStop`, `DeleteHandler`, `DeleteAfterStop`, `TimerFires`, `TimerCheckDone`, `Restart`, user edits and deletion |
| `PodWatcher` | `PodWatcher._watch_pods`, `_handle_pod_event`, `_is_vault_pod_ready_and_sealed`, `_attempt_unseal`, `_async_stream` and `stop`. | The pods' phases, the Vault's seal, the watch stream (a sequence of events) and whether the server keeps it open. The pods whose labels match the selector now; each event carries the pod's readiness and label match at the time it was produced. The task's program counter, the pod being handled, `monitored_pods` and `stopping`. | `OpenStream`, `HandleEvent`, `SealCheckDone`, `UnsealDone`, `StreamExhausted`, `Stop`, `Cancelled`, `PodChange`, `Relabel`, `StreamEnds`, `Reseal` |
| `OperatorV1` | The handlers of `operator.py` for two objects in one namespace. The registry is keyed by instance name, as the code's `namespace/instance_name` key is. | Per object: the body, the last handled body, and the handler stage with its lists of names to clean up and to set up. Also per object: the timer and its remaining names. The registry holds, per name, the object whose configuration built the client and the state of the registered watcher (none, running, cancelled). A flag records that some watch task runs outside the registry. | `HandlerStart` (kopf's choice of create/resume, update or delete), `CleanupStep`, `StopReturned` (after `await stop()`), `SetupStep`, `Return`, `TimerStart`, `TimerStep`, `TimerDone`, `TimerStops`, `Finalize`, user actions, `Restart` |
| `UnsealContract` | What an unseal call promises its caller, with no keys or requests. A call may unseal the Vault, and the environment may seal it at any time. A call returns an outcome that is true of the Vault at the moment of return. | `sealed`, and per caller `busy` and `outcome`. | `Begin`, `Answer` (returns without running), `Unseal`, `Finish`, `Seal` |
| `CRDManager` | `CRDManager` as `main.main` and `cli.main` use it. Operator pods and CLI invocations are concurrent processes. | The CRD at the API server: absent, pending, established or terminating. Per process: the next request, or how the process ended, and the wait loop's iteration count. Also the count of failed requests. | `EnsureCrdExists`, `CreateCrd`, `WaitForCrdEstablished`, `WaitTimedOut`, `UpdateCrd`, `DeleteCrd`, `KopfRun` (raises), `RestartPod` (kubelet), `CrdEstablished`, `CrdRemoved` (API server) |
| `CrdSchema` | The three schemas (`generate_schema`, its `_schema_to_dict` YAML, `crd_kopf`'s YAML) as data, and the API server's admission: prune unknown fields, fill defaults, validate. Also what the v1 handlers read from an object (`vaultInstances`, `name`, `endpoint`, `unsealKeys`, `threshold` with default 3). JSON values are records tagged with their type. | None: operators only. | None |
| `CrdCluster` | `CRDManager` (by `INSTANCE`) composed with the schema the CRD carries, one `VaultUnsealConfig` object, and users applying CRD YAML and objects. No pod ever serves, so kopf writes no status and adds no finalizer. A deleted CRD therefore goes together with its object. | CRDManager's variables, `schema` and `obj`. | `CreateCrd` and `UpdateCrd` (install `generate_schema`), the other CRDManager requests including `KopfRun`, `ApplyCrdYaml`, `ApplyObject`, `CrdRemoved` (deletes the object too) |
| `SpecValidation` | `validate_spec` and its validators as operators over abstract specs. Each field is "ok" or a way of being rejected, and a Kubernetes name is lower-case, mixed-case (accepted and returned lower-cased by `validate_kubernetes_name`) or bad; an inline key is `b64`, `lenient` or `bad`, classified by what the two decoders of the code accept. Also modelled: `get_unseal_keys`, the Secret it names for the raw and for the validated spec, and `unseal`'s input checks. | The stored spec. | `EditThreshold` |

Each `MC*.tla` module fixes the model values for TLC.

**Refinement.** `VaultUnseal` ends with `Contract == INSTANCE UnsealContract WITH ...`. The mapping takes `sealed` from the Vault, and a caller counts as busy whenever its program counter is not idle. The run `unseal_concurrent` checks `ImplementsContract == Contract!Spec` as a property. So every outcome that `check_and_unseal_vault` or the pod watcher's unseal returns is true of the Vault when it is returned, despite retried PUTs, a concurrent caller and a reseal in the middle of a call. Every call also returns. The mutant `FinalStatus_Stale` reports a status that is not read from the Vault, and it breaks the refinement.

**kopf's resume cycle.** kopf records the handled body in an annotation. When the body changed while the operator was down, the first cycle after a restart is an update cycle in which the resume handler runs as well. The operators model this directly:
- the resume call runs on the new body and records nothing;
- the update handler then runs on that same body (`hpc = "update_due"`, `UpdateDue`, `UpdateBody`);
- a deletion drops the pending update;
- after a restart, kopf starts the timer of every object that exists.

## Runs

| Run | Checks | Shows |
|---|---|---|
| `unseal_concurrent` (pass) | `TypeOK`, `FailedKeysExplainSealed`, `ImplementsContract` | With two concurrent callers, retried PUTs and a reseal, a call that ends with the Vault sealed always has key failures or a reseal to explain it. `VaultUnseal` implements `UnsealContract`. |
| `unseal_misconfigured` (pass) | `CallsReturn` | With an undecodable key and too few genuine shares, every call returns under weak fairness of each caller. |
| `operator_lifecycle` (pass) | `TypeOK`, `GoneLeavesNoEntry`, `HandledBodyOwnsClient`, `RegistryConverges` | Create, update, delete, the timer and restarts interleave. A deleted object leaves no client or watcher behind. After an update has completed, the client was built from the body kopf handled. A live object with a valid spec eventually has a client built from that spec. This also holds after a restart with an edit made during the downtime. |
| `orphan_watcher` (violation) | `NoOrphanWatcher` | The timer sets up an instance before create does. Create's `setup_vault_client` then overwrites it, and the first watch task runs on with no registry entry (operator_v2.py:85). |
| `ha_without_watcher` (violation) | `HAClientHasWatcher` | The client is stored before `get_unseal_keys` raises. The HA instance then keeps a client without a watcher, and later calls skip setup (operator_v2.py:91). |
| `pod_watcher` (pass) | `TypeOK`, `SelectedPodsCurrent`, `StopReturns` | Pod events queue while the task awaits, and pod labels may be edited into and out of the selector. Every monitored pod that still matches the selector is ready or has an event still in flight. `stop()` always returns, because cancellation ends any await. |
| `watch_reopen` (violation) | `WatchReopened` | When the server closes the watch, `next(gen)` raises StopIteration in the executor, and asyncio cannot deliver it to the future. The task waits for ever and never reopens (pod_watcher.py:180). Reproduced with plain Python 3.11. |
| `crd_install` (pass) | `TypeOK`, `V1HandlersRead` | Runs `MCCrdCluster`. Two operator pods start together with an `install-crd`, an `update-crd` and an `uninstall-crd`, and one request may fail. Meanwhile a user may apply either generated CRD YAML and four objects. The pods crash-loop: each exits on a 409, a timeout, a failed request or at `kopf.run`, and is restarted. The wait loop stays within its `range(timeout)` bound. Whichever schema is installed, every object the API server admits has the fields the v1 handlers subscript. |
| `spec_validation` (pass) | `TypeOK`, `CreateThresholdUnsealable` | Every accepted spec with inline keys passes `unseal`'s input checks with the validated threshold. |
| `timer_secret` (violation) | `TimerReadsValidatedSecret` | `validate_kubernetes_name` accepts a `secretRef` name such as `MySecret` by its lower-case form and returns that form, so create and update read the Secret `mysecret`. The timer passes the raw `body.spec` to `get_unseal_keys`, which asks for `MySecret`, a name no Secret can have (operator_v2.py:42). TLC finds it in the initial state. |
| `v1_lifecycle` (pass) | `TypeOK`, `RegisteredWatcherRunning`, `DeletionCompletes` | Two objects list the same instance name and are created, edited (including to a bad endpoint, so setup raises and kopf retries), deleted and resumed after a restart, while their timers run. A cancelled watcher stays registered only while the cleanup that cancelled it awaits `stop()`. Every deletion completes, even when a concurrent cleanup of the shared key makes `del self.pod_watchers[key]` raise KeyError and kopf retries. |
| `v1_shared_key` (violation) | `ServedByOwnClient` | Two objects of one namespace listing an instance of the same name share one registry entry. One object's timer unseals through the client, and so the endpoint, that the other object configured (operator.py:30). |

The project is at its limit of 12 runs, so eight further results are reported as findings without a run of their own. Each reproduces by adding one line to an existing cfg, in place of its other properties where it has any:

- `INVARIANT LastUnsealedOnTransition` in `VaultUnseal.cfg` fails in 2 steps. `lastUnsealed` is stamped when the Vault was already unsealed (operator_v2.py:138), while spec §4.4 stamps it only on a transition.
- `INVARIANT PartialFailureSurfaced` in `VaultUnseal.cfg` fails. After failed submissions the Vault stays sealed, yet the status has `error=None` (operator_v2.py:140).
- `INVARIANT RegisteredSpecValidated` in `OperatorV2.cfg` fails. The timer sets up a client from the raw `body.spec`, which was never validated (operator_v2.py:238).
- `PROPERTY ServesOnEstablished` in `CRDManager.cfg` fails. `ensure_crd_exists` counts any CRD it reads as existing (crd_manager.py:23). A pod that restarts while `uninstall-crd` removes the CRD therefore calls `kopf.run` on a terminating CRD. The same happens with a CRD that another pod created and that is not yet established.
- `PROPERTY OperatorServes` in `CRDManager.cfg` or `CrdCluster.cfg` fails. It states that every pod eventually stays in `kopf.run`. Instead, `kopf.run` raises inside `asyncio.run(main())` and `main()` re-raises (main.py:50-57), so every pod crash-loops and the operator never serves a handler. kopf is not installed here, so this rests on kopf's documented API (`kopf.run` is synchronous; `kopf.operator` is the coroutine), not on an execution.
- `INVARIANT ThresholdWithinKeys` in `CrdCluster.cfg` fails. The schema defaults `threshold` to 3, has no maximum, and requires only one key (crd_schema.py:108-119). An instance with one or two keys and no threshold is admitted with threshold 3, and every `unseal` then raises "Threshold exceeds number of available keys". Spec §3 states 1 ≤ threshold ≤ numKeys. The v1 handlers do not validate.
- `INVARIANT MonitoredPodsCurrent` in `PodWatcher.cfg` fails in 9 steps. The watch has no label selector, and `_handle_pod_event` drops every event whose pod does not match (pod_watcher.py:85), as spec §4.3 says. A monitored pod whose labels are edited out of the selector therefore stays in `monitored_pods` after it stops being ready, and after it is deleted. Spec §3 says a monitored pod is removed on delete or when it is no longer actionable, so the two sections of the spec disagree.
- `INVARIANT WatchersRegistered` in `OperatorV1.cfg` fails. v1's `setup_vault_instance` overwrites the registered watcher, and this leaks the old watch task. It happens on the timer-before-create path and on every update of a kept HA instance (operator.py:146).

Every property of a passing run has a mutant in `PROJECT.json`: a plausible bug in the mapped definition that TLC must catch.

## Bounds

- **VaultUnseal:** three keys, threshold two, one Vault, and submissions counted up to the retry bound. This is enough for a share to arrive twice, for the other caller's share to complete the quorum, and for a reseal to land mid-loop.
- **CRDManager:** two operator pods and three CLI invocations, one of each command, with the CRD initially absent or established. `Timeout = 2` stands for the 30 iterations: what matters is that the loop can end before or after the CRD is established, removed or recreated. At most one request fails (`MaxErrors = 1`). This gives 26,361 states in 6 s on its own (`MCCRDManager`, kept for the `ServesOnEstablished` and `OperatorServes` reproductions). `CrdCluster` adds four objects: one v1 instance with one key and no threshold, one with two keys and threshold 2, one without an endpoint, and an operator_v2 body. These cover an admitted object, a rejected one, the threshold default and a body of the other shape. The result is 143,400 states in about 90 s.
- **OperatorV2:** one object and two spec versions. There are bounded edits, restarts and timer ticks, and `keysReadable` may be false. This covers every handler interrupted at its await by the timer or a restart.
- **PodWatcher:** two pods, one outside the selector at first, with four pod changes or label edits and one reseal. Events delayed behind an await, ignored pods, and a pod leaving and re-entering the selector all occur (1,001,568 states, 45 s). Before label edits were added, three pods gave no new behaviour and took three minutes.
- **OperatorV1:** two objects, one instance name, and bodies "n1 as HA" or "n1 with a bad endpoint". There is one edit and one restart. This covers the shared key, concurrent cleanups of it, a raising setup retried by kopf, and a restart during any stage: 351,266 states, about 100 s with the liveness check. The only edit here leads to a body whose setup raises, so the resume-then-update path is never reached in this run. Adding the third body (n1 listed with no instance) reaches it, but the run then takes more than 5 minutes: 957,066 states. Two names multiply the space by more than ten and add only the list order, which matters for the partial-failure leak of the finding above.
- **SpecValidation:** up to three inline keys of each kind, thresholds 0..4 and absent, and up to three stored keys. This includes the edges at zero and at `min(3, n)` for n = 1, 2 and 3.

## Fairness

- **VaultUnseal:** weak fairness on each caller's step. The event loop runs every ready task, and each HTTP call returns or raises after the client timeout (vault_client.py:16-19).
- **PodWatcher:** weak fairness on the task, on cancellation and on the end of the stream. The stream ends because the watch is opened with `timeout_seconds=60`.
- **OperatorV2:** weak fairness on each object's handler (every step of create, update and delete), its timer and its finalizer. The justification is the same as for v1 below.
- **CRDManager:** weak fairness on each process's next request, since every request returns or raises. There is also weak fairness on the kubelet's restart of a failed operator pod (`restartPolicy: Always`), and on the API server establishing a created CRD and removing a deleted one. CLI invocations get no fairness: the users' commands present at the start are all there are. Users applying YAML or objects get no fairness. These fairness conditions matter only for the finding `OperatorServes`: the passing CRD run checks invariants only.
- **OperatorV1:** weak fairness on each object's handler, timer and finalizer. kopf retries a failed handler with back-off, fires the timer of a live object every 30 s, and removes the finalizer once the handler and timer are done. Each await in a handler returns: the cancelled watch task ends, and the requests have timeouts.

`CHECK_DEADLOCK FALSE` is used only where the system may really stop. In PodWatcher a stopped task with a quiet, bounded cluster is a final state. Operator pods restart after every exit, so CRDManager and CrdCluster never stop and are checked for deadlock.

## Not modelled

- **The handlers under `main.py`.** `main.py` never gets kopf to serve (finding `OperatorServes`), so in a pod started by it no handler, timer or pod watcher ever runs. OperatorV1, OperatorV2, PodWatcher and VaultUnseal model the handlers as kopf runs them when it is started some other way, for example `kopf run`. The repository has no such entry point. CrdCluster follows `main.py`: it has no status write-back and no finalizers. kopf's storage of handler results at `status.<handler id>` is therefore not modelled. The v1 CRD's status schema would prune those results anyway (crd_schema.py:142).
- **The watched namespace.** With `haEnabled` and no `spec.namespace`, the validated spec says `'default'`, so a watcher set up by create or update watches pods in `default`. One set up by the timer from the raw spec watches the object's own namespace (operator_v2.py:94). No model has more than one namespace, because no property of the pod watcher depends on which namespace it lists.
- **The results of v1's unseal calls.** OperatorV1 models them only as a suspension. Their status has the same two divergences as V2: `lastUnsealed` is set when nothing was unsealed, and `error` is None after a partial failure.
- **Deletion after an unhandled edit in v1.** The delete handler cleans up only the instances of the current body (operator.py:169). An instance removed by an edit whose update has not run yet is never cleaned up. No property isolates this case.
- **Pods versus service.** `_is_vault_pod_ready_and_sealed` asks the instance URL, not the pod. Several Vault replicas behind one Service are not modelled.
- **Secret rotation** after setup.
- **Key count for a secretRef.** `validate_spec` assumes 10 keys for a secretRef (security.py:197).
- **Event object type (unverified).** The kubernetes client's `Watch.stream` yields `V1Pod` objects, yet `_handle_pod_event` subscripts them as dicts (`pod["metadata"]`). If so, every pod event raises. This could not be checked without the library. It is not modelled: events are treated as the dicts the code expects.
- **CRD details.** The model leaves out the following:
  - nulls in handler results (`error: None`, `lastUnsealed: None`);
  - the `description` and `format` keywords;
  - CRD names and versions;
  - `crd_kopf.generate_crd` itself, which raises AttributeError at its first `kopf.build_object_reference` call (crd_kopf.py:18). CrdCluster still offers its YAML text to a user who copies it out of the source, which over-approximates;
  - `kopf_crd.py`, which writes what `kopf.build_crd` returns (unverified without kopf).

  `tests/test_crd_generation.py` expects `CRDGenerator` to produce the V2 shape (`url`, `vaultStatus`), but the code produces the v1 shape. The model follows the code.
- **Start-up and pure code.** The CLI's output and options, the `generate-crd` and `validate-config` commands, logging, `sanitize_log_data`, `is_initialized` and `health_check` change no operator state.

## Plan for later sittings

1. Compose PodWatcher with OperatorV1 and OperatorV2, so that a leaked watcher's unseal calls reach VaultUnseal.
2. Strengthen `UnsealContract`, so that a call with a quorum of genuine keys and no reseal returns "unsealed".
3. Model the CRD's status conditions in more detail, for `WaitForCrdEstablished` reading a CRD that is being deleted.
5. Once `main.py` starts kopf correctly, compose `CrdCluster` with `OperatorV1`: status write-back, finalizers, and `uninstall-crd` with objects left.
4. Model several Vault replicas behind one Service, for `_is_vault_pod_ready_and_sealed`.
