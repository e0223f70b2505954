----------------------------- MODULE PodWatcher -----------------------------
(***************************************************************************)
(* PodWatcher (pod_watcher.py): the watch task of one HA instance, the     *)
(* pods of its namespace, the watch stream between them, and the Vault     *)
(* behind the instance's URL.                                              *)
(*                                                                         *)
(* _watch_pods opens w.stream(list_namespaced_pod, timeout_seconds=60)     *)
(* without a resourceVersion, so the API server first sends ADDED for      *)
(* every existing pod, then one event per change, until it closes the      *)
(* stream (timeout, 410 expiry, error).  _async_stream pulls each event    *)
(* with run_in_executor(None, next, gen).  stream_generator turns every    *)
(* end of the stream, errors included, into a normal return, so next()     *)
(* raises StopIteration in the worker thread; asyncio refuses to store a   *)
(* StopIteration in a Future (TypeError in the loop's callback, Python     *)
(* 3.8 and later), the awaited future never completes and the task waits   *)
(* for ever: the `except StopIteration: break` and the reopen of the outer *)
(* loop are never reached.  Handling an event (_handle_pod_event) awaits   *)
(* is_sealed() of the instance's VaultClient and then VaultClient.unseal,  *)
(* whose protocol VaultUnseal models; here it is one suspension that may   *)
(* or may not leave the Vault unsealed.                                    *)
(*                                                                         *)
(* stop() (from cleanup_vault_instance) sets running to False, cancels the *)
(* task and awaits it; CancelledError, a BaseException, passes through the *)
(* `except Exception` clauses and ends the task at whatever await it sits. *)
(* The running flag is never seen False by the task: nothing can run       *)
(* between the assignment and cancel().                                    *)
(***************************************************************************)
EXTENDS Naturals, Sequences, FiniteSets, SequencesExt

CONSTANTS
    Pods,           \* pod UIDs of the watched namespace (model values)
    Matching,       \* the pods whose labels match podSelector.matchLabels
                    \* when the watcher starts
    NoPod,          \* model value: no event being handled
    MaxPodChanges,  \* bound on pod changes made by the cluster
    MaxReseals      \* bound on the Vault being sealed again

ASSUME Matching \subseteq Pods /\ NoPod \notin Pods

\* A watch event carries the pod object as it was when the event was
\* produced: its readiness and whether its labels matched the selector.
Event == [type : {"ADDED", "MODIFIED", "DELETED"}, pod : Pods, ready : BOOLEAN,
          match : BOOLEAN]

VARIABLES
    pod,        \* per pod: "absent", "notready", "ready" (Running, podIP
                \* set, every container ready) or "gone"
    sealed,     \* the Vault answering at the instance's URL is sealed
    stream,     \* events the open watch has produced and the task has not
                \* pulled yet
    open,       \* the API server still holds the watch open
    wpc,        \* the watch task: "start" (before w.stream), "next"
                \* (awaiting next(gen)), "check" (awaiting is_sealed),
                \* "unseal" (awaiting _attempt_unseal), "hung" (awaiting a
                \* future that never completes) or "stopped"
    curPod,     \* the pod of the event being handled
    monitored,  \* keys of monitored_pods
    stopping,   \* stop() has been called and awaits the task
    changes,    \* pod changes so far
    reseals,    \* reseals so far
    matching    \* the pods whose labels match podSelector.matchLabels now

vars == <<pod, sealed, stream, open, wpc, curPod, monitored, stopping,
          changes, reseals, matching>>

TypeOK ==
    /\ pod \in [Pods -> {"absent", "notready", "ready", "gone"}]
    /\ sealed \in BOOLEAN
    /\ stream \in Seq(Event)
    /\ open \in BOOLEAN
    /\ wpc \in {"start", "next", "check", "unseal", "hung", "stopped"}
    /\ curPod \in Pods \cup {NoPod}
    /\ monitored \subseteq Pods
    /\ stopping \in BOOLEAN
    /\ changes \in 0..MaxPodChanges
    /\ reseals \in 0..MaxReseals
    /\ matching \subseteq Pods

Exists(p) == pod[p] \in {"notready", "ready"}

\* The watcher is created and started by setup_vault_client whatever the
\* pods and the Vault are doing at that moment.
Init ==
    /\ pod \in [Pods -> {"absent", "notready", "ready"}]
    /\ sealed \in BOOLEAN
    /\ stream = << >>
    /\ open = FALSE
    /\ wpc = "start"
    /\ curPod = NoPod
    /\ monitored = {}
    /\ stopping = FALSE
    /\ changes = 0
    /\ reseals = 0
    /\ matching = Matching

-----------------------------------------------------------------------------
(* The watch task.                                                         *)

\* w.stream(...) without a resourceVersion: the initial list as ADDED events.
OpenStream ==
    /\ wpc = "start"
    /\ ~stopping
    /\ stream' = [i \in 1..Cardinality({p \in Pods : Exists(p)}) |->
                    LET p == SetToSeq({q \in Pods : Exists(q)})[i]
                    IN [type |-> "ADDED", pod |-> p, ready |-> pod[p] = "ready",
                        match |-> p \in matching]]
    /\ open' = TRUE
    /\ wpc' = "next"
    /\ UNCHANGED <<pod, sealed, curPod, monitored, stopping, changes, reseals, matching>>

\* Mutant: the handler keys the pod by the whole event instead of its
\* metadata.uid.
HandleEvent_KeyByEvent ==
    LET e == Head(stream) IN
    /\ wpc = "next"
    /\ ~stopping
    /\ stream # << >>
    /\ stream' = Tail(stream)
    /\ \/ /\ ~e.match
          /\ UNCHANGED <<wpc, curPod, monitored, matching>>
       \/ /\ e.match
          /\ e.type = "DELETED" \/ ~e.ready
          /\ monitored' = monitored \ {e.pod}
          /\ UNCHANGED <<wpc, curPod, matching>>
       \/ /\ e.match
          /\ e.type # "DELETED" /\ e.ready
          /\ wpc' = "check"
          /\ curPod' = e
          /\ UNCHANGED monitored
    /\ UNCHANGED <<pod, sealed, open, stopping, changes, reseals, matching>>

\* Mutant: the elif branch of _handle_pod_event is lost, so a pod that is
\* no longer ready stays in monitored_pods.
HandleEvent_KeepNotReady ==
    LET e == Head(stream) IN
    /\ wpc = "next"
    /\ ~stopping
    /\ stream # << >>
    /\ stream' = Tail(stream)
    /\ \/ /\ ~e.match \/ (e.type # "DELETED" /\ ~e.ready)
          /\ UNCHANGED <<wpc, curPod, monitored, matching>>
       \/ /\ e.match
          /\ e.type = "DELETED"
          /\ monitored' = monitored \ {e.pod}
          /\ UNCHANGED <<wpc, curPod, matching>>
       \/ /\ e.match
          /\ e.type # "DELETED" /\ e.ready
          /\ wpc' = "check"
          /\ curPod' = e.pod
          /\ UNCHANGED monitored
    /\ UNCHANGED <<pod, sealed, open, stopping, changes, reseals, matching>>

(* One event through _handle_pod_event up to its first await: the          *)
(* selector filter, the DELETED branch, and the synchronous checks of      *)
(* _is_vault_pod_ready_and_sealed (a pod that is not Running, has no IP or *)
(* a container not ready is not actionable and leaves monitored_pods).     *)
HandleEvent ==
    LET e == Head(stream) IN
    /\ wpc = "next"
    /\ ~stopping
    /\ stream # << >>
    /\ stream' = Tail(stream)
    /\ \/ /\ ~e.match
          /\ UNCHANGED <<wpc, curPod, monitored, matching>>
       \/ /\ e.match
          /\ e.type = "DELETED" \/ ~e.ready
          /\ monitored' = monitored \ {e.pod}
          /\ UNCHANGED <<wpc, curPod, matching>>
       \/ /\ e.match
          /\ e.type # "DELETED" /\ e.ready
          /\ wpc' = "check"
          /\ curPod' = e.pod
          /\ UNCHANGED monitored
    /\ UNCHANGED <<pod, sealed, open, stopping, changes, reseals, matching>>

\* The stream has ended and every event was pulled: next(gen) raises
\* StopIteration and the awaited future is never resolved.
StreamExhausted ==
    /\ wpc = "next"
    /\ ~stopping
    /\ stream = << >>
    /\ ~open
    /\ wpc' = "hung"
    /\ UNCHANGED <<pod, sealed, stream, open, curPod, monitored, stopping,
                   changes, reseals, matching>>

(* is_sealed() answers (or raises, which counts as not actionable): an     *)
(* actionable pod is put into monitored_pods and _attempt_unseal starts;   *)
(* any other answer takes it out.                                          *)
SealCheckDone ==
    /\ wpc = "check"
    /\ ~stopping
    /\ \E answered \in BOOLEAN :
         IF answered /\ sealed
         THEN /\ monitored' = monitored \cup {curPod}
              /\ wpc' = "unseal"
         ELSE /\ monitored' = monitored \ {curPod}
              /\ wpc' = "next"
    /\ UNCHANGED <<pod, sealed, stream, open, curPod, stopping, changes, reseals, matching>>

\* _attempt_unseal returns, having unsealed the Vault or not; the result is
\* only logged.
UnsealDone ==
    /\ wpc = "unseal"
    /\ ~stopping
    /\ sealed' \in {sealed, FALSE}
    /\ wpc' = "next"
    /\ curPod' = NoPod
    /\ UNCHANGED <<pod, stream, open, monitored, stopping, changes, reseals, matching>>

\* stop(): running = False, watch_task.cancel(), then await the task.
Stop ==
    /\ ~stopping
    /\ wpc # "stopped"
    /\ stopping' = TRUE
    /\ UNCHANGED <<pod, sealed, stream, open, wpc, curPod, monitored, changes, reseals, matching>>

\* Mutant: stop() only clears running and does not cancel the task, which
\* then ends only when it pulls another event and sees the flag.
Cancelled_NoCancel ==
    /\ stopping
    /\ wpc = "next"
    /\ stream # << >>
    /\ wpc' = "stopped"
    /\ UNCHANGED <<pod, sealed, stream, open, curPod, monitored, stopping, changes, reseals, matching>>

\* The CancelledError reaches the task's pending await and ends it; stop()
\* returns.
Cancelled ==
    /\ stopping
    /\ wpc # "stopped"
    /\ wpc' = "stopped"
    /\ UNCHANGED <<pod, sealed, stream, open, curPod, monitored, stopping, changes, reseals, matching>>

-----------------------------------------------------------------------------
(* The cluster and the Vault (environment).                                *)

\* A pod is created, becomes ready or not ready, or is deleted; the open
\* watch reports it.
PodChange ==
    /\ changes < MaxPodChanges
    /\ \E p \in Pods, to \in {"notready", "ready", "gone"} :
         /\ \/ pod[p] = "absent" /\ to = "notready"
            \/ pod[p] = "notready" /\ to \in {"ready", "gone"}
            \/ pod[p] = "ready" /\ to \in {"notready", "gone"}
         /\ pod' = [pod EXCEPT ![p] = to]
         /\ LET type == CASE pod[p] = "absent" -> "ADDED"
                          [] to = "gone"        -> "DELETED"
                          [] OTHER              -> "MODIFIED"
            IN stream' = IF open
                         THEN Append(stream, [type |-> type, pod |-> p, ready |-> to = "ready",
                                         match |-> p \in matching])
                         ELSE stream
    /\ changes' = changes + 1
    /\ UNCHANGED <<sealed, open, wpc, curPod, monitored, stopping, reseals, matching>>

\* The labels of an existing pod are edited so that it enters or leaves the
\* selector; the open watch reports it as MODIFIED.
Relabel ==
    /\ changes < MaxPodChanges
    /\ \E p \in Pods :
         /\ Exists(p)
         /\ matching' = IF p \in matching THEN matching \ {p} ELSE matching \cup {p}
         /\ stream' = IF open
                      THEN Append(stream, [type |-> "MODIFIED", pod |-> p,
                                           ready |-> pod[p] = "ready",
                                           match |-> p \notin matching])
                      ELSE stream
    /\ changes' = changes + 1
    /\ UNCHANGED <<pod, sealed, open, wpc, curPod, monitored, stopping, reseals>>

\* The API server closes the watch: timeout_seconds elapsed, the resource
\* version expired (410) or the connection failed.
StreamEnds ==
    /\ open
    /\ open' = FALSE
    /\ UNCHANGED <<pod, sealed, stream, wpc, curPod, monitored, stopping, changes, reseals, matching>>

Reseal ==
    /\ reseals < MaxReseals
    /\ ~sealed
    /\ sealed' = TRUE
    /\ reseals' = reseals + 1
    /\ UNCHANGED <<pod, stream, open, wpc, curPod, monitored, stopping, changes, matching>>

Task == OpenStream \/ HandleEvent \/ StreamExhausted \/ SealCheckDone \/ UnsealDone

Next ==
    \/ Task \/ Stop \/ Cancelled
    \/ PodChange \/ Relabel \/ StreamEnds \/ Reseal

(* Every await of the task completes (requests carry a timeout, the watch  *)
(* has timeout_seconds=60), a cancelled task is resumed, and the server     *)
(* closes the watch within 60 seconds.  Users and stop() are not fair.     *)
Fairness ==
    /\ WF_vars(Task)
    /\ WF_vars(Cancelled)
    /\ WF_vars(StreamEnds)

Spec == Init /\ [][Next]_vars /\ Fairness

-----------------------------------------------------------------------------
(***************************************************************************)
(* Properties                                                              *)
(***************************************************************************)

(* Spec 3 (MonitoredPod: removed on delete or when it stops being          *)
(* actionable): while the watch is open, a monitored pod is ready in the   *)
(* cluster, or an event about it is still on its way to _handle_pod_event. *)
(* Violated once labels change: the events of a pod that left the selector *)
(* are filtered out (spec 4.3), its deletion included.                     *)
MonitoredPodsCurrent ==
    (wpc # "stopped" /\ open) =>
        \A p \in monitored :
            pod[p] = "ready" \/ \E i \in 1..Len(stream) : stream[i].pod = p

(* What _handle_pod_event does keep: while the watch is open, a monitored *)
(* pod whose labels match the selector is ready in the cluster, or an     *)
(* event about it is still on its way -- across label edits that take it *)
(* out of the selector and back, and pod changes during the task's awaits. *)
SelectedPodsCurrent ==
    (wpc # "stopped" /\ open) =>
        \A p \in monitored \cap matching :
            pod[p] = "ready" \/ \E i \in 1..Len(stream) : stream[i].pod = p

(* Spec 9: stop() always terminates and returns, even if no further event  *)
(* ever arrives on the watch.                                              *)
StopReturns == stopping ~> wpc = "stopped"

(* Spec 4.3: the end of the watch stream (timeout, 410 expiry) triggers a  *)
(* transparent reopen: a watch that has ended is open again later, unless  *)
(* the watcher was stopped.                                                *)
WatchReopened ==
    (wpc \notin {"start", "stopped"} /\ ~open) ~> (open \/ wpc = "stopped")

=============================================================================
