----------------------------- MODULE CrdCluster -----------------------------
(***************************************************************************)
(* The API server shared by CRDManager's processes, the users' kubectl and *)
(* the operator pods: CRDManager (installation by operator pods and the   *)
(* CLI) composed with the schema the installed CRD carries and one         *)
(* VaultUnsealConfig object admitted under it.                             *)
(*                                                                         *)
(* A user may install the CRD with kubectl from the YAML that              *)
(* `generate-crd` or `generate-crd --use-kopf` writes, and may apply a     *)
(* VaultUnsealConfig from Bodies once the CRD is established.  main()     *)
(* never gets kopf to serve (kopf.run raises, see CRDManager), so kopf     *)
(* never adds a finalizer to an object nor writes its status: a CRD being  *)
(* deleted is removed together with its object.                           *)
(***************************************************************************)
EXTENDS CrdSchema

CONSTANTS
    Operators, Clis, Command, Timeout, MaxErrors,
    Bodies      \* VaultUnsealConfig objects a user may apply

VARIABLES
    crd, pc, tries, errors,   \* as in CRDManager
    schema,     \* the openAPIV3Schema of the installed CRD
    obj         \* the stored VaultUnsealConfig

Mgr == INSTANCE CRDManager

mvars == <<crd, pc, tries, errors>>
cvars == <<crd, pc, tries, errors, schema, obj>>

NoSchema == Node("none")
NoObject == [t |-> "absent"]

\* The schemas a user can install: the generate-crd and the --use-kopf YAML.
UserSchemas == {SchemaToDict(GeneratedSchema), KopfSchema}
Schemas == {GeneratedSchema} \cup UserSchemas

TypeOK ==
    /\ Mgr!TypeOK
    /\ schema \in Schemas \cup {NoSchema}
    /\ (crd = "absent") = (schema = NoSchema)
    /\ obj = NoObject \/ obj.t = "object"

Init ==
    /\ Mgr!Init
    /\ schema \in IF crd = "absent" THEN {NoSchema} ELSE Schemas
    /\ obj = NoObject

-----------------------------------------------------------------------------
(* CRDManager's requests, with the schema they install.                    *)

\* create_crd sends CRDGenerator.generate_crd().
CreateCrd(p) ==
    /\ Mgr!CreateCrd(p)
    /\ schema' = IF crd = "absent" /\ crd' = "pending" THEN GeneratedSchema ELSE schema
    /\ UNCHANGED obj

\* update_crd patches the CRD with CRDGenerator.generate_crd().
UpdateCrd(p) ==
    /\ Mgr!UpdateCrd(p)
    /\ schema' = IF pc'[p] = "done" THEN GeneratedSchema ELSE schema
    /\ UNCHANGED obj

OtherRequest(p) ==
    /\ \/ Mgr!EnsureCrdExists(p) \/ Mgr!WaitForCrdEstablished(p)
       \/ Mgr!WaitTimedOut(p) \/ Mgr!DeleteCrd(p) \/ Mgr!KopfRun(p)
    /\ UNCHANGED <<schema, obj>>

Step(p) == CreateCrd(p) \/ UpdateCrd(p) \/ OtherRequest(p)

RestartPod(p) == Mgr!RestartPod(p) /\ UNCHANGED <<schema, obj>>

CrdEstablished == Mgr!CrdEstablished /\ UNCHANGED <<schema, obj>>

\* The API server removes a deleted CRD and deletes its object, which
\* carries no finalizer.
CrdRemoved ==
    /\ Mgr!CrdRemoved
    /\ schema' = NoSchema
    /\ obj' = NoObject

-----------------------------------------------------------------------------
(* Users.                                                                  *)

\* kubectl apply -f of a generated YAML: creates the CRD, or replaces the
\* schema of one that is not being deleted.
ApplyCrdYaml(s) ==
    /\ crd # "terminating"
    /\ schema # s
    /\ crd' = IF crd = "absent" THEN "pending" ELSE crd
    /\ schema' = s
    /\ UNCHANGED <<pc, tries, errors, obj>>

\* kubectl apply of a VaultUnsealConfig, admitted under the CRD's schema.
ApplyObject(b) ==
    /\ crd = "established"
    /\ LET w == Admit(schema, b) IN
         /\ w # Rejected
         /\ obj' = w
    /\ UNCHANGED <<crd, pc, tries, errors, schema>>

Next ==
    \/ \E p \in Mgr!Procs : Step(p)
    \/ \E p \in Operators : RestartPod(p)
    \/ CrdEstablished \/ CrdRemoved
    \/ \E s \in UserSchemas : ApplyCrdYaml(s)
    \/ \E b \in Bodies : ApplyObject(b)

(***************************************************************************)
(* CRDManager's fairness.  Users are not fair.                             *)
(***************************************************************************)
Fairness ==
    /\ \A p \in Mgr!Procs : WF_cvars(Step(p))
    /\ \A p \in Operators : WF_cvars(RestartPod(p))
    /\ WF_cvars(CrdEstablished) /\ WF_cvars(CrdRemoved)

Spec == Init /\ [][Next]_cvars /\ Fairness

-----------------------------------------------------------------------------
(* The operator serves: every pod eventually stays in kopf.run.            *)
OperatorServes == Mgr!OperatorServes

(* Whichever way the CRD was installed -- create_crd or update_crd, the    *)
(* generate-crd YAML, the --use-kopf YAML -- every object the API server   *)
(* stores is one the v1 handlers read without raising: each entry of       *)
(* spec.vaultInstances has the name, endpoint and unsealKeys they          *)
(* subscript, and an integer threshold if any.                             *)
V1HandlersRead ==
    obj # NoObject =>
        \A i \in 1..Len(VaultInstances(obj)) : V1Readable(VaultInstances(obj)[i])

(* Spec 3, 4.1 (1 <= threshold <= numKeys): every instance of a stored    *)
(* object asks unseal for no more keys than it lists.                      *)
ThresholdWithinKeys ==
    obj # NoObject =>
        \A i \in 1..Len(VaultInstances(obj)) :
            V1Threshold(VaultInstances(obj)[i]) <= V1KeyCount(VaultInstances(obj)[i])
=============================================================================
