------------------------------ MODULE CrdSchema ------------------------------
(***************************************************************************)
(* The openAPIV3Schema of the VaultUnsealConfig CRD, as the code builds it *)
(* in three ways, and what the API server does with an object under it.    *)
(*                                                                         *)
(*  - CRDGenerator.generate_schema (crd_schema.py), which create_crd and  *)
(*    update_crd send as a V1CustomResourceDefinition;                     *)
(*  - CRDGenerator._schema_to_dict of the same schema, the YAML that      *)
(*    `generate-crd` writes for kubectl;                                   *)
(*  - the YAML text of crd_kopf.generate_crd, which `generate-crd          *)
(*    --use-kopf` writes.                                                  *)
(*                                                                         *)
(* A schema node keeps the keywords admission acts on.  description and   *)
(* format are left out: no property is about them.  An optional keyword   *)
(* is a set of at most one element.  A JSON value is a record tagged with  *)
(* its type: an object's fields are a function from field names, an       *)
(* array is a sequence, and a string is one abstract value.                *)
(*                                                                         *)
(* The API server's part is modelled on Kubernetes' documented handling    *)
(* of structural schemas: fields the schema does not name are pruned,      *)
(* defaults are filled in, and the result is validated.  None of the three *)
(* schemas sets x-kubernetes-preserve-unknown-fields.                      *)
(***************************************************************************)
EXTENDS Naturals, Sequences, FiniteSets, TLC

Str == [t |-> "string"]
Int(n) == [t |-> "integer", n |-> n]
Bool(b) == [t |-> "boolean", b |-> b]
Obj(f) == [t |-> "object", f |-> f]
Arr(s) == [t |-> "array", s |-> s]

NoFields == [x \in {} |-> Str]

\* A V1JSONSchemaProps (or the YAML mapping) with only `type` set.
Node(ty) ==
    [type |-> ty, default |-> {}, minimum |-> {}, minItems |-> {},
     required |-> {}, properties |-> NoFields, items |-> {}, addl |-> {},
     oneOf |-> {}]

Props(n, f) == [n EXCEPT !.properties = f]
ObjectOf(f, req) == [Props(Node("object"), f) EXCEPT !.required = req]
ArrayOf(it) == [Node("array") EXCEPT !.items = {it}]
Defaulted(ty, d) == [Node(ty) EXCEPT !.default = {d}]

-----------------------------------------------------------------------------
(* The fields both generators declare alike.                               *)

PodSelectorNode ==
    Props(Node("object"),
          "matchLabels" :> [Node("object") EXCEPT !.addl = {Node("string")}])

ThresholdNode == [Defaulted("integer", Int(3)) EXCEPT !.minimum = {1}]

ConditionsNode ==
    ArrayOf(ObjectOf(("type" :> Node("string")) @@ ("status" :> Node("string"))
                     @@ ("lastTransitionTime" :> Node("string"))
                     @@ ("reason" :> Node("string")) @@ ("message" :> Node("string")),
                     {"type", "status"}))

\* An entry of spec.vaultInstances in CRDGenerator.generate_schema.
VaultInstanceNode ==
    ObjectOf(("name" :> Node("string")) @@ ("endpoint" :> Node("string"))
             @@ ("namespace" :> Defaulted("string", Str))
             @@ ("podSelector" :> PodSelectorNode)
             @@ ("unsealKeys" :> [ArrayOf(Node("string")) EXCEPT !.minItems = {1}])
             @@ ("threshold" :> ThresholdNode)
             @@ ("haEnabled" :> Defaulted("boolean", Bool(FALSE)))
             @@ ("tlsSkipVerify" :> Defaulted("boolean", Bool(FALSE))),
             {"name", "endpoint", "unsealKeys"})

\* CRDGenerator.generate_schema: spec.vaultInstances and the status with
\* conditions and vaultStatuses.
GeneratedSchema ==
    Props(Node("object"),
      ("spec" :> ObjectOf(("vaultInstances" :> ArrayOf(VaultInstanceNode))
                          @@ ("reconcileInterval" :> Defaulted("string", Str)),
                          {"vaultInstances"}))
      @@ ("status" :> Props(Node("object"),
            ("conditions" :> ConditionsNode)
            @@ ("vaultStatuses" :>
                  ArrayOf(ObjectOf(("name" :> Node("string"))
                                   @@ ("sealed" :> Node("boolean"))
                                   @@ ("lastUnsealed" :> Node("string"))
                                   @@ ("error" :> Node("string")),
                                   {"name", "sealed"}))))))

\* The schema in crd_kopf.generate_crd's YAML: the operator_v2 shape, with
\* url, unsealKeys.secret or unsealKeys.secretRef (oneOf), and a single
\* status.vaultStatus.
KopfSchema ==
    Props(Node("object"),
      ("spec" :> ObjectOf(
          ("url" :> Node("string"))
          @@ ("unsealKeys" :>
                [Props(Node("object"),
                   ("secret" :> ArrayOf(Node("string")))
                   @@ ("secretRef" :> ObjectOf(("name" :> Node("string"))
                                      @@ ("namespace" :> Node("string"))
                                      @@ ("key" :> Defaulted("string", Str)),
                                      {"name"})))
                 EXCEPT !.oneOf = {{"secret"}, {"secretRef"}}])
          @@ ("namespace" :> Defaulted("string", Str))
          @@ ("podSelector" :> PodSelectorNode)
          @@ ("threshold" :> ThresholdNode)
          @@ ("haEnabled" :> Defaulted("boolean", Bool(FALSE)))
          @@ ("tlsSkipVerify" :> Defaulted("boolean", Bool(FALSE)))
          @@ ("reconcileInterval" :> Defaulted("string", Str)),
          {"url", "unsealKeys"}))
      @@ ("status" :> Props(Node("object"),
            ("conditions" :> ConditionsNode)
            @@ ("vaultStatus" :>
                  ObjectOf(("sealed" :> Node("boolean"))
                           @@ ("lastUnsealed" :> Node("string"))
                           @@ ("lastChecked" :> Node("string"))
                           @@ ("error" :> Node("string")),
                           {"sealed"})))))

RECURSIVE SchemaToDict(_)

\* Mutant: the conversion leaves out the `required` lists.
SchemaToDict_NoRequired(s) ==
    [s EXCEPT !.properties = [p \in DOMAIN s.properties |-> SchemaToDict(s.properties[p])],
              !.items = {SchemaToDict(i) : i \in s.items},
              !.addl = {SchemaToDict(a) : a \in s.addl},
              !.oneOf = {}, !.required = {}]

(***************************************************************************)
(* CRDGenerator._schema_to_dict: every keyword that is set is copied, and  *)
(* properties, items and additionalProperties are converted recursively.   *)
(* Keywords it does not copy (oneOf among them) are dropped.               *)
(***************************************************************************)
SchemaToDict(s) ==
    [s EXCEPT !.properties = [p \in DOMAIN s.properties |-> SchemaToDict(s.properties[p])],
              !.items = {SchemaToDict(i) : i \in s.items},
              !.addl = {SchemaToDict(a) : a \in s.addl},
              !.oneOf = {}]

-----------------------------------------------------------------------------
(* Admission by the API server.                                            *)

\* The schema of field p of an object under node s: a declared property,
\* or additionalProperties.
FieldSchema(s, p) ==
    IF p \in DOMAIN s.properties THEN s.properties[p] ELSE CHOOSE a \in s.addl : TRUE

Known(s, v) ==
    IF s.addl # {} THEN DOMAIN v.f ELSE DOMAIN v.f \cap DOMAIN s.properties

\* Pruning of unknown fields and filling in of defaults, recursively.
RECURSIVE Normalize(_, _)
Normalize(s, v) ==
    IF v.t = "object" /\ s.type = "object"
    THEN LET absent == {p \in DOMAIN s.properties \ DOMAIN v.f :
                          s.properties[p].default # {}}
         IN Obj([p \in Known(s, v) \cup absent |->
                   IF p \in absent THEN CHOOSE d \in s.properties[p].default : TRUE
                   ELSE Normalize(FieldSchema(s, p), v.f[p])])
    ELSE IF v.t = "array" /\ s.type = "array" /\ s.items # {}
    THEN Arr([i \in DOMAIN v.s |-> Normalize(CHOOSE it \in s.items : TRUE, v.s[i])])
    ELSE v

\* Validation of a normalized value: type, minimum, minItems, required,
\* oneOf, and the same of every field and item.
RECURSIVE Valid(_, _)
Valid(s, v) ==
    /\ v.t = s.type
    /\ v.t = "integer" => \A m \in s.minimum : v.n >= m
    /\ v.t = "array" =>
         /\ \A m \in s.minItems : Len(v.s) >= m
         /\ \A it \in s.items : \A i \in DOMAIN v.s : Valid(it, v.s[i])
    /\ v.t = "object" =>
         /\ s.required \subseteq DOMAIN v.f
         /\ s.oneOf # {} => Cardinality({r \in s.oneOf : r \subseteq DOMAIN v.f}) = 1
         /\ \A p \in DOMAIN v.f : Valid(FieldSchema(s, p), v.f[p])

Rejected == [t |-> "rejected"]

\* What the API server stores for a write of v under schema s, or Rejected
\* (422 Unprocessable Entity).
Admit(s, v) == LET w == Normalize(s, v) IN IF Valid(s, w) THEN w ELSE Rejected

-----------------------------------------------------------------------------
(* Reading a stored object in the v1 handlers (operator.py).               *)

Field(v, p) == v.f[p]
Has(v, p) == v.t = "object" /\ p \in DOMAIN v.f

\* spec.get("vaultInstances", []) of body.get("spec", {}).
VaultInstances(o) ==
    IF Has(o, "spec") /\ Has(Field(o, "spec"), "vaultInstances")
    THEN Field(Field(o, "spec"), "vaultInstances").s
    ELSE << >>

\* An instance the handlers read without raising: create, update and delete
\* subscript name, setup_vault_instance subscripts endpoint, and
\* unseal_vault_instance subscripts unsealKeys and compares the threshold,
\* instance_config.get("threshold", 3), with integers.
V1Readable(inst) ==
    /\ inst.t = "object"
    /\ {"name", "endpoint", "unsealKeys"} \subseteq DOMAIN inst.f
    /\ Field(inst, "unsealKeys").t = "array"
    /\ Has(inst, "threshold") => Field(inst, "threshold").t = "integer"

\* instance_config.get("threshold", 3) and the number of keys unseal gets.
V1Threshold(inst) == IF Has(inst, "threshold") THEN Field(inst, "threshold").n ELSE 3
V1KeyCount(inst) == Len(Field(inst, "unsealKeys").s)
=============================================================================
