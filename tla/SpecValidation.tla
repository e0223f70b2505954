--------------------------- MODULE SpecValidation ---------------------------
(***************************************************************************)
(* SecurityValidator (security.py) and the two paths by which a user's     *)
(* VaultUnsealConfig spec reaches VaultClient.unseal (operator_v2.py):     *)
(*                                                                         *)
(*  - create/resume/update: validate_spec, then setup_vault_client and     *)
(*    check_and_unseal_vault on the validated spec;                        *)
(*  - the 30s timer: check_and_unseal_vault on the raw body.spec.          *)
(*                                                                         *)
(* Both fetch the keys with get_unseal_keys and read the threshold with    *)
(* spec.get('threshold', 3); unseal() then re-checks its input.  The CRD   *)
(* of operator_v2 defaults threshold to 3 (crd_kopf.py), so the operator   *)
(* receives a threshold on both paths; a missing one is kept in SpecDomain *)
(* only for validate_spec's own min(3, num_keys) default.                  *)
(*                                                                         *)
(* A spec is abstracted to what the validators tell apart: each field is   *)
(* "ok" or one of the ways a check rejects it, an inline key is one of     *)
(* KeyKinds, and a secretRef carries the number of (good) keys its Secret  *)
(* holds.  A Kubernetes name is "lower" (a DNS label as written), "mixed"  *)
(* (a DNS label once lower-cased, as validate_kubernetes_name accepts and  *)
(* returns it) or "bad".  Every check of the validators raises ValueError *)
(* and every such error ends the handler the same way, so a validator is   *)
(* the conjunction of its checks; the error message is not modelled.       *)
(*                                                                         *)
(* The user may change the spec at any time: the one variable is the spec *)
(* currently stored, and every property is stated of it.                   *)
(***************************************************************************)
EXTENDS Naturals, Sequences, FiniteSets

CONSTANTS
    MaxInlineKeys,  \* longest inline key list enumerated
    MaxThreshold,   \* largest spec.threshold enumerated
    MaxStoredKeys,  \* most keys a referenced Secret holds
    NoThreshold     \* model value: spec.threshold absent

\* SecurityValidator.MAX_UNSEAL_KEYS
MAX_UNSEAL_KEYS == 10

(***************************************************************************)
(* An inline key, by what the two base64 decoders of the code make of it:  *)
(*   "b64"     b64decode(k, validate=True).decode("utf-8") succeeds;       *)
(*   "lenient" the lenient b64decode(k) yields bytes, the strict decode    *)
(*             fails (characters outside the alphabet, or bytes that are   *)
(*             not UTF-8);                                                 *)
(*   "bad"     empty, longer than 1024, not base64 at all, or decoding to  *)
(*             no bytes.                                                   *)
(***************************************************************************)
KeyKinds == {"b64", "lenient", "bad"}

SeqsUpTo(S, n) == UNION {[1..k -> S] : k \in 0..n}

InlineSources == [kind : {"secret"}, keys : SeqsUpTo(KeyKinds, MaxInlineKeys)]

RefSources ==
    [kind : {"secretRef"}, name : {"lower", "mixed", "bad", "missing"},
     refNamespace : {"absent", "lower", "mixed", "bad"}, key : {"ok", "bad"},
     stored : 1..MaxStoredKeys]

\* unsealKeys holding both sources, or neither.
OtherSources == [kind : {"both", "none"}]

SpecDomain ==
    [url : {"ok", "bad"},
     source : InlineSources \cup RefSources \cup OtherSources,
     namespace : {"absent", "lower", "mixed", "bad"},
     threshold : {NoThreshold} \cup 0..MaxThreshold,
     interval : {"ok", "bad"},
     selector : {"absent", "ok", "bad"}]

VARIABLE spec

-----------------------------------------------------------------------------
(* The validators.                                                         *)

\* validate_url: non-empty, at most MAX_URL_LENGTH, a scheme in
\* ALLOWED_SCHEMES and a host; the reconstructed URL is not modelled.
ValidateUrl(u) == u = "ok"

\* validate_kubernetes_name: the DNS-label check is made on name.lower(),
\* and name.lower() is what it returns.
ValidateKubernetesName(n) ==
    [ok |-> n \in {"lower", "mixed"}, name |-> IF n = "mixed" THEN "lower" ELSE n]

\* validate_secret_key: non-empty, at most MAX_KEY_LENGTH, SECRET_KEY_REGEX.
ValidateSecretKey(k) == k = "ok"

\* validate_unseal_keys: non-empty, at most MAX_UNSEAL_KEYS, and every key
\* non-empty, short enough and decoding (leniently) to some bytes.
ValidateUnsealKeys(keys) ==
    /\ Len(keys) >= 1
    /\ Len(keys) <= MAX_UNSEAL_KEYS
    /\ \A i \in 1..Len(keys) : keys[i] # "bad"

\* Mutant: the lower bound of validate_threshold is dropped.
ValidateThreshold_NoLowerBound(t, n) ==
    /\ t <= n
    /\ t <= MAX_UNSEAL_KEYS

\* validate_threshold(threshold, num_keys)
ValidateThreshold(t, n) ==
    /\ t >= 1
    /\ t <= n
    /\ t <= MAX_UNSEAL_KEYS

\* validate_spec's num_keys: the inline list's length, or MAX_UNSEAL_KEYS
\* assumed for a secretRef.
NumKeys(s) ==
    IF s.source.kind = "secret" THEN Len(s.source.keys) ELSE MAX_UNSEAL_KEYS

MinOf(a, b) == IF a <= b THEN a ELSE b

(***************************************************************************)
(* validate_spec accepts s: the url (validate_url), exactly one key        *)
(* source, inline keys (validate_unseal_keys) or a secretRef with a valid  *)
(* name, key and optional namespace, the optional namespace, the threshold *)
(* against num_keys (validate_threshold), the reconcileInterval format and *)
(* the podSelector labels.                                                 *)
(***************************************************************************)
Accepted(s) ==
    LET src == s.source IN
    /\ ValidateUrl(s.url)
    /\ src.kind \in {"secret", "secretRef"}
    /\ src.kind = "secret" => ValidateUnsealKeys(src.keys)
    /\ src.kind = "secretRef" =>
         /\ ValidateKubernetesName(src.name).ok
         /\ ValidateSecretKey(src.key)
         /\ src.refNamespace # "absent" => ValidateKubernetesName(src.refNamespace).ok
    /\ s.namespace # "absent" => ValidateKubernetesName(s.namespace).ok
    /\ s.threshold # NoThreshold => ValidateThreshold(s.threshold, NumKeys(s))
    /\ s.interval = "ok"
    /\ s.selector # "bad"

\* Mutant: a missing threshold defaults to 3 whatever the number of keys.
ValidatedThreshold_DefaultThree(s) ==
    IF s.threshold = NoThreshold THEN 3 ELSE s.threshold

\* The validated threshold: validate_threshold's, or min(3, num_keys).
ValidatedThreshold(s) ==
    IF s.threshold = NoThreshold THEN MinOf(3, NumKeys(s)) ELSE s.threshold

\* The Secret get_unseal_keys reads for a secretRef: its name, and its
\* namespace or the object's ("object"), as validate_spec returns them.
ValidatedSecret(s) ==
    <<ValidateKubernetesName(s.source.name).name,
      IF s.source.refNamespace = "absent" THEN "object"
      ELSE ValidateKubernetesName(s.source.refNamespace).name>>

\* validate_spec: whether s is accepted, and the validated threshold.
ValidateSpec(s) == [ok |-> Accepted(s), threshold |-> ValidatedThreshold(s)]

\* get_unseal_keys, when the read succeeds: the inline list, or the keys
\* parsed from the referenced Secret.
GetUnsealKeys(s) ==
    IF s.source.kind = "secret" THEN s.source.keys
    ELSE [i \in 1..s.source.stored |-> "b64"]

\* The Secret get_unseal_keys reads for the raw spec: secretRef.name and
\* secretRef.get('namespace', namespace) as written.
RawSecret(s) ==
    <<s.source.name,
      IF s.source.refNamespace = "absent" THEN "object" ELSE s.source.refNamespace>>

\* The input checks of VaultClient.unseal, which raise before any request.
UnsealInputOk(keys, t) ==
    /\ Len(keys) >= 1
    /\ t >= 1
    /\ t <= Len(keys)
    /\ ValidateUnsealKeys(keys)

\* The stored spec, and the threshold of an accepted spec lies within
\* 1..MAX_UNSEAL_KEYS.
TypeOK ==
    /\ spec \in SpecDomain
    /\ ValidateSpec(spec).ok => ValidateSpec(spec).threshold \in 1..MAX_UNSEAL_KEYS

-----------------------------------------------------------------------------
Init == spec \in SpecDomain

\* The user edits the threshold of the stored spec (kubectl edit); every
\* other spec is an initial state.
EditThreshold ==
    \E t \in ({NoThreshold} \cup 0..MaxThreshold) \ {spec.threshold} :
        spec' = [spec EXCEPT !.threshold = t]

Next == EditThreshold

Spec == Init /\ [][Next]_spec

-----------------------------------------------------------------------------
(***************************************************************************)
(* Properties                                                              *)
(***************************************************************************)

(* The spec create_vault_config hands on (the validated one) with inline   *)
(* keys always passes VaultClient.unseal's input checks: the default       *)
(* threshold min(3, num_keys) and validate_threshold keep it within the    *)
(* keys, and validate_spec applies the same key checks as unseal.          *)
CreateThresholdUnsealable ==
    LET v == ValidateSpec(spec) IN
    (v.ok /\ spec.source.kind = "secret")
        => UnsealInputOk(GetUnsealKeys(spec), v.threshold)

(* Spec 2.4, 3 (a Config is produced fresh, validated, on every trigger;  *)
(* names are case-folded): for an accepted spec with a secretRef, the      *)
(* Secret the 30s timer reads for the raw body.spec is the one             *)
(* create_vault_config reads for the validated spec.                       *)
TimerReadsValidatedSecret ==
    (Accepted(spec) /\ spec.source.kind = "secretRef")
        => RawSecret(spec) = ValidatedSecret(spec)

=============================================================================
