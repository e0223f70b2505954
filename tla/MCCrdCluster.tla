---------------------------- MODULE MCCrdCluster ----------------------------
(* Model values for CrdCluster: two operator pods starting together (a    *)
(* rolling update, or two replicas), one invocation of each CLI command,   *)
(* and four VaultUnseal objects a user may apply.                          *)
EXTENDS CrdCluster

CONSTANTS pod1, pod2, install, update, uninstall

MCOperators == {pod1, pod2}
MCClis == {install, update, uninstall}
MCCommand == [c \in MCClis |->
                 CASE c = install -> "install"
                   [] c = update -> "update"
                   [] OTHER -> "uninstall"]

Spec1(inst) == Obj("spec" :> Obj("vaultInstances" :> Arr(<<inst>>)))

\* A v1 instance with one key and no threshold (defaulted to 3).
OneKey == Obj(("name" :> Str) @@ ("endpoint" :> Str) @@ ("unsealKeys" :> Arr(<<Str>>)))
\* A v1 instance with two keys and threshold 2, and one with no endpoint.
TwoKeys == Obj(("threshold" :> Int(2)) @@ ("unsealKeys" :> Arr(<<Str, Str>>)) @@ OneKey.f)
NoEndpoint == Obj(("name" :> Str) @@ ("unsealKeys" :> Arr(<<Str>>)))
\* An operator_v2 body: url and inline keys.
V2Body == Obj("spec" :> Obj(("url" :> Str)
                            @@ ("unsealKeys" :> Obj("secret" :> Arr(<<Str>>)))))

MCBodies == {Spec1(OneKey), Spec1(TwoKeys), Spec1(NoEndpoint), V2Body}
=============================================================================
