---------------------------- MODULE MCCRDManager ----------------------------
(* Model values for CRDManager: two operator pods starting together (a    *)
(* rolling update, or two replicas) and one invocation of each CLI command.*)
EXTENDS CRDManager

CONSTANTS pod1, pod2, install, update, uninstall

MCOperators == {pod1, pod2}
MCClis == {install, update, uninstall}
MCCommand == [c \in MCClis |->
                 CASE c = install -> "install"
                   [] c = update -> "update"
                   [] OTHER -> "uninstall"]
=============================================================================
