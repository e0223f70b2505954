\* Two operator pods and one install-crd, update-crd and uninstall-crd
\* each, with a wait loop of two polls and one failed request.  Operator
\* pods restart after every exit, so the system never stops.
CONSTANTS
    pod1 = pod1
    pod2 = pod2
    install = install
    update = update
    uninstall = uninstall
    Operators <- MCOperators
    Clis <- MCClis
    Command <- MCCommand
    Timeout = 2
    MaxErrors = 1
SPECIFICATION Spec
INVARIANT TypeOK
