--------------------------- MODULE MCOperatorV1 ----------------------------
(* Model values for OperatorV1: two objects in one namespace, two instance *)
(* names, and three instance configurations --                             *)
(*   cHA:    good endpoint, haEnabled;                                     *)
(*   cPlain: good endpoint, no HA;                                         *)
(*   cBad:   endpoint rejected by validate_url.                            *)
(* A body lists n1, n2 or both.                                            *)
EXTENDS OperatorV1, TLC

CONSTANTS o1, o2, n1, n2, cHA, cPlain, cBad

MCObjects == {o1, o2}
MCNameOrder == <<n1, n2>>
MCConfs == {cHA, cPlain, cBad}
MCUrlValid == {cHA, cPlain}
MCHA == {cHA}

\* n1 as an HA instance; n1 without HA; n2 as an HA instance.
sHA1 == (n1 :> cHA) @@ (n2 :> NoInst)
sPlain1 == (n1 :> cPlain) @@ (n2 :> NoInst)
sHA2 == (n1 :> NoInst) @@ (n2 :> cHA)
\* n1 as an HA instance listed before n2 with a bad endpoint.
sHA1Bad2 == (n1 :> cHA) @@ (n2 :> cBad)

MCSpecs == {sHA1, sPlain1, sHA2}

\* With the single name n1: n1 as an HA instance, n1 with a bad endpoint,
\* or no instance at all.
MCNameOrder1 == <<n1>>
oneHA == n1 :> cHA
oneBad == n1 :> cBad
oneNone == n1 :> NoInst
MCSpecs1 == {oneHA, oneNone}
MCSpecs1Bad == {oneHA, oneBad}
MCSpecsBad == {sHA1, sHA1Bad2}
=============================================================================
