--------------------------- MODULE MCOperatorV2 ----------------------------
(* Model values for OperatorV2: one object and four spec bodies --         *)
(*   sHA:     valid, haEnabled, keys from a secretRef;                     *)
(*   sPlain:  valid, no HA, inline keys;                                   *)
(*   sBadHA:  good url but failing validate_spec (threshold), haEnabled;   *)
(*   sBadUrl: url rejected by validate_url.                                *)
EXTENDS OperatorV2

CONSTANTS r1, sHA, sPlain, sBadHA, sBadUrl

MCResources == {r1}
MCSpecs == {sHA, sPlain, sBadHA, sBadUrl}
MCUrlValid == {sHA, sPlain, sBadHA}
MCSpecValid == {sHA, sPlain}
MCHA == {sHA, sBadHA}
MCSecretRef == {sHA}
=============================================================================
