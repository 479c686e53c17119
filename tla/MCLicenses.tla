----------------------------- MODULE MCLicenses -----------------------------
(***************************************************************************)
(* Small instances of Licenses for TLC.                                    *)
(***************************************************************************)
EXTENDS Licenses

\* The OVERRIDE_LICENSE lines GPL <- GPL3, GPL <- GPL3_OR_LATER and
\* GPL3 <- GPL3_OR_LATER, the licences in the order of license_map:
\* GPL3_OR_LATER is 1, GPL3 is 2 and GPL is 3.
OverrideChain == {<<3, 2>>, <<3, 1>>, <<2, 1>>}

\* One licence that overrides another.
OverridePair == {<<2, 1>>}
=============================================================================
