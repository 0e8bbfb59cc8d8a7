---------------------------- MODULE MCBundleExport ----------------------------
(***************************************************************************)
(* Values of the constants for checking BundleExport with TLC.             *)
(***************************************************************************)
EXTENDS BundleExport, TLC

CONSTANTS e1, e2, v1

Mixed == (e1 :> "v1") @@ (e2 :> "v2") @@ (v1 :> "v1")

===============================================================================
