---------------------------- MODULE MCBundleReplay ----------------------------
(***************************************************************************)
(* Values of the constants for checking BundleReplay with TLC.             *)
(***************************************************************************)
EXTENDS BundleReplay, TLC

CONSTANTS r1, r2

Pairs == {(r1 :> "v1") @@ (r2 :> "v2"), (r1 :> "v2") @@ (r2 :> "v3"), (r1 :> "v3") @@ (r2 :> "v3")}
===============================================================================
