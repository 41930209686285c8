----------------------------- MODULE MCGpuOwner -----------------------------
(* Users are model values.  No symmetry: it would be unsound for the        *)
(* liveness properties.                                                     *)
EXTENDS GpuOwner
=============================================================================
