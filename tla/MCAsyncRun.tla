----------------------------- MODULE MCAsyncRun -----------------------------
(* Two calls, every way of consuming them; and one call that is awaited.    *)
EXTENDS AsyncRun, TLC

CallSymmetry == Permutations(Call)
=============================================================================
