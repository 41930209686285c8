-------------------------- MODULE MCSizeClassPool --------------------------
(* Three classes with scaled-down bounds, two buffers on a free list.  The  *)
(* foreign buffers are one that grew past its length and a tiny one.       *)
EXTENDS SizeClassPool

MCBound == <<2, 3>>
MCForeign == {[cap |-> 5, len |-> 1], [cap |-> 1, len |-> 1]}
=============================================================================
