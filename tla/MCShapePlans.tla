---------------------------- MODULE MCShapePlans ----------------------------
(***************************************************************************)
(* A session with an input x, an optional input o, and two initializers    *)
(* that are graph inputs too: i, which callers override, and j.            *)
(***************************************************************************)
EXTENDS ShapePlans, TLC

Wide == <<2, 3>>
Tall == <<3, 2>>
Symbol(s) == <<"symbol", s>>
Static(n) == <<"static", n>>
Unknown == <<"unknown", 0>>

MCInfos == "x" :> <<Symbol("N"), Unknown>> @@ "i" :> <<Symbol("N"), Unknown>>
           @@ "o" :> <<Static(2), Static(3)>> @@ "j" :> <<Static(3), Static(2)>>
MCWeights == "i" :> Wide @@ "j" :> Tall
Node(rule, in, out) == [rule |-> rule, in |-> in, out |-> out]
MCNodes == <<Node("transpose", "x", "t"), Node("opaque", "x", "z"), Node("elementwise", "z", "v"),
             Node("elementwise", "i", "u"), Node("elementwise", "o", "q")>>

(* x alone, with i's default overridden, with o, and with two extents for   *)
(* N.                                                                       *)
MCFeeds == {"x" :> Wide, "x" :> Tall @@ "i" :> Tall,
            "x" :> Wide @@ "o" :> Wide, "x" :> Wide @@ "i" :> Tall}
MCBuffers == {Wide, Tall}
=============================================================================
