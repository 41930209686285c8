--------------------------- MODULE GreedyDecoding ---------------------------
(***************************************************************************)
(* What a TokenStream promises: the tokens it yields are the ones a model  *)
(* without a cache would choose, each from the whole sequence before it,   *)
(* and once it has ended it yields no more.                                *)
(***************************************************************************)
EXTENDS Naturals, Sequences

CONSTANTS Configs,    \* the calls of Session::generate to choose from
          Greedy(_)   \* the argmax of the logits after a sequence of placed tokens

VARIABLES config, out, over

vars == <<config, out, over>>

(* A token and its position, as a decoder sees it.                          *)
Placed(tokens, first) == [k \in DOMAIN tokens |-> <<tokens[k], first + k - 1>>]

Init == config \in Configs /\ out = <<>> /\ over = FALSE

Yield ==
  LET token == Greedy(Placed(config.prompt \o out, 0))
  IN /\ ~over
     /\ Len(out) < config.max_new_tokens
     /\ out' = Append(out, token)
     /\ over' = (token = config.eos)
     /\ UNCHANGED config

(* Cancelled, or a step failed.                                             *)
Stop == ~over /\ over' = TRUE /\ UNCHANGED <<config, out>>

Next == Yield \/ Stop

Spec == Init /\ [][Next]_vars
=============================================================================
