--------------------------- MODULE MCTokenStream ---------------------------
EXTENDS TokenStream

MCToken == 0 .. 2

(* A stand-in for a model: every token, and where it is, makes a difference *)
(* to what comes next.                                                      *)
MCGreedy(seen) ==
  FoldLeft(LAMBDA acc, p : (5 * acc + 2 * p[1] + 3 * p[2] + 1) % 7, Len(seen), seen) % 3

Config(prompt, cached, seed, positions, max, eos) ==
  [prompt |-> prompt, cached |-> cached, seed |-> seed, positions |-> positions,
   max_new_tokens |-> max, eos |-> eos]

(* Prompts of up to two tokens, every way to configure the model, and a     *)
(* token that ends the stream, or none (3).                                 *)
MCConfigs ==
  {Config(p, c, <<>>, i, m, e) :
     p \in {<<0>>, <<2>>, <<0, 1>>, <<2, 1>>, <<1, 1>>}, c \in BOOLEAN, i \in BOOLEAN,
     m \in {0, 1, 3, 5}, e \in {2, 3}}
=============================================================================
