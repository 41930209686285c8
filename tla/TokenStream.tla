---------------------------- MODULE TokenStream ----------------------------
(***************************************************************************)
(* TokenStream: the decode loop over one session, with or without a        *)
(* key/value cache.  The model is external: what it caches is the sequence *)
(* of tokens it has seen, each with the position it was given, and its     *)
(* logits are a function of that sequence and the tokens it is fed.        *)
(*                                                                         *)
(* A config record has prompt, cached (kv_cache is not empty), seed (what  *)
(* the bindings' initial tensors cover), positions (the model takes        *)
(* position_ids; otherwise it counts from what it has cached),             *)
(* max_new_tokens and eos.                                                 *)
(***************************************************************************)
EXTENDS Naturals, SequencesExt

CONSTANTS Token, Configs, Greedy(_)

ASSUME ConfigsAssumption ==
  \A c \in Configs :
    /\ c.prompt \in Seq(Token) /\ c.seed \in Seq(Token \X Nat)
    /\ c.cached \in BOOLEAN /\ c.positions \in BOOLEAN
    /\ c.max_new_tokens \in Nat

VARIABLES config,
          generated,  \* the tokens yielded
          past,       \* what the live cache covers
          finished,   \* the field of that name
          cancelled   \* the flag of config.cancellation

vars == <<config, generated, past, finished, cancelled>>

Total == Len(config.prompt) + Len(generated)

TypeOK ==
  /\ config \in Configs
  /\ generated \in Seq(Token) /\ Len(generated) <= config.max_new_tokens
  /\ past \in Seq(Token \X Nat)
  /\ finished \in BOOLEAN
  /\ cancelled \in BOOLEAN

Init ==
  /\ config \in Configs
  /\ generated = <<>>
  /\ past = config.seed
  /\ finished = FALSE
  /\ cancelled = FALSE

(* Variant: every step feeds the whole sequence.                            *)
step_ids_whole == config.prompt \o generated

(* The first step primes the cache with the prompt.                         *)
step_ids ==
  IF ~config.cached \/ generated = <<>> THEN config.prompt \o generated
  ELSE <<Last(generated)>>

(* Variant: positions count the tokens generated.                           *)
FirstPositionGenerated == IF config.positions THEN Len(generated) ELSE Len(past)

(* The position of the first token fed: the stream's word for it if the     *)
(* model has an input for that, else the model's own.                       *)
FirstPosition == IF config.positions THEN Total - Len(step_ids) ELSE Len(past)

(* What the model has seen once it has run.                                 *)
Seen == past \o [k \in DOMAIN step_ids |-> <<step_ids[k], FirstPosition + k - 1>>]

(* Variant: the cap is compared before the token in hand is counted.        *)
OpenOneMore == ~finished /\ Len(generated) <= config.max_new_tokens

(* next() gets past its first early return.                                 *)
Open == ~finished /\ Len(generated) < config.max_new_tokens

(* Variant: the next step starts from the same cache.                       *)
StepStale ==
  /\ Open /\ ~cancelled
  /\ generated' = Append(generated, Greedy(Seen))
  /\ finished' = (Greedy(Seen) = config.eos)
  /\ UNCHANGED <<config, past, cancelled>>

(* step: one forward pass, then the cache, the token and the end.           *)
Step ==
  /\ Open /\ ~cancelled
  /\ generated' = Append(generated, Greedy(Seen))
  /\ past' = IF config.cached THEN Seen ELSE past
  /\ finished' = (Greedy(Seen) = config.eos)
  /\ UNCHANGED <<config, cancelled>>

(* The run fails, or lacks an output: nothing but the end is recorded.      *)
StepFails ==
  /\ Open /\ ~cancelled
  /\ finished' = TRUE
  /\ UNCHANGED <<config, generated, past, cancelled>>

(* Variant: a cancelled step is skipped, and the token used up.             *)
NextCancelledOnce ==
  /\ Open /\ cancelled
  /\ cancelled' = FALSE
  /\ UNCHANGED <<config, generated, past, finished>>

NextCancelled ==
  /\ Open /\ cancelled
  /\ finished' = TRUE
  /\ UNCHANGED <<config, generated, past, cancelled>>

(* CancellationToken::cancel and reset, from any thread.                    *)
SetCancelled ==
  /\ cancelled' = ~cancelled
  /\ UNCHANGED <<config, generated, past, finished>>

Poll == Step \/ StepFails \/ NextCancelled
Next == Poll \/ SetCancelled

(* The caller goes on calling next().                                       *)
Spec == Init /\ [][Next]_vars /\ WF_vars(Poll)

-----------------------------------------------------------------------------
Ended == finished \/ Len(generated) >= config.max_new_tokens

(* The stream yields what decoding without a cache would.                   *)
Abstract == INSTANCE GreedyDecoding WITH out <- generated, over <- finished
DecodesGreedily == Abstract!Spec

(* The cache is always exactly one token behind, each token it covers at    *)
(* its own place in the sequence.                                           *)
CacheOneBehind ==
  config.cached /\ generated # <<>> =>
    past = Abstract!Placed(config.prompt \o Front(generated), 0)

(* Polled for long enough the stream ends, whoever sets or resets the       *)
(* token, and whatever fails.                                               *)
StreamEnds == <>Ended
=============================================================================
