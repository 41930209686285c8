-------------------------- MODULE TokenStreamProofs --------------------------
(***************************************************************************)
(* Theorems about TokenStream, for every prompt, cap, end token and way to *)
(* configure the model, when the stream starts from an empty cache.        *)
(***************************************************************************)
EXTENDS TokenStream, SequenceTheorems, TLAPS

(* What is assumed of the model, and that nothing is resumed.               *)
FromScratch ==
  /\ \A c \in Configs : c.seed = <<>>
  /\ \A s \in Seq(Token \X Nat) : Greedy(s) \in Token

(* The cache is a function of the tokens: nothing before the first step and *)
(* without key/value bindings, else all of the sequence but its last token. *)
Covered ==
  IF config.cached /\ generated # <<>>
    THEN Abstract!Placed(config.prompt \o Front(generated), 0)
    ELSE <<>>

IInv == TypeOK /\ past = Covered

-----------------------------------------------------------------------------
(* Placing tokens one by one.                                               *)

LEMMA PlacedType ==
  ASSUME NEW s \in Seq(Token), NEW first \in Nat
  PROVE  /\ Abstract!Placed(s, first) \in Seq(Token \X Nat)
         /\ Len(Abstract!Placed(s, first)) = Len(s)
<1>1. Len(s) \in Nat /\ DOMAIN s = 1 .. Len(s)
  OBVIOUS
<1>2. \A k \in 1 .. Len(s) : s[k] \in Token /\ first + k - 1 \in Nat
  BY <1>1
<1> QED
  BY <1>1, <1>2 DEF Abstract!Placed

LEMMA FrontAppend ==
  ASSUME NEW s \in Seq(Token), NEW t \in Token
  PROVE  Front(Append(s, t)) = s
<1>1. Len(Append(s, t)) - 1 = Len(s) /\ \A k \in 1 .. Len(s) : Append(s, t)[k] = s[k]
  OBVIOUS
<1> QED
  BY <1>1 DEF Front

LEMMA FrontLast ==
  ASSUME NEW s \in Seq(Token), s # <<>>
  PROVE  /\ Front(s) \in Seq(Token)
         /\ Len(Front(s)) = Len(s) - 1
         /\ Last(s) \in Token
         /\ s = Append(Front(s), Last(s))
<1>1. Len(s) \in Nat /\ Len(s) # 0
  OBVIOUS
<1>2. Front(s) = SubSeq(s, 1, Len(s) - 1)
  BY DEF Front
<1>3. Front(s) \in Seq(Token) /\ Len(Front(s)) = Len(s) - 1
  <2>1. \A k \in 1 .. Len(s) - 1 : s[k] \in Token
    BY <1>1, ElementOfSeq
  <2>2. 1 \in Int /\ Len(s) - 1 \in Int
    BY <1>1
  <2> DEFINE front == SubSeq(s, 1, Len(s) - 1)
  <2>3. front \in Seq(Token) /\ Len(front) = IF 1 <= Len(s) - 1 THEN Len(s) - 1 - 1 + 1 ELSE 0
    BY <2>1, <2>2, SubSeqProperties
  <2>4. Front(s) = front
    BY <1>2
  <2> HIDE DEF front
  <2>5. Len(front) = Len(s) - 1
    <3>1. CASE 1 <= Len(s) - 1
      BY <1>1, <2>3, <3>1
    <3>2. CASE Len(s) = 1
      BY <2>3, <3>2
    <3>3. \A n \in Nat : n # 0 => 1 <= n - 1 \/ n = 1
      OBVIOUS
    <3> QED
      BY <1>1, <3>1, <3>2, <3>3
  <2> QED
    BY <2>3, <2>4, <2>5
<1>4. Last(s) \in Token /\ Last(s) = s[Len(s)]
  BY <1>1 DEF Last
<1>5. \A k \in 1 .. Len(s) - 1 : Front(s)[k] = s[k]
  BY <1>1, <1>2
<1>6. Len(Append(Front(s), Last(s))) = Len(s)
  BY <1>1, <1>3
<1>7. \A k \in 1 .. Len(s) : Append(Front(s), Last(s))[k] = s[k]
  BY <1>1, <1>3, <1>4, <1>5
<1>8. Append(Front(s), Last(s)) \in Seq(Token)
  BY <1>3, <1>4
<1> QED
  BY <1>3, <1>4, <1>6, <1>7, <1>8

(* A token appended to the second of two sequences ends both.               *)
LEMMA AppendConcat ==
  ASSUME NEW s \in Seq(Token), NEW u \in Seq(Token), NEW t \in Token
  PROVE  s \o Append(u, t) = Append(s \o u, t)
<1>1. <<t>> \in Seq(Token)
  OBVIOUS
<1>2. s \o (u \o <<t>>) = (s \o u) \o <<t>>
  BY <1>1, ConcatAssociative
<1>3. s \o u \in Seq(Token)
  BY ConcatProperties
<1>4. Append(u, t) = u \o <<t>> /\ Append(s \o u, t) = (s \o u) \o <<t>>
  BY <1>3, AppendIsConcat
<1> QED
  BY <1>2, <1>4

(* To place a sequence is to place its front and then its last token.       *)
LEMMA PlacedLast ==
  ASSUME NEW s \in Seq(Token), NEW t \in Token
  PROVE  Abstract!Placed(Append(s, t), 0) = Abstract!Placed(s, 0) \o << <<t, Len(s)>> >>
<1> DEFINE l == Abstract!Placed(Append(s, t), 0)
           p == Abstract!Placed(s, 0)
           r == p \o << <<t, Len(s)>> >>
<1>1. p \in Seq(Token \X Nat) /\ Len(p) = Len(s) /\ Len(s) \in Nat
  BY PlacedType
<1>2. Append(s, t) \in Seq(Token) /\ Len(Append(s, t)) = Len(s) + 1
  OBVIOUS
<1>3. l \in Seq(Token \X Nat) /\ Len(l) = Len(s) + 1
  BY <1>2, PlacedType
<1>4. << <<t, Len(s)>> >> \in Seq(Token \X Nat) /\ Len(<< <<t, Len(s)>> >>) = 1
  BY <1>1
<1>5. r \in Seq(Token \X Nat) /\ Len(r) = Len(s) + 1
  BY <1>1, <1>4
<1>6. \A k \in 1 .. Len(s) + 1 : l[k] = r[k]
  <2> SUFFICES ASSUME NEW k \in 1 .. Len(s) + 1
               PROVE  l[k] = r[k]
    OBVIOUS
  <2>1. l[k] = <<Append(s, t)[k], 0 + k - 1>>
    BY <1>1, <1>2 DEF Abstract!Placed
  <2>2. CASE k = Len(s) + 1
    <3>1. r[k] = << <<t, Len(s)>> >>[k - Len(p)]
      BY <1>1, <1>4, <2>2, ConcatProperties
    <3>2. k - Len(p) = 1
      BY <1>1, <2>2
    <3>3. r[k] = <<t, Len(s)>>
      BY <3>1, <3>2
    <3>4. Append(s, t)[k] = t /\ 0 + k - 1 = Len(s)
      BY <1>1, <2>2
    <3> QED
      BY <2>1, <3>3, <3>4
  <2>3. CASE k \in 1 .. Len(s)
    <3>1. r[k] = p[k]
      BY <1>1, <1>4, <2>3
    <3>2. p[k] = <<s[k], 0 + k - 1>>
      BY <1>1, <2>3 DEF Abstract!Placed
    <3>3. Append(s, t)[k] = s[k]
      BY <1>1, <2>3
    <3> QED
      BY <2>1, <3>1, <3>2, <3>3
  <2> QED
    BY <1>1, <2>2, <2>3
<1> HIDE DEF l, r
<1>7. l = r
  BY <1>3, <1>5, <1>6, SeqEqual
<1> QED
  BY <1>7 DEF l, r

-----------------------------------------------------------------------------
(* A step, seen from the sequence so far.                                   *)

(* A configuration and its fields.                                          *)
LEMMA StateType ==
  ASSUME IInv
  PROVE  /\ config.prompt \in Seq(Token) /\ generated \in Seq(Token)
         /\ config.prompt \o generated \in Seq(Token)
         /\ Len(config.prompt \o generated) = Total
         /\ Total \in Nat /\ Len(generated) \in Nat
         /\ config.cached \in BOOLEAN /\ config.positions \in BOOLEAN
         /\ config.max_new_tokens \in Nat
<1>1. config \in Configs /\ generated \in Seq(Token)
  BY DEF IInv, TypeOK
<1>2. config.prompt \in Seq(Token)
  BY <1>1, ConfigsAssumption
<1>3. config.prompt \o generated \in Seq(Token) /\ Len(config.prompt \o generated) = Total
  BY <1>1, <1>2, ConcatProperties DEF Total
<1>4. Len(config.prompt) \in Nat /\ Len(generated) \in Nat
  BY <1>1, <1>2
<1> QED
  BY <1>1, <1>2, <1>3, <1>4, ConfigsAssumption DEF Total

(* Whatever the configuration, the model ends a step having seen the whole  *)
(* sequence, each token at its own place.                                   *)
LEMMA SeesAll ==
  ASSUME IInv
  PROVE  Seen = Abstract!Placed(config.prompt \o generated, 0)
<1> DEFINE all == config.prompt \o generated
           Fed == [k \in DOMAIN step_ids |-> <<step_ids[k], FirstPosition + k - 1>>]
<1>1. past = Covered /\ Seen = past \o Fed
  BY DEF IInv, Seen
<1>2. CASE ~(config.cached /\ generated # <<>>)
  <2>1. step_ids = all /\ past = <<>>
    BY <1>1, <1>2 DEF step_ids, Covered
  <2>2. FirstPosition = 0
    BY <2>1, StateType DEF FirstPosition
  <2>3. Fed = Abstract!Placed(all, 0)
    BY <2>1, <2>2 DEF Abstract!Placed
  <2>4. Abstract!Placed(all, 0) \in Seq(Token \X Nat)
    BY StateType, PlacedType
  <2>5. <<>> \o Abstract!Placed(all, 0) = Abstract!Placed(all, 0)
    BY <2>4, ConcatEmptySeq
  <2> QED
    BY <1>1, <2>1, <2>3, <2>5
<1>3. CASE config.cached /\ generated # <<>>
  <2> DEFINE front == config.prompt \o Front(generated)
  <2>1. /\ Front(generated) \in Seq(Token) /\ Len(Front(generated)) = Len(generated) - 1
        /\ Last(generated) \in Token
        /\ generated = Append(Front(generated), Last(generated))
    BY <1>3, StateType, FrontLast
  <2>2. front \in Seq(Token) /\ Len(front) = Len(config.prompt) + Len(Front(generated))
    BY <2>1, StateType, ConcatProperties
  <2>3. Len(front) = Total - 1
    BY <2>1, <2>2, StateType DEF Total
  <2>4. past = Abstract!Placed(front, 0)
    BY <1>1, <1>3 DEF Covered
  <2>5. Len(past) = Total - 1
    BY <2>2, <2>3, <2>4, PlacedType
  <2>6. step_ids = <<Last(generated)>>
    BY <1>3 DEF step_ids
  <2>7. FirstPosition = Len(front)
    BY <2>3, <2>5, <2>6, StateType DEF FirstPosition
  <2>8. Fed = << <<Last(generated), Len(front)>> >>
    BY <2>6, <2>7, <2>3, StateType
  <2>9. all = Append(front, Last(generated))
    <3>1. config.prompt \o Append(Front(generated), Last(generated)) = Append(front, Last(generated))
      BY <2>1, StateType, AppendConcat
    <3> QED
      BY <2>1, <3>1
  <2> HIDE DEF front, all, Fed
  <2>10. Abstract!Placed(all, 0) = Abstract!Placed(front, 0) \o << <<Last(generated), Len(front)>> >>
    BY <2>1, <2>2, <2>9, PlacedLast
  <2> QED
    BY <1>1, <2>4, <2>8, <2>10 DEF all
<1> QED
  BY <1>2, <1>3

(* The token a step chooses.                                                *)
LEMMA ChosenType ==
  ASSUME IInv, FromScratch
  PROVE  /\ Greedy(Seen) = Greedy(Abstract!Placed(config.prompt \o generated, 0))
         /\ Greedy(Seen) \in Token
         /\ Seen \in Seq(Token \X Nat)
<1>1. Seen = Abstract!Placed(config.prompt \o generated, 0)
  BY SeesAll
<1>2. Abstract!Placed(config.prompt \o generated, 0) \in Seq(Token \X Nat)
  BY StateType, PlacedType
<1> QED
  BY <1>1, <1>2 DEF FromScratch

-----------------------------------------------------------------------------
(* The invariant.                                                           *)

LEMMA InitIInv ==
  ASSUME FromScratch
  PROVE  Init => IInv
<1> SUFFICES ASSUME Init PROVE IInv
  OBVIOUS
<1>1. config \in Configs /\ generated = <<>> /\ past = <<>>
  BY DEF Init, FromScratch
<1>2. config.max_new_tokens \in Nat
  BY <1>1, ConfigsAssumption
<1>3. generated \in Seq(Token) /\ Len(generated) = 0 /\ past \in Seq(Token \X Nat)
  BY <1>1
<1>4. TypeOK
  <2>1. Len(generated) <= config.max_new_tokens
    BY <1>2, <1>3
  <2>2. finished \in BOOLEAN /\ cancelled \in BOOLEAN
    BY DEF Init
  <2> QED
    BY <1>1, <1>3, <2>1, <2>2 DEF TypeOK
<1>5. Covered = <<>>
  BY <1>1 DEF Covered
<1> QED
  BY <1>1, <1>4, <1>5 DEF IInv

LEMMA StepIInv ==
  ASSUME FromScratch
  PROVE  IInv /\ [Next]_vars => IInv'
<1> SUFFICES ASSUME IInv, [Next]_vars PROVE IInv'
  OBVIOUS
<1> DEFINE token == Greedy(Seen)
<1>1. CASE Step
  <2>1. token \in Token /\ Seen \in Seq(Token \X Nat)
    BY ChosenType
  <2>2. generated' = Append(generated, token) /\ config' = config /\ cancelled' = cancelled
    BY <1>1 DEF Step
  <2>3. generated' \in Seq(Token) /\ Len(generated') = Len(generated) + 1 /\ generated' # <<>>
    BY <2>1, <2>2, StateType
  <2>4. Len(generated') <= config'.max_new_tokens
    BY <1>1, <2>2, <2>3, StateType DEF Step, Open
  <2>5. past' = IF config.cached THEN Seen ELSE past
    BY <1>1 DEF Step
  <2>6. past' \in Seq(Token \X Nat)
    BY <2>1, <2>5 DEF IInv, TypeOK
  <2>7. past' = Covered'
    <3>1. CASE config.cached
      <4>1. Front(generated') = generated
        BY <2>1, <2>2, StateType, FrontAppend
      <4>2. past' = Abstract!Placed(config.prompt \o generated, 0)
        BY <2>5, <3>1, SeesAll
      <4> QED
        BY <2>2, <2>3, <3>1, <4>1, <4>2 DEF Covered, Abstract!Placed
    <3>2. CASE ~config.cached
      BY <2>2, <2>5, <3>2 DEF IInv, Covered
    <3> QED
      BY <3>1, <3>2
  <2>8. finished' \in BOOLEAN
    BY <1>1 DEF Step
  <2> QED
    BY <2>2, <2>3, <2>4, <2>6, <2>7, <2>8 DEF IInv, TypeOK
<1>2. ASSUME UNCHANGED <<config, generated, past>>, finished' \in BOOLEAN, cancelled' \in BOOLEAN
      PROVE  IInv'
  <2>1. Covered' = Covered
    BY <1>2 DEF Covered, Abstract!Placed
  <2> QED
    BY <1>2, <2>1 DEF IInv, TypeOK
<1>3. CASE StepFails
  BY <1>2, <1>3 DEF StepFails, IInv, TypeOK
<1>4. CASE NextCancelled
  BY <1>2, <1>4 DEF NextCancelled, IInv, TypeOK
<1>5. CASE SetCancelled
  BY <1>2, <1>5 DEF SetCancelled, IInv, TypeOK
<1>6. CASE UNCHANGED vars
  BY <1>2, <1>6 DEF vars, IInv, TypeOK
<1> QED
  BY <1>1, <1>3, <1>4, <1>5, <1>6 DEF Next, Poll

(* From an empty cache, over any number of steps, failures and              *)
(* cancellations, the cache is one token behind the sequence: step's ids    *)
(* never repeat nor skip what the cache covers.                             *)
THEOREM CacheCorrect ==
  ASSUME FromScratch
  PROVE  Spec => []CacheOneBehind
<1>1. IInv => CacheOneBehind
  BY DEF IInv, Covered, CacheOneBehind
<1> QED
  BY <1>1, InitIInv, StepIInv, PTL DEF Spec

-----------------------------------------------------------------------------
(* Every step is one of greedy decoding, or none.                           *)

LEMMA StepDecodes ==
  ASSUME FromScratch, IInv, [Next]_vars
  PROVE  [Abstract!Next]_(Abstract!vars)
<1>1. CASE Step
  <2>1. Greedy(Seen) = Greedy(Abstract!Placed(config.prompt \o generated, 0))
    BY ChosenType
  <2>2. ~finished /\ Len(generated) < config.max_new_tokens
    BY <1>1 DEF Step, Open
  <2>3. /\ generated' = Append(generated, Greedy(Seen))
        /\ finished' = (Greedy(Seen) = config.eos)
        /\ UNCHANGED config
    BY <1>1 DEF Step
  <2>4. Abstract!Yield
    BY <2>1, <2>2, <2>3 DEF Abstract!Yield
  <2> QED
    BY <2>4 DEF Abstract!Next
<1>2. CASE StepFails
  BY <1>2 DEF StepFails, Open, Abstract!Next, Abstract!Stop
<1>3. CASE NextCancelled
  BY <1>3 DEF NextCancelled, Open, Abstract!Next, Abstract!Stop
<1>4. CASE SetCancelled
  BY <1>4 DEF SetCancelled, Abstract!vars
<1>5. CASE UNCHANGED vars
  BY <1>5 DEF vars, Abstract!vars
<1> QED
  BY <1>1, <1>2, <1>3, <1>4, <1>5 DEF Next, Poll

(* With or without a cache, with or without position inputs, whatever fails *)
(* or is cancelled on the way: the stream implements decoding from scratch. *)
THEOREM DecodingCorrect ==
  ASSUME FromScratch
  PROVE  Spec => DecodesGreedily
<1>1. Init => Abstract!Init
  BY DEF Init, Abstract!Init
<1>2. IInv /\ [Next]_vars => [Abstract!Next]_(Abstract!vars)
  BY StepDecodes
<1> QED
  BY <1>1, <1>2, InitIInv, StepIInv, PTL DEF Spec, DecodesGreedily, Abstract!Spec

-----------------------------------------------------------------------------
(* Types, whatever cache a stream resumes.                                  *)

AnswersTokens == \A s \in Seq(Token \X Nat) : Greedy(s) \in Token

(* The tokens fed have a first position, so what the model has seen is a    *)
(* sequence of tokens at positions: Total - Len(step_ids) never underflows. *)
LEMMA SeenType ==
  ASSUME TypeOK
  PROVE  Seen \in Seq(Token \X Nat)
<1>1. /\ config.prompt \in Seq(Token) /\ generated \in Seq(Token) /\ past \in Seq(Token \X Nat)
      /\ Len(config.prompt) \in Nat /\ Len(generated) \in Nat /\ Len(past) \in Nat
  BY ConfigsAssumption DEF TypeOK
<1>2. step_ids \in Seq(Token) /\ Len(step_ids) \in Nat /\ Len(step_ids) <= Total
  <2>1. CASE ~config.cached \/ generated = <<>>
    <3>1. step_ids = config.prompt \o generated
      BY <2>1 DEF step_ids
    <3>2. step_ids \in Seq(Token) /\ Len(step_ids) = Len(config.prompt) + Len(generated)
      BY <1>1, <3>1, ConcatProperties
    <3> QED
      BY <1>1, <3>2 DEF Total
  <2>2. CASE config.cached /\ generated # <<>>
    <3>1. step_ids = <<Last(generated)>>
      BY <2>2 DEF step_ids
    <3>2. Last(generated) \in Token
      BY <1>1, <2>2, FrontLast
    <3>3. Len(generated) # 0
      BY <1>1, <2>2
    <3>4. step_ids \in Seq(Token) /\ Len(step_ids) = 1
      BY <3>1, <3>2
    <3> QED
      BY <1>1, <3>3, <3>4 DEF Total
  <2> QED
    BY <2>1, <2>2
<1>3. FirstPosition \in Nat
  BY <1>1, <1>2 DEF FirstPosition, Total
<1> DEFINE new == [k \in DOMAIN step_ids |-> <<step_ids[k], FirstPosition + k - 1>>]
<1>4. new \in Seq(Token \X Nat)
  <2>1. DOMAIN step_ids = 1 .. Len(step_ids)
    BY <1>2
  <2>2. ASSUME NEW k \in 1 .. Len(step_ids)
        PROVE  step_ids[k] \in Token /\ FirstPosition + k - 1 \in Nat
    BY <1>2, <1>3
  <2> QED
    BY <1>2, <2>1, <2>2
<1>5. Seen = past \o new
  BY DEF Seen
<1> HIDE DEF new
<1> QED
  BY <1>1, <1>4, <1>5, ConcatProperties

LEMMA StepType ==
  ASSUME AnswersTokens
  PROVE  TypeOK /\ [Next]_vars => TypeOK'
<1> SUFFICES ASSUME TypeOK, [Next]_vars PROVE TypeOK'
  OBVIOUS
<1>1. CASE Step
  <2>1. Seen \in Seq(Token \X Nat) /\ Greedy(Seen) \in Token
    BY SeenType DEF AnswersTokens
  <2>2. generated' = Append(generated, Greedy(Seen)) /\ config' = config /\ cancelled' = cancelled
    BY <1>1 DEF Step
  <2>3. generated' \in Seq(Token) /\ Len(generated') = Len(generated) + 1
    BY <2>1, <2>2 DEF TypeOK
  <2>4. Len(generated') <= config'.max_new_tokens
    <3>1. config.max_new_tokens \in Nat /\ Len(generated) \in Nat
      BY ConfigsAssumption DEF TypeOK
    <3> QED
      BY <1>1, <2>2, <2>3, <3>1 DEF Step, Open
  <2>5. past' \in Seq(Token \X Nat) /\ finished' \in BOOLEAN
    BY <1>1, <2>1 DEF Step, TypeOK
  <2> QED
    BY <2>2, <2>3, <2>4, <2>5 DEF TypeOK
<1>2. CASE StepFails \/ NextCancelled \/ SetCancelled
  BY <1>2 DEF StepFails, NextCancelled, SetCancelled, TypeOK
<1>3. CASE UNCHANGED vars
  BY <1>3 DEF vars, TypeOK
<1> QED
  BY <1>1, <1>2, <1>3 DEF Next, Poll

(* A stream never yields more than max_new_tokens tokens, and gives every   *)
(* token of its cache a position: for any prompt, any cache to resume, with *)
(* and without position inputs, when the model answers with tokens.         *)
THEOREM TypeCorrect ==
  ASSUME AnswersTokens
  PROVE  Spec => []TypeOK
<1>1. Init => TypeOK
  <2> SUFFICES ASSUME Init PROVE TypeOK
    OBVIOUS
  <2>1. config \in Configs /\ generated = <<>> /\ past = config.seed
    BY DEF Init
  <2>2. config.max_new_tokens \in Nat /\ past \in Seq(Token \X Nat)
    BY <2>1, ConfigsAssumption
  <2>3. generated \in Seq(Token) /\ Len(generated) = 0
    BY <2>1
  <2>4. Len(generated) <= config.max_new_tokens
    BY <2>2, <2>3
  <2>5. finished \in BOOLEAN /\ cancelled \in BOOLEAN
    BY DEF Init
  <2> QED
    BY <2>1, <2>2, <2>3, <2>4, <2>5 DEF TypeOK
<1> QED
  BY <1>1, StepType, PTL DEF Spec
=============================================================================
