--------------------------- MODULE DecisionProofs ---------------------------
(* The sentence context weighs evidence as Evidence promises, and what the weights of
   core.c agree on, for any words, windows and sensitivity. *)
EXTENDS Decision, SequenceTheorems, TLAPS

-----------------------------------------------------------------------------
(* The sentence context (LanguageContext). *)

Contexts == {c \in [slot : Slots \cup {"none"}, strength : 0..4] : c.slot = "none" <=> c.strength = 0}

\* ks_context_observe keeps the strength within 1..4, or drops the language.
LEMMA ObservedFits ==
  ASSUME NEW c \in Contexts, NEW s \in Slots, NEW e \in 1..4
  PROVE  Observed(c, s, e) \in Contexts
BY DEF Contexts, Observed, Blank, Slots

\* What a word's evidence is added to is a context.
LEMMA StandingFits ==
  ASSUME TypeOK, NEW w \in Windows
  PROVE  Standing(w) \in Contexts
BY DEF Standing, Contexts, TypeOK, Blank, context

\* The same for remember_intent, once or twice, from whatever context it finds.
LEMMA RememberFits ==
  ASSUME TypeOK, NEW w \in Windows, NEW s \in Slots, NEW d \in 1..4, NEW e \in 1..4,
         Remember(w, s, e) \/ RememberBoth(w, s, d, e)
  PROVE  /\ slot' \in Slots \cup {"none"} /\ strength' \in 0..4
         /\ slot' = "none" <=> strength' = 0
         /\ intentWindow' = w /\ age' = "fresh"
<1>1. Observed(Standing(w), s, e) \in Contexts /\ Observed(Observed(Standing(w), s, d), s, e) \in Contexts
  BY StandingFits, ObservedFits
<1> DEFINE once == Observed(Standing(w), s, e)
           both == Observed(Observed(Standing(w), s, d), s, e)
<1>2. once \in Contexts /\ both \in Contexts
  BY <1>1
<1>3. \/ slot' = once.slot /\ strength' = once.strength /\ intentWindow' = w /\ age' = "fresh"
      \/ slot' = both.slot /\ strength' = both.strength /\ intentWindow' = w /\ age' = "fresh"
  BY DEF Remember, RememberBoth
<1> HIDE DEF once, both
<1> QED BY <1>2, <1>3 DEF Contexts

\* Every operation of the hooks and the timer keeps the types.
LEMMA TypeStep == TypeOK /\ [Next]_vars => TypeOK'
<1> SUFFICES ASSUME TypeOK, [Next]_vars PROVE TypeOK'
  OBVIOUS
<1> USE DEF TypeOK, InSentence, ClearIntent, IntentKept
<1>1. ASSUME NEW w \in Windows, Evaluate(w) PROVE TypeOK'
  BY <1>1 DEF Evaluate
<1>2. ASSUME NEW w \in Windows, WordLeft(w) PROVE TypeOK'
  BY <1>2 DEF WordLeft
<1>3. ASSUME NEW w \in Windows, WordMarked(w) PROVE TypeOK'
  BY <1>3 DEF WordMarked
<1>4. ASSUME NEW w \in Windows, SentenceEnds(w) \/ Navigate(w) PROVE TypeOK'
  <2>1. started' \in BOOLEAN
    BY <1>4, Zenon DEF SentenceEnds, Navigate
  <2> QED BY <1>4, <2>1 DEF SentenceEnds, Navigate
<1>5. ASSUME NEW w \in Windows, NEW s \in Slots, WordKept(w, s) PROVE TypeOK'
  <2>1. PICK e \in 1..3 : Remember(w, s, e)
    BY <1>5 DEF WordKept
  <2>2. e \in 1..4
    OBVIOUS
  <2> QED BY <1>5, <2>1, <2>2, RememberFits DEF WordKept
<1>6. ASSUME NEW w \in Windows, NEW s \in Slots, WordCorrected(w, s) PROVE TypeOK'
  <2>1. PICK e \in 2..4 : Remember(w, s, e)
    BY <1>6 DEF WordCorrected
  <2>2. e \in 1..4
    OBVIOUS
  <2> QED BY <1>6, <2>1, <2>2, RememberFits DEF WordCorrected
<1>7. ASSUME NEW w \in Windows, NEW s \in Slots, Undo(w, s) PROVE TypeOK'
  BY <1>7 DEF Undo, Slots
<1>10. ASSUME NEW w \in Windows, NEW s \in Slots, WordKeptAndCorrected(w, s) PROVE TypeOK'
  <2>1. PICK e \in 2..3 : RememberBoth(w, s, e, 2)
    BY <1>10 DEF WordKeptAndCorrected
  <2>2. e \in 1..4 /\ 2 \in 1..4
    OBVIOUS
  <2> QED BY <1>10, <2>1, <2>2, RememberFits DEF WordKeptAndCorrected
<1>8. CASE Forget \/ NinetySecondsPass
  BY <1>8 DEF Forget, NinetySecondsPass
<1>9. CASE UNCHANGED vars
  BY <1>9 DEF vars
<1> QED BY <1>1, <1>2, <1>3, <1>4, <1>5, <1>6, <1>7, <1>8, <1>9, <1>10 DEF Next

\* The context is a language with a strength of 1 to 4, or neither.
THEOREM TypesAreRight == Spec => []TypeOK
<1>1. Init => TypeOK
  <2>1. Init => started \in BOOLEAN
    BY Zenon DEF Init
  <2> QED BY <2>1 DEF Init, TypeOK, Slots
<1> QED BY <1>1, TypeStep, PTL DEF Spec

\* No operation leaves evidence of one window beside the sentence of another.
LEMMA EvidenceStep == TypeOK /\ EvidenceOfTheSentence /\ [Next]_vars => EvidenceOfTheSentence'
<1> USE DEF EvidenceOfTheSentence, InSentence, ClearIntent, IntentKept, Elsewhere
<1>1. ASSUME NEW w \in Windows, Evaluate(w) \/ WordLeft(w) \/ WordMarked(w) \/ SentenceEnds(w)
                                \/ Navigate(w), EvidenceOfTheSentence
      PROVE EvidenceOfTheSentence'
  BY <1>1 DEF Evaluate, WordLeft, WordMarked, SentenceEnds, Navigate
<1>2. ASSUME NEW w \in Windows, NEW s \in Slots, WordKept(w, s) \/ WordKeptAndCorrected(w, s)
                                                    \/ WordCorrected(w, s) \/ Undo(w, s)
      PROVE EvidenceOfTheSentence'
  BY <1>2 DEF WordKept, WordKeptAndCorrected, WordCorrected, Undo, Remember, RememberBoth
<1> QED BY <1>1, <1>2 DEF Next, Forget, NinetySecondsPass, vars

\* Evidence and sentence never belong to two windows, so evidence that was read
\* before the sentence helpers ran is the evidence they leave.
THEOREM EvidenceStaysInSentence == Spec => []EvidenceOfTheSentence
<1>1. Init => EvidenceOfTheSentence
  BY DEF Init, EvidenceOfTheSentence
<1> QED BY <1>1, EvidenceStep, TypesAreRight, PTL DEF Spec

-----------------------------------------------------------------------------
(* The refinement. *)

\* The balance that a language and a strength stand for.
BalanceOf(c) == IF c.slot = "A" THEN c.strength ELSE IF c.slot = "B" THEN -c.strength ELSE 0
Signed(s, e) == IF s = "A" THEN e ELSE -e

\* ks_context_observe is the weighing of the balance.
LEMMA ObservedWeighs ==
  ASSUME NEW c \in Contexts, NEW s \in Slots, NEW e \in 1..4
  PROVE  BalanceOf(Observed(c, s, e)) = Weighed!Weigh(BalanceOf(c), Signed(s, e))
BY DEF Contexts, Observed, Blank, Slots, BalanceOf, Signed, Weighed!Weigh, Weighed!SameSide,
       Weighed!Size, Weighed!Bounded, Weighed!Step

\* remember_intent observes: from the balance where it is of this window, and
\* current, and from nothing otherwise.
LEMMA RememberObserves ==
  ASSUME TypeOK, EvidenceOfTheSentence, NEW w \in Windows, NEW s \in Slots, NEW d \in 1..4,
         NEW e \in 1..4
  PROVE  /\ Remember(w, s, e) => Weighed!Observe(w, Signed(s, e))
         /\ RememberBoth(w, s, d, e) => Weighed!ObserveBoth(w, Signed(s, d), Signed(s, e))
<1> DEFINE c == Standing(w)
           first == Observed(c, s, d)
<1>1. c \in Contexts /\ first \in Contexts
  BY StandingFits, ObservedFits
<1>2. BalanceOf(c) = Weighed!Standing(w)
  BY DEF TypeOK, EvidenceOfTheSentence, Standing, Outdated, Elsewhere, Blank, context, BalanceOf,
         Balance, Weighed!Standing
<1>3. /\ BalanceOf(Observed(c, s, e)) = Weighed!Weigh(BalanceOf(c), Signed(s, e))
      /\ BalanceOf(first) = Weighed!Weigh(BalanceOf(c), Signed(s, d))
      /\ BalanceOf(Observed(first, s, e)) = Weighed!Weigh(BalanceOf(first), Signed(s, e))
  BY <1>1, ObservedWeighs
<1>4. ASSUME Remember(w, s, e) PROVE Weighed!Observe(w, Signed(s, e))
  <2>1. slot' = Observed(c, s, e).slot /\ strength' = Observed(c, s, e).strength
        /\ intentWindow' = w /\ age' = "fresh"
    BY <1>4 DEF Remember
  <2>2. Balance' = BalanceOf(Observed(c, s, e))
    BY <2>1 DEF Balance, BalanceOf
  <2> QED BY <1>2, <1>3, <2>1, <2>2 DEF Weighed!Observe
<1>5. ASSUME RememberBoth(w, s, d, e)
      PROVE  Weighed!ObserveBoth(w, Signed(s, d), Signed(s, e))
  <2>1. slot' = Observed(first, s, e).slot /\ strength' = Observed(first, s, e).strength
        /\ intentWindow' = w /\ age' = "fresh"
    BY <1>5 DEF RememberBoth
  <2>2. Balance' = BalanceOf(Observed(first, s, e))
    BY <2>1 DEF Balance, BalanceOf
  <2>3. Weighed!SameSide(Signed(s, d), Signed(s, e))
    BY DEF Signed, Weighed!SameSide
  <2> QED BY <1>2, <1>3, <2>1, <2>2, <2>3 DEF Weighed!ObserveBoth
<1> QED BY <1>4, <1>5

\* Every operation weighs, as Evidence does, or leaves the balance alone.
LEMMA WeighsStep == TypeOK /\ EvidenceOfTheSentence /\ [Next]_vars => [Weighed!Next]_(Weighed!vars)
<1> SUFFICES ASSUME TypeOK, EvidenceOfTheSentence, [Next]_vars
             PROVE  [Weighed!Next]_(Weighed!vars)
  OBVIOUS
<1> USE DEF ClearIntent, IntentKept, Balance
<1>1. ClearIntent => Weighed!Next
  BY DEF Weighed!Next, Weighed!Forget
<1>2. IntentKept => UNCHANGED (Weighed!vars)
  BY DEF Weighed!vars
<1>3. ASSUME NEW w \in Windows, NEW s \in Slots, NEW e \in 1..4, Remember(w, s, e)
      PROVE  Weighed!Next
  <2>1. Weighed!Observe(w, Signed(s, e))
    BY <1>3, RememberObserves
  <2>2. Signed(s, e) \in (-4..4) \ {0}
    BY DEF Signed
  <2> QED BY <2>1, <2>2 DEF Weighed!Next
<1>11. ASSUME NEW w \in Windows, NEW s \in Slots, WordKeptAndCorrected(w, s) PROVE Weighed!Next
  <2>1. PICK e \in 2..3 : RememberBoth(w, s, e, 2)
    BY <1>11 DEF WordKeptAndCorrected
  <2>2. e \in 1..4 /\ 2 \in 1..4
    OBVIOUS
  <2>3. Weighed!ObserveBoth(w, Signed(s, e), Signed(s, 2))
    BY <2>1, <2>2, RememberObserves
  <2>4. Signed(s, e) \in (-4..4) \ {0} /\ Signed(s, 2) \in (-4..4) \ {0}
    BY DEF Signed
  <2> QED BY <2>3, <2>4 DEF Weighed!Next
<1>4. ASSUME NEW w \in Windows, NEW s \in Slots, Undo(w, s) PROVE Weighed!Next
  <2>1. Weighed!TakeBack(w, Signed(s, 4))
    BY <1>4 DEF Undo, Weighed!TakeBack, Signed, Slots
  <2>2. Signed(s, 4) \in {-4, 4}
    BY DEF Signed
  <2> QED BY <2>1, <2>2 DEF Weighed!Next
<1>5. ASSUME NinetySecondsPass PROVE Weighed!Next
  BY <1>5 DEF NinetySecondsPass, Weighed!Next, Weighed!Expire
<1>6. ASSUME NEW w \in Windows, Evaluate(w) \/ WordLeft(w) \/ WordMarked(w) \/ SentenceEnds(w)
                                \/ Navigate(w)
      PROVE  ClearIntent \/ IntentKept
  BY <1>6 DEF Evaluate, WordLeft, WordMarked, SentenceEnds, Navigate
<1>7. ASSUME NEW w \in Windows, NEW s \in Slots, WordKept(w, s) PROVE Weighed!Next
  <2>1. PICK e \in 1..3 : Remember(w, s, e)
    BY <1>7 DEF WordKept
  <2>2. e \in 1..4
    OBVIOUS
  <2> QED BY <2>1, <2>2, <1>3
<1>8. ASSUME NEW w \in Windows, NEW s \in Slots, WordCorrected(w, s) PROVE Weighed!Next
  <2>1. PICK e \in 2..4 : Remember(w, s, e)
    BY <1>8 DEF WordCorrected
  <2>2. e \in 1..4
    OBVIOUS
  <2> QED BY <2>1, <2>2, <1>3
<1>9. Forget => ClearIntent
  BY DEF Forget
<1>10. UNCHANGED vars => IntentKept
  BY DEF vars
<1> QED BY <1>1, <1>2, <1>4, <1>5, <1>6, <1>7, <1>8, <1>9, <1>10, <1>11 DEF Next

\* The sentence context implements Evidence.
THEOREM ContextWeighsEvidence == Spec => WeighsEvidence
<1>1. Init => Weighed!Init
  BY DEF Init, Weighed!Init, Balance
<1> QED BY <1>1, WeighsStep, TypesAreRight, EvidenceStaysInSentence, PTL
       DEF Spec, WeighsEvidence, Weighed!Spec

-----------------------------------------------------------------------------
(* The numbers. *)

\* What a context counts for a layout: as much as it counts against the other one, or
\* less where the word is the user's own.
LEMMA BalancedRange ==
  ASSUME NEW w \in Words, NEW to \in Slots, NEW c \in Contexts
  PROVE  /\ Balanced(w, to, c) \in Int
         /\ c.slot = to => Balanced(w, to, c) <= 30 * c.strength
         /\ c.slot # to => Balanced(w, to, c) = -30 * c.strength
BY DEF Contexts, Balanced

\* The prior of a collision, whole or a quarter, favours one layout as much as it
\* tells against the other, and is 75 at the most.
LEMMA PriorRange ==
  ASSUME NEW w \in Words, NEW to \in Slots, NEW first \in BOOLEAN
  PROVE  /\ Prior(w, to, first) \in -75..75
         /\ w.prior \in -75..75
         /\ Prior(w, to, first) > 0 => PriorFor(w, to) > 0
         /\ PriorFor(w, to) >= 0 => Prior(w, to, first) >= 0
         /\ w.keys = 2 => Prior(w, to, first) <= 9
         /\ ~Own(w, Other(to)) /\ Prior(w, to, first) >= 0 => PriorFor(w, to) >= -3
         /\ PriorFor(w, Other(to)) = -PriorFor(w, to)
<1>1. w \in Word /\ w.prior \in -59..75 /\ (w.keys = 2 => w.prior \in -38..0)
  BY WordsAssumption
<1>2. PriorFor(w, to) \in -75..75 /\ PriorFor(w, Other(to)) = -PriorFor(w, to)
      /\ (w.keys = 2 => PriorFor(w, to) \in -38..38)
  BY <1>1 DEF PriorFor, Other, Slots
<1> DEFINE p == PriorFor(w, to)
<1>3. Quarter(p) \in -75..75 /\ (Quarter(p) > 0 => p > 0) /\ (p >= 0 => Quarter(p) >= 0)
      /\ (p <= 38 => Quarter(p) <= 9) /\ (Quarter(p) >= 0 => p >= -3)
  <2>1. p \in -75..75
    BY <1>2
  <2> HIDE DEF p
  <2> QED BY <2>1 DEF Quarter
<1>4. Prior(w, to, first) \in {0, p, Quarter(p)}
      /\ (~Own(w, Other(to)) => Prior(w, to, first) \in {p, Quarter(p)})
  BY <1>1 DEF Prior, Word
<1>5. w.keys = 2 => Prior(w, to, first) \in {0, Quarter(p)}
  BY <1>1 DEF Prior, Word
<1> HIDE DEF p
<1>6. p \in -75..75 /\ (w.keys = 2 => p \in -38..38)
  BY <1>2 DEF p
<1>7. PriorFor(w, to) = p
  BY DEF p
<1> QED BY <1>1, <1>2, <1>3, <1>4, <1>5, <1>6, <1>7

\* How frequent the readings are counts for one layout and against the other alike.
LEMMA FrequencyRange ==
  ASSUME NEW w \in Words, NEW to \in Slots
  PROVE  /\ Frequency(w, to) \in {-45, 0, 45}
         /\ Frequency(w, Other(to)) = -Frequency(w, to)
BY DEF Frequency, Other, Slots

\* The phase of typing and the threshold of the setting, within their tables.
LEMMA BonusRange == \A phase \in Phases : Bonus(phase) \in 0..10
BY DEF Phases, Bonus

\* The threshold of a collision, within its table.
LEMMA ThresholdRange == AmbiguityThreshold \in 25..45
BY SettingAssumption DEF AmbiguityThreshold

\* A collision is decided by at least 15 points of evidence: the phase adds 10 at most.
LEMMA DecidedBySum ==
  ASSUME NEW w \in Words, NEW to \in Slots, NEW c \in Contexts, NEW first \in BOOLEAN,
         NEW phase \in Phases, CollisionHolds(w, to, c, first, phase)
  PROVE  Balanced(w, to, c) + Frequency(w, to) + Prior(w, to, first) >= 15
<1> DEFINE B == Balanced(w, to, c)
           F == Frequency(w, to)
           P == Prior(w, to, first)
           b == Bonus(phase)
           t == AmbiguityThreshold
<1>1. B + F + P + b >= t
  <2>1. c.strength # 5
    BY DEF Contexts
  <2> QED BY <2>1 DEF CollisionHolds
<1>2. B \in Int /\ F \in {-45, 0, 45} /\ P \in -75..75 /\ b \in 0..10 /\ t \in 25..45
  BY BalancedRange, FrequencyRange, PriorRange, BonusRange, ThresholdRange
<1> HIDE DEF B, F, P, b, t
<1>3. B + F + P >= 15
  BY <1>1, <1>2
<1> QED BY <1>3 DEF B, F, P

\* README.md:236: without evidence of the sentence for the other layout, two keys that
\* are words in both do not add up to a correction of a word in its own spelling.
LEMMA TwoKeysHold ==
  ASSUME NEW w \in Words, w.keys = 2, Collision(w), NEW to \in Slots, Other(to) \notin w.aliased,
         NEW c \in Contexts, c.slot # to, NEW first \in BOOLEAN, NEW phase \in Phases
  PROVE  ~CollisionHolds(w, to, c, first, phase)
<1>1. Balanced(w, to, c) <= 0 /\ Balanced(w, to, c) \in Int
  BY BalancedRange DEF Contexts
<1>2. Frequency(w, to) <= 0 /\ Frequency(w, to) \in Int
  <2>1. Other(to) \in w.frequent
    BY WordsAssumption DEF Collision, Other, Slots
  <2> QED BY <2>1 DEF Frequency
<1>3. Prior(w, to, first) <= 9 /\ Prior(w, to, first) \in Int
  BY PriorRange
<1> QED BY <1>1, <1>2, <1>3, DecidedBySum

\* Evidence of 4 outweighs all that frequency, prior and phase can say.
LEMMA ConfirmedStands ==
  ASSUME NEW w \in Words, NEW to \in Slots, NEW c \in Contexts, c.slot = Other(to), c.strength = 4,
         NEW first \in BOOLEAN, NEW phase \in Phases
  PROVE  ~CollisionHolds(w, to, c, first, phase)
<1>1. c.slot # to /\ Balanced(w, to, c) = -120
  BY BalancedRange DEF Other, Slots
<1>2. Prior(w, to, first) \in -75..75 /\ Frequency(w, to) \in {-45, 0, 45}
  BY PriorRange, FrequencyRange
<1> QED BY <1>1, <1>2, DecidedBySum

\* What a correction leaves behind for its own layout is enough to keep it, whatever
\* the evidence was that it had against it.
LEMMA NotTurnedBack ==
  ASSUME NEW w \in Words, NEW to \in Slots, NEW c \in Contexts,
         NEW first \in BOOLEAN, NEW phase \in Phases, CollisionHolds(w, to, c, first, phase),
         NEW again \in BOOLEAN, NEW later \in Phases
  PROVE  ~CollisionHolds(w, Other(to), Observed(c, to, 3), again, later)
<1> DEFINE d == Observed(c, to, 3)
           back == Other(to)
           B == Balanced(w, to, c)
           F == Frequency(w, to)
           P == Prior(w, to, first)
           p == PriorFor(w, to)
           R == Prior(w, back, again)
           D == Balanced(w, back, d)
<1>1. back \in Slots /\ back # to /\ Other(back) = to
  BY DEF Other, Slots
<1>2. d \in Contexts /\ 3 \in 1..4
  BY ObservedFits
<1>3. /\ F \in {-45, 0, 45} /\ Frequency(w, back) = -F
      /\ P \in -75..75 /\ R \in -75..75 /\ p \in Int
      /\ P > 0 => p > 0
      /\ R > 0 => -p > 0
      /\ ~Own(w, back) /\ P >= 0 => p >= -3
  <2>1. PriorFor(w, back) = -p /\ p \in Int
    BY PriorRange DEF PriorFor
  <2> QED BY <1>1, <2>1, PriorRange, FrequencyRange
<1>4. R <= 75 /\ (p >= -3 => R <= 3)
  <2>1. PriorFor(w, back) = -p /\ p \in Int
    BY PriorRange DEF PriorFor
  <2>2. R \in {0, PriorFor(w, back), Quarter(PriorFor(w, back))}
    BY DEF Prior
  <2>3. p >= -3 => -p <= 3 /\ Quarter(-p) <= 3
    BY <2>1 DEF Quarter
  <2> QED BY <1>3, <2>1, <2>2, <2>3
<1>5. /\ B \in Int /\ (c.slot = to => B <= 30 * c.strength) /\ (c.slot # to => B = -30 * c.strength)
      /\ D \in Int /\ (d.slot = back => D <= 30 * d.strength) /\ (d.slot # back => D = -30 * d.strength)
  BY <1>1, <1>2, BalancedRange
<1>6. Own(w, back) /\ F = -45 /\ c.slot = to /\ c.strength = 2 => B = 30
  BY <1>1 DEF Frequency, Balanced, Other, Slots
<1>7. B + F + P >= 15
  BY DecidedBySum
<1>8. \/ c.strength = 4 /\ c.slot = back
      \/ c.strength = 3 /\ c.slot = back /\ d = Blank
      \/ c.strength = 2 /\ c.slot = back /\ d = [slot |-> to, strength |-> 1]
      \/ c.strength = 1 /\ c.slot = back /\ d = [slot |-> to, strength |-> 2]
      \/ c.strength = 0 /\ d = [slot |-> to, strength |-> 3]
      \/ c.strength \in 1..2 /\ c.slot = to /\ d.slot = to /\ d.strength = 3
      \/ c.strength \in 3..4 /\ c.slot = to /\ d.slot = to /\ d.strength = 4
  BY <1>1 DEF Contexts, Observed, Slots, Other
<1>9. D - F + R < 15
  <2> HIDE DEF B, F, P, p, R, D
  <2>1. CASE c.slot = back
    BY <1>1, <1>3, <1>4, <1>5, <1>7, <1>8, <2>1 DEF Blank
  <2>2. CASE c.strength = 0
    BY <1>1, <1>3, <1>4, <1>5, <1>7, <1>8, <2>2 DEF Contexts
  <2>3. CASE c.slot = to /\ c.strength \in 1..4
    BY <1>1, <1>3, <1>4, <1>5, <1>6, <1>7, <1>8, <2>3
  <2> QED BY <1>1, <2>1, <2>2, <2>3 DEF Contexts, Slots, Other
<1>10. ~(Balanced(w, back, d) + Frequency(w, back) + R >= 15)
  BY <1>3, <1>5, <1>9
<1> HIDE DEF d, back, R
<1>11. SUFFICES ASSUME CollisionHolds(w, back, d, again, later) PROVE FALSE
  BY DEF d, back
<1> QED BY <1>1, <1>2, <1>10, <1>11, DecidedBySum DEF R

-----------------------------------------------------------------------------
(* Phrases. *)

\* A score is a number, and the context is a part of it that can be told apart.
Base(ws, s) == Scored(ws, 1, s) + Scored(ws, 2, s) + Scored(ws, 3, s) + Scored(ws, 4, s)
               + (IF KnownThroughout(ws, s) THEN 12 + 8 * Len(ws) ELSE 0)
Share(s, c) == IF c.slot = s /\ c.strength <= 4 THEN 8 * c.strength ELSE 0

\* A score is that of the words and the share of the context.
LEMMA ScoreParts ==
  ASSUME NEW ws, Len(ws) \in Nat, NEW s, NEW c, c.strength \in 0..5
  PROVE  /\ Base(ws, s) \in Int /\ Share(s, c) \in Int
         /\ PhraseScore(ws, s, c) = Base(ws, s) + Share(s, c)
<1>1. \A i : Scored(ws, i, s) \in Int
  BY DEF Scored, WordScore
<1>2. Share(s, c) \in Int
  BY DEF Share
<1>3. (IF KnownThroughout(ws, s) THEN 12 + 8 * Len(ws) ELSE 0) \in Int
  OBVIOUS
<1>4. Scored(ws, 1, s) \in Int /\ Scored(ws, 2, s) \in Int /\ Scored(ws, 3, s) \in Int
      /\ Scored(ws, 4, s) \in Int
  BY <1>1
<1>5. Base(ws, s) \in Int
  BY <1>3, <1>4 DEF Base
<1>6. PhraseScore(ws, s, c) = Base(ws, s) + Share(s, c)
  BY <1>3, <1>4 DEF PhraseScore, Base, Share
<1> QED BY <1>2, <1>5, <1>6

\* Plain sums, apart from what they are sums of.
LEMMA Margin ==
  ASSUME NEW p \in Int, NEW q \in Int, NEW a \in Int, NEW b \in Int, NEW x, NEW y, NEW t \in Int,
         x = a + p, y = b + q, x - y >= t, t >= 30
  PROVE  a + p - (b + q) >= 30
OBVIOUS

\* Nor does it hold the other way.
LEMMA OneSide ==
  ASSUME NEW p \in Int, NEW q \in Int, NEW a \in Int, NEW b \in Int, NEW v \in Int, NEW w \in Int,
         a + p - (b + q) >= 30, v >= p, w <= q
  PROVE  ~(b + w - (a + v) >= 30)
OBVIOUS

\* The threshold of a phrase, within its table.
LEMMA SequenceThresholdRange == SequenceThreshold \in 30..55
BY SettingAssumption DEF SequenceThreshold

\* A phrase has one layout at the most, and the evidence of having been put in it
\* does not take it out again.
LEMMA PhraseStays ==
  ASSUME NEW ws, Len(ws) \in Nat, NEW s \in Slots, NEW c, c.strength \in 0..5, s \in PhraseSlot(ws, c)
  PROVE  /\ Other(s) \notin PhraseSlot(ws, c)
         /\ c \in Contexts => Other(s) \notin PhraseSlot(ws, Observed(c, s, 4))
<1> DEFINE o == Other(s)
<1>1. o \in Slots /\ o # s /\ Other(o) = s
  BY DEF Other, Slots
<1>3. ASSUME NEW x \in Slots, NEW d, d.strength \in 0..5, x \in PhraseSlot(ws, d)
      PROVE  Base(ws, x) + Share(x, d) - (Base(ws, Other(x)) + Share(Other(x), d)) >= 30
  <2>1. PhraseScore(ws, x, d) - PhraseScore(ws, Other(x), d) >= SequenceThreshold
    BY <1>3 DEF PhraseSlot
  <2>2. /\ PhraseScore(ws, x, d) = Base(ws, x) + Share(x, d)
        /\ PhraseScore(ws, Other(x), d) = Base(ws, Other(x)) + Share(Other(x), d)
        /\ Base(ws, x) \in Int /\ Base(ws, Other(x)) \in Int
        /\ Share(x, d) \in Int /\ Share(Other(x), d) \in Int
    BY <1>3, ScoreParts
  <2>3. SequenceThreshold \in Int /\ SequenceThreshold >= 30
    BY SequenceThresholdRange
  <2> QED BY <2>1, <2>2, <2>3, Margin
<1>2. Base(ws, s) + Share(s, c) - (Base(ws, o) + Share(o, c)) >= 30
  BY <1>3
<1>4. Base(ws, s) \in Int /\ Base(ws, o) \in Int /\ Share(s, c) \in Int /\ Share(o, c) \in Int
  BY ScoreParts
<1>5. o \notin PhraseSlot(ws, c)
  <2>1. SUFFICES ASSUME o \in PhraseSlot(ws, c) PROVE FALSE
    OBVIOUS
  <2>2. Base(ws, o) + Share(o, c) - (Base(ws, s) + Share(s, c)) >= 30
    BY <1>1, <1>3, <2>1
  <2>4. Share(s, c) >= Share(s, c) /\ Share(o, c) <= Share(o, c)
    BY <1>4
  <2> HIDE DEF o
  <2> QED BY <1>2, <1>4, <2>2, <2>4, OneSide
<1>6. ASSUME c \in Contexts PROVE o \notin PhraseSlot(ws, Observed(c, s, 4))
  <2> DEFINE d == Observed(c, s, 4)
  <2>1. d \in Contexts /\ d.strength \in 0..5
    BY <1>6, ObservedFits DEF Contexts
  <2>2. Share(s, d) >= Share(s, c) /\ Share(o, d) <= Share(o, c)
    BY <1>1, <1>6 DEF Contexts, Observed, Blank, Share, Slots, Other
  <2>3. Share(s, d) \in Int /\ Share(o, d) \in Int
    BY <2>1, ScoreParts
  <2>4. SUFFICES ASSUME o \in PhraseSlot(ws, d) PROVE FALSE
    OBVIOUS
  <2>5. Base(ws, o) + Share(o, d) - (Base(ws, s) + Share(s, d)) >= 30
    BY <1>1, <1>3, <2>1, <2>4
  <2> HIDE DEF d, o
  <2> QED BY <1>2, <1>4, <2>2, <2>3, <2>5, OneSide
<1> QED BY <1>5, <1>6

\* A run has two words or more.
LEMMA RunFits ==
  ASSUME NEW before \in Phrases, NEW n \in 1..Len(before), NEW w \in Words
  PROVE  Run(before, n, w) \in Seq(Words) /\ Len(Run(before, n, w)) > 1 /\ Len(Run(before, n, w)) # 1
<1>1. PICK m \in 1..3 : before \in [1..m -> Words]
  BY WordsAssumption
<1>2. before \in Seq(Words) /\ Len(before) = m
  BY <1>1
<1>3. SubSeq(before, m - n + 1, m) \in Seq(Words) /\ Len(SubSeq(before, m - n + 1, m)) = n
  BY <1>1, <1>2, SubSeqProperties
<1> QED BY <1>2, <1>3, AppendProperties DEF Run

-----------------------------------------------------------------------------
(* The state. *)

Stages == {"typed", "waiting", "turned", "undone"}

\* The word before the caret is a word or, once corrected, a phrase.
TypedOK ==
  /\ mode \in Slots \cup {"auto"}
  /\ typed = Nothing \/ /\ typed \in [stage : Stages, text : Seq(Words), from : Slots, at : Windows]
                        /\ Len(typed.text) >= 1
                        /\ typed.stage \in {"typed", "waiting"} => Len(typed.text) = 1

\* The one word that is being typed or waits.
LEMMA OneWord ==
  ASSUME TypedOK, typed.stage \in {"typed", "waiting"}
  PROVE  typed.text[1] \in Words /\ typed.from \in Slots /\ typed.at \in Windows
BY DEF TypedOK, Nothing

\* What a word is judged by: a context, or a preferred language.
LEMMA IntentFits ==
  ASSUME TypeOK, TypedOK, EvidenceOfTheSentence, NEW w \in Windows
  PROVE  /\ mode = "auto" => Intent(w) \in Contexts /\ Intent(w) = Standing(w)
         /\ mode # "auto" => Intent(w) = [slot |-> mode, strength |-> 5]
         /\ Intent(w).strength \in 0..5
BY DEF Intent, Standing, Outdated, Elsewhere, Contexts, Blank, context, TypeOK, TypedOK,
       EvidenceOfTheSentence, Slots

\* What a correction leaves to judge by.
LEMMA LearnedIntent ==
  ASSUME TypeOK, TypedOK, EvidenceOfTheSentence, NEW w \in Windows, NEW s \in Slots, NEW e \in 1..4,
         Learn(w, s, e), UNCHANGED mode
  PROVE  /\ mode = "auto" => Intent(w)' = Observed(Intent(w), s, e)
         /\ mode # "auto" => Intent(w)' = Intent(w)
<1>1. CASE mode = "auto"
  <2>1. Intent(w) = Standing(w)
    BY <1>1, IntentFits
  <2>2. Observed(Standing(w), s, e) \in Contexts
    BY StandingFits, ObservedFits
  <2>3. slot' = Observed(Standing(w), s, e).slot /\ strength' = Observed(Standing(w), s, e).strength
        /\ intentWindow' = w /\ age' = "fresh" /\ mode' = "auto"
    BY <1>1 DEF Learn, Remember
  <2>4. Intent(w)' = [slot |-> slot', strength |-> strength']
    BY <2>3 DEF Intent, Outdated, context
  <2> HIDE DEF Contexts
  <2> QED BY <1>1, <2>1, <2>2, <2>3, <2>4 DEF Contexts
<1>2. CASE mode # "auto"
  BY <1>2 DEF Intent
<1> QED BY <1>1, <1>2

\* A correction, by its kind: where it is of a word, that word alone is turned.
LEMMA WordTurned ==
  ASSUME TypeOK, TypedOK, EvidenceOfTheSentence, NEW word \in Words, NEW from \in Slots,
         NEW w \in Windows, NEW first \in BOOLEAN, NEW phase \in Phases,
         CorrectNow(word, from, Intent(w), first, phase), Turned(<<word>>, from, w, 3), UNCHANGED mode
  PROVE  /\ TurnedStays'
         /\ word.keys > 2 \/ ~Collision(word) \/ Intent(w).slot = Other(from) \/ from \in word.aliased
<1> DEFINE to == Other(from)
           c == Intent(w)
<1>1. to \in Slots /\ to # from /\ Other(to) = from
  BY DEF Other, Slots
<1>2. /\ to \in word.known
      /\ from \in word.known => CollisionHolds(word, to, c, first, phase)
  BY <1>1 DEF CorrectNow, Holds
<1>3. /\ typed' = [stage |-> "turned", text |-> <<word>>, from |-> from, at |-> w]
      /\ Learn(w, to, 3)
  BY DEF Turned, Becomes
<1>4. /\ mode = "auto" => Intent(w)' = Observed(c, to, 3)
      /\ mode # "auto" => Intent(w)' = c
  BY <1>1, <1>3, LearnedIntent
<1>5. /\ mode = "auto" => c \in Contexts
      /\ mode # "auto" => c.slot = mode /\ c.strength = 5
  BY IntentFits
<1> HIDE DEF c
<1>6. ASSUME NEW again \in BOOLEAN, NEW later \in Phases
      PROVE  ~CorrectNow(word, to, Intent(w)', again, later)
  <2>1. SUFFICES ASSUME CorrectNow(word, to, Intent(w)', again, later) PROVE FALSE
    OBVIOUS
  <2>2. from \in word.known /\ CollisionHolds(word, from, Intent(w)', again, later)
    BY <1>1, <1>2, <2>1 DEF CorrectNow, Holds
  <2>3. CASE mode = "auto"
    BY <1>1, <1>2, <1>4, <1>5, <2>2, <2>3, NotTurnedBack
  <2>4. CASE mode # "auto"
    BY <1>1, <1>2, <1>4, <1>5, <2>2, <2>4 DEF CollisionHolds
  <2> QED BY <2>3, <2>4
<1>7. TurnedStays'
  <2>1. typed'.text[1] = word /\ Len(typed'.text) = 1 /\ typed'.stage = "turned"
        /\ typed'.from = from /\ typed'.at = w
    BY <1>3
  <2> QED BY <1>6, <2>1 DEF TurnedStays
<1>8. ASSUME word.keys <= 2, Collision(word), c.slot # to, from \notin word.aliased PROVE FALSE
  <2>1. word.keys = 2
    BY <1>8, WordsAssumption DEF Word
  <2>2. CollisionHolds(word, to, c, first, phase)
    BY <1>2, <1>8 DEF Collision
  <2>3. mode = "auto"
    BY <1>5, <1>8, <2>2 DEF CollisionHolds
  <2> QED BY <1>1, <1>5, <1>8, <2>1, <2>2, <2>3, TwoKeysHold
<1>9. word.keys \in Int
  BY WordsAssumption DEF Word
<1> QED BY <1>7, <1>8, <1>9 DEF c

\* A phrase that is put in a layout is not put back.
LEMMA PhraseTurned ==
  ASSUME TypeOK, TypedOK, EvidenceOfTheSentence, NEW text \in Seq(Words), Len(text) > 1,
         NEW s \in Slots, NEW w \in Windows, s \in PhraseSlot(text, Intent(w)),
         Turned(text, Other(s), w, 4), UNCHANGED mode
  PROVE  TurnedStays'
<1> DEFINE from == Other(s)
<1>1. from \in Slots /\ Other(from) = s
  BY DEF Other, Slots
<1>2. /\ typed' = [stage |-> "turned", text |-> text, from |-> from, at |-> w]
      /\ Learn(w, s, 4)
  BY <1>1 DEF Turned, Becomes
<1>3. Intent(w).strength \in 0..5 /\ (mode = "auto" => Intent(w) \in Contexts)
  BY IntentFits
<1>4. /\ mode = "auto" => Intent(w)' = Observed(Intent(w), s, 4)
      /\ mode # "auto" => Intent(w)' = Intent(w)
  <2>1. 4 \in 1..4
    OBVIOUS
  <2> QED BY <1>2, <2>1, LearnedIntent
<1>5. Len(text) \in Nat
  OBVIOUS
<1>6. from \notin PhraseSlot(text, Intent(w)')
  BY <1>3, <1>4, <1>5, PhraseStays
<1> HIDE DEF from
<1>7. typed'.text = text /\ typed'.stage = "turned" /\ typed'.from = from /\ typed'.at = w
  BY <1>2
<1> QED BY <1>6, <1>7 DEF TurnedStays

\* What an Undo leaves behind keeps a collision as it was typed.
LEMMA TakenBack ==
  ASSUME TypeOK, TypedOK, EvidenceOfTheSentence, TakeBack
  PROVE  TurnedStays'
<1>1. PICK w \in Windows, from \in Slots, one \in Words :
        w = typed.at /\ from = typed.from /\ one = typed.text[1]
  BY DEF TakeBack, TypedOK, Nothing
<1>2. typed'.stage = "undone" /\ typed'.text[1] = one /\ typed'.from = from /\ typed'.at = w
      /\ mode' = mode
  BY <1>1 DEF TakeBack, TypedOK, Nothing
<1>3. slot' = from /\ strength' = 4 /\ intentWindow' = w /\ age' = "fresh"
  BY <1>1 DEF TakeBack, Undo
<1>4. ASSUME mode = "auto" PROVE Intent(w)' = [slot |-> from, strength |-> 4]
  BY <1>2, <1>3, <1>4 DEF Intent, Outdated, context
<1>5. [slot |-> from, strength |-> 4] \in Contexts
  BY <1>1 DEF Contexts, Slots
<1>6. ASSUME mode = "auto", Collision(one), NEW phase \in Phases, NEW first \in BOOLEAN
      PROVE  ~CorrectNow(one, from, Intent(w)', first, phase)
  <2>1. Other(from) \in Slots /\ Other(Other(from)) = from /\ from \in one.known
    BY <1>1, <1>6 DEF Other, Slots, Collision
  <2>2. ~CollisionHolds(one, Other(from), Intent(w)', first, phase)
    BY <1>1, <1>4, <1>5, <1>6, <2>1, ConfirmedStands
  <2> QED BY <2>1, <2>2 DEF CorrectNow, Holds
<1> QED BY <1>2, <1>6 DEF TurnedStays

-----------------------------------------------------------------------------
(* The steps. *)

\* A step that leaves nothing corrected or taken back says nothing.
LEMMA NothingStays ==
  ASSUME typed'.stage \notin {"turned", "undone"}
  PROVE  TurnedStays'
BY DEF TurnedStays

\* Every step keeps what is typed a word, or a phrase of words, of a layout and a window.
LEMMA TypedStep == TypedOK /\ [DNext]_dvars => TypedOK'
<1> SUFFICES ASSUME TypedOK, [DNext]_dvars PROVE TypedOK'
  OBVIOUS
<1>1. ASSUME NEW word \in Words, NEW from \in Slots, NEW w \in Windows, Type(word, from, w)
      PROVE  TypedOK'
  <2>1. \E stage \in Stages : typed' = [stage |-> stage, text |-> <<word>>, from |-> from, at |-> w]
    BY <1>1 DEF Type, Turned, Becomes, Stages
  <2>2. <<word>> \in Seq(Words) /\ Len(<<word>>) = 1
    OBVIOUS
  <2> QED BY <1>1, <2>1, <2>2 DEF Type, TypedOK
<1>2. CASE Pause
  <2>1. typed.stage = "waiting" /\ mode' = mode /\ typed.text[1] \in Words /\ typed # Nothing
    BY <1>2, OneWord DEF Pause, Nothing
  <2>2. \/ typed' = [stage |-> "turned", text |-> typed.text, from |-> typed.from, at |-> typed.at]
        \/ typed' = [typed EXCEPT !.stage = "typed"]
    BY <1>2 DEF Pause, Turned, Becomes
  <2> QED BY <2>1, <2>2 DEF TypedOK, Stages
<1>3. ASSUME NEW ends \in BOOLEAN, EndWord(ends) PROVE TypedOK'
  <2>1. typed.text[1] \in Words /\ typed.from \in Slots /\ typed.at \in Windows /\ mode' = mode
    BY <1>3, OneWord DEF EndWord
  <2>2. CASE typed' = Nothing
    BY <2>1, <2>2 DEF TypedOK
  <2>3. CASE \E before \in Phrases, s \in Slots : \E n \in 1..Len(before) :
               Turned(Run(before, n, typed.text[1]), Other(s), typed.at, 4)
    <3>1. PICK before \in Phrases, s \in Slots : \E n \in 1..Len(before) :
            Turned(Run(before, n, typed.text[1]), Other(s), typed.at, 4)
      BY <2>3
    <3>2. PICK n \in 1..Len(before) : Turned(Run(before, n, typed.text[1]), Other(s), typed.at, 4)
      BY <3>1
    <3>3. Run(before, n, typed.text[1]) \in Seq(Words) /\ Len(Run(before, n, typed.text[1])) > 1
      BY <2>1, RunFits
    <3>4. Other(s) \in Slots
      BY DEF Other, Slots
    <3> QED BY <2>1, <3>2, <3>3, <3>4 DEF Turned, Becomes, TypedOK, Stages
  <2>4. CASE Turned(<<typed.text[1]>>, typed.from, typed.at, 3)
    <3>1. <<typed.text[1]>> \in Seq(Words) /\ Len(<<typed.text[1]>>) = 1
      BY <2>1
    <3> QED BY <2>1, <2>4, <3>1 DEF Turned, Becomes, TypedOK, Stages
  <2> QED BY <1>3, <2>2, <2>3, <2>4 DEF EndWord
<1>4. CASE TakeBack
  BY <1>4 DEF TakeBack, TypedOK, Nothing, Stages
<1>5. CASE NextKey \/ Elsewise \/ Silence
  <2>1. mode' = mode /\ (typed' = Nothing \/ typed' = typed)
    BY <1>5 DEF NextKey, Elsewise, Silence
  <2> QED BY <2>1 DEF TypedOK
<1>6. ASSUME NEW m \in Modes, Prefer(m) PROVE TypedOK'
  BY <1>6, SettingAssumption DEF Prefer, TypedOK
<1>7. CASE UNCHANGED dvars
  BY <1>7 DEF dvars, TypedOK
<1> QED BY <1>1, <1>2, <1>3, <1>4, <1>5, <1>6, <1>7 DEF DNext

\* A correction remembered inside a sentence is one of its words.
LEMMA CorrectedInside ==
  ASSUME NEW w \in Windows, NEW s \in Slots, Remember(w, s, 3), InSentence(w, TRUE)
  PROVE  WordCorrected(w, s)
<1>1. 3 \in 2..4
  OBVIOUS
<1>2. \E e \in 2..4 : Remember(w, s, e)
  BY <1>1, Zenon
<1>3. InSentence(w, ~FALSE)
  BY DEF InSentence
<1>4. \E ends \in BOOLEAN : InSentence(w, ~ends)
  BY <1>3, Zenon
<1> QED BY <1>2, <1>4 DEF WordCorrected

\* While no language is preferred, every operation is one of LanguageContext's.
LEMMA InAuto ==
  ASSUME TypedOK, mode = "auto", DNext
  PROVE  [Next]_vars
<1>1. ASSUME NEW word \in Words, NEW from \in Slots, NEW w \in Windows, Type(word, from, w)
      PROVE  Next
  <2>1. Other(from) \in Slots
    BY DEF Other, Slots
  <2>2. \/ Learn(w, Other(from), 3) /\ InSentence(w, TRUE)
        \/ Judged(w)
    BY <1>1 DEF Type, Turned
  <2>3. CASE Learn(w, Other(from), 3) /\ InSentence(w, TRUE)
    <3>1. WordCorrected(w, Other(from))
      BY <2>1, <2>3, CorrectedInside DEF Learn
    <3> QED BY <2>1, <3>1 DEF Next
  <2>4. CASE Judged(w)
    <3>1. Evaluate(w)
      BY <2>4 DEF Judged, Evaluate
    <3> QED BY <3>1 DEF Next
  <2> QED BY <2>2, <2>3, <2>4
<1>2. CASE Pause
  <2>1. typed.at \in Windows /\ Other(typed.from) \in Slots
    BY <1>2, OneWord DEF Pause, Other, Slots
  <2>2. PICK w \in Windows, s \in Slots : w = typed.at /\ s = Other(typed.from)
    BY <2>1
  <2>3. (Learn(w, s, 3) /\ InSentence(w, TRUE)) \/ Judged(w)
    BY <1>2, <2>2 DEF Pause, Turned
  <2>4. Learn(w, s, 3) /\ InSentence(w, TRUE) => WordCorrected(w, s)
    BY CorrectedInside DEF Learn
  <2>5. Judged(w) => Evaluate(w)
    BY DEF Judged, Evaluate
  <2> QED BY <2>3, <2>4, <2>5 DEF Next
<1>3. ASSUME NEW ends \in BOOLEAN, EndWord(ends) PROVE Next
  <2>1. PICK w \in Windows, from \in Slots, word \in Words :
          w = typed.at /\ from = typed.from /\ word = typed.text[1]
    BY <1>3, OneWord DEF EndWord
  <2>2. Other(from) \in Slots /\ (~ends) \in BOOLEAN /\ \A s \in Slots : Other(Other(s)) = s
    BY DEF Other, Slots
  <2>3. InSentence(w, ~ends)
    BY <1>3, <2>1 DEF EndWord
  <2> DEFINE frequency == IF Collision(word) THEN 1 ELSE IF from \in word.frequent THEN 3 ELSE 2
  <2>4. frequency \in 1..3 /\ (~Collision(word) => frequency \in 2..3)
    OBVIOUS
  <2>5. \/ \E s \in Slots : Learn(w, s, 4)
        \/ Learn(w, Other(from), 3)
        \/ Learn(w, from, frequency)
        \/ ~Collision(word) /\ LearnBoth(w, from, frequency, 2)
        \/ IF Outdated(w) \/ Elsewhere(w) THEN ClearIntent ELSE IntentKept
        \/ Learn(w, from, 2)
    BY <1>3, <2>1, <2>2 DEF EndWord, Turned
  <2> HIDE DEF frequency
  <2>6. \/ \E s \in Slots : WordCorrected(w, s)
        \/ WordCorrected(w, Other(from))
        \/ WordKept(w, from)
        \/ WordKeptAndCorrected(w, from)
        \/ WordLeft(w)
        \/ WordCorrected(w, from)
    BY <2>2, <2>3, <2>4, <2>5
       DEF Learn, LearnBoth, WordCorrected, WordKept, WordKeptAndCorrected, WordLeft
  <2> QED BY <2>2, <2>6 DEF Next
<1>4. CASE TakeBack
  <2>1. PICK w \in Windows, s \in Slots : w = typed.at /\ s = typed.from
    BY <1>4 DEF TakeBack, TypedOK, Nothing
  <2> QED BY <1>4, <2>1 DEF TakeBack, Next
<1>5. CASE NextKey
  <2>1. typed # Nothing
    BY <1>5 DEF NextKey
  <2>2. PICK w \in Windows : w = typed.at
    BY <2>1 DEF TypedOK
  <2> QED BY <1>5, <2>2 DEF NextKey, Next
<1>6. CASE Elsewise \/ Silence \/ \E m \in Modes : Prefer(m)
  BY <1>6 DEF Elsewise, Silence, Prefer, Next
<1> QED BY <1>1, <1>2, <1>3, <1>4, <1>5, <1>6 DEF DNext

\* While one is, the evidence is learned at any age, but for one window and sentence.
LEMMA InPreference ==
  ASSUME TypeOK, TypedOK, EvidenceOfTheSentence, mode # "auto", DNext
  PROVE  TypeOK' /\ EvidenceOfTheSentence'
<1>1. ASSUME NEW w \in Windows, NEW s \in Slots, NEW d \in 0..4, NEW e \in 1..4, NEW b \in BOOLEAN,
             RememberAtAnyAge(w, s, d, e), InSentence(w, b)
      PROVE  TypeOK' /\ EvidenceOfTheSentence'
  <2> DEFINE standing == IF intentWindow # w \/ Elsewhere(w) THEN Blank ELSE context
             first == IF d = 0 THEN standing ELSE Observed(standing, s, d)
             after == Observed(first, s, e)
  <2>1. standing \in Contexts
    BY DEF Contexts, Blank, context, TypeOK
  <2>2. first \in Contexts
    <3> HIDE DEF standing
    <3>1. d = 0 \/ d \in 1..4
      OBVIOUS
    <3> QED BY <2>1, <3>1, ObservedFits
  <2>3. after \in Contexts
    <3> HIDE DEF first
    <3> QED BY <2>2, ObservedFits
  <2>4. slot' = after.slot /\ strength' = after.strength /\ intentWindow' = w /\ age' = "fresh"
        /\ sentenceWindow' = w /\ started' = b
    BY <1>1 DEF RememberAtAnyAge, InSentence
  <2> HIDE DEF after
  <2> QED BY <2>3, <2>4 DEF TypeOK, EvidenceOfTheSentence, Contexts
<1>2. ASSUME NEW w \in Windows, NEW b \in BOOLEAN, InSentence(w, b),
             IF Elsewhere(w) THEN ClearIntent ELSE IntentKept
      PROVE  TypeOK' /\ EvidenceOfTheSentence'
  BY <1>2 DEF InSentence, Elsewhere, ClearIntent, IntentKept, TypeOK, EvidenceOfTheSentence
<1>3. ASSUME Next PROVE TypeOK' /\ EvidenceOfTheSentence'
  BY <1>3, TypeStep, EvidenceStep
<1>4. CASE UNCHANGED vars
  BY <1>4, TypeStep, EvidenceStep
<1>5. ASSUME NEW word \in Words, NEW from \in Slots, NEW w \in Windows, Type(word, from, w)
      PROVE  TypeOK' /\ EvidenceOfTheSentence'
  <2>1. Other(from) \in Slots /\ (started /\ ~Elsewhere(w)) \in BOOLEAN /\ TRUE \in BOOLEAN
    BY DEF Other, Slots
  <2>2. \/ RememberAtAnyAge(w, Other(from), 0, 3) /\ InSentence(w, TRUE)
        \/ (IF Elsewhere(w) THEN ClearIntent ELSE IntentKept) /\ InSentence(w, started /\ ~Elsewhere(w))
    BY <1>5 DEF Type, Turned, Learn, Judged
  <2>3. 0 \in 0..4 /\ 3 \in 1..4
    OBVIOUS
  <2> QED BY <1>1, <1>2, <2>1, <2>2, <2>3
<1>6. CASE Pause
  <2>1. PICK w \in Windows, s \in Slots : w = typed.at /\ s = Other(typed.from)
    BY <1>6, OneWord DEF Pause, Other, Slots
  <2>2. \/ RememberAtAnyAge(w, s, 0, 3) /\ InSentence(w, TRUE)
        \/ (IF Elsewhere(w) THEN ClearIntent ELSE IntentKept) /\ InSentence(w, started /\ ~Elsewhere(w))
    BY <1>6, <2>1 DEF Pause, Turned, Learn, Judged
  <2>3. 0 \in 0..4 /\ 3 \in 1..4 /\ TRUE \in BOOLEAN /\ (started /\ ~Elsewhere(w)) \in BOOLEAN
    OBVIOUS
  <2> QED BY <1>1, <1>2, <2>2, <2>3
<1>7. ASSUME NEW ends \in BOOLEAN, EndWord(ends) PROVE TypeOK' /\ EvidenceOfTheSentence'
  <2>1. PICK w \in Windows, from \in Slots, word \in Words :
          w = typed.at /\ from = typed.from /\ word = typed.text[1]
    BY <1>7, OneWord DEF EndWord
  <2>2. Other(from) \in Slots /\ (~ends) \in BOOLEAN /\ \A s \in Slots : Other(Other(s)) = s
    BY DEF Other, Slots
  <2>3. InSentence(w, ~ends)
    BY <1>7, <2>1 DEF EndWord
  <2> DEFINE frequency == IF Collision(word) THEN 1 ELSE IF from \in word.frequent THEN 3 ELSE 2
  <2>4. frequency \in 0..4 /\ frequency \in 1..4
    OBVIOUS
  <2>5. \/ \E s \in Slots : Learn(w, s, 4)
        \/ Learn(w, Other(from), 3)
        \/ Learn(w, from, frequency)
        \/ LearnBoth(w, from, frequency, 2)
        \/ IF Elsewhere(w) THEN ClearIntent ELSE IntentKept
        \/ Learn(w, from, 2)
    BY <1>7, <2>1, <2>2 DEF EndWord, Turned
  <2> HIDE DEF frequency
  <2>6. \/ \E s \in Slots, d \in 0..4, e \in 1..4 : RememberAtAnyAge(w, s, d, e)
        \/ IF Elsewhere(w) THEN ClearIntent ELSE IntentKept
    <3>1. 0 \in 0..4 /\ 2 \in 1..4 /\ 3 \in 1..4 /\ 4 \in 1..4
      OBVIOUS
    <3> QED BY <2>2, <2>4, <2>5, <3>1 DEF Learn, LearnBoth
  <2> QED BY <1>1, <1>2, <2>2, <2>3, <2>6
<1>8. CASE TakeBack
  <2>1. PICK w \in Windows, s \in Slots : w = typed.at /\ s = typed.from
    BY <1>8 DEF TakeBack, TypedOK, Nothing
  <2>2. Next
    BY <1>8, <2>1 DEF TakeBack, Next
  <2> QED BY <1>3, <2>2
<1>9. CASE NextKey
  <2>1. PICK w \in Windows : w = typed.at
    BY <1>9 DEF NextKey, TypedOK
  <2>2. UNCHANGED vars \/ Next
    BY <1>9, <2>1 DEF NextKey, Next
  <2> QED BY <1>3, <1>4, <2>2
<1>10. CASE Elsewise \/ Silence \/ \E m \in Modes : Prefer(m)
  <2>1. UNCHANGED vars \/ Next
    BY <1>10 DEF Elsewise, Silence, Prefer, Next
  <2> QED BY <1>3, <1>4, <2>1
<1> QED BY <1>5, <1>6, <1>7, <1>8, <1>9, <1>10 DEF DNext

Inv == TypeOK /\ TypedOK /\ EvidenceOfTheSentence

\* Every step, in every mode, keeps the types and the evidence of the sentence.
LEMMA InvStep == Inv /\ [DNext]_dvars => Inv'
<1> SUFFICES ASSUME Inv, [DNext]_dvars PROVE Inv'
  OBVIOUS
<1>1. CASE DNext
  <2>1. CASE mode = "auto"
    BY <1>1, <2>1, InAuto, TypeStep, EvidenceStep, TypedStep DEF Inv
  <2>2. CASE mode # "auto"
    BY <1>1, <2>2, InPreference, TypedStep DEF Inv
  <2> QED BY <2>1, <2>2
<1>2. CASE UNCHANGED dvars
  <2>1. UNCHANGED vars
    BY <1>2 DEF dvars
  <2> QED BY <1>2, <2>1, TypeStep, EvidenceStep, TypedStep DEF Inv
<1> QED BY <1>1, <1>2

\* The evidence has a language and a strength of 1 to 4, or neither, whatever languages
\* are preferred in between, and it never stands beside the sentence of another window.
THEOREM DecisionInvariant == DSpec => [](TypeOK /\ TypedOK /\ EvidenceOfTheSentence)
<1>1. DInit => Inv
  <2>1. Init => started \in BOOLEAN
    BY Zenon DEF Init
  <2>2. Init => TypeOK /\ EvidenceOfTheSentence
    BY <2>1 DEF Init, TypeOK, EvidenceOfTheSentence, Slots
  <2> QED BY <2>2 DEF DInit, Inv, TypedOK
<1>2. Inv => TypeOK /\ TypedOK /\ EvidenceOfTheSentence
  BY DEF Inv
<1> QED BY <1>1, <1>2, InvStep, PTL DEF DSpec

\* While no language is preferred, words are judged and learned from within one window
\* and 90 seconds, as Evidence weighs (SMART_DETECTION.md:46).
THEOREM EvidenceIsWeighed == DSpec => WeighsInAuto
<1>1. TypeOK /\ TypedOK /\ EvidenceOfTheSentence /\ [DNext]_dvars =>
        [mode = "auto" /\ mode' = "auto" => Weighed!Next \/ UNCHANGED Weighed!vars]_dvars
  <2> SUFFICES ASSUME TypeOK, TypedOK, EvidenceOfTheSentence, DNext, mode = "auto"
               PROVE  Weighed!Next \/ UNCHANGED Weighed!vars
    OBVIOUS
  <2> QED BY InAuto, WeighsStep
<1> QED BY <1>1, DecisionInvariant, PTL DEF DSpec, WeighsInAuto

\* One word corrected, as WordTurned finds it.
LEMMA OneCorrected ==
  ASSUME Inv, NEW word \in Words, NEW from \in Slots, NEW w \in Windows, NEW phase \in Phases,
         CorrectNow(word, from, Intent(w), First(w), phase), Turned(<<word>>, from, w, 3), UNCHANGED mode
  PROVE  /\ TurnedStays'
         /\ \/ typed'.text[1].keys > 2 \/ ~Collision(typed'.text[1])
            \/ Intent(w).slot = Other(typed'.from)
            \/ typed'.from \in typed'.text[1].aliased
         /\ typed'.at = w
<1>1. First(w) \in BOOLEAN
  BY DEF First
<1>2. TurnedStays' /\ (word.keys > 2 \/ ~Collision(word)
                      \/ Intent(w).slot = Other(from) \/ from \in word.aliased)
  BY <1>1, WordTurned DEF Inv
<1>3. typed'.text[1] = word /\ typed'.from = from /\ typed'.at = w
  BY DEF Turned, Becomes
<1> QED BY <1>2, <1>3

\* A letter key corrects, or leaves the word typed.
LEMMA TypeBecomes ==
  ASSUME NEW word \in Words, NEW from \in Slots, NEW w \in Windows, Type(word, from, w)
  PROVE  \/ CorrectNow(word, from, Intent(w), First(w), "key") /\ Turned(<<word>>, from, w, 3)
         \/ typed'.stage = "waiting"
         \/ typed'.stage = "typed"
<1>1. \/ CorrectNow(word, from, Intent(w), First(w), "key") /\ Turned(<<word>>, from, w, 3)
      \/ \E stage \in {"waiting", "typed"} :
           typed' = [stage |-> stage, text |-> <<word>>, from |-> from, at |-> w]
  BY DEF Type, Becomes
<1> QED BY <1>1

\* A correction begins where nothing is corrected, and only an Undo takes one back.
LEMMA Ending ==
  ASSUME Inv, DNext
  PROVE  /\ typed'.stage = "turned" => typed.stage # "turned"
         /\ typed'.stage = "undone" => TakeBack
<1>1. ASSUME NEW word \in Words, NEW from \in Slots, NEW w \in Windows, Type(word, from, w)
      PROVE  typed.stage = "none" /\ typed'.stage \in {"typed", "waiting", "turned"}
  <2>1. Turned(<<word>>, from, w, 3) => typed'.stage = "turned"
    BY DEF Turned, Becomes
  <2>2. typed.stage = "none"
    BY <1>1 DEF Type, Nothing
  <2> QED BY <1>1, <2>1, <2>2, TypeBecomes
<1>2. ASSUME Pause PROVE typed.stage = "waiting" /\ typed'.stage \in {"typed", "turned"}
  <2>1. typed \in [stage : Stages, text : Seq(Words), from : Slots, at : Windows]
    BY <1>2 DEF Pause, Inv, TypedOK, Nothing
  <2>2. \/ typed' = [stage |-> "turned", text |-> typed.text, from |-> typed.from, at |-> typed.at]
        \/ typed' = [typed EXCEPT !.stage = "typed"]
    BY <1>2 DEF Pause, Turned, Becomes
  <2> QED BY <1>2, <2>1, <2>2 DEF Pause
<1>3. ASSUME NEW ends \in BOOLEAN, EndWord(ends)
      PROVE  typed.stage \in {"typed", "waiting"} /\ typed'.stage \in {"turned", "none"}
  <2>1. \/ typed' = Nothing
        \/ \E text, from : typed' = [stage |-> "turned", text |-> text, from |-> from, at |-> typed.at]
    BY <1>3 DEF EndWord, Turned, Becomes
  <2> QED BY <1>3, <2>1 DEF EndWord, Nothing
<1>4. ASSUME NextKey \/ Elsewise \/ \E m \in Modes : Prefer(m) PROVE typed'.stage = "none"
  BY <1>4 DEF NextKey, Elsewise, Prefer, Nothing
<1>5. ASSUME Silence PROVE typed'.stage \notin {"turned", "undone"}
  BY <1>5 DEF Silence, Nothing
<1>6. ASSUME TakeBack PROVE typed'.stage = "undone"
  BY <1>6 DEF TakeBack, Inv, TypedOK, Nothing
<1> QED BY <1>1, <1>2, <1>3, <1>4, <1>5, <1>6 DEF DNext

\* What a correction is, wherever it comes from.
LEMMA Corrected ==
  ASSUME Inv, DNext, typed'.stage = "turned", typed.stage # "turned"
  PROVE  /\ TurnedStays'
         /\ Len(typed'.text) = 1 =>
              \/ typed'.text[1].keys > 2 \/ ~Collision(typed'.text[1])
              \/ Intent(typed'.at).slot = Other(typed'.from)
              \/ typed'.from \in typed'.text[1].aliased
<1> DEFINE Goal == /\ TurnedStays'
                   /\ Len(typed'.text) = 1 =>
                        \/ typed'.text[1].keys > 2 \/ ~Collision(typed'.text[1])
                        \/ Intent(typed'.at).slot = Other(typed'.from)
                        \/ typed'.from \in typed'.text[1].aliased
<1> HIDE DEF Goal
<1>0. "key" \in Phases /\ "pause" \in Phases /\ "end" \in Phases
  BY DEF Phases
<1>1. ASSUME NEW word \in Words, NEW from \in Slots, NEW w \in Windows, Type(word, from, w)
      PROVE  Goal
  <2>1. \/ CorrectNow(word, from, Intent(w), First(w), "key") /\ Turned(<<word>>, from, w, 3)
        \/ typed'.stage \in {"waiting", "typed"}
    BY <1>1, TypeBecomes
  <2>2. UNCHANGED mode
    BY <1>1 DEF Type
  <2> QED BY <1>0, <2>1, <2>2, OneCorrected DEF Goal
<1>2. ASSUME Pause PROVE Goal
  <2>1. PICK w \in Windows, from \in Slots, word \in Words :
          w = typed.at /\ from = typed.from /\ word = typed.text[1]
    BY <1>2, OneWord DEF Pause, Inv
  <2>2. typed.text = <<word>>
    <3>1. typed.text \in Seq(Words) /\ Len(typed.text) = 1
      BY <1>2 DEF Pause, Inv, TypedOK, Nothing
    <3> QED BY <2>1, <3>1
  <2>3. \/ CorrectNow(word, from, Intent(w), First(w), "pause") /\ Turned(<<word>>, from, w, 3)
        \/ typed' = [typed EXCEPT !.stage = "typed"]
    BY <1>2, <2>1, <2>2 DEF Pause
  <2>4. typed' # [typed EXCEPT !.stage = "typed"]
    BY <1>2 DEF Pause, Inv, TypedOK, Nothing
  <2>5. UNCHANGED mode
    BY <1>2 DEF Pause
  <2> QED BY <1>0, <2>3, <2>4, <2>5, OneCorrected DEF Goal
<1>3. ASSUME NEW ends \in BOOLEAN, EndWord(ends) PROVE Goal
  <2>1. PICK w \in Windows, from \in Slots, word \in Words :
          w = typed.at /\ from = typed.from /\ word = typed.text[1]
    BY <1>3, OneWord DEF EndWord, Inv
  <2>2. UNCHANGED mode /\ typed' # Nothing
    BY <1>3 DEF EndWord, Nothing
  <2>3. \/ \E before \in Phrases, s \in Slots : \E n \in 1..Len(before) :
             /\ s \in PhraseSlot(Run(before, n, word), Intent(w))
             /\ Turned(Run(before, n, word), Other(s), w, 4)
        \/ CorrectNow(word, from, Intent(w), First(w), "end") /\ Turned(<<word>>, from, w, 3)
    BY <1>3, <2>1, <2>2 DEF EndWord
  <2>4. CASE CorrectNow(word, from, Intent(w), First(w), "end") /\ Turned(<<word>>, from, w, 3)
    BY <1>0, <2>2, <2>4, OneCorrected DEF Goal
  <2>5. ASSUME NEW before \in Phrases, NEW s \in Slots, NEW n \in 1..Len(before),
               s \in PhraseSlot(Run(before, n, word), Intent(w)),
               Turned(Run(before, n, word), Other(s), w, 4)
        PROVE  Goal
    <3>1. Run(before, n, word) \in Seq(Words) /\ Len(Run(before, n, word)) > 1
        /\ Len(Run(before, n, word)) # 1
      BY RunFits
    <3>2. TurnedStays'
      BY <2>2, <2>5, <3>1, PhraseTurned DEF Inv
    <3>3. typed'.text = Run(before, n, word)
      BY <2>5 DEF Turned, Becomes
    <3>4. Len(typed'.text) # 1
      BY <3>1, <3>3, Zenon
    <3> QED BY <3>2, <3>4 DEF Goal
  <2> QED BY <2>3, <2>4, <2>5
<1>4. ~NextKey /\ ~Elsewise /\ ~Silence /\ \A m \in Modes : ~Prefer(m)
  BY DEF NextKey, Elsewise, Silence, Prefer, Nothing
<1>6. ~TakeBack
  BY DEF TakeBack
<1>5. Goal
  BY <1>1, <1>2, <1>3, <1>4, <1>6 DEF DNext
<1> QED BY <1>5 DEF Goal

\* README.md:236: a correction of a two-key collision, typed in a spelling that its own
\* layout knows, has evidence of the sentence or a preferred language behind it.
THEOREM TwoKeysAreNotGuessed == DSpec => TwoKeysNeedContext
<1>1. TypeOK /\ TypedOK /\ EvidenceOfTheSentence /\ [DNext]_dvars =>
        [ /\ typed'.stage = "turned" /\ typed.stage # "turned" /\ Len(typed'.text) = 1
          => \/ typed'.text[1].keys > 2 \/ ~Collision(typed'.text[1])
             \/ Intent(typed'.at).slot = Other(typed'.from)
             \/ typed'.from \in typed'.text[1].aliased ]_dvars
  BY Corrected DEF Inv
<1> QED BY <1>1, DecisionInvariant, PTL DEF DSpec, TwoKeysNeedContext

\* The weights agree with the evidence that a correction or an Undo leaves behind: the
\* same keys are not turned back, and a collision that was taken back is not turned
\* again, for any words, priors and sensitivity.
THEOREM CorrectionsStand == DSpec => []TurnedStays
<1>1. DInit => TurnedStays
  BY DEF DInit, Nothing, TurnedStays
<1>2. Inv /\ TurnedStays /\ [DNext]_dvars => TurnedStays'
  <2> SUFFICES ASSUME Inv, TurnedStays, [DNext]_dvars PROVE TurnedStays'
    OBVIOUS
  <2>1. CASE UNCHANGED dvars
    BY <2>1 DEF dvars, vars, context, TurnedStays, Intent, Outdated
  <2>2. ASSUME DNext, typed'.stage = "turned" PROVE TurnedStays'
    <3>1. typed.stage # "turned"
      BY <2>2, Ending
    <3> QED BY <2>2, <3>1, Corrected
  <2>3. ASSUME DNext, typed'.stage = "undone" PROVE TurnedStays'
    <3>1. TakeBack
      BY <2>3, Ending
    <3> QED BY <3>1, TakenBack DEF Inv
  <2>4. ASSUME typed'.stage \notin {"turned", "undone"} PROVE TurnedStays'
    BY <2>4, NothingStays
  <2> QED BY <2>1, <2>2, <2>3, <2>4
<1>3. TypeOK /\ TypedOK /\ EvidenceOfTheSentence => Inv
  BY DEF Inv
<1> QED BY <1>1, <1>2, <1>3, DecisionInvariant, PTL DEF DSpec
=============================================================================
