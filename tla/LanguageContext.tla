-------------------------- MODULE LanguageContext --------------------------
(***************************************************************************)
(* Which language the current sentence is written in: src/core.c's           *)
(* ks_context_*, and the intent and sentence helpers of src/app.c.  The      *)
(* evidence and the sentence are each kept for one window at a time, and     *)
(* every operation below may find them left over from another one.           *)
(***************************************************************************)
EXTENDS Integers

CONSTANT Windows

ASSUME WindowsAssumption == "none" \notin Windows

Slots == {"A", "B"}

VARIABLES
  slot, strength,    \* g_intent_context
  intentWindow,      \* g_intent_window
  age,               \* g_intent_updated_at: none, fresh, or old (over 90 s)
  sentenceWindow,    \* g_sentence_window
  started            \* g_sentence_started

vars == <<slot, strength, intentWindow, age, sentenceWindow, started>>
context == [slot |-> slot, strength |-> strength]
Blank == [slot |-> "none", strength |-> 0]

Init == /\ slot = "none" /\ strength = 0 /\ intentWindow = "none" /\ age = "none"
        /\ sentenceWindow = "none" /\ started = FALSE

-----------------------------------------------------------------------------
(* ks_context_observe *)

Observed(c, s, e) ==
  IF c.strength <= 0 THEN [slot |-> s, strength |-> e]
  ELSE IF c.slot = s
       THEN [c EXCEPT !.strength = IF @ < e THEN e ELSE IF @ < 4 THEN @ + 1 ELSE @]
  ELSE IF c.strength > e THEN [c EXCEPT !.strength = @ - e]
  ELSE IF c.strength = e THEN Blank ELSE [slot |-> s, strength |-> e - c.strength]

-----------------------------------------------------------------------------
(* What each helper does to the evidence; an operation calls several. *)

ClearIntent == slot' = "none" /\ strength' = 0 /\ intentWindow' = "none" /\ age' = "none"
IntentKept == UNCHANGED <<slot, strength, intentWindow, age>>

\* current_intent refuses, and clears, evidence of another window or over 90 s old.
Outdated(w) == intentWindow # w \/ age # "fresh"

\* Mutant: a word marked in another window leaves the evidence where it is.
NowhereElse(w) == FALSE

\* sentence_start, mark_sentence_word and start_new_sentence begin in a new window.
Elsewhere(w) == sentenceWindow # w

\* Mutant: evidence that current_intent has cleared still counts.
RememberAfterAll(w, s, e) ==
  LET after == Observed(context, s, e)
  IN slot' = after.slot /\ strength' = after.strength /\ intentWindow' = w /\ age' = "fresh"

\* remember_intent, after current_intent and sentence_start or mark_sentence_word.
Standing(w) == IF Outdated(w) \/ Elsewhere(w) THEN Blank ELSE context
Remember(w, s, e) ==
  LET after == Observed(Standing(w), s, e)
  IN slot' = after.slot /\ strength' = after.strength /\ intentWindow' = w /\ age' = "fresh"

\* The same twice in one handler.
RememberBoth(w, s, d, e) ==
  LET after == Observed(Observed(Standing(w), s, d), s, e)
  IN slot' = after.slot /\ strength' = after.strength /\ intentWindow' = w /\ age' = "fresh"

-----------------------------------------------------------------------------
(***************************************************************************)
(* The operations of the hooks, the pause timer and the tray menu.  A        *)
(* boundary key also ends the sentence where it is Enter, or a Space after a *)
(* period.                                                                   *)
(***************************************************************************)

InSentence(w, begun) == sentenceWindow' = w /\ started' = begun

\* A key or a pause: the word is evaluated and left alone.
Evaluate(w) ==
  /\ IF Outdated(w) \/ Elsewhere(w) THEN ClearIntent ELSE IntentKept
  /\ InSentence(w, started /\ ~Elsewhere(w))

\* The boundary after a word that nothing is known about.
WordLeft(w) ==
  /\ IF Outdated(w) \/ Elsewhere(w) THEN ClearIntent ELSE IntentKept
  /\ \E ends \in BOOLEAN : InSentence(w, ~ends)

\* The boundary after a word that is known as it stands: 1 where it is a word of
\* the other layout too, 2 or 3 where it is rare or frequent.
WordKept(w, s) ==
  /\ \E e \in 1..3 : Remember(w, s, e)
  /\ \E ends \in BOOLEAN : InSentence(w, ~ends)

\* A word that is known only as it stands and is corrected all the same: a Persian
\* half-space, or a word of the raw corpus (2 or 3, and then the correction's 2).
WordKeptAndCorrected(w, s) ==
  /\ \E e \in 2..3 : RememberBoth(w, s, e, 2)
  /\ \E ends \in BOOLEAN : InSentence(w, ~ends)

\* A correction: of the spelling (2), of a word (3), of a phrase (4).
WordCorrected(w, s) ==
  /\ \E e \in 2..4 : Remember(w, s, e)
  /\ \E ends \in BOOLEAN : InSentence(w, ~ends)

\* A pending word is committed, or a learned repair is made: marked only.
WordMarked(w) ==
  /\ IF Elsewhere(w) THEN ClearIntent ELSE IntentKept
  /\ \E ends \in BOOLEAN : InSentence(w, ~ends)

\* try_undo: only while the corrected word is the last of its sentence.
Undo(w, s) ==
  /\ sentenceWindow = w /\ InSentence(w, TRUE)
  /\ slot' = s /\ strength' = 4 /\ intentWindow' = w /\ age' = "fresh"

\* "!" or "?".
SentenceEnds(w) == (IF Elsewhere(w) THEN ClearIntent ELSE IntentKept) /\ InSentence(w, FALSE)

\* Arrows, Home, End and the like: reset_sentence.
Navigate(w) == ClearIntent /\ InSentence(w, FALSE)

\* A layout hotkey, a window change, or another writing language.
Forget == ClearIntent /\ UNCHANGED <<sentenceWindow, started>>

NinetySecondsPass ==
  age = "fresh" /\ age' = "old" /\ UNCHANGED <<slot, strength, intentWindow, sentenceWindow, started>>

Next ==
  \/ \E w \in Windows : \/ Evaluate(w) \/ WordLeft(w) \/ WordMarked(w) \/ SentenceEnds(w)
                         \/ Navigate(w)
  \/ \E w \in Windows, s \in Slots : WordKept(w, s) \/ WordKeptAndCorrected(w, s)
                                     \/ WordCorrected(w, s) \/ Undo(w, s)
  \/ Forget \/ NinetySecondsPass

Spec == Init /\ [][Next]_vars

-----------------------------------------------------------------------------
\* The evidence stays between 0 and 4, and has a language exactly while there is
\* any (ks_context_observe).
TypeOK ==
  /\ slot \in Slots \cup {"none"} /\ strength \in 0..4
  /\ slot = "none" <=> strength = 0
  /\ intentWindow \in Windows \cup {"none"} /\ age \in {"none", "fresh", "old"}
  /\ sentenceWindow \in Windows \cup {"none"} /\ started \in BOOLEAN

\* app.c:4583: the evidence a word is judged by was read before sentence_start and
\* mark_sentence_word could clear it.  That is harmless because evidence and
\* sentence never belong to two windows.
EvidenceOfTheSentence == strength > 0 => intentWindow = sentenceWindow

\* SMART_DETECTION.md:124: the context weighs evidence as Evidence says, within one
\* window and 90 seconds, whatever windows the user goes through in between.
Balance == IF slot = "A" THEN strength ELSE IF slot = "B" THEN -strength ELSE 0
Weighed == INSTANCE Evidence WITH balance <- Balance, about <- intentWindow,
                                  current <- (age = "fresh")
WeighsEvidence == Weighed!Spec
=============================================================================
