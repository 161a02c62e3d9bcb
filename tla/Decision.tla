------------------------------ MODULE Decision ------------------------------
(***************************************************************************)
(* Whether a word is typed in the wrong layout: ks_evaluate_contextual and   *)
(* ks_evaluate_sequence of src/core.c, at a key, at a pause and at the end   *)
(* of the word, with the evidence of the sentence (LanguageContext) that     *)
(* they read and that their answers add to.                                  *)
(*                                                                           *)
(* A word is what the dictionaries say of its keys in each layout: sets of   *)
(* slots for known, aliased (known only by another spelling: Persian alef    *)
(* for alef-madda, Greek sigma at the end), frequent, everyday (the 20,000   *)
(* common words), own (a pack or memory word), begins and beginsCommon (the  *)
(* start of a longer word), quoted (an opening quote and fewer than three    *)
(* letters), and the prior of its collision in favour of slot B.             *)
(***************************************************************************)
EXTENDS LanguageContext, Sequences

CONSTANTS
  Words,           \* the words that are typed, each with a different text in the two layouts
  Phrases,         \* the words before the caret: sequences of one to three of Words
  Sensitivity,     \* 0 conservative, 1 balanced, 2 sensitive
  Latin,           \* the slots whose language is written in Latin letters
  Modes            \* the writing-language modes that are chosen

Phases == {"key", "pause", "end"}
Word == [keys : 2..5,    \* 5 stands for five or more
         known : SUBSET Slots, aliased : SUBSET Slots, frequent : SUBSET Slots,
         everyday : SUBSET Slots, own : SUBSET Slots, begins : SUBSET Slots,
         beginsCommon : SUBSET Slots, quoted : SUBSET Slots, prior : Int]

\* collision_priors.inc holds -59 to 75, and for two keys -38 and -1.  The lists of
\* two-letter words are part of the frequent words, in which only the spelling that was
\* typed is looked up (core.c:521).
ASSUME WordsAssumption ==
  /\ Words \subseteq Word /\ Phrases \subseteq UNION {[1..n -> Words] : n \in 1..3}
  /\ \A w \in Words : /\ w.prior \in -59..75
                      /\ w.frequent \cup w.aliased \subseteq w.known
                      /\ w.keys >= 3 => w.own \subseteq w.frequent
                      /\ w.keys = 2 => w.prior \in -38..0 /\ w.known \ w.aliased \subseteq w.frequent
ASSUME SettingAssumption == /\ Sensitivity \in 0..2 /\ Latin \subseteq Slots
                            /\ Modes \subseteq Slots \cup {"auto"}

VARIABLES
  mode,   \* g_settings.language_mode: "auto", or the slot that is preferred
  typed   \* the word before the caret, until the next key or click is about something else

dvars == <<vars, mode, typed>>
Nothing == [stage |-> "none", text |-> <<>>, from |-> "none", at |-> "none"]

DInit == Init /\ mode = "auto" /\ typed = Nothing

Other(s) == IF s = "A" THEN "B" ELSE "A"

-----------------------------------------------------------------------------
(* ks_evaluate_contextual *)

MinimumLength == IF Sensitivity = 0 THEN 4 ELSE 2
AmbiguityThreshold == 45 - 10 * Sensitivity

Collision(w) == w.known = Slots
Own(w, s) == w.keys >= 3 /\ s \in w.own

\* In up to three keys abbreviations live: a short one-sided reading does not
\* overrule a Latin sentence, and a rare one waits for the end of the word.
OneSidedHolds(w, to, intent, phase) ==
  /\ ~ /\ w.keys = 2 \/ (w.keys = 3 /\ to \notin w.frequent)
       /\ Other(to) \in Latin /\ intent.slot = Other(to) /\ intent.strength \in 3..4
  /\ w.keys > 3 \/ phase = "end" \/ to \in w.frequent \cup w.everyday

Balanced(w, to, intent) ==
  IF intent.slot = to
  THEN IF to \notin w.frequent /\ Own(w, Other(to)) /\ intent.strength > 1
       THEN 30 ELSE 30 * intent.strength
  ELSE -30 * intent.strength

Frequency(w, to) ==
  IF (to \in w.frequent) = (Other(to) \in w.frequent) THEN 0
  ELSE IF to \in w.frequent THEN 45 ELSE -45

PriorFor(w, to) == IF to = "B" THEN w.prior ELSE -w.prior
Quarter(n) == IF n < 0 THEN -((-n) \div 4) ELSE n \div 4    \* C's division

\* Mutant: two keys at the start of a sentence get the whole prior.
PriorAtAnyLength(w, to, first) ==
  IF Own(w, Other(to)) THEN 0
  ELSE IF first THEN PriorFor(w, to) ELSE Quarter(PriorFor(w, to))

\* The start of a sentence has only the prior to go by; two keys are too few for it.
Prior(w, to, first) ==
  IF Own(w, Other(to)) THEN 0
  ELSE IF first /\ w.keys >= 3 THEN PriorFor(w, to) ELSE Quarter(PriorFor(w, to))

Bonus(phase) == CASE phase = "key" -> 0 [] phase = "pause" -> 5 [] phase = "end" -> 10

\* Both readings are words: the preference decides, or the sum of the evidence,
\* but no sentence turns a frequent word into a rare one.
CollisionHolds(w, to, intent, first, phase) ==
  IF intent.strength = 5 THEN intent.slot = to
  ELSE /\ ~ (intent.slot = to /\ Other(to) \in w.frequent /\ to \notin w.frequent \cup w.everyday)
       /\ Balanced(w, to, intent) + Frequency(w, to) + Prior(w, to, first) + Bonus(phase)
            >= AmbiguityThreshold

Holds(w, to, intent, first, phase) ==
  /\ w.keys >= MinimumLength /\ to \in w.known
  /\ IF Other(to) \in w.known THEN CollisionHolds(w, to, intent, first, phase)
                              ELSE OneSidedHolds(w, to, intent, phase)

\* What may still become another word of the active layout is not decided early.
Finished(w, from) ==
  /\ w.keys > 2 /\ from \notin w.quoted
  /\ from \in w.known => from \notin w.begins \cup w.beginsCommon

\* KS_LIVE_CORRECT_NOW
CorrectNow(w, from, intent, first, phase) ==
  /\ Holds(w, Other(from), intent, first, phase)
  /\ \/ phase = "end"
     \/ phase = "key" /\ Finished(w, from) /\ from \notin w.begins
     \/ phase = "pause" /\ Finished(w, from) /\ from \notin w.beginsCommon

\* KS_LIVE_WAIT_FOR_IDLE at a key: the start of a longer word, or a collision that
\* lacks only what the pause adds.
WaitForIdle(w, from, intent, first) ==
  \/ Holds(w, Other(from), intent, first, "key") /\ Finished(w, from) /\ from \in w.begins
  \/ /\ Holds(w, Other(from), intent, first, "pause") /\ Collision(w)
     /\ ~Holds(w, Other(from), intent, first, "key")

-----------------------------------------------------------------------------
(* ks_evaluate_sequence *)

WordScore(w, s) == IF s \in w.frequent THEN 48 ELSE IF s \in w.known THEN 30
                   ELSE IF w.keys <= 2 THEN -16 ELSE -26

KnownThroughout(ws, s) == \A i \in DOMAIN ws : s \in ws[i].known

\* Four words at the most.
Scored(ws, i, s) == IF i \in DOMAIN ws THEN WordScore(ws[i], s) ELSE 0

PhraseScore(ws, s, intent) ==
  Scored(ws, 1, s) + Scored(ws, 2, s) + Scored(ws, 3, s) + Scored(ws, 4, s)
    + (IF KnownThroughout(ws, s) THEN 12 + 8 * Len(ws) ELSE 0)
    + (IF intent.slot = s /\ intent.strength <= 4 THEN 8 * intent.strength ELSE 0)

SequenceThreshold == CASE Sensitivity = 0 -> 55 [] Sensitivity = 1 -> 40 [] Sensitivity = 2 -> 30

\* The layout the words belong in, where there is one.
PhraseSlot(ws, intent) ==
  {s \in Slots : /\ KnownThroughout(ws, s)
                 /\ PhraseScore(ws, s, intent) - PhraseScore(ws, Other(s), intent) >= SequenceThreshold}

\* The last n of the words before and the word itself.
Run(before, n, w) == Append(SubSeq(before, Len(before) - n + 1, Len(before)), w)

-----------------------------------------------------------------------------
(***************************************************************************)
(* The word before the caret.  Every operation judges by what it finds in    *)
(* the window w and then lets LanguageContext's helpers add to it.  A        *)
(* preferred language hides the evidence, whose age is then not looked at.   *)
(***************************************************************************)

Intent(w) == IF mode # "auto" THEN [slot |-> mode, strength |-> 5]
             ELSE IF Outdated(w) THEN Blank ELSE context
First(w) == Elsewhere(w) \/ ~started

Judged(w) ==
  /\ IF (mode = "auto" /\ Outdated(w)) \/ Elsewhere(w) THEN ClearIntent ELSE IntentKept
  /\ InSentence(w, started /\ ~Elsewhere(w))

\* remember_intent while a language is preferred: only another window starts anew.
RememberAtAnyAge(w, s, d, e) ==
  LET standing == IF intentWindow # w \/ Elsewhere(w) THEN Blank ELSE context
      first == IF d = 0 THEN standing ELSE Observed(standing, s, d)
      after == Observed(first, s, e)
  IN slot' = after.slot /\ strength' = after.strength /\ intentWindow' = w /\ age' = "fresh"

Learn(w, s, e) == IF mode = "auto" THEN Remember(w, s, e) ELSE RememberAtAnyAge(w, s, 0, e)
LearnBoth(w, s, d, e) == IF mode = "auto" THEN RememberBoth(w, s, d, e)
                                          ELSE RememberAtAnyAge(w, s, d, e)

Becomes(stage, text, from, at) ==
  typed' = [stage |-> stage, text |-> text, from |-> from, at |-> at]

\* Mutant: the correction counts for the layout the word was typed in.
TurnedForSource(text, from, w, e) ==
  Learn(w, from, e) /\ Becomes("turned", text, from, w)

\* apply_decision (3) and the end of try_sequence_correction (4).
Turned(text, from, w, e) ==
  Learn(w, Other(from), e) /\ Becomes("turned", text, from, w)

-----------------------------------------------------------------------------

\* A letter key: the word so far is judged.  A correction stays pending until the
\* next key; a wait sets the timer.  A replacement that cannot be sent leaves the word.
Type(word, from, w) ==
  /\ typed = Nothing /\ UNCHANGED mode
  /\ LET now == CorrectNow(word, from, Intent(w), First(w), "key")
         wait == ~now /\ WaitForIdle(word, from, Intent(w), First(w))
     IN \/ now /\ Turned(<<word>>, from, w, 3) /\ InSentence(w, TRUE)
        \/ Judged(w) /\ Becomes(IF wait THEN "waiting" ELSE "typed", <<word>>, from, w)

\* The pause timer (smart_correction_idle).
Pause ==
  /\ typed.stage = "waiting" /\ UNCHANGED mode
  /\ LET w == typed.at
         now == CorrectNow(typed.text[1], typed.from, Intent(w), First(w), "pause")
     IN \/ now /\ Turned(typed.text, typed.from, w, 3) /\ InSentence(w, TRUE)
        \/ Judged(w) /\ typed' = [typed EXCEPT !.stage = "typed"]

\* A boundary key: the phrase first, then the word, then what is learned from a
\* word that stays.  Where the phrase is as it should be, the word is judged alone.
EndWord(ends) ==
  LET w == typed.at
      word == typed.text[1]
      from == typed.from
      frequency == IF Collision(word) THEN 1 ELSE IF from \in word.frequent THEN 3 ELSE 2
      now == CorrectNow(word, from, Intent(w), First(w), "end")
  IN /\ typed.stage \in {"typed", "waiting"} /\ InSentence(w, ~ends) /\ UNCHANGED mode
     \* The longest phrase of up to 64 characters that has a layout is put in it, but not
     \* where it stands so already, the program corrects itself, or sending fails.
     /\ \/ \E before \in Phrases, s \in Slots : \E n \in 1..Len(before) :
             /\ s \in PhraseSlot(Run(before, n, word), Intent(w))
             /\ Turned(Run(before, n, word), Other(s), w, 4)
        \/ now /\ Turned(<<word>>, from, w, 3)
        \/ /\ ~now /\ from \in word.known /\ typed' = Nothing
           /\ \/ Learn(w, from, frequency)
              \/ ~Collision(word) /\ LearnBoth(w, from, frequency, 2)   \* its spelling is fixed
        \/ /\ now \/ from \notin word.known         \* nothing is learned from what stays
           /\ (IF (mode = "auto" /\ Outdated(w)) \/ Elsewhere(w) THEN ClearIntent ELSE IntentKept)
           /\ typed' = Nothing
        \/ /\ ~now /\ word.known = {} /\ typed' = Nothing
           /\ Learn(w, from, 2)                     \* a spelling fix

\* try_undo: the text stands again as it was typed, and only that counts.
TakeBack ==
  /\ typed.stage = "turned" /\ Undo(typed.at, typed.from)
  /\ typed' = [typed EXCEPT !.stage = "undone"] /\ UNCHANGED mode

\* The key after a word that was corrected or taken back; the space that commits a
\* pending word, and more letters of a word that is still typed.
NextKey ==
  /\ typed # Nothing /\ typed' = Nothing /\ UNCHANGED mode
  /\ \/ UNCHANGED vars
     \/ typed.stage = "turned" /\ WordMarked(typed.at)

\* The end of the sentence, the caret elsewhere, a learned repair, a layout hotkey.
Elsewise == /\ typed' = Nothing /\ UNCHANGED mode
            /\ \/ \E w \in Windows : SentenceEnds(w) \/ Navigate(w) \/ WordMarked(w)
               \/ Forget

\* The tray menu forgets the evidence; the settings window keeps it.
Prefer(m) == /\ mode' = m /\ typed' = Nothing
             /\ Forget \/ UNCHANGED vars

Silence == /\ NinetySecondsPass /\ UNCHANGED mode
           /\ typed' = IF typed.stage \in {"turned", "undone"} THEN Nothing ELSE typed

DNext == \/ \E word \in Words, from \in Slots, w \in Windows : Type(word, from, w)
         \/ \E ends \in BOOLEAN : EndWord(ends)
         \/ \E m \in Modes : Prefer(m)
         \/ Pause \/ TakeBack \/ NextKey \/ Elsewise \/ Silence

DSpec == DInit /\ [][DNext]_dvars

-----------------------------------------------------------------------------
\* core.c:865-956, app.c:3655: keys that were just corrected, and come again in the
\* layout that the correction switched to, are not turned back, and a collision that
\* the user has just taken back is not turned again, at any phase and anywhere in a
\* sentence.  The weights of core.c and the evidence that a correction or an Undo
\* leaves behind must agree on that.
TurnedStays ==
  LET one == typed.text[1]
      whole == IF typed.stage = "turned" THEN Other(typed.from) ELSE typed.from
      alone == Len(typed.text) = 1
      settled == \/ typed.stage = "turned"
                 \/ typed.stage = "undone" /\ mode = "auto" /\ Collision(one)
  IN /\ (settled /\ alone) => \A phase \in Phases, first \in BOOLEAN :
                                ~CorrectNow(one, whole, Intent(typed.at), first, phase)
     /\ (typed.stage = "turned" /\ ~alone) =>
          typed.from \notin PhraseSlot(typed.text, Intent(typed.at))

\* SMART_DETECTION.md:46: the evidence that words are judged by is weighed as Evidence
\* says, within one window and 90 seconds, while no language is preferred.
WeighsInAuto ==
  [][mode = "auto" /\ mode' = "auto" => Weighed!Next \/ UNCHANGED Weighed!vars]_dvars

\* README.md:236: a two-key collision is never guessed from frequency alone, not from
\* how common the words are and not from where in a sentence they stand: it takes
\* evidence of the sentence, or a preferred language.  Except for a word whose own
\* layout knows it only by another spelling.
TwoKeysNeedContext ==
  [][ /\ typed'.stage = "turned" /\ typed.stage # "turned" /\ Len(typed'.text) = 1
      => \/ typed'.text[1].keys > 2 \/ ~Collision(typed'.text[1])
         \/ Intent(typed'.at).slot = Other(typed'.from)
         \/ typed'.from \in typed'.text[1].aliased ]_dvars
=============================================================================
