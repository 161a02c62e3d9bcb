-------------------------- MODULE WordEngineProofs --------------------------
(* The records of the typing engine keep their types, fit their buffers and know the layout
   of a word; what they promise about the text before the caret; and the promise kept: the
   engine refines the text editor (TextEditor). *)
EXTENDS WordEngine, SequenceTheorems, TLAPS

-----------------------------------------------------------------------------
(* The helpers on sequences. *)

\* A function on an initial segment of the integers is a sequence.
LEMMA FunctionIsSeq ==
  ASSUME NEW S, NEW n \in Nat, NEW f \in [1..n -> S]
  PROVE  f \in Seq(S) /\ Len(f) = n
<1>1. f \in Seq(S)
  BY SeqDef
<1> QED BY <1>1, LenProperties

\* Deleting keeps a text a text, whatever the count.
LEMMA DropOK ==
  ASSUME NEW S, NEW s \in Seq(S), NEW n \in Nat
  PROVE  Drop(s, n) \in Seq(S) /\ Len(Drop(s, n)) <= Len(s)
<1>1. \A i \in 1..(Len(s) - n) : s[i] \in S
  OBVIOUS
<1>2. Len(s) - n \in Int /\ Len(s) \in Nat
  OBVIOUS
<1> QED BY <1>1, <1>2, SubSeqProperties DEF Drop

\* So does Backspace.
LEMMA FrontOK ==
  ASSUME NEW S, NEW s \in Seq(S)
  PROVE  Front(s) \in Seq(S) /\ Len(Front(s)) <= Len(s)
BY DropOK DEF Front, Drop

\* A text is cut in two.
LEMMA PartOK ==
  ASSUME NEW S, NEW s \in Seq(S), NEW from \in 1..Len(s)
  PROVE  /\ SubSeq(s, from, Len(s)) \in Seq(S) /\ Len(SubSeq(s, from, Len(s))) = Len(s) - from + 1
         /\ SubSeq(s, 1, from - 1) \in Seq(S) /\ Len(SubSeq(s, 1, from - 1)) = from - 1
<1>1. \A i \in from..Len(s) : s[i] \in S
  OBVIOUS
<1>2. \A i \in 1..(from - 1) : s[i] \in S
  OBVIOUS
<1>3. Len(s) \in Nat
  OBVIOUS
<1>4. /\ SubSeq(s, from, Len(s)) \in Seq(S) /\ Len(SubSeq(s, from, Len(s))) = Len(s) - from + 1
  BY <1>1, <1>3, SubSeqProperties
<1>5. /\ SubSeq(s, 1, from - 1) \in Seq(S) /\ Len(SubSeq(s, 1, from - 1)) = from - 1
  BY <1>2, <1>3, SubSeqProperties
<1> QED BY <1>4, <1>5

\* A text grows by a character, a word by a key, and texts are joined.
LEMMA TextAppend ==
  ASSUME NEW s \in Text, NEW c \in Char
  PROVE  Append(s, c) \in Text /\ Len(Append(s, c)) = Len(s) + 1
<1>1. ASSUME NEW S, NEW q \in Seq(S), NEW e \in S
      PROVE  Append(q, e) \in Seq(S) /\ Len(Append(q, e)) = Len(q) + 1
  BY AppendProperties
<1> QED BY <1>1 DEF Text

\* A word grows by a key.
LEMMA LettersAppend ==
  ASSUME NEW s \in Letters, NEW c \in [key : Keys, slot : Slots]
  PROVE  Append(s, c) \in Letters /\ Len(Append(s, c)) = Len(s) + 1
<1>1. ASSUME NEW S, NEW q \in Seq(S), NEW e \in S
      PROVE  Append(q, e) \in Seq(S) /\ Len(Append(q, e)) = Len(q) + 1
  BY AppendProperties
<1> QED BY <1>1 DEF Letters

\* Two texts make one.
LEMMA TextConcat ==
  ASSUME NEW s \in Text, NEW t \in Text
  PROVE  s \o t \in Text /\ Len(s \o t) = Len(s) + Len(t)
<1>1. ASSUME NEW S, NEW q \in Seq(S), NEW r \in Seq(S)
      PROVE  q \o r \in Seq(S) /\ Len(q \o r) = Len(q) + Len(r)
  BY ConcatProperties
<1> QED BY <1>1 DEF Text

\* The keys of a word are a text.
LEMMA LettersAreText == Letters \subseteq Text
<1> SUFFICES ASSUME NEW s \in Letters PROVE s \in Text
  OBVIOUS
<1>1. [key : Keys, slot : Slots] \subseteq Char
  BY DEF Char
<1> QED BY <1>1, SeqMonotonic DEF Letters, Text

\* A separator is a character of a text.
LEMMA SpaceIsChar == ASSUME NEW z \in BOOLEAN PROVE Space(z) \in Char
BY ChoiceAssumption DEF Space, Char

\* A word stays a word in the other layout, a text a text.
LEMMA InSlotLetters ==
  ASSUME NEW s \in Letters, NEW slot \in Slots
  PROVE  InSlot(s, slot) \in Letters /\ Len(InSlot(s, slot)) = Len(s)
<1> DEFINE L == [key : Keys, slot : Slots]
<1>1. Len(s) \in Nat /\ DOMAIN s = 1..Len(s) /\ \A i \in 1..Len(s) : s[i] \in L
  BY LenProperties, ElementOfSeq DEF Letters
<1>2. \A i \in 1..Len(s) : s[i].key \in Keys /\ s[i].key # "space"
  BY <1>1, KeysAssumption
<1>3. InSlot(s, slot) \in [1..Len(s) -> L]
  BY <1>1, <1>2 DEF InSlot, Letter
<1> QED BY <1>1, <1>3, FunctionIsSeq DEF Letters

\* A text stays a text in the other layout, with its length (tokens_to_language).
LEMMA InSlotText ==
  ASSUME NEW s \in Text, NEW slot \in Lang
  PROVE  InSlot(s, slot) \in Text /\ Len(InSlot(s, slot)) = Len(s)
<1>1. Len(s) \in Nat /\ DOMAIN s = 1..Len(s) /\ \A i \in 1..Len(s) : s[i] \in Char
  BY DEF Text
<1>2. \A i \in 1..Len(s) : Letter(s[i].key, slot) \in Char
  BY <1>1 DEF Char, Letter, Lang
<1>3. \A i \in 1..Len(s) : Space(s[i].slot = Persian /\ slot = Persian) \in Char
  <2>1. \A a, b : (a = b /\ slot = Persian) \in BOOLEAN
    BY Zenon
  <2> QED BY <2>1, SpaceIsChar
<1>4. InSlot(s, slot) \in [1..Len(s) -> Char]
  BY <1>1, <1>2, <1>3 DEF InSlot
<1> QED BY <1>1, <1>4, FunctionIsSeq DEF Text

\* What a text shows is characters of the screen.
LEMMA ShownOK == ASSUME NEW s \in Text PROVE Shown(s) \in Seq(Shape)
<1>1. Len(s) \in Nat /\ DOMAIN s = 1..Len(s) /\ \A i \in 1..Len(s) : s[i] \in Char
  BY DEF Text
<1>2. \A i \in 1..Len(s) : s[i].key \in Shape
  BY <1>1 DEF Char, Shape
<1>3. Shown(s) \in [1..Len(s) -> Shape]
  BY <1>1, <1>2 DEF Shown, Shape
<1> QED BY <1>1, <1>3, FunctionIsSeq

-----------------------------------------------------------------------------
(* The records. *)

\* The prover needs the two truth values as a fact.
LEMMA Booleans == TRUE \in BOOLEAN /\ FALSE \in BOOLEAN
BY Zenon

\* Abandoning the history keeps the rest of it.
LEMMA HistChange ==
  ASSUME NEW h, HistOK(h), NEW b \in BOOLEAN
  PROVE  HistOK([h EXCEPT !.over = b])
BY DEF HistOK, History

\* The empty records are in order.
LEMMA NothingOK ==
  /\ WordOK(NoWord) /\ FinishedOK(NoPrev) /\ FinishedOK(NoPending) /\ HistOK(NoHist)
  /\ HistOK(AbandonedHist) /\ UndoOK(NoUndo) /\ RequestOK(NoRequest) /\ RequestOK(DeadRequest)
  /\ OpOK(NoOp)
<1>1. <<>> \in Letters /\ Len(<<>>) = 0 /\ <<>> \in Text
  BY DEF Letters, Text
<1>2. WordOK(NoWord)
  BY <1>1, Booleans, BoundAssumption DEF WordOK, NoWord, Word, Lang
<1>3. FinishedOK(NoPrev) /\ FinishedOK(NoPending)
  BY <1>1, Booleans, BoundAssumption DEF FinishedOK, NoPrev, NoPending, Finished, Lang
<1>4. HistOK(NoHist)
  BY <1>1, <1>3, Booleans, BoundAssumption DEF HistOK, NoHist, History, FinishedOK
<1>8. HistOK(AbandonedHist)
  BY <1>4, HistChange, Booleans DEF AbandonedHist
<1>5. UndoOK(NoUndo)
  BY <1>1, Booleans DEF UndoOK, NoUndo, UndoRecord, Lang
<1>6. RequestOK(NoRequest) /\ RequestOK(DeadRequest)
  BY DEF RequestOK, NoRequest, DeadRequest, Request, Lang
<1>7. OpOK(NoOp)
  BY Booleans DEF OpOK, NoOp, Operation
<1> QED BY <1>2, <1>3, <1>4, <1>5, <1>6, <1>7, <1>8

\* The language a key is read in is one of the pair (keyboard_hook_body).
LEMMA LanguageOK ==
  ASSUME RequestOK(request), layout \in Slots
  PROVE  Language \in Slots
BY DEF Language, SwitchPending, RequestOK

\* What a key finds is in order.
LEMMA FoundOK ==
  ASSUME TypeOK
  PROVE  WordOK(FoundWord) /\ HistOK(FoundHist) /\ RequestOK(FoundRequest)
<1>1. WordOK([word EXCEPT !.mixed = TRUE])
  BY Booleans DEF TypeOK, WordOK, Word
<1> QED BY <1>1, NothingOK DEF FoundWord, FoundHist, FoundRequest, TypeOK

\* What is known of the keys of a word.
LEMMA LettersOfWord ==
  ASSUME NEW w, WordOK(w)
  PROVE  /\ w.keys \in Letters /\ Len(w.keys) \in Nat /\ Len(w.keys) <= MaxWord
         /\ \A i \in 1..Len(w.keys) : w.keys[i].slot \in Slots /\ w.keys[i].key \in Keys
<1>1. w.keys \in Letters /\ Len(w.keys) <= MaxWord
  BY DEF WordOK, Word
<1>2. \A i \in 1..Len(w.keys) : w.keys[i] \in [key : Keys, slot : Slots]
  BY <1>1, ElementOfSeq DEF Letters
<1>3. Len(w.keys) \in Nat
  BY <1>1, LenProperties DEF Letters
<1> QED BY <1>1, <1>2, <1>3

\* evaluate_mixed_word leaves a word in order.
LEMMA SettledOK == ASSUME NEW w, WordOK(w) PROVE WordOK(Settled(w))
<1>1. CASE w.keys # <<>>
  <2>1. Len(w.keys) >= 1
    BY <1>1, LettersOfWord, EmptySeq DEF Letters
  <2>2. w.keys[1].slot \in Slots
    BY <2>1, LettersOfWord
  <2>3. WordOK([w EXCEPT !.mixed = FALSE, !.lang = w.keys[1].slot])
    BY <2>2, Booleans DEF WordOK, Word, Lang
  <2> QED BY <2>3 DEF Settled
<1> QED BY <1>1 DEF Settled

\* A word with keys is in a layout of the pair (current_word_layout).
LEMMA WordLayoutOK ==
  ASSUME NEW w, WordOK(w), w.keys # <<>>
  PROVE  WordLayout(w) \in Slots
<1>1. Len(w.keys) \in 1..Len(w.keys)
  BY LettersOfWord, EmptySeq DEF Letters
<1>2. w.lang \in Slots
  BY DEF WordOK
<1> QED BY <1>1, <1>2, LettersOfWord DEF WordLayout

\* A history with another text within the limit is in order.
LEMMA TextChange ==
  ASSUME NEW h, HistOK(h), NEW text \in Text, Len(text) <= MaxHistoryChars + 1
  PROVE  HistOK([h EXCEPT !.text = text])
BY DEF HistOK, History

\* history_push keeps the limit of characters.
LEMMA PushOK ==
  ASSUME NEW h, HistOK(h), NEW keys \in Text, NEW b
  PROVE  HistOK(Push(h, keys, b))
<1>1. h.text \in Text /\ Len(h.text) \in Nat /\ Len(keys) \in Nat
  BY LenProperties DEF HistOK, History, Text
<1>2. Space(b = "half") \in Char
  <2>1. (b = "half") \in BOOLEAN
    BY Zenon
  <2> QED BY <2>1, SpaceIsChar
<1>3. ASSUME NEW c \in Char, Len(h.text) + Len(keys) <= MaxHistoryChars
      PROVE  HistOK([h EXCEPT !.text = h.text \o Append(keys, c)])
  <2>1. Append(keys, c) \in Text /\ Len(Append(keys, c)) = Len(keys) + 1
    BY <1>3, TextAppend
  <2>2. h.text \o Append(keys, c) \in Text
        /\ Len(h.text \o Append(keys, c)) = Len(h.text) + (Len(keys) + 1)
    BY <1>1, <2>1, TextConcat
  <2>3. Len(h.text) + (Len(keys) + 1) <= MaxHistoryChars + 1
    <3>1. ASSUME NEW m \in Nat, NEW n \in Nat, m + n <= MaxHistoryChars
          PROVE  m + (n + 1) <= MaxHistoryChars + 1
      BY <3>1, BoundAssumption
    <3> QED BY <1>1, <1>3, <3>1, Zenon
  <2>4. Len(h.text \o Append(keys, c)) <= MaxHistoryChars + 1
    BY <2>2, <2>3, Zenon
  <2> QED BY <2>2, <2>4, TextChange
<1>4. CASE Len(h.text) + Len(keys) <= MaxHistoryChars
  BY <1>2, <1>3, <1>4, NothingOK, Zenon DEF Push
<1>5. CASE ~(Len(h.text) + Len(keys) <= MaxHistoryChars)
  BY <1>1, <1>5, NothingOK, BoundAssumption DEF Push
<1> QED BY <1>4, <1>5

\* A word whose overflow is counted is in order.
LEMMA OverChange ==
  ASSUME NEW w, WordOK(w), NEW n \in Nat
  PROVE  WordOK([w EXCEPT !.over = n, !.armed = FALSE])
BY Booleans DEF WordOK, Word

\* A word with other keys within the limit is in order.
LEMMA KeysChange ==
  ASSUME NEW w, WordOK(w), NEW keys \in Letters, Len(keys) <= MaxWord, w.lang \in Slots
  PROVE  WordOK([w EXCEPT !.keys = keys, !.armed = FALSE])
BY Booleans DEF WordOK, Word

\* A key is recorded where it fits, and counted where it does not.
LEMMA WithKeyOK ==
  ASSUME NEW w, WordOK(w), w.ctx, NEW k \in Keys, Language \in Slots
  PROVE  WordOK(WithKey(w, k))
<1>1. w.over + 1 \in Nat /\ w.lang \in Slots /\ w.keys \in Letters /\ Len(w.keys) \in Nat
  BY LettersOfWord DEF WordOK, Word
<1>2. ASSUME NEW c \in [key : Keys, slot : Slots], Len(w.keys) < MaxWord
      PROVE  WordOK([w EXCEPT !.keys = Append(@, c), !.armed = FALSE])
  <2>1. Append(w.keys, c) \in Letters /\ Len(Append(w.keys, c)) = Len(w.keys) + 1
    BY <1>1, <1>2, LettersAppend
  <2>2. Len(w.keys) + 1 <= MaxWord
    BY <1>1, <1>2, BoundAssumption
  <2>3. Len(Append(w.keys, c)) <= MaxWord
    BY <2>1, <2>2, Zenon
  <2> QED BY <1>1, <2>1, <2>3, KeysChange
<1>3. Letter(k, Language) \in [key : Keys, slot : Slots]
  BY DEF Letter
<1>4. WordOK([w EXCEPT !.over = @ + 1, !.armed = FALSE])
  BY <1>1, OverChange
<1> QED BY <1>2, <1>3, <1>4, Zenon DEF WithKey

\* Backspace takes a recorded or a counted key off.
LEMMA ErasedOK == ASSUME NEW w, WordOK(w) PROVE WordOK(Erased(w))
<1>1. CASE w.over > 0
  <2>1. w.over - 1 \in Nat
    BY <1>1 DEF WordOK, Word
  <2>2. WordOK([w EXCEPT !.over = @ - 1, !.armed = FALSE])
    BY <2>1, OverChange
  <2> QED BY <1>1, <2>2 DEF Erased
<1>2. CASE ~(w.over > 0) /\ w.keys # <<>>
  <2> DEFINE shorter == Front(w.keys)
  <2>1. w.keys \in Letters /\ Len(w.keys) \in Nat /\ Len(w.keys) <= MaxWord
    BY LettersOfWord
  <2>2. shorter \in Letters /\ Len(shorter) <= Len(w.keys)
    BY <2>1, FrontOK DEF Letters
  <2>3. Len(shorter) \in Nat
    BY <2>2, LenProperties DEF Letters
  <2>4. Len(shorter) <= MaxWord
    <3> HIDE DEF shorter
    <3> QED BY <2>1, <2>2, <2>3, BoundAssumption
  <2>5. w.lang \in Slots
    BY <1>2 DEF WordOK
  <2>6. WordOK([w EXCEPT !.keys = shorter, !.armed = FALSE])
    BY <2>2, <2>4, <2>5, KeysChange
  <2> QED BY <1>2, <2>6 DEF Erased
<1>3. CASE ~(w.over > 0) /\ w.keys = <<>>
  BY <1>3 DEF Erased
<1> QED BY <1>1, <1>2, <1>3

\* The dead key an operation found is part of it.
LEMMA DeadChange ==
  ASSUME NEW o, OpOK(o), NEW d \in 0..2
  PROVE  OpOK([o EXCEPT !.dead = d])
BY DEF OpOK, Operation

\* engine_enter opens an operation in order.
LEMMA OpenOK ==
  ASSUME NEW src \in {"letter", "boundary", "backspace", "idle", "hotkey"}, NEW key,
         src = "letter" => key \in Keys, src = "boundary" => key \in Boundaries,
         src = "backspace" => key = "back", src \in {"idle", "hotkey"} => key = "none"
  PROVE  OpOK(Open(src, key))
<1>1. NoOp \in Operation
  BY NothingOK DEF OpOK
<1>2. key \in Keys \cup Boundaries \cup {"none", "back"}
  OBVIOUS
<1>3. src \in {"none", "letter", "boundary", "backspace", "idle", "hotkey"}
  OBVIOUS
<1>4. Open(src, key) \in Operation /\ Open(src, key).src = src /\ Open(src, key).key = key
  <2>1. /\ [NoOp EXCEPT !.phase = "eval", !.src = src, !.key = key] \in Operation
        /\ [NoOp EXCEPT !.phase = "eval", !.src = src, !.key = key].src = src
        /\ [NoOp EXCEPT !.phase = "eval", !.src = src, !.key = key].key = key
    BY <1>1, <1>2, <1>3 DEF Operation
  <2> QED BY <2>1 DEF Open
<1> QED BY <1>4 DEF OpOK

\* An Undo record of two texts is in order (store_undo).
LEMMA RecordOK ==
  ASSUME NEW original \in Text, NEW replacement \in Text, NEW b \in Boundaries \cup {"none"},
         NEW source \in Slots
  PROVE  UndoOK(Record(original, replacement, b, source))
<1>1. 0 \in 0..2
  OBVIOUS
<1> QED BY <1>1, Booleans DEF UndoOK, Record, UndoRecord, Lang

\* What Undo will type back is a text, whichever way the word is judged.
LEMMA VisibleOK ==
  ASSUME NEW w, WordOK(w), w.keys # <<>>
  PROVE  /\ Visible(w) \in Text /\ InSlot(w.keys, w.lang) \in Letters
         /\ Len(InSlot(w.keys, w.lang)) <= MaxWord
         /\ \A t \in Slots : InSlot(w.keys, t) \in Letters /\ Len(InSlot(w.keys, t)) <= MaxWord
<1>1. w.keys \in Letters /\ Len(w.keys) <= MaxWord /\ w.lang \in Slots
  BY LettersOfWord DEF WordOK
<1>2. \A t \in Slots : InSlot(w.keys, t) \in Letters /\ Len(InSlot(w.keys, t)) = Len(w.keys)
  BY <1>1, InSlotLetters
<1>3. \A t \in Slots : InSlot(w.keys, t) \in Letters /\ Len(InSlot(w.keys, t)) <= MaxWord
  BY <1>1, <1>2, Zenon
<1> QED BY <1>1, <1>3, LettersAreText DEF Visible

-----------------------------------------------------------------------------
(* The screen. *)

\* A character more or less is a text.
LEMMA ScreenSteps ==
  ASSUME screen \in Seq(Shape)
  PROVE  /\ Front(screen) \in Seq(Shape) /\ <<>> \in Seq(Shape)
         /\ \A c \in Shape : Append(screen, c) \in Seq(Shape)
BY FrontOK, AppendProperties, EmptySeq

\* The swallowed key is typed as a text.
LEMMA DelimiterOK ==
  ASSUME NEW b, NEW lang PROVE Delimiter(b, lang) \in Seq(Shape)
<1>1. "space" \in Shape /\ "zwnj" \in Shape /\ "mark" \in Shape
  BY DEF Shape
<1>2. <<>> \in Seq(Shape) /\ \A c \in Shape : <<c>> \in Seq(Shape)
  OBVIOUS
<1> QED BY <1>1, <1>2 DEF Delimiter

\* What send_replacement leaves before the caret is a text.
LEMMA InjectOK ==
  ASSUME screen \in Seq(Shape), NEW n \in Nat, NEW text \in Text, NEW b, NEW lang,
         Inject(n, text, b, lang)
  PROVE  screen' \in Seq(Shape)
<1>1. Drop(screen, n) \in Seq(Shape)
  BY DropOK
<1>2. Shown(text) \in Seq(Shape)
  BY ShownOK
<1>3. Delimiter(b, lang) \in Seq(Shape) /\ <<>> \in Seq(Shape)
  BY DelimiterOK, EmptySeq
<1>4. ASSUME NEW S, NEW p \in Seq(S), NEW q \in Seq(S), NEW r \in Seq(S)
      PROVE  p \o q \o r \in Seq(S)
  BY ConcatProperties
<1>5. Drop(screen, n) \o Shown(text) \o Delimiter(b, lang) \in Seq(Shape)
  BY <1>1, <1>2, <1>3, <1>4
<1> QED BY <1>3, <1>5, Zenon DEF Inject

\* The key of an operation lands as a key, a separator or a character the engine
\* does not follow.
LEMMA LandingOK ==
  ASSUME OpOK(op), InHook, KeyLands, screen \in Seq(Shape)
  PROVE  screen' \in Seq(Shape)
<1>1. CASE op.key \in {"enter", "back"}
  BY <1>1, ScreenSteps DEF KeyLands
<1>2. CASE op.key \notin {"enter", "back"}
  <2>1. PICK text \in Landing : screen' = screen \o text
    BY <1>2 DEF KeyLands
  <2>2. op.key \in Keys \cup {"space", "half", "stop"}
    BY <1>2 DEF OpOK, InHook, Boundaries
  <2>3. "space" \in Shape /\ "zwnj" \in Shape /\ "mark" \in Shape
    BY DEF Shape
  <2>4. \A c \in Shape : <<c>> \in Seq(Shape) /\ <<"mark">> \o <<c>> \in Seq(Shape)
    BY <2>3
  <2>5. <<"mark">> \o <<>> \in Seq(Shape)
    BY <2>3
  <2> DEFINE plain == CASE op.key = "space" -> {<<"space">>}
                        [] op.key = "half" -> {<<IF s = Persian THEN "zwnj" ELSE "space">> : s \in Rendering}
                        [] op.key = "stop" -> {<<"mark">>}
                        [] OTHER -> {<<op.key>>}
  <2>6. \A p \in plain : \E c \in Shape : p = <<c>>
    <3>1. CASE op.key = "half"
      BY <3>1, <2>3
    <3>2. CASE op.key \in {"space", "stop"}
      BY <3>2, <2>3
    <3>3. CASE op.key \in Keys \ {"space", "stop", "half"}
      BY <3>3 DEF Shape
    <3> QED BY <2>2, <3>1, <3>2, <3>3
  <2>7. text \in plain \/ \E p \in plain \cup {<<>>} : text = <<"mark">> \o p
    BY <2>1 DEF Landing
  <2>8. text \in Seq(Shape)
    BY <2>4, <2>5, <2>6, <2>7
  <2> QED BY <2>1, <2>8, ConcatProperties
<1> QED BY <1>1, <1>2

-----------------------------------------------------------------------------
(* Events between operations. *)

\* What a step leaves alone keeps its type.
LEMMA Untouched ==
  ASSUME TypeOK
  PROVE  /\ screen' = screen => screen' \in Seq(Shape)
         /\ layout' = layout => layout' \in Layouts
         /\ asked' = asked => asked' \in Layouts \cup {"none"}
         /\ moved' = moved => moved' \in {"no", "element", "window", "seen"}
         /\ word' = word => WordOK(word')
         /\ hist' = hist => HistOK(hist')
         /\ undo' = undo => UndoOK(undo')
         /\ prev' = prev => FinishedOK(prev')
         /\ untrusted' = untrusted => untrusted' \in BOOLEAN
         /\ dead' = dead => dead' \in 0..2
         /\ request' = request => RequestOK(request')
         /\ hotkey' = hotkey => hotkey' \in BOOLEAN
         /\ op' = op => OpOK(op')
BY Zenon DEF TypeOK

\* Layout requests and records only grow older.
LEMMA AgesOK ==
  ASSUME TypeOK, RequestAges \/ UndoAges
  PROVE  TypeOK'
<1>1. CASE RequestAges
  <2>1. RequestOK(request')
    <3>1. \A age \in {"held", "late"} : RequestOK([request EXCEPT !.age = age])
      BY DEF TypeOK, RequestOK, Request
    <3> QED BY <1>1, <3>1, NothingOK DEF RequestAges
  <2> QED BY <1>1, <2>1, Untouched DEF RequestAges, TypeOK
<1>2. CASE UndoAges
  <2>1. ASSUME NEW n \in 0..2 PROVE UndoOK([undo EXCEPT !.age = n])
    BY DEF TypeOK, UndoOK, UndoRecord
  <2>2. undo.age \in 0..2
    BY DEF TypeOK, UndoOK, UndoRecord
  <2>3. undo.age + 1 \in 0..2
    BY <1>2, <2>2 DEF UndoAges
  <2>4. UndoOK(undo')
    BY <1>2, <2>1, <2>3, Zenon DEF UndoAges
  <2> QED BY <1>2, <2>4, Untouched DEF UndoAges, TypeOK
<1> QED BY <1>1, <1>2

\* Layout and focus change in the application, and the engine is told or not.
LEMMA SurroundingsOK ==
  ASSUME TypeOK,
         \/ LayoutArrives \/ FocusMoves \/ SwitchWindow \/ FocusEvent \/ Click
         \/ \E to \in Layouts : ManualSwitch(to)
  PROVE  TypeOK'
<1> USE NothingOK, EmptySeq, Booleans
<1>7. 0 \in 0..2
  OBVIOUS
<1>1. CASE LayoutArrives
  BY <1>1, Untouched DEF LayoutArrives, TypeOK
<1>2. CASE FocusMoves
  BY <1>2, Untouched DEF FocusMoves, TypeOK
<1>3. CASE SwitchWindow
  BY <1>3, Untouched, ChoiceAssumption DEF SwitchWindow, TypeOK
<1>4. CASE FocusEvent
  BY <1>4, <1>7, Untouched DEF FocusEvent, TypeOK
<1>5. CASE Click
  BY <1>5, <1>7, Untouched DEF Click, TypeOK
<1>6. ASSUME NEW to \in Layouts, ManualSwitch(to) PROVE TypeOK'
  BY <1>6, Untouched DEF ManualSwitch, TypeOK
<1> QED BY <1>1, <1>2, <1>3, <1>4, <1>5, <1>6

\* Keys that end the word, or that belong to somebody else.
LEMMA OtherKeysOK ==
  ASSUME TypeOK,
         \/ \E kind \in 0..2 : UntrackedKey(kind)
         \/ NavigationKey \/ ShortcutKey \/ ForeignKey \/ UndoHotkey
  PROVE  TypeOK'
<1>1. screen \in Seq(Shape) /\ "mark" \in Shape /\ "unread" \in Shape
  BY DEF TypeOK, Shape
<1>2. KeyDown => /\ FinishedOK(prev') /\ UndoOK(undo')
                 /\ moved' \in {"no", "element", "window", "seen"}
  BY NothingOK DEF KeyDown, NoticeWindow, TypeOK
<1>3. RequestOK(FoundRequest)
  BY FoundOK
<1>4. ASSUME NEW kind \in 0..2, UntrackedKey(kind) PROVE TypeOK'
  <2>1. screen' \in Seq(Shape)
    <3>1. CASE kind = 2
      <4>1. PICK n \in 1..2 : screen' = screen \o [i \in 1..n |-> "unread"]
        BY <1>4, <3>1 DEF UntrackedKey
      <4>2. [i \in 1..n |-> "unread"] \in Seq(Shape)
        BY <1>1, FunctionIsSeq
      <4> QED BY <1>1, <4>1, <4>2, ConcatProperties
    <3> QED BY <1>1, <1>4, <3>1, ScreenSteps DEF UntrackedKey
  <2> QED BY <1>2, <1>3, <1>4, <2>1, NothingOK, Untouched DEF UntrackedKey, TypeOK
<1>5. CASE NavigationKey
  <2>1. 0 \in 0..2
    OBVIOUS
  <2> QED BY <1>1, <1>2, <1>5, <2>1, ScreenSteps, NothingOK, Untouched DEF NavigationKey, TypeOK
<1>6. CASE ShortcutKey
  <2>1. screen' \in Seq(Shape)
    BY <1>1, <1>6, ScreenSteps DEF ShortcutKey
  <2>2. untrusted' \in BOOLEAN
    BY <1>6, Booleans DEF ShortcutKey, TypeOK
  <2> QED BY <1>6, <2>1, <2>2, NothingOK, Untouched DEF ShortcutKey, TypeOK
<1>7. CASE ForeignKey
  BY <1>1, <1>7, ScreenSteps, NothingOK, Untouched DEF ForeignKey, TypeOK
<1>8. CASE UndoHotkey
  BY <1>8, Booleans, NothingOK, Untouched DEF UndoHotkey, TypeOK
<1> QED BY <1>4, <1>5, <1>6, <1>7, <1>8

-----------------------------------------------------------------------------
(* Keys that open an operation, and Backspace. *)

\* A corrected word goes on as a word.
LEMMA ResumedOK ==
  ASSUME NEW p, FinishedOK(p), p.ok
  PROVE  WordOK(Resumed(p)) /\ Resumed(p).ctx
<1>1. ASSUME NEW m \in BOOLEAN
      PROVE  /\ WordOK([NoWord EXCEPT !.keys = p.keys, !.lang = p.lang, !.ctx = TRUE, !.mixed = m])
             /\ [NoWord EXCEPT !.keys = p.keys, !.lang = p.lang, !.ctx = TRUE, !.mixed = m].ctx
  <2>1. p.keys \in Letters /\ Len(p.keys) <= MaxWord /\ p.lang \in Slots /\ p.lang \in Lang
    BY DEF FinishedOK, Finished, Lang
  <2>2. NoWord \in Word
    BY NothingOK DEF WordOK
  <2> QED BY <2>1, <2>2, Booleans DEF WordOK, Word
<1>2. (p.lang # Language) \in BOOLEAN
  BY Zenon
<1> QED BY <1>1, <1>2, Zenon DEF Resumed

\* A word begins with its layout known.
LEMMA BegunOK ==
  ASSUME Language \in Slots
  PROVE  WordOK(Begun) /\ Begun.ctx
<1>1. ASSUME NEW m \in BOOLEAN, NEW lang \in Slots
      PROVE  /\ WordOK([NoWord EXCEPT !.lang = lang, !.ctx = TRUE, !.skip = m])
             /\ [NoWord EXCEPT !.lang = lang, !.ctx = TRUE, !.skip = m].ctx
  <2>1. NoWord \in Word /\ lang \in Lang /\ Len(NoWord.keys) <= MaxWord
    BY NothingOK DEF WordOK, Lang
  <2> QED BY <2>1, Booleans DEF WordOK, Word
<1>2. (untrusted \/ dead # 0) \in BOOLEAN
  BY Zenon
<1> QED BY <1>1, <1>2, Zenon DEF Begun

\* The history carries any finished word as its pending one.
LEMMA PendingChange ==
  ASSUME NEW h, HistOK(h), NEW p, FinishedOK(p)
  PROVE  HistOK([h EXCEPT !.pending = p])
BY DEF HistOK, History, FinishedOK

\* A key ends the life of the previous word and of the Undo record.
LEMMA KeyDownOK ==
  ASSUME TypeOK, KeyDown
  PROVE  FinishedOK(prev') /\ UndoOK(undo') /\ moved' \in {"no", "element", "window", "seen"}
BY NothingOK DEF KeyDown, NoticeWindow, TypeOK

\* A letter of a word: continued, resumed after a correction, or begun.
LEMMA LetterKeyOK ==
  ASSUME TypeOK, NEW k \in Keys, LetterKey(k)
  PROVE  TypeOK'
<1> DEFINE resumed == Resumes(FoundWord, FoundHist)
           begins == ~FoundWord.ctx /\ ~resumed
           w == IF resumed THEN Resumed(FoundHist.pending) ELSE IF begins THEN Begun ELSE FoundWord
<1>1. Language \in Slots
  BY LanguageOK DEF TypeOK, LetterKey
<1>2. WordOK(w) /\ w.ctx
  <2>1. WordOK(FoundWord) /\ FinishedOK(FoundHist.pending)
    BY FoundOK DEF HistOK
  <2>2. resumed => FoundHist.pending.ok
    BY DEF Resumes
  <2>3. CASE resumed
    BY <2>1, <2>2, <2>3, ResumedOK
  <2>4. CASE begins
    BY <1>1, <2>4, BegunOK
  <2>5. CASE ~resumed /\ ~begins
    BY <2>1, <2>5
  <2> QED BY <2>3, <2>4, <2>5
<1>3. WordOK(word')
  <2>1. WordOK(WithKey(w, k))
    <3> HIDE DEF w
    <3> QED BY <1>1, <1>2, WithKeyOK
  <2> QED BY <2>1, SettledOK DEF LetterKey
<1>4. HistOK(hist')
  <2>1. HistOK([FoundHist EXCEPT !.pending = NoPending])
    BY FoundOK, NothingOK, PendingChange
  <2> QED BY <2>1, FoundOK, NothingOK, Zenon DEF LetterKey
<1>5. untrusted' \in BOOLEAN
  BY Zenon DEF LetterKey
<1>6. dead' \in 0..2
  <2>1. dead \in 0..2 /\ 0 \in 0..2
    BY DEF TypeOK
  <2> QED BY <2>1, Zenon DEF LetterKey
<1>7. OpOK(op')
  <2>1. OpOK(Open("letter", k))
    BY OpenOK
  <2>2. dead \in 0..2
    BY DEF TypeOK
  <2> QED BY <2>1, <2>2, DeadChange, Zenon DEF LetterKey
<1>8. KeyDown /\ request' = FoundRequest /\ UNCHANGED <<screen, layout, asked, hotkey>>
  BY DEF LetterKey
<1> QED BY <1>3, <1>4, <1>5, <1>6, <1>7, <1>8, KeyDownOK, FoundOK, Untouched DEF TypeOK

\* A key that ends the word.
LEMMA BoundaryKeyOK ==
  ASSUME TypeOK, NEW b \in Boundaries, BoundaryKey(b)
  PROVE  TypeOK'
<1>1. OpOK(op')
  <2>1. OpOK(Open("boundary", b))
    BY OpenOK
  <2>2. dead \in 0..2
    BY DEF TypeOK
  <2> QED BY <2>1, <2>2, DeadChange, Zenon DEF BoundaryKey
<1>2. dead' \in 0..2
  BY DEF BoundaryKey
<1> QED BY <1>1, <1>2, KeyDownOK, FoundOK, Untouched DEF BoundaryKey, TypeOK

\* Backspace takes a key off the word, reopens the word before or forgets both.
LEMMA PlainBackspaceOK ==
  ASSUME TypeOK, PlainBackspace
  PROVE  /\ dead' \in 0..2 /\ FinishedOK(prev') /\ UndoOK(undo')
         /\ WordOK(word') /\ HistOK(hist') /\ RequestOK(request')
<1>1. prev.ok => WordOK([NoWord EXCEPT !.keys = prev.keys, !.lang = prev.lang, !.ctx = TRUE])
  <2> SUFFICES ASSUME prev.ok
               PROVE  WordOK([NoWord EXCEPT !.keys = prev.keys, !.lang = prev.lang, !.ctx = TRUE])
    OBVIOUS
  <2>1. prev.keys \in Letters /\ Len(prev.keys) <= MaxWord /\ prev.lang \in Slots
        /\ prev.lang \in Lang
    BY DEF TypeOK, FinishedOK, Finished, Lang
  <2>2. NoWord \in Word
    BY NothingOK DEF WordOK
  <2> QED BY <2>1, <2>2, Booleans DEF WordOK, Word
<1>2. WordOK(Erased(FoundWord))
  BY FoundOK, ErasedOK
<1>3. WordOK(word')
  BY <1>1, <1>2, NothingOK, Zenon DEF PlainBackspace
<1>4. HistOK(hist') /\ RequestOK(request')
  BY FoundOK, NothingOK, Zenon DEF PlainBackspace
<1> QED BY <1>3, <1>4, NothingOK DEF PlainBackspace

\* Backspace, and Backspace as Undo.
LEMMA BackspaceOK ==
  ASSUME TypeOK, BackspaceKey \/ UndoBackspace
  PROVE  TypeOK'
<1>1. CASE BackspaceKey
  <2>1. screen' \in Seq(Shape)
    BY <1>1, ScreenSteps DEF BackspaceKey, TypeOK
  <2>2. moved' \in {"no", "element", "window", "seen"}
    BY <1>1 DEF BackspaceKey, NoticeWindow, TypeOK
  <2>3. PlainBackspace /\ UNCHANGED <<layout, asked, untrusted, hotkey, op>>
    BY <1>1 DEF BackspaceKey
  <2> QED BY <2>1, <2>2, <2>3, PlainBackspaceOK, Untouched DEF TypeOK
<1>2. CASE UndoBackspace
  <2>1. OpOK(Open("backspace", "back"))
    BY OpenOK
  <2> QED BY <1>2, <2>1, NothingOK, Untouched DEF UndoBackspace, TypeOK
<1> QED BY <1>1, <1>2

-----------------------------------------------------------------------------
(* Inside an operation. *)

\* Marks do not change what an operation is about.
LEMMA OpMarked ==
  ASSUME TypeOK
  PROVE  /\ OpOK([op EXCEPT !.late = TRUE]) /\ OpOK([op EXCEPT !.keyCut = TRUE])
         /\ OpOK([op EXCEPT !.reset = TRUE]) /\ OpOK([op EXCEPT !.phase = "sent"])
BY Booleans DEF TypeOK, OpOK, Operation

\* Whatever arrives while an operation runs only marks it.
LEMMA NestedOK ==
  ASSUME TypeOK, HookTimesOut \/ NestedKey \/ NestedClick \/ NestedFocusEvent
  PROVE  TypeOK'
<1>1. screen \in Seq(Shape) /\ OpOK(op)
  BY DEF TypeOK
<1>2. CASE HookTimesOut
  <2>1. screen' \in Seq(Shape)
    BY <1>1, <1>2, LandingOK DEF HookTimesOut
  <2> QED BY <1>2, <2>1, OpMarked, Untouched DEF HookTimesOut, RecordsKept, TypeOK
<1>3. CASE NestedKey
  <2>1. "mark" \in Shape /\ Keys \subseteq Shape
    BY DEF Shape
  <2>2. screen' \in Seq(Shape)
    BY <1>1, <1>3, <2>1, ScreenSteps DEF NestedKey
  <2> QED BY <1>3, <2>2, OpMarked, NothingOK, Untouched DEF NestedKey, RecordsKept, TypeOK
<1>4. CASE NestedClick
  BY <1>1, <1>4, ScreenSteps, OpMarked, Untouched DEF NestedClick, RecordsKept, TypeOK
<1>5. CASE NestedFocusEvent
  BY <1>5, OpMarked, NothingOK, Untouched DEF NestedFocusEvent, RecordsKept, TypeOK
<1> QED BY <1>2, <1>3, <1>4, <1>5

-----------------------------------------------------------------------------
(* Replacements. *)

\* A requested layout is one of the pair (request_layout).
LEMMA AsksOK ==
  ASSUME TypeOK, NEW t \in Slots, Asks(t)
  PROVE  RequestOK(request') /\ layout' \in Layouts /\ asked' \in Layouts \cup {"none"}
<1>1. t \in Layouts /\ t \in Lang /\ layout \in Layouts \cup {"none"}
  BY ChoiceAssumption DEF TypeOK, Lang
<1>2. RequestOK([age |-> "fresh", lang |-> t, from |-> layout])
  BY <1>1 DEF RequestOK, Request
<1> QED BY <1>1, <1>2 DEF Asks, TypeOK

\* A replacement sends its text, remembers how to take it back and asks for the
\* layout; what it leaves of the records is the caller's.
LEMMA SentOK ==
  ASSUME TypeOK, Sent, NEW t \in Slots, Asks(t), NEW n \in Nat, NEW text \in Text,
         NEW b, NEW lang, Inject(n, text, b, lang),
         UndoOK(undo'), HistOK(hist'), WordOK(word')
  PROVE  TypeOK'
<1>1. screen' \in Seq(Shape)
  BY InjectOK DEF TypeOK
<1>2. OpOK(op')
  BY OpMarked DEF Sent
<1> QED BY <1>1, <1>2, AsksOK, Untouched DEF Sent, TypeOK

\* A word long enough to be corrected has a key, so the deletions are never negative.
LEMMA WordLength ==
  ASSUME NEW w, WordOK(w), NEW least \in Nat \ {0}, LongEnough(w, least)
  PROVE  Len(w.keys) \in Nat /\ Len(w.keys) - 1 \in Nat /\ w.keys # <<>>
<1>1. Len(w.keys) \in Nat
  BY LettersOfWord
<1>2. Len(w.keys) >= 1
  <2>1. ASSUME NEW n \in Nat, NEW m \in BOOLEAN, n >= IF m THEN 2 ELSE least PROVE n >= 1
    BY <2>1
  <2>2. w.mixed \in BOOLEAN
    BY DEF WordOK, Word
  <2> QED BY <1>1, <2>1, <2>2, Zenon DEF LongEnough
<1>3. w.keys # <<>>
  <2> SUFFICES ASSUME w.keys = <<>> PROVE FALSE
    OBVIOUS
  <2>1. Len(w.keys) = 0
    BY EmptySeq
  <2> QED BY <1>2, <2>1
<1> QED BY <1>1, <1>2, <1>3

\* The live correction and the one after a pause.
LEMMA CorrectWhileTypingOK ==
  ASSUME TypeOK, NEW t \in Slots, CorrectWhileTyping(t)
  PROVE  TypeOK'
<1> DEFINE text == InSlot(word.keys, t)
           n == Len(word.keys) - (IF op.src = "letter" THEN 1 ELSE 0)
<1>1. WordOK(word) /\ HistOK(hist)
  BY DEF TypeOK
<1>2. Len(word.keys) \in Nat /\ Len(word.keys) - 1 \in Nat /\ word.keys # <<>>
  BY <1>1, WordLength, BoundAssumption DEF CorrectWhileTyping
<1>3. text \in Letters /\ text \in Text /\ Len(text) <= MaxWord /\ Visible(word) \in Text
  BY <1>1, <1>2, VisibleOK, LettersAreText
<1>4. n \in Nat
  BY <1>2
<1>5. UndoOK(undo')
  BY <1>1, <1>2, <1>3, RecordOK, WordLayoutOK DEF CorrectWhileTyping
<1>6. HistOK(hist')
  <2>1. FinishedOK([ok |-> TRUE, keys |-> text, lang |-> t])
    <3> HIDE DEF text
    <3> QED BY <1>3, Booleans DEF FinishedOK, Finished, Lang
  <2> QED BY <1>1, <2>1, PendingChange, Zenon DEF CorrectWhileTyping
<1>7. WordOK(word') /\ Sent /\ Asks(t) /\ Inject(n, text, "none", t)
  BY NothingOK DEF CorrectWhileTyping
<1> HIDE DEF n, text
<1> QED BY <1>3, <1>4, <1>5, <1>6, <1>7, SentOK

\* The correction of a word at its boundary.
LEMMA CorrectAtBoundaryOK ==
  ASSUME TypeOK, NEW t \in Slots, CorrectAtBoundary(t)
  PROVE  TypeOK'
<1> DEFINE w == Settled(word)
           text == InSlot(w.keys, t)
<1>1. WordOK(w) /\ HistOK(hist)
  BY SettledOK DEF TypeOK
<1>2. Len(w.keys) \in Nat /\ w.keys # <<>>
  <2>1. LongEnough(w, MinBoundary)
    BY DEF CorrectAtBoundary
  <2> HIDE DEF w
  <2> QED BY <1>1, <2>1, WordLength, BoundAssumption
<1>3. text \in Letters /\ text \in Text /\ Visible(w) \in Text /\ WordLayout(w) \in Slots
  <2> HIDE DEF w
  <2> QED BY <1>1, <1>2, VisibleOK, LettersAreText, WordLayoutOK
<1>4. op.key \in Boundaries \cup {"none"}
  BY DEF CorrectAtBoundary, TypeOK, OpOK
<1>5. UndoOK(undo')
  <2>1. undo' = Record(Visible(w), text, op.key, WordLayout(w))
    BY DEF CorrectAtBoundary
  <2> HIDE DEF w, text
  <2> QED BY <1>3, <1>4, <2>1, RecordOK
<1>6. HistOK(hist')
  <2>1. hist' = Push(hist, text, op.key)
    BY DEF CorrectAtBoundary
  <2> HIDE DEF text
  <2> QED BY <1>1, <1>3, <2>1, PushOK
<1>7. WordOK(word') /\ Sent /\ Asks(t) /\ Inject(Len(w.keys), text, op.key, t)
  BY NothingOK DEF CorrectAtBoundary
<1> HIDE DEF w, text
<1> QED BY <1>2, <1>3, <1>5, <1>6, <1>7, SentOK

\* A phrase: the end of the history and the word, in one layout.
LEMMA CorrectPhraseOK ==
  ASSUME TypeOK, NEW t \in Slots, NEW from \in WordStarts(hist.text), CorrectPhrase(from, t)
  PROVE  TypeOK'
<1> DEFINE w == Settled(word)
           head == SubSeq(hist.text, 1, from - 1)
           tail == SubSeq(hist.text, from, Len(hist.text))
           old == tail \o InSlot(w.keys, w.lang)
           kept == [hist EXCEPT !.text = head \o InSlot(tail, t)]
<1>1. WordOK(w) /\ HistOK(hist) /\ w.keys # <<>>
  <2>1. WordOK(w) /\ HistOK(hist)
    BY SettledOK DEF TypeOK
  <2>2. Correctable(w)
    BY DEF CorrectPhrase
  <2> HIDE DEF w
  <2> QED BY <2>1, <2>2 DEF Correctable
<1>2. hist.text \in Text /\ Len(hist.text) \in Nat /\ Len(hist.text) <= MaxHistoryChars + 1
      /\ from \in 1..Len(hist.text)
  <2>1. hist.text \in Text /\ Len(hist.text) <= MaxHistoryChars + 1
    BY <1>1 DEF HistOK, History
  <2>2. Len(hist.text) \in Nat /\ DOMAIN hist.text = 1..Len(hist.text)
    BY <2>1, LenProperties DEF Text
  <2> QED BY <2>1, <2>2 DEF WordStarts
<1>3. /\ tail \in Text /\ Len(tail) = Len(hist.text) - from + 1
      /\ head \in Text /\ Len(head) = from - 1
  BY <1>2, PartOK DEF Text
<1>4. InSlot(w.keys, w.lang) \in Text /\ InSlot(w.keys, t) \in Text
  <2> HIDE DEF w
  <2>1. w.lang \in Slots
    BY <1>1 DEF WordOK
  <2> QED BY <1>1, <2>1, VisibleOK, LettersAreText
<1>5. t \in Lang /\ Other(t) \in Slots
  BY DEF Lang, Other, Slots
<1>6. old \in Text /\ Len(old) \in Nat
  <2> HIDE DEF w, tail
  <2>1. old \in Text
    BY <1>3, <1>4, TextConcat
  <2> HIDE DEF old
  <2> QED BY <2>1, LenProperties DEF Text
<1>7. InSlot(old, t) \in Text
  <2> HIDE DEF old
  <2> QED BY <1>5, <1>6, InSlotText
<1>8. HistOK(kept)
  <2> HIDE DEF head, tail
  <2>1. InSlot(tail, t) \in Text /\ Len(InSlot(tail, t)) = Len(hist.text) - from + 1
    BY <1>3, <1>5, InSlotText
  <2>2. head \o InSlot(tail, t) \in Text
        /\ Len(head \o InSlot(tail, t)) = (from - 1) + (Len(hist.text) - from + 1)
    BY <1>3, <2>1, TextConcat
  <2>3. (from - 1) + (Len(hist.text) - from + 1) <= MaxHistoryChars + 1
    BY <1>2
  <2>4. Len(head \o InSlot(tail, t)) <= MaxHistoryChars + 1
    BY <2>2, <2>3, Zenon
  <2> QED BY <1>1, <2>2, <2>4, TextChange
<1>9. HistOK(hist')
  <2>1. hist' = Push(kept, InSlot(w.keys, t), op.key)
    BY DEF CorrectPhrase
  <2> HIDE DEF kept, w
  <2> QED BY <1>4, <1>8, <2>1, PushOK
<1>10. UndoOK(undo')
  <2>1. undo' = Record(old, InSlot(old, t), op.key, Other(t)) /\ op.key \in Boundaries \cup {"none"}
    BY DEF CorrectPhrase, TypeOK, OpOK
  <2> HIDE DEF old
  <2> QED BY <1>5, <1>6, <1>7, <2>1, RecordOK
<1>11. WordOK(word') /\ Sent /\ Asks(t) /\ Inject(Len(old), InSlot(old, t), op.key, t)
  BY NothingOK DEF CorrectPhrase
<1> HIDE DEF old
<1> QED BY <1>6, <1>7, <1>9, <1>10, <1>11, SentOK

\* A snippet, a repair or a spelling fix.
LEMMA RewriteWordOK ==
  ASSUME TypeOK, RewriteWord
  PROVE  TypeOK'
<1> DEFINE w == Settled(word)
           text == <<Letter("mark", w.lang), Letter("mark", w.lang)>>
<1>1. WordOK(w) /\ w.keys # <<>>
  <2>1. WordOK(w)
    BY SettledOK DEF TypeOK
  <2>2. Correctable(w)
    BY DEF RewriteWord
  <2> HIDE DEF w
  <2> QED BY <2>1, <2>2 DEF Correctable
<1>2. w.lang \in Slots /\ w.keys \in Letters /\ Len(w.keys) \in Nat
  <2> HIDE DEF w
  <2> QED BY <1>1, LettersOfWord DEF WordOK
<1>3. text \in Text /\ InSlot(w.keys, w.lang) \in Text
  <2> HIDE DEF w
  <2>1. Letter("mark", w.lang) \in Char
    BY <1>2 DEF Letter, Char
  <2>2. text \in Text
    BY <2>1 DEF Text
  <2> QED BY <1>1, <2>2, VisibleOK, LettersAreText
<1>4. UndoOK(undo')
  <2>1. undo' \in {NoUndo, Record(InSlot(w.keys, w.lang), text, op.key, w.lang)}
        /\ op.key \in Boundaries \cup {"none"}
    BY DEF RewriteWord, TypeOK, OpOK
  <2> HIDE DEF w, text
  <2> QED BY <1>2, <1>3, <2>1, RecordOK, NothingOK
<1>5. WordOK(word') /\ HistOK(hist') /\ Sent /\ Asks(w.lang)
      /\ Inject(Len(w.keys), text, op.key, w.lang)
  BY NothingOK DEF RewriteWord
<1> HIDE DEF w, text
<1> QED BY <1>2, <1>3, <1>4, <1>5, SentOK

\* Undo types the original again.
LEMMA RestoreOK ==
  ASSUME TypeOK, Restore
  PROVE  TypeOK'
<1>1. undo.lang \in Slots /\ undo.original \in Text /\ undo.replacement \in Text
  <2>1. undo.ok
    BY DEF Restore, CanUndo
  <2> QED BY <2>1 DEF TypeOK, UndoOK, UndoRecord
<1>2. Len(undo.replacement) \in Nat
  BY <1>1, LenProperties DEF Text
<1>3. Len(undo.replacement) + (IF undo.b = "none" THEN 0 ELSE 1) \in Nat
  <2>1. \A n \in Nat : n + 0 \in Nat /\ n + 1 \in Nat
    OBVIOUS
  <2> QED BY <1>2, <2>1, Zenon
<1>4. UndoOK(undo') /\ HistOK(hist') /\ WordOK(word')
  BY NothingOK DEF Restore, TypeOK
<1>5. Sent /\ Asks(undo.lang)
      /\ Inject(Len(undo.replacement) + (IF undo.b = "none" THEN 0 ELSE 1), undo.original,
                IF op.src = "hotkey" THEN undo.b ELSE "none", undo.lang)
  BY DEF Restore
<1> QED BY <1>1, <1>3, <1>4, <1>5, SentOK

-----------------------------------------------------------------------------
(* Timers, and the end of an operation. *)

\* Arming or stopping the pause timer changes nothing else.
LEMMA ArmedChange ==
  ASSUME NEW w, WordOK(w), NEW armed \in BOOLEAN
  PROVE  WordOK([w EXCEPT !.armed = armed])
BY DEF WordOK, Word

\* The pause timer and the Undo timer.
LEMMA TimersOK ==
  ASSUME TypeOK, IdleTimer \/ UndoTimer
  PROVE  TypeOK'
<1>1. CASE IdleTimer
  <2>1. WordOK([word EXCEPT !.armed = FALSE])
    BY ArmedChange, Booleans DEF TypeOK
  <2>2. WordOK(word')
    BY <1>1, <2>1, SettledOK, NothingOK, Zenon DEF IdleTimer
  <2>3. HistOK(hist')
    BY <1>1, NothingOK DEF IdleTimer, TypeOK
  <2>4. OpOK(op')
    <3>1. OpOK(Open("idle", "none"))
      BY OpenOK
    <3> QED BY <1>1, <3>1 DEF IdleTimer, TypeOK
  <2> QED BY <1>1, <2>2, <2>3, <2>4, Untouched DEF IdleTimer, TypeOK
<1>2. CASE UndoTimer
  <2>1. OpOK(Open("hotkey", "none"))
    BY OpenOK
  <2>2. OpOK(op') /\ UndoOK(undo') /\ hotkey' \in BOOLEAN
    BY <1>2, <2>1, NothingOK, Booleans DEF UndoTimer, TypeOK
  <2> QED BY <1>2, <2>2, Untouched DEF UndoTimer, TypeOK
<1> QED BY <1>1, <1>2

\* engine_leave keeps the records it is given, or empties them.
LEMMA LeaveOK ==
  ASSUME TypeOK, NEW w, WordOK(w), NEW h, HistOK(h), NEW u, UndoOK(u), NEW p, FinishedOK(p),
         Leave(w, h, u, p)
  PROVE  /\ WordOK(word') /\ HistOK(hist') /\ UndoOK(undo') /\ FinishedOK(prev')
         /\ RequestOK(request') /\ dead' \in 0..2 /\ untrusted' \in BOOLEAN /\ OpOK(op')
<1>1. untrusted' \in BOOLEAN
  BY Zenon DEF Leave
<1>2. dead' \in 0..2
  <2>1. dead \in 0..2 /\ 0 \in 0..2
    BY DEF TypeOK
  <2> QED BY <2>1, Zenon DEF Leave
<1>3. RequestOK(request')
  BY NothingOK, Zenon DEF Leave, TypeOK
<1> QED BY <1>1, <1>2, <1>3, NothingOK, Zenon DEF Leave

\* The key of the operation lands, once.
LEMMA DeliveredOK ==
  ASSUME TypeOK, NEW src, Finishing(src), src \in {"letter", "boundary", "backspace"}, Delivered
  PROVE  screen' \in Seq(Shape)
<1>1. screen \in Seq(Shape) /\ OpOK(op) /\ InHook
  BY DEF TypeOK, Finishing, InHook
<1> QED BY <1>1, LandingOK DEF Delivered

\* A letter or a boundary reaches the application as it was typed.
LEMMA FinishKeyOK ==
  ASSUME TypeOK, FinishLetter \/ FinishBoundary
  PROVE  TypeOK'
<1>1. CASE FinishLetter
  <2>1. screen' \in Seq(Shape) /\ UNCHANGED <<layout, asked, moved, hotkey>>
    BY <1>1, DeliveredOK DEF FinishLetter, Finishing
  <2>2. PICK armed \in BOOLEAN : Leave([word EXCEPT !.armed = armed], hist, undo, prev)
    BY <1>1 DEF FinishLetter
  <2>3. WordOK([word EXCEPT !.armed = armed]) /\ HistOK(hist) /\ UndoOK(undo) /\ FinishedOK(prev)
    BY ArmedChange DEF TypeOK
  <2> QED BY <2>1, <2>2, <2>3, LeaveOK, Untouched DEF TypeOK
<1>2. CASE FinishBoundary
  <2> DEFINE w == Settled(word)
             hadWord == w.keys # <<>> \/ w.over > 0
             commits == ~hadWord /\ hist.pending.ok /\ op.key \in {"space", "half"}
             tracked == Correctable(w) /\ ~w.mixed
             typed == InSlot(w.keys, w.lang)
             ended == IF commits THEN [NoPrev EXCEPT !.ok = TRUE, !.keys = hist.pending.keys,
                                                     !.lang = hist.pending.lang]
                      ELSE [NoPrev EXCEPT !.ok = TRUE, !.keys = typed, !.lang = w.lang]
             h == IF commits THEN Push([hist EXCEPT !.pending = NoPending], hist.pending.keys, op.key)
                  ELSE IF tracked THEN Push(hist, typed, op.key) ELSE NoHist
  <2>1. screen' \in Seq(Shape) /\ UNCHANGED <<layout, asked, moved, hotkey>>
    BY <1>2, DeliveredOK DEF FinishBoundary, Finishing
  <2>2. WordOK(w) /\ HistOK(hist) /\ FinishedOK(hist.pending) /\ UndoOK(undo)
    BY SettledOK DEF TypeOK, HistOK
  <2>3. tracked => typed \in Letters /\ Len(typed) <= MaxWord /\ w.lang \in Slots
    <3> HIDE DEF w
    <3> QED BY <2>2, VisibleOK DEF Correctable, WordOK
  <2>4. hist.pending.keys \in Letters
    BY <2>2 DEF FinishedOK, Finished
  <2>5. HistOK(h)
    <3>1. HistOK([hist EXCEPT !.pending = NoPending])
      BY <2>2, NothingOK, PendingChange
    <3>2. HistOK(Push([hist EXCEPT !.pending = NoPending], hist.pending.keys, op.key))
      BY <2>4, <3>1, LettersAreText, PushOK
    <3>3. tracked => HistOK(Push(hist, typed, op.key))
      <4> HIDE DEF typed, w
      <4> QED BY <2>2, <2>3, LettersAreText, PushOK
    <3> HIDE DEF typed, w, commits, tracked
    <3> QED BY <3>2, <3>3, NothingOK, Zenon
  <2>6. commits \/ tracked => FinishedOK(ended)
    <3>1. ASSUME NEW keys \in Letters, Len(keys) <= MaxWord, NEW lang \in Slots
          PROVE  FinishedOK([NoPrev EXCEPT !.ok = TRUE, !.keys = keys, !.lang = lang])
      <4>1. NoPrev \in Finished /\ lang \in Lang
        BY NothingOK DEF FinishedOK, Lang
      <4> QED BY <3>1, <4>1, Booleans DEF FinishedOK, Finished
    <3>2. commits => Len(hist.pending.keys) <= MaxWord /\ hist.pending.lang \in Slots
      BY <2>2 DEF FinishedOK
    <3> HIDE DEF typed, w, hadWord, tracked
    <3> QED BY <2>3, <2>4, <3>1, <3>2, Zenon
  <2>7. PICK p \in {NoPrev} \cup (IF (commits \/ tracked) /\ op.key \in {"space", "half"}
                                   THEN {ended} ELSE {}) : Leave(NoWord, h, undo, p)
    BY <1>2, Zenon DEF FinishBoundary
  <2>8. FinishedOK(p)
    <3> HIDE DEF ended, commits, tracked
    <3> QED BY <2>6, <2>7, NothingOK
  <2> HIDE DEF h
  <2> QED BY <2>1, <2>2, <2>5, <2>7, <2>8, LeaveOK, NothingOK, Untouched DEF TypeOK
<1> QED BY <1>1, <1>2

\* The other operations end.
LEMMA FinishOK ==
  ASSUME TypeOK, FinishBackspace \/ FinishTimer \/ FinishSent
  PROVE  TypeOK'
<1>1. WordOK(word) /\ HistOK(hist) /\ UndoOK(undo) /\ FinishedOK(prev)
  BY DEF TypeOK
<1>2. CASE FinishBackspace
  <2>1. screen' \in Seq(Shape) /\ UNCHANGED <<layout, asked, moved, hotkey>>
    BY <1>2, DeliveredOK DEF FinishBackspace, Finishing
  <2>2. CASE Cut
    <3>1. Leave(NoWord, NoHist, NoUndo, NoPrev)
      BY <1>2, <2>2 DEF FinishBackspace
    <3> QED BY <2>1, <3>1, NothingOK, LeaveOK, Untouched DEF TypeOK
  <2>3. CASE ~Cut
    <3>1. PlainBackspace /\ op' = NoOp /\ UNCHANGED untrusted
      BY <1>2, <2>3 DEF FinishBackspace
    <3> QED BY <2>1, <3>1, NothingOK, PlainBackspaceOK, Untouched DEF TypeOK
  <2> QED BY <2>2, <2>3
<1>3. CASE FinishTimer
  <2>1. UNCHANGED <<screen, layout, asked, moved, hotkey>>
    BY <1>3 DEF FinishTimer, Finishing
  <2>2. Leave(word, hist, undo, prev) \/ Leave(word, hist, NoUndo, prev)
    BY <1>3 DEF FinishTimer
  <2> QED BY <1>1, <2>1, <2>2, NothingOK, LeaveOK, Untouched DEF TypeOK
<1>4. CASE FinishSent
  BY <1>1, <1>4, NothingOK, LeaveOK, Untouched DEF FinishSent, TypeOK
<1> QED BY <1>2, <1>3, <1>4

-----------------------------------------------------------------------------
\* Nothing is recorded at the start.
LEMMA InitOK == Init => TypeOK
<1> SUFFICES ASSUME Init PROVE TypeOK
  OBVIOUS
<1>1. screen \in Seq(Shape) /\ layout \in Layouts
  BY EmptySeq, ChoiceAssumption DEF Init
<1>2. dead \in 0..2 /\ untrusted \in BOOLEAN /\ hotkey \in BOOLEAN
  <2>1. dead = 0 /\ untrusted = FALSE /\ hotkey = FALSE
    BY Zenon DEF Init
  <2>2. 0 \in 0..2
    OBVIOUS
  <2> QED BY <2>1, <2>2, Booleans, Zenon
<1> QED BY <1>1, <1>2, NothingOK DEF Init, TypeOK

\* Every step keeps the types and the limits.
LEMMA TypeStep == TypeOK /\ [Next]_vars => TypeOK'
<1> SUFFICES ASSUME TypeOK, [Next]_vars PROVE TypeOK'
  OBVIOUS
<1>1. CASE Typing
  BY <1>1, LetterKeyOK, BoundaryKeyOK, BackspaceOK DEF Typing
<1>2. CASE Disturbance
  BY <1>2, OtherKeysOK, SurroundingsOK, NestedOK DEF Disturbance
<1>3. CASE Delay
  BY <1>3, AgesOK, SurroundingsOK, NestedOK DEF Delay
<1>4. CASE Timer
  BY <1>4, TimersOK DEF Timer
<1>5. CASE Replacement
  BY <1>5, CorrectWhileTypingOK, CorrectAtBoundaryOK, CorrectPhraseOK DEF Replacement
<1>6. CASE RewriteWord \/ Restore
  BY <1>6, RewriteWordOK, RestoreOK
<1>7. CASE Finish
  BY <1>7, FinishKeyOK, FinishOK DEF Finish
<1>8. CASE UNCHANGED vars
  BY <1>8, Untouched DEF vars, TypeOK
<1> QED BY <1>1, <1>2, <1>3, <1>4, <1>5, <1>6, <1>7, <1>8 DEF Next, Engine

\* Whatever is typed, interrupted, delayed and corrected, the engine's buffers hold
\* what is put into them (KS_MAX_WORD keys, the history's characters), and every
\* layout that will be typed in or asked for is one of the pair.
THEOREM BuffersHold == Spec => []TypeOK
BY InitOK, TypeStep, PTL DEF Spec

-----------------------------------------------------------------------------
(***************************************************************************)
(* A word that the engine judges in one layout was typed in one layout.    *)
(***************************************************************************)

OneLayout(keys, lang) == \A i \in DOMAIN keys : keys[i].slot = lang
WordUniform(w) == ~w.mixed => OneLayout(w.keys, w.lang)
FinishedUniform(p) == p.ok => OneLayout(p.keys, p.lang)

\* The property record by record; the types make it inductive.
Uniformly == WordUniform(word) /\ FinishedUniform(prev) /\ FinishedUniform(hist.pending)
LayoutInv == TypeOK /\ Uniformly

-----------------------------------------------------------------------------
(* The records. *)

\* Nothing typed is in one layout.
LEMMA NothingUniform ==
  /\ WordUniform(NoWord) /\ FinishedUniform(NoPrev) /\ FinishedUniform(NoPending)
  /\ FinishedUniform(NoHist.pending) /\ FinishedUniform(AbandonedHist.pending)
<1>1. DOMAIN <<>> = {}
  OBVIOUS
<1>2. WordUniform(NoWord)
  BY <1>1 DEF WordUniform, NoWord, OneLayout
<1>3. FinishedUniform(NoPrev) /\ FinishedUniform(NoPending)
  BY DEF FinishedUniform, NoPrev, NoPending
<1>4. NoHist.pending = NoPending /\ AbandonedHist.pending = NoPending
  BY DEF NoHist, AbandonedHist
<1> QED BY <1>2, <1>3, <1>4

\* A word written in a layout is in that layout.
LEMMA InSlotUniform ==
  ASSUME NEW s \in Letters, NEW slot \in Slots
  PROVE  OneLayout(InSlot(s, slot), slot)
<1>1. Len(s) \in Nat /\ DOMAIN s = 1..Len(s) /\ \A i \in 1..Len(s) : s[i] \in [key : Keys, slot : Slots]
  BY LenProperties, ElementOfSeq DEF Letters
<1>2. \A i \in 1..Len(s) : s[i].key # "space"
  BY <1>1, KeysAssumption
<1>3. DOMAIN InSlot(s, slot) = 1..Len(s)
  BY <1>1 DEF InSlot
<1>4. \A i \in 1..Len(s) : InSlot(s, slot)[i] = Letter(s[i].key, slot)
  BY <1>1, <1>2 DEF InSlot
<1> QED BY <1>3, <1>4 DEF OneLayout, Letter

\* evaluate_mixed_word hands back only a word whose keys agree.
LEMMA SettledUniform ==
  ASSUME NEW w, WordOK(w), WordUniform(w)
  PROVE  WordUniform(Settled(w))
<1>1. CASE w.mixed /\ w.keys # <<>> /\ Uniform(w.keys)
  <2>1. w \in Word
    BY DEF WordOK
  <2>2. ASSUME NEW lang
        PROVE  [w EXCEPT !.mixed = FALSE, !.lang = lang].keys = w.keys
               /\ [w EXCEPT !.mixed = FALSE, !.lang = lang].lang = lang
    BY <2>1 DEF Word
  <2>3. OneLayout(w.keys, w.keys[1].slot)
    BY <1>1 DEF Uniform, OneLayout
  <2>4. WordUniform([w EXCEPT !.mixed = FALSE, !.lang = w.keys[1].slot])
    BY <2>2, <2>3, Zenon DEF WordUniform
  <2> QED BY <2>4 DEF Settled
<1>2. CASE ~(w.mixed /\ w.keys # <<>> /\ Uniform(w.keys))
  BY <1>2 DEF Settled
<1> QED BY <1>1, <1>2

\* What a key finds is still in one layout; where the layout has changed for a
\* word that goes on, the word is marked as mixed.
LEMMA FoundUniform ==
  ASSUME LayoutInv
  PROVE  /\ WordUniform(FoundWord) /\ FinishedUniform(FoundHist.pending)
         /\ FoundWord.ctx /\ ~FoundWord.mixed => FoundWord.lang = Language
<1>1. word \in Word
  BY DEF LayoutInv, Uniformly, TypeOK, WordOK
<1>2. [word EXCEPT !.mixed = TRUE].mixed
  BY <1>1 DEF Word
<1>3. WordUniform([word EXCEPT !.mixed = TRUE])
  BY <1>2 DEF WordUniform
<1>4. WordUniform(FoundWord)
  BY <1>3, NothingUniform DEF FoundWord, LayoutInv, Uniformly
<1>5. FinishedUniform(FoundHist.pending)
  BY NothingUniform DEF FoundHist, LayoutInv, Uniformly
<1>6. ~NoWord.ctx
  BY DEF NoWord
<1>7. FoundWord.ctx /\ ~FoundWord.mixed => FoundWord = word /\ word.ctx /\ Here /\ ~LayoutChanged
  BY <1>2, <1>6, Zenon DEF FoundWord
<1>8. FoundWord.ctx /\ ~FoundWord.mixed => FoundWord.lang = Language
  BY <1>7, Zenon DEF LayoutChanged, WordLayout
<1> QED BY <1>4, <1>5, <1>8

\* A key joins a word in the layout the word is judged in, or the word is mixed.
LEMMA WithKeyUniform ==
  ASSUME NEW w, WordOK(w), WordUniform(w), NEW k \in Keys, Language \in Slots,
         ~w.mixed => w.lang = Language
  PROVE  WordUniform(WithKey(w, k))
<1>1. w \in Word /\ w.keys \in Letters /\ Len(w.keys) \in Nat
  BY LettersOfWord DEF WordOK
<1>2. ASSUME NEW n
      PROVE  WordUniform([w EXCEPT !.over = n, !.armed = FALSE])
  <2>1. /\ [w EXCEPT !.over = n, !.armed = FALSE].mixed = w.mixed
        /\ [w EXCEPT !.over = n, !.armed = FALSE].keys = w.keys
        /\ [w EXCEPT !.over = n, !.armed = FALSE].lang = w.lang
    BY <1>1 DEF Word
  <2> QED BY <2>1, Zenon DEF WordUniform
<1>3. ASSUME NEW keys
      PROVE  /\ [w EXCEPT !.keys = keys, !.armed = FALSE].mixed = w.mixed
             /\ [w EXCEPT !.keys = keys, !.armed = FALSE].keys = keys
             /\ [w EXCEPT !.keys = keys, !.armed = FALSE].lang = w.lang
  BY <1>1 DEF Word
<1>4. ~w.mixed => OneLayout(Append(w.keys, Letter(k, Language)), w.lang)
  <2> SUFFICES ASSUME ~w.mixed PROVE OneLayout(Append(w.keys, Letter(k, Language)), w.lang)
    OBVIOUS
  <2> DEFINE c == Letter(k, Language)
  <2>1. c.slot = w.lang
    BY DEF Letter
  <2>2. \A i \in 1..Len(w.keys) : w.keys[i].slot = w.lang
    BY <1>1, LenProperties DEF WordUniform, OneLayout, Letters
  <2>3. c \in [key : Keys, slot : Slots]
    BY DEF Letter
  <2> HIDE DEF c
  <2>4. /\ DOMAIN Append(w.keys, c) = 1..(Len(w.keys) + 1)
        /\ \A i \in 1..Len(w.keys) : Append(w.keys, c)[i] = w.keys[i]
        /\ Append(w.keys, c)[Len(w.keys) + 1] = c
    BY <1>1, <2>3, AppendProperties, LenProperties DEF Letters
  <2>5. \A i \in 1..(Len(w.keys) + 1) : i \in 1..Len(w.keys) \/ i = Len(w.keys) + 1
    BY <1>1
  <2> QED BY <2>1, <2>2, <2>4, <2>5, Zenon DEF OneLayout, c
<1>5. WordUniform([w EXCEPT !.keys = Append(@, Letter(k, Language)), !.armed = FALSE])
  BY <1>3, <1>4, Zenon DEF WordUniform
<1> QED BY <1>2, <1>5, Zenon DEF WithKey

\* Taking a key off leaves the others where they were.
LEMMA ErasedUniform ==
  ASSUME NEW w, WordOK(w), WordUniform(w)
  PROVE  WordUniform(Erased(w))
<1>1. w \in Word /\ w.keys \in Letters /\ Len(w.keys) \in Nat
  BY LettersOfWord DEF WordOK
<1>2. ASSUME NEW n
      PROVE  WordUniform([w EXCEPT !.over = n, !.armed = FALSE])
  <2>1. /\ [w EXCEPT !.over = n, !.armed = FALSE].mixed = w.mixed
        /\ [w EXCEPT !.over = n, !.armed = FALSE].keys = w.keys
        /\ [w EXCEPT !.over = n, !.armed = FALSE].lang = w.lang
    BY <1>1 DEF Word
  <2> QED BY <2>1, Zenon DEF WordUniform
<1>3. WordUniform([w EXCEPT !.keys = Front(@), !.armed = FALSE])
  <2>1. ASSUME NEW keys
        PROVE  /\ [w EXCEPT !.keys = keys, !.armed = FALSE].mixed = w.mixed
               /\ [w EXCEPT !.keys = keys, !.armed = FALSE].keys = keys
               /\ [w EXCEPT !.keys = keys, !.armed = FALSE].lang = w.lang
    BY <1>1 DEF Word
  <2>2. ~w.mixed => OneLayout(Front(w.keys), w.lang)
    <3> SUFFICES ASSUME ~w.mixed, NEW i \in DOMAIN Front(w.keys) PROVE Front(w.keys)[i].slot = w.lang
      BY DEF OneLayout
    <3>1. i \in 1..(Len(w.keys) - 1)
      BY <1>1 DEF Front, Letters
    <3>2. Front(w.keys)[i] = w.keys[i] /\ i \in DOMAIN w.keys
      BY <1>1, <3>1 DEF Front, Letters
    <3> QED BY <3>2 DEF WordUniform, OneLayout
  <2> QED BY <2>1, <2>2, Zenon DEF WordUniform
<1> QED BY <1>2, <1>3, Zenon DEF Erased

\* The history's separators and limits do not touch the corrected word.
LEMMA PushUniform ==
  ASSUME NEW h, HistOK(h), FinishedUniform(h.pending), NEW keys, NEW b
  PROVE  FinishedUniform(Push(h, keys, b).pending)
<1>1. ASSUME NEW text PROVE [h EXCEPT !.text = text].pending = h.pending
  BY DEF HistOK, History
<1> QED BY <1>1, NothingUniform, Zenon DEF Push

-----------------------------------------------------------------------------
(* The actions. *)

\* The pause timer has no say in it.
LEMMA ArmedUniform ==
  ASSUME NEW w, WordOK(w), WordUniform(w), NEW armed
  PROVE  WordUniform([w EXCEPT !.armed = armed])
<1>1. /\ [w EXCEPT !.armed = armed].mixed = w.mixed
      /\ [w EXCEPT !.armed = armed].keys = w.keys
      /\ [w EXCEPT !.armed = armed].lang = w.lang
  BY DEF WordOK, Word
<1> QED BY <1>1, Zenon DEF WordUniform

\* A key forgets the previous word.
LEMMA KeyDownUniform == ASSUME KeyDown PROVE FinishedUniform(prev')
BY NothingUniform DEF KeyDown

\* Events that only keep, forget or mark the records.
LEMMA KeepingUniform ==
  ASSUME LayoutInv,
         \/ \E kind \in 0..2 : UntrackedKey(kind)
         \/ NavigationKey \/ ShortcutKey \/ ForeignKey \/ UndoHotkey \/ UndoBackspace
         \/ \E to \in Layouts : ManualSwitch(to)
         \/ Click \/ FocusMoves \/ SwitchWindow \/ FocusEvent \/ LayoutArrives
         \/ HookTimesOut \/ NestedKey \/ NestedClick \/ NestedFocusEvent
         \/ RequestAges \/ UndoAges \/ UndoTimer \/ Restore \/ UNCHANGED vars
  PROVE  Uniformly'
<1>1. word' = word \/ word' = NoWord
  BY DEF UntrackedKey, NavigationKey, ShortcutKey, ForeignKey, UndoHotkey, UndoBackspace,
         ManualSwitch, Click, FocusMoves, SwitchWindow, FocusEvent, LayoutArrives, HookTimesOut,
         NestedKey, NestedClick, NestedFocusEvent, RecordsKept, RequestAges, UndoAges, UndoTimer,
         Restore, vars
<1>2. hist' = hist \/ hist' = NoHist
  BY DEF UntrackedKey, NavigationKey, ShortcutKey, ForeignKey, UndoHotkey, UndoBackspace,
         ManualSwitch, Click, FocusMoves, SwitchWindow, FocusEvent, LayoutArrives, HookTimesOut,
         NestedKey, NestedClick, NestedFocusEvent, RecordsKept, RequestAges, UndoAges, UndoTimer,
         Restore, vars
<1>3. prev' = prev \/ prev' = NoPrev
  BY DEF UntrackedKey, NavigationKey, ShortcutKey, ForeignKey, UndoHotkey, UndoBackspace,
         ManualSwitch, Click, FocusMoves, SwitchWindow, FocusEvent, LayoutArrives, HookTimesOut,
         NestedKey, NestedClick, NestedFocusEvent, RecordsKept, RequestAges, UndoAges, UndoTimer,
         Restore, Sent, KeyDown, vars
<1> QED BY <1>1, <1>2, <1>3, NothingUniform, Zenon DEF LayoutInv, Uniformly

\* A corrected word goes on in its layout, or as a mixture.
LEMMA ResumedUniform ==
  ASSUME NEW p, FinishedOK(p), p.ok, FinishedUniform(p)
  PROVE  WordUniform(Resumed(p)) /\ (~Resumed(p).mixed => Resumed(p).lang = Language)
<1>1. ASSUME NEW m \in BOOLEAN
      PROVE  /\ [NoWord EXCEPT !.keys = p.keys, !.lang = p.lang, !.ctx = TRUE, !.mixed = m].keys = p.keys
             /\ [NoWord EXCEPT !.keys = p.keys, !.lang = p.lang, !.ctx = TRUE, !.mixed = m].lang = p.lang
             /\ [NoWord EXCEPT !.keys = p.keys, !.lang = p.lang, !.ctx = TRUE, !.mixed = m].mixed = m
  <2>1. NoWord \in Word
    BY NothingOK DEF WordOK
  <2> QED BY <2>1 DEF Word
<1>2. (p.lang # Language) \in BOOLEAN
  BY Zenon
<1>3. Resumed(p).keys = p.keys /\ Resumed(p).lang = p.lang /\ Resumed(p).mixed = (p.lang # Language)
  BY <1>1, <1>2, Zenon DEF Resumed
<1>4. OneLayout(p.keys, p.lang)
  BY DEF FinishedUniform
<1>5. WordUniform(Resumed(p))
  BY <1>3, <1>4, Zenon DEF WordUniform
<1>6. ~(p.lang # Language) => p.lang = Language
  BY Zenon
<1> QED BY <1>3, <1>5, <1>6, Zenon

\* A word that begins has no key yet.
LEMMA BegunUniform == WordUniform(Begun) /\ Begun.lang = Language
<1>1. ASSUME NEW m \in BOOLEAN, NEW lang
      PROVE  /\ [NoWord EXCEPT !.lang = lang, !.ctx = TRUE, !.skip = m].keys = <<>>
             /\ [NoWord EXCEPT !.lang = lang, !.ctx = TRUE, !.skip = m].lang = lang
  <2>1. NoWord \in Word /\ NoWord.keys = <<>>
    BY NothingOK DEF WordOK, NoWord
  <2> QED BY <2>1 DEF Word
<1>2. (untrusted \/ dead # 0) \in BOOLEAN
  BY Zenon
<1>3. Begun.keys = <<>> /\ Begun.lang = Language
  BY <1>1, <1>2, Zenon DEF Begun
<1>4. OneLayout(<<>>, Language)
  BY DEF OneLayout
<1> QED BY <1>3, <1>4, Zenon DEF WordUniform

\* A letter: continued, resumed or begun.
LEMMA LetterUniform ==
  ASSUME LayoutInv, NEW k \in Keys, LetterKey(k)
  PROVE  Uniformly'
<1> DEFINE resumed == Resumes(FoundWord, FoundHist)
           begins == ~FoundWord.ctx /\ ~resumed
           w == IF resumed THEN Resumed(FoundHist.pending) ELSE IF begins THEN Begun ELSE FoundWord
<1>1. TypeOK /\ Language \in Slots /\ WordOK(FoundWord) /\ HistOK(FoundHist)
  BY LanguageOK, FoundOK DEF LayoutInv, Uniformly, TypeOK, LetterKey
<1>2. WordOK(w) /\ w.ctx /\ WordUniform(w) /\ (~w.mixed => w.lang = Language)
  <2>1. CASE resumed
    <3>1. FoundHist.pending.ok /\ FinishedOK(FoundHist.pending) /\ FinishedUniform(FoundHist.pending)
      BY <1>1, <2>1, FoundUniform DEF Resumes, HistOK
    <3>2. w = Resumed(FoundHist.pending)
      BY <2>1
    <3> HIDE DEF w, resumed
    <3> QED BY <3>1, <3>2, ResumedOK, ResumedUniform
  <2>2. CASE begins
    <3>1. w = Begun
      BY <2>2
    <3> HIDE DEF w, begins
    <3> QED BY <1>1, <3>1, BegunOK, BegunUniform
  <2>3. CASE ~resumed /\ ~begins
    <3>1. w = FoundWord /\ FoundWord.ctx
      BY <2>3
    <3> HIDE DEF w, resumed, begins
    <3> QED BY <1>1, <3>1, FoundUniform
  <2> QED BY <2>1, <2>2, <2>3
<1>3. WordUniform(word')
  <2>1. word' = Settled(WithKey(w, k))
    BY DEF LetterKey
  <2> HIDE DEF w
  <2>2. WordOK(WithKey(w, k)) /\ WordUniform(WithKey(w, k))
    BY <1>1, <1>2, WithKeyOK, WithKeyUniform
  <2> QED BY <2>1, <2>2, SettledUniform
<1>4. FinishedUniform(hist'.pending)
  <2>1. [FoundHist EXCEPT !.pending = NoPending].pending = NoPending
    BY <1>1 DEF HistOK, History
  <2>2. hist' \in {[FoundHist EXCEPT !.pending = NoPending], NoHist, FoundHist}
    BY Zenon DEF LetterKey
  <2> QED BY <2>1, <2>2, FoundUniform, NothingUniform
<1>5. FinishedUniform(prev')
  BY KeyDownUniform DEF LetterKey
<1> QED BY <1>3, <1>4, <1>5 DEF Uniformly

\* A boundary key only looks at the layout.
LEMMA BoundaryUniform ==
  ASSUME LayoutInv, NEW b \in Boundaries, BoundaryKey(b)
  PROVE  Uniformly'
BY FoundUniform, KeyDownUniform DEF BoundaryKey, Uniformly

\* A reopened word is one that ended in one layout.
LEMMA PlainBackspaceUniform ==
  ASSUME LayoutInv, PlainBackspace
  PROVE  Uniformly'
<1>1. TypeOK /\ WordOK(FoundWord)
  BY FoundOK DEF LayoutInv, Uniformly
<1>2. prev.ok => WordUniform([NoWord EXCEPT !.keys = prev.keys, !.lang = prev.lang, !.ctx = TRUE])
  <2> SUFFICES ASSUME prev.ok
               PROVE  WordUniform([NoWord EXCEPT !.keys = prev.keys, !.lang = prev.lang, !.ctx = TRUE])
    OBVIOUS
  <2> DEFINE w == [NoWord EXCEPT !.keys = prev.keys, !.lang = prev.lang, !.ctx = TRUE]
  <2>1. w.keys = prev.keys /\ w.lang = prev.lang
    <3>1. NoWord \in Word
      BY NothingOK DEF WordOK
    <3> QED BY <3>1 DEF Word
  <2>2. OneLayout(prev.keys, prev.lang)
    BY DEF LayoutInv, Uniformly, FinishedUniform
  <2> HIDE DEF w
  <2>3. WordUniform(w)
    BY <2>1, <2>2 DEF WordUniform
  <2> QED BY <2>3 DEF w
<1>3. WordUniform(Erased(FoundWord))
  BY <1>1, FoundUniform, ErasedUniform
<1>4. WordUniform(word')
  BY <1>2, <1>3, NothingUniform, Zenon DEF PlainBackspace
<1>5. FinishedUniform(hist'.pending)
  <2>1. hist' \in {NoHist, FoundHist}
    BY Zenon DEF PlainBackspace
  <2> QED BY <2>1, FoundUniform, NothingUniform
<1>6. FinishedUniform(prev')
  BY NothingUniform DEF PlainBackspace
<1> QED BY <1>4, <1>5, <1>6 DEF Uniformly

\* A correction leaves no word; what it corrected while it was typed is in one layout.
LEMMA ReplacementUniform ==
  ASSUME LayoutInv, Replacement \/ RewriteWord
  PROVE  Uniformly'
<1>1. word' = NoWord /\ prev' = prev
  BY DEF Replacement, CorrectWhileTyping, CorrectAtBoundary, CorrectPhrase, RewriteWord, Sent
<1>2. HistOK(hist) /\ WordOK(word) /\ FinishedUniform(hist.pending)
  BY DEF LayoutInv, Uniformly, TypeOK
<1>3. ASSUME NEW t \in Slots, CorrectWhileTyping(t) PROVE FinishedUniform(hist'.pending)
  <2> DEFINE text == InSlot(word.keys, t)
             p == [ok |-> TRUE, keys |-> text, lang |-> t]
  <2>1. OneLayout(text, t)
    BY <1>2, InSlotUniform, LettersOfWord
  <2>2. p.keys = text /\ p.lang = t
    OBVIOUS
  <2>3. hist' = [hist EXCEPT !.pending = p]
    BY <1>3 DEF CorrectWhileTyping
  <2> HIDE DEF p, text
  <2>4. [hist EXCEPT !.pending = p].pending = p
    BY <1>2 DEF HistOK, History
  <2> QED BY <2>1, <2>2, <2>3, <2>4 DEF FinishedUniform
<1>4. ASSUME NEW t \in Slots, CorrectAtBoundary(t) PROVE FinishedUniform(hist'.pending)
  <2>1. PICK text : hist' = Push(hist, text, op.key)
    BY <1>4 DEF CorrectAtBoundary
  <2> QED BY <1>2, <2>1, PushUniform
<1>5. ASSUME NEW t \in Slots, NEW from \in WordStarts(hist.text), CorrectPhrase(from, t)
      PROVE  FinishedUniform(hist'.pending)
  <2> DEFINE kept == [hist EXCEPT !.text = SubSeq(@, 1, from - 1)
                                           \o InSlot(SubSeq(@, from, Len(@)), t)]
  <2>1. PICK text : hist' = Push(kept, text, op.key)
    BY <1>5 DEF CorrectPhrase
  <2>2. kept.pending = hist.pending
    <3>1. ASSUME NEW s PROVE [hist EXCEPT !.text = s].pending = hist.pending
      BY <1>2 DEF HistOK, History
    <3> QED BY <3>1, Zenon
  <2>3. Push(kept, text, op.key).pending \in {NoHist.pending, AbandonedHist.pending, kept.pending}
    <3>1. kept \in [text : {kept.text}, over : {kept.over}, pending : {kept.pending}]
      BY <1>2 DEF HistOK, History
    <3> HIDE DEF kept
    <3>2. ASSUME NEW s PROVE [kept EXCEPT !.text = s].pending = kept.pending
      BY <3>1
    <3> QED BY <3>2, Zenon DEF Push
  <2> HIDE DEF kept
  <2> QED BY <1>2, <2>1, <2>2, <2>3, NothingUniform
<1>6. ASSUME RewriteWord PROVE FinishedUniform(hist'.pending)
  <2>1. hist' = NoHist
    BY <1>6 DEF RewriteWord
  <2> QED BY <2>1, NothingUniform
<1>7. ASSUME Replacement PROVE FinishedUniform(hist'.pending)
  BY <1>3, <1>4, <1>5, <1>7 DEF Replacement
<1>8. FinishedUniform(hist'.pending)
  BY <1>6, <1>7
<1> QED BY <1>1, <1>8, NothingUniform DEF Uniformly, LayoutInv

\* Leaving an operation keeps its records or forgets them.
LEMMA LeaveUniform ==
  ASSUME NEW w, WordUniform(w), NEW h, FinishedUniform(h.pending), NEW u,
         NEW p, FinishedUniform(p), Leave(w, h, u, p)
  PROVE  Uniformly'
<1>1. word' \in {NoWord, w} /\ hist' \in {NoHist, h} /\ prev' \in {NoPrev, p}
  BY Zenon DEF Leave
<1> QED BY <1>1, NothingUniform DEF Uniformly

\* What an operation records at its end is in one layout.
LEMMA FinishUniform ==
  ASSUME LayoutInv, Finish \/ IdleTimer
  PROVE  Uniformly'
<1>1. /\ WordOK(word) /\ WordUniform(word) /\ FinishedUniform(prev) /\ HistOK(hist)
      /\ FinishedUniform(hist.pending)
  BY DEF LayoutInv, Uniformly, TypeOK
<1>2. CASE FinishLetter
  <2>1. PICK armed \in BOOLEAN : Leave([word EXCEPT !.armed = armed], hist, undo, prev)
    BY <1>2 DEF FinishLetter
  <2>2. WordUniform([word EXCEPT !.armed = armed])
    BY <1>1, ArmedUniform
  <2> QED BY <1>1, <2>1, <2>2, LeaveUniform
<1>3. CASE FinishBoundary
  <2> DEFINE w == Settled(word)
             hadWord == w.keys # <<>> \/ w.over > 0
             commits == ~hadWord /\ hist.pending.ok /\ op.key \in {"space", "half"}
             tracked == Correctable(w) /\ ~w.mixed
             typed == InSlot(w.keys, w.lang)
             ended == IF commits THEN [NoPrev EXCEPT !.ok = TRUE, !.keys = hist.pending.keys,
                                                     !.lang = hist.pending.lang]
                      ELSE [NoPrev EXCEPT !.ok = TRUE, !.keys = typed, !.lang = w.lang]
             kept == [hist EXCEPT !.pending = NoPending]
             h == IF commits THEN Push(kept, hist.pending.keys, op.key)
                  ELSE IF tracked THEN Push(hist, typed, op.key) ELSE NoHist
  <2>1. FinishedUniform(h.pending)
    <3>1. HistOK(kept) /\ FinishedUniform(kept.pending)
      <4>1. kept.pending = NoPending
        BY <1>1 DEF HistOK, History
      <4> QED BY <1>1, <4>1, NothingOK, NothingUniform, PendingChange
    <3> HIDE DEF kept, typed, commits, tracked
    <3>2. FinishedUniform(Push(kept, hist.pending.keys, op.key).pending)
      BY <3>1, PushUniform
    <3>3. FinishedUniform(Push(hist, typed, op.key).pending)
      BY <1>1, PushUniform
    <3> QED BY <3>2, <3>3, NothingUniform, Zenon
  <2>2. commits \/ tracked => FinishedUniform(ended)
    <3>1. ASSUME NEW keys, NEW lang, OneLayout(keys, lang)
          PROVE  FinishedUniform([NoPrev EXCEPT !.ok = TRUE, !.keys = keys, !.lang = lang])
      <4> DEFINE p == [NoPrev EXCEPT !.ok = TRUE, !.keys = keys, !.lang = lang]
      <4>1. p.keys = keys /\ p.lang = lang
        <5>1. NoPrev \in Finished
          BY NothingOK DEF FinishedOK
        <5> QED BY <5>1 DEF Finished
      <4> HIDE DEF p
      <4>2. FinishedUniform(p)
        BY <3>1, <4>1 DEF FinishedUniform
      <4> QED BY <4>2 DEF p
    <3>2. commits => OneLayout(hist.pending.keys, hist.pending.lang)
      BY <1>1 DEF FinishedUniform
    <3>3. tracked => OneLayout(typed, w.lang)
      <4>1. WordOK(w)
        BY <1>1, SettledOK
      <4> HIDE DEF w
      <4>2. tracked => w.keys \in Letters /\ w.lang \in Slots
        BY <4>1, LettersOfWord DEF WordOK, Correctable
      <4> QED BY <4>2, InSlotUniform
    <3> HIDE DEF typed, w, hadWord, tracked
    <3> QED BY <3>1, <3>2, <3>3, Zenon
  <2>3. PICK p \in {NoPrev} \cup (IF (commits \/ tracked) /\ op.key \in {"space", "half"}
                                   THEN {ended} ELSE {}) : Leave(NoWord, h, undo, p)
    BY <1>3, Zenon DEF FinishBoundary
  <2>4. FinishedUniform(p)
    <3> HIDE DEF ended, commits, tracked
    <3> QED BY <2>2, <2>3, NothingUniform
  <2> HIDE DEF h
  <2> QED BY <2>1, <2>3, <2>4, LeaveUniform, NothingUniform
<1>4. CASE FinishBackspace
  BY <1>4, LeaveUniform, NothingUniform, PlainBackspaceUniform DEF FinishBackspace
<1>5. CASE FinishTimer \/ FinishSent
  <2>1. \E u, p : p \in {prev, NoPrev} /\ Leave(word, hist, u, p)
    BY <1>5 DEF FinishTimer, FinishSent
  <2> QED BY <1>1, <2>1, LeaveUniform, NothingUniform
<1>6. CASE IdleTimer
  <2>1. WordOK([word EXCEPT !.armed = FALSE]) /\ WordUniform([word EXCEPT !.armed = FALSE])
    BY <1>1, ArmedChange, ArmedUniform, Booleans
  <2>2. word' \in {Settled([word EXCEPT !.armed = FALSE]), NoWord, [word EXCEPT !.armed = FALSE]}
    BY <1>6, Zenon DEF IdleTimer
  <2>3. hist' \in {hist, NoHist} /\ prev' = prev
    BY <1>6, Zenon DEF IdleTimer
  <2> QED BY <1>1, <2>1, <2>2, <2>3, SettledUniform, NothingUniform DEF Uniformly
<1> QED BY <1>2, <1>3, <1>4, <1>5, <1>6 DEF Finish

-----------------------------------------------------------------------------
\* Every step keeps it.
LEMMA LayoutStep == LayoutInv /\ [Next]_vars => Uniformly'
<1> SUFFICES ASSUME LayoutInv, [Next]_vars PROVE Uniformly'
  OBVIOUS
<1>1. CASE Typing
  BY <1>1, LetterUniform, BoundaryUniform, KeepingUniform, PlainBackspaceUniform
     DEF Typing, BackspaceKey
<1>2. CASE Disturbance \/ Delay \/ UndoTimer \/ Restore \/ UNCHANGED vars
  BY <1>2, KeepingUniform DEF Disturbance, Delay
<1>3. CASE Replacement \/ RewriteWord
  BY <1>3, ReplacementUniform
<1>4. CASE Finish \/ IdleTimer
  BY <1>4, FinishUniform
<1> QED BY <1>1, <1>2, <1>3, <1>4 DEF Next, Engine, Timer

\* A word that is not marked as mixed, a corrected word and a word that Backspace may
\* reopen have only keys of the layout they are judged in: whatever switches of layout,
\* ours or the user's, arrive between the keys.
THEOREM UnmixedWordsAreUniform == Spec => []UnmixedMeansUniform
<1>1. Init => Uniformly
  BY NothingUniform DEF Init, Uniformly
<1>2. TypeOK /\ Uniformly /\ [Next]_vars => Uniformly'
  BY LayoutStep DEF LayoutInv, Uniformly
<1>3. Uniformly => UnmixedMeansUniform
  BY DEF Uniformly, UnmixedMeansUniform, WordUniform, FinishedUniform, OneLayout
<1> QED BY <1>1, <1>2, <1>3, BuffersHold, PTL DEF Spec

-----------------------------------------------------------------------------
(* The end of a text. *)

\* A text is its beginning and what was cut off it.
LEMMA EndsSplit ==
  ASSUME NEW G, NEW s \in Seq(G), NEW t \in Seq(G), EndsWith(s, t)
  PROVE  Drop(s, Len(t)) \in Seq(G) /\ s = Drop(s, Len(t)) \o t
<1> DEFINE n == Len(s) - Len(t)
<1>1. Len(s) \in Nat /\ Len(t) \in Nat /\ n \in 0..Len(s)
  BY LenProperties DEF EndsWith
<1>2. SubSeq(s, 1, n) \o SubSeq(s, n + 1, Len(s)) = SubSeq(s, 1, Len(s))
  <2>1. 1 \in 1..Len(s) + 1 /\ n \in 1 - 1..Len(s) /\ Len(s) \in n..Len(s)
    BY <1>1
  <2> HIDE DEF n
  <2> QED BY <2>1, ConcatAdjacentSubSeq
<1>3. SubSeq(s, 1, Len(s)) = s
  BY SubSeqFull
<1>4. Drop(s, Len(t)) = SubSeq(s, 1, n) /\ SubSeq(s, n + 1, Len(s)) = t
  BY DEF Drop, EndsWith
<1>5. Drop(s, Len(t)) \in Seq(G)
  BY <1>1, DropOK
<1> QED BY <1>2, <1>3, <1>4, <1>5

\* Cutting what was added leaves what was there.
LEMMA DropOfConcat ==
  ASSUME NEW G, NEW p \in Seq(G), NEW t \in Seq(G), NEW n \in Nat, n <= Len(t)
  PROVE  Drop(p \o t, n) = p \o Drop(t, n)
<1> DEFINE u == p \o t
           d == Drop(t, n)
<1>1. Len(p) \in Nat /\ Len(t) \in Nat /\ u \in Seq(G) /\ Len(u) = Len(p) + Len(t)
  BY LenProperties, ConcatProperties
<1>2. \A i \in 1..Len(p) + Len(t) : u[i] = IF i <= Len(p) THEN p[i] ELSE t[i - Len(p)]
  BY ConcatProperties
<1>3. /\ d \in Seq(G) /\ Len(d) = Len(t) - n
      /\ \A i \in 1..Len(t) - n : d[i] = t[i]
  <2>1. \A i \in 1..Len(t) - n : t[i] \in G
    BY <1>1
  <2>2. /\ SubSeq(t, 1, Len(t) - n) \in Seq(G)
        /\ Len(SubSeq(t, 1, Len(t) - n)) = IF 1 <= Len(t) - n THEN Len(t) - n - 1 + 1 ELSE 0
        /\ \A i \in 1..Len(t) - n - 1 + 1 : SubSeq(t, 1, Len(t) - n)[i] = t[1 + i - 1]
    BY <1>1, <2>1, SubSeqProperties
  <2> QED BY <1>1, <2>2 DEF Drop
<1>4. /\ Drop(u, n) \in Seq(G) /\ Len(Drop(u, n)) = Len(p) + (Len(t) - n)
      /\ \A i \in 1..Len(p) + (Len(t) - n) : Drop(u, n)[i] = u[i]
  <2> DEFINE m == Len(u) - n
  <2>0. m \in Int /\ m = Len(p) + (Len(t) - n) /\ m >= 0
    BY <1>1
  <2>1. \A i \in 1..m : u[i] \in G
    BY <1>1
  <2>2. /\ SubSeq(u, 1, m) \in Seq(G)
        /\ Len(SubSeq(u, 1, m)) = IF 1 <= m THEN m - 1 + 1 ELSE 0
        /\ \A i \in 1..m - 1 + 1 : SubSeq(u, 1, m)[i] = u[1 + i - 1]
    <3> HIDE DEF m, u
    <3> QED BY <2>0, <2>1, SubSeqProperties
  <2>3. Drop(u, n) = SubSeq(u, 1, m)
    BY DEF Drop
  <2> HIDE DEF m, u
  <2> QED BY <2>0, <2>2, <2>3
<1>5. /\ p \o d \in Seq(G) /\ Len(p \o d) = Len(p) + (Len(t) - n)
      /\ \A i \in 1..Len(p) + (Len(t) - n) : (p \o d)[i] = IF i <= Len(p) THEN p[i] ELSE d[i - Len(p)]
  <2>1. /\ p \o d \in Seq(G) /\ Len(p \o d) = Len(p) + Len(d)
        /\ \A i \in 1..Len(p) + Len(d) : (p \o d)[i] = IF i <= Len(p) THEN p[i] ELSE d[i - Len(p)]
    <3> HIDE DEF d
    <3> QED BY <1>3, ConcatProperties
  <2> HIDE DEF d
  <2> QED BY <1>3, <2>1
<1>6. \A i \in 1..Len(p) + (Len(t) - n) : Drop(u, n)[i] = (p \o d)[i]
  <2> HIDE DEF d, u
  <2> SUFFICES ASSUME NEW i \in 1..Len(p) + (Len(t) - n)
               PROVE  Drop(u, n)[i] = (p \o d)[i]
    OBVIOUS
  <2>1. Drop(u, n)[i] = IF i <= Len(p) THEN p[i] ELSE t[i - Len(p)]
    <3>1. i \in 1..Len(p) + Len(t)
      BY <1>1
    <3> QED BY <1>2, <1>4, <3>1
  <2>2. (p \o d)[i] = IF i <= Len(p) THEN p[i] ELSE d[i - Len(p)]
    BY <1>5
  <2>3. i > Len(p) => d[i - Len(p)] = t[i - Len(p)]
    <3>1. i > Len(p) => i - Len(p) \in 1..Len(t) - n
      BY <1>1
    <3> QED BY <1>3, <3>1
  <2> QED BY <1>1, <2>1, <2>2, <2>3
<1> HIDE DEF d, u
<1>7. Drop(u, n) = p \o d
  BY <1>4, <1>5, <1>6, SeqEqual
<1> QED BY <1>7 DEF d, u

\* A text ends with what was added to it.
LEMMA EndsWithAdded ==
  ASSUME NEW G, NEW p \in Seq(G), NEW t \in Seq(G)
  PROVE  EndsWith(p \o t, t)
<1> DEFINE u == p \o t
           e == SubSeq(u, Len(p) + 1, Len(u))
<1>1. Len(p) \in Nat /\ Len(t) \in Nat /\ u \in Seq(G) /\ Len(u) = Len(p) + Len(t)
  BY LenProperties, ConcatProperties
<1>2. \A i \in 1..Len(p) + Len(t) : u[i] = IF i <= Len(p) THEN p[i] ELSE t[i - Len(p)]
  BY ConcatProperties
<1>3. \A i \in Len(p) + 1..Len(u) : u[i] \in G
  BY <1>1
<1>4. /\ e \in Seq(G)
      /\ Len(e) = IF Len(p) + 1 <= Len(u) THEN Len(u) - (Len(p) + 1) + 1 ELSE 0
      /\ \A i \in 1..Len(u) - (Len(p) + 1) + 1 : e[i] = u[Len(p) + 1 + i - 1]
  <2> HIDE DEF u
  <2> QED BY <1>1, <1>3, SubSeqProperties
<1>5. Len(e) = Len(t)
  <2> HIDE DEF u, e
  <2> QED BY <1>1, <1>4
<1>6. ASSUME NEW i \in 1..Len(e) PROVE e[i] = t[i]
  <2> HIDE DEF u, e
  <2>1. e[i] = u[Len(p) + i] /\ Len(p) + i \in 1..Len(p) + Len(t) /\ ~(Len(p) + i <= Len(p))
    BY <1>1, <1>4, <1>5
  <2>2. (Len(p) + i) - Len(p) = i
    BY <1>1
  <2> QED BY <1>2, <2>1, <2>2
<1>7. e = t
  <2> HIDE DEF u, e
  <2> QED BY <1>4, <1>5, <1>6, SeqEqual
<1>8. Len(t) <= Len(u) /\ SubSeq(u, Len(u) - Len(t) + 1, Len(u)) = e
  <2>1. Len(u) - Len(t) + 1 = Len(p) + 1
    BY <1>1
  <2> QED BY <1>1, <2>1
<1> QED BY <1>7, <1>8 DEF EndsWith

\* Nothing is cut off, or everything.
LEMMA DropEnds ==
  ASSUME NEW G, NEW s \in Seq(G)
  PROVE  Drop(s, 0) = s /\ Drop(s, Len(s)) = <<>> /\ Front(s) = Drop(s, 1)
<1>1. Len(s) \in Nat /\ SubSeq(s, 1, Len(s)) = s
  BY LenProperties, SubSeqFull
<1>2. SubSeq(s, 1, 0) = <<>>
  BY SubSeqEmpty
<1>3. Len(s) - 0 = Len(s) /\ Len(s) - Len(s) = 0
  BY <1>1
<1> QED BY <1>1, <1>2, <1>3 DEF Drop, Front

\* Every text ends with nothing.
LEMMA EndsEmpty == ASSUME NEW G, NEW s \in Seq(G) PROVE EndsWith(s, <<>>)
<1>1. <<>> \in Seq(G) /\ s \o <<>> = s
  BY EmptySeq, ConcatEmptySeq
<1> QED BY <1>1, EndsWithAdded

\* What a text ends with, it ends with the end of.
LEMMA EndsSuffix ==
  ASSUME NEW G, NEW s \in Seq(G), NEW a \in Seq(G), NEW b \in Seq(G), EndsWith(s, a \o b)
  PROVE  EndsWith(s, b)
<1> DEFINE d == Drop(s, Len(a \o b))
<1>1. a \o b \in Seq(G)
  BY ConcatProperties
<1>2. d \in Seq(G) /\ s = d \o (a \o b)
  BY <1>1, EndsSplit
<1> HIDE DEF d
<1>3. s = (d \o a) \o b /\ d \o a \in Seq(G)
  BY <1>2, ConcatAssociative, ConcatProperties
<1> QED BY <1>3, EndsWithAdded

\* The end of a text is replaced: a deletion of the end's length and another end.
LEMMA EndsReplaced ==
  ASSUME NEW G, NEW s \in Seq(G), NEW a \in Seq(G), NEW b \in Seq(G), NEW c \in Seq(G),
         EndsWith(s, a \o b)
  PROVE  EndsWith(Drop(s, Len(b)) \o c, a \o c)
<1> DEFINE d == Drop(s, Len(a \o b))
<1>1. a \o b \in Seq(G) /\ a \o c \in Seq(G) /\ Len(b) \in Nat /\ Len(b) <= Len(b)
  BY ConcatProperties, LenProperties
<1>2. d \in Seq(G) /\ s = d \o (a \o b)
  BY <1>1, EndsSplit
<1> HIDE DEF d
<1>3. s = (d \o a) \o b /\ d \o a \in Seq(G)
  BY <1>2, ConcatAssociative, ConcatProperties
<1>4. Drop(s, Len(b)) = (d \o a) \o Drop(b, Len(b))
  BY <1>1, <1>3, DropOfConcat
<1>5. Drop(s, Len(b)) = d \o a
  BY <1>3, <1>4, DropEnds, ConcatEmptySeq
<1>6. Drop(s, Len(b)) \o c = d \o (a \o c)
  BY <1>2, <1>5, ConcatAssociative
<1> QED BY <1>1, <1>2, <1>6, EndsWithAdded

\* A text and its end grow together.
LEMMA EndsGrown ==
  ASSUME NEW G, NEW s \in Seq(G), NEW t \in Seq(G), NEW c \in Seq(G), EndsWith(s, t)
  PROVE  EndsWith(s \o c, t \o c)
<1>1. <<>> \in Seq(G) /\ t \o <<>> = t /\ Len(<<>>) = 0 /\ Drop(s, 0) = s
  BY EmptySeq, ConcatEmptySeq, DropEnds
<1> QED BY <1>1, EndsReplaced

\* A text and its end lose their last character together.
LEMMA EndsShortened ==
  ASSUME NEW G, NEW s \in Seq(G), NEW t \in Seq(G), NEW n \in Nat, n <= Len(t), EndsWith(s, t)
  PROVE  EndsWith(Drop(s, n), Drop(t, n))
<1> DEFINE d == Drop(s, Len(t))
<1>1. d \in Seq(G) /\ s = d \o t /\ Drop(t, n) \in Seq(G)
  BY EndsSplit, DropOK
<1>2. Drop(s, n) = d \o Drop(t, n)
  <2> HIDE DEF d
  <2> QED BY <1>1, DropOfConcat
<1> HIDE DEF d
<1> QED BY <1>1, <1>2, EndsWithAdded

\* A key that is typed and cut off again leaves no trace, however much else is cut.
LEMMA DropTyped ==
  ASSUME NEW G, NEW s \in Seq(G), NEW x \in G, NEW n \in Nat
  PROVE  Drop(s \o <<x>>, n + 1) = Drop(s, n)
<1> DEFINE m == Len(s) - n
<1>1. <<x>> \in Seq(G) /\ Len(<<x>>) = 1 /\ Len(s) \in Nat /\ m \in Int
  OBVIOUS
<1>2. Len(s \o <<x>>) - (n + 1) = m
  <2>1. Len(s \o <<x>>) = Len(s) + 1
    BY <1>1, ConcatProperties
  <2> QED BY <1>1, <2>1
<1>3. CASE m >= 1
  <2>1. 1 \in 1..Len(s) /\ m \in 1..Len(s)
    BY <1>1, <1>3
  <2>2. SubSeq(s \o <<x>>, 1, m) = SubSeq(s, 1, m)
    <3> HIDE DEF m
    <3> QED BY <1>1, <2>1, SubSeqOfConcat1
  <2> QED BY <1>2, <2>2 DEF Drop
<1>4. CASE ~(m >= 1)
  <2>1. SubSeq(s \o <<x>>, 1, m) = <<>> /\ SubSeq(s, 1, m) = <<>>
    <3> HIDE DEF m
    <3> QED BY <1>1, <1>4, SubSeqEmpty
  <2> QED BY <1>2, <2>1 DEF Drop
<1> QED BY <1>3, <1>4

\* Backspace and a deletion are a longer deletion.
LEMMA DropFront ==
  ASSUME NEW G, NEW s \in Seq(G), NEW n \in Nat
  PROVE  Drop(Front(s), n) = Drop(s, n + 1)
<1>1. CASE s = <<>>
  <2>1. \A m \in Int : m < 1 => SubSeq(<<>>, 1, m) = <<>>
    BY SubSeqEmpty
  <2>2. Len(<<>>) = 0
    OBVIOUS
  <2>3. 0 - 1 \in Int /\ 0 - 1 < 1 /\ 0 - n \in Int /\ 0 - n < 1 /\ 0 - (n + 1) \in Int
        /\ 0 - (n + 1) < 1
    OBVIOUS
  <2> QED BY <1>1, <2>1, <2>2, <2>3 DEF Drop, Front
<1>2. CASE s # <<>>
  <2>1. PICK p \in Seq(G), x \in G : s = Append(p, x)
    BY <1>2, SequenceEmptyOrAppend
  <2>2. s = p \o <<x>>
    BY <2>1, AppendIsConcat
  <2>3. Front(s) = Drop(p, 0)
    <3>1. 0 \in Nat /\ 0 + 1 = 1
      OBVIOUS
    <3>2. Drop(p \o <<x>>, 0 + 1) = Drop(p, 0)
      BY <3>1, DropTyped
    <3> QED BY <2>2, <3>1, <3>2, DropEnds
  <2>4. Drop(p, 0) = p
    BY DropEnds
  <2> QED BY <2>2, <2>3, <2>4, DropTyped
<1> QED BY <1>1, <1>2

-----------------------------------------------------------------------------
(* The keys of a text: a ZWNJ and a space are the same key. *)

Glyph == Keys \cup {"space", "mark", "unread"}
Doc == KeysOf(screen)
Spelt(text) == KeysOf(Shown(text))

\* The text on the screen has a key for each character.
LEMMA KeysOfOK ==
  ASSUME NEW s \in Seq(Shape)
  PROVE  /\ KeysOf(s) \in Seq(Glyph) /\ Len(KeysOf(s)) = Len(s)
         /\ \A i \in 1..Len(s) : KeysOf(s)[i] = IF s[i] = "zwnj" THEN "space" ELSE s[i]
<1>1. Len(s) \in Nat /\ DOMAIN s = 1..Len(s) /\ \A i \in 1..Len(s) : s[i] \in Shape
  BY LenProperties, ElementOfSeq
<1>2. \A i \in 1..Len(s) : (IF s[i] = "zwnj" THEN "space" ELSE s[i]) \in Glyph
  BY <1>1 DEF Shape, Glyph
<1>3. KeysOf(s) \in [1..Len(s) -> Glyph]
  BY <1>1, <1>2 DEF KeysOf
<1> QED BY <1>1, <1>3, FunctionIsSeq DEF KeysOf

\* The keys of two texts are the keys of one and of the other.
LEMMA KeysOfConcat ==
  ASSUME NEW s \in Seq(Shape), NEW t \in Seq(Shape)
  PROVE  KeysOf(s \o t) = KeysOf(s) \o KeysOf(t)
<1> DEFINE u == s \o t
           v == KeysOf(s) \o KeysOf(t)
<1>1. /\ u \in Seq(Shape) /\ Len(u) = Len(s) + Len(t) /\ Len(s) \in Nat /\ Len(t) \in Nat
      /\ \A i \in 1..Len(s) + Len(t) : u[i] = IF i <= Len(s) THEN s[i] ELSE t[i - Len(s)]
  BY ConcatProperties, LenProperties
<1>2. /\ v \in Seq(Glyph) /\ Len(v) = Len(s) + Len(t)
      /\ \A i \in 1..Len(s) + Len(t) : v[i] = IF i <= Len(s) THEN KeysOf(s)[i] ELSE KeysOf(t)[i - Len(s)]
  <2>1. KeysOf(s) \in Seq(Glyph) /\ KeysOf(t) \in Seq(Glyph)
        /\ Len(KeysOf(s)) = Len(s) /\ Len(KeysOf(t)) = Len(t)
    BY KeysOfOK
  <2>2. /\ v \in Seq(Glyph) /\ Len(v) = Len(KeysOf(s)) + Len(KeysOf(t))
        /\ \A i \in 1..Len(KeysOf(s)) + Len(KeysOf(t)) :
             v[i] = IF i <= Len(KeysOf(s)) THEN KeysOf(s)[i] ELSE KeysOf(t)[i - Len(KeysOf(s))]
    BY <2>1, ConcatProperties
  <2> HIDE DEF v
  <2> QED BY <2>1, <2>2
<1> HIDE DEF u, v
<1>3. KeysOf(u) \in Seq(Glyph) /\ Len(KeysOf(u)) = Len(u)
      /\ \A i \in 1..Len(u) : KeysOf(u)[i] = IF u[i] = "zwnj" THEN "space" ELSE u[i]
  BY <1>1, KeysOfOK
<1>4. ASSUME NEW i \in 1..Len(KeysOf(u)) PROVE KeysOf(u)[i] = v[i]
  <2>0. i \in 1..Len(s) + Len(t) /\ i \in 1..Len(u)
    BY <1>1, <1>3
  <2>1. CASE i <= Len(s)
    <3>1. i \in 1..Len(s)
      BY <1>1, <2>0, <2>1
    <3>2. KeysOf(s)[i] = IF s[i] = "zwnj" THEN "space" ELSE s[i]
      BY <3>1, KeysOfOK
    <3> QED BY <1>1, <1>2, <1>3, <2>0, <2>1, <3>2
  <2>2. CASE ~(i <= Len(s))
    <3>1. i - Len(s) \in 1..Len(t)
      BY <1>1, <2>0, <2>2
    <3>2. KeysOf(t)[i - Len(s)] = IF t[i - Len(s)] = "zwnj" THEN "space" ELSE t[i - Len(s)]
      BY <3>1, KeysOfOK
    <3> QED BY <1>1, <1>2, <1>3, <2>0, <2>2, <3>2
  <2> QED BY <2>1, <2>2
<1>5. KeysOf(u) = v
  BY <1>1, <1>2, <1>3, <1>4, SeqEqual
<1> QED BY <1>5 DEF u, v

\* A deletion deletes keys.
LEMMA KeysOfDrop ==
  ASSUME NEW s \in Seq(Shape), NEW n \in Nat
  PROVE  KeysOf(Drop(s, n)) = Drop(KeysOf(s), n)
<1> DEFINE m == Len(s) - n
           d == Drop(s, n)
           e == Drop(KeysOf(s), n)
<1>1. Len(s) \in Nat /\ m \in Int /\ KeysOf(s) \in Seq(Glyph) /\ Len(KeysOf(s)) = Len(s)
  BY LenProperties, KeysOfOK
<1>2. \A i \in 1..m : s[i] \in Shape /\ KeysOf(s)[i] \in Glyph /\ i \in 1..Len(s)
  <2>1. \A i \in 1..m : i \in 1..Len(s)
    BY <1>1
  <2> HIDE DEF m
  <2> QED BY <1>1, <2>1, ElementOfSeq
<1>3. /\ d \in Seq(Shape) /\ Len(d) = IF 1 <= m THEN m - 1 + 1 ELSE 0
      /\ \A i \in 1..m - 1 + 1 : d[i] = s[1 + i - 1]
  <2>1. d = SubSeq(s, 1, m)
    BY DEF Drop
  <2> HIDE DEF m, d
  <2> QED BY <1>1, <1>2, <2>1, SubSeqProperties
<1>4. /\ e \in Seq(Glyph) /\ Len(e) = IF 1 <= m THEN m - 1 + 1 ELSE 0
      /\ \A i \in 1..m - 1 + 1 : e[i] = KeysOf(s)[1 + i - 1]
  <2>1. e = SubSeq(KeysOf(s), 1, m)
    BY <1>1 DEF Drop
  <2> HIDE DEF m, e
  <2> QED BY <1>1, <1>2, <2>1, SubSeqProperties
<1> HIDE DEF m, d, e
<1>5. KeysOf(d) \in Seq(Glyph) /\ Len(KeysOf(d)) = Len(d)
      /\ \A i \in 1..Len(d) : KeysOf(d)[i] = IF d[i] = "zwnj" THEN "space" ELSE d[i]
  BY <1>3, KeysOfOK
<1>6. ASSUME NEW i \in 1..Len(KeysOf(d)) PROVE KeysOf(d)[i] = e[i]
  <2>1. i \in 1..m /\ i \in 1..m - 1 + 1 /\ 1 + i - 1 = i /\ i \in 1..Len(d)
    BY <1>1, <1>3, <1>5
  <2>2. KeysOf(s)[i] = IF s[i] = "zwnj" THEN "space" ELSE s[i]
    BY <1>2, <2>1, KeysOfOK
  <2>3. d[i] = s[i] /\ e[i] = KeysOf(s)[i]
    BY <1>3, <1>4, <2>1
  <2> QED BY <1>5, <2>1, <2>2, <2>3
<1>7. KeysOf(d) = e
  BY <1>3, <1>4, <1>5, <1>6, SeqEqual
<1> QED BY <1>7 DEF d, e

\* A recorded text spells the keys it was typed with.
LEMMA SpeltOK ==
  ASSUME NEW x \in Text
  PROVE  /\ Spelt(x) \in Seq(Glyph) /\ Len(Spelt(x)) = Len(x)
         /\ \A i \in 1..Len(x) : Spelt(x)[i] = x[i].key
<1>1. Len(x) \in Nat /\ DOMAIN x = 1..Len(x) /\ \A i \in 1..Len(x) : x[i] \in Char
  BY LenProperties, ElementOfSeq DEF Text
<1>2. Shown(x) \in Seq(Shape)
  BY ShownOK
<1>3. Shown(x) \in [1..Len(x) -> Shape]
      /\ \A i \in 1..Len(x) : Shown(x)[i] = IF x[i] = Space(TRUE) THEN "zwnj" ELSE x[i].key
  <2>1. \A i \in 1..Len(x) : (IF x[i] = Space(TRUE) THEN "zwnj" ELSE x[i].key) \in Shape
    BY <1>1 DEF Char, Shape
  <2> QED BY <1>1, <2>1 DEF Shown
<1>4. Len(Shown(x)) = Len(x)
  BY <1>1, <1>3, FunctionIsSeq
<1>5. Spelt(x) \in Seq(Glyph) /\ Len(Spelt(x)) = Len(x)
      /\ \A i \in 1..Len(x) : Spelt(x)[i] = IF Shown(x)[i] = "zwnj" THEN "space" ELSE Shown(x)[i]
  BY <1>2, <1>4, KeysOfOK DEF Spelt
<1>6. ASSUME NEW i \in 1..Len(x) PROVE Spelt(x)[i] = x[i].key
  <2>1. x[i].key # "zwnj" /\ Space(TRUE).key = "space"
    BY <1>1, KeysAssumption DEF Char, Space
  <2> QED BY <1>3, <1>5, <2>1
<1> QED BY <1>5, <1>6

\* The text of two records is one after the other.
LEMMA SpeltConcat ==
  ASSUME NEW x \in Text, NEW y \in Text
  PROVE  Spelt(x \o y) = Spelt(x) \o Spelt(y)
<1> DEFINE u == x \o y
           v == Spelt(x) \o Spelt(y)
<1>1. /\ u \in Text /\ Len(u) = Len(x) + Len(y) /\ Len(x) \in Nat /\ Len(y) \in Nat
      /\ \A i \in 1..Len(x) + Len(y) : u[i] = IF i <= Len(x) THEN x[i] ELSE y[i - Len(x)]
  BY ConcatProperties, LenProperties DEF Text
<1>2. /\ v \in Seq(Glyph) /\ Len(v) = Len(x) + Len(y)
      /\ \A i \in 1..Len(x) + Len(y) : v[i] = IF i <= Len(x) THEN Spelt(x)[i] ELSE Spelt(y)[i - Len(x)]
  <2>1. Spelt(x) \in Seq(Glyph) /\ Spelt(y) \in Seq(Glyph)
        /\ Len(Spelt(x)) = Len(x) /\ Len(Spelt(y)) = Len(y)
    BY SpeltOK
  <2>2. /\ v \in Seq(Glyph) /\ Len(v) = Len(Spelt(x)) + Len(Spelt(y))
        /\ \A i \in 1..Len(Spelt(x)) + Len(Spelt(y)) :
             v[i] = IF i <= Len(Spelt(x)) THEN Spelt(x)[i] ELSE Spelt(y)[i - Len(Spelt(x))]
    BY <2>1, ConcatProperties
  <2> HIDE DEF v
  <2> QED BY <2>1, <2>2
<1> HIDE DEF u, v
<1>3. Spelt(u) \in Seq(Glyph) /\ Len(Spelt(u)) = Len(u)
      /\ \A i \in 1..Len(u) : Spelt(u)[i] = u[i].key
  BY <1>1, SpeltOK
<1>4. ASSUME NEW i \in 1..Len(Spelt(u)) PROVE Spelt(u)[i] = v[i]
  <2>0. i \in 1..Len(x) + Len(y) /\ i \in 1..Len(u)
    BY <1>1, <1>3
  <2>1. CASE i <= Len(x)
    <3>1. i \in 1..Len(x)
      BY <1>1, <2>0, <2>1
    <3>2. Spelt(x)[i] = x[i].key
      BY <3>1, SpeltOK
    <3> QED BY <1>1, <1>2, <1>3, <2>0, <2>1, <3>2
  <2>2. CASE ~(i <= Len(x))
    <3>1. i - Len(x) \in 1..Len(y)
      BY <1>1, <2>0, <2>2
    <3>2. Spelt(y)[i - Len(x)] = y[i - Len(x)].key
      BY <3>1, SpeltOK
    <3> QED BY <1>1, <1>2, <1>3, <2>0, <2>2, <3>2
  <2> QED BY <2>1, <2>2
<1>5. Spelt(u) = v
  BY <1>1, <1>2, <1>3, <1>4, SeqEqual
<1> QED BY <1>5 DEF u, v

\* The keys of one character.
LEMMA SpeltOne ==
  ASSUME NEW c \in Char
  PROVE  <<c>> \in Text /\ Spelt(<<c>>) = <<c.key>>
<1>1. <<c>> \in Text /\ Len(<<c>>) = 1 /\ <<c>>[1] = c
  BY DEF Text
<1>2. Spelt(<<c>>) \in Seq(Glyph) /\ Len(Spelt(<<c>>)) = 1 /\ Spelt(<<c>>)[1] = c.key
  BY <1>1, SpeltOK
<1>3. c.key \in Glyph
  BY DEF Char, Glyph
<1>4. <<c.key>> \in Seq(Glyph) /\ Len(<<c.key>>) = 1 /\ <<c.key>>[1] = c.key
  BY <1>3
<1>5. Spelt(<<c>>) = <<c.key>>
  <2>1. \A i \in 1..1 : Spelt(<<c>>)[i] = <<c.key>>[i]
    BY <1>2, <1>4
  <2> QED BY <1>2, <1>4, <2>1, SeqEqual
<1> QED BY <1>1, <1>5

\* A word that grows by a key is spelt with it; a word and its separator likewise.
LEMMA SpeltAppend ==
  ASSUME NEW x \in Text, NEW c \in Char
  PROVE  Spelt(Append(x, c)) = Spelt(x) \o <<c.key>>
<1>1. Append(x, c) = x \o <<c>>
  BY AppendIsConcat DEF Text
<1> QED BY <1>1, SpeltOne, SpeltConcat

\* No word is spelt with no key.
LEMMA SpeltNothing == <<>> \in Text /\ Spelt(<<>>) = <<>>
<1>1. <<>> \in Text /\ Len(<<>>) = 0
  BY EmptySeq DEF Text
<1>2. Spelt(<<>>) \in Seq(Glyph) /\ Len(Spelt(<<>>)) = 0
  BY <1>1, SpeltOK
<1> QED BY <1>1, <1>2, EmptySeq

\* The other layout changes no key (tokens_to_language).
LEMMA SpeltInSlot ==
  ASSUME NEW x \in Text, NEW slot \in Lang
  PROVE  Spelt(InSlot(x, slot)) = Spelt(x)
<1> DEFINE y == InSlot(x, slot)
<1>1. y \in Text /\ Len(y) = Len(x)
  BY InSlotText
<1>2. Len(x) \in Nat /\ DOMAIN x = 1..Len(x)
  BY LenProperties DEF Text
<1>3. \A i \in 1..Len(x) : y[i].key = x[i].key
  <2>1. \A z \in BOOLEAN : Space(z).key = "space"
    BY DEF Space
  <2>2. \A k : Letter(k, slot).key = k
    BY DEF Letter
  <2>3. \A a, b : (a = b /\ slot = Persian) \in BOOLEAN
    BY Zenon
  <2>4. \A i \in 1..Len(x) :
          y[i] = IF x[i].key = "space" THEN Space(x[i].slot = Persian /\ slot = Persian)
                 ELSE Letter(x[i].key, slot)
    BY <1>2 DEF InSlot
  <2> HIDE DEF y
  <2> QED BY <2>1, <2>2, <2>3, <2>4
<1> HIDE DEF y
<1>4. Spelt(y) \in Seq(Glyph) /\ Len(Spelt(y)) = Len(x) /\ Spelt(x) \in Seq(Glyph) /\ Len(Spelt(x)) = Len(x)
  BY <1>1, SpeltOK
<1>5. \A i \in 1..Len(x) : Spelt(y)[i] = Spelt(x)[i]
  BY <1>1, <1>3, SpeltOK
<1>6. Spelt(y) = Spelt(x)
  BY <1>4, <1>5, SeqEqual
<1> QED BY <1>6 DEF y

\* A word that loses its last key.
LEMMA SpeltFront ==
  ASSUME NEW x \in Text, x # <<>>
  PROVE  Front(x) \in Text /\ Spelt(Front(x)) = Drop(Spelt(x), 1) /\ 1 <= Len(Spelt(x))
<1>1. PICK p \in Text, c \in Char : x = Append(p, c)
  BY SequenceEmptyOrAppend DEF Text
<1>2. x = p \o <<c>> /\ <<c>> \in Text /\ Len(<<c>>) = 1
  BY <1>1, AppendIsConcat, SpeltOne DEF Text
<1>3. Front(x) = p
  <2>1. Drop(p \o <<c>>, 1) = p \o Drop(<<c>>, 1)
    <3>1. 1 \in Nat /\ 1 <= Len(<<c>>)
      BY <1>2
    <3> QED BY <1>2, <3>1, DropOfConcat DEF Text
  <2>2. Drop(<<c>>, 1) = <<>>
    BY <1>2, DropEnds DEF Text
  <2> QED BY <1>2, <2>1, <2>2, DropEnds, ConcatEmptySeq DEF Text
<1>4. Spelt(x) = Spelt(p) \o <<c.key>> /\ Spelt(p) \in Seq(Glyph)
  BY <1>1, SpeltAppend, SpeltOK
<1>5. <<c.key>> \in Seq(Glyph) /\ Len(<<c.key>>) = 1
  BY DEF Char, Glyph
<1>6. Drop(Spelt(p) \o <<c.key>>, 1) = Spelt(p)
  <2>1. Drop(Spelt(p) \o <<c.key>>, 1) = Spelt(p) \o Drop(<<c.key>>, 1)
    <3>1. 1 \in Nat /\ 1 <= Len(<<c.key>>)
      BY <1>5
    <3> QED BY <1>4, <1>5, <3>1, DropOfConcat
  <2>2. Drop(<<c.key>>, 1) = <<>>
    BY <1>5, DropEnds
  <2> QED BY <1>4, <2>1, <2>2, ConcatEmptySeq
<1>7. Len(Spelt(x)) = Len(p) + 1 /\ Len(p) \in Nat
  BY <1>1, SpeltOK, TextAppend, LenProperties DEF Text
<1> QED BY <1>3, <1>4, <1>6, <1>7

\* A text cut in two is spelt in two.
LEMMA SpeltParts ==
  ASSUME NEW x \in Text, NEW from \in 1..Len(x)
  PROVE  /\ SubSeq(x, 1, from - 1) \in Text /\ SubSeq(x, from, Len(x)) \in Text
         /\ Spelt(x) = Spelt(SubSeq(x, 1, from - 1)) \o Spelt(SubSeq(x, from, Len(x)))
<1>1. SubSeq(x, 1, from - 1) \in Text /\ SubSeq(x, from, Len(x)) \in Text
  BY PartOK DEF Text
<1>2. SubSeq(x, 1, from - 1) \o SubSeq(x, from, Len(x)) = x
  <2> DEFINE k == from - 1
  <2>1. /\ Len(x) \in Nat /\ 1 \in 1..Len(x) + 1 /\ k \in 1 - 1..Len(x) /\ Len(x) \in k..Len(x)
        /\ k + 1 = from
    BY LenProperties DEF Text
  <2>2. SubSeq(x, 1, k) \o SubSeq(x, k + 1, Len(x)) = SubSeq(x, 1, Len(x))
    <3> HIDE DEF k
    <3> QED BY <2>1, ConcatAdjacentSubSeq DEF Text
  <2> QED BY <2>1, <2>2, SubSeqFull DEF Text
<1> QED BY <1>1, <1>2, SpeltConcat

\* One character on the screen is one key, a ZWNJ the one of a space.
LEMMA OneGlyph ==
  /\ KeysOf(<<>>) = <<>>
  /\ \A x \in Shape : <<x>> \in Seq(Shape) /\ KeysOf(<<x>>) = <<IF x = "zwnj" THEN "space" ELSE x>>
<1>1. KeysOf(<<>>) = <<>>
  <2>1. <<>> \in Seq(Shape) /\ Len(<<>>) = 0
    BY EmptySeq
  <2>2. KeysOf(<<>>) \in Seq(Glyph) /\ Len(KeysOf(<<>>)) = 0
    BY <2>1, KeysOfOK
  <2> QED BY <2>2, EmptySeq
<1>2. ASSUME NEW x \in Shape
      PROVE  <<x>> \in Seq(Shape) /\ KeysOf(<<x>>) = <<IF x = "zwnj" THEN "space" ELSE x>>
  <2> DEFINE y == IF x = "zwnj" THEN "space" ELSE x
  <2>1. <<x>> \in Seq(Shape) /\ Len(<<x>>) = 1 /\ <<x>>[1] = x
    OBVIOUS
  <2>2. KeysOf(<<x>>) \in Seq(Glyph) /\ Len(KeysOf(<<x>>)) = 1
        /\ \A i \in 1..1 : KeysOf(<<x>>)[i] = IF <<x>>[i] = "zwnj" THEN "space" ELSE <<x>>[i]
    BY <2>1, KeysOfOK
  <2>3. <<y>> \in Seq(Glyph) /\ Len(<<y>>) = 1 /\ <<y>>[1] = y
    <3>1. y \in Glyph
      BY DEF Shape, Glyph
    <3> HIDE DEF y
    <3> QED BY <3>1
  <2>4. \A i \in 1..1 : KeysOf(<<x>>)[i] = <<y>>[i]
    BY <2>1, <2>2, <2>3
  <2> HIDE DEF y
  <2>5. KeysOf(<<x>>) = <<y>>
    BY <2>2, <2>3, <2>4, SeqEqual
  <2> QED BY <2>1, <2>5 DEF y
<1> QED BY <1>1, <1>2

Gap(b) == CASE b \in {"space", "half"} -> <<"space">>
            [] b = "stop" -> <<"mark">>
            [] OTHER -> <<>>
\* The delimiter of a boundary is one key, whichever layout types it.
LEMMA GapOK ==
  ASSUME NEW b, NEW lang
  PROVE  KeysOf(Delimiter(b, lang)) = Gap(b) /\ Gap(b) \in Seq(Glyph)
<1>1. "space" \in Glyph /\ "mark" \in Glyph
  BY DEF Glyph
<1>2. Gap(b) \in Seq(Glyph)
  BY <1>1, EmptySeq DEF Gap
<1>3. /\ KeysOf(<<"space">>) = <<"space">> /\ KeysOf(<<"zwnj">>) = <<"space">>
      /\ KeysOf(<<"mark">>) = <<"mark">> /\ KeysOf(<<>>) = <<>>
  <2>1. "space" \in Shape /\ "zwnj" \in Shape /\ "mark" \in Shape
    BY DEF Shape
  <2> QED BY <2>1, OneGlyph
<1> QED BY <1>2, <1>3 DEF Gap, Delimiter

-----------------------------------------------------------------------------
(* What the steps do to the text before the caret. *)

\* Typing adds keys, Backspace takes the last one.
LEMMA DocSteps ==
  ASSUME screen \in Seq(Shape)
  PROVE  /\ Doc \in Seq(Glyph)
         /\ screen' = screen => Doc' = Doc
         /\ screen' = Front(screen) => Doc' = Drop(Doc, 1)
         /\ \A t \in Seq(Shape) : screen' = screen \o t => Doc' = Doc \o KeysOf(t)
<1>1. Front(screen) = Drop(screen, 1)
  BY DropEnds
<1> QED BY <1>1, KeysOfOK, KeysOfDrop, KeysOfConcat DEF Doc

\* A replacement cuts as many keys as it counts, and adds what it types.
LEMMA DocInjected ==
  ASSUME screen \in Seq(Shape), NEW n \in Nat, NEW text \in Text, NEW b, NEW lang, b # "enter",
         Inject(n, text, b, lang)
  PROVE  Doc' = Drop(Doc, n) \o (Spelt(text) \o Gap(b))
<1>1. Drop(screen, n) \in Seq(Shape) /\ Shown(text) \in Seq(Shape)
      /\ Delimiter(b, lang) \in Seq(Shape)
  BY DropOK, ShownOK, DelimiterOK
<1>2. screen' = Drop(screen, n) \o Shown(text) \o Delimiter(b, lang)
  BY DEF Inject
<1>3. Drop(screen, n) \o Shown(text) \in Seq(Shape)
  BY <1>1, ConcatProperties
<1>4. Doc' = (KeysOf(Drop(screen, n)) \o KeysOf(Shown(text))) \o KeysOf(Delimiter(b, lang))
  BY <1>1, <1>2, <1>3, KeysOfConcat DEF Doc
<1>5. Doc' = (Drop(Doc, n) \o Spelt(text)) \o Gap(b)
  BY <1>4, KeysOfDrop, GapOK DEF Doc, Spelt
<1>6. Drop(Doc, n) \in Seq(Glyph) /\ Spelt(text) \in Seq(Glyph) /\ Gap(b) \in Seq(Glyph)
  BY DocSteps, DropOK, SpeltOK, GapOK
<1>7. ASSUME NEW p \in Seq(Glyph), NEW q \in Seq(Glyph), NEW r \in Seq(Glyph)
      PROVE  (p \o q) \o r = p \o (q \o r)
  BY ConcatAssociative
<1> QED BY <1>5, <1>6, <1>7

\* The key of an operation lands as itself, a separator as a separator.
LEMMA KeyLanded ==
  ASSUME screen \in Seq(Shape), KeyLands, op.dead # 1
  PROVE  /\ op.key \in Keys => Doc' = Doc \o <<op.key>>
         /\ op.key \in {"space", "half"} => Doc' = Doc \o <<"space">>
<1>1. \A x \in Shape : <<x>> \in Seq(Shape) /\ KeysOf(<<x>>) = <<IF x = "zwnj" THEN "space" ELSE x>>
  BY OneGlyph
<1>2. CASE op.key \in Keys
  <2>1. op.key \notin {"space", "half", "stop", "enter", "back", "zwnj"} /\ op.key \in Shape
    BY <1>2, KeysAssumption DEF Shape
  <2>2. screen' = screen \o <<op.key>>
    BY <2>1 DEF KeyLands, Landing
  <2> QED BY <1>1, <2>1, <2>2, DocSteps
<1>3. CASE op.key = "space"
  <2>1. screen' = screen \o <<"space">> /\ "space" \in Shape
    BY <1>3 DEF KeyLands, Landing, Shape
  <2>2. op.key \notin Keys
    BY <1>3, KeysAssumption
  <2> QED BY <1>1, <2>1, <2>2, DocSteps
<1>4. CASE op.key = "half"
  <2>1. screen' = screen \o <<"space">> \/ screen' = screen \o <<"zwnj">>
    BY <1>4 DEF KeyLands, Landing
  <2>2. "space" \in Shape /\ "zwnj" \in Shape /\ op.key \notin Keys
    BY <1>4, KeysAssumption DEF Shape
  <2> QED BY <1>1, <2>1, <2>2, DocSteps
<1> QED BY <1>2, <1>3, <1>4

-----------------------------------------------------------------------------
(* The inductive invariant. *)

\* The sentence and the word the engine follows, as it would type them again.
Sentence == hist.text \o IF hist.pending.ok THEN hist.pending.keys ELSE word.keys
Followed == moved \in {"no", "seen"} /\ ~Cut

\* Which records exclude which: a word begins where nothing else is followed, and
\* while a word is left alone, distrusted or after a dead key nothing is recorded.
RecordsInv ==
  /\ word.ctx \/ word = NoWord
  /\ word.skip => word.keys = <<>> /\ word.over = 0
  /\ hist.over => hist.text = <<>>
  /\ (hist.pending.ok \/ undo.ok \/ prev.ok \/ dead # 0 \/ untrusted) => ~word.ctx
  /\ (dead # 0 \/ untrusted \/ word.skip) => hist.text = <<>> /\ ~hist.pending.ok
  /\ (dead # 0 \/ untrusted) => ~undo.ok /\ ~prev.ok
  /\ undo.ok => ~prev.ok

\* What an operation has left behind when it opened.
OpInv ==
  /\ Idle => ~Cut /\ ~op.late
  /\ ~Idle => ~prev.ok /\ dead = 0 /\ moved # "window"
  /\ op.phase = "eval" =>
       /\ op.src \in {"letter", "boundary", "idle"} => ~undo.ok
       /\ op.src \in {"backspace", "hotkey"} => undo.ok
       /\ op.dead # 0 => hist.text = <<>> /\ ~hist.pending.ok /\ word.keys = <<>>
       /\ op.src # "none"
  /\ op.late => InHook /\ op.phase = "eval"

\* The letter of an operation is recorded before it is on the screen; a separator may
\* be on the screen before the word it ends is recorded.
AwaitsLetter == op.phase = "eval" /\ op.src = "letter" /\ ~op.late
Landed == op.phase = "eval" /\ op.src \in {"boundary", "backspace"} /\ op.late /\ op.dead = 0
ScreenInv ==
  Followed =>
    /\ AwaitsLetter => EndsWith(Drop(Doc \o <<op.key>>, word.over), Spelt(Sentence))
    /\ Landed /\ op.key \in {"space", "half"} /\ word.over = 0 =>
         EndsWith(Doc, Spelt(Sentence) \o <<"space">>)
    /\ ~AwaitsLetter /\ ~Landed => EndsWith(Drop(Doc, word.over), Spelt(Sentence))

UndoInv ==
  Followed /\ ~op.late /\ undo.ok /\ undo.b # "enter" =>
    EndsWith(Doc, Spelt(undo.replacement) \o Gap(undo.b))
PrevInv == Followed /\ Idle /\ prev.ok => EndsWith(Doc, Spelt(prev.keys) \o <<"space">>)

EngineInv == TypeOK /\ RecordsInv /\ OpInv /\ ScreenInv /\ UndoInv /\ PrevInv

-----------------------------------------------------------------------------
(* The next state, seen from its records. *)

\* The types the proofs below need, in one place.
LEMMA NextTypes ==
  ASSUME TypeOK'
  PROVE  /\ screen' \in Seq(Shape) /\ Doc' \in Seq(Glyph) /\ word'.over \in Nat
         /\ hist'.text \in Text /\ hist'.pending.keys \in Letters /\ word'.keys \in Letters
         /\ hist'.pending.keys \in Text /\ word'.keys \in Text
         /\ prev'.keys \in Text /\ undo'.replacement \in Text /\ undo'.original \in Text
         /\ (op'.src = "letter" => op'.key \in Keys) /\ (op'.src = "boundary" => op'.key \in Boundaries)
<1>1. screen' \in Seq(Shape) /\ Doc' \in Seq(Glyph)
  BY KeysOfOK DEF TypeOK, Doc
<1>2. word'.over \in Nat /\ hist'.text \in Text /\ hist'.pending.keys \in Letters
      /\ word'.keys \in Letters /\ prev'.keys \in Letters
      /\ undo'.replacement \in Text /\ undo'.original \in Text
  BY DEF TypeOK, WordOK, HistOK, FinishedOK, UndoOK, Word, History, Finished, UndoRecord
<1>3. (op'.src = "letter" => op'.key \in Keys) /\ (op'.src = "boundary" => op'.key \in Boundaries)
  BY DEF TypeOK, OpOK
<1> QED BY <1>1, <1>2, <1>3, LettersAreText

\* And of this state.
LEMMA Types ==
  ASSUME TypeOK
  PROVE  /\ screen \in Seq(Shape) /\ Doc \in Seq(Glyph) /\ word.over \in Nat
         /\ hist.text \in Text /\ hist.pending.keys \in Letters /\ word.keys \in Letters
         /\ hist.pending.keys \in Text /\ word.keys \in Text
         /\ prev.keys \in Text /\ undo.replacement \in Text /\ undo.original \in Text
         /\ (op.src = "letter" => op.key \in Keys) /\ (op.src = "boundary" => op.key \in Boundaries)
         /\ op.dead \in 0..2 /\ dead \in 0..2
<1>1. screen \in Seq(Shape) /\ Doc \in Seq(Glyph)
  BY KeysOfOK DEF TypeOK, Doc
<1>2. word.over \in Nat /\ hist.text \in Text /\ hist.pending.keys \in Letters
      /\ word.keys \in Letters /\ prev.keys \in Letters
      /\ undo.replacement \in Text /\ undo.original \in Text
  BY DEF TypeOK, WordOK, HistOK, FinishedOK, UndoOK, Word, History, Finished, UndoRecord
<1>3. (op.src = "letter" => op.key \in Keys) /\ (op.src = "boundary" => op.key \in Boundaries)
      /\ op.dead \in 0..2 /\ dead \in 0..2
  BY DEF TypeOK, OpOK, Operation
<1> QED BY <1>1, <1>2, <1>3, LettersAreText

\* Where nothing is followed, nothing is promised of the text.
LEMMA NoSentence ==
  ASSUME TypeOK', ~Landed', hist'.text = <<>>, ~hist'.pending.ok, word'.keys = <<>>
  PROVE  ScreenInv'
<1>1. <<>> \in Seq(Glyph) /\ Sentence' = <<>> /\ Spelt(Sentence') = <<>>
  <2>1. <<>> \o <<>> = <<>>
    BY EmptySeq, ConcatEmptySeq
  <2>2. Sentence' = <<>>
    BY <2>1 DEF Sentence
  <2> QED BY <2>2, SpeltNothing, EmptySeq
<1>2. Doc' \in Seq(Glyph) /\ word'.over \in Nat /\ (AwaitsLetter' => op'.key \in Glyph)
  BY NextTypes DEF AwaitsLetter, Glyph
<1>3. Drop(Doc', word'.over) \in Seq(Glyph)
  BY <1>2, DropOK
<1>4. AwaitsLetter' => Drop(Doc' \o <<op'.key>>, word'.over) \in Seq(Glyph)
  <2> SUFFICES ASSUME AwaitsLetter' PROVE Drop(Doc' \o <<op'.key>>, word'.over) \in Seq(Glyph)
    OBVIOUS
  <2>1. Doc' \o <<op'.key>> \in Seq(Glyph)
    <3>1. <<op'.key>> \in Seq(Glyph)
      BY <1>2
    <3> QED BY <1>2, <3>1, ConcatProperties
  <2> QED BY <1>2, <2>1, DropOK
<1> QED BY <1>1, <1>3, <1>4, EndsEmpty DEF ScreenInv

\* Records that are all forgotten promise nothing.
LEMMA Forgotten ==
  ASSUME TypeOK', op'.phase = "none", ~Cut', ~op'.late,
         word' = NoWord, hist' = NoHist, undo' = NoUndo, prev' = NoPrev
  PROVE  RecordsInv' /\ OpInv' /\ ScreenInv' /\ UndoInv' /\ PrevInv'
<1>1. RecordsInv'
  BY DEF RecordsInv, NoWord, NoHist, NoPending, NoUndo, NoPrev
<1>2. OpInv'
  BY DEF OpInv, Idle
<1>3. ScreenInv'
  <2>1. ~Landed' /\ hist'.text = <<>> /\ ~hist'.pending.ok /\ word'.keys = <<>>
    BY DEF Landed, NoHist, NoPending, NoWord
  <2> QED BY <2>1, NoSentence
<1>4. UndoInv' /\ PrevInv'
  BY DEF UndoInv, PrevInv, NoUndo, NoPrev
<1> QED BY <1>1, <1>2, <1>3, <1>4

-----------------------------------------------------------------------------
(* Steps that forget the records, or leave them alone. *)

\* Keys that are not followed, clicks and focus end everything the engine knew.
LEMMA EndsEverything ==
  ASSUME EngineInv, TypeOK',
         \/ \E kind \in 0..2 : UntrackedKey(kind)
         \/ NavigationKey \/ ShortcutKey \/ ForeignKey \/ Click \/ FocusEvent
  PROVE  EngineInv'
<1>1. /\ word' = NoWord /\ hist' = NoHist /\ undo' = NoUndo /\ prev' = NoPrev
      /\ op' = op /\ Idle
  BY DEF UntrackedKey, NavigationKey, ShortcutKey, ForeignKey, Click, FocusEvent, KeyDown
<1>2. op'.phase = "none" /\ ~Cut' /\ ~op'.late
  BY <1>1 DEF EngineInv, OpInv, Idle, Cut
<1> QED BY <1>1, <1>2, Forgotten DEF EngineInv

\* Where the text is not followed the invariant is about the records alone.
LEMMA NotFollowed ==
  ASSUME TypeOK', RecordsInv', OpInv', ~Followed'
  PROVE  EngineInv'
BY DEF EngineInv, ScreenInv, UndoInv, PrevInv

\* Time, the layout and a caret that moves unseen change no record.
LEMMA Surroundings ==
  ASSUME EngineInv, TypeOK',
         \/ RequestAges \/ UndoAges \/ LayoutArrives \/ FocusMoves \/ SwitchWindow \/ UNCHANGED vars
  PROVE  EngineInv'
<1>1. /\ UNCHANGED <<word, hist, prev, untrusted, dead, op>>
      /\ undo'.ok = undo.ok /\ undo'.replacement = undo.replacement /\ undo'.b = undo.b
  BY DEF EngineInv, TypeOK, UndoOK, UndoRecord, RequestAges, UndoAges, LayoutArrives, FocusMoves,
         SwitchWindow, vars
<1>2. RecordsInv'
  BY <1>1 DEF EngineInv, RecordsInv
<1>3. moved' = moved \/ moved' = "element" \/ (Idle /\ moved' = "window")
  BY DEF RequestAges, UndoAges, LayoutArrives, FocusMoves, SwitchWindow, vars
<1>4. OpInv'
  BY <1>1, <1>3 DEF EngineInv, OpInv, Idle, Cut, InHook
<1>5. CASE moved' # moved
  <2>1. ~Followed'
    BY <1>3, <1>5 DEF Followed
  <2> QED BY <1>2, <1>4, <2>1, NotFollowed
<1>6. CASE moved' = moved
  <2>1. Followed' => Followed /\ screen' = screen
    BY <1>1, <1>6 DEF Followed, Cut, RequestAges, UndoAges, LayoutArrives, FocusMoves,
                      SwitchWindow, vars
  <2>2. CASE screen' = screen
    <3>1. Doc' = Doc /\ Sentence' = Sentence /\ Followed' = Followed /\ Idle' = Idle
          /\ AwaitsLetter' = AwaitsLetter /\ Landed' = Landed
      BY <1>1, <1>6, <2>2 DEF Doc, Sentence, Followed, Cut, Idle, AwaitsLetter, Landed
    <3>2. ScreenInv' /\ PrevInv' /\ UndoInv'
      BY <1>1, <3>1 DEF EngineInv, ScreenInv, PrevInv, UndoInv
    <3> QED BY <1>2, <1>4, <3>2 DEF EngineInv
  <2>3. CASE screen' # screen
    BY <1>2, <1>4, <2>1, <2>3, NotFollowed
  <2> QED BY <2>2, <2>3
<1> QED BY <1>5, <1>6

\* Events inside an operation mark it; the text is not followed any more.
LEMMA Nested ==
  ASSUME EngineInv, TypeOK', NestedKey \/ NestedClick \/ NestedFocusEvent
  PROVE  EngineInv'
<1>1. /\ UNCHANGED <<word, hist, undo, untrusted, dead>> /\ prev' \in {prev, NoPrev}
      /\ ~Idle /\ ~Idle' /\ moved' \in {moved, "no"}
      /\ op' \in {[op EXCEPT !.keyCut = TRUE], [op EXCEPT !.reset = TRUE]}
  BY DEF NestedKey, NestedClick, NestedFocusEvent, RecordsKept, Idle, EngineInv, TypeOK, OpOK, Operation
<1>2. /\ op'.phase = op.phase /\ op'.src = op.src /\ op'.key = op.key /\ op'.dead = op.dead
      /\ op'.late = op.late /\ Cut'
  BY <1>1 DEF EngineInv, TypeOK, OpOK, Operation, Cut
<1>3. RecordsInv'
  BY <1>1 DEF EngineInv, RecordsInv, NoPrev
<1>4. OpInv'
  BY <1>1, <1>2 DEF EngineInv, OpInv, InHook, NoPrev
<1>5. ~Followed'
  BY <1>2 DEF Followed
<1> QED BY <1>3, <1>4, <1>5, NotFollowed

\* A word record without keys and its history: what is left of a sentence when its last
\* word goes.
LEMMA SentenceSuffix ==
  ASSUME EngineInv, Followed, ~AwaitsLetter, ~Landed
  PROVE  /\ EndsWith(Drop(Doc, word.over),
                     Spelt(hist.text) \o Spelt(IF hist.pending.ok THEN hist.pending.keys ELSE word.keys))
         /\ EndsWith(Drop(Doc, word.over),
                     Spelt(IF hist.pending.ok THEN hist.pending.keys ELSE word.keys))
<1> DEFINE last == IF hist.pending.ok THEN hist.pending.keys ELSE word.keys
<1>1. last \in Text /\ hist.text \in Text /\ Drop(Doc, word.over) \in Seq(Glyph)
  BY Types, DropOK DEF EngineInv
<1>2. EndsWith(Drop(Doc, word.over), Spelt(hist.text \o last))
  BY DEF EngineInv, ScreenInv, Sentence
<1> HIDE DEF last
<1>3. EndsWith(Drop(Doc, word.over), Spelt(hist.text) \o Spelt(last))
  BY <1>1, <1>2, SpeltConcat
<1>4. EndsWith(Drop(Doc, word.over), Spelt(last))
  BY <1>1, <1>3, SpeltOK, EndsSuffix
<1> QED BY <1>3, <1>4 DEF last

\* A switch of layout by hand ends the sentence, not the word.
LEMMA SwitchByHand ==
  ASSUME EngineInv, TypeOK', NEW to \in Layouts, ManualSwitch(to)
  PROVE  EngineInv'
<1>1. /\ UNCHANGED <<screen, moved, word, undo, prev, untrusted, dead, op>> /\ hist' = NoHist /\ Idle
  BY DEF ManualSwitch
<1>2. RecordsInv' /\ OpInv'
  BY <1>1 DEF EngineInv, RecordsInv, OpInv, NoHist, NoPending, Idle, Cut, InHook
<1>3. Doc' = Doc /\ Followed' = Followed /\ ~AwaitsLetter /\ ~Landed /\ ~AwaitsLetter' /\ ~Landed' /\ Idle'
  BY <1>1 DEF Doc, Followed, Cut, Idle, AwaitsLetter, Landed
<1>4. UndoInv' /\ PrevInv'
  BY <1>1, <1>3 DEF EngineInv, UndoInv, PrevInv
<1>5. ScreenInv'
  <2>1. CASE hist.pending.ok
    <3>1. word = NoWord
      BY <2>1 DEF EngineInv, RecordsInv
    <3> QED BY <1>1, <1>3, <3>1, NoSentence DEF NoHist, NoPending, NoWord
  <2>2. CASE ~hist.pending.ok /\ Followed
    <3>1. EndsWith(Drop(Doc, word.over), Spelt(word.keys))
      BY <1>3, <2>2, SentenceSuffix
    <3>2. Sentence' = word.keys
      <4>1. <<>> \o word.keys = word.keys
        BY Types, ConcatEmptySeq DEF EngineInv, Text
      <4> QED BY <1>1, <4>1 DEF Sentence, NoHist, NoPending
    <3> QED BY <1>1, <1>3, <3>1, <3>2 DEF ScreenInv
  <2>3. CASE ~Followed
    BY <1>3, <2>3 DEF ScreenInv
  <2> QED BY <2>1, <2>2, <2>3
<1> QED BY <1>2, <1>4, <1>5 DEF EngineInv

\* The Undo hotkey outside a word.
LEMMA Hotkey ==
  ASSUME EngineInv, TypeOK', ~HotkeyInWord, UndoHotkey
  PROVE  EngineInv'
<1>1. /\ UNCHANGED <<screen, moved, hist, undo, untrusted, dead, op>> /\ Idle
      /\ word' = NoWord /\ prev' = NoPrev /\ word.keys = <<>> /\ word.over = 0
  BY DEF UndoHotkey
<1>2. RecordsInv' /\ OpInv'
  BY <1>1 DEF EngineInv, RecordsInv, OpInv, NoWord, NoPrev, Idle, Cut, InHook
<1>3. Doc' = Doc /\ Followed' = Followed /\ Idle' /\ AwaitsLetter' = AwaitsLetter
      /\ Landed' = Landed /\ Sentence' = Sentence /\ word'.over = word.over
  BY <1>1 DEF Doc, Followed, Cut, Idle, AwaitsLetter, Landed, Sentence, NoWord
<1>4. UndoInv' /\ PrevInv' /\ ScreenInv'
  BY <1>1, <1>3 DEF EngineInv, UndoInv, PrevInv, ScreenInv, NoPrev
<1> QED BY <1>2, <1>4 DEF EngineInv

-----------------------------------------------------------------------------
(* Keys that open an operation. *)

\* What a key finds is what was kept, or nothing.
LEMMA Found ==
  ASSUME TypeOK, RecordsInv
  PROVE  \/ FoundWord = NoWord /\ FoundHist = NoHist
         \/ /\ Here /\ FoundHist = hist /\ (word = NoWord => FoundWord = NoWord)
            /\ FoundWord.keys = word.keys /\ FoundWord.over = word.over
            /\ FoundWord.ctx = word.ctx /\ FoundWord.skip = word.skip
<1>1. CASE ~Here
  BY <1>1 DEF RecordsInv, FoundWord, FoundHist, LayoutChanged
<1>2. CASE Here /\ LayoutChanged /\ ~KeepsWord
  BY <1>2 DEF FoundWord, FoundHist
<1>3. CASE Here /\ ~(LayoutChanged /\ ~KeepsWord)
  <2>1. FoundHist = hist /\ FoundWord = IF LayoutChanged THEN [word EXCEPT !.mixed = TRUE] ELSE word
    BY <1>3 DEF FoundHist, FoundWord
  <2>2. word = NoWord => ~LayoutChanged
    BY DEF LayoutChanged, NoWord
  <2> QED BY <1>3, <2>1, <2>2 DEF TypeOK, WordOK, Word
<1> QED BY <1>1, <1>2, <1>3

\* Judging a word changes none of its keys.
LEMMA SettledSame ==
  ASSUME NEW w, WordOK(w)
  PROVE  /\ Settled(w).keys = w.keys /\ Settled(w).over = w.over
         /\ Settled(w).skip = w.skip /\ Settled(w).ctx = w.ctx
BY DEF Settled, WordOK, Word

\* A boundary key leaves the records to its operation.
LEMMA Boundary ==
  ASSUME EngineInv, TypeOK', NEW b \in Boundaries, BoundaryKey(b)
  PROVE  EngineInv'
<1>1. /\ word' = FoundWord /\ hist' = FoundHist /\ undo' = NoUndo /\ prev' = NoPrev /\ dead' = 0
      /\ UNCHANGED <<screen, untrusted>> /\ Idle /\ op' = [Open("boundary", b) EXCEPT !.dead = dead]
      /\ moved' = IF Here THEN moved ELSE "seen"
  BY DEF BoundaryKey, KeyDown, NoticeWindow
<1>2. /\ op'.phase = "eval" /\ op'.src = "boundary" /\ op'.key = b /\ op'.dead = dead
      /\ ~op'.late /\ ~op'.keyCut /\ ~op'.reset
  BY <1>1 DEF Open, NoOp
<1>3. TypeOK /\ RecordsInv /\ OpInv
  BY DEF EngineInv
<1>4. RecordsInv'
  BY <1>1, <1>3, Found DEF RecordsInv, NoUndo, NoPrev, NoWord, NoHist, NoPending
<1>5. OpInv'
  <2>1. dead # 0 => hist'.text = <<>> /\ ~hist'.pending.ok /\ word'.keys = <<>>
    BY <1>1, <1>3, Found DEF RecordsInv, NoWord, NoHist, NoPending
  <2>2. moved' # "window"
    BY <1>1 DEF Here
  <2> QED BY <1>1, <1>2, <2>1, <2>2 DEF OpInv, Idle, Cut, NoUndo, NoPrev
<1>6. ScreenInv'
  <2>1. ~Landed' /\ ~AwaitsLetter' /\ Doc' = Doc
    BY <1>1, <1>2 DEF Landed, AwaitsLetter, Doc
  <2>2. CASE FoundWord = NoWord /\ FoundHist = NoHist
    BY <1>1, <2>1, <2>2, NoSentence DEF NoWord, NoHist, NoPending
  <2>3. CASE Here /\ FoundHist = hist /\ FoundWord.keys = word.keys /\ FoundWord.over = word.over
    <3>1. Sentence' = Sentence /\ word'.over = word.over
      BY <1>1, <2>3 DEF Sentence
    <3>2. Followed' => Followed
      BY <1>1, <1>3, <2>3 DEF Followed, OpInv
    <3>3. ~Landed /\ ~AwaitsLetter
      BY <1>1 DEF Landed, AwaitsLetter, Idle
    <3> QED BY <2>1, <3>1, <3>2, <3>3 DEF ScreenInv, EngineInv
  <2> QED BY <1>3, <2>2, <2>3, Found
<1>7. UndoInv' /\ PrevInv'
  BY <1>1 DEF UndoInv, PrevInv, NoUndo, NoPrev
<1> QED BY <1>4, <1>5, <1>6, <1>7 DEF EngineInv

\* A letter is recorded before it lands: where the text so far was followed, so is the
\* text with the letter.
LEMMA KeyRecorded ==
  ASSUME NEW d \in Seq(Glyph), NEW text \in Text, NEW w, WordOK(w), ~w.skip, NEW k \in Keys,
         Language \in Slots, EndsWith(Drop(d, w.over), Spelt(text) \o Spelt(w.keys))
  PROVE  EndsWith(Drop(d \o <<k>>, WithKey(w, k).over), Spelt(text) \o Spelt(WithKey(w, k).keys))
<1>1. /\ w.keys \in Text /\ w.keys \in Letters /\ w.over \in Nat /\ Spelt(text) \in Seq(Glyph)
      /\ Spelt(w.keys) \in Seq(Glyph)
  <2>1. w.keys \in Letters /\ w.over \in Nat
    BY DEF WordOK, Word
  <2> QED BY <2>1, LettersAreText, SpeltOK
<1>2. k \in Glyph /\ <<k>> \in Seq(Glyph)
  <2>1. k \in Glyph
    BY DEF Glyph
  <2> QED BY <2>1
<1>3. Letter(k, Language) \in Char /\ Letter(k, Language).key = k
  BY DEF Letter, Char
<1>4. CASE Len(w.keys) < MaxWord /\ w.over = 0
  <2>1. WithKey(w, k).keys = Append(w.keys, Letter(k, Language)) /\ WithKey(w, k).over = 0
    BY <1>4 DEF WithKey, WordOK, Word
  <2>2. Spelt(WithKey(w, k).keys) = Spelt(w.keys) \o <<k>>
    BY <1>1, <1>3, <2>1, SpeltAppend
  <2>3. Drop(d, 0) = d /\ Drop(d \o <<k>>, 0) = d \o <<k>>
    <3>1. d \o <<k>> \in Seq(Glyph)
      BY <1>2, ConcatProperties
    <3> QED BY <3>1, DropEnds
  <2>4. Spelt(text) \o Spelt(w.keys) \in Seq(Glyph)
    BY <1>1, ConcatProperties
  <2>5. EndsWith(d \o <<k>>, (Spelt(text) \o Spelt(w.keys)) \o <<k>>)
    BY <1>2, <1>4, <2>3, <2>4, EndsGrown
  <2>6. (Spelt(text) \o Spelt(w.keys)) \o <<k>> = Spelt(text) \o (Spelt(w.keys) \o <<k>>)
    BY <1>1, <1>2, ConcatAssociative
  <2> QED BY <2>1, <2>2, <2>3, <2>5, <2>6
<1>5. CASE ~(Len(w.keys) < MaxWord /\ w.over = 0)
  <2>1. WithKey(w, k).keys = w.keys /\ WithKey(w, k).over = w.over + 1
    BY <1>5 DEF WithKey, WordOK, Word
  <2>2. Drop(d \o <<k>>, w.over + 1) = Drop(d, w.over)
    BY <1>1, <1>2, DropTyped
  <2> QED BY <2>1, <2>2
<1> QED BY <1>4, <1>5

\* What a letter goes on from: a word resumed after a correction, begun, or continued.
LEMMA LetterGoesOn ==
  ASSUME EngineInv, NEW k \in Keys, LetterKey(k)
  PROVE  \E w : /\ WordOK(w) /\ w.ctx /\ word' = Settled(WithKey(w, k))
                /\ ~hist'.pending.ok /\ hist'.text \in Text /\ (hist'.over => hist'.text = <<>>)
                /\ w.skip => w.keys = <<>> /\ w.over = 0 /\ hist'.text = <<>>
                /\ (dead # 0 => w.skip) /\ dead' = 0 /\ untrusted' = FALSE
                /\ ~w.skip /\ Followed' =>
                     EndsWith(Drop(Doc, w.over), Spelt(hist'.text) \o Spelt(w.keys))
<1> DEFINE resumed == Resumes(FoundWord, FoundHist)
           begins == ~FoundWord.ctx /\ ~resumed
           w == IF resumed THEN Resumed(FoundHist.pending) ELSE IF begins THEN Begun ELSE FoundWord
<1>1. TypeOK /\ RecordsInv /\ OpInv /\ Language \in Slots /\ Idle
  BY LanguageOK DEF EngineInv, LetterKey, KeyDown, TypeOK
<1>2. /\ word' = Settled(WithKey(w, k))
      /\ hist' = IF resumed THEN [FoundHist EXCEPT !.pending = NoPending]
                 ELSE IF FoundHist.pending.ok THEN NoHist ELSE FoundHist
      /\ untrusted' = (untrusted /\ ~begins) /\ dead' = IF begins THEN 0 ELSE dead
      /\ moved' = (IF Here THEN moved ELSE "seen") /\ op' = [Open("letter", k) EXCEPT !.dead = dead]
  BY DEF LetterKey, KeyDown, NoticeWindow
<1>3. WordOK(FoundWord) /\ HistOK(FoundHist) /\ FinishedOK(FoundHist.pending) /\ FoundHist.text \in Text
  BY <1>1, FoundOK DEF HistOK, History
<1>4. Begun.keys = <<>> /\ Begun.over = 0 /\ (Begun.skip <=> untrusted \/ dead # 0) /\ WordOK(Begun) /\ Begun.ctx
  BY <1>1, BegunOK, Zenon DEF Begun, NoWord
<1>5. ASSUME resumed
      PROVE  /\ WordOK(Resumed(FoundHist.pending)) /\ Resumed(FoundHist.pending).ctx
             /\ Resumed(FoundHist.pending).keys = FoundHist.pending.keys
             /\ Resumed(FoundHist.pending).over = 0 /\ Resumed(FoundHist.pending).skip = FALSE
             /\ FoundHist.pending.ok /\ ~FoundWord.ctx
  <2>1. FoundHist.pending.ok /\ ~FoundWord.ctx
    BY <1>5 DEF Resumes
  <2>2. WordOK(Resumed(FoundHist.pending)) /\ Resumed(FoundHist.pending).ctx
    BY <1>3, <2>1, ResumedOK
  <2> QED BY <2>1, <2>2 DEF Resumed, NoWord
<1>6. Drop(Doc, 0) = Doc /\ Spelt(<<>>) = <<>> /\ <<>> \o <<>> = <<>> /\ Doc \in Seq(Glyph)
      /\ EndsWith(Doc, <<>>)
  BY <1>1, Types, DropEnds, SpeltNothing, EmptySeq, ConcatEmptySeq, EndsEmpty
<1>7. CASE FoundWord = NoWord /\ FoundHist = NoHist
  <2>1. ~resumed /\ begins /\ w = Begun /\ hist' = NoHist
    BY <1>2, <1>7 DEF Resumes, NoWord, NoHist, NoPending
  <2>2. hist'.text = <<>> /\ ~hist'.pending.ok /\ ~hist'.over
    BY <2>1 DEF NoHist, NoPending
  <2>3. dead' = 0 /\ untrusted' = FALSE
    BY <1>2, <2>1
  <2>4. EndsWith(Drop(Doc, Begun.over), Spelt(hist'.text) \o Spelt(Begun.keys))
    BY <1>4, <1>6, <2>2
  <2>5. hist'.text \in Text
    BY <2>2, SpeltNothing
  <2>6. word' = Settled(WithKey(Begun, k))
    BY <1>2, <2>1
  <2> HIDE DEF w, begins, resumed
  <2> QED BY <1>4, <2>2, <2>3, <2>4, <2>5, <2>6
<1>8. CASE /\ Here /\ FoundHist = hist /\ (word = NoWord => FoundWord = NoWord)
           /\ FoundWord.keys = word.keys /\ FoundWord.over = word.over
           /\ FoundWord.ctx = word.ctx /\ FoundWord.skip = word.skip
  <2>1. Followed' => Followed /\ ~AwaitsLetter /\ ~Landed
    BY <1>1, <1>2, <1>8 DEF Followed, Cut, OpInv, AwaitsLetter, Landed, Idle
  <2>2. CASE resumed
    <3>0. hist.pending.ok /\ ~word.ctx
      BY <1>5, <1>8, <2>2
    <3>1. word = NoWord /\ word.over = 0 /\ dead = 0 /\ ~untrusted
      BY <1>1, <3>0 DEF RecordsInv, NoWord
    <3>2. hist' = [hist EXCEPT !.pending = NoPending] /\ w = Resumed(hist.pending)
      BY <1>2, <1>8, <2>2
    <3>3. hist'.text = hist.text /\ ~hist'.pending.ok /\ hist'.over = hist.over
      BY <1>1, <3>2 DEF TypeOK, HistOK, History, NoPending
    <3>4. Followed => EndsWith(Drop(Doc, 0), Spelt(hist.text) \o Spelt(hist.pending.keys))
      BY <2>1, <3>0, <3>1, SentenceSuffix, <1>1 DEF AwaitsLetter, Landed, Idle
    <3>5. untrusted' = FALSE /\ dead' = 0
      BY <1>2, <2>2, <3>1
    <3> QED BY <1>1, <1>2, <1>3, <1>5, <1>8, <2>1, <2>2, <3>1, <3>2, <3>3, <3>4, <3>5 DEF RecordsInv
  <2>3. CASE begins
    <3>1. ~word.ctx /\ word = NoWord /\ word.over = 0 /\ word.keys = <<>> /\ w = Begun
      BY <1>1, <1>8, <2>3 DEF RecordsInv, NoWord
    <3>2. hist' = IF hist.pending.ok THEN NoHist ELSE hist
      BY <1>2, <1>8, <2>3
    <3>3. untrusted' = FALSE /\ dead' = 0
      BY <1>2, <2>3
    <3>4. CASE hist.pending.ok
      <4>1. hist'.text = <<>> /\ ~hist'.pending.ok /\ ~hist'.over
        BY <3>2, <3>4 DEF NoHist, NoPending
      <4> QED BY <1>2, <1>4, <1>6, <3>1, <3>3, <4>1, SpeltNothing
    <3>5. CASE ~hist.pending.ok
      <4>1. hist' = hist
        BY <3>2, <3>5
      <4>2. Followed' => EndsWith(Drop(Doc, 0), Spelt(hist.text) \o Spelt(<<>>))
        BY <2>1, <3>1, <3>5, SentenceSuffix
      <4>3. untrusted \/ dead # 0 => hist.text = <<>>
        BY <1>1 DEF RecordsInv
      <4>4. hist.over => hist.text = <<>>
        BY <1>1 DEF RecordsInv
      <4> QED BY <1>2, <1>3, <1>4, <1>8, <3>1, <3>3, <3>5, <4>1, <4>2, <4>3, <4>4
    <3> QED BY <3>4, <3>5
  <2>4. CASE ~resumed /\ ~begins
    <3>1. word.ctx /\ w = FoundWord /\ FoundWord.ctx
      BY <1>8, <2>4
    <3>2. ~hist.pending.ok /\ dead = 0 /\ ~untrusted
      BY <1>1, <3>1 DEF RecordsInv
    <3>3. hist' = hist /\ dead' = 0 /\ untrusted' = FALSE
      BY <1>2, <1>8, <2>4, <3>2
    <3>4. Followed' => EndsWith(Drop(Doc, word.over), Spelt(hist.text) \o Spelt(word.keys))
      BY <2>1, <3>2, SentenceSuffix
    <3>5. (word.skip => word.keys = <<>> /\ word.over = 0 /\ hist.text = <<>>)
          /\ (hist.over => hist.text = <<>>)
      BY <1>1 DEF RecordsInv
    <3> QED BY <1>2, <1>3, <1>8, <3>1, <3>2, <3>3, <3>4, <3>5
  <2> QED BY <2>2, <2>3, <2>4
<1> QED BY <1>1, <1>7, <1>8, Found

\* A letter key.
LEMMA LetterStep ==
  ASSUME EngineInv, TypeOK', NEW k \in Keys, LetterKey(k)
  PROVE  EngineInv'
<1>1. PICK w : /\ WordOK(w) /\ w.ctx /\ word' = Settled(WithKey(w, k))
               /\ ~hist'.pending.ok /\ hist'.text \in Text /\ (hist'.over => hist'.text = <<>>)
               /\ w.skip => w.keys = <<>> /\ w.over = 0 /\ hist'.text = <<>>
               /\ (dead # 0 => w.skip) /\ dead' = 0 /\ untrusted' = FALSE
               /\ ~w.skip /\ Followed' =>
                    EndsWith(Drop(Doc, w.over), Spelt(hist'.text) \o Spelt(w.keys))
  BY LetterGoesOn
<1>2. TypeOK /\ Language \in Slots /\ screen' = screen /\ undo' = NoUndo /\ prev' = NoPrev
      /\ op' = [Open("letter", k) EXCEPT !.dead = dead] /\ moved' # "window"
  BY LanguageOK DEF EngineInv, LetterKey, KeyDown, TypeOK, NoticeWindow, Here
<1>3. /\ op'.phase = "eval" /\ op'.src = "letter" /\ op'.key = k /\ op'.dead = dead
      /\ ~op'.late /\ ~op'.keyCut /\ ~op'.reset
  BY <1>2 DEF Open, NoOp
<1>4. /\ word'.keys = WithKey(w, k).keys /\ word'.over = WithKey(w, k).over
      /\ word'.skip = w.skip /\ word'.ctx
  <2>1. WordOK(WithKey(w, k))
    BY <1>1, <1>2, WithKeyOK
  <2>2. WithKey(w, k).skip = w.skip /\ WithKey(w, k).ctx = w.ctx
    BY <1>1 DEF WithKey, WordOK, Word
  <2> QED BY <1>1, <2>1, <2>2, SettledSame
<1>5. w.skip => word'.keys = <<>> /\ word'.over = 0
  BY <1>1, <1>4 DEF WithKey
<1>6. RecordsInv'
  BY <1>1, <1>2, <1>4, <1>5 DEF RecordsInv, NoUndo, NoPrev
<1>7. OpInv'
  BY <1>1, <1>2, <1>3, <1>4, <1>5 DEF OpInv, Idle, Cut, NoUndo, NoPrev
<1>8. ScreenInv'
  <2>1. AwaitsLetter' /\ ~Landed' /\ Doc' = Doc /\ Doc \in Seq(Glyph)
    BY <1>2, <1>3, Types DEF AwaitsLetter, Landed, Doc
  <2>2. CASE w.skip
    BY <1>1, <1>5, <2>1, <2>2, NoSentence
  <2>3. CASE ~w.skip /\ Followed'
    <3>1. EndsWith(Drop(Doc \o <<k>>, word'.over), Spelt(hist'.text) \o Spelt(word'.keys))
      BY <1>1, <1>2, <1>4, <2>1, <2>3, KeyRecorded
    <3>2. Spelt(Sentence') = Spelt(hist'.text) \o Spelt(word'.keys)
      <4>1. Sentence' = hist'.text \o word'.keys
        BY <1>1 DEF Sentence
      <4> QED BY <1>1, <4>1, NextTypes, SpeltConcat
    <3> QED BY <1>3, <2>1, <3>1, <3>2 DEF ScreenInv
  <2>4. CASE ~Followed'
    BY <2>4 DEF ScreenInv
  <2> QED BY <2>2, <2>3, <2>4
<1>9. UndoInv' /\ PrevInv'
  BY <1>2 DEF UndoInv, PrevInv, NoUndo, NoPrev
<1> QED BY <1>6, <1>7, <1>8, <1>9 DEF EngineInv

-----------------------------------------------------------------------------
(* Backspace. *)

\* Taking a separator or a key off again.
LEMMA OneOff ==
  ASSUME NEW s \in Seq(Glyph), NEW x \in Glyph
  PROVE  s \o <<x>> \in Seq(Glyph) /\ Drop(s \o <<x>>, 1) = s /\ 1 <= Len(s \o <<x>>)
<1>1. <<x>> \in Seq(Glyph) /\ Len(<<x>>) = 1 /\ 1 \in Nat /\ 1 <= Len(<<x>>) /\ Len(s) \in Nat
  BY LenProperties
<1>2. Drop(s \o <<x>>, 1) = s \o Drop(<<x>>, 1)
  <2>1. ASSUME NEW t \in Seq(Glyph), 1 <= Len(t) PROVE Drop(s \o t, 1) = s \o Drop(t, 1)
    BY <2>1, DropOfConcat
  <2> QED BY <1>1, <2>1
<1>3. Drop(<<x>>, 1) = <<>>
  BY <1>1, DropEnds
<1>4. s \o <<x>> \in Seq(Glyph) /\ 1 <= Len(s \o <<x>>)
  <2>1. ASSUME NEW t \in Seq(Glyph), 1 <= Len(t) PROVE s \o t \in Seq(Glyph) /\ 1 <= Len(s \o t)
    <3>1. s \o t \in Seq(Glyph) /\ Len(s \o t) = Len(s) + Len(t) /\ Len(t) \in Nat
      BY ConcatProperties, LenProperties
    <3>2. \A m, n \in Nat : 1 <= n => 1 <= m + n
      OBVIOUS
    <3> QED BY <1>1, <2>1, <3>1, <3>2
  <2> QED BY <1>1, <2>1
<1> QED BY <1>2, <1>3, <1>4, ConcatEmptySeq

\* Backspace takes off the screen what it takes off the word.
LEMMA KeyErased ==
  ASSUME NEW d \in Seq(Glyph), NEW text \in Text, NEW w, WordOK(w), w.keys # <<>> \/ w.over > 0,
         EndsWith(Drop(d, w.over), Spelt(text) \o Spelt(w.keys))
  PROVE  EndsWith(Drop(Drop(d, 1), Erased(w).over), Spelt(text) \o Spelt(Erased(w).keys))
<1>1. /\ w.keys \in Text /\ w.over \in Nat /\ Spelt(text) \in Seq(Glyph) /\ Spelt(w.keys) \in Seq(Glyph)
      /\ Front(d) = Drop(d, 1)
  <2>1. w.keys \in Letters /\ w.over \in Nat
    BY DEF WordOK, Word
  <2> QED BY <2>1, LettersAreText, SpeltOK, DropEnds
<1>2. CASE w.over > 0
  <2>1. Erased(w).over = w.over - 1 /\ Erased(w).keys = w.keys /\ w.over - 1 \in Nat
        /\ (w.over - 1) + 1 = w.over
    BY <1>1, <1>2 DEF Erased, WordOK, Word
  <2>2. Drop(Front(d), w.over - 1) = Drop(d, (w.over - 1) + 1)
    BY <2>1, DropFront
  <2> QED BY <1>1, <2>1, <2>2
<1>3. CASE w.over = 0 /\ w.keys # <<>>
  <2>1. Erased(w).over = 0 /\ Erased(w).keys = Front(w.keys)
    BY <1>1, <1>3 DEF Erased, WordOK, Word
  <2>2. /\ Front(w.keys) \in Text /\ Spelt(Front(w.keys)) = Drop(Spelt(w.keys), 1)
        /\ 1 <= Len(Spelt(w.keys)) /\ 1 \in Nat
    BY <1>1, <1>3, SpeltFront
  <2>3. Drop(d, 0) = d /\ Drop(Drop(d, 1), 0) = Drop(d, 1)
    BY DropEnds, DropOK
  <2> DEFINE all == Spelt(text) \o Spelt(w.keys)
  <2>4. all \in Seq(Glyph) /\ 1 <= Len(all) /\ EndsWith(d, all)
    <3>1. /\ all \in Seq(Glyph) /\ Len(all) = Len(Spelt(text)) + Len(Spelt(w.keys))
          /\ Len(Spelt(text)) \in Nat /\ Len(Spelt(w.keys)) \in Nat
      BY <1>1, ConcatProperties, LenProperties
    <3> HIDE DEF all
    <3>2. 1 <= Len(all)
      BY <2>2, <3>1
    <3> QED BY <1>3, <2>3, <3>1, <3>2 DEF all
  <2>5. EndsWith(Drop(d, 1), Drop(all, 1))
    <3> HIDE DEF all
    <3> QED BY <2>2, <2>4, EndsShortened
  <2>6. Drop(all, 1) = Spelt(text) \o Drop(Spelt(w.keys), 1)
    BY <1>1, <2>2, DropOfConcat
  <2> QED BY <2>1, <2>2, <2>3, <2>5, <2>6
<1> QED BY <1>1, <1>2, <1>3

\* Backspace outside Undo.
LEMMA BackspaceStep ==
  ASSUME EngineInv, TypeOK', BackspaceKey
  PROVE  EngineInv'
<1> DEFINE w == FoundWord
           hadWord == w.keys # <<>> \/ w.over > 0
           reopens == ~hadWord /\ ~w.ctx /\ prev.ok /\ Here
           left == Erased(w)
           gone == left.keys = <<>> /\ left.over = 0
<1>1. /\ dead' = 0 /\ prev' = NoPrev /\ undo' = NoUndo /\ op' = op /\ untrusted' = untrusted /\ Idle
      /\ word' = IF reopens THEN [NoWord EXCEPT !.keys = prev.keys, !.lang = prev.lang, !.ctx = TRUE]
                 ELSE IF gone THEN NoWord ELSE left
      /\ hist' = IF reopens \/ gone THEN NoHist ELSE FoundHist
      /\ moved' = (IF Here THEN moved ELSE "seen")
      /\ screen' \in {Front(screen)} \cup (IF dead = 1 THEN {screen} ELSE {})
  BY DEF BackspaceKey, PlainBackspace, NoticeWindow
<1>2. /\ TypeOK /\ RecordsInv /\ OpInv /\ ScreenInv /\ PrevInv /\ op'.phase = "none" /\ ~Cut' /\ ~op'.late
      /\ WordOK(w) /\ WordOK(left)
  BY <1>1, FoundOK, ErasedOK DEF EngineInv, OpInv, Idle, Cut
<1>3. Doc \in Seq(Glyph) /\ (dead # 1 => Doc' = Drop(Doc, 1))
  BY <1>1, <1>2, Types, DocSteps
<1>4. ~Landed' /\ ~AwaitsLetter' /\ ~Landed /\ ~AwaitsLetter /\ Idle'
  BY <1>1, <1>2 DEF Landed, AwaitsLetter, Idle
<1>5. UndoInv' /\ PrevInv' /\ OpInv'
  BY <1>1, <1>2 DEF UndoInv, PrevInv, OpInv, Idle, NoUndo, NoPrev
<1>6. CASE reopens
  <2>1. /\ word' = [NoWord EXCEPT !.keys = prev.keys, !.lang = prev.lang, !.ctx = TRUE]
        /\ hist' = NoHist /\ moved' = moved /\ dead = 0 /\ ~untrusted
    BY <1>1, <1>2, <1>6 DEF RecordsInv
  <2>2. word'.keys = prev.keys /\ word'.over = 0 /\ word'.ctx /\ ~word'.skip
    BY <2>1 DEF NoWord
  <2>3. RecordsInv'
    BY <1>1, <2>1, <2>2 DEF RecordsInv, NoUndo, NoPrev, NoHist, NoPending
  <2>4. ASSUME Followed' PROVE EndsWith(Drop(Doc', word'.over), Spelt(Sentence'))
    <3>1. EndsWith(Doc, Spelt(prev.keys) \o <<"space">>)
      BY <1>1, <1>2, <1>6, <2>1, <2>4 DEF PrevInv, Followed, Cut
    <3>2. "space" \in Glyph /\ Spelt(prev.keys) \in Seq(Glyph) /\ prev.keys \in Text /\ 1 \in Nat
      BY <1>2, Types, SpeltOK DEF Glyph
    <3>3. EndsWith(Drop(Doc, 1), Drop(Spelt(prev.keys) \o <<"space">>, 1))
      BY <1>3, <3>1, <3>2, OneOff, EndsShortened
    <3>4. EndsWith(Drop(Doc, 1), Spelt(prev.keys)) /\ Drop(Doc, 1) \in Seq(Glyph)
      BY <1>3, <3>2, <3>3, OneOff, DropOK
    <3>5. Sentence' = prev.keys
      <4>1. <<>> \o prev.keys = prev.keys
        BY <3>2, ConcatEmptySeq DEF Text
      <4> QED BY <2>1, <2>2, <4>1 DEF Sentence, NoHist, NoPending
    <3>6. Drop(Drop(Doc, 1), 0) = Drop(Doc, 1)
      BY <3>4, DropEnds
    <3> QED BY <1>3, <2>1, <2>2, <3>4, <3>5, <3>6
  <2> QED BY <1>4, <1>5, <2>3, <2>4 DEF EngineInv, ScreenInv
<1>7. CASE ~reopens /\ gone
  BY <1>1, <1>2, <1>7, Forgotten DEF EngineInv
<1>8. CASE ~reopens /\ ~gone
  <2>1. word' = left /\ hist' = FoundHist
    BY <1>1, <1>8
  <2>2. hadWord
    <3>1. ~hadWord => left = w
      BY <1>2 DEF Erased
    <3>2. ~hadWord => w.keys = <<>> /\ w.over = 0
      BY <1>2 DEF WordOK, Word
    <3> QED BY <1>8, <3>1, <3>2
  <2>3. /\ Here /\ hist' = hist /\ w.keys = word.keys /\ w.over = word.over
        /\ w.ctx = word.ctx /\ w.skip = word.skip /\ word # NoWord
    <3>1. w # NoWord
      BY <2>2 DEF NoWord
    <3> QED BY <1>2, <2>1, <3>1, Found
  <2>4. word.ctx /\ ~hist.pending.ok /\ dead = 0 /\ ~untrusted /\ ~word.skip
    <3>1. word.ctx
      BY <1>2, <2>3 DEF RecordsInv
    <3>2. ~word.skip
      BY <1>2, <2>2, <2>3 DEF RecordsInv
    <3> QED BY <1>2, <3>1, <3>2 DEF RecordsInv
  <2>5. left.ctx = w.ctx /\ left.skip = w.skip
    BY <1>2 DEF Erased, WordOK, Word
  <2>6. RecordsInv'
    <3> HIDE DEF left, w
    <3> QED BY <1>1, <1>2, <2>1, <2>3, <2>4, <2>5 DEF RecordsInv, NoUndo, NoPrev
  <2>7. ASSUME Followed' PROVE EndsWith(Drop(Doc', word'.over), Spelt(Sentence'))
    <3>1. Followed
      BY <1>1, <2>3, <2>7 DEF Followed, Cut
    <3>2. EndsWith(Drop(Doc, word.over), Spelt(hist.text) \o Spelt(word.keys))
      BY <1>4, <2>4, <3>1, SentenceSuffix
    <3>3. hist.text \in Text /\ word'.keys \in Text
      BY <1>2, Types, NextTypes
    <3>4. EndsWith(Drop(Drop(Doc, 1), left.over), Spelt(hist.text) \o Spelt(left.keys))
      <4> HIDE DEF w
      <4> QED BY <1>2, <1>3, <2>2, <2>3, <3>2, <3>3, KeyErased
    <3>5. Spelt(Sentence') = Spelt(hist.text) \o Spelt(word'.keys)
      <4>1. Sentence' = hist.text \o word'.keys
        BY <2>3, <2>4 DEF Sentence
      <4> QED BY <3>3, <4>1, SpeltConcat
    <3> HIDE DEF left
    <3> QED BY <1>3, <2>1, <2>4, <3>4, <3>5
  <2> QED BY <1>4, <1>5, <2>6, <2>7 DEF EngineInv, ScreenInv
<1> QED BY <1>6, <1>7, <1>8

\* Backspace as Undo keeps the records for its operation.
LEMMA UndoStep ==
  ASSUME EngineInv, TypeOK', UndoBackspace
  PROVE  EngineInv'
<1>1. /\ UNCHANGED <<screen, moved, hist, undo, prev, untrusted, dead>> /\ word' = NoWord
      /\ op' = Open("backspace", "back") /\ Idle /\ undo.ok /\ Here
  BY DEF UndoBackspace, CanUndo
<1>2. word = NoWord /\ ~prev.ok /\ dead = 0 /\ ~Cut /\ ~op.late
  BY <1>1 DEF EngineInv, RecordsInv, OpInv
<1>3. op'.phase = "eval" /\ op'.src = "backspace" /\ ~op'.late /\ ~op'.keyCut /\ ~op'.reset /\ op'.dead = 0
  BY <1>1 DEF Open, NoOp
<1>4. RecordsInv' /\ OpInv'
  BY <1>1, <1>2, <1>3 DEF EngineInv, RecordsInv, OpInv, Idle, Cut, Here
<1>5. Doc' = Doc /\ Sentence' = Sentence /\ Followed' = Followed /\ ~AwaitsLetter /\ ~Landed
      /\ ~AwaitsLetter' /\ ~Landed' /\ word'.over = word.over
  BY <1>1, <1>2, <1>3 DEF Doc, Sentence, Followed, Cut, Idle, AwaitsLetter, Landed
<1>6. ScreenInv' /\ UndoInv' /\ PrevInv'
  BY <1>1, <1>2, <1>3, <1>5 DEF EngineInv, ScreenInv, UndoInv, PrevInv
<1> QED BY <1>4, <1>6 DEF EngineInv

-----------------------------------------------------------------------------
(* The hook's time limit, and the timers. *)

\* Windows gives up on the hook: the key of the operation lands before its end.
LEMMA TimesOut ==
  ASSUME EngineInv, TypeOK', HookTimesOut
  PROVE  EngineInv'
<1>1. /\ UNCHANGED <<moved, prev, word, hist, undo, untrusted, dead>> /\ op.phase = "eval" /\ InHook
      /\ ~op.late /\ KeyLands /\ op' = [op EXCEPT !.late = TRUE]
  BY DEF HookTimesOut, RecordsKept
<1>2. /\ TypeOK /\ RecordsInv /\ OpInv /\ ScreenInv
      /\ op'.phase = op.phase /\ op'.src = op.src /\ op'.key = op.key /\ op'.dead = op.dead
      /\ op'.late /\ op'.keyCut = op.keyCut /\ op'.reset = op.reset
  BY <1>1 DEF EngineInv, TypeOK, OpOK, Operation
<1>3. RecordsInv' /\ OpInv'
  BY <1>1, <1>2 DEF RecordsInv, OpInv, Idle, Cut, InHook
<1>4. UndoInv' /\ PrevInv'
  BY <1>1, <1>2 DEF UndoInv, PrevInv, Idle
<1>5. Followed' = Followed /\ Sentence' = Sentence /\ ~AwaitsLetter' /\ ~Landed /\ Doc \in Seq(Glyph)
  BY <1>1, <1>2, Types DEF Followed, Cut, Sentence, AwaitsLetter, Landed
<1>6. CASE op.dead # 0
  <2>1. hist'.text = <<>> /\ ~hist'.pending.ok /\ word'.keys = <<>> /\ ~Landed'
    BY <1>1, <1>2, <1>6 DEF OpInv, Landed
  <2> QED BY <1>3, <1>4, <2>1, NoSentence DEF EngineInv
<1>7. CASE op.dead = 0 /\ op.src = "letter"
  <2>1. op.key \in Keys /\ Doc' = Doc \o <<op.key>> /\ AwaitsLetter /\ ~Landed'
    BY <1>1, <1>2, <1>7, Types, KeyLanded DEF AwaitsLetter, Landed
  <2>2. ScreenInv'
    BY <1>1, <1>2, <1>5, <2>1 DEF ScreenInv
  <2> QED BY <1>3, <1>4, <2>2 DEF EngineInv
<1>8. CASE op.dead = 0 /\ op.src # "letter"
  <2>1. Landed' /\ ~AwaitsLetter
    BY <1>1, <1>2, <1>8 DEF Landed, InHook, AwaitsLetter
  <2>2. ASSUME Followed, op.key \in {"space", "half"}, word.over = 0
        PROVE  EndsWith(Doc', Spelt(Sentence) \o <<"space">>)
    <3>1. Doc' = Doc \o <<"space">> /\ "space" \in Glyph
      BY <1>1, <1>2, <1>8, <2>2, Types, KeyLanded DEF Glyph
    <3>2. EndsWith(Drop(Doc, 0), Spelt(Sentence)) /\ Drop(Doc, 0) = Doc
      BY <1>2, <1>5, <2>1, <2>2, DropEnds DEF ScreenInv
    <3>3. Sentence \in Text /\ Spelt(Sentence) \in Seq(Glyph)
      <4>1. Sentence \in Text
        BY <1>2, Types, TextConcat DEF Sentence
      <4> QED BY <4>1, SpeltOK
    <3>4. <<"space">> \in Seq(Glyph)
      BY <3>1
    <3> QED BY <1>5, <3>1, <3>2, <3>3, <3>4, EndsGrown
  <2>3. ScreenInv'
    BY <1>1, <1>2, <1>5, <2>1, <2>2 DEF ScreenInv
  <2> QED BY <1>3, <1>4, <2>3 DEF EngineInv
<1> QED BY <1>6, <1>7, <1>8

\* A step that leaves the screen and the sentence leaves what is followed.
LEMMA SameSentence ==
  ASSUME EngineInv, UNCHANGED <<screen, moved>>, Sentence' = Sentence, word'.over = word.over,
         ~Landed, ~Landed', ~AwaitsLetter, ~AwaitsLetter', Followed' => Followed
  PROVE  ScreenInv'
<1>1. Doc' = Doc
  BY DEF Doc
<1> QED BY <1>1 DEF EngineInv, ScreenInv

\* The pause after a word, and the hotkey's wait.
LEMMA Timers ==
  ASSUME EngineInv, TypeOK', IdleTimer \/ UndoTimer
  PROVE  EngineInv'
<1>1. TypeOK /\ RecordsInv /\ OpInv /\ UndoInv /\ PrevInv /\ Idle /\ UNCHANGED <<screen, moved, prev, untrusted, dead>>
      /\ ~Cut /\ ~op.late /\ ~Landed /\ ~AwaitsLetter
  BY DEF EngineInv, IdleTimer, UndoTimer, OpInv, Landed, AwaitsLetter, Idle
<1>2. ASSUME NEW src \in {"idle", "hotkey"}
      PROVE  LET o == Open(src, "none")
             IN  o.phase = "eval" /\ o.src = src /\ o.dead = 0 /\ ~o.late /\ ~o.keyCut /\ ~o.reset
  BY DEF Open, NoOp
<1>3. CASE IdleTimer
  <2>1. word.armed /\ undo' = undo
    BY <1>3 DEF IdleTimer
  <2>2. word.ctx /\ ~hist.pending.ok /\ ~undo.ok /\ ~prev.ok /\ dead = 0 /\ ~untrusted
    <3>1. word.ctx
      BY <1>1, <2>1 DEF RecordsInv, NoWord
    <3> QED BY <1>1, <3>1 DEF RecordsInv
  <2>3. UndoInv' /\ PrevInv'
    BY <1>1, <2>1, <2>2 DEF UndoInv, PrevInv
  <2>4. WordOK([word EXCEPT !.armed = FALSE])
    BY <1>1, Booleans, ArmedChange DEF TypeOK
  <2>5. /\ [word EXCEPT !.armed = FALSE].keys = word.keys /\ [word EXCEPT !.armed = FALSE].over = word.over
        /\ [word EXCEPT !.armed = FALSE].ctx = word.ctx /\ [word EXCEPT !.armed = FALSE].skip = word.skip
    BY <1>1 DEF TypeOK, WordOK, Word
  <2>6. CASE /\ Here /\ word' = Settled([word EXCEPT !.armed = FALSE])
             /\ op' = Open("idle", "none") /\ hist' = hist
    <3>1. /\ word'.keys = word.keys /\ word'.over = word.over /\ word'.ctx = word.ctx
          /\ word'.skip = word.skip
      BY <2>4, <2>5, <2>6, SettledSame
    <3>2. /\ op'.phase = "eval" /\ op'.src = "idle" /\ op'.dead = 0 /\ ~op'.late /\ ~op'.keyCut
          /\ ~op'.reset
      BY <1>2, <2>6
    <3>3. RecordsInv'
      BY <1>1, <2>1, <2>2, <2>6, <3>1 DEF RecordsInv
    <3>4. OpInv'
      BY <1>1, <2>1, <2>2, <2>6, <3>2 DEF OpInv, Idle, Cut, Here
    <3>5. ScreenInv'
      <4>1. Sentence' = Sentence
        BY <2>6, <3>1 DEF Sentence
      <4>2. ~Landed' /\ ~AwaitsLetter' /\ (Followed' => Followed)
        BY <1>1, <3>2 DEF Landed, AwaitsLetter, Followed, Cut
      <4> QED BY <1>1, <3>1, <4>1, <4>2, SameSentence
    <3> QED BY <2>3, <3>3, <3>4, <3>5 DEF EngineInv
  <2>7. CASE word' = NoWord /\ hist' = NoHist /\ op' = op
    <3>1. RecordsInv' /\ OpInv'
      BY <1>1, <2>1, <2>2, <2>7 DEF RecordsInv, OpInv, Idle, Cut, InHook, NoWord, NoHist, NoPending
    <3>2. ScreenInv'
      <4>1. hist'.text = <<>> /\ ~hist'.pending.ok /\ word'.keys = <<>> /\ ~Landed'
        BY <1>1, <2>7 DEF NoWord, NoHist, NoPending, Landed, Idle
      <4> QED BY <4>1, NoSentence
    <3> QED BY <2>3, <3>1, <3>2 DEF EngineInv
  <2>8. CASE word' = [word EXCEPT !.armed = FALSE] /\ hist' = hist /\ op' = op
    <3>1. RecordsInv' /\ OpInv'
      BY <1>1, <2>1, <2>2, <2>5, <2>8 DEF RecordsInv, OpInv, Idle, Cut, InHook
    <3>2. ScreenInv'
      <4>1. Sentence' = Sentence /\ word'.over = word.over
        BY <2>5, <2>8 DEF Sentence
      <4>2. ~Landed' /\ ~AwaitsLetter' /\ (Followed' => Followed)
        BY <1>1, <2>8 DEF Landed, AwaitsLetter, Followed, Cut
      <4> QED BY <1>1, <4>1, <4>2, SameSentence
    <3> QED BY <2>3, <3>1, <3>2 DEF EngineInv
  <2> QED BY <1>3, <2>6, <2>7, <2>8 DEF IdleTimer
<1>4. CASE UndoTimer
  <2>1. word' = word /\ hist' = hist
    BY <1>4 DEF UndoTimer
  <2>2. CASE CanUndo(1) /\ op' = Open("hotkey", "none") /\ undo' = undo
    <3>1. undo.ok /\ Here /\ ~word.ctx /\ ~prev.ok /\ dead = 0
      BY <1>1, <2>2 DEF CanUndo, RecordsInv
    <3>2. /\ op'.phase = "eval" /\ op'.src = "hotkey" /\ op'.dead = 0 /\ ~op'.late /\ ~op'.keyCut
          /\ ~op'.reset
      BY <1>2, <2>2
    <3>3. RecordsInv'
      BY <1>1, <2>1, <2>2 DEF RecordsInv
    <3>4. OpInv'
      BY <1>1, <2>2, <3>1, <3>2 DEF OpInv, Idle, Cut, Here
    <3>5. ~Landed' /\ ~AwaitsLetter' /\ Followed' = Followed /\ Sentence' = Sentence /\ Doc' = Doc
      BY <1>1, <2>1, <3>2 DEF Landed, AwaitsLetter, Followed, Cut, Sentence, Doc
    <3>6. ScreenInv' /\ UndoInv' /\ PrevInv'
      BY <1>1, <2>1, <2>2, <3>1, <3>2, <3>5, SameSentence DEF UndoInv, PrevInv, Idle
    <3> QED BY <3>3, <3>4, <3>6 DEF EngineInv
  <2>3. CASE undo' \in {undo, NoUndo} /\ op' = op
    <3>1. RecordsInv' /\ OpInv'
      BY <1>1, <2>1, <2>3 DEF RecordsInv, OpInv, Idle, Cut, InHook, NoUndo
    <3>2. ~Landed' /\ ~AwaitsLetter' /\ Followed' = Followed /\ Sentence' = Sentence /\ Doc' = Doc
          /\ Idle' = Idle
      BY <1>1, <2>1, <2>3 DEF Landed, AwaitsLetter, Followed, Cut, Sentence, Doc, Idle
    <3>3. ScreenInv' /\ UndoInv' /\ PrevInv'
      BY <1>1, <2>1, <2>3, <3>2, SameSentence DEF UndoInv, PrevInv, NoUndo
    <3> QED BY <3>1, <3>3 DEF EngineInv
  <2> QED BY <1>4, <2>2, <2>3 DEF UndoTimer
<1> QED BY <1>3, <1>4

-----------------------------------------------------------------------------
(* Replacements. *)

\* history_push records the word and the space that are on the screen.
LEMMA PushedSentence ==
  ASSUME NEW h, HistOK(h), h.over => h.text = <<>>, ~h.pending.ok, NEW keys \in Text, NEW b,
         NEW d \in Seq(Glyph),
         b \in {"space", "half"} => EndsWith(d, Spelt(h.text) \o (Spelt(keys) \o <<"space">>))
  PROVE  LET g == Push(h, keys, b)
         IN  /\ ~g.pending.ok /\ (g.over => g.text = <<>>) /\ EndsWith(d, Spelt(g.text))
             /\ (b \notin {"space", "half"} => g.text = <<>>)
<1> DEFINE g == Push(h, keys, b)
           c == Space(b = "half")
<1>1. EndsWith(d, <<>>) /\ Spelt(<<>>) = <<>>
  BY EndsEmpty, SpeltNothing
<1>2. h.text \in Text
  BY DEF HistOK, History
<1>3. c \in Char /\ c.key = "space"
  <2>1. (b = "half") \in BOOLEAN
    BY Zenon
  <2> QED BY <2>1, SpaceIsChar DEF Space
<1>4. CASE g = NoHist \/ g = AbandonedHist
  <2>1. ~g.pending.ok /\ g.text = <<>>
    BY <1>4 DEF NoHist, AbandonedHist, NoPending
  <2> HIDE DEF g
  <2>2. ~g.pending.ok /\ (g.over => g.text = <<>>) /\ EndsWith(d, Spelt(g.text)) /\ g.text = <<>>
    BY <1>1, <2>1
  <2> QED BY <2>2 DEF g
<1>5. CASE g = h /\ h.over /\ b \in {"space", "half"}
  <2> HIDE DEF g
  <2>1. ~g.pending.ok /\ (g.over => g.text = <<>>) /\ EndsWith(d, Spelt(g.text))
    BY <1>1, <1>5
  <2> QED BY <1>5, <2>1 DEF g
<1>6. CASE g = [h EXCEPT !.text = h.text \o Append(keys, c)] /\ b \in {"space", "half"} /\ ~h.over
  <2>1. g.text = h.text \o Append(keys, c) /\ ~g.pending.ok /\ ~g.over
    BY <1>6 DEF HistOK, History
  <2>2. Append(keys, c) \in Text /\ Spelt(Append(keys, c)) = Spelt(keys) \o <<"space">>
    <3> HIDE DEF c
    <3> QED BY <1>3, TextAppend, SpeltAppend
  <2>3. Spelt(g.text) = Spelt(h.text) \o (Spelt(keys) \o <<"space">>)
    <3> HIDE DEF g, c
    <3> QED BY <1>2, <2>1, <2>2, SpeltConcat
  <2> HIDE DEF g
  <2>4. ~g.pending.ok /\ (g.over => g.text = <<>>) /\ EndsWith(d, Spelt(g.text))
    BY <1>6, <2>1, <2>3
  <2> QED BY <1>6, <2>4 DEF g
<1>7. \/ g = NoHist \/ g = AbandonedHist \/ (g = h /\ h.over /\ b \in {"space", "half"})
      \/ (g = [h EXCEPT !.text = h.text \o Append(keys, c)] /\ b \in {"space", "half"} /\ ~h.over)
  BY Zenon DEF Push
<1> QED BY <1>4, <1>5, <1>6, <1>7

\* Whatever is pushed, nothing is pending, and an abandoned history is empty.
LEMMA PushedShape ==
  ASSUME NEW h, HistOK(h), h.over => h.text = <<>>, ~h.pending.ok, NEW keys, NEW b
  PROVE  ~Push(h, keys, b).pending.ok /\ (Push(h, keys, b).over => Push(h, keys, b).text = <<>>)
<1> DEFINE g == Push(h, keys, b)
<1>1. g \in {NoHist, AbandonedHist, h} \/ (~h.over /\ \E x : g = [h EXCEPT !.text = x])
  BY Zenon DEF Push
<1> HIDE DEF g
<1>2. ASSUME NEW x, g = [h EXCEPT !.text = x], ~h.over PROVE ~g.pending.ok /\ ~g.over
  BY <1>2 DEF HistOK, History
<1>3. g \in {NoHist, AbandonedHist} => ~g.pending.ok /\ g.text = <<>>
  BY DEF NoHist, AbandonedHist, NoPending
<1>4. ~g.pending.ok /\ (g.over => g.text = <<>>)
  BY <1>1, <1>2, <1>3
<1> QED BY <1>4 DEF g

\* A replacement leaves what it records: the sentence and the Undo record.
LEMMA Replaced ==
  ASSUME EngineInv, TypeOK', MaySend, Sent, word' = NoWord, hist'.over => hist'.text = <<>>,
         untrusted => hist'.text = <<>> /\ ~hist'.pending.ok /\ ~undo'.ok,
         Followed => EndsWith(Doc', Spelt(Sentence')),
         Followed /\ undo'.ok /\ undo'.b # "enter" =>
           EndsWith(Doc', Spelt(undo'.replacement) \o Gap(undo'.b))
  PROVE  EngineInv'
<1>1. /\ op.phase = "eval" /\ ~op.late /\ ~Cut /\ TypeOK /\ OpInv
      /\ UNCHANGED <<moved, prev, untrusted, dead, hotkey>> /\ op' = [op EXCEPT !.phase = "sent"]
  BY DEF MaySend, Sent, EngineInv
<1>2. /\ op'.phase = "sent" /\ op'.src = op.src /\ ~op'.late /\ op'.keyCut = op.keyCut
      /\ op'.reset = op.reset
  BY <1>1 DEF TypeOK, OpOK, Operation
<1>3. ~prev.ok /\ dead = 0 /\ moved # "window"
  BY <1>1 DEF OpInv, Idle
<1>4. RecordsInv'
  BY <1>1, <1>3 DEF RecordsInv, NoWord
<1>5. OpInv'
  BY <1>1, <1>2, <1>3 DEF OpInv, Idle, Cut
<1>6. Followed' = Followed /\ ~AwaitsLetter' /\ ~Landed' /\ ~Idle' /\ word'.over = 0
  BY <1>1, <1>2 DEF Followed, Cut, AwaitsLetter, Landed, Idle, NoWord
<1>7. Drop(Doc', 0) = Doc'
  BY NextTypes, DropEnds
<1> QED BY <1>4, <1>5, <1>6, <1>7 DEF EngineInv, ScreenInv, UndoInv, PrevInv

\* What a replacement typed is what its Undo record says is there.
LEMMA UndoRecorded ==
  ASSUME TypeOK, NEW n \in Nat, NEW text \in Text, NEW b, NEW lang, b # "enter",
         Inject(n, text, b, lang)
  PROVE  EndsWith(Doc', Spelt(text) \o Gap(b)) /\ Doc' = Drop(Doc, n) \o (Spelt(text) \o Gap(b))
<1>1. Doc' = Drop(Doc, n) \o (Spelt(text) \o Gap(b))
  BY Types, DocInjected
<1>2. Drop(Doc, n) \in Seq(Glyph) /\ Spelt(text) \o Gap(b) \in Seq(Glyph)
  <2>1. Spelt(text) \in Seq(Glyph) /\ Gap(b) \in Seq(Glyph)
    BY SpeltOK, GapOK
  <2> QED BY <2>1, Types, DropOK, ConcatProperties
<1> QED BY <1>1, <1>2, EndsWithAdded

\* A word being followed has nothing pending behind it, and is trusted.
LEMMA WordAlone ==
  ASSUME RecordsInv, TypeOK, word.keys # <<>>
  PROVE  word.ctx /\ ~hist.pending.ok /\ ~untrusted /\ dead = 0 /\ Sentence = hist.text \o word.keys
         /\ Spelt(Sentence) = Spelt(hist.text) \o Spelt(word.keys)
<1>1. word.ctx
  BY DEF RecordsInv, NoWord
<1>2. ~hist.pending.ok /\ ~untrusted /\ dead = 0
  BY <1>1 DEF RecordsInv
<1>3. Sentence = hist.text \o word.keys
  BY <1>2 DEF Sentence
<1> QED BY <1>1, <1>2, <1>3, Types, SpeltConcat

\* The live correction, and the one after a pause.
LEMMA LiveCorrection ==
  ASSUME EngineInv, TypeOK', NEW t \in Slots, CorrectWhileTyping(t)
  PROVE  EngineInv' /\ (Followed => Doc' = IF op.src = "letter" THEN Doc \o <<op.key>> ELSE Doc)
<1> DEFINE text == InSlot(word.keys, t)
           n == Len(word.keys) - (IF op.src = "letter" THEN 1 ELSE 0)
<1>1. /\ TypeOK /\ RecordsInv /\ OpInv /\ ScreenInv /\ MaySend /\ Sent /\ op.src \in {"letter", "idle"}
      /\ Inject(n, text, "none", t) /\ undo' = Record(Visible(word), text, "none", WordLayout(word))
      /\ hist' = [hist EXCEPT !.pending = [ok |-> TRUE, keys |-> text, lang |-> t]]
      /\ word' = NoWord /\ word.keys # <<>> /\ word.over = 0 /\ LongEnough(word, MinLive)
  BY DEF EngineInv, CorrectWhileTyping, Offered, Correctable
<1>2. Len(word.keys) \in Nat /\ Len(word.keys) - 1 \in Nat
  BY <1>1, WordLength, BoundAssumption DEF TypeOK
<1>3. /\ word.keys \in Text /\ text \in Text /\ Spelt(text) = Spelt(word.keys)
      /\ Spelt(word.keys) \in Seq(Glyph) /\ Len(Spelt(word.keys)) = Len(word.keys)
      /\ hist.text \in Text /\ Spelt(hist.text) \in Seq(Glyph) /\ Doc \in Seq(Glyph)
  <2>1. t \in Lang
    BY DEF Lang
  <2> QED BY <1>1, <2>1, Types, InSlotText, SpeltInSlot, SpeltOK
<1>4. hist'.text = hist.text /\ hist'.over = hist.over /\ hist'.pending.ok /\ hist'.pending.keys = text
  BY <1>1 DEF TypeOK, HistOK, History
<1>5. Spelt(Sentence') = Spelt(hist.text) \o Spelt(text)
  <2>1. Sentence' = hist.text \o text
    BY <1>4 DEF Sentence
  <2> HIDE DEF text
  <2> QED BY <1>3, <2>1, SpeltConcat
<1>6. n \in Nat /\ "none" # "enter"
  BY <1>2
<1>7. /\ EndsWith(Doc', Spelt(text) \o Gap("none")) /\ Doc' = Drop(Doc, n) \o (Spelt(text) \o Gap("none"))
      /\ Spelt(text) \o Gap("none") = Spelt(text)
  <2>1. EndsWith(Doc', Spelt(text) \o Gap("none")) /\ Doc' = Drop(Doc, n) \o (Spelt(text) \o Gap("none"))
    <3> HIDE DEF text, n
    <3> QED BY <1>1, <1>3, <1>6, UndoRecorded
  <2>2. Gap("none") = <<>>
    BY DEF Gap
  <2> HIDE DEF text
  <2> QED BY <1>3, <2>1, <2>2, ConcatEmptySeq
<1>8. ASSUME Followed
      PROVE  /\ EndsWith(Doc', Spelt(Sentence'))
             /\ Doc' = IF op.src = "letter" THEN Doc \o <<op.key>> ELSE Doc
  <2> DEFINE d == IF op.src = "letter" THEN Doc \o <<op.key>> ELSE Doc
  <2>1. d \in Seq(Glyph) /\ Drop(Doc, n) = Drop(d, Len(word.keys)) /\ Drop(d, 0) = d
    <3>1. CASE op.src = "letter"
      <4>1. op.key \in Glyph
        BY <1>1, <3>1, Types DEF Glyph
      <4>2. d \in Seq(Glyph) /\ n + 1 = Len(word.keys)
        <5>1. <<op.key>> \in Seq(Glyph)
          BY <4>1
        <5> QED BY <1>2, <1>3, <3>1, <5>1, ConcatProperties
      <4>3. Drop(Doc \o <<op.key>>, n + 1) = Drop(Doc, n)
        <5> HIDE DEF n
        <5> QED BY <1>3, <1>6, <4>1, DropTyped
      <4> QED BY <3>1, <4>2, <4>3, DropEnds
    <3>2. CASE op.src # "letter"
      BY <1>2, <1>3, <3>2, DropEnds
    <3> QED BY <3>1, <3>2
  <2>2. EndsWith(d, Spelt(hist.text) \o Spelt(word.keys))
    <3>1. ~Landed /\ (AwaitsLetter <=> op.src = "letter")
      BY <1>1 DEF Landed, AwaitsLetter, MaySend
    <3>2. EndsWith(Drop(d, 0), Spelt(Sentence))
      BY <1>1, <1>8, <3>1 DEF ScreenInv
    <3> HIDE DEF d
    <3> QED BY <1>1, <2>1, <3>2, WordAlone
  <2>3. EndsWith(Drop(d, Len(Spelt(word.keys))) \o Spelt(text), Spelt(hist.text) \o Spelt(text))
    <3> HIDE DEF d, text
    <3> QED BY <1>3, <2>1, <2>2, EndsReplaced
  <2>4. Doc' = d
    <3> HIDE DEF d, text, n
    <3>1. EndsWith(d, Spelt(word.keys))
      BY <1>3, <2>1, <2>2, EndsSuffix
    <3>2. d = Drop(d, Len(Spelt(word.keys))) \o Spelt(word.keys)
      BY <1>3, <2>1, <3>1, EndsSplit
    <3> QED BY <1>3, <1>7, <2>1, <3>2
  <2>5. EndsWith(Doc', Spelt(Sentence'))
    <3> HIDE DEF d, text, n
    <3> QED BY <1>3, <1>5, <1>7, <2>1, <2>3
  <2> QED BY <2>4, <2>5
<1>9. undo'.replacement = text /\ undo'.b = "none"
  BY <1>1 DEF Record
<1>10. ~untrusted /\ (hist'.over => hist'.text = <<>>)
  BY <1>1, <1>4, WordAlone DEF RecordsInv
<1> HIDE DEF text, n
<1> QED BY <1>1, <1>7, <1>8, <1>9, <1>10, Replaced

\* What a history says that was pushed onto, when no word is begun.
LEMMA PushedRecords ==
  ASSUME TypeOK', word' = NoWord, ~hist'.pending.ok
  PROVE  Sentence' = hist'.text
<1>1. Sentence' = hist'.text \o <<>>
  BY DEF Sentence, NoWord
<1> QED BY <1>1, NextTypes, ConcatEmptySeq DEF Text

\* Deleting what is there and typing it again, and then a key, is typing the key.
LEMMA Retyped ==
  ASSUME NEW s \in Seq(Glyph), NEW t \in Seq(Glyph), NEW c \in Seq(Glyph), EndsWith(s, t)
  PROVE  Drop(s, Len(t)) \o (t \o c) = s \o c
<1>1. Drop(s, Len(t)) \in Seq(Glyph) /\ s = Drop(s, Len(t)) \o t
  BY EndsSplit
<1>2. ASSUME NEW p \in Seq(Glyph) PROVE (p \o t) \o c = p \o (t \o c)
  BY ConcatAssociative
<1> QED BY <1>1, <1>2

\* A correction at a boundary shows as the key that ended the word, and nothing else.
JustTyped == Followed /\ op.key # "enter" => Doc' = Doc \o Gap(op.key)

\* A correction at a boundary: what is typed for the end of the sentence is what the
\* history records of it.
LEMMA CorrectedAtBoundary ==
  ASSUME EngineInv, TypeOK', MaySend, Sent, op.src = "boundary", word' = NoWord, word.keys # <<>>,
         word.over = 0, NEW h, HistOK(h), h.over => h.text = <<>>, ~h.pending.ok,
         NEW before \in Text, NEW old \in Text, NEW new \in Text, NEW keys \in Text, NEW lang,
         Spelt(hist.text) \o Spelt(word.keys) = Spelt(before) \o Spelt(old),
         Spelt(h.text) \o Spelt(keys) = Spelt(before) \o Spelt(new),
         Inject(Len(old), new, op.key, lang), hist' = Push(h, keys, op.key),
         undo'.replacement = new, undo'.b = op.key, Spelt(new) = Spelt(old)
  PROVE  EngineInv' /\ JustTyped
<1>1. TypeOK /\ RecordsInv /\ ScreenInv /\ Doc \in Seq(Glyph) /\ Doc' \in Seq(Glyph)
  BY Types, NextTypes DEF EngineInv
<1>2. /\ Spelt(before) \in Seq(Glyph) /\ Spelt(old) \in Seq(Glyph) /\ Spelt(new) \in Seq(Glyph)
      /\ Spelt(h.text) \in Seq(Glyph) /\ Spelt(keys) \in Seq(Glyph) /\ Len(Spelt(old)) = Len(old)
      /\ Len(old) \in Nat /\ h.text \in Text
  <2>1. h.text \in Text
    BY DEF HistOK, History
  <2> QED BY <2>1, SpeltOK, LenProperties DEF Text
<1>3. ASSUME Followed PROVE EndsWith(Doc, Spelt(before) \o Spelt(old))
  <2>1. ~AwaitsLetter /\ ~Landed
    BY DEF AwaitsLetter, Landed, MaySend
  <2>2. EndsWith(Drop(Doc, 0), Spelt(Sentence)) /\ Drop(Doc, 0) = Doc
    BY <1>1, <1>3, <2>1, DropEnds DEF ScreenInv
  <2> QED BY <1>1, <2>2, WordAlone
<1>4. op.key # "enter" => EndsWith(Doc', Spelt(new) \o Gap(op.key))
                          /\ Doc' = Drop(Doc, Len(old)) \o (Spelt(new) \o Gap(op.key))
  BY <1>1, <1>2, UndoRecorded
<1>5. ASSUME Followed, op.key \in {"space", "half"}
      PROVE  EndsWith(Doc', Spelt(h.text) \o (Spelt(keys) \o <<"space">>))
  <2>1. Gap(op.key) = <<"space">> /\ <<"space">> \in Seq(Glyph)
    <3>1. Gap(op.key) = <<"space">>
      BY <1>5 DEF Gap
    <3> QED BY <3>1, GapOK
  <2>2. Spelt(new) \o <<"space">> \in Seq(Glyph)
    BY <1>2, <2>1, ConcatProperties
  <2>3. EndsWith(Drop(Doc, Len(Spelt(old))) \o (Spelt(new) \o <<"space">>),
                 Spelt(before) \o (Spelt(new) \o <<"space">>))
    BY <1>1, <1>2, <1>3, <1>5, <2>2, EndsReplaced
  <2>4. ASSUME NEW a \in Seq(Glyph), NEW b \in Seq(Glyph)
        PROVE  (a \o b) \o <<"space">> = a \o (b \o <<"space">>)
    BY <2>1, ConcatAssociative
  <2>5. Spelt(before) \o (Spelt(new) \o <<"space">>) = Spelt(h.text) \o (Spelt(keys) \o <<"space">>)
    <3>1. (Spelt(before) \o Spelt(new)) \o <<"space">> = Spelt(before) \o (Spelt(new) \o <<"space">>)
      BY <1>2, <2>4
    <3>2. (Spelt(h.text) \o Spelt(keys)) \o <<"space">> = Spelt(h.text) \o (Spelt(keys) \o <<"space">>)
      BY <1>2, <2>4
    <3> QED BY <3>1, <3>2
  <2> QED BY <1>2, <1>4, <1>5, <2>1, <2>3, <2>5
<1>6. ~hist'.pending.ok /\ (hist'.over => hist'.text = <<>>)
      /\ (Followed => EndsWith(Doc', Spelt(hist'.text)))
  <2>1. CASE Followed
    BY <1>1, <1>5, <2>1, PushedSentence
  <2>2. CASE ~Followed
    BY <2>2, PushedShape
  <2> QED BY <2>1, <2>2
<1>7. Sentence' = hist'.text /\ ~untrusted
  BY <1>1, <1>6, PushedRecords, WordAlone
<1>8. EngineInv'
  BY <1>4, <1>6, <1>7, Replaced
<1>9. ASSUME Followed, op.key # "enter" PROVE Doc' = Doc \o Gap(op.key)
  <2>1. EndsWith(Doc, Spelt(old))
    BY <1>1, <1>2, <1>3, <1>9, EndsSuffix
  <2>2. Gap(op.key) \in Seq(Glyph)
    BY GapOK
  <2>3. Drop(Doc, Len(Spelt(old))) \o (Spelt(old) \o Gap(op.key)) = Doc \o Gap(op.key)
    BY <1>1, <1>2, <2>1, <2>2, Retyped
  <2> QED BY <1>2, <1>4, <1>9, <2>3
<1> QED BY <1>8, <1>9 DEF JustTyped

\* The correction of one word.
LEMMA WordCorrection ==
  ASSUME EngineInv, TypeOK', NEW t \in Slots, CorrectAtBoundary(t)
  PROVE  EngineInv' /\ JustTyped
<1> DEFINE w == Settled(word)
           text == InSlot(w.keys, t)
<1>1. /\ TypeOK /\ RecordsInv /\ MaySend /\ Sent /\ op.src = "boundary" /\ word' = NoWord
      /\ Correctable(w) /\ Inject(Len(w.keys), text, op.key, t)
      /\ undo' = Record(Visible(w), text, op.key, WordLayout(w)) /\ hist' = Push(hist, text, op.key)
  BY DEF EngineInv, CorrectAtBoundary, Offered
<1>2. w.keys = word.keys /\ w.over = word.over /\ w.skip = word.skip
  BY <1>1, SettledSame DEF TypeOK
<1>3. word.keys # <<>> /\ word.over = 0
  <2> HIDE DEF w
  <2> QED BY <1>1, <1>2 DEF Correctable
<1>4. /\ word.keys \in Text /\ text \in Text /\ Spelt(text) = Spelt(word.keys) /\ hist.text \in Text
  <2>1. t \in Lang
    BY DEF Lang
  <2> HIDE DEF w
  <2> QED BY <1>1, <1>2, <2>1, Types, InSlotText, SpeltInSlot
<1>5. HistOK(hist) /\ (hist.over => hist.text = <<>>) /\ ~hist.pending.ok
  BY <1>1, <1>3, WordAlone DEF RecordsInv, TypeOK
<1>6. undo'.replacement = text /\ undo'.b = op.key
  BY <1>1 DEF Record
<1> HIDE DEF w, text
<1> QED BY <1>1, <1>2, <1>3, <1>4, <1>5, <1>6, CorrectedAtBoundary

\* The correction of a phrase: the end of the history is rewritten with the word.
LEMMA PhraseCorrection ==
  ASSUME EngineInv, TypeOK', NEW t \in Slots, NEW from \in WordStarts(hist.text), CorrectPhrase(from, t)
  PROVE  EngineInv' /\ JustTyped
<1> DEFINE w == Settled(word)
           head == SubSeq(hist.text, 1, from - 1)
           tail == SubSeq(hist.text, from, Len(hist.text))
           seen == InSlot(w.keys, w.lang)
           old == tail \o seen
           kept == [hist EXCEPT !.text = head \o InSlot(tail, t)]
           keys == InSlot(w.keys, t)
<1>1. /\ TypeOK /\ RecordsInv /\ MaySend /\ Sent /\ op.src = "boundary" /\ word' = NoWord
      /\ Correctable(w) /\ Inject(Len(old), InSlot(old, t), op.key, t)
      /\ undo' = Record(old, InSlot(old, t), op.key, Other(t)) /\ hist' = Push(kept, keys, op.key)
  BY DEF EngineInv, CorrectPhrase
<1>2. w.keys = word.keys /\ w.over = word.over /\ w.skip = word.skip /\ WordOK(w)
  BY <1>1, SettledSame, SettledOK DEF TypeOK
<1>3. word.keys # <<>> /\ word.over = 0 /\ w.lang \in Slots
  <2> HIDE DEF w
  <2> QED BY <1>1, <1>2 DEF Correctable, WordOK
<1>4. t \in Lang /\ w.lang \in Lang
  BY <1>3 DEF Lang
<1>5. /\ word.keys \in Text /\ seen \in Text /\ Spelt(seen) = Spelt(word.keys)
      /\ keys \in Text /\ Spelt(keys) = Spelt(word.keys) /\ hist.text \in Text
  <2> HIDE DEF w
  <2> QED BY <1>1, <1>2, <1>4, Types, InSlotText, SpeltInSlot
<1>6. from \in 1..Len(hist.text)
  <2>1. DOMAIN hist.text = 1..Len(hist.text)
    BY <1>5, LenProperties DEF Text
  <2> QED BY <2>1 DEF WordStarts
<1>7. head \in Text /\ tail \in Text /\ Spelt(hist.text) = Spelt(head) \o Spelt(tail)
  BY <1>5, <1>6, SpeltParts
<1> HIDE DEF head, tail, seen, keys
<1>8. InSlot(tail, t) \in Text /\ Spelt(InSlot(tail, t)) = Spelt(tail)
      /\ Len(InSlot(tail, t)) = Len(tail)
  BY <1>4, <1>7, InSlotText, SpeltInSlot
<1>9. old \in Text /\ Spelt(old) = Spelt(tail) \o Spelt(seen)
  BY <1>5, <1>7, TextConcat, SpeltConcat
<1>10. InSlot(old, t) \in Text /\ Spelt(InSlot(old, t)) = Spelt(old)
  <2> HIDE DEF old
  <2> QED BY <1>4, <1>9, InSlotText, SpeltInSlot
<1>11. ASSUME NEW a \in Seq(Glyph), NEW b \in Seq(Glyph), NEW c \in Seq(Glyph)
       PROVE  (a \o b) \o c = a \o (b \o c)
  BY ConcatAssociative
<1>12. /\ Spelt(head) \in Seq(Glyph) /\ Spelt(tail) \in Seq(Glyph) /\ Spelt(seen) \in Seq(Glyph)
  BY <1>5, <1>7, SpeltOK
<1>13. Spelt(hist.text) \o Spelt(word.keys) = Spelt(head) \o Spelt(old)
  <2> HIDE DEF old
  <2> QED BY <1>5, <1>7, <1>9, <1>11, <1>12
<1>14. HistOK(hist) /\ (hist.over => hist.text = <<>>) /\ ~hist.pending.ok
  BY <1>1, <1>3, WordAlone DEF RecordsInv, TypeOK
<1>15. /\ kept.text = head \o InSlot(tail, t) /\ kept.over = hist.over /\ kept.pending = hist.pending
       /\ kept.text \in Text /\ Spelt(kept.text) = Spelt(head) \o Spelt(tail)
  <2>1. kept.text = head \o InSlot(tail, t) /\ kept.over = hist.over /\ kept.pending = hist.pending
    BY <1>14 DEF HistOK, History
  <2> HIDE DEF kept
  <2> QED BY <1>7, <1>8, <2>1, TextConcat, SpeltConcat
<1>16. HistOK(kept)
  <2>1. Len(head \o InSlot(tail, t)) = Len(hist.text)
    <3>1. Len(head) = from - 1 /\ Len(tail) = Len(hist.text) - from + 1 /\ Len(hist.text) \in Nat
      BY <1>5, <1>6, PartOK, LenProperties DEF Text, head, tail
    <3>2. Len(head \o InSlot(tail, t)) = Len(head) + Len(InSlot(tail, t))
      BY <1>7, <1>8, TextConcat
    <3> QED BY <1>6, <1>8, <3>1, <3>2
  <2>2. head \o InSlot(tail, t) \in Text /\ Len(hist.text) <= MaxHistoryChars + 1
    BY <1>7, <1>8, <1>14, TextConcat DEF HistOK
  <2> QED BY <1>14, <2>1, <2>2, TextChange
<1>17. kept.over => kept.text = <<>>
  <2>1. hist.over => hist.text = <<>>
    BY <1>14
  <2>2. hist.text # <<>>
    BY <1>5, <1>6, EmptySeq DEF Text
  <2> HIDE DEF kept
  <2> QED BY <1>15, <2>1, <2>2
<1>18. Spelt(kept.text) \o Spelt(keys) = Spelt(head) \o Spelt(InSlot(old, t))
  <2> HIDE DEF kept, old
  <2> QED BY <1>5, <1>9, <1>10, <1>11, <1>12, <1>15
<1>19. undo'.replacement = InSlot(old, t) /\ undo'.b = op.key /\ ~kept.pending.ok
  <2> HIDE DEF kept, old
  <2> QED BY <1>1, <1>14, <1>15 DEF Record
<1> DEFINE new == InSlot(old, t)
<1>20. new \in Text /\ Spelt(kept.text) \o Spelt(keys) = Spelt(head) \o Spelt(new) /\ Spelt(new) = Spelt(old)
       /\ Inject(Len(old), new, op.key, t) /\ undo'.replacement = new
  BY <1>1, <1>10, <1>18, <1>19
<1> HIDE DEF kept, old, new, w
<1> QED BY <1>1, <1>3, <1>5, <1>7, <1>9, <1>13, <1>16, <1>17, <1>19, <1>20, CorrectedAtBoundary

\* A snippet, a learned repair or a spelling fix: nothing of the sentence is kept.
LEMMA TextReplaced ==
  ASSUME EngineInv, TypeOK', RewriteWord
  PROVE  EngineInv'
<1> DEFINE w == Settled(word)
           text == <<Letter("mark", w.lang), Letter("mark", w.lang)>>
<1>1. /\ TypeOK /\ RecordsInv /\ MaySend /\ Sent /\ word' = NoWord /\ hist' = NoHist
      /\ Correctable(w) /\ Inject(Len(w.keys), text, op.key, w.lang)
      /\ undo' \in {NoUndo, Record(InSlot(w.keys, w.lang), text, op.key, w.lang)}
  BY DEF EngineInv, RewriteWord
<1>2. w.keys = word.keys /\ WordOK(w)
  BY <1>1, SettledSame, SettledOK DEF TypeOK
<1>3. word.keys # <<>> /\ w.lang \in Slots
  <2> HIDE DEF w
  <2> QED BY <1>1, <1>2 DEF Correctable, WordOK
<1>4. text \in Text
  <2> HIDE DEF w
  <2>1. Letter("mark", w.lang) \in Char
    BY <1>3 DEF Letter, Char
  <2> QED BY <2>1 DEF Text
<1>5. Len(w.keys) \in Nat
  <2> HIDE DEF w
  <2> QED BY <1>2, LettersOfWord
<1>6. op.key # "enter" => EndsWith(Doc', Spelt(text) \o Gap(op.key))
  <2> HIDE DEF w, text
  <2> QED BY <1>1, <1>4, <1>5, UndoRecorded
<1>7. undo'.ok => undo'.replacement = text /\ undo'.b = op.key
  BY <1>1 DEF Record, NoUndo
<1>8. Sentence' = <<>> /\ EndsWith(Doc', Spelt(<<>>)) /\ ~hist'.over /\ ~untrusted
  <2>1. hist'.text = <<>> /\ ~hist'.pending.ok /\ ~hist'.over
    BY <1>1 DEF NoHist, NoPending
  <2> QED BY <1>1, <1>3, <2>1, PushedRecords, WordAlone, NextTypes, SpeltNothing, EndsEmpty
<1> HIDE DEF w, text
<1> QED BY <1>1, <1>6, <1>7, <1>8, Replaced

\* Undo: the original is typed again, and nothing is kept.
LEMMA Restored ==
  ASSUME EngineInv, TypeOK', Restore
  PROVE  EngineInv'
<1>1. /\ TypeOK /\ RecordsInv /\ MaySend /\ Sent /\ word' = word /\ hist' = NoHist /\ undo' = NoUndo
      /\ undo.ok
  BY DEF EngineInv, Restore, CanUndo
<1>2. word' = NoWord /\ ~untrusted
  BY <1>1 DEF RecordsInv
<1>3. ~undo'.ok /\ hist'.text = <<>> /\ ~hist'.pending.ok /\ ~hist'.over
  BY <1>1 DEF NoUndo, NoHist, NoPending
<1>4. EndsWith(Doc', Spelt(Sentence'))
  BY <1>2, <1>3, PushedRecords, NextTypes, SpeltNothing, EndsEmpty
<1> QED BY <1>1, <1>2, <1>3, <1>4, Replaced

-----------------------------------------------------------------------------
(* The end of an operation. *)

\* An interrupted operation leaves nothing; any other one its own records.
LEMMA Leaves ==
  ASSUME EngineInv, TypeOK', ~Idle, NEW w, NEW h, NEW u, NEW p, Leave(w, h, u, p)
  PROVE  /\ Cut => EngineInv'
         /\ ~Cut => /\ word' = w /\ hist' = h /\ undo' = u /\ prev' = p /\ dead' = 0
                    /\ untrusted' => untrusted /\ op.key \notin {"space", "half", "enter"}
         /\ OpInv' /\ op' = NoOp /\ ~AwaitsLetter' /\ ~Landed' /\ Idle'
<1>1. op' = NoOp /\ OpInv /\ dead = 0
  BY DEF Leave, EngineInv, OpInv
<1>2. op'.phase = "none" /\ ~op'.late /\ ~op'.keyCut /\ ~op'.reset
  BY <1>1 DEF NoOp
<1>3. OpInv' /\ ~AwaitsLetter' /\ ~Landed' /\ Idle' /\ ~Cut'
  BY <1>2 DEF OpInv, Idle, Cut, AwaitsLetter, Landed
<1>4. ASSUME Cut PROVE EngineInv'
  <2>1. word' = NoWord /\ hist' = NoHist /\ undo' = NoUndo /\ prev' = NoPrev
    BY <1>4 DEF Leave
  <2> QED BY <1>2, <1>3, <2>1, Forgotten DEF EngineInv
<1>5. ASSUME ~Cut
      PROVE  /\ word' = w /\ hist' = h /\ undo' = u /\ prev' = p /\ dead' = 0
             /\ untrusted' => untrusted /\ op.key \notin {"space", "half", "enter"}
  BY <1>1, <1>5 DEF Leave, Cut
<1> QED BY <1>1, <1>3, <1>4, <1>5

\* A letter lands, if it has not.
LEMMA LetterLands ==
  ASSUME EngineInv, TypeOK', FinishLetter
  PROVE  EngineInv'
<1>1. PICK armed \in BOOLEAN : /\ armed => Correctable(word)
                               /\ Leave([word EXCEPT !.armed = armed], hist, undo, prev)
  BY DEF FinishLetter
<1>2. /\ TypeOK /\ RecordsInv /\ OpInv /\ ScreenInv /\ op.phase = "eval" /\ op.src = "letter" /\ ~Idle
      /\ moved' = moved /\ Delivered /\ ~undo.ok /\ ~prev.ok /\ InHook /\ Doc \in Seq(Glyph)
      /\ op.key \in Keys
  BY Types DEF EngineInv, FinishLetter, Finishing, Idle, OpInv, InHook
<1>3. CASE Cut
  BY <1>1, <1>2, <1>3, Leaves
<1>4. CASE ~Cut
  <2>1. /\ word' = [word EXCEPT !.armed = armed] /\ hist' = hist /\ undo' = undo /\ prev' = prev
        /\ dead' = 0 /\ (untrusted' => untrusted) /\ OpInv' /\ ~AwaitsLetter' /\ ~Landed' /\ Idle'
    BY <1>1, <1>2, <1>4, Leaves
  <2>2. /\ word'.keys = word.keys /\ word'.over = word.over /\ word'.ctx = word.ctx
        /\ word'.skip = word.skip
    BY <1>2, <2>1 DEF TypeOK, WordOK, Word
  <2>3. word'.ctx \/ word' = NoWord
    <3>1. armed => word.keys # <<>>
      BY <1>1 DEF Correctable
    <3>2. CASE word = NoWord
      <4>1. armed = FALSE
        BY <1>1, <3>1, <3>2 DEF NoWord
      <4> QED BY <2>1, <3>2, <4>1 DEF NoWord
    <3> QED BY <1>2, <2>2, <3>2 DEF RecordsInv
  <2>4. RecordsInv'
    BY <1>2, <2>1, <2>2, <2>3 DEF RecordsInv
  <2>5. UndoInv' /\ PrevInv'
    BY <1>2, <2>1 DEF UndoInv, PrevInv
  <2>6. Sentence' = Sentence /\ (Followed' => Followed)
    BY <1>2, <1>4, <2>1, <2>2 DEF Sentence, Followed
  <2>7. ScreenInv'
    <3>1. CASE op.dead # 0
      <4>1. hist'.text = <<>> /\ ~hist'.pending.ok /\ word'.keys = <<>>
        BY <1>2, <2>1, <2>2, <3>1 DEF OpInv
      <4> QED BY <2>1, <4>1, NoSentence
    <3>2. CASE op.dead = 0 /\ op.late
      <4>1. Doc' = Doc /\ ~AwaitsLetter /\ ~Landed
        BY <1>2, <3>2 DEF Delivered, Doc, AwaitsLetter, Landed
      <4> QED BY <1>2, <2>1, <2>2, <2>6, <4>1 DEF ScreenInv
    <3>3. CASE op.dead = 0 /\ ~op.late
      <4>1. Doc' = Doc \o <<op.key>>
        BY <1>2, <3>3, Types, KeyLanded DEF Delivered
      <4>2. AwaitsLetter
        BY <1>2, <3>3 DEF AwaitsLetter
      <4> QED BY <1>2, <2>1, <2>2, <2>6, <4>1, <4>2 DEF ScreenInv
    <3> QED BY <1>2, <3>1, <3>2, <3>3, Types
  <2> QED BY <2>1, <2>4, <2>5, <2>7 DEF EngineInv
<1> QED BY <1>3, <1>4

\* A separator stands after the word it ends, whether it lands now or did before.
LEMMA SeparatorLands ==
  ASSUME EngineInv, TypeOK', op.phase = "eval", op.src = "boundary", Delivered, Followed,
         op.key \in {"space", "half"}, op.dead = 0, word.over = 0
  PROVE  EndsWith(Doc', Spelt(Sentence) \o <<"space">>)
<1>1. TypeOK /\ ScreenInv /\ Doc \in Seq(Glyph)
  BY Types DEF EngineInv
<1>2. CASE op.late
  <2>1. Landed /\ Doc' = Doc
    BY <1>2 DEF Landed, Delivered, Doc
  <2> QED BY <1>1, <2>1 DEF ScreenInv
<1>3. CASE ~op.late
  <2>1. ~Landed /\ ~AwaitsLetter
    BY <1>3 DEF Landed, AwaitsLetter
  <2>2. EndsWith(Doc, Spelt(Sentence))
    <3>1. EndsWith(Drop(Doc, 0), Spelt(Sentence))
      BY <1>1, <2>1 DEF ScreenInv
    <3> QED BY <1>1, <3>1, DropEnds
  <2>3. Doc' = Doc \o <<"space">>
    BY <1>1, <1>3, Types, KeyLanded DEF Delivered
  <2>4. Spelt(Sentence) \in Seq(Glyph) /\ <<"space">> \in Seq(Glyph)
    <3>1. Sentence \in Text
      BY <1>1, Types, TextConcat DEF Sentence
    <3>2. "space" \in Glyph
      BY DEF Glyph
    <3> QED BY <3>1, <3>2, SpeltOK
  <2> QED BY <1>1, <2>2, <2>3, <2>4, EndsGrown
<1> QED BY <1>2, <1>3

\* A boundary left as it is: the word it ends, or the one corrected before it, goes into
\* the history and may be reopened.
LEMMA BoundaryLands ==
  ASSUME EngineInv, TypeOK', FinishBoundary
  PROVE  EngineInv'
<1> DEFINE w == Settled(word)
           hadWord == w.keys # <<>> \/ w.over > 0
           commits == ~hadWord /\ hist.pending.ok /\ op.key \in {"space", "half"}
           tracked == Correctable(w) /\ ~w.mixed
           typed == InSlot(w.keys, w.lang)
           ended == IF commits THEN [NoPrev EXCEPT !.ok = TRUE, !.keys = hist.pending.keys,
                                                   !.lang = hist.pending.lang]
                    ELSE [NoPrev EXCEPT !.ok = TRUE, !.keys = typed, !.lang = w.lang]
           bare == [hist EXCEPT !.pending = NoPending]
           h == IF commits THEN Push(bare, hist.pending.keys, op.key)
                ELSE IF tracked THEN Push(hist, typed, op.key) ELSE NoHist
<1>1. PICK p \in {NoPrev} \cup (IF (commits \/ tracked) /\ op.key \in {"space", "half"}
                                THEN {ended} ELSE {}) : Leave(NoWord, h, undo, p)
  BY Zenon DEF FinishBoundary
<1>2. /\ TypeOK /\ RecordsInv /\ OpInv /\ op.phase = "eval" /\ op.src = "boundary" /\ ~Idle
      /\ moved' = moved /\ Delivered /\ ~undo.ok /\ Doc' \in Seq(Glyph) /\ hist.text \in Text
      /\ hist.pending.keys \in Text /\ word.keys \in Text /\ HistOK(hist)
  BY Types, NextTypes DEF EngineInv, FinishBoundary, Finishing, Idle, OpInv, TypeOK
<1>3. w.keys = word.keys /\ w.over = word.over /\ WordOK(w) /\ w.over \in Nat
  BY <1>2, SettledSame, SettledOK DEF TypeOK, WordOK, Word
<1>4. CASE Cut
  <2> HIDE DEF h
  <2> QED BY <1>1, <1>2, <1>4, Leaves
<1>5. CASE ~Cut
  <2>1. /\ word' = NoWord /\ hist' = h /\ undo' = undo /\ prev' = p
        /\ dead' = 0 /\ (untrusted' => untrusted) /\ OpInv' /\ ~AwaitsLetter' /\ ~Landed' /\ Idle'
    <3> HIDE DEF h
    <3> QED BY <1>1, <1>2, <1>5, Leaves
  <2>2. Followed' = Followed
    <3>1. ~Cut'
      BY <2>1, <1>2 DEF OpInv
    <3> QED BY <1>2, <1>5, <3>1 DEF Followed
  <2>3. Drop(Doc', 0) = Doc' /\ EndsWith(Doc', <<>>) /\ Spelt(<<>>) = <<>> /\ word'.over = 0
    BY <1>2, <2>1, DropEnds, EndsEmpty, SpeltNothing DEF NoWord
  <2>4. CASE commits
    <3>1. word.keys = <<>> /\ word.over = 0 /\ hist.pending.ok /\ op.key \in {"space", "half"}
      <4> HIDE DEF w
      <4> QED BY <1>3, <2>4
    <3>2. op.dead = 0 /\ ~untrusted
      BY <1>2, <3>1 DEF OpInv, RecordsInv
    <3>3. /\ bare.text = hist.text /\ bare.over = hist.over /\ ~bare.pending.ok /\ HistOK(bare)
      BY <1>2, NothingOK, PendingChange DEF HistOK, History, NoPending
    <3>4. Followed => EndsWith(Doc', Spelt(hist.text) \o (Spelt(hist.pending.keys) \o <<"space">>))
      <4>1. Followed => EndsWith(Doc', (Spelt(hist.text) \o Spelt(hist.pending.keys)) \o <<"space">>)
        <5>1. Sentence = hist.text \o hist.pending.keys
          BY <3>1 DEF Sentence
        <5> QED BY <1>2, <3>1, <3>2, <5>1, SeparatorLands, SpeltConcat
      <4>2. <<"space">> \in Seq(Glyph) /\ Spelt(hist.text) \in Seq(Glyph) /\ Spelt(hist.pending.keys) \in Seq(Glyph)
        <5>1. "space" \in Glyph
          BY DEF Glyph
        <5> QED BY <1>2, <5>1, SpeltOK
      <4>3. (Spelt(hist.text) \o Spelt(hist.pending.keys)) \o <<"space">>
              = Spelt(hist.text) \o (Spelt(hist.pending.keys) \o <<"space">>)
        BY <4>2, ConcatAssociative
      <4> QED BY <4>1, <4>3
    <3>5. hist' = Push(bare, hist.pending.keys, op.key) /\ (bare.over => bare.text = <<>>)
      <4>1. hist.over => hist.text = <<>>
        BY <1>2 DEF RecordsInv
      <4> HIDE DEF bare, w
      <4> QED BY <2>1, <2>4, <3>3, <4>1
    <3>6. ~hist'.pending.ok /\ (hist'.over => hist'.text = <<>>)
          /\ (Followed => EndsWith(Doc', Spelt(hist'.text)))
      <4> HIDE DEF bare
      <4>1. CASE Followed
        BY <1>2, <3>3, <3>4, <3>5, <4>1, PushedSentence
      <4>2. CASE ~Followed
        BY <3>3, <3>5, <4>2, PushedShape
      <4> QED BY <4>1, <4>2
    <3>7. p.ok => p.keys = hist.pending.keys
      <4>1. ~NoPrev.ok /\ (commits => ended.keys = hist.pending.keys)
        BY DEF NoPrev
      <4> HIDE DEF ended, commits
      <4> QED BY <1>1, <2>4, <4>1
    <3>8. RecordsInv' /\ UndoInv'
      BY <1>2, <2>1, <3>2, <3>6 DEF RecordsInv, UndoInv, NoWord
    <3>9. ScreenInv'
      BY <1>2, <2>1, <2>2, <2>3, <3>6, PushedRecords DEF ScreenInv
    <3>10. PrevInv'
      <4>1. Followed => EndsWith(Doc', Spelt(hist.pending.keys) \o <<"space">>)
        <5>1. Spelt(hist.pending.keys) \o <<"space">> \in Seq(Glyph) /\ Spelt(hist.text) \in Seq(Glyph)
          <6>1. "space" \in Glyph /\ Spelt(hist.pending.keys) \in Seq(Glyph)
            BY <1>2, SpeltOK DEF Glyph
          <6> QED BY <1>2, <6>1, SpeltOK, OneOff
        <5> QED BY <1>2, <3>4, <5>1, EndsSuffix
      <4> QED BY <2>1, <2>2, <3>7, <4>1 DEF PrevInv
    <3> QED BY <2>1, <3>8, <3>9, <3>10 DEF EngineInv
  <2>5. CASE ~commits /\ tracked
    <3>1. word.keys # <<>> /\ word.over = 0 /\ w.lang \in Lang
      <4> HIDE DEF w
      <4> QED BY <1>3, <2>5 DEF Correctable, WordOK, Word
    <3>2. op.dead = 0 /\ ~untrusted /\ ~hist.pending.ok /\ Spelt(Sentence) = Spelt(hist.text) \o Spelt(word.keys)
      BY <1>2, <3>1, WordAlone DEF OpInv
    <3>3. typed \in Text /\ Spelt(typed) = Spelt(word.keys)
      <4> HIDE DEF w
      <4> QED BY <1>2, <1>3, <3>1, InSlotText, SpeltInSlot
    <3>4. Followed /\ op.key \in {"space", "half"}
            => EndsWith(Doc', Spelt(hist.text) \o (Spelt(typed) \o <<"space">>))
      <4>1. Followed /\ op.key \in {"space", "half"}
              => EndsWith(Doc', (Spelt(hist.text) \o Spelt(word.keys)) \o <<"space">>)
        BY <1>2, <3>1, <3>2, SeparatorLands
      <4>2. <<"space">> \in Seq(Glyph) /\ Spelt(hist.text) \in Seq(Glyph) /\ Spelt(word.keys) \in Seq(Glyph)
        <5>1. "space" \in Glyph
          BY DEF Glyph
        <5> QED BY <1>2, <5>1, SpeltOK
      <4>3. (Spelt(hist.text) \o Spelt(word.keys)) \o <<"space">>
              = Spelt(hist.text) \o (Spelt(word.keys) \o <<"space">>)
        BY <4>2, ConcatAssociative
      <4> HIDE DEF typed
      <4> QED BY <3>3, <4>1, <4>3
    <3>5. hist' = Push(hist, typed, op.key) /\ (hist.over => hist.text = <<>>)
      <4>1. hist.over => hist.text = <<>>
        BY <1>2 DEF RecordsInv
      <4> HIDE DEF typed, commits, tracked
      <4> QED BY <2>1, <2>5, <4>1
    <3>6. ~hist'.pending.ok /\ (hist'.over => hist'.text = <<>>)
          /\ (Followed => EndsWith(Doc', Spelt(hist'.text)))
      <4> HIDE DEF typed
      <4>1. CASE Followed
        BY <1>2, <3>2, <3>3, <3>4, <3>5, <4>1, PushedSentence
      <4>2. CASE ~Followed
        BY <1>2, <3>2, <3>5, <4>2, PushedShape
      <4> QED BY <4>1, <4>2
    <3>7. p.ok => p.keys = typed /\ op.key \in {"space", "half"}
      <4>1. ~NoPrev.ok /\ (~commits => ended.keys = typed)
        BY DEF NoPrev
      <4> HIDE DEF ended, commits, typed
      <4> QED BY <1>1, <2>5, <4>1
    <3>8. RecordsInv' /\ UndoInv'
      BY <1>2, <2>1, <3>2, <3>6 DEF RecordsInv, UndoInv, NoWord
    <3>9. ScreenInv'
      BY <1>2, <2>1, <2>2, <2>3, <3>6, PushedRecords DEF ScreenInv
    <3>10. PrevInv'
      <4>1. Followed /\ op.key \in {"space", "half"} => EndsWith(Doc', Spelt(typed) \o <<"space">>)
        <5>1. Spelt(typed) \o <<"space">> \in Seq(Glyph) /\ Spelt(hist.text) \in Seq(Glyph)
          <6>1. "space" \in Glyph /\ Spelt(typed) \in Seq(Glyph)
            BY <3>3, SpeltOK DEF Glyph
          <6> QED BY <1>2, <6>1, SpeltOK, OneOff
        <5> HIDE DEF typed
        <5> QED BY <1>2, <3>4, <5>1, EndsSuffix
      <4> HIDE DEF typed
      <4> QED BY <2>1, <2>2, <3>7, <4>1 DEF PrevInv
    <3> QED BY <2>1, <3>8, <3>9, <3>10 DEF EngineInv
  <2>6. CASE ~commits /\ ~tracked
    <3>1. hist' = NoHist /\ p = NoPrev
      <4> HIDE DEF commits, tracked, ended
      <4> QED BY <1>1, <2>1, <2>6
    <3>2. ~hist'.pending.ok /\ hist'.text = <<>> /\ ~hist'.over /\ ~prev'.ok /\ word'.keys = <<>>
      BY <2>1, <3>1 DEF NoHist, NoPending, NoPrev, NoWord
    <3>3. RecordsInv' /\ UndoInv' /\ PrevInv' /\ ScreenInv'
      BY <1>2, <2>1, <3>2, NoSentence DEF RecordsInv, UndoInv, PrevInv, NoWord
    <3> QED BY <2>1, <3>3 DEF EngineInv
  <2> QED BY <2>4, <2>5, <2>6
<1> QED BY <1>4, <1>5

\* Undo that declined: its Backspace is an ordinary one, with no word to shorten.
LEMMA BackspaceLands ==
  ASSUME EngineInv, TypeOK', FinishBackspace
  PROVE  EngineInv'
<1>1. /\ TypeOK /\ RecordsInv /\ OpInv /\ op.phase = "eval" /\ op.src = "backspace" /\ ~Idle
  BY DEF EngineInv, FinishBackspace, Finishing, Idle
<1>2. CASE Cut
  <2>1. Leave(NoWord, NoHist, NoUndo, NoPrev)
    BY <1>2 DEF FinishBackspace
  <2> QED BY <1>1, <1>2, <2>1, Leaves
<1>3. CASE ~Cut
  <2>1. PlainBackspace /\ op' = NoOp
    BY <1>3 DEF FinishBackspace
  <2>2. word = NoWord /\ ~prev.ok
    BY <1>1 DEF OpInv, RecordsInv
  <2>3. FoundWord = NoWord
    BY <1>1, <2>2, Found
  <2>4. NoWord.keys = <<>> /\ NoWord.over = 0
    BY DEF NoWord
  <2>5. Erased(NoWord) = NoWord
    BY <2>4 DEF Erased
  <2>6. word' = NoWord /\ hist' = NoHist /\ undo' = NoUndo /\ prev' = NoPrev
    BY <2>1, <2>2, <2>3, <2>4, <2>5 DEF PlainBackspace
  <2>7. op'.phase = "none" /\ ~Cut' /\ ~op'.late
    BY <2>1 DEF NoOp, Cut
  <2> QED BY <2>6, <2>7, Forgotten DEF EngineInv
<1> QED BY <1>2, <1>3

\* An operation that ends with the text and the records as they are.
LEMMA Settles ==
  ASSUME EngineInv, TypeOK', ~Idle, ~Cut, ~AwaitsLetter, ~op.late, UNCHANGED <<screen, moved>>,
         NEW u, NEW p, Leave(word, hist, u, p), u = undo \/ ~u.ok, ~p.ok
  PROVE  EngineInv'
<1>1. /\ word' = word /\ hist' = hist /\ undo' = u /\ prev' = p /\ dead' = 0
      /\ (untrusted' => untrusted) /\ OpInv' /\ op' = NoOp /\ ~AwaitsLetter' /\ ~Landed' /\ Idle'
  BY Leaves
<1>2. RecordsInv'
  BY <1>1 DEF EngineInv, RecordsInv
<1>3. Followed' = Followed /\ Sentence' = Sentence /\ Doc' = Doc /\ ~Landed
  BY <1>1 DEF Followed, Sentence, Doc, Landed, Cut, NoOp
<1>4. ScreenInv'
  BY <1>1, <1>3, SameSentence
<1>5. UndoInv' /\ PrevInv'
  BY <1>1, <1>3 DEF EngineInv, UndoInv, PrevInv
<1> QED BY <1>1, <1>2, <1>4, <1>5 DEF EngineInv

\* A pause or an Undo by hotkey that declined, and the end of a replacement.
LEMMA OthersEnd ==
  ASSUME EngineInv, TypeOK', FinishTimer \/ FinishSent
  PROVE  EngineInv'
<1>1. /\ OpInv /\ ~Idle /\ UNCHANGED <<screen, moved>>
      /\ \/ op.phase = "sent" \/ op.src \in {"idle", "hotkey"}
  BY DEF EngineInv, FinishTimer, FinishSent, Finishing, Idle
<1>2. ~AwaitsLetter /\ ~op.late /\ ~prev.ok /\ ~NoPrev.ok /\ ~NoUndo.ok
  BY <1>1 DEF OpInv, AwaitsLetter, InHook, NoPrev, NoUndo
<1>3. PICK u \in {undo, NoUndo}, p \in {prev, NoPrev} : Leave(word, hist, u, p)
  BY DEF FinishTimer, FinishSent
<1>4. CASE Cut
  BY <1>1, <1>3, <1>4, Leaves
<1>5. CASE ~Cut
  BY <1>1, <1>2, <1>3, <1>5, Settles
<1> QED BY <1>4, <1>5

-----------------------------------------------------------------------------
(* The invariant, and the two theorems. *)

\* The engine starts with nothing recorded and nothing on the screen.
LEMMA InitEngine == Init => EngineInv
<1> SUFFICES ASSUME Init PROVE EngineInv
  OBVIOUS
<1>1. TypeOK
  BY InitOK
<1>2. /\ word = NoWord /\ hist = NoHist /\ undo = NoUndo /\ prev = NoPrev /\ op = NoOp
      /\ untrusted = FALSE /\ dead = 0 /\ screen = <<>>
  BY DEF Init
<1>3. RecordsInv /\ OpInv /\ UndoInv /\ PrevInv /\ ~AwaitsLetter /\ ~Landed
  BY <1>2 DEF RecordsInv, OpInv, UndoInv, PrevInv, AwaitsLetter, Landed, Idle, Cut,
              NoWord, NoHist, NoPending, NoUndo, NoPrev, NoOp
<1>4. ScreenInv
  <2>1. Sentence = <<>>
    BY <1>2 DEF Sentence, NoWord, NoHist, NoPending
  <2>2. Drop(Doc, word.over) \in Seq(Glyph)
    <3>1. word.over = 0 /\ Doc \in Seq(Glyph)
      BY <1>1, <1>2, Types DEF NoWord
    <3> QED BY <3>1, DropEnds
  <2>3. EndsWith(Drop(Doc, word.over), Spelt(Sentence))
    BY <2>1, <2>2, SpeltNothing, EndsEmpty
  <2> QED BY <1>3, <2>3 DEF ScreenInv
<1> QED BY <1>1, <1>3, <1>4 DEF EngineInv

\* No step of the engine or around it parts the records from the text, as long as the
\* Undo hotkey is not pressed in the middle of a word.
LEMMA ScreenStep == ~HotkeyInWord /\ EngineInv /\ [Next]_vars => EngineInv'
<1> SUFFICES ASSUME ~HotkeyInWord, EngineInv, [Next]_vars PROVE EngineInv'
  OBVIOUS
<1> USE TypeStep
<1>1. TypeOK'
  BY DEF EngineInv
<1>2. ASSUME NEW k \in Keys, LetterKey(k) PROVE EngineInv'
  BY <1>1, <1>2, LetterStep
<1>3. ASSUME NEW b \in Boundaries, BoundaryKey(b) PROVE EngineInv'
  BY <1>1, <1>3, Boundary
<1>4. CASE BackspaceKey \/ UndoBackspace
  BY <1>1, <1>4, BackspaceStep, UndoStep
<1>5. CASE \/ \E kind \in 0..2 : UntrackedKey(kind)
           \/ NavigationKey \/ ShortcutKey \/ ForeignKey \/ Click \/ FocusEvent
  BY <1>1, <1>5, EndsEverything
<1>6. CASE UndoHotkey
  BY <1>1, <1>6, Hotkey
<1>7. ASSUME NEW to \in Layouts, ManualSwitch(to) PROVE EngineInv'
  BY <1>1, <1>7, SwitchByHand
<1>8. CASE RequestAges \/ UndoAges \/ LayoutArrives \/ FocusMoves \/ SwitchWindow \/ UNCHANGED vars
  BY <1>1, <1>8, Surroundings
<1>9. CASE HookTimesOut
  BY <1>1, <1>9, TimesOut
<1>10. CASE NestedKey \/ NestedClick \/ NestedFocusEvent
  BY <1>1, <1>10, Nested
<1>11. CASE Timer
  BY <1>1, <1>11, Timers DEF Timer
<1>12. ASSUME NEW t \in Slots, CorrectWhileTyping(t) PROVE EngineInv'
  BY <1>1, <1>12, LiveCorrection
<1>13. ASSUME NEW t \in Slots, CorrectAtBoundary(t) PROVE EngineInv'
  BY <1>1, <1>13, WordCorrection
<1>14. ASSUME NEW t \in Slots, NEW from \in WordStarts(hist.text), CorrectPhrase(from, t)
       PROVE  EngineInv'
  BY <1>1, <1>14, PhraseCorrection
<1>15. CASE RewriteWord \/ Restore
  BY <1>1, <1>15, TextReplaced, Restored
<1>16. CASE FinishLetter \/ FinishBoundary \/ FinishBackspace
  BY <1>1, <1>16, LetterLands, BoundaryLands, BackspaceLands
<1>17. CASE FinishTimer \/ FinishSent
  BY <1>1, <1>17, OthersEnd
<1> QED BY <1>2, <1>3, <1>4, <1>5, <1>6, <1>7, <1>8, <1>9, <1>10, <1>11, <1>12, <1>13, <1>14,
           <1>15, <1>16, <1>17
        DEF Next, Engine, Disturbance, Typing, Delay, Replacement, Finish

\* Between operations the engine's sentence is the text before the caret.
LEMMA ModelFromInv == EngineInv => ModelMatchesScreen
<1> SUFFICES ASSUME EngineInv, Idle, moved \in {"no", "seen"}
             PROVE  EndsWith(KeysOf(Drop(screen, word.over)),
                             KeysOf(Shown(hist.text \o IF hist.pending.ok THEN hist.pending.keys
                                                       ELSE word.keys)))
  BY DEF ModelMatchesScreen
<1>1. Followed /\ ~AwaitsLetter /\ ~Landed
  BY DEF EngineInv, OpInv, Followed, Idle, AwaitsLetter, Landed
<1>2. EndsWith(Drop(Doc, word.over), Spelt(Sentence))
  BY <1>1 DEF EngineInv, ScreenInv
<1>3. KeysOf(Drop(screen, word.over)) = Drop(Doc, word.over)
  BY Types, KeysOfDrop DEF EngineInv, Doc
<1> QED BY <1>2, <1>3 DEF Spelt, Sentence

\* While Undo is offered its replacement is the last thing before the caret.
LEMMA UndoFromInv == EngineInv => UndoMatchesScreen
<1> SUFFICES ASSUME EngineInv, Idle, moved = "no", undo.ok, undo.b # "enter"
             PROVE  EndsWith(KeysOf(screen),
                             KeysOf(Shown(undo.replacement) \o Delimiter(undo.b, undo.lang)))
  BY DEF UndoMatchesScreen
<1>1. Followed /\ ~op.late
  BY DEF EngineInv, OpInv, Followed, Idle
<1>2. EndsWith(Doc, Spelt(undo.replacement) \o Gap(undo.b))
  BY <1>1 DEF EngineInv, UndoInv
<1>3. Shown(undo.replacement) \in Seq(Shape) /\ Delimiter(undo.b, undo.lang) \in Seq(Shape)
  BY Types, ShownOK, DelimiterOK DEF EngineInv
<1>4. KeysOf(Shown(undo.replacement) \o Delimiter(undo.b, undo.lang))
        = Spelt(undo.replacement) \o Gap(undo.b)
  BY <1>3, KeysOfConcat, GapOK DEF Spelt
<1> QED BY <1>2, <1>4 DEF Doc

\* ModelMatchesScreen for every pair of layouts, every bound and every interleaving: what
\* the engine believes it may delete is what stands before the caret.  The hypothesis is
\* the open one: the hotkey that forgets the word and keeps the sentence is not pressed
\* in the middle of a word.
THEOREM SentenceOnScreen == ASSUME ~HotkeyInWord PROVE Spec => []ModelMatchesScreen
<1>1. EngineInv /\ [Next]_vars => EngineInv'
  BY ScreenStep
<1> QED BY <1>1, InitEngine, ModelFromInv, PTL DEF Spec

\* UndoMatchesScreen in the same generality: Undo deletes nothing but what the engine put
\* there, whatever happened since (try_undo).
THEOREM UndoOnScreen == ASSUME ~HotkeyInWord PROVE Spec => []UndoMatchesScreen
<1>1. EngineInv /\ [Next]_vars => EngineInv'
  BY ScreenStep
<1> QED BY <1>1, InitEngine, UndoFromInv, PTL DEF Spec

-----------------------------------------------------------------------------
(* The engine implements what the user is promised (TextEditor). *)

\* What an Undo record would type back: the keys it deletes, or the word that a snippet
\* or a spelling fix replaced.
Snippet == <<"mark", "mark">>
UndoKeys ==
  undo.ok =>
    \/ Spelt(undo.original) = Spelt(undo.replacement)
    \/ /\ Spelt(undo.replacement) = Snippet
       /\ Len(undo.original) \in 1..MaxWord /\ \A i \in 1..Len(undo.original) : undo.original[i].key \in Keys

\* The text of a snippet, as the model writes it.
LEMMA SnippetSpelt ==
  ASSUME NEW slot \in Slots
  PROVE  /\ <<Letter("mark", slot), Letter("mark", slot)>> \in Text
         /\ Spelt(<<Letter("mark", slot), Letter("mark", slot)>>) = Snippet
<1> DEFINE text == <<Letter("mark", slot), Letter("mark", slot)>>
<1>1. Letter("mark", slot) \in Char /\ Letter("mark", slot).key = "mark" /\ "mark" \in Glyph
  BY DEF Letter, Char, Glyph
<1>2. text \in Text /\ Len(text) = 2 /\ \A i \in 1..2 : text[i].key = "mark"
  BY <1>1 DEF Text
<1>3. Snippet \in Seq(Glyph) /\ Len(Snippet) = 2 /\ \A i \in 1..2 : Snippet[i] = "mark"
  BY <1>1 DEF Snippet
<1> HIDE DEF text
<1>4. Spelt(text) \in Seq(Glyph) /\ Len(Spelt(text)) = 2 /\ \A i \in 1..2 : Spelt(text)[i] = "mark"
  BY <1>2, SpeltOK
<1>5. Spelt(text) = Snippet
  BY <1>3, <1>4, SeqEqual
<1> QED BY <1>2, <1>5 DEF text

\* A word spelt in one slot is made of word keys.
LEMMA WordKept ==
  ASSUME NEW w, WordOK(w), w.keys # <<>>
  PROVE  /\ w.keys \in Text /\ w.lang \in Slots /\ Len(w.keys) \in 1..MaxWord
         /\ InSlot(w.keys, w.lang) \in Text /\ Spelt(InSlot(w.keys, w.lang)) = Spelt(w.keys)
         /\ Len(InSlot(w.keys, w.lang)) = Len(w.keys)
         /\ \A i \in 1..Len(w.keys) : w.keys[i].key \in Keys /\ InSlot(w.keys, w.lang)[i].key \in Keys
<1>1. w.keys \in Letters /\ w.lang \in Slots /\ Len(w.keys) \in Nat /\ Len(w.keys) <= MaxWord
        /\ \A i \in 1..Len(w.keys) : w.keys[i].key \in Keys
  BY LettersOfWord DEF WordOK
<1>2. w.keys \in Text /\ Len(w.keys) # 0
  BY <1>1, LettersAreText, EmptySeq DEF Letters
<1>3. w.lang \in Lang
  BY <1>1 DEF Lang
<1>4. Spelt(InSlot(w.keys, w.lang)) = Spelt(w.keys) /\ InSlot(w.keys, w.lang) \in Text
        /\ Len(InSlot(w.keys, w.lang)) = Len(w.keys)
  BY <1>2, <1>3, InSlotText, SpeltInSlot
<1>5. ASSUME NEW i \in 1..Len(w.keys)
      PROVE  w.keys[i].key \in Keys /\ InSlot(w.keys, w.lang)[i].key \in Keys
  <2>1. w.keys[i].key \in Keys
    BY <1>1
  <2>2. Spelt(w.keys)[i] = w.keys[i].key /\ Spelt(InSlot(w.keys, w.lang))[i] = InSlot(w.keys, w.lang)[i].key
    BY <1>2, <1>4, SpeltOK
  <2> QED BY <1>4, <2>1, <2>2
<1> QED BY <1>1, <1>2, <1>4, <1>5

\* A record is made by a correction, which keeps the keys, or by a rewritten word.
LEMMA UndoKeysStep ==
  ASSUME TypeOK, TypeOK', UndoKeys, [Next]_vars
  PROVE  UndoKeys'
<1>1. ASSUME undo'.original = undo.original, undo'.replacement = undo.replacement, undo'.ok => undo.ok
      PROVE  UndoKeys'
  BY <1>1 DEF UndoKeys
<1>2. ASSUME ~undo'.ok PROVE UndoKeys'
  BY <1>2 DEF UndoKeys
<1>3. ~NoUndo.ok
  BY DEF NoUndo
<1>4. ASSUME NEW t \in Slots, CorrectWhileTyping(t) PROVE UndoKeys'
  <2>1. word.keys # <<>> /\ WordOK(word) /\ t \in Lang
    BY <1>4 DEF CorrectWhileTyping, Offered, Correctable, TypeOK, Lang
  <2>2. Spelt(Visible(word)) = Spelt(word.keys) /\ Spelt(InSlot(word.keys, t)) = Spelt(word.keys)
    BY <2>1, WordKept, SpeltInSlot DEF Visible
  <2>3. undo'.original = Visible(word) /\ undo'.replacement = InSlot(word.keys, t)
    BY <1>4 DEF CorrectWhileTyping, Record
  <2> QED BY <2>2, <2>3 DEF UndoKeys
<1>5. ASSUME NEW t \in Slots, CorrectAtBoundary(t) PROVE UndoKeys'
  <2> DEFINE w == Settled(word)
  <2>1. w.keys # <<>> /\ WordOK(w) /\ t \in Lang
    BY <1>5, SettledOK DEF CorrectAtBoundary, Offered, Correctable, TypeOK, Lang
  <2>2. undo'.original = Visible(w) /\ undo'.replacement = InSlot(w.keys, t)
    BY <1>5 DEF CorrectAtBoundary, Record
  <2> HIDE DEF w
  <2>3. Spelt(Visible(w)) = Spelt(w.keys) /\ Spelt(InSlot(w.keys, t)) = Spelt(w.keys)
    BY <2>1, WordKept, SpeltInSlot DEF Visible
  <2> QED BY <2>2, <2>3 DEF UndoKeys
<1>6. ASSUME NEW t \in Slots, NEW from \in WordStarts(hist.text), CorrectPhrase(from, t)
      PROVE  UndoKeys'
  <2> DEFINE w == Settled(word)
             tail == SubSeq(hist.text, from, Len(hist.text))
             old == tail \o InSlot(w.keys, w.lang)
  <2>1. w.keys # <<>> /\ WordOK(w) /\ t \in Lang
    BY <1>6, SettledOK DEF CorrectPhrase, Correctable, TypeOK, Lang
  <2>2. undo'.original = old /\ undo'.replacement = InSlot(old, t)
    BY <1>6 DEF CorrectPhrase, Record
  <2>3. tail \in Text
    <3>1. hist.text \in Text /\ DOMAIN hist.text = 1..Len(hist.text)
      BY Types, LenProperties DEF Text
    <3>2. from \in 1..Len(hist.text)
      BY <3>1 DEF WordStarts
    <3> QED BY <3>1, <3>2, SpeltParts
  <2> HIDE DEF w, tail
  <2>4. old \in Text
    BY <2>1, <2>3, WordKept, TextConcat
  <2> HIDE DEF old
  <2>5. Spelt(InSlot(old, t)) = Spelt(old)
    BY <2>1, <2>4, SpeltInSlot
  <2> QED BY <2>2, <2>5 DEF UndoKeys
<1>7. ASSUME RewriteWord PROVE UndoKeys'
  <2> DEFINE w == Settled(word)
             text == <<Letter("mark", w.lang), Letter("mark", w.lang)>>
  <2>1. w.keys # <<>> /\ WordOK(w)
    BY <1>7, SettledOK DEF RewriteWord, Correctable, TypeOK
  <2>2. undo' \in {NoUndo, Record(InSlot(w.keys, w.lang), text, op.key, w.lang)}
    BY <1>7 DEF RewriteWord
  <2> HIDE DEF w
  <2>3. w.lang \in Slots
    BY <2>1, WordKept
  <2>4. Spelt(text) = Snippet
    BY <2>3, SnippetSpelt
  <2> HIDE DEF text
  <2>5. undo'.ok => undo'.original = InSlot(w.keys, w.lang) /\ undo'.replacement = text
    BY <1>3, <2>2 DEF Record
  <2> QED BY <2>1, <2>4, <2>5, WordKept DEF UndoKeys
<1>8. CASE UNCHANGED vars
  BY <1>1, <1>8 DEF vars
<1>9. CASE Typing
  BY <1>1, <1>2, <1>3, <1>9 DEF Typing, LetterKey, BoundaryKey, KeyDown, BackspaceKey, PlainBackspace, UndoBackspace
<1>10. CASE Disturbance
  BY <1>1, <1>2, <1>3, <1>10 DEF Disturbance, UntrackedKey, KeyDown, NavigationKey, ShortcutKey, UndoHotkey,
     ManualSwitch, ForeignKey, Click, FocusMoves, SwitchWindow, HookTimesOut, NestedKey, NestedClick, RecordsKept
<1>11. CASE Delay
  <2>1. CASE UndoAges
    <3>1. undo'.original = undo.original /\ undo'.replacement = undo.replacement /\ undo'.ok = undo.ok
      BY <2>1 DEF UndoAges, TypeOK, UndoOK, UndoRecord
    <3> QED BY <1>1, <3>1
  <2>2. CASE ~UndoAges
    BY <1>1, <1>2, <1>3, <1>11, <2>2 DEF Delay, RequestAges, LayoutArrives, FocusEvent, NestedFocusEvent, RecordsKept
  <2> QED BY <2>1, <2>2
<1>12. CASE Timer
  BY <1>1, <1>2, <1>3, <1>12 DEF Timer, IdleTimer, UndoTimer
<1>13. CASE Restore
  BY <1>2, <1>3, <1>13 DEF Restore
<1>14. CASE Finish
  <2>1. undo' = undo \/ undo' = NoUndo
    BY <1>14 DEF Finish, FinishLetter, FinishBoundary, FinishBackspace, FinishTimer, FinishSent, Leave, PlainBackspace
  <2> QED BY <1>1, <1>2, <1>3, <2>1
<1> QED BY <1>4, <1>5, <1>6, <1>7, <1>8, <1>9, <1>10, <1>11, <1>12, <1>13, <1>14
        DEF Next, Engine, Replacement

\* The abstract editor may add one key or two, take one back, clear the text, and after
\* focus has moved unnoticed do anything.
LEMMA EditorSteps ==
  ASSUME TypeOK
  PROVE  /\ \A c \in Glyph : Doc' = Doc \o <<c>> => Editor!Next
         /\ \A c \in Glyph : Doc' = Doc \o <<"mark", c>> => Editor!Next
         /\ Doc' = Doc \o <<"unread", "unread">> => Editor!Next
         /\ Doc' = Drop(Doc, 1) => Editor!Next
         /\ Doc' = <<>> => Editor!Next
         /\ moved = "element" => Editor!Next
<1>1. Editor!Characters = Glyph
  BY DEF Editor!Characters, Glyph
<1>2. ASSUME NEW c \in Glyph, Doc' = Doc \o <<c>> \/ Doc' = Doc \o <<"mark", c>> PROVE Editor!Type
  <2>1. <<c>> \in {<<x>> : x \in Editor!Characters} /\ <<"mark", c>> \in Editor!Pairs
    BY <1>1 DEF Editor!Pairs
  <2> QED BY <1>2, <2>1 DEF Editor!Type, Doc
<1>3. Doc' = Doc \o <<"unread", "unread">> => Editor!Type
  <2>1. <<"unread", "unread">> \in Editor!Pairs
    BY DEF Editor!Pairs
  <2> QED BY <2>1 DEF Editor!Type, Doc
<1>4. Doc' = <<>> => Editor!Leave
  BY DEF Editor!Leave, Doc
<1>5. Doc' = Drop(Doc, 1) => Editor!Erase \/ Editor!Leave
  <2>1. CASE Doc = <<>>
    <3>1. Drop(Doc, 1) = <<>>
      BY <2>1 DEF Drop
    <3> QED BY <1>4, <3>1
  <2>2. CASE Doc # <<>>
    BY <2>2 DEF Editor!Erase, Editor!Without, Doc, Drop
  <2> QED BY <2>1, <2>2
<1>6. moved = "element" => Editor!Lost
  BY DEF Editor!Lost
<1> QED BY <1>2, <1>3, <1>4, <1>5, <1>6 DEF Editor!Next

\* A step of the engine is a step of the editor, or none the user can see.
Shows == [Editor!Next]_<<KeysOf(screen), moved = "element">>

\* The two ways to show a step.
LEMMA Showing == /\ Editor!Next => Shows
                 /\ Doc' = Doc /\ (moved = "element" <=> moved' = "element") => Shows
<1>1. (moved = "element" <=> moved' = "element") => (moved = "element") = (moved = "element")'
  BY Zenon
<1> QED BY <1>1 DEF Shows, Doc

\* A character more, a character less, a cleared text.
LEMMA CharacterShows ==
  ASSUME TypeOK
  PROVE  /\ screen' = <<>> => Shows
         /\ screen' = Front(screen) => Shows
         /\ screen' = screen /\ moved' = moved => Shows
         /\ \A c \in Glyph : screen' = Append(screen, c) \/ screen' = screen \o <<c>> => Shows
<1>1. screen \in Seq(Shape) /\ Doc \in Seq(Glyph)
  BY Types
<1>2. ASSUME screen' = <<>> PROVE Shows
  <2>1. Doc' = <<>>
    BY <1>2, OneGlyph DEF Doc
  <2> QED BY <2>1, EditorSteps, Showing
<1>3. ASSUME screen' = Front(screen) PROVE Shows
  BY <1>1, <1>3, DocSteps, EditorSteps, Showing
<1>4. ASSUME screen' = screen, moved' = moved PROVE Shows
  BY <1>4, Showing DEF Doc
<1>5. ASSUME NEW c \in Glyph, screen' = Append(screen, c) \/ screen' = screen \o <<c>> PROVE Shows
  <2>1. <<c>> \in Seq(Shape) /\ c \in Shape /\ c # "zwnj"
    BY KeysAssumption DEF Glyph, Shape
  <2>2. screen' = screen \o <<c>>
    BY <1>1, <1>5, <2>1, AppendIsConcat
  <2>3. KeysOf(<<c>>) = <<c>>
    BY <2>1, OneGlyph
  <2>4. Doc' = Doc \o <<c>>
    BY <1>1, <2>1, <2>2, <2>3, DocSteps
  <2> QED BY <2>4, EditorSteps, Showing
<1> QED BY <1>2, <1>3, <1>4, <1>5

\* Two characters, one after the other.
LEMMA Two == ASSUME NEW x, NEW y PROVE <<x>> \o <<y>> = <<x, y>>
<1>1. <<x>> \in Seq({x, y}) /\ <<y>> \in Seq({x, y}) /\ Len(<<x>>) = 1 /\ Len(<<y>>) = 1
  OBVIOUS
<1>2. /\ <<x>> \o <<y>> \in Seq({x, y}) /\ Len(<<x>> \o <<y>>) = 2
      /\ (<<x>> \o <<y>>)[1] = x /\ (<<x>> \o <<y>>)[2] = y
  BY <1>1
<1>3. <<x, y>> \in Seq({x, y}) /\ Len(<<x, y>>) = 2 /\ <<x, y>>[1] = x /\ <<x, y>>[2] = y
  OBVIOUS
<1>4. \A i \in 1..2 : (<<x>> \o <<y>>)[i] = <<x, y>>[i]
  BY <1>2, <1>3
<1> QED BY <1>2, <1>3, <1>4, SeqEqual

\* Two keys at once are two characters: after a dead key, or of a ligature.
LEMMA PairShows ==
  ASSUME TypeOK
  PROVE  /\ \A c \in Shape : screen' = screen \o <<"mark", c>> => Shows
         /\ screen' = screen \o <<"unread", "unread">> => Shows
<1>1. ASSUME NEW x \in Shape, NEW y \in Shape, screen' = screen \o <<x, y>>, x # "zwnj"
      PROVE  Doc' = Doc \o <<x, IF y = "zwnj" THEN "space" ELSE y>>
  <2>1. /\ <<x>> \in Seq(Shape) /\ <<y>> \in Seq(Shape) /\ <<x, y>> \in Seq(Shape)
    OBVIOUS
  <2>2. KeysOf(<<x, y>>) = KeysOf(<<x>>) \o KeysOf(<<y>>)
    <3>1. KeysOf(<<x>> \o <<y>>) = KeysOf(<<x>>) \o KeysOf(<<y>>)
      BY <2>1, KeysOfConcat
    <3>2. <<x>> \o <<y>> = <<x, y>>
      BY Two
    <3> QED BY <3>1, <3>2
  <2> DEFINE z == IF y = "zwnj" THEN "space" ELSE y
  <2>3. KeysOf(<<x>>) = <<x>> /\ KeysOf(<<y>>) = <<z>> /\ z \in Glyph
    BY <1>1, OneGlyph DEF Glyph, Shape
  <2> HIDE DEF z
  <2>4. KeysOf(<<x, y>>) = <<x, z>>
    BY <2>2, <2>3, Two
  <2>5. Doc' = Doc \o <<x, z>>
    BY <1>1, <2>1, <2>4, Types, DocSteps
  <2> QED BY <2>5 DEF z
<1>2. ASSUME NEW c \in Shape, screen' = screen \o <<"mark", c>> PROVE Shows
  <2> DEFINE z == IF c = "zwnj" THEN "space" ELSE c
  <2>1. "mark" \in Shape /\ z \in Glyph
    BY DEF Shape, Glyph
  <2>2. Doc' = Doc \o <<"mark", z>>
    BY <1>1, <1>2, <2>1
  <2> HIDE DEF z
  <2> QED BY <2>1, <2>2, EditorSteps, Showing
<1>3. ASSUME screen' = screen \o <<"unread", "unread">> PROVE Shows
  <2>1. "unread" \in Shape
    BY DEF Shape
  <2>2. Doc' = Doc \o <<"unread", "unread">>
    BY <1>1, <1>3, <2>1
  <2> QED BY <2>2, EditorSteps, Showing
<1> QED BY <1>2, <1>3

\* The key of an operation shows as itself, after a dead key with a mark before it.
LEMMA LandingShows ==
  ASSUME TypeOK, InHook, KeyLands
  PROVE  Shows
<1>1. op.key \in Keys \cup {"space", "half", "stop", "enter", "back"}
  BY DEF InHook, TypeOK, OpOK, Boundaries
<1>2. CASE op.key = "enter"
  <2>1. screen' = <<>>
    BY <1>2 DEF KeyLands
  <2> QED BY <2>1, CharacterShows
<1>3. CASE op.key = "back"
  <2>1. screen' = Front(screen)
    BY <1>3 DEF KeyLands
  <2> QED BY <2>1, CharacterShows
<1>4. CASE op.key \notin {"enter", "back"}
  <2>1. PICK text \in Landing : screen' = screen \o text
    BY <1>4 DEF KeyLands
  <2>2. PICK x \in Shape : text \in {<<x>>, <<"mark">> \o <<x>>, <<"mark">>}
    <3>1. "space" \in Shape /\ "zwnj" \in Shape /\ "mark" \in Shape /\ (op.key \in Keys => op.key \in Shape)
      BY DEF Shape
    <3>2. <<"mark">> \o <<>> = <<"mark">>
      OBVIOUS
    <3> DEFINE plain == CASE op.key = "space" -> {<<"space">>}
                          [] op.key = "half" -> {<<IF s = Persian THEN "zwnj" ELSE "space">> : s \in Rendering}
                          [] op.key = "stop" -> {<<"mark">>}
                          [] OTHER -> {<<op.key>>}
    <3>3. \A p \in plain : \E x \in Shape : p = <<x>>
      BY <1>1, <1>4, <3>1
    <3>4. text \in plain \/ \E p \in plain \cup {<<>>} : text = <<"mark">> \o p
      BY <2>1 DEF Landing
    <3> HIDE DEF plain
    <3> QED BY <3>1, <3>2, <3>3, <3>4
  <2>3. screen' = screen \o <<x>> \/ screen' = screen \o <<"mark", x>> \/ screen' = screen \o <<"mark">>
    <3>1. <<"mark">> \o <<x>> = <<"mark", x>>
      BY Two
    <3> QED BY <2>1, <2>2, <3>1
  <2>4. "mark" \in Glyph /\ (x # "zwnj" => x \in Glyph)
    BY DEF Glyph, Shape
  <2>5. CASE x = "zwnj" /\ screen' = screen \o <<x>>
    <3>1. Doc' = Doc \o <<"space">> /\ "space" \in Glyph
      BY <2>5, OneGlyph, Types, DocSteps DEF Glyph
    <3> QED BY <3>1, EditorSteps, Showing
  <2> QED BY <2>3, <2>4, <2>5, CharacterShows, PairShows
<1> QED BY <1>2, <1>3, <1>4

\* Keys, clicks and focus show as what they are.
LEMMA OrdinaryShows ==
  ASSUME TypeOK, OpInv,
         \/ Typing \/ Disturbance \/ Delay \/ Timer \/ Finish \/ UNCHANGED vars
  PROVE  Shows
<1>1. /\ screen' = <<>> => Shows
      /\ screen' = Front(screen) => Shows
      /\ screen' = screen /\ moved' = moved => Shows
  BY CharacterShows
<1>2. "mark" \in Glyph /\ "unread" \in Glyph /\ \A k \in Keys : k \in Glyph
  BY DEF Glyph
<1>3. ASSUME screen' = Append(screen, "mark") \/ \E k \in Keys : screen' = Append(screen, k) PROVE Shows
  BY <1>2, <1>3, CharacterShows
<1>4. ASSUME screen' = screen, NoticeWindow PROVE Shows
  BY <1>4, Showing DEF NoticeWindow, Here, Doc
<1>5. CASE UNCHANGED vars
  BY <1>1, <1>5 DEF vars
<1>6. CASE Typing
  <2>1. CASE BackspaceKey
    <3>1. screen' = Front(screen) \/ (screen' = screen /\ NoticeWindow)
      BY <2>1 DEF BackspaceKey
    <3> QED BY <1>1, <1>4, <3>1
  <2>2. CASE UndoBackspace
    BY <1>1, <2>2 DEF UndoBackspace
  <2>3. CASE ~BackspaceKey /\ ~UndoBackspace
    <3>1. screen' = screen /\ NoticeWindow
      BY <1>6, <2>3 DEF Typing, LetterKey, BoundaryKey, KeyDown
    <3> QED BY <1>4, <3>1
  <2> QED BY <2>1, <2>2, <2>3
<1>7. CASE Disturbance
  <2>1. CASE \E kind \in 0..2 : UntrackedKey(kind)
    <3>1. CASE \E n \in 1..2 : screen' = screen \o [i \in 1..n |-> "unread"]
      <4>1. PICK n \in 1..2 : screen' = screen \o [i \in 1..n |-> "unread"]
        BY <3>1
      <4>2. [i \in 1..1 |-> "unread"] = <<"unread">> /\ [i \in 1..2 |-> "unread"] = <<"unread", "unread">>
        OBVIOUS
      <4>3. CASE n = 1
        BY <1>2, <4>1, <4>2, <4>3, CharacterShows
      <4>4. CASE n = 2
        BY <4>1, <4>2, <4>4, PairShows
      <4> QED BY <4>3, <4>4
    <3> QED BY <1>3, <1>4, <2>1, <3>1 DEF UntrackedKey, KeyDown
  <2>2. CASE HookTimesOut
    BY <2>2, LandingShows DEF HookTimesOut
  <2>3. CASE NestedKey \/ ShortcutKey \/ ForeignKey
    BY <1>1, <1>3, <2>3 DEF NestedKey, ShortcutKey, ForeignKey
  <2>4. CASE NavigationKey \/ Click \/ FocusMoves \/ SwitchWindow \/ NestedClick
    <3>1. screen' = <<>>
      BY <2>4 DEF NavigationKey, Click, FocusMoves, SwitchWindow, NestedClick
    <3> QED BY <1>1, <3>1
  <2>5. CASE UndoHotkey \/ \E to \in Layouts : ManualSwitch(to)
    BY <1>1, <2>5 DEF UndoHotkey, ManualSwitch
  <2> QED BY <1>7, <2>1, <2>2, <2>3, <2>4, <2>5 DEF Disturbance
<1>8. CASE Delay
  <2>1. CASE RequestAges \/ UndoAges \/ LayoutArrives
    BY <1>1, <2>1 DEF RequestAges, UndoAges, LayoutArrives
  <2>2. CASE FocusEvent \/ NestedFocusEvent
    <3>1. screen' = screen /\ moved' = "no"
      BY <2>2 DEF FocusEvent, NestedFocusEvent
    <3> QED BY <3>1, EditorSteps, Showing DEF Doc
  <2> QED BY <1>8, <2>1, <2>2 DEF Delay
<1>9. CASE Timer
  BY <1>1, <1>9 DEF Timer, IdleTimer, UndoTimer
<1>10. CASE Finish
  <2>1. CASE FinishTimer \/ FinishSent
    BY <1>1, <2>1 DEF FinishTimer, FinishSent, Finishing
  <2>2. CASE FinishLetter \/ FinishBoundary \/ FinishBackspace
    <3>1. Delivered /\ moved' = moved /\ InHook
      BY <2>2 DEF FinishLetter, FinishBoundary, FinishBackspace, Finishing, InHook
    <3> QED BY <1>1, <3>1, LandingShows DEF Delivered
  <2> QED BY <1>10, <2>1, <2>2 DEF Finish
<1> QED BY <1>5, <1>6, <1>7, <1>8, <1>9, <1>10

\* The keys a text ends with.
LEMMA LastKeys ==
  ASSUME NEW s \in Seq(Glyph), NEW t \in Seq(Glyph), EndsWith(s, t),
         \A i \in 1..Len(t) : t[i] \in Keys
  PROVE  Len(t) <= Len(s) /\ \A i \in Len(s) - Len(t) + 1 .. Len(s) : s[i] \in Keys
<1>1. Len(t) <= Len(s) /\ Len(s) \in Nat /\ Len(t) \in Nat
  BY DEF EndsWith
<1>2. t = SubSeq(s, Len(s) - Len(t) + 1, Len(s))
  BY DEF EndsWith
<1>3. \A i \in 1..Len(t) : t[i] = s[(Len(s) - Len(t) + 1) + i - 1]
  BY <1>1, <1>2, SubSeqProperties
<1>4. ASSUME NEW i \in Len(s) - Len(t) + 1 .. Len(s) PROVE s[i] \in Keys
  <2>1. i - (Len(s) - Len(t)) \in 1..Len(t)
    BY <1>1
  <2>2. t[i - (Len(s) - Len(t))] = s[i]
    <3>1. (Len(s) - Len(t) + 1) + (i - (Len(s) - Len(t))) - 1 = i
      BY <1>1
    <3> QED BY <1>3, <2>1, <3>1
  <2> QED BY <2>1, <2>2
<1> QED BY <1>1, <1>4


\* A layout correction is not seen: it shows as the key that triggered it, or not at all.
LEMMA CorrectionShows ==
  ASSUME EngineInv, TypeOK', Replacement
  PROVE  Shows
<1>1. TypeOK /\ OpInv /\ MaySend /\ moved' = moved
  BY DEF EngineInv, Replacement, CorrectWhileTyping, CorrectAtBoundary, CorrectPhrase, Sent
<1>2. moved # "element" => Followed
  <2>1. ~Idle /\ ~Cut /\ moved # "window"
    BY <1>1 DEF MaySend, Idle, OpInv
  <2> QED BY <1>1, <2>1 DEF Followed, TypeOK
<1>3. \A k \in Keys : k \in Glyph
  BY DEF Glyph
<1>4. moved = "element" => Shows
  BY <1>1, EditorSteps, Showing
<1>5. ASSUME NEW t \in Slots, CorrectWhileTyping(t), Followed PROVE Shows
  <2>1. Doc' = IF op.src = "letter" THEN Doc \o <<op.key>> ELSE Doc
    BY <1>5, LiveCorrection
  <2>2. op.src = "letter" => op.key \in Glyph
    BY <1>1, <1>3, Types
  <2> QED BY <1>1, <2>1, <2>2, EditorSteps, Showing
<1>6. ASSUME Followed, JustTyped, op.src = "boundary", NEW n, NEW text, NEW lang, Inject(n, text, op.key, lang)
      PROVE  Shows
  <2>1. CASE op.key = "enter"
    <3>1. screen' = <<>>
      BY <1>6, <2>1 DEF Inject
    <3> QED BY <1>1, <3>1, CharacterShows
  <2>2. CASE op.key # "enter"
    <3>1. Doc' = Doc \o Gap(op.key) /\ op.key \in {"space", "half", "stop"}
      BY <1>1, <1>6, <2>2, Types DEF JustTyped, Boundaries
    <3>2. Gap(op.key) = <<"space">> \/ Gap(op.key) = <<"mark">>
      BY <3>1 DEF Gap
    <3>3. "space" \in Glyph /\ "mark" \in Glyph
      BY DEF Glyph
    <3> QED BY <1>1, <3>1, <3>2, <3>3, EditorSteps, Showing
  <2> QED BY <2>1, <2>2
<1>7. ASSUME NEW t \in Slots, CorrectAtBoundary(t), Followed PROVE Shows
  <2>1. JustTyped
    BY <1>7, WordCorrection
  <2>2. op.src = "boundary" /\ Inject(Len(Settled(word).keys), InSlot(Settled(word).keys, t), op.key, t)
    BY <1>7 DEF CorrectAtBoundary
  <2> QED BY <1>6, <1>7, <2>1, <2>2
<1>8. ASSUME NEW t \in Slots, NEW from \in WordStarts(hist.text), CorrectPhrase(from, t), Followed PROVE Shows
  <2>1. JustTyped
    BY <1>8, PhraseCorrection
  <2> DEFINE old == SubSeq(hist.text, from, Len(hist.text)) \o InSlot(Settled(word).keys, Settled(word).lang)
  <2>2. op.src = "boundary" /\ Inject(Len(old), InSlot(old, t), op.key, t)
    BY <1>8 DEF CorrectPhrase
  <2> HIDE DEF old
  <2> QED BY <1>6, <1>8, <2>1, <2>2
<1> QED BY <1>2, <1>4, <1>5, <1>7, <1>8 DEF Replacement

\* A snippet or a spelling fix replaces the word before the caret, and only that.
LEMMA RewriteShows ==
  ASSUME EngineInv, TypeOK', RewriteWord
  PROVE  Shows
<1> DEFINE w == Settled(word)
           text == <<Letter("mark", w.lang), Letter("mark", w.lang)>>
<1>1. /\ TypeOK /\ RecordsInv /\ OpInv /\ ScreenInv /\ MaySend /\ moved' = moved /\ op.src = "boundary"
      /\ Correctable(w) /\ Inject(Len(w.keys), text, op.key, w.lang)
  BY DEF EngineInv, RewriteWord, Sent
<1>2. w.keys = word.keys /\ w.over = word.over /\ WordOK(w) /\ w.keys # <<>> /\ w.over = 0
  BY <1>1, SettledSame, SettledOK DEF TypeOK, Correctable
<1> HIDE DEF w
<1>3. w.lang \in Slots /\ Len(word.keys) \in 1..MaxWord /\ word.keys \in Text
      /\ \A i \in 1..Len(word.keys) : word.keys[i].key \in Keys
  BY <1>2, WordKept
<1>4. text \in Text /\ Spelt(text) = Snippet
  BY <1>3, SnippetSpelt
<1> HIDE DEF text
<1>5. CASE moved = "element"
  BY <1>1, <1>5, EditorSteps, Showing
<1>6. CASE op.key = "enter"
  <2>1. screen' = <<>>
    BY <1>1, <1>6 DEF Inject
  <2> QED BY <1>1, <2>1, CharacterShows
<1>7. CASE moved # "element" /\ op.key # "enter"
  <2>1. Followed /\ ~AwaitsLetter /\ ~Landed
    BY <1>1, <1>7 DEF Followed, AwaitsLetter, Landed, MaySend, OpInv, Idle, TypeOK
  <2>2. Doc \in Seq(Glyph) /\ Spelt(word.keys) \in Seq(Glyph) /\ Len(Spelt(word.keys)) = Len(word.keys)
        /\ \A i \in 1..Len(word.keys) : Spelt(word.keys)[i] = word.keys[i].key
    BY <1>1, <1>3, Types, SpeltOK
  <2>3. EndsWith(Doc, Spelt(word.keys))
    <3>1. ~hist.pending.ok /\ Drop(Doc, word.over) = Doc
      BY <1>1, <1>2, <2>2, WordAlone, DropEnds
    <3> QED BY <2>1, <3>1, SentenceSuffix
  <2>4. Len(word.keys) <= Len(Doc)
        /\ \A i \in Len(Doc) - Len(word.keys) + 1 .. Len(Doc) : Doc[i] \in Keys
    BY <1>3, <2>2, <2>3, LastKeys
  <2>5. Doc' = Drop(Doc, Len(word.keys)) \o (Snippet \o Gap(op.key))
    <3>1. Len(w.keys) \in Nat
      BY <1>2, <1>3
    <3> QED BY <1>1, <1>2, <1>4, <1>7, <3>1, UndoRecorded
  <2>6. Doc' = (Drop(Doc, Len(word.keys)) \o Snippet) \o Gap(op.key) /\ Gap(op.key) \in Editor!Separators
    <3>1. "mark" \in Glyph
      BY DEF Glyph
    <3>2. Snippet \in Seq(Glyph) /\ Gap(op.key) \in Seq(Glyph) /\ Drop(Doc, Len(word.keys)) \in Seq(Glyph)
      BY <1>3, <2>2, <3>1, GapOK, DropOK DEF Snippet
    <3>3. (Drop(Doc, Len(word.keys)) \o Snippet) \o Gap(op.key) = Drop(Doc, Len(word.keys)) \o (Snippet \o Gap(op.key))
      BY <3>2, ConcatAssociative
    <3>4. Gap(op.key) \in Editor!Separators
      BY DEF Gap, Editor!Separators
    <3> QED BY <2>5, <3>3, <3>4
  <2>7. Snippet \in Editor!Texts /\ Len(word.keys) \in 0..MaxWord
    BY <1>3 DEF Snippet, Editor!Texts
  <2>8. Editor!Replace
    BY <2>4, <2>6, <2>7 DEF Editor!Replace, Editor!Without, Doc, Drop
  <2> QED BY <2>8, Showing DEF Editor!Next
<1> QED BY <1>5, <1>6, <1>7

\* Undo: after a layout correction it shows as nothing, or as the separator taken back;
\* after a rewritten word it puts the word back.
LEMMA RestoreShows ==
  ASSUME EngineInv, UndoKeys, TypeOK', Restore
  PROVE  Shows
<1> DEFINE gap == Gap(undo.b)
           again == IF op.src = "hotkey" THEN undo.b ELSE "none"
           old == Spelt(undo.original)
           new == Spelt(undo.replacement)
           n == Len(undo.replacement) + (IF undo.b = "none" THEN 0 ELSE 1)
           back == IF op.src = "hotkey" THEN gap ELSE <<>>
<1>1. /\ TypeOK /\ OpInv /\ UndoInv /\ MaySend /\ moved' = moved /\ undo.ok /\ undo.b # "enter"
      /\ op.src \in {"backspace", "hotkey"} /\ Inject(n, undo.original, again, undo.lang)
  BY DEF EngineInv, Restore, Sent, CanUndo
<1>2. /\ undo.original \in Text /\ undo.replacement \in Text /\ Doc \in Seq(Glyph)
      /\ undo.b \in {"space", "half", "stop", "none"}
  BY <1>1, Types DEF TypeOK, UndoOK, UndoRecord, Boundaries
<1>3. /\ old \in Seq(Glyph) /\ new \in Seq(Glyph) /\ Len(new) = Len(undo.replacement)
      /\ Len(old) = Len(undo.original) /\ \A i \in 1..Len(undo.original) : old[i] = undo.original[i].key
      /\ Len(new) \in Nat
  BY <1>2, SpeltOK, LenProperties
<1>4. /\ gap \in Seq(Glyph) /\ <<>> \in Seq(Glyph) /\ back \in Seq(Glyph) /\ Gap(again) = back
      /\ again # "enter" /\ gap \in Editor!Separators
      /\ IF undo.b = "none" THEN gap = <<>> ELSE \E x \in Glyph : gap = <<x>>
  <2>1. gap \in Seq(Glyph) /\ Gap("none") = <<>> /\ <<>> \in Seq(Glyph)
    BY GapOK, EmptySeq DEF Gap
  <2>2. "space" \in Glyph /\ "mark" \in Glyph
    BY DEF Glyph
  <2>3. gap \in Editor!Separators /\ IF undo.b = "none" THEN gap = <<>> ELSE \E x \in Glyph : gap = <<x>>
    BY <1>2, <2>2 DEF Gap, Editor!Separators
  <2> QED BY <1>1, <2>1, <2>3
<1> HIDE DEF gap, back
<1>5. n = Len(new \o gap) /\ n \in Nat /\ new \o gap \in Seq(Glyph)
  <2>1. Len(gap) = IF undo.b = "none" THEN 0 ELSE 1
    BY <1>4
  <2> HIDE DEF new
  <2>2. Len(new \o gap) = Len(new) + Len(gap) /\ new \o gap \in Seq(Glyph)
    BY <1>3, <1>4, ConcatProperties
  <2>3. n = Len(new) + Len(gap) /\ n \in Nat
    <3> DEFINE l == Len(gap)
    <3>1. l = IF undo.b = "none" THEN 0 ELSE 1
      BY <2>1
    <3>2. n = Len(new) + l
      <4> HIDE DEF l
      <4> QED BY <1>3, <3>1
    <3>3. l \in Nat
      <4> HIDE DEF l
      <4> QED BY <3>1
    <3> HIDE DEF n
    <3> QED BY <1>3, <3>2, <3>3
  <2> HIDE DEF n
  <2> QED BY <2>2, <2>3
<1>6. Doc' = Drop(Doc, n) \o (old \o back) /\ Drop(Doc, n) \in Seq(Glyph)
  <2>1. Drop(Doc, n) \in Seq(Glyph)
    BY <1>2, <1>5, DropOK
  <2>2. Doc' = Drop(Doc, n) \o (old \o Gap(again))
    <3> HIDE DEF n, again
    <3> QED BY <1>1, <1>2, <1>4, <1>5, UndoRecorded
  <2> QED BY <1>4, <2>1, <2>2
<1>7. CASE moved = "element"
  BY <1>1, <1>7, EditorSteps, Showing
<1>8. ASSUME moved # "element" PROVE EndsWith(Doc, new \o gap) /\ Doc = Drop(Doc, n) \o (new \o gap)
  <2>1. Followed /\ ~op.late
    BY <1>1, <1>8 DEF Followed, MaySend, OpInv, Idle, TypeOK
  <2>2. EndsWith(Doc, new \o gap)
    BY <1>1, <2>1 DEF UndoInv, gap
  <2> HIDE DEF new, n
  <2>3. \A t \in Seq(Glyph) : EndsWith(Doc, t) => Doc = Drop(Doc, Len(t)) \o t
    BY <1>2, EndsSplit
  <2> QED BY <1>5, <2>2, <2>3
<1> DEFINE p == Drop(Doc, n)
<1> HIDE DEF old, new, n, again
<1>9. ASSUME NEW a \in Seq(Glyph), NEW b \in Seq(Glyph), NEW c \in Seq(Glyph)
      PROVE  (a \o b) \o c = a \o (b \o c) /\ a \o b \in Seq(Glyph) /\ a \o <<>> = a
  BY <1>9, ConcatAssociative, ConcatProperties, ConcatEmptySeq
<1>10. ASSUME moved # "element", old = new PROVE Shows
  <2>1. CASE back = gap
    <3>1. Doc' = Doc
      BY <1>6, <1>8, <1>10, <2>1
    <3> QED BY <1>1, <3>1, Showing
  <2>2. CASE back = <<>> /\ undo.b # "none"
    <3>1. PICK x \in Glyph : gap = <<x>>
      BY <1>4, <2>2
    <3>2. Doc = (p \o new) \o <<x>> /\ Doc' = p \o new /\ p \o new \in Seq(Glyph)
      <4>1. p \in Seq(Glyph) /\ Doc' = p \o (new \o <<>>) /\ Doc = p \o (new \o gap)
        BY <1>6, <1>8, <1>10, <2>2
      <4> HIDE DEF p
      <4> QED BY <1>3, <1>4, <1>9, <3>1, <4>1
    <3> HIDE DEF p
    <3>3. Drop(Doc, 1) = p \o new
      BY <3>2, OneOff
    <3> QED BY <1>1, <3>2, <3>3, EditorSteps, Showing
  <2> QED BY <1>4, <2>1, <2>2 DEF back
<1>11. ASSUME moved # "element", new = Snippet, Len(undo.original) \in 1..MaxWord,
              \A i \in 1..Len(undo.original) : undo.original[i].key \in Keys
       PROVE  Shows
  <2>1. old \in Editor!Words(Len(undo.original))
    <3>1. old = [i \in 1..Len(old) |-> old[i]]
      BY <1>3
    <3> QED BY <1>3, <1>11, <3>1 DEF Editor!Words
  <2>2. n = Len(Snippet \o gap) /\ Snippet \in Editor!Texts /\ EndsWith(Doc, Snippet \o gap)
    BY <1>5, <1>8, <1>11 DEF Editor!Texts, Snippet
  <2>3. Len(Doc) >= n /\ SubSeq(Doc, Len(Doc) - n + 1, Len(Doc)) = Snippet \o gap
    BY <2>2 DEF EndsWith
  <2>4. Doc' = p \o old \o (IF op.src = "hotkey" THEN gap ELSE <<>>)
    <3>1. p \in Seq(Glyph) /\ Doc' = p \o (old \o back)
      BY <1>6
    <3> HIDE DEF p
    <3>2. (p \o old) \o back = p \o (old \o back)
      <4>1. ASSUME NEW a \in Seq(Glyph), NEW b \in Seq(Glyph), NEW c \in Seq(Glyph)
            PROVE  (a \o b) \o c = a \o (b \o c)
        BY ConcatAssociative
      <4> QED BY <1>3, <1>4, <3>1, <4>1
    <3> QED BY <3>1, <3>2 DEF back
  <2>5. Editor!PutBack
    <3> DEFINE retyped == op.src = "hotkey"
    <3>1. retyped \in BOOLEAN /\ p = Editor!Without(n)
      BY DEF Editor!Without, Doc, Drop
    <3>2. Doc' = Editor!Without(n) \o old \o (IF retyped THEN gap ELSE <<>>)
      BY <2>4, <3>1
    <3> HIDE DEF retyped, p
    <3> QED BY <1>4, <1>11, <2>1, <2>2, <2>3, <3>1, <3>2 DEF Editor!PutBack, Doc
  <2> QED BY <2>5, Showing DEF Editor!Next
<1> QED BY <1>1, <1>7, <1>10, <1>11 DEF UndoKeys, old, new

\* Every step of the engine and around it is one the user is promised, or none he sees.
LEMMA StepShows ==
  ASSUME EngineInv, UndoKeys, [Next]_vars
  PROVE  Shows
<1>1. TypeOK /\ OpInv /\ TypeOK'
  BY TypeStep DEF EngineInv
<1> QED BY <1>1, OrdinaryShows, CorrectionShows, RewriteShows, RestoreShows DEF Next, Engine

\* ShowsWhatWasTyped for every value of the constants: the engine refines the editor the
\* user is promised.  What a correction deletes it types back; what Undo deletes was typed
\* by a correction; nothing else touches the text.
THEOREM TypingRefined == ASSUME ~HotkeyInWord PROVE Spec => ShowsWhatWasTyped
<1>1. Init => EngineInv /\ UndoKeys /\ Editor!Init
  <2> SUFFICES ASSUME Init PROVE UndoKeys /\ Editor!Init
    BY InitEngine
  <2>1. UndoKeys
    BY DEF Init, UndoKeys, NoUndo
  <2>2. KeysOf(screen) = <<>> /\ (moved = "element") = FALSE
    BY OneGlyph DEF Init
  <2> QED BY <2>1, <2>2 DEF Editor!Init
<1>2. EngineInv /\ UndoKeys /\ [Next]_vars => EngineInv' /\ UndoKeys'
  <2> SUFFICES ASSUME EngineInv, UndoKeys, [Next]_vars PROVE EngineInv' /\ UndoKeys'
    OBVIOUS
  <2>1. EngineInv'
    BY ScreenStep
  <2>2. TypeOK /\ TypeOK'
    BY <2>1 DEF EngineInv
  <2> QED BY <2>1, <2>2, UndoKeysStep
<1>3. EngineInv /\ UndoKeys /\ [Next]_vars => [Editor!Next]_<<KeysOf(screen), moved = "element">>
  BY StepShows DEF Shows
<1> QED BY <1>1, <1>2, <1>3, PTL DEF Spec, ShowsWhatWasTyped, Editor!Spec
=============================================================================
