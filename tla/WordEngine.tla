----------------------------- MODULE WordEngine -----------------------------
(***************************************************************************)
(* The typing engine of src/app.c: the keyboard and mouse hooks, the pause *)
(* timer, Undo and the focus event, over the records they share (the word  *)
(* being typed, the sentence history, the pending word, the Undo record,   *)
(* the layout request) and the text the application shows before the caret.*)
(*                                                                         *)
(* Dictionaries are an oracle: where an evaluator may answer "correct",    *)
(* the model lets it answer either way.  A recorded character is a key and *)
(* the layout slot it is read in, so a layout correction changes slots and *)
(* never keys; of the text on screen the model keeps the keys and whether  *)
(* a separator is a space or a ZWNJ.                                       *)
(***************************************************************************)
EXTENDS Integers, Sequences, FiniteSets

CONSTANTS
  Keys,            \* word keys: one character in each layout of the pair
  Layouts,         \* the pair's two slots, and any other layout in use
  Persian,         \* the slot of the pair that is Persian
  MaxWord,         \* KS_MAX_WORD
  MaxHistoryWords, \* KS_MAX_SEQUENCE_WORDS - 1
  MaxHistoryChars, \* KS_MAX_SEQUENCE_CHARS - KS_MAX_WORD - 1
  MaxPhraseWords,  \* words one phrase correction may rewrite (4)
  MaxPhraseChars,  \* characters one phrase correction may delete (64)
  MinLive,         \* keys before a word is corrected without a boundary (3)
  MinBoundary,     \* keys before a word is corrected at a boundary (2)
  Attempts,        \* the kinds of replacement this instance explores
  HotkeyInWord,    \* may the Undo hotkey be pressed in the middle of a word?
  MaxScreen        \* bound: characters kept before the caret

Slots == {"A", "B"}
Other(s) == IF s = "A" THEN "B" ELSE "A"
Boundaries == {"space", "half", "stop", "enter"}
ReplacementKinds == {"word", "mixed", "phrase", "text"}

ASSUME KeysAssumption ==
  Keys # {} /\ Keys \cap {"space", "zwnj", "mark", "unread", "half", "stop", "enter", "back"} = {}
ASSUME BoundAssumption ==
  /\ MaxWord \in Nat \ {0} /\ MaxHistoryWords \in Nat \ {0} /\ MaxHistoryChars \in Nat
  /\ MaxPhraseWords \in Nat /\ MaxPhraseChars \in Nat /\ MaxScreen \in Nat
  /\ MinLive \in Nat \ {0} /\ MinBoundary \in Nat \ {0}
ASSUME ChoiceAssumption ==
  /\ Persian \in Slots /\ Slots \subseteq Layouts /\ Layouts \subseteq Slots \cup {"other"}
  /\ Attempts \subseteq ReplacementKinds
  /\ HotkeyInWord \in BOOLEAN

(***************************************************************************)
(* On screen, "mark" is any character the engine does not follow (the text *)
(* of a snippet or a spelling fix too), "unread" one typed by a key the    *)
(* pair cannot read.  A recorded space in the Persian slot is a ZWNJ.      *)
(***************************************************************************)
Shape == Keys \cup {"space", "zwnj", "mark", "unread"}
Char == [key: Keys \cup {"space", "mark"}, slot: Slots \cup {"none"}]
Letter(k, s) == [key |-> k, slot |-> s]
Space(zwnj) == [key |-> "space", slot |-> IF zwnj THEN Persian ELSE "none"]
Shown(s) == [i \in DOMAIN s |-> IF s[i] = Space(TRUE) THEN "zwnj" ELSE s[i].key]
KeysOf(s) == [i \in DOMAIN s |-> IF s[i] = "zwnj" THEN "space" ELSE s[i]]

Front(s) == SubSeq(s, 1, Len(s) - 1)
Drop(s, n) == SubSeq(s, 1, Len(s) - n)
EndsWith(s, t) == Len(t) <= Len(s) /\ SubSeq(s, Len(s) - Len(t) + 1, Len(s)) = t

\* The text the keys of a word make in one slot; a ZWNJ exists only in Persian.
InSlot(s, slot) ==
  [i \in DOMAIN s |->
     IF s[i].key = "space" THEN Space(s[i].slot = Persian /\ slot = Persian)
     ELSE Letter(s[i].key, slot)]

-----------------------------------------------------------------------------
VARIABLES
  screen,    \* the text before the caret in the focused field
  layout,    \* the layout the application's thread renders keys in
  asked,     \* a layout change queued in the application, or "none"
  moved,     \* focus: "no" change; another "element" of the window or another
             \* "window" whose event is still queued; "seen": the other window
             \* was noticed by a key, its event is still queued
  word,      \* g_word, g_word_visible, g_word_count, g_overflow_count, ...
  hist,      \* g_history and g_pending_word
  undo,      \* g_undo
  prev,      \* g_prev_word: the word that ended at the key just pressed
  untrusted, \* g_word_untrusted
  dead,      \* g_dead_key_word
  request,   \* the layout request: g_layout_request_*
  hotkey,    \* ID_TIMER_UNDO runs
  op         \* the engine operation in progress (g_engine_depth > 0)

vars == <<screen, layout, asked, moved, word, hist, undo, prev, untrusted, dead,
          request, hotkey, op>>

NoWord == [keys |-> <<>>, lang |-> "none", mixed |-> FALSE, over |-> 0,
           ctx |-> FALSE, skip |-> FALSE, armed |-> FALSE]
NoPending == [ok |-> FALSE, keys |-> <<>>, lang |-> "none"]
NoHist == [text |-> <<>>, over |-> FALSE, pending |-> NoPending]
AbandonedHist == [NoHist EXCEPT !.over = TRUE]
NoPrev == [ok |-> FALSE, keys |-> <<>>, lang |-> "none"]
NoUndo == [ok |-> FALSE, original |-> <<>>, replacement |-> <<>>, b |-> "none",
           lang |-> "none", age |-> 0]
NoRequest == [age |-> "none", lang |-> "none", from |-> "none"]
DeadRequest == [NoRequest EXCEPT !.age = "dead"]
NoOp == [phase |-> "none", src |-> "none", key |-> "none", dead |-> 0,
         late |-> FALSE, keyCut |-> FALSE, reset |-> FALSE]

Init ==
  /\ screen = <<>> /\ layout \in Slots /\ asked = "none" /\ moved = "no"
  /\ word = NoWord /\ hist = NoHist /\ undo = NoUndo /\ prev = NoPrev
  /\ untrusted = FALSE /\ dead = 0 /\ request = NoRequest /\ hotkey = FALSE /\ op = NoOp

-----------------------------------------------------------------------------
(***************************************************************************)
(* What a key finds when the hook samples the window, the layout and the   *)
(* records.  request.age: "fresh" is typed for (less than 3 s since the    *)
(* last key and 10 s since the request), "held" still explains a late      *)
(* switch to it, "late" still explains keys in the old layout, "dead" only *)
(* names the window.                                                       *)
(***************************************************************************)
Idle == op.phase = "none"
Here == moved # "window"     \* the records describe the foreground window

SwitchPending == /\ Here /\ request.age = "fresh"
                 /\ layout = request.from /\ layout # request.lang
Language == IF SwitchPending THEN request.lang ELSE layout

LayoutChangeWasOurs(now) ==
  \/ (request.age \in {"fresh", "held"} /\ request.lang = now)
  \/ (request.age \in {"fresh", "late"} /\ request.from = now /\ request.lang # now)

WordLayout(w) == IF w.mixed /\ w.keys # <<>> THEN w.keys[Len(w.keys)].slot ELSE w.lang
LayoutChanged == word.ctx /\ Here /\ Language # WordLayout(word)
KeepsWord == word.keys # <<>> /\ LayoutChangeWasOurs(Language)

\* Mutant: a late switch of our own is not marked in the word.
FoundWordUnmarked == IF (word.ctx /\ ~Here) \/ (LayoutChanged /\ ~KeepsWord) THEN NoWord ELSE word
FoundWord == IF (word.ctx /\ ~Here) \/ (LayoutChanged /\ ~KeepsWord) THEN NoWord
             ELSE IF LayoutChanged THEN [word EXCEPT !.mixed = TRUE] ELSE word
\* Mutant: a switch by hand in the middle of a word ends the word only.
FoundHistKept == IF ~Here THEN NoHist ELSE hist
FoundHist == IF ~Here \/ (LayoutChanged /\ ~KeepsWord) THEN NoHist ELSE hist
FoundRequest == IF Here THEN request ELSE NoRequest
NoticeWindow == moved' = IF Here THEN moved ELSE "seen"

Uniform(keys) == \A i \in DOMAIN keys : keys[i].slot = keys[1].slot
\* evaluate_mixed_word hands a word back once one layout's keys are all gone.
Settled(w) == IF w.mixed /\ w.keys # <<>> /\ ~w.skip /\ w.over = 0 /\ Uniform(w.keys)
              THEN [w EXCEPT !.mixed = FALSE, !.lang = w.keys[1].slot] ELSE w
Correctable(w) == w.keys # <<>> /\ ~w.skip /\ w.over = 0

HistoryWords(text) == Cardinality({i \in DOMAIN text : text[i].key = "space"})

\* Mutant: a word ended by Enter or a period stays in the phrase history.
PushAtAnyBoundary(h, keys, b) ==
  IF h.over \/ keys = <<>> THEN h ELSE [h EXCEPT !.text = h.text \o Append(keys, Space(b = "half"))]
\* history_push for a word ended by Space (zwnj: Shift+Space) or by another key.
Push(h, keys, b) ==
  IF keys = <<>> \/ b \notin {"space", "half"} THEN NoHist
  ELSE IF h.over THEN h
  ELSE IF \/ HistoryWords(h.text) >= MaxHistoryWords
          \/ Len(h.text) + Len(keys) > MaxHistoryChars THEN AbandonedHist
  ELSE [h EXCEPT !.text = h.text \o Append(keys, Space(b = "half"))]

-----------------------------------------------------------------------------
(***************************************************************************)
(* Keys.  A word key or a boundary opens an operation (engine_enter): its  *)
(* evaluation, the queries it makes and its replacement are steps of their *)
(* own, and other events may run between them.  Every other key is done in *)
(* one step.                                                               *)
(***************************************************************************)
Room == Len(screen) < MaxScreen
\* Mutant: g_undo stays valid at the next key.
KeyDownKeepingUndo == Idle /\ prev' = NoPrev /\ UNCHANGED undo /\ NoticeWindow
KeyDown == Idle /\ prev' = NoPrev /\ undo' = NoUndo /\ NoticeWindow
Open(src, key) == [NoOp EXCEPT !.phase = "eval", !.src = src, !.key = key]

\* A word key right after a live or pause correction continues that word.
Resumes(w, h) ==
  /\ h.pending.ok /\ ~w.ctx /\ Len(h.pending.keys) < MaxWord
  /\ h.pending.lang = Language \/ FoundRequest.age # "none"
Resumed(p) == [NoWord EXCEPT !.keys = p.keys, !.lang = p.lang, !.ctx = TRUE,
                             !.mixed = p.lang # Language]
Begun == [NoWord EXCEPT !.lang = Language, !.ctx = TRUE, !.skip = untrusted \/ dead # 0]
\* Mutant: one key more than g_word holds.
WithKeyTooLong(w, k) ==
  IF w.skip THEN w
  ELSE IF Len(w.keys) <= MaxWord /\ w.over = 0
       THEN [w EXCEPT !.keys = Append(@, Letter(k, Language)), !.armed = FALSE]
       ELSE [w EXCEPT !.over = @ + 1, !.armed = FALSE]
WithKey(w, k) ==
  IF w.skip THEN w
  ELSE IF Len(w.keys) < MaxWord /\ w.over = 0
       THEN [w EXCEPT !.keys = Append(@, Letter(k, Language)), !.armed = FALSE]
       ELSE [w EXCEPT !.over = @ + 1, !.armed = FALSE]

LetterKey(k) ==
  LET resumed == Resumes(FoundWord, FoundHist)
      begins == ~FoundWord.ctx /\ ~resumed
      w == IF resumed THEN Resumed(FoundHist.pending) ELSE IF begins THEN Begun ELSE FoundWord
  IN  /\ Room /\ KeyDown /\ layout \in Slots
      /\ word.over < MaxScreen
      /\ word' = Settled(WithKey(w, k))
      /\ hist' = IF resumed THEN [FoundHist EXCEPT !.pending = NoPending]
                 ELSE IF FoundHist.pending.ok THEN NoHist ELSE FoundHist
      /\ untrusted' = (untrusted /\ ~begins)
      /\ dead' = IF begins THEN 0 ELSE dead
      /\ request' = FoundRequest
      /\ op' = [Open("letter", k) EXCEPT !.dead = dead]
      /\ UNCHANGED <<screen, layout, asked, hotkey>>

BoundaryKey(b) ==
  /\ Room /\ KeyDown /\ layout \in Slots
  /\ word' = FoundWord /\ hist' = FoundHist /\ request' = FoundRequest
  /\ dead' = 0
  /\ op' = [Open("boundary", b) EXCEPT !.dead = dead]
  /\ UNCHANGED <<screen, layout, asked, untrusted, hotkey>>

\* Backspace outside Undo: reopens the word that ended at the key before, or
\* takes one key off the word, or forgets the word and what it was asked for.
Erased(w) == IF w.over > 0 THEN [w EXCEPT !.over = @ - 1, !.armed = FALSE]
             ELSE IF w.keys # <<>> THEN [w EXCEPT !.keys = Front(@), !.armed = FALSE] ELSE w
PlainBackspace ==
  LET w == FoundWord
      hadWord == w.keys # <<>> \/ w.over > 0
      reopens == ~hadWord /\ ~w.ctx /\ prev.ok /\ Here
      left == Erased(w)
      gone == left.keys = <<>> /\ left.over = 0
  IN  /\ dead' = 0 /\ prev' = NoPrev /\ undo' = NoUndo
      /\ word' = IF reopens THEN [NoWord EXCEPT !.keys = prev.keys, !.lang = prev.lang, !.ctx = TRUE]
                 ELSE IF gone THEN NoWord ELSE left
      /\ hist' = IF reopens \/ gone THEN NoHist ELSE FoundHist
      /\ request' = IF gone /\ hadWord THEN NoRequest ELSE FoundRequest

CanUndo(oldest) == undo.ok /\ Here /\ undo.age <= oldest /\ undo.b # "enter"

BackspaceKey ==
  /\ Idle /\ ~CanUndo(0) /\ layout \in Slots
  /\ PlainBackspace /\ NoticeWindow
  /\ screen' \in {Front(screen)} \cup (IF dead = 1 THEN {screen} ELSE {})
  /\ UNCHANGED <<layout, asked, untrusted, hotkey, op>>

UndoBackspace ==
  /\ Idle /\ CanUndo(0)
  /\ word' = NoWord /\ op' = Open("backspace", "back")
  /\ UNCHANGED <<screen, layout, asked, moved, hist, undo, prev, untrusted, dead, request, hotkey>>

\* Keys after which the word is no longer followed.  mark: punctuation or an
\* unsupported character; 1: a dead key; 2: a key the pair cannot read.
UntrackedKey(kind) ==
  /\ Room /\ KeyDown /\ layout \in Slots
  /\ word' = NoWord /\ hist' = NoHist /\ request' = FoundRequest
  /\ dead' = kind
  /\ \/ kind = 0 /\ screen' \in {screen, Append(screen, "mark")}
     \/ kind = 1 /\ screen' = screen
     \/ kind = 2 /\ \E n \in 1..2 : screen' = screen \o [i \in 1..n |-> "unread"]
  /\ UNCHANGED <<layout, asked, untrusted, hotkey, op>>

NavigationKey ==
  /\ KeyDown /\ layout \in Slots
  /\ word' = NoWord /\ hist' = NoHist /\ request' = NoRequest /\ dead' = 0
  /\ screen' = <<>>
  /\ UNCHANGED <<layout, asked, untrusted, hotkey, op>>

\* Ctrl, Alt or Win with a key (paste, cut, undo of the application), or any
\* key while the layout is none of the pair.
ShortcutKey ==
  /\ Room /\ Idle
  /\ word' = NoWord /\ hist' = NoHist /\ undo' = NoUndo /\ prev' = NoPrev
  /\ screen' \in {<<>>, Front(screen), Append(screen, "mark")}
  /\ untrusted' \in {untrusted, FALSE}   \* Space, Enter or Tab among them
  /\ UNCHANGED <<layout, asked, moved, dead, request, hotkey, op>>

\* Ctrl+Win+Backspace reaches Windows, which posts WM_HOTKEY.
UndoHotkey ==
  /\ Idle /\ (HotkeyInWord \/ (word.keys = <<>> /\ word.over = 0))
  /\ word' = NoWord /\ prev' = NoPrev /\ hotkey' = TRUE
  /\ UNCHANGED <<screen, layout, asked, moved, hist, undo, untrusted, dead, request, op>>

\* Alt+Shift or Ctrl+Shift: Windows queues the change of layout.
ManualSwitch(to) ==
  /\ Idle /\ asked' = to
  /\ hist' = NoHist /\ request' = NoRequest
  /\ UNCHANGED <<screen, layout, moved, word, undo, prev, untrusted, dead, hotkey, op>>

\* Another program's keys.
ForeignKey ==
  /\ Room /\ Idle
  /\ word' = NoWord /\ hist' = NoHist /\ request' = NoRequest /\ prev' = NoPrev /\ undo' = NoUndo
  /\ screen' \in {Front(screen), Append(screen, "mark")}
  /\ UNCHANGED <<layout, asked, moved, untrusted, dead, hotkey, op>>

Click ==
  /\ Idle
  /\ word' = NoWord /\ hist' = NoHist /\ request' = NoRequest /\ prev' = NoPrev /\ undo' = NoUndo
  /\ untrusted' = FALSE /\ dead' = 0
  /\ screen' = <<>>
  /\ UNCHANGED <<layout, asked, moved, hotkey, op>>

-----------------------------------------------------------------------------
(***************************************************************************)
(* The environment: time, the application's layout, focus.                 *)
(***************************************************************************)
RequestAges ==
  /\ \/ /\ request.age = "fresh"
        /\ request' \in {[request EXCEPT !.age = "held"], [request EXCEPT !.age = "late"]}
     \/ request.age \in {"held", "late"} /\ request' = DeadRequest
  /\ UNCHANGED <<screen, layout, asked, moved, word, hist, undo, prev, untrusted, dead, hotkey, op>>

\* 0: at most 5 s old, 1: at most 15 s, 2: older.
UndoAges ==
  /\ undo.ok /\ undo.age < 2 /\ undo' = [undo EXCEPT !.age = @ + 1]
  /\ UNCHANGED <<screen, layout, asked, moved, word, hist, prev, untrusted, dead, request, hotkey, op>>

LayoutArrives ==
  /\ asked # "none" /\ layout' = asked /\ asked' = "none"
  /\ UNCHANGED <<screen, moved, word, hist, undo, prev, untrusted, dead, request, hotkey, op>>

\* Focus moves inside the window: nothing tells the engine until the event.
FocusMoves ==
  /\ moved = "no" /\ moved' = "element" /\ screen' = <<>>
  /\ UNCHANGED <<layout, asked, word, hist, undo, prev, untrusted, dead, request, hotkey, op>>

SwitchWindow ==
  /\ Idle /\ moved = "no" /\ moved' = "window" /\ screen' = <<>>
  /\ layout' \in Slots /\ asked' = "none"
  /\ UNCHANGED <<word, hist, undo, prev, untrusted, dead, request, hotkey, op>>

FocusEvent ==
  /\ Idle /\ moved # "no" /\ moved' = "no"
  /\ word' = NoWord /\ hist' = NoHist /\ request' = NoRequest /\ undo' = NoUndo /\ prev' = NoPrev
  /\ untrusted' = FALSE /\ dead' = 0
  /\ UNCHANGED <<screen, layout, asked, hotkey, op>>

-----------------------------------------------------------------------------
(***************************************************************************)
(* Inside an operation.  The hook runs again only where the thread waits   *)
(* for another one; such a call passes its event on and marks the          *)
(* operation.  While the keyboard hook itself runs, a physical key comes   *)
(* only after Windows has given up on the hook.                            *)
(***************************************************************************)
Cut == op.keyCut \/ op.reset   \* g_engine_interrupted
InHook == op.src \in {"letter", "boundary", "backspace"}
RecordsKept == UNCHANGED <<layout, asked, word, hist, undo, untrusted, dead, request, hotkey>>
Rendering == {layout} \cup (IF SwitchPending THEN {request.lang} ELSE {})
                      \cup (IF asked = "none" THEN {} ELSE {asked})

\* What the application adds for the key the operation is about.
Landing ==
  LET plain == CASE op.key = "space" -> {<<"space">>}
                 [] op.key = "half" -> {<<IF s = Persian THEN "zwnj" ELSE "space">> : s \in Rendering}
                 [] op.key = "stop" -> {<<"mark">>}
                 [] OTHER -> {<<op.key>>}
  IN  IF op.dead = 1 THEN {<<"mark">> \o p : p \in plain \cup {<<>>}} ELSE plain
KeyLands == IF op.key = "enter" THEN screen' = <<>>
            ELSE IF op.key = "back" THEN screen' = Front(screen)
            ELSE \E text \in Landing : screen' = screen \o text

HookTimesOut ==
  /\ op.phase = "eval" /\ InHook /\ ~op.late
  /\ KeyLands /\ op' = [op EXCEPT !.late = TRUE]
  /\ UNCHANGED <<moved, prev>> /\ RecordsKept

NestedKey ==
  /\ op.phase # "none" /\ Room
  /\ \/ /\ ~InHook \/ op.late
        /\ \/ screen' = Front(screen)
           \/ \E k \in Keys : screen' = Append(screen, k)
     \/ screen' \in {Front(screen), Append(screen, "mark")}   \* another program's
  /\ op' = [op EXCEPT !.keyCut = TRUE]
  /\ prev' = NoPrev /\ UNCHANGED moved /\ RecordsKept

NestedClick ==
  /\ op.phase # "none" /\ screen' = <<>>
  /\ op' = [op EXCEPT !.reset = TRUE]
  /\ UNCHANGED <<moved, prev>> /\ RecordsKept

\* Mutant: a focus event during an operation leaves the operation running.
NestedFocusEventUnmarked ==
  /\ op.phase # "none" /\ moved # "no" /\ moved' = "no"
  /\ UNCHANGED <<screen, prev, op>> /\ RecordsKept

NestedFocusEvent ==
  /\ op.phase # "none" /\ moved # "no" /\ moved' = "no"
  /\ op' = [op EXCEPT !.reset = TRUE]
  /\ UNCHANGED <<screen, prev>> /\ RecordsKept

\* Mutant: engine_leave keeps the Undo record of an interrupted operation.
LeaveKeepingUndo(w, h, u, p) ==
  /\ op' = NoOp
  /\ word' = IF Cut THEN NoWord ELSE w
  /\ hist' = IF Cut THEN NoHist ELSE h
  /\ undo' = u
  /\ prev' = IF Cut THEN NoPrev ELSE p
  /\ request' = IF op.reset THEN NoRequest ELSE request
  /\ dead' = IF op.reset THEN 0 ELSE dead
  /\ untrusted' = (op.keyCut \/ (~op.reset /\ untrusted /\ op.key \notin {"space", "half", "enter"}))

\* engine_leave, with the records the operation itself leaves.
Leave(w, h, u, p) ==
  /\ op' = NoOp
  /\ word' = IF Cut THEN NoWord ELSE w
  /\ hist' = IF Cut THEN NoHist ELSE h
  /\ undo' = IF Cut THEN NoUndo ELSE u
  /\ prev' = IF Cut THEN NoPrev ELSE p
  /\ request' = IF op.reset THEN NoRequest ELSE request
  /\ dead' = IF op.reset THEN 0 ELSE dead
  /\ untrusted' = (op.keyCut \/ (~op.reset /\ untrusted /\ op.key \notin {"space", "half", "enter"}))

-----------------------------------------------------------------------------
(***************************************************************************)
(* Replacements.  send_replacement injects the deletions, the text and the *)
(* swallowed key in one call, after a last look for events that slipped    *)
(* past; then the layout is requested, which may wait ("sent").  A         *)
(* replacement may decline at any point: its Finish action stays enabled.  *)
(***************************************************************************)
\* Mutant: no look at the hook's time limit before injecting.
MaySendLate == op.phase = "eval" /\ ~Cut
MaySend == op.phase = "eval" /\ ~Cut /\ ~op.late
Sent == op' = [op EXCEPT !.phase = "sent"] /\ UNCHANGED <<moved, prev, untrusted, dead, hotkey>>

\* request_layout: switched at once, or queued behind what the application has
\* queued, or swallowed.  An active layout is asked for again only when an
\* earlier request for the other one may be on its way.
Asks(t) ==
  /\ request' = [age |-> "fresh", lang |-> t, from |-> layout]
  /\ \/ UNCHANGED <<layout, asked>>
     \/ layout # t /\ layout' = t /\ UNCHANGED asked
     \/ /\ layout # t \/ (request.age = "fresh" /\ request.lang # t)
        /\ asked' = t /\ UNCHANGED layout

Delimiter(b, lang) == CASE b = "space" -> <<"space">>
                        [] b = "half" -> <<IF lang = Persian THEN "zwnj" ELSE "space">>
                        [] b = "stop" -> <<"mark">>
                        [] OTHER -> <<>>
Inject(n, text, b, lang) ==
  screen' = IF b = "enter" THEN <<>> ELSE Drop(screen, n) \o Shown(text) \o Delimiter(b, lang)
Record(original, replacement, b, source) ==
  [ok |-> TRUE, original |-> original, replacement |-> replacement, b |-> b,
   lang |-> source, age |-> 0]

\* The mixture on screen, or the word in its layout.
Visible(w) == IF w.mixed THEN w.keys ELSE InSlot(w.keys, w.lang)
Targets(w) == IF w.mixed THEN Slots ELSE {Other(w.lang)}
LongEnough(w, least) == Len(w.keys) >= IF w.mixed THEN 2 ELSE least
Offered(w) == Correctable(w) /\ (IF w.mixed THEN "mixed" ELSE "word") \in Attempts

\* The key just pressed is not on the screen yet; the pause finds every key there.
CorrectWhileTyping(t) ==
  LET text == InSlot(word.keys, t)
  IN  /\ MaySend /\ op.src \in {"letter", "idle"}
      /\ Offered(word) /\ LongEnough(word, MinLive) /\ t \in Targets(word)
      /\ Inject(Len(word.keys) - (IF op.src = "letter" THEN 1 ELSE 0), text, "none", t)
      /\ undo' = Record(Visible(word), text, "none", WordLayout(word))
      /\ hist' = [hist EXCEPT !.pending = [ok |-> TRUE, keys |-> text, lang |-> t]]
      /\ word' = NoWord /\ Asks(t) /\ Sent

CorrectAtBoundary(t) ==
  LET w == Settled(word)
      text == InSlot(w.keys, t)
  IN  /\ MaySend /\ op.src = "boundary"
      /\ Offered(w) /\ LongEnough(w, MinBoundary) /\ t \in Targets(w)
      /\ Inject(Len(w.keys), text, op.key, t)
      /\ undo' = Record(Visible(w), text, op.key, WordLayout(w))
      /\ hist' = Push(hist, text, op.key)
      /\ word' = NoWord /\ Asks(t) /\ Sent

\* try_sequence_correction: the current word and the words from position
\* `from` of the history on, rewritten in one layout.
WordStarts(text) == {i \in DOMAIN text : i = 1 \/ text[i - 1].key = "space"}
CorrectPhrase(from, t) ==
  LET w == Settled(word)
      old == SubSeq(hist.text, from, Len(hist.text)) \o InSlot(w.keys, w.lang)
      kept == [hist EXCEPT !.text = SubSeq(@, 1, from - 1)
                                    \o InSlot(SubSeq(@, from, Len(@)), t)]
  IN  /\ "phrase" \in Attempts /\ MaySend
      /\ op.src = "boundary" /\ op.key \in {"space", "half"}
      /\ Correctable(w) /\ ~w.mixed
      /\ HistoryWords(old) < MaxPhraseWords /\ Len(old) <= MaxPhraseChars
      /\ \E i \in DOMAIN old : old[i].key # "space" /\ old[i].slot # t
      /\ Inject(Len(old), InSlot(old, t), op.key, t)
      /\ undo' = Record(old, InSlot(old, t), op.key, Other(t))
      /\ hist' = Push(kept, InSlot(w.keys, t), op.key)
      /\ word' = NoWord /\ Asks(t) /\ Sent

\* A snippet, a learned repair or a spelling fix, here of two characters; text
\* with line breaks or emoji has no Undo.
RewriteWord ==
  LET w == Settled(word)
      text == <<Letter("mark", w.lang), Letter("mark", w.lang)>>
  IN  /\ "text" \in Attempts /\ MaySend /\ op.src = "boundary"
      /\ Correctable(w) /\ ~w.mixed
      /\ Inject(Len(w.keys), text, op.key, w.lang)
      /\ undo' \in {NoUndo, Record(InSlot(w.keys, w.lang), text, op.key, w.lang)}
      /\ hist' = NoHist /\ word' = NoWord /\ Asks(w.lang) /\ Sent

\* try_undo: Backspace takes the delimiter back as well, the hotkey retypes it.
Restore ==
  /\ MaySend
  /\ \/ op.src = "backspace" /\ CanUndo(0)
     \/ op.src = "hotkey" /\ CanUndo(1)
  /\ Inject(Len(undo.replacement) + (IF undo.b = "none" THEN 0 ELSE 1), undo.original,
            IF op.src = "hotkey" THEN undo.b ELSE "none", undo.lang)
  /\ undo' = NoUndo /\ hist' = NoHist /\ UNCHANGED word /\ Asks(undo.lang) /\ Sent

-----------------------------------------------------------------------------
(* Timers, and the end of an operation. *)

IdleTimer ==
  /\ Idle /\ word.armed
  /\ LET w == Settled([word EXCEPT !.armed = FALSE])
     IN  \/ /\ Here /\ Language = WordLayout(word)
            /\ word' = w /\ op' = Open("idle", "none") /\ UNCHANGED hist
         \/ /\ ~(Here /\ Language = WordLayout(word))
            /\ word' = NoWord /\ hist' = NoHist /\ UNCHANGED op
         \/ word' = [word EXCEPT !.armed = FALSE] /\ UNCHANGED <<hist, op>>   \* Ctrl held
  /\ UNCHANGED <<screen, layout, asked, moved, undo, prev, untrusted, dead, request, hotkey>>

\* The hotkey's keys are up: WM_TIMER runs try_undo(0), or gives up after 2 s.
UndoTimer ==
  /\ Idle /\ hotkey /\ hotkey' = FALSE
  /\ \/ CanUndo(1) /\ op' = Open("hotkey", "none") /\ UNCHANGED undo
     \/ ~CanUndo(1) /\ undo' = NoUndo /\ UNCHANGED op
     \/ UNCHANGED <<undo, op>>
  /\ UNCHANGED <<screen, layout, asked, moved, word, hist, prev, untrusted, dead, request>>

\* The key of the operation reaches the application, unless it has already.
Delivered == IF op.late THEN UNCHANGED screen ELSE KeyLands
Finishing(src) == op.phase = "eval" /\ op.src = src /\ UNCHANGED <<layout, asked, moved, hotkey>>

FinishLetter ==
  /\ Finishing("letter") /\ Delivered
  /\ \E armed \in BOOLEAN :
       /\ armed => Correctable(word) /\ LongEnough(word, MinLive)
       /\ Leave([word EXCEPT !.armed = armed], hist, undo, prev)

\* The boundary of a word left as it is; a space after a corrected word commits it.
FinishBoundary ==
  LET w == Settled(word)
      hadWord == w.keys # <<>> \/ w.over > 0
      commits == ~hadWord /\ hist.pending.ok /\ op.key \in {"space", "half"}
      tracked == Correctable(w) /\ ~w.mixed
      ended == IF commits THEN [NoPrev EXCEPT !.ok = TRUE, !.keys = hist.pending.keys,
                                              !.lang = hist.pending.lang]
               ELSE [NoPrev EXCEPT !.ok = TRUE, !.keys = InSlot(w.keys, w.lang), !.lang = w.lang]
      h == IF commits THEN Push([hist EXCEPT !.pending = NoPending], hist.pending.keys, op.key)
           ELSE IF tracked THEN Push(hist, InSlot(w.keys, w.lang), op.key) ELSE NoHist
  IN  /\ Finishing("boundary") /\ Delivered
      /\ \E p \in {NoPrev} \cup (IF (commits \/ tracked) /\ op.key \in {"space", "half"}
                                 THEN {ended} ELSE {}) :
           Leave(NoWord, h, undo, p)

FinishBackspace ==
  /\ Finishing("backspace") /\ Delivered
  /\ IF Cut THEN Leave(NoWord, NoHist, NoUndo, NoPrev)
     ELSE PlainBackspace /\ op' = NoOp /\ UNCHANGED untrusted

FinishTimer ==
  /\ \/ Finishing("idle") /\ Leave(word, hist, undo, prev)
     \/ Finishing("hotkey") /\ Leave(word, hist, NoUndo, prev)
  /\ UNCHANGED screen

FinishSent ==
  /\ op.phase = "sent"
  /\ Leave(word, hist, undo, NoPrev)
  /\ UNCHANGED <<screen, layout, asked, moved, hotkey>>

-----------------------------------------------------------------------------
Typing == \/ \E k \in Keys : LetterKey(k)
          \/ \E b \in Boundaries : BoundaryKey(b)
          \/ BackspaceKey \/ UndoBackspace
Disturbance == \/ \E kind \in 0..2 : UntrackedKey(kind)
               \/ NavigationKey \/ ShortcutKey \/ UndoHotkey \/ \E to \in Layouts : ManualSwitch(to)
               \/ ForeignKey \/ Click \/ FocusMoves \/ SwitchWindow
               \/ HookTimesOut \/ NestedKey \/ NestedClick
Delay == RequestAges \/ UndoAges \/ LayoutArrives \/ FocusEvent \/ NestedFocusEvent
Timer == IdleTimer \/ UndoTimer
Replacement == \E t \in Slots :
  \/ CorrectWhileTyping(t) \/ CorrectAtBoundary(t)
  \/ \E from \in WordStarts(hist.text) : CorrectPhrase(from, t)
Finish == FinishLetter \/ FinishBoundary \/ FinishBackspace \/ FinishTimer \/ FinishSent
Engine == Typing \/ Delay \/ Timer \/ Replacement \/ RewriteWord \/ Restore \/ Finish
Next == Engine \/ Disturbance
Spec == Init /\ [][Next]_vars

-----------------------------------------------------------------------------
Lang == Slots \cup {"none"}
Text == Seq(Char)
Letters == Seq([key : Keys, slot : Slots])
Word == [keys : Letters, lang : Lang, mixed : BOOLEAN, over : Nat, ctx : BOOLEAN,
         skip : BOOLEAN, armed : BOOLEAN]
Finished == [ok : BOOLEAN, keys : Letters, lang : Lang]
History == [text : Text, over : BOOLEAN, pending : Finished]
UndoRecord == [ok : BOOLEAN, original : Text, replacement : Text,
               b : Boundaries \cup {"none"}, lang : Lang, age : 0..2]
Request == [age : {"none", "fresh", "held", "late", "dead"}, lang : Lang,
            from : Layouts \cup {"none"}]
Operation == [phase : {"none", "eval", "sent"},
              src : {"none", "letter", "boundary", "backspace", "idle", "hotkey"},
              key : Keys \cup Boundaries \cup {"none", "back"}, dead : 0..2,
              late : BOOLEAN, keyCut : BOOLEAN, reset : BOOLEAN]

\* Every buffer the source sizes for the worst case holds what is put into it, and
\* whatever will be typed again or asked for is in a layout of the pair.
WordOK(w) == w \in Word /\ Len(w.keys) <= MaxWord /\ (w.ctx \/ w.keys # <<>> => w.lang \in Slots)
FinishedOK(p) == p \in Finished /\ Len(p.keys) <= MaxWord /\ (p.ok => p.lang \in Slots)
HistOK(h) == h \in History /\ Len(h.text) <= MaxHistoryChars + 1 /\ FinishedOK(h.pending)
UndoOK(u) == u \in UndoRecord /\ (u.ok => u.lang \in Slots)
RequestOK(r) == r \in Request /\ (r.age = "fresh" => r.lang \in Slots)
OpOK(o) == /\ o \in Operation /\ (o.src = "letter" => o.key \in Keys)
           /\ (o.src = "boundary" => o.key \in Boundaries) /\ (o.src = "backspace" => o.key = "back")
TypeOK ==
  /\ screen \in Seq(Shape) /\ layout \in Layouts /\ asked \in Layouts \cup {"none"}
  /\ moved \in {"no", "element", "window", "seen"}
  /\ WordOK(word) /\ HistOK(hist) /\ UndoOK(undo) /\ FinishedOK(prev)
  /\ untrusted \in BOOLEAN /\ dead \in 0..2 /\ RequestOK(request)
  /\ hotkey \in BOOLEAN /\ OpOK(op)

-----------------------------------------------------------------------------
(***************************************************************************)
(* What the records promise about the text.                                *)
(***************************************************************************)
\* Between operations, the sentence and the word (or the corrected word) the
\* engine keeps are what stands before the caret: the premise of every delete
\* count (keyboard_hook_body, try_sequence_correction).
ModelMatchesScreen ==
  Idle /\ moved \in {"no", "seen"} /\ ~word.skip =>
    EndsWith(KeysOf(Drop(screen, word.over)),
             KeysOf(Shown(hist.text \o IF hist.pending.ok THEN hist.pending.keys ELSE word.keys)))

\* An Undo record is kept only while its replacement and delimiter are still
\* the last thing before the caret (try_undo deletes that many characters).
UndoMatchesScreen ==
  Idle /\ moved = "no" /\ undo.ok /\ undo.b # "enter" =>
    EndsWith(KeysOf(screen), KeysOf(Shown(undo.replacement) \o Delimiter(undo.b, undo.lang)))

\* A word judged in one layout has no key another layout rendered, so its text
\* is InSlot of its keys (evaluate_mixed_word, g_word_mixed); the same holds of
\* what Backspace may reopen and of a corrected word.
UnmixedMeansUniform ==
  /\ ~word.mixed => \A i \in DOMAIN word.keys : word.keys[i].slot = word.lang
  /\ prev.ok => \A i \in DOMAIN prev.keys : prev.keys[i].slot = prev.lang
  /\ hist.pending.ok => \A i \in DOMAIN hist.pending.keys :
                          hist.pending.keys[i].slot = hist.pending.lang

\* Whatever happens between two of its steps, the engine never changes the
\* text in a way the user did not type or Undo does not explain.
Editor == INSTANCE TextEditor WITH
            WordKeys <- Keys, OtherKeys <- {"space", "mark", "unread"},
            MaxReplaced <- MaxWord, doc <- KeysOf(screen), stale <- moved = "element"
ShowsWhatWasTyped == Editor!Spec

\* ARCHITECTURE.md:193: a word with a key one layout of the pair cannot type is
\* left alone to its end.  A replacement never starts right after such a key.
Injects == op.phase = "eval" /\ op'.phase = "sent" /\ op.src \in {"letter", "boundary", "idle"}
WordOnScreen == Len(word.keys) - (IF op.src = "letter" THEN 1 ELSE 0)
LeftAlone ==
  [][Injects /\ moved = "no" /\ WordOnScreen < Len(screen)
     => screen[Len(screen) - WordOnScreen] # "unread"]_vars

\* ARCHITECTURE.md, item 10: the exact original is retained.  The separators an
\* Undo record will type back are those the replacement deletes.
ExactOriginal ==
  [][undo'.ok /\ ~undo.ok /\ moved = "no" /\ undo'.replacement[1].key # "mark" =>
       LET n == Len(undo'.original) - (IF op.src = "letter" THEN 1 ELSE 0)
       IN  SubSeq(screen, Len(screen) - n + 1, Len(screen)) = SubSeq(Shown(undo'.original), 1, n)]_vars
=============================================================================
