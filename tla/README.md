# A TLA+ model of KeySwitchFix

KeySwitchFix watches the keyboard with a low-level hook, follows the word being
typed, and when the word makes sense in the other layout of a language pair it
deletes what the application shows and types it again in that layout. The
program is single-process and single-threaded C on Win32. What makes it hard is
that its thread is re-entered: any call that waits for another thread (asking
the accessibility tree, switching a layout, opening the clipboard) may run the
hook, the focus callback or the timers again, while the records the outer call
relies on describe the text as it was.

The specifications translate `src/src/*.c`. Line numbers in comments and below
are of those files (`app.c` unless said otherwise). TLA+ names follow the C
names where that is possible.

## Inventory

| component | state it keeps | operations | what is hard | what must hold |
|---|---|---|---|---|
| typing engine (`app.c`) | word `g_word*`, history `g_history`, pending word, Undo record, previous word, layout request, `g_dead_key_word`, `g_word_untrusted`, `g_engine_depth`, interrupted/reset flags | `keyboard_hook_proc`, `mouse_hook_proc`, pause timer, Undo by Backspace or hotkey, focus reset, `send_replacement` | nested hooks, late hooks, events queued behind the operation, resumed and reopened words | a replacement deletes exactly the text it was computed from; records describe the text before the caret; Undo gives back what was typed |
| focus guard (`app.c`) | focused element, `g_focus_event_protected`, cached facts, attempts, posted message, two timers | `focus_event_proc`, `run_focus_query`, `WM_APP_FOCUS_QUERY`, two timers | answers that come late or never, events inside the query itself | a password field is never corrected in; an unknown field is eventually decided |
| selection clean-up (`app.c`) | step, sequence number, clipboard snapshot, retries | hotkey, timer tick, exit | other programs write the clipboard between any two calls | never pastes elsewhere, never clobbers a newer copy, gives the clipboard back, always ends |
| sentence context (`core.c`, `app.c`) | evidence slot and strength, its window and time; sentence window and flag; the preferred language | observe, read, clear, sentence start/mark/end | evidence left over from another window or another time | evidence and sentence are of one window; evidence weighs as documented |
| layout switching (`app.c`) | `g_layout_request_*`; the application's queues of sent and posted messages and of keys | `request_layout`, repeat, forget, the tests for a late switch, keys typed in the application's place | posted and sent messages overtake each other; answers come late, never, or from another window | no key in the wrong alphabet; the switch arrives; the last request wins |
| layout decision (`core.c`) | none of its own: word facts, evidence, sentence flag, mode; `g_key_interval` | `ks_evaluate_contextual`, `ks_evaluate_sequence` at a key, a pause and the end; key interval, idle delay | weights and thresholds that must agree with what answers leave behind | a correction is not turned back; an Undo is respected; two keys are never guessed (disagreement 9) |
| writing memory (`memory.c`, `app.c`) | learned words with counts, fix pairs, hash slots, clock; peak of the word, previous word | note, take back, age, evict, repair, reject, unlearn | table full, ageing, slots rebuilt, equal counts in any order | every surviving word findable; repairs are earned; known words stay known |
| memory file (`app.c`) | file, temporary file, time stamp, dirty, read-only and failed flags, timer | load, save, hand edit, forget, learning on and off, exit | edits between check and replace, failing calls, crashes | an edit by hand is not lost; forgotten is forgotten; the file is whole; what is learned arrives |
| spelling (`spell.c`, `app.c`) | session vocabulary, ignore ring | candidate search, ignore after Undo | ring wraps | an ignored word is not fixed again |
| typing helpers (`typing.c`, `app.c`) | capitalisation flags, snippets, statistics | shape a character, macros, calendars | text functions | as documented per helper |
| hook watchdog (`app.c`) | hook handles, tick counts of hooks and of Windows, last attempt | `install_hooks`, `check_hook_health` | a silently detached hook looks like elevated input | detached hooks come back, healthy ones are not churned, no record has a key missing |
| settings, snippets, personal dictionary files | files | read, write whole | partial writes | old or new content, never a mixture |
| dictionaries, language packs, domain vocabulary | constant tables | look-up, bounds-checked parser | none that interacts | parser accepts only consistent packs |
| installer and uninstaller (`installer.c`) | staged, installed and backup files, packs, registry, clean-up at the next sign-in | swap with roll-back, uninstall, clean-up | a rename fails half-way, and so does its undo; Setup is killed; the program is running and saves settings it read earlier | all old or all new; the user's choice is kept; an uninstalled program is gone; a reinstalled one stays |
| dashboard, tray, welcome window | controls | window procedure | user interface only | - |

Interaction is by shared globals. Every event enters through `engine_enter`
and ends in `engine_leave`; an event that arrives while `g_engine_depth > 0` is
passed on and only leaves a mark (`g_engine_interrupted`, `g_reset_pending`),
which the outer operation must look at before it changes text, and which
`engine_leave` turns into forgetting. The focus guard resets the engine; the
engine asks the guard's cached facts before each correction; corrections feed
the sentence context and request a layout; the clean-up shares the timers, the
modifiers and `engine_enter` with the rest.

`PROJECT.json` lists the hazards of this code, each at the line where it bites,
with the properties that would catch it.

## Modules

| module | models | refines |
|---|---|---|
| `WordEngine` | typing engine | `TextEditor`: a text that is only what was typed, erased, expanded or put back |
| `LayoutSwitch` | layout requests against an application's queue | - |
| `LanguageContext` | sentence context in automatic mode | `Evidence`: a signed balance in one window |
| `Decision` (extends `LanguageContext`) | layout decision, the words it is taken over and what it leaves in the context; preferred languages | `Evidence` again, while no language is preferred |
| `FocusGuard` | focus events and password query | - |
| `SelectionCleanup` | Ctrl+Win+X clean-up | - |
| `HookWatchdog` | the two hooks and their watchdog | - |
| `WordTable` | tables of the writing memory (operators only) | - |
| `WritingMemory` (extends `WordTable`) | the writing memory in use | `Vocabulary`: a plain bounded count of words |
| `MemoryFile` | `writing-memory.txt` | - |
| `Installer` | Setup and the uninstaller | - |
| `WordEngineProofs`, `DecisionProofs` (with those of `LanguageContext`), `FocusGuardProofs`, `SelectionCleanupProofs`, `KeyboardProofs`, `WritingMemoryProofs`, `MemoryFileProofs`, `InstallerProofs` | theorems | |
| `MC*` | instances for TLC | |

Definitions whose comment begins with "Mutant:" are not part of a model. Each is
a plausible wrong version of the definition next to it, and shows that some
property would notice.

### WordEngine

State: what the application shows before the caret (`screen`), the layout it
renders with and one layout change on its way (`layout`, `asked`), whether focus
has moved without the engine knowing (`moved`), the engine's records, and the
operation in progress (`op`).

A word key, a boundary key, an Undo or a timer is split where the code can be
re-entered. `LetterKey`, `BoundaryKey`, `UndoBackspace`, `IdleTimer`, `UndoTimer`
open an operation (phase `eval`); nested keys, clicks, focus events and the
expiry of the hook's time limit may happen in it; a replacement action
(`CorrectWhileTyping`, `CorrectAtBoundary`, `CorrectPhrase`, `RewriteWord`,
`Restore`) may inject, which leads to phase `sent` because the layout request
waits too; `FinishLetter`, `FinishBoundary`, `FinishBackspace`, `FinishTimer` or
`FinishSent` is `engine_leave` with what the handler still does before it. All
other keys are one step.

Abstractions:

* A character is a key and the layout slot it is read in. Two words with the
  same keys are the same text in two layouts, which is exactly what a correction
  keeps. Dictionaries, spelling and snippets are an oracle: wherever the code
  may find a correction the model lets it be found or not. So nothing shown here
  depends on dictionary content.
* `RewriteWord` stands for every replacement by text of another length. It is
  given two characters.
* Times are ages: a layout request is fresh, held, late or dead; an Undo record
  is at most 5 s, at most 15 s, or older.
* The pair has two slots. A third layout ("other") makes the engine stand aside;
  excluded applications and a disabled engine behave like it and are not
  distinguished.

Assumptions about Windows, where the code makes the same ones: `SendInput`
injects all of a batch or nothing; the work left after `send_replacement` looks
at its time budget fits in the other half of the hook's limit; a window switch
delivers its focus event before the user is back in the first window.

Not modelled: sentence capitalisation and punctuation shaping, the repair of a
word by hand that the writing memory watches, Excel's cell mode, the release of
suppressed keys, applications that correct the typed text themselves.

### SelectionCleanup

Steps 1, 2 and 4 of `continue_selection_cleanup`, cut at every place where the
code looks at the clipboard again (`at`): the snapshot and the key that copies;
owner and sequence check; read; judge; write; paste; restore. Between these
others may write the clipboard. The clipboard keeps its content, which of the
user's copies it is, owner and sequence number, the four things the code
compares.

`Troubles` names what an instance lets happen. The passing run allows "slow" (the
application copies after the last poll) and "busy" (the clipboard cannot be
opened); `excuse` records that one of these happened, and only then the user's
clipboard may be gone. "race", a copy landing between two clipboard calls that
belong together, is left out there: between `clipboard_set_text` closing the clipboard
and the next `GetClipboardSequenceNumber`, where it is taken for our own, and between
the look at the sequence number (5142) and `EmptyClipboard` (4986), where it is
dropped. The code has no defence against either, and no document promises one.

`Owners` names who may own a foreign copy. "none", a copy whose program has ended
or named no window, is left out of the runs too: the code takes it for the
application's own copy on purpose (5135), because it has nothing to compare.

Assumption: the application has read the paste before the restore 900 ms
later. The code has nothing but that time either. A click within the same field
during a clean-up is not noticed by the code and not a separate event here.

### LayoutSwitch

`request_layout` sends a request where the focused window's thread answers in
time and posts it otherwise; the application takes what was sent first, then what
was posted, then keys. `RequestLayout` is the whole function: nothing to do, an
answer (with the broadcast to all windows when the window swallowed it), or a
time-out, with or without the message having been sent. `Translate` is a key the
hook types itself while `SwitchStillPending`, with the repeated request, which goes
to the focused and the top window only (`Repeated`, 2525-2532); `PassKey` is a key that
goes to the application; `SwitchByHand` is the user's own switch, which forgets the
request. `app` is fixed for a behaviour: the window by which the application honours
requests (`Apps`) is the focused one, the top one, another of its thread's (UWP
hosts), or none (remote desktops). A posted message says `to` whom it went, and
`Honoured` whether that window switches.

So an application that switches by another window only is reached by the broadcast,
which follows an answer, and never by what follows a time-out: it stays in the old
layout, its keys are translated for as long as the request counts, and then typed
in the old one. `SwitchArrives` promises the switch for the first two kinds, and for
the third while a broadcast is posted. That is the code's own limit, and no document
says otherwise.

History: `want`, the language the user writes, and `clean`, that nothing else was
queued when it was asked for. Assumption: a change of layout may overtake keys
still queued from before it, since which comes first is for Windows to order;
`Overtaken` keeps these keys out of the property. `WordEngine` sees this module as
one change on its way (`asked`).

### LanguageContext

Every operation that reads, adds or forgets evidence or moves the sentence, each
with all helper calls it makes, in their order, folded into one step. Time is
one bit: evidence is younger or older than 90 s. This specification has no run of
its own: `Decision` takes its steps, and its properties are proved.

### Decision

`CorrectNow`, `WaitForIdle` and `PhraseSlot` are `ks_evaluate_contextual` and
`ks_evaluate_sequence` with all their weights. `typed` is the word before the
caret with its stage: typed, waiting for the pause, turned, undone. `Type` judges
a word as typed so far, `Pause` is the timer, `EndWord` a boundary key (phrase
first, then word, then what is learned from a word that stays), `TakeBack` is
Undo, `Prefer` changes the writing-language mode from the tray (which forgets the
evidence) or from the settings window (which does not, 5828-5835).

Abstractions:

* A word is what the dictionaries say of its keys in each layout: known, known only by
  another spelling (`aliased`: a Persian alef for alef-madda, a final sigma written
  as another, `core.c:391-416`), frequent, everyday, the user's own, the beginning of a
  longer word, an opening quote, and the prior of its collision. `WordsAssumption`
  states what the tables hold: priors of -59 to 75, for two keys -38 to 0, and
  two-key words on the list of frequent ones unless they are aliased, since a
  frequency is looked up in the spelling that was typed (`core.c:521`). Words whose text is the same in both layouts
  are left out, there is nothing to turn in them; mixed words are in `WordEngine`.
* Which earlier words a phrase takes up is open within `Phrases`: the 64-character
  limit and the visible layouts of earlier words make any run of up to four
  possible.
* A pause comes whenever it comes. The key interval that sets its length is left
  out: an average above 500 ms restarts at 150 ms, and no property depends on it.

### FocusGuard

Events are a queue, delivered one at a time whenever our thread pumps messages:
between operations, within an engine operation, within the query's own COM call
(`Deliver*`). `run_focus_query` is a question (`query`) with the element asked,
whether the focus moved since, the reply and the round. `Decide` is
`focus_facts`, which answers a correction from the cache if there is an answer.

`com` is whether COM started in this process (7349-7350). Without it no application is
asked, `Reply` is the answer "ordinary" at once (3179), and no event comes inside the
question (`Pumping`), because nothing waits. `PasswordsAreLeftAlone` and
`TurnedIsNoticed` speak of a process with COM: see disagreement 8.

One top-level window; native password edits (known at once from a window style)
and the cache's life of five seconds are left out.

### HookWatchdog

Windows calls a hook, has detached it, or it was never set (`hook`). The system's
own count of the last input against the hooks' counts is all `check_hook_health`
can see. Tick counts are ages up to a bound beyond which the code tells no two
apart; the wrap after 49 days is left out. `Revive` tries a missing hook again and
keeps what the engine tracks; `Reinstall` is `install_hooks`, which drops it.
Clicks missed while only the mouse hook is gone are not counted as missing: the
code finds them with the same check and promises nothing in between.

### WordTable and WritingMemory

`WordTable` has the hash slots with their probing, counts, eviction with ageing,
reload from the file, and the repairs, as operators on a record. `qsort` may leave
equal words in any order: `Ranked` is the set of orders it may make of a set of
words, and an eviction or a reload is a set of tables. `WritingMemory` has
the operations of the engine that use them: `Boundary` (a word typed straight: its
learned repair is made, or it is noted), `EditWord` and the repairs made by hand,
`Reopen` (Backspace after a word takes its use back), `Undo`, `Restart`. Dictionary and
likeness of a typo and its repair are the constants `Real`, `Pairs` and `MidPairs`.
History: `made`, the hand repairs since a pair was last undone.

### MemoryFile

A save is cut at its system calls (`write`, `flush`, `move`, `time`), so that edits,
locks and crashes come between any two. `edit` remembers an edit by the user that
was not read yet: "quiet" when no save was running, "racing" otherwise; the code
can only promise the first, as the window between its check and the replacement
is open (1078). `forgotten` remembers what the user was told is forgotten.
`PartialReads` lets `ReadFile` fail on a file that could be opened; see the
disagreements. Parsing is by what it keeps: words typed twice.

### Installer

One action per system call that changes something, each of which may fail
(`Fault`, at most `MaxFaults` in a run), and `Crash` between any two, with the
copies that are left. A running program's file can be renamed but not deleted or
replaced. `Setup` is the wizard (staging, swap, roll-back, packs, settings, Run
entry, registration), `Uninstall` to `EndUninstall` the uninstaller; `SignIn` and
`SelfDelete` are what they arranged for later. The program does not start within
the milliseconds of the swap. A failing call that the code does not check
(`cancel_pending_cleanup`, 459-470; the uninstaller's registry and shortcuts) goes on
without a problem being noted.

The program takes part while it runs, also from a file that an upgrade renamed,
while Setup works and after an uninstall. `load_settings` (`app.c:615-629`) reads
"Start with Windows" into `startWithWindows`, as on where the line is missing.
`SaveSettings` is `save_settings` (`app.c:720-761`): it writes the line and then the Run
entry from that memory, and either may fail. `Toggle` is the check box; `SaveOther` is
every other caller (Pause, the tray menu, any control). The version from before the
line (version 1) keeps the choice in the Run entry alone (`OlderToggle`).

History: `before`, the installation when Install was pressed, with what the program
saved since; `choice`, what the user may have chosen last, several values when a
write failed; `turned`, that the program has since saved another value, or made a
settings file without the line; `saved`, that it saved after Setup wrote the settings;
`uncancelled`, that Install could not cancel a clean-up; `result`, which is "kept" when a
clean-up found the program started by its Run entry.

## Runs

All bounds are constants of the `.cfg` files.

| run | checks | shows |
|---|---|---|
| `engine_words` | `TypeOK`, `ModelMatchesScreen`, `UndoMatchesScreen`, `UnmixedMeansUniform`, `ShowsWhatWasTyped` | single words of up to three keys, corrected while typed, at boundaries and as mixtures, with a third layout, late hooks, late layouts and one disturbance anywhere |
| `engine_texts` | `ModelMatchesScreen`, `UndoMatchesScreen`, `ShowsWhatWasTyped` | phrase corrections over a history and rewriting replacements with their Undo |
| `decision` | `EvidenceOfTheSentence`, `TurnedStays`, `WeighsInAuto`, `TwoKeysNeedContext` | words of two, three and five keys with all ranks and spellings of their readings, phrases of two to four words, three modes, two windows |
| `layout_switch` | `RightAlphabet`, `SwitchArrives` | requests, repeats, keys and switches by hand in every order, applications that switch by the focused, the top, another or no window |
| `layout_overtaken` | `LastRequestWins` | disagreement 1 |
| `focus_guard` | `PasswordsAreLeftAlone`, `WordKeepsItsCorrection`, `UnknownIsAnswered` | a password field and a form field that turns into one, three focus moves, two state changes, with COM and without |
| `turned_field` | `TurnedIsNoticed` | disagreement 2 |
| `cleanup` | `LeftAsFound`, `PastesOnlyTheSelection`, `NeverClobbersNewerCopy`, `CleanupEnds` | two clean-ups, two foreign copies, slow and busy clipboards, exit at any tick |
| `hook_watchdog` | `NoKeyMissing`, `NoChurn`, `KeyboardComesBack` | hooks detached and refused at any time, elevated windows, both devices |
| `writing_memory` | `TypeOK`, `WordsAreFindable`, `RepairsAreEarned`, `KnownStaysKnown`, `ImplementsVocabulary` | three words of which two fit and two share a hash, one repair, five sightings and a restart |
| `memory_file` | `TypeOK`, `ForgottenStaysForgotten`, `FileIsWhole`, `HandEditsWin`, `StopsWithoutLoss`, `LearnedReachesDisk` | two words, two edits, locks, failing calls and crashes anywhere |
| `installer` | `SignInSparesInstall`, `FailureChangesNothing`, `SuccessIsWhole`, `ChoiceKept`, `UninstalledIsGone` | two runs of Setup or the uninstaller, a failing call in each, crashes anywhere, and a program that saves its settings at any moment |

Kept beside them and run by hand, each with a counterexample to one property:
`MCUnreadKey`, `MCHotkeyInWord`, `MCPhraseUndo` (module `MCWordEngine`),
`MCCleanupCancelled` (`MCSelectionCleanup`), `MCUnreadFile` (`MCMemoryFile`),
`MCWithoutCom` (`MCFocusGuard`), `MCAliasedWord` (`MCDecision`), `MCUncancelledCleanup` and
`MCChoiceTurned` (`MCInstaller`); see the disagreements. `decision` was also run with
`Sensitivity` 0 and 1 and passes.

`TypeOK` of the clean-up, the guard, the context, the watchdog, the layout switch
(`SwitchTypeOK`) and the installer is proved and not run.

Why the bounds are enough.

* Engine: it never looks at which key was pressed except to find its class, so
  one word key suffices: `ModelMatchesScreen` compares lengths and separators, and a
  wrong count shows with one key as with twenty-six. Limits are small, but each is
  reached and crossed: `MaxWord` 3 with `MinLive` 2 has words that are too short,
  correctable, full and overflowing; a history of one word and two characters is
  filled and abandoned. `MaxScreen` 3 or 4 holds a word, its separator and the word
  after it. `MaxDisturbances` counts the events that are not plain typing,
  correction, time or timers. One of them, at any place and in any order with
  unlimited typing, is what the engine's defences are written against; two are
  beyond five minutes of TLC. `HotkeyInWord` is FALSE in the passing runs because of
  disagreement 4. `MaxWord = 1` in `engine_texts` keeps phrases at three characters.
  0.8 and 1.5 million states.
* `decision`: the weights are the code's own; the words take each rank of each
  reading and the ends of the range of the priors. 56,049 states.
* `layout_switch`: `Late` 2, `Episode` 3 let a request be fresh, repeated, late and
  dead; five messages and keys in the queues hold two requests with keys before,
  between and after. 440,928 states.
* `focus_guard`: two fields, and a third move back; two rounds are the first
  question and one retry. 170,954 states. `cleanup`: a second clean-up starts from what
  the first left. 0.34 million states.
* `hook_watchdog`: `Limit`, `Interval` and `Retry` keep the order they have in the
  code; ages are kept past every limit. 68 thousand states.
* `writing_memory`: three words for two places make every new word evict; three
  slots with a shared hash make probing wrap. `MaxClock` 5 sightings between
  restarts make a word known (three), evict and age. 305,625 states.
* `memory_file`: two words tell an edit from what was learned; two edits let one
  follow the other into a save. 100,052 states.
* `installer`: two runs are an upgrade over what a killed one left, or an uninstall
  and a reinstall; with one fault in each the roll-back of every rename is met.
  737,275 states. With two faults in one run (3.4 million states)
  `SignInSparesInstall`, `SuccessIsWhole` and `ChoiceKept` hold as well;
  `FailureChangesNothing` does not, see below.

`CHECK_DEADLOCK FALSE` is set where the system may stop: an exited program in the
clean-up, a screen that is full in the engine, used-up moves in the guard, used-up
sightings in the writing memory.

### Fairness

* `cleanup`: `WF(Tick)` because Windows delivers a `WM_TIMER` as long as the
  timer is set and the message loop runs, `WF(Deadline)` because time passes. The
  user and the application owe nothing; modifiers may be held for ever.
* `focus_guard`: `WF(EndOp)`, `WF(Reply)`, `WF(Query)`: an operation ends, COM returns
  an answer or an error, and our own code goes on. `SF(work = "idle" /\ AskTimer)`
  and `SF(work = "idle" /\ AskMessage)`: operations begin and end for as long as
  the user types, and the message loop must get to a timer and a posted message
  between two of them. Weak fairness would not do, because each operation
  disables these; fairness of the unguarded actions would be too weak, because the
  action within an operation only puts the question off.
* `layout_switch`: `WF(TakeSent)`, `WF(TakePosted)`: the application goes on taking
  messages. Whether it honours them is left open.
* `hook_watchdog`: `WF(TimePasses)` and `WF(Check)`: the clock runs and the timer is
  served. `SF` of a check that sets the missing hooks: Windows may refuse a hook
  again and again, but not for ever.
* `memory_file`: `SF(SaveTimer)`, because other operations come between; `WF(Calls)`, a
  system call returns; `WF(Unlock)`, the program that holds the file lets go of it; `SF`
  of a flush and of a move that succeed: the disk may refuse, but not for ever.
* `installer`: `WF(SignIn)`, `WF(SelfDelete)`: the user signs in again some day, and a
  command that was started runs.

The engine, the decision and the writing memory have safety properties only.

### Disagreements between code and documents

1. `layout_overtaken`. The comment at 2475-2477 says a new request must be posted
   behind an earlier one still queued. Superseding only prevents the early return
   (2489); then the new request is sent first (2504), overtakes the posted one, and
   the application ends in the layout asked for first.
2. `turned_field`. The comment at 3219-3220 and `CHANGELOG.md:72-73` say a field that
   turns into a password field is noticed. The event is dropped while a question
   about an earlier element is still posted (3227), and that question, when it
   comes, finds nothing unknown.
3. `MCUnreadKey`. `docs/ARCHITECTURE.md:193` promises that a word with a key one
   layout cannot type is left alone to its end. After that key and a letter,
   Backspace forgets the word, and with it that it is to be left alone
   (4250-4263); the letters typed next are corrected.
4. `MCHotkeyInWord`. `docs/ARCHITECTURE.md:119-121` says the phrase history is
   cleared whenever the caret model can no longer be trusted. The Undo hotkey in
   the middle of a word forgets the word and keeps the history (4121-4124), though
   the word's letters now stand between the history and the caret.
5. `MCPhraseUndo`. `docs/ARCHITECTURE.md:48` says the exact original is retained.
   Shift+Space is recorded as a half-space also where the application's layout made
   it a space (4472), so Undo of a phrase types another character than there was.
6. `MCCleanupCancelled`. The comment at 5081 says the user's clipboard is put back.
   A clean-up cancelled after the application copied compares with the sequence
   number from before the copy and puts nothing back.
7. `MCUnreadFile`. The comment at 1070-1072 says a file that could not be read is
   never replaced. A file that opens but cannot be read (a range of it is locked)
   counts as empty (857), and the next save replaces it.
8. `MCWithoutCom`. The comment at 7346-7347 says that without COM "the password check
   fails closed", and `CHANGELOG.md:75-76` that "a password field that cannot be asked is
   treated as one". `accessible_is_protected` answers 0 then (3179), an ordinary field, at
   the first question: a password field that is not one of Windows' own is corrected
   in. A field that is silent twice counts as ordinary too (3304-3311), by design,
   which `PasswordsAreLeftAlone` allows.
9. `MCAliasedWord`. `README.md:235-236` and `docs/SMART_DETECTION.md:121-122` say a two-key
   collision is never guessed from frequency. A two-key reading that is known only
   as an alias (alef for alef-madda, `core.c:406-416`) is looked up for its frequency as
   typed (`core.c:521`) and is not found, so that the frequency counts for the other
   reading alone: at the end of such a word, without any context, it is corrected at
   sensitivity 1 and above.
10. `MCUncancelledCleanup`. `CHANGELOG.md:253-254` says a reinstall before the sign-in
   cancels the removal of files in use, as does the comment at `installer.c:457-458`.
   `cancel_pending_cleanup` (459-470) ignores a key that cannot be opened and a value
   that cannot be deleted, and notes no problem: Setup reports success, and the next
   sign-in deletes the folder.
11. `MCChoiceTurned`. `CHANGELOG.md:255` says an upgrade keeps the "Start with Windows"
   choice. The program reads it when it starts, as on where there is no line
   (`app.c:627`), and writes it back with every other setting (734-735, 759). An upgrade of
   an older installation with the entry off, killed after the swap and before the
   settings are written, leaves the new program over the old settings: started
   once, one Pause saves "on", and the next Setup offers that.

Seen while modelling, from the code alone or from instances outside the passing
runs; no run stands for them:

* `install_hooks` keeps `g_prev_word`, which a Backspace soon after may reopen (4208).
* `g_facts.computed_at = 0` means invalid, but right after Windows starts, and when the
  tick count wraps, it is also recent (3102).
* The file deleted by hand does not clear the memory, and the next dirty save makes
  it again. Turning learning off while a save fails, or while the file is
  read-only, loses what was learned (against 1138); so does the read that ends the
  read-only state. A `.tmp` left by a crash outlives "Forget everything". Repairs seen
  once are saved, words are not.
* With two faults in one run of Setup the program may be missing although the
  message says the previous version was kept. Setup killed between backup and swap,
  and run again, deletes the only copy before it has another (against 165-168). The
  uninstaller's own delayed delete is not cancelled by a Setup that starts within its
  two seconds. `/uninstall` leaves `.old` and `.new` files. A program that could not be
  closed goes on after the uninstall, and any setting it saves puts the Run entry
  back (759); the next sign-in starts it, and the clean-up finds it in use and leaves
  it. The same happens where the entry could not be removed. `UninstalledIsGone`
  allows both ("kept").
* The settings window keeps the evidence when the writing language changes
  (5828-5835), the tray menu clears it (7051): evidence observed under a preference
  counts later in automatic mode, and so `WeighsInAuto` is about steps in that mode.
* Undo of a one-sided word, or of a phrase, is not remembered: the same keys are
  corrected again. `TurnedStays` says so for words that exist in both layouts only.
* `docs/SMART_DETECTION.md:45-46` says two-key words wait for a pause; `core.c:914`
  decides them at the end of the word only. `docs/SMART_DETECTION.md:112` says context cannot
  suppress one-sided evidence; a Latin sentence does for short words
  (`core.c:829-832`).

## Proofs

What TLC shows for an instance, these show for every value of the constants. Every
safety property of every passing run, invariant or action property or refinement,
has a theorem; the liveness properties have none.

### WordEngineProofs

* `BuffersHold`: the type invariant, which holds every buffer within its limit: the
  word within `MaxWord` keys, the history within `MaxHistoryChars` characters and one
  more separator, every recorded or asked layout one of the pair or "other". It is
  inductive as it stands. One lemma per record (what an operation makes of a word, a
  history, an Undo record) and one per group of actions.
* `UnmixedWordsAreUniform`: `UnmixedMeansUniform`, inductive with the types. The step
  that decides is the key after a layout change: `FoundWord` marks the word as mixed
  before the key is added, so a key of another layout never joins an unmixed word;
  `evaluate_mixed_word` hands a word back as unmixed only when its keys agree;
  Backspace and a resumed word only drop keys or take over a finished word that has
  the property.
* `SentenceOnScreen`, `UndoOnScreen`: `ModelMatchesScreen`, `UndoMatchesScreen`. Both speak
  of a moment between operations, so the invariant has to say what holds inside one:
  `RecordsInv` (which records exclude which: a word begins where nothing else is
  followed, and nothing is recorded while a word is left alone), `OpInv` (what an
  operation has left behind when it opened), and `ScreenInv` (the sentence recorded
  stands at the end of the text; the letter of an operation is recorded before it is
  on the screen, a late separator is on the screen before the word it ends is
  recorded). `UndoInv` and `PrevInv` say the same of what Undo would delete and of the
  previous word. While the engine has lost the caret (`moved`), or another event
  came into the operation (`Cut`), they promise nothing; the proof shows that this
  ends only where the records are forgotten.
* `TypingRefined`: `ShowsWhatWasTyped`, the refinement of `TextEditor`. Beside the screen
  invariant it needs `UndoKeys`: an Undo record types back the keys it deletes, or
  the word that a snippet or a spelling fix replaced. One lemma per action says
  which step of the editor it is.

The last three assume `~HotkeyInWord`, because the Undo hotkey in the middle of a word
breaks them: that is disagreement 4, and `MCHotkeyInWord` is the counterexample.

### DecisionProofs

For any set of words, phrases and any sensitivity.

* Of `LanguageContext`: `TypesAreRight`, `EvidenceStaysInSentence`, and
  `ContextWeighsEvidence`: every step of the context is a step of `Evidence` or a
  stutter, under the refinement mapping that makes slot and strength a signed
  balance. `TypeStep`, `EvidenceStep` and `WeighsStep` are the three facts about one
  step, on their own because those of `Decision` cite them.
* `DecisionInvariant`: types, what `typed` may hold, and `EvidenceOfTheSentence`.
  `EvidenceIsWeighed`: `WeighsInAuto`; the lemma `InAuto` says that every step taken in
  automatic mode is a step of `LanguageContext` or a stutter, so that `WeighsStep`
  applies.
* `TwoKeysAreNotGuessed`: `TwoKeysNeedContext`; the lemma `TwoKeysHold` adds up
  every weight a collision of two keys can get without evidence and finds it below
  the threshold at every sensitivity, from the range of the priors and from the typed
  word being as frequent as the other, unless it is known only as an alias
  (disagreement 9).
* `CorrectionsStand`: `TurnedStays`, inductive with `DecisionInvariant`. It rests on
  lemmas about numbers: after a correction the evidence it leaves (3, or 4 for a
  phrase, against what stood) outweighs prior, frequency and position taken the other way
  (`ConfirmedStands`, `NotTurnedBack`, `PhraseStays`), since a word is only turned when
  the sum passed the threshold (`DecidedBySum`, `Margin`).

### FocusGuardProofs

* `PasswordsStayAlone`: `PasswordsAreLeftAlone`, with `IInv`: a
  password field counts as ordinary, in the flag or in the cache, only after two
  silences; the question in flight is about the focused element unless the focus
  has moved since; and a password field never answers that it is ordinary. The
  second part is what makes a late answer harmless. All of it in a process with COM;
  of one without, the property says nothing (disagreement 8).
* `WordsKeepTheirCorrection`: `WordKeepsItsCorrection`, with `PutOff`: a query that runs
  beside a word in an ordinary field was started by the timer that was over.
* `GuardHasTypes`: the type invariant, resting on `EventsStayOfFields`.

### SelectionCleanupProofs

* `AlwaysSomethingToGiveBack`: the type invariant, with `Progress` (which step belongs
  to which place, and a snapshot from Ctrl+C to the restore).
* `PastesTheSelectionAlone`: `PastesOnlyTheSelection`, with `Selected`: the
  number remembered is never ahead of the clipboard's, and while the two agree, the
  clipboard holds the selection.
* `NewerCopiesSurvive`: `NeverClobbersNewerCopy`, with `SafeToRestore`: what a
  restore would overwrite is either not the user's or just what it writes.
* `ClipboardGivenBack`: `LeftAsFound`, with `GivesBack`: while nothing excuses its loss,
  the user's clipboard is on the clipboard or in the snapshot; before Ctrl+C it is
  untouched, from then on it is saved, and where the numbers show that the clipboard
  is no longer ours it is the user's again.

All but the types need `"none" \notin Owners`, because a copy whose program has ended
is taken for the selection (5135). Only `NewerCopiesSurvive` needs
`"race" \notin Troubles` as well: even a copy between two clipboard calls is not
pasted.

### KeyboardProofs

The theorems of two specifications that share nothing, `HookWatchdog` and
`LayoutSwitch` (whose `SwitchSpec`, `SwitchTypeOK` have the prefix for that reason).

* Hooks, for all periods with `Slack <= Limit`. `WatchdogTypes`. `NoGapInWord`:
  `NoKeyMissing`, with the part of `IInv` that nothing has been missed
  unless the hook is detached: a hook that was detached returns only through
  `Reinstall`, which drops the records. `ReinstallsAreApart`: `NoChurn`, with the other
  part: inside a quiet episode the attempt and the last event are equally old, which
  is what the comparison `>=` of the code relies on (the mutant `TriedBefore` has `>`).
* Layouts, for all periods and any length of the queues. `SwitchTypes`.
  `AlphabetIsRight`: `RightAlphabet`, with `SwitchInv`. Its centre is `Final`, the layout of
  the application once it has taken all it was sent and posted: what was posted last,
  else what was sent last, else what it has. A request that found nothing queued
  (`clean`) makes `Final` the wanted layout; taking a message does not change it, and a
  request later than that either repeats it or is not clean.

### WritingMemoryProofs

For any words, any hash and any tables with `MaxWords < Slots`.

* `TypesAreRight`, `EveryWordIsFound`: `TypeOK`, `WordsAreFindable`. The invariant is
  `TableOK`: no word twice (`Distinct`), and the slots hold them (`Holds`): each slot has
  one word, and no slot between a word's hash and its place is free, so that
  probing does not stop too soon. The slots are rebuilt and searched by recursive
  functions. Induction over these is not at hand (the library's theorem takes an
  operator), so the proofs take the smallest counterexample instead: `Smallest`, from
  the well-foundedness of the natural numbers, gives the first word that was not
  inserted or the first step of a search that went wrong. That there is a free slot
  is a pigeonhole argument (`FreeSlot`).
* `KnownWordsStay`: `KnownStaysKnown`. `TurnedOver` is what an eviction leaves, whichever
  order `qsort` chose: the most used words, aged, and the new one. A word in use is
  known (3 or more) and ageing takes away a quarter of a count at most, rounded down,
  which leaves 3 of 3 or more.
* `EarnedByHand`: `RepairsAreEarned`, with `RepairInv`: a typo has one repair, and a
  repair is never counted more often than it was made by hand since it was last
  undone, including after a reload.
* `VocabularyImplemented`: `ImplementsVocabulary`, the refinement of `Vocabulary`.
  `UsesOf` maps a table to its counts, and one lemma per kind of step (noting a known
  word, adding, evicting, taking back, reloading) says which step of `Vocabulary`
  it is.

### MemoryFileProofs

* `TypesAreRight`, and `AlwaysAWholeFile`: `FileIsWhole`, with `SavesWhole`: what is moved
  over the file was flushed whole.
* `ForgottenIsForgotten`: `ForgottenStaysForgotten`, inductive with the types.
* `EditsByHandWin`: `HandEditsWin`, with `EditWaits`: an edit that was not read yet is one
  that the next save will notice, and no save is past its check. It assumes
  `~PartialReads` because of disagreement 7; `MCUnreadFile` is the counterexample.
* `NothingIsLost`: `StopsWithoutLoss`, with `NothingUnsaved`: while nothing is dirty, or at
  the end of a save, every word worth saving is in the file or there is a reason it
  is not.

### InstallerProofs

* `TypesAreRight`, and `InstallSurvivesSignIn`: `SignInSparesInstall`, with
  `CleanupPending`: a clean-up that waits while Setup installs is one that could not be
  cancelled, and only an uninstall arranges one.
* `SuccessesAreWhole`: `SuccessIsWhole`, with `Progress`: how far the swap has come and
  what was written after it unless a problem was reported or the program saved its
  own settings since.
* `ChoiceIsKept`: `ChoiceKept`, with `ChoiceStands`: until the program saves another
  value, what Setup offers is what the user may have chosen. Each save is taken
  apart: a line written from memory stands for the value in it (`LineStands`), one
  that failed leaves what was there or a file without the line.
* `FailuresChangeNothing`: `FailureChangesNothing`, with `Undoable`: up to the last swap
  each file can still be put back, and with `Recorded`: what is remembered of the
  installation follows the program's saves in the settings and the Run entry, and in
  nothing else. It assumes `MaxFaults <= 1`: the call that fails
  spends the fault, so the roll-back does not fail; with two, it may, and the
  program may be missing (see the last list of disagreements).

### Assumptions, and what is only model-checked

The `ASSUME`s of the modules, which TLC evaluates in the runs, and the hypotheses named
above, each of which a passing run satisfies.

Only model-checked: `CleanupEnds`, `UnknownIsAnswered`, `SwitchArrives`,
`KeyboardComesBack`, `LearnedReachesDisk` and `UninstalledIsGone`. They are liveness
under fairness, out of this prover's reach, as is ENABLED. No module declares a
RECURSIVE operator.

## Not modelled

* In the engine: sentence capitalisation, key release, the hand repair that
  `WritingMemory` has, Excel's cell mode. In the guard: native password edits and
  the cached facts other than the field's kind.
* Dictionaries, language packs, domain vocabulary: look-ups in constant tables and a
  bounds-checked parser without state.
* Spelling search and typing helpers: functions of a text, tested against data.
  What they may answer is an oracle in `WordEngine`.
* Usage statistics: counters nothing else reads.
* Settings, snippets and personal dictionary: read at start and on change, written by
  the same `write_text_file` that `MemoryFile` has. Snippets whose file goes missing
  lose their count and keep their time stamp (952-1012), so they return only with a
  changed file.
* Dashboard, tray and welcome window: controls and drawing. The timers and messages
  that arrive there are with their components.
* Simulator, tests, tools, resources.

## Plan

1. Proofs: no safety property of a run is left. What remains provable behind the
   liveness properties are the facts about one step that a termination argument
   rests on: the measure that every tick of a clean-up or every call of a save
   decreases, and that no step of another actor raises it.
2. Composition: `LayoutSwitch` in place of the one pending change of `WordEngine`
   (`asked`), shown to allow no more than it does; `WordEngine` with `FocusGuard`: an
   operation never injects into a field that counts as a password field.
3. Engine: capitalisation flags, key release, hand repairs; the guard's cache of five
   seconds.
