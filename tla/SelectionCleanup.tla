-------------------------- MODULE SelectionCleanup --------------------------
(***************************************************************************)
(* Ctrl+Win+X (src/app.c, start_ and continue_selection_cleanup): a timer  *)
(* saves the clipboard, has the application copy its selection, cleans the *)
(* text, has the application paste it, and puts the user's own clipboard   *)
(* back.  The clipboard is shared with every other program, which may      *)
(* write it between any two of our calls.                                  *)
(***************************************************************************)
EXTENDS Integers

CONSTANTS
  MaxRetries,  \* polls for the copy before giving up (5)
  Troubles,    \* what this instance lets the environment do
  Owners,      \* who owns a copy made meanwhile
  MaxCopies,   \* bound: copies the user or another program makes
  MaxRuns      \* bound: presses of the hotkey

\* race: a copy lands between two clipboard calls that belong together;
\* slow: the application copies after the last poll; busy: another program
\* keeps the clipboard open.
ASSUME TroublesAssumption == Troubles \subseteq {"race", "slow", "busy"}
\* A copy whose program has ended, or that named no window, has owner "none".
ASSUME OwnersAssumption == Owners \subseteq {"program", "none"}
ASSUME BoundsAssumption == MaxRetries \in Nat \ {0} /\ MaxCopies \in Nat /\ MaxRuns \in Nat

Selections == {"dirty", "tidy", "picture"}
Contents == Selections \cup {"user", "clean", "empty"}
Nothing == [what |-> "none", id |-> 0]   \* no snapshot

VARIABLES
  step,      \* g_cleanup_step
  at,        \* where the tick in progress is; "timer" between ticks
  seq,       \* g_cleanup_sequence
  saved,     \* g_cleanup_saved_clipboard, or Nothing
  retries,   \* g_cleanup_retries
  text,      \* the text the tick has read
  clip,      \* the clipboard: content, which user copy, owner, sequence number
  copying,   \* Ctrl+C is queued in the application
  changed,   \* cleanup_target_unchanged() is false
  held,      \* a modifier or X is down
  overdue,   \* three seconds in step 1
  runs, exited,
  pasted,    \* history: what the last Ctrl+V was sent for
  excuse     \* history: why the user's clipboard may be gone

vars == <<step, at, seq, saved, retries, text, clip, copying, changed, held,
          overdue, runs, exited, pasted, excuse>>
NoPaste == [text |-> "none", moved |-> FALSE]

Init ==
  /\ step = 0 /\ at = "timer" /\ seq = 0 /\ saved = Nothing /\ retries = 0 /\ text = "none"
  /\ clip = [what |-> "user", id |-> 0, owner |-> "program", seq |-> 0]
  /\ copying = FALSE /\ changed = FALSE /\ held = FALSE /\ overdue = FALSE
  /\ runs = 0 /\ exited = FALSE /\ pasted = NoPaste /\ excuse = "none"

Write(what, id, owner) == clip' = [what |-> what, id |-> id, owner |-> owner, seq |-> clip.seq + 1]
Environment == <<step, at, seq, saved, retries, text, runs, exited, pasted>>

-----------------------------------------------------------------------------
(* The user, the application and other programs. *)

Hotkey ==
  /\ ~exited /\ at = "timer" /\ step = 0 /\ runs < MaxRuns /\ runs' = runs + 1
  /\ step' = 1 /\ retries' = 0 /\ changed' = FALSE /\ overdue' = FALSE
  /\ held' = TRUE
  /\ excuse' = IF copying THEN "slow" ELSE IF clip.what = "user" THEN "none" ELSE excuse
  /\ UNCHANGED <<at, seq, saved, text, clip, copying, exited, pasted>>

Modifiers == held' = ~held /\ UNCHANGED <<Environment, clip, copying, changed, overdue, excuse>>

\* Another window, another field, a key, or a key that slipped past.
TargetChanges ==
  /\ step # 0 /\ ~changed /\ changed' = TRUE
  /\ UNCHANGED <<Environment, clip, copying, held, overdue, excuse>>

ApplicationCopies ==
  /\ copying /\ copying' = FALSE
  /\ \/ UNCHANGED <<clip, excuse>>   \* nothing is selected
     \/ /\ step = 2 \/ "slow" \in Troubles
        /\ \E what \in Selections : Write(what, clip.id, "target")
        /\ excuse' = IF step = 2 THEN excuse ELSE "slow"
  /\ UNCHANGED <<Environment, changed, held, overdue>>

OtherCopies ==
  /\ clip.id < MaxCopies
  /\ at \in {"timer", "owned", "read"} \/ "race" \in Troubles
  /\ \E owner \in Owners : Write("user", clip.id + 1, owner)
  /\ UNCHANGED <<Environment, copying, changed, held, overdue, excuse>>

Deadline == step = 1 /\ ~overdue /\ overdue' = TRUE
            /\ UNCHANGED <<Environment, clip, copying, changed, held, excuse>>

-----------------------------------------------------------------------------
(***************************************************************************)
(* One tick of the timer (an engine operation).  Saving and reading the    *)
(* clipboard take long, and keys and focus changes are noticed meanwhile.  *)
(***************************************************************************)
Timer(n) == ~exited /\ at = "timer" /\ step = n
Frozen == UNCHANGED <<copying, changed, held, overdue, runs, exited>>
Stop == step' = 0 /\ at' = "timer" /\ saved' = Nothing /\ text' = "none" /\ UNCHANGED retries
GoTo(n) == step' = n /\ at' = "timer" /\ text' = "none" /\ UNCHANGED <<saved, retries>>
Continue(where) == at' = where /\ UNCHANGED <<step, retries>>

\* Mutant: the restore does not look for a newer copy.
RestoreAlways(expected, why) ==
  IF saved # Nothing THEN Write(saved.what, saved.id, "us") /\ excuse' = why
  ELSE UNCHANGED clip /\ excuse' = why

\* clipboard_snapshot_restore: nothing while the clipboard cannot be opened.
Restore(expected, why) ==
  \/ saved # Nothing /\ clip.seq = expected
     /\ Write(saved.what, saved.id, "us") /\ excuse' = why
  \/ (saved = Nothing \/ clip.seq # expected) /\ UNCHANGED clip /\ excuse' = why
  \/ "busy" \in Troubles /\ UNCHANGED clip /\ excuse' = "busy"

\* Step 1 ends; step 2 goes on to step 4 at once.
TickCancelled ==
  /\ Frozen /\ changed /\ Stop /\ UNCHANGED <<seq, pasted>>
  /\ \/ Timer(1) /\ UNCHANGED <<clip, excuse>>
     \/ Timer(2) /\ Restore(seq, "moved")

TickHeld ==
  /\ Timer(1) /\ ~changed /\ held /\ overdue
  /\ Stop /\ Frozen /\ UNCHANGED <<seq, pasted, clip, excuse>>

\* A snapshot that failed or is partial ends the clean-up.
TickSave ==
  /\ Timer(1) /\ ~changed /\ ~held
  /\ \/ saved' = [what |-> clip.what, id |-> clip.id] /\ Continue("saved") /\ UNCHANGED text
     \/ Stop
  /\ Frozen /\ UNCHANGED <<seq, pasted, clip, excuse>>

TickCopy ==
  /\ at = "saved" /\ seq' = clip.seq
  /\ \/ ~changed /\ ~held /\ copying' = TRUE /\ GoTo(2)
     \/ UNCHANGED copying /\ Stop   \* something changed, or Windows blocks our input
  /\ UNCHANGED <<changed, held, overdue, runs, exited, pasted, clip, excuse>>

\* Mutant: a poll that finds no copy is not counted.
TickPollForever ==
  /\ Timer(2) /\ ~changed /\ clip.seq = seq /\ Frozen /\ UNCHANGED <<seq, pasted, clip>>
  /\ UNCHANGED <<step, at, saved, text, retries, excuse>>

TickPoll ==
  /\ Timer(2) /\ ~changed /\ clip.seq = seq /\ Frozen /\ UNCHANGED <<seq, pasted, clip>>
  /\ \/ /\ retries + 1 < MaxRetries /\ retries' = retries + 1
        /\ UNCHANGED <<step, at, saved, text, excuse>>
     \/ /\ retries + 1 >= MaxRetries
        /\ Stop /\ excuse' = IF copying THEN "slow" ELSE excuse

\* The copy must be the application's, as far as its owner still exists.
TickOwner ==
  /\ Timer(2) /\ ~changed /\ clip.seq # seq /\ seq' = clip.seq
  /\ \/ clip.owner \in {"target", "none"} /\ Continue("owned") /\ UNCHANGED <<saved, text>>
     \/ clip.owner \notin {"target", "none"} /\ Stop
  /\ Frozen /\ UNCHANGED <<pasted, clip, excuse>>

\* A clipboard that cannot be opened reads like one that holds no text.
TickRead ==
  /\ at = "owned" /\ Continue("read")
  /\ text' \in {clip.what} \cup (IF "busy" \in Troubles THEN {"picture"} ELSE {})
  /\ Frozen /\ UNCHANGED <<seq, saved, pasted, clip, excuse>>

\* Mutant: the sequence number is not compared after the text was read.
TickJudgeStale ==
  /\ at = "read"
  /\ \/ text \in {"picture", "tidy", "user"} /\ GoTo(4)
     \/ text \in {"dirty", "user"} /\ Continue("judged") /\ UNCHANGED <<saved, text>>
  /\ Frozen /\ UNCHANGED <<seq, pasted, clip, excuse>>

\* What was read is given up, left (not text, already clean), or cleaned.
TickJudge ==
  /\ at = "read"
  /\ \/ text # "picture" /\ clip.seq # seq /\ Stop
     \/ text = "picture" /\ GoTo(4)
     \/ text \in {"tidy", "user"} /\ clip.seq = seq /\ GoTo(4)
     \/ text \in {"dirty", "user"} /\ clip.seq = seq
        /\ Continue("judged") /\ UNCHANGED <<saved, text>>
  /\ Frozen /\ UNCHANGED <<seq, pasted, clip, excuse>>

\* clipboard_set_text: the clean text; or nothing, or an emptied clipboard.
TickWrite ==
  /\ at = "judged" /\ Continue("written")
  /\ \/ Write("clean", clip.id, "us") /\ UNCHANGED text
     \/ "busy" \in Troubles /\ text' = "failed"
        /\ (Write("empty", clip.id, "us") \/ UNCHANGED clip)
  /\ Frozen /\ UNCHANGED <<seq, saved, pasted, excuse>>

\* Mutant: the target is not looked at again before Ctrl+V.
MayPasteUnchecked == text # "failed"

\* The sequence number is read again; Ctrl+V is sent where nothing has changed.
MayPaste == text # "failed" /\ ~changed /\ ~held

\* Mutant: the restore is told the sequence number from before our own write.
TickPasteStaleNumber ==
  /\ at = "written" /\ GoTo(4)
  /\ pasted' = IF MayPaste THEN [text |-> text, moved |-> changed] ELSE pasted
  /\ Frozen /\ UNCHANGED <<seq, clip, excuse>>

TickPaste ==
  /\ at = "written" /\ seq' = clip.seq /\ GoTo(4)
  /\ pasted' = IF MayPaste THEN [text |-> text, moved |-> changed] ELSE pasted
  /\ Frozen /\ UNCHANGED <<clip, excuse>>

TickRestore ==
  /\ Timer(4) /\ Restore(seq, excuse) /\ Stop
  /\ Frozen /\ UNCHANGED <<seq, pasted>>

\* WM_DESTROY between two ticks.
Exit ==
  /\ ~exited /\ at = "timer" /\ exited' = TRUE /\ Stop
  /\ \/ step = 4 /\ Restore(seq, excuse)
     \/ step = 2 /\ clip.seq # seq /\ clip.owner = "target" /\ Restore(clip.seq, excuse)
     \/ /\ step \in {0, 1} \/ (step = 2 /\ (clip.seq = seq \/ clip.owner # "target"))
        /\ UNCHANGED clip /\ excuse' = IF copying THEN "slow" ELSE excuse
  /\ UNCHANGED <<seq, copying, changed, held, overdue, runs, pasted>>

Tick == \/ TickCancelled \/ TickHeld \/ TickSave \/ TickCopy \/ TickPoll \/ TickOwner
        \/ TickRead \/ TickJudge \/ TickWrite \/ TickPaste \/ TickRestore
Next == \/ Hotkey \/ Modifiers \/ TargetChanges \/ ApplicationCopies \/ OtherCopies
        \/ Deadline \/ Tick \/ Exit

\* The timer fires while the program runs, and time passes; the user and the
\* application owe nothing.
Spec == Init /\ [][Next]_vars /\ WF_vars(Tick) /\ WF_vars(Deadline)

-----------------------------------------------------------------------------
\* At most MaxRetries polls, and from the snapshot to the restore there is always
\* a snapshot to restore (continue_selection_cleanup).
TypeOK ==
  /\ step \in {0, 1, 2, 4} /\ at \in {"timer", "saved", "owned", "read", "judged", "written"}
  /\ seq \in Nat /\ saved \in [what : Contents \cup {"none"}, id : 0..MaxCopies]
  /\ retries \in 0..MaxRetries - 1 /\ text \in Contents \cup {"none", "failed"}
  /\ clip \in [what : Contents, id : 0..MaxCopies,
               owner : {"program", "target", "us", "none"}, seq : Nat]
  /\ copying \in BOOLEAN /\ changed \in BOOLEAN /\ held \in BOOLEAN
  /\ overdue \in BOOLEAN /\ runs \in 0..MaxRuns /\ exited \in BOOLEAN
  /\ pasted \in [text : Contents \cup {"none", "failed"}, moved : BOOLEAN]
  /\ excuse \in {"none", "moved", "slow", "busy"}
  /\ (step = 4 \/ at \in {"owned", "read", "judged", "written"}) => saved # Nothing

\* TYPING_HELPERS.md:144-146: once a clean-up is over and the application has
\* nothing left to copy, the clipboard is the user's again, unless one of three
\* things happened: the application copied after the last poll, the clipboard
\* could not be opened, or the target changed between Ctrl+C and the copy.
LeftAsFound ==
  step = 0 /\ at = "timer" /\ ~copying /\ excuse = "none" => clip.what = "user"

\* app.c:5081, "put the user's clipboard back": the last of the three is not
\* an exception there.
GivenBackWhenCancelled ==
  step = 0 /\ at = "timer" /\ ~copying /\ excuse \in {"none", "moved"} => clip.what = "user"

\* app.c:4925, "newer than the snapshot and must not be clobbered": what the user
\* copied is never overwritten by the clean-up, but by that same copy.  (What the
\* application's own copy has overwritten meanwhile is beyond it.)
NeverClobbersNewerCopy ==
  [][clip' # clip /\ clip'.owner = "us" /\ clip.what = "user"
       => clip'.what = "user" /\ clip'.id = clip.id]_vars

\* app.c:5072, "never paste somewhere else", and app.c:5126: Ctrl+V is sent only
\* for the cleaned selection of the target, and only while window, field and
\* selection are where the hotkey found them.
PastesOnlyTheSelection == pasted.text \in {"none", "dirty"} /\ ~pasted.moved

\* A clean-up always ends, whatever the user and the application do.
CleanupEnds == step # 0 ~> step = 0
=============================================================================
