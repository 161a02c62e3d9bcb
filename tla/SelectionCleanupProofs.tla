----------------------- MODULE SelectionCleanupProofs -----------------------
(* For any number of polls, copies and runs of the clean-up: from Ctrl+C on     *)
(* there is a snapshot to give back; it pastes only what it has read from the   *)
(* selection; and it overwrites no copy of the user's.                          *)
EXTENDS SelectionCleanup, TLAPS

Inside == {"owned", "read", "judged", "written"}
Clipboard == [what : Contents, id : 0..MaxCopies, owner : {"program", "target", "us", "none"},
              seq : Nat]

\* Where the clean-up is, and that it has something to give back from Ctrl+C on.
Progress ==
  /\ at = "saved" => step = 1
  /\ at \in Inside => step = 2
  /\ step \in {2, 4} \/ at # "timer" => saved # Nothing
  /\ saved = Nothing \/ saved.what \in Contents

\* A clipboard we or others have written is one.
LEMMA WriteOK ==
  ASSUME clip \in Clipboard, NEW what \in Contents, NEW id \in 0..MaxCopies,
         NEW owner \in {"program", "target", "us", "none"}, Write(what, id, owner)
  PROVE  /\ clip' \in Clipboard /\ clip'.what = what /\ clip'.id = id /\ clip'.owner = owner
         /\ clip'.seq = clip.seq + 1
BY DEF Write, Clipboard

\* The parts of the type invariant an action may disturb on its own.
Saved == [what : Contents \cup {"none"}, id : 0..MaxCopies]
Flags == copying \in BOOLEAN /\ changed \in BOOLEAN /\ held \in BOOLEAN /\ overdue \in BOOLEAN
         /\ exited \in BOOLEAN /\ runs \in 0..MaxRuns
Types ==
  /\ step \in {0, 1, 2, 4} /\ at \in {"timer", "saved"} \cup Inside
  /\ seq \in Nat /\ saved \in Saved /\ retries \in 0..MaxRetries - 1
  /\ text \in Contents \cup {"none", "failed"} /\ clip \in Clipboard /\ Flags
  /\ pasted \in [text : Contents \cup {"none", "failed"}, moved : BOOLEAN]
  /\ excuse \in {"none", "moved", "slow", "busy"}

\* The prover needs the two truth values as a fact.
LEMMA Booleans == TRUE \in BOOLEAN /\ FALSE \in BOOLEAN
BY Zenon

\* No snapshot is a value of the type, and no snapshot of a clipboard is that.
LEMMA NothingIsSaved ==
  /\ Nothing \in Saved
  /\ \A c \in Clipboard : /\ [what |-> c.what, id |-> c.id] \in Saved
                          /\ [what |-> c.what, id |-> c.id] # Nothing
<1>1. 0 \in 0..MaxCopies
  BY BoundsAssumption
<1>2. Nothing \in Saved
  BY <1>1 DEF Nothing, Saved
<1>3. ASSUME NEW c \in Clipboard
      PROVE  [what |-> c.what, id |-> c.id] \in Saved /\ [what |-> c.what, id |-> c.id] # Nothing
  <2>1. c.what \in Contents /\ c.id \in 0..MaxCopies /\ c.what # "none"
    BY DEF Clipboard, Contents, Selections
  <2> QED BY <2>1 DEF Nothing, Saved
<1> QED BY <1>2, <1>3

\* At the start no clean-up runs.
LEMMA InitTypes == Init => Types /\ Progress
<1> SUFFICES ASSUME Init PROVE Types /\ Progress
  OBVIOUS
<1>1. 0 \in 0..MaxRuns /\ 0 \in 0..MaxRetries - 1 /\ 0 \in 0..MaxCopies
  BY BoundsAssumption
<1>2. clip \in Clipboard
  BY <1>1 DEF Init, Clipboard, Contents
<1>3. pasted \in [text : Contents \cup {"none", "failed"}, moved : BOOLEAN]
  BY Booleans DEF Init, NoPaste
<1>4. Flags
  BY <1>1, Booleans DEF Init, Flags
<1>5. Types
  BY <1>1, <1>2, <1>3, <1>4, NothingIsSaved DEF Init, Types
<1> QED BY <1>5 DEF Init, Progress, Inside

\* The user, the application and other programs.
LEMMA EnvironmentTypes ==
  ASSUME Types, Progress,
         Hotkey \/ Modifiers \/ TargetChanges \/ ApplicationCopies \/ OtherCopies \/ Deadline
  PROVE  Types' /\ Progress'
<1>1. CASE Hotkey
  <2>1. 0 \in 0..MaxRetries - 1
    BY BoundsAssumption
  <2>2. runs' \in 0..MaxRuns
    BY <1>1, BoundsAssumption DEF Hotkey, Types, Flags
  <2>3. excuse' \in {"none", "moved", "slow", "busy"}
    BY <1>1 DEF Hotkey, Types
  <2>4. Flags'
    BY <1>1, <2>2, Booleans DEF Hotkey, Types, Flags
  <2>5. Types'
    BY <1>1, <2>1, <2>3, <2>4 DEF Hotkey, Types
  <2> QED BY <1>1, <2>5 DEF Hotkey, Progress, Inside
<1>2. CASE Modifiers
  <2>1. held' \in BOOLEAN
    BY <1>2, Zenon DEF Modifiers
  <2> QED BY <1>2, <2>1 DEF Modifiers, Environment, Types, Flags, Progress
<1>3. CASE TargetChanges
  BY <1>3, Booleans DEF TargetChanges, Environment, Types, Flags, Progress
<1>4. CASE ApplicationCopies
  <2>1. clip' \in Clipboard
    <3>1. CASE UNCHANGED clip
      BY <3>1 DEF Types
    <3>2. CASE \E what \in Selections : Write(what, clip.id, "target")
      <4>1. PICK what \in Selections : Write(what, clip.id, "target")
        BY <3>2
      <4>2. what \in Contents /\ clip.id \in 0..MaxCopies
        BY DEF Contents, Types, Clipboard
      <4> QED BY <4>1, <4>2, WriteOK DEF Types
    <3> QED BY <1>4, <3>1, <3>2 DEF ApplicationCopies
  <2>2. excuse' \in {"none", "moved", "slow", "busy"}
    BY <1>4 DEF ApplicationCopies, Types
  <2> QED BY <1>4, <2>1, <2>2, Booleans DEF ApplicationCopies, Environment, Types, Flags, Progress
<1>5. CASE OtherCopies
  <2>1. PICK owner \in Owners : Write("user", clip.id + 1, owner)
    BY <1>5 DEF OtherCopies
  <2>2. clip.id + 1 \in 0..MaxCopies
    BY <1>5, BoundsAssumption DEF OtherCopies, Types, Clipboard
  <2>3. clip' \in Clipboard
    BY <2>1, <2>2, WriteOK, OwnersAssumption DEF Types, Contents
  <2> QED BY <1>5, <2>3 DEF OtherCopies, Environment, Types, Flags, Progress
<1>6. CASE Deadline
  BY <1>6, Booleans DEF Deadline, Environment, Types, Flags, Progress
<1> QED BY <1>1, <1>2, <1>3, <1>4, <1>5, <1>6

\* clipboard_snapshot_restore writes the snapshot or nothing.
LEMMA RestoreTypes ==
  ASSUME Types, Progress, NEW expected, NEW why \in {"none", "moved", "slow", "busy"}, Restore(expected, why)
  PROVE  clip' \in Clipboard /\ excuse' \in {"none", "moved", "slow", "busy"}
<1>1. CASE saved # Nothing /\ Write(saved.what, saved.id, "us")
  <2>1. saved.id \in 0..MaxCopies
    BY DEF Types, Saved
  <2>2. saved.what \in Contents
    BY <1>1 DEF Progress
  <2>3. clip' \in Clipboard
    BY <1>1, <2>1, <2>2, WriteOK DEF Types
  <2> QED BY <2>3 DEF Restore
<1>2. CASE UNCHANGED clip
  BY <1>2 DEF Restore, Types
<1> QED BY <1>1, <1>2 DEF Restore

\* A tick that ends the clean-up leaves nothing to give back.
LEMMA StopTypes ==
  ASSUME Types, Stop
  PROVE  /\ step' \in {0, 1, 2, 4} /\ at' \in {"timer", "saved"} \cup Inside /\ saved' \in Saved
         /\ retries' \in 0..MaxRetries - 1 /\ text' \in Contents \cup {"none", "failed"} /\ Progress'
BY NothingIsSaved DEF Types, Stop, Progress, Inside

\* What the first two steps do.
LEMMA EarlyTypes ==
  ASSUME Types, Progress, TickCancelled \/ TickHeld \/ TickSave \/ TickCopy \/ TickPoll
  PROVE  Types' /\ Progress'
<1>1. CASE TickCancelled
  <2>1. clip' \in Clipboard /\ excuse' \in {"none", "moved", "slow", "busy"}
    <3>1. CASE UNCHANGED <<clip, excuse>>
      BY <3>1 DEF Types
    <3>2. CASE Restore(seq, "moved")
      BY <3>2, RestoreTypes
    <3> QED BY <1>1, <3>1, <3>2 DEF TickCancelled
  <2> QED BY <1>1, <2>1, StopTypes DEF TickCancelled, Frozen, Types, Flags
<1>2. CASE TickHeld
  BY <1>2, StopTypes DEF TickHeld, Frozen, Types, Flags
<1>3. CASE TickSave
  <2>1. CASE saved' = [what |-> clip.what, id |-> clip.id] /\ Continue("saved") /\ UNCHANGED text
    <3>1. clip \in Clipboard /\ clip.what \in Contents
      BY DEF Types, Clipboard
    <3>2. saved' \in Saved /\ saved' # Nothing /\ saved'.what \in Contents
      BY <2>1, <3>1, NothingIsSaved
    <3>3. Types'
      BY <1>3, <2>1, <3>2 DEF TickSave, Continue, Frozen, Types, Flags
    <3>4. Progress'
      BY <1>3, <2>1, <3>2 DEF TickSave, Continue, Timer, Progress, Inside
    <3> QED BY <3>3, <3>4
  <2>2. CASE Stop
    BY <1>3, <2>2, StopTypes DEF TickSave, Frozen, Types, Flags
  <2> QED BY <1>3, <2>1, <2>2 DEF TickSave
<1>4. CASE TickCopy
  <2>1. seq' \in Nat
    BY <1>4 DEF TickCopy, Types, Clipboard
  <2>2. CASE ~changed /\ ~held /\ copying' = TRUE /\ GoTo(2)
    <3>1. Flags'
      BY <1>4, <2>2, Booleans DEF TickCopy, Types, Flags
    <3>2. Types'
      BY <1>4, <2>1, <2>2, <3>1 DEF TickCopy, GoTo, Types
    <3>3. Progress'
      BY <1>4, <2>2 DEF TickCopy, GoTo, Progress, Inside
    <3> QED BY <3>2, <3>3
  <2>3. CASE UNCHANGED copying /\ Stop
    <3>1. Flags'
      BY <1>4, <2>3 DEF TickCopy, Types, Flags
    <3> QED BY <1>4, <2>1, <2>3, <3>1, StopTypes DEF TickCopy, Types
  <2> QED BY <1>4, <2>2, <2>3 DEF TickCopy
<1>5. CASE TickPoll
  <2>1. CASE /\ retries + 1 < MaxRetries /\ retries' = retries + 1
             /\ UNCHANGED <<step, at, saved, text, excuse>>
    <3>1. retries' \in 0..MaxRetries - 1
      BY <2>1, BoundsAssumption DEF Types
    <3> QED BY <1>5, <2>1, <3>1 DEF TickPoll, Frozen, Types, Flags, Progress
  <2>2. CASE Stop /\ excuse' = IF copying THEN "slow" ELSE excuse
    <3>1. excuse' \in {"none", "moved", "slow", "busy"}
      BY <2>2 DEF Types
    <3> QED BY <1>5, <2>2, <3>1, StopTypes DEF TickPoll, Frozen, Types, Flags
  <2> QED BY <1>5, <2>1, <2>2 DEF TickPoll
<1> QED BY <1>1, <1>2, <1>3, <1>4, <1>5

\* What the ticks from the copy on, and the exit, do.
LEMMA LateTypes ==
  ASSUME Types, Progress,
         TickOwner \/ TickRead \/ TickJudge \/ TickWrite \/ TickPaste \/ TickRestore \/ Exit
  PROVE  Types' /\ Progress'
<1>1. CASE TickOwner
  <2>1. seq' \in Nat
    BY <1>1 DEF TickOwner, Types, Clipboard
  <2>2. CASE Continue("owned") /\ UNCHANGED <<saved, text>>
    BY <1>1, <2>1, <2>2 DEF TickOwner, Timer, Continue, Frozen, Types, Flags, Progress, Inside
  <2>3. CASE Stop
    BY <1>1, <2>1, <2>3, StopTypes DEF TickOwner, Frozen, Types, Flags
  <2> QED BY <1>1, <2>2, <2>3 DEF TickOwner
<1>2. CASE TickRead
  <2>1. text' \in Contents
    BY <1>2 DEF TickRead, Types, Clipboard, Contents, Selections
  <2> QED BY <1>2, <2>1 DEF TickRead, Continue, Frozen, Types, Flags, Progress, Inside
<1>3. CASE TickJudge
  <2>1. CASE Stop
    BY <1>3, <2>1, StopTypes DEF TickJudge, Frozen, Types, Flags
  <2>2. CASE GoTo(4)
    BY <1>3, <2>2 DEF TickJudge, GoTo, Frozen, Types, Flags, Progress, Inside
  <2>3. CASE Continue("judged") /\ UNCHANGED <<saved, text>>
    BY <1>3, <2>3 DEF TickJudge, Continue, Frozen, Types, Flags, Progress, Inside
  <2> QED BY <1>3, <2>1, <2>2, <2>3 DEF TickJudge
<1>4. CASE TickWrite
  <2>1. clip.id \in 0..MaxCopies /\ "clean" \in Contents /\ "empty" \in Contents
    BY DEF Types, Clipboard, Contents
  <2>2. clip' \in Clipboard
    BY <1>4, <2>1, WriteOK DEF TickWrite, Types
  <2>3. text' \in Contents \cup {"none", "failed"}
    BY <1>4 DEF TickWrite, Types
  <2> QED BY <1>4, <2>2, <2>3 DEF TickWrite, Continue, Frozen, Types, Flags, Progress, Inside
<1>5. CASE TickPaste
  <2>1. seq' \in Nat
    BY <1>5 DEF TickPaste, Types, Clipboard
  <2>2. pasted' \in [text : Contents \cup {"none", "failed"}, moved : BOOLEAN]
    BY <1>5 DEF TickPaste, Types, Flags
  <2> QED BY <1>5, <2>1, <2>2 DEF TickPaste, GoTo, Frozen, Types, Flags, Progress, Inside
<1>6. CASE TickRestore
  <2>1. clip' \in Clipboard /\ excuse' \in {"none", "moved", "slow", "busy"}
    BY <1>6, RestoreTypes DEF TickRestore, Types
  <2> QED BY <1>6, <2>1, StopTypes DEF TickRestore, Frozen, Types, Flags
<1>7. CASE Exit
  <2>1. clip' \in Clipboard /\ excuse' \in {"none", "moved", "slow", "busy"}
    <3>1. CASE Restore(seq, excuse)
      BY <3>1, RestoreTypes DEF Types
    <3>2. CASE Restore(clip.seq, excuse)
      BY <3>2, RestoreTypes DEF Types
    <3>3. CASE UNCHANGED clip /\ excuse' = IF copying THEN "slow" ELSE excuse
      BY <3>3 DEF Types
    <3> QED BY <1>7, <3>1, <3>2, <3>3 DEF Exit
  <2>2. Flags'
    BY <1>7, Booleans DEF Exit, Types, Flags
  <2> QED BY <1>7, <2>1, <2>2, StopTypes DEF Exit, Types
<1> QED BY <1>1, <1>2, <1>3, <1>4, <1>5, <1>6, <1>7

\* The two make an inductive invariant.
LEMMA StepTypes ==
  ASSUME Types, Progress, [Next]_vars
  PROVE  Types' /\ Progress'
<1>1. CASE UNCHANGED vars
  BY <1>1 DEF vars, Types, Flags, Progress
<1> QED BY <1>1, EnvironmentTypes, EarlyTypes, LateTypes DEF Next, Tick

\* Where the clean-up stands: its clipboard values are ones, at most MaxRetries
\* polls are made, and from Ctrl+C to the restore there is a snapshot to give back
\* (continue_selection_cleanup).
THEOREM AlwaysSomethingToGiveBack == Spec => []TypeOK
<1>1. Types /\ Progress => TypeOK
  BY DEF Types, Progress, TypeOK, Flags, Saved, Clipboard, Inside
<1> QED BY <1>1, InitTypes, StepTypes, PTL DEF Spec

-----------------------------------------------------------------------------
\* As long as the number has not changed since the owner was checked, the
\* clipboard holds the selection, and the text is what it holds or not text.
HoldsSelection ==
  /\ clip.owner # "none"
  /\ clip.owner = "target" => clip.what \in Selections
  /\ at \in {"owned", "read"} /\ clip.seq = seq => clip.what \in Selections
  /\ at = "read" /\ clip.seq = seq => text \in {clip.what, "picture"}
  /\ at \in {"judged", "written"} => text \in {"dirty", "failed"}
Selected == seq <= clip.seq /\ HoldsSelection /\ PastesOnlyTheSelection

\* A new clipboard has a number of its own, and is no selection but the target's.
LEMMA NewClipboardSelected ==
  ASSUME Types, Selected, NEW what \in Contents, NEW id \in 0..MaxCopies,
         NEW owner \in {"program", "target", "us"}, owner = "target" => what \in Selections,
         Write(what, id, owner), UNCHANGED <<seq, text, at, pasted>>
  PROVE  Selected'
<1>1. /\ clip'.what = what /\ clip'.owner = owner /\ clip'.seq = clip.seq + 1
  BY WriteOK DEF Types
<1>2. seq \in Nat /\ clip.seq \in Nat /\ seq <= clip.seq
  BY DEF Types, Clipboard, Selected
<1>3. seq <= clip.seq + 1 /\ clip.seq + 1 # seq
  BY <1>2
<1> QED BY <1>1, <1>3 DEF Selected, HoldsSelection, PastesOnlyTheSelection

\* The user, the application and other programs.
LEMMA EnvironmentSelected ==
  ASSUME "none" \notin Owners, Types, Selected,
         Hotkey \/ Modifiers \/ TargetChanges \/ ApplicationCopies \/ OtherCopies \/ Deadline
  PROVE  Selected'
<1>1. CASE UNCHANGED <<seq, clip, text, at, pasted>>
  BY <1>1 DEF Selected, HoldsSelection, PastesOnlyTheSelection
<1>2. CASE ApplicationCopies
  <2>1. UNCHANGED <<seq, text, at, pasted>>
    BY <1>2 DEF ApplicationCopies, Environment
  <2>2. CASE \E what \in Selections : Write(what, clip.id, "target")
    <3>1. PICK what \in Selections : Write(what, clip.id, "target")
      BY <2>2
    <3>2. what \in Contents /\ clip.id \in 0..MaxCopies
      BY DEF Contents, Types, Clipboard
    <3> QED BY <2>1, <3>1, <3>2, NewClipboardSelected
  <2> QED BY <1>1, <1>2, <2>1, <2>2 DEF ApplicationCopies
<1>3. CASE OtherCopies
  <2>1. PICK owner \in Owners : Write("user", clip.id + 1, owner)
    BY <1>3 DEF OtherCopies
  <2>2. clip.id + 1 \in 0..MaxCopies
    BY <1>3, BoundsAssumption DEF OtherCopies, Types, Clipboard
  <2>3. owner = "program"
    BY OwnersAssumption
  <2>4. UNCHANGED <<seq, text, at, pasted>>
    BY <1>3 DEF OtherCopies, Environment
  <2> QED BY <2>1, <2>2, <2>3, <2>4, NewClipboardSelected DEF Contents
<1> QED BY <1>1, <1>2, <1>3 DEF Hotkey, Modifiers, TargetChanges, Deadline, Environment

\* A restore writes a clipboard of ours, or none.
LEMMA RestoreSelected ==
  ASSUME Types, Progress, Selected, NEW expected, NEW why, Restore(expected, why),
         UNCHANGED <<seq, pasted>>, at' = "timer"
  PROVE  Selected'
<1>1. CASE UNCHANGED clip
  BY <1>1 DEF Selected, HoldsSelection, PastesOnlyTheSelection
<1>2. CASE saved # Nothing /\ Write(saved.what, saved.id, "us")
  <2>1. saved.what \in Contents /\ saved.id \in 0..MaxCopies
    BY <1>2 DEF Types, Saved, Progress
  <2>2. clip'.owner = "us" /\ clip'.seq = clip.seq + 1
    BY <1>2, <2>1, WriteOK DEF Types
  <2>3. seq \in Nat /\ clip.seq \in Nat /\ seq <= clip.seq
    BY DEF Types, Clipboard, Selected
  <2>4. seq <= clip.seq + 1
    BY <2>3
  <2> QED BY <2>2, <2>4 DEF Selected, HoldsSelection, PastesOnlyTheSelection
<1> QED BY <1>1, <1>2 DEF Restore

\* The program's own steps.
LEMMA TickSelected ==
  ASSUME Types, Progress, Selected, Tick \/ Exit
  PROVE  Selected'
<1>0. seq \in Nat /\ clip.seq \in Nat /\ seq <= clip.seq
  BY DEF Types, Clipboard, Selected
<1>1. CASE UNCHANGED <<seq, clip, pasted>> /\ at' \in {"timer", "saved"}
  BY <1>1 DEF Selected, HoldsSelection, PastesOnlyTheSelection
<1>2. CASE TickCancelled
  <2>1. at' = "timer" /\ UNCHANGED <<seq, pasted>>
    BY <1>2 DEF TickCancelled, Stop
  <2> QED BY <1>1, <1>2, <2>1, RestoreSelected DEF TickCancelled
<1>3. CASE TickHeld \/ TickSave
  BY <1>1, <1>3 DEF TickHeld, TickSave, Stop, Continue
<1>4. CASE TickCopy
  <2>1. at' = "timer" /\ UNCHANGED <<clip, pasted>> /\ seq' = clip.seq
    BY <1>4 DEF TickCopy, Stop, GoTo
  <2> QED BY <1>0, <2>1 DEF Selected, HoldsSelection, PastesOnlyTheSelection
<1>5. CASE TickPoll
  BY <1>1, <1>5 DEF TickPoll, Timer, Stop
<1>6. CASE TickOwner
  <2>1. UNCHANGED <<clip, pasted>> /\ seq' = clip.seq
    BY <1>6 DEF TickOwner
  <2>2. \/ at' = "owned" /\ clip.owner = "target"
        \/ at' = "timer"
    BY <1>6 DEF TickOwner, Continue, Stop, Selected, HoldsSelection
  <2> QED BY <1>0, <2>1, <2>2 DEF Selected, HoldsSelection, PastesOnlyTheSelection
<1>7. CASE TickRead
  <2>1. at = "owned" /\ at' = "read" /\ UNCHANGED <<seq, clip, pasted>>
    BY <1>7 DEF TickRead, Continue
  <2>2. text' \in {clip.what, "picture"}
    BY <1>7 DEF TickRead
  <2> QED BY <2>1, <2>2 DEF Selected, HoldsSelection, PastesOnlyTheSelection
<1>8. CASE TickJudge
  <2>1. CASE Continue("judged") /\ UNCHANGED <<saved, text>> /\ text \in {"dirty", "user"} /\ clip.seq = seq
    <3>1. text = "dirty"
      BY <1>8, <2>1 DEF TickJudge, Selected, HoldsSelection, Selections
    <3> QED BY <1>8, <2>1, <3>1
            DEF TickJudge, Continue, Selected, HoldsSelection, PastesOnlyTheSelection
  <2> QED BY <1>1, <1>8, <2>1 DEF TickJudge, GoTo, Stop
<1>9. CASE TickWrite
  <2>1. at = "judged" /\ at' = "written" /\ UNCHANGED <<seq, pasted>> /\ text' \in {text, "failed"}
    BY <1>9 DEF TickWrite, Continue
  <2>2. text \in {"dirty", "failed"}
    BY <2>1 DEF Selected, HoldsSelection
  <2>3. CASE UNCHANGED clip
    BY <2>1, <2>2, <2>3 DEF Selected, HoldsSelection, PastesOnlyTheSelection
  <2>4. CASE \E what \in {"clean", "empty"} : Write(what, clip.id, "us")
    <3>1. clip.id \in 0..MaxCopies /\ {"clean", "empty"} \subseteq Contents
      BY DEF Types, Clipboard, Contents
    <3>2. clip'.owner = "us" /\ clip'.seq = clip.seq + 1
      BY <2>4, <3>1, WriteOK DEF Types
    <3>3. seq <= clip.seq + 1
      BY <1>0
    <3> QED BY <2>1, <2>2, <3>2, <3>3 DEF Selected, HoldsSelection, PastesOnlyTheSelection
  <2> QED BY <1>9, <2>3, <2>4 DEF TickWrite
<1>10. CASE TickPaste
  <2>1. at = "written" /\ at' = "timer" /\ UNCHANGED clip /\ seq' = clip.seq
    BY <1>10 DEF TickPaste, GoTo, Frozen
  <2>2. CASE MayPaste /\ pasted' = [text |-> text, moved |-> changed]
    <3>1. pasted'.text = "dirty" /\ ~pasted'.moved
      BY <2>1, <2>2 DEF MayPaste, Selected, HoldsSelection
    <3> QED BY <1>0, <2>1, <3>1 DEF Selected, HoldsSelection, PastesOnlyTheSelection
  <2>3. CASE UNCHANGED pasted
    BY <1>0, <2>1, <2>3 DEF Selected, HoldsSelection, PastesOnlyTheSelection
  <2> QED BY <1>10, <2>2, <2>3 DEF TickPaste
<1>11. CASE TickRestore
  <2>1. at' = "timer" /\ UNCHANGED <<seq, pasted>>
    BY <1>11 DEF TickRestore, Stop
  <2> QED BY <1>11, <2>1, RestoreSelected DEF TickRestore
<1>12. CASE Exit
  <2>1. at' = "timer" /\ UNCHANGED <<seq, pasted>>
    BY <1>12 DEF Exit, Stop
  <2> QED BY <1>1, <1>12, <2>1, RestoreSelected DEF Exit
<1> QED BY <1>2, <1>3, <1>4, <1>5, <1>6, <1>7, <1>8, <1>9, <1>10, <1>11, <1>12 DEF Tick

\* The invariant holds at first and is kept.
LEMMA StaysSelected ==
  ASSUME "none" \notin Owners
  PROVE  /\ Init => Selected
         /\ Types /\ Progress /\ Selected /\ [Next]_vars => Selected'
<1>1. Init => Selected
  BY DEF Init, NoPaste, Selected, HoldsSelection, PastesOnlyTheSelection
<1>2. ASSUME Types, Progress, Selected, [Next]_vars
      PROVE  Selected'
  <2>1. CASE UNCHANGED vars
    <3>1. UNCHANGED <<seq, clip, text, at, pasted>>
      BY <2>1 DEF vars
    <3> QED BY <1>2, <3>1 DEF Selected, HoldsSelection, PastesOnlyTheSelection
  <2> QED BY <1>2, <2>1, EnvironmentSelected, TickSelected DEF Next
<1> QED BY <1>1, <1>2

\* Ctrl+V is sent only for the cleaned selection, and only while the target is
\* where the hotkey found it (app.c:5072 and :5126), as long as every copy made
\* meanwhile names the program it comes from.
THEOREM PastesTheSelectionAlone ==
  ASSUME "none" \notin Owners
  PROVE  Spec => []PastesOnlyTheSelection
<1>1. Selected => PastesOnlyTheSelection
  BY DEF Selected
<1> QED BY <1>1, InitTypes, StepTypes, StaysSelected, PTL DEF Spec

-----------------------------------------------------------------------------
\* What a restore would overwrite is not the user's, or is what it writes: in
\* step 2 the copy has not come, in step 4 only the user can have written it.
SafeToRestore ==
  /\ at \in {"judged", "written"} => clip.what # "user"
  /\ at = "saved" /\ clip.what = "user" => saved.what = "user" /\ saved.id = clip.id
  /\ step \in {2, 4} /\ at = "timer" /\ clip.seq = seq /\ clip.what = "user"
       => saved.what = "user" /\ saved.id = clip.id

\* The user, the application and other programs.
LEMMA EnvironmentSafe ==
  ASSUME "race" \notin Troubles, Types, Selected, SafeToRestore,
         Hotkey \/ Modifiers \/ TargetChanges \/ ApplicationCopies \/ OtherCopies \/ Deadline
  PROVE  SafeToRestore'
<1>0. seq \in Nat /\ clip.seq \in Nat /\ seq <= clip.seq
  BY DEF Types, Clipboard, Selected
<1>1. CASE UNCHANGED <<step, at, seq, saved, clip>>
  BY <1>1 DEF SafeToRestore
<1>2. CASE Hotkey
  BY <1>2 DEF Hotkey, SafeToRestore
<1>3. CASE ApplicationCopies
  <2>1. UNCHANGED <<step, at, seq, saved>>
    BY <1>3 DEF ApplicationCopies, Environment
  <2>2. CASE \E what \in Selections : Write(what, clip.id, "target")
    <3>1. clip'.what # "user"
      BY <2>2 DEF Write, Selections
    <3> QED BY <2>1, <3>1 DEF SafeToRestore
  <2> QED BY <1>1, <1>3, <2>1, <2>2 DEF ApplicationCopies
<1>4. CASE OtherCopies
  <2>1. UNCHANGED <<step, at, seq, saved>> /\ at \in {"timer", "owned", "read"}
    BY <1>4 DEF OtherCopies, Environment
  <2>2. clip'.seq = clip.seq + 1
    BY <1>4 DEF OtherCopies, Write
  <2>3. clip'.seq # seq
    BY <1>0, <2>2
  <2> QED BY <2>1, <2>3 DEF SafeToRestore
<1> QED BY <1>1, <1>2, <1>3, <1>4 DEF Modifiers, TargetChanges, Deadline, Environment

\* The program's own steps.
LEMMA TickSafe ==
  ASSUME Types, Progress, Selected, SafeToRestore, Tick \/ Exit
  PROVE  SafeToRestore'
<1>1. CASE Stop
  BY <1>1 DEF Stop, SafeToRestore
<1>2. CASE TickCancelled \/ TickHeld \/ TickRestore \/ Exit
  BY <1>1, <1>2 DEF TickCancelled, TickHeld, TickRestore, Exit
<1>3. CASE TickSave
  <2>1. CASE saved' = [what |-> clip.what, id |-> clip.id] /\ Continue("saved") /\ UNCHANGED clip
    BY <2>1 DEF Continue, SafeToRestore
  <2> QED BY <1>1, <1>3, <2>1 DEF TickSave
<1>4. CASE TickCopy
  <2>1. CASE GoTo(2)
    BY <1>4, <2>1 DEF TickCopy, GoTo, SafeToRestore
  <2> QED BY <1>1, <1>4, <2>1 DEF TickCopy
<1>5. CASE TickPoll
  <2>1. CASE UNCHANGED <<step, at, saved>>
    BY <1>5, <2>1 DEF TickPoll, SafeToRestore
  <2> QED BY <1>1, <1>5, <2>1 DEF TickPoll
<1>6. CASE TickOwner
  <2>1. CASE Continue("owned")
    BY <2>1 DEF Continue, SafeToRestore
  <2> QED BY <1>1, <1>6, <2>1 DEF TickOwner
<1>7. CASE TickRead
  BY <1>7 DEF TickRead, Continue, SafeToRestore
<1>8. CASE TickJudge
  <2>1. at = "read" /\ UNCHANGED <<seq, clip>>
    BY <1>8 DEF TickJudge
  <2>2. clip.seq = seq => clip.what # "user"
    BY <2>1 DEF Selected, HoldsSelection, Selections
  <2>3. CASE GoTo(4)
    BY <2>1, <2>2, <2>3 DEF GoTo, SafeToRestore
  <2>4. CASE clip.seq = seq /\ Continue("judged")
    BY <2>1, <2>2, <2>4 DEF Continue, SafeToRestore
  <2> QED BY <1>1, <1>8, <2>3, <2>4 DEF TickJudge
<1>9. CASE TickWrite
  <2>1. at = "judged" /\ at' = "written"
    BY <1>9 DEF TickWrite, Continue
  <2>2. clip'.what # "user"
    BY <1>9, <2>1 DEF TickWrite, Write, SafeToRestore
  <2> QED BY <2>1, <2>2 DEF SafeToRestore
<1>10. CASE TickPaste
  BY <1>10 DEF TickPaste, GoTo, Frozen, SafeToRestore
<1> QED BY <1>2, <1>3, <1>4, <1>5, <1>6, <1>7, <1>8, <1>9, <1>10 DEF Tick

\* A restore gives back the user's own copy, or overwrites none of the user's.
LEMMA RestoreSpares ==
  ASSUME Types, Selected, SafeToRestore, at = "timer", step \in {2, 4}, NEW expected, NEW why,
         \/ expected = seq
         \/ expected = clip.seq /\ clip.owner = "target",
         Restore(expected, why), clip' # clip, clip.what = "user"
  PROVE  clip'.what = "user" /\ clip'.id = clip.id
<1>1. clip.seq = expected /\ Write(saved.what, saved.id, "us")
  BY DEF Restore
<1>2. expected = seq
  BY DEF Selected, HoldsSelection, Selections
<1>3. saved.what = "user" /\ saved.id = clip.id
  BY <1>1, <1>2 DEF SafeToRestore
<1> QED BY <1>1, <1>3 DEF Write

\* The steps that write the clipboard.
LEMMA StepSpares ==
  ASSUME Types, Progress, Selected, SafeToRestore, Next,
         clip' # clip, clip'.owner = "us", clip.what = "user"
  PROVE  clip'.what = "user" /\ clip'.id = clip.id
<1>1. CASE ApplicationCopies \/ OtherCopies
  <2>1. clip'.owner # "us"
    BY <1>1, OwnersAssumption DEF ApplicationCopies, OtherCopies, Write
  <2> QED BY <2>1
<1>2. CASE TickCancelled
  <2>1. step = 2 /\ at = "timer" /\ Restore(seq, "moved")
    BY <1>2 DEF TickCancelled, Timer
  <2> QED BY <2>1, RestoreSpares
<1>3. CASE TickWrite
  <2>1. clip.what # "user"
    BY <1>3 DEF TickWrite, SafeToRestore
  <2> QED BY <2>1
<1>4. CASE TickRestore
  <2>1. step = 4 /\ at = "timer" /\ Restore(seq, excuse)
    BY <1>4 DEF TickRestore, Timer
  <2> QED BY <2>1, RestoreSpares
<1>5. CASE Exit
  <2>1. at = "timer"
    BY <1>5 DEF Exit
  <2>2. CASE step = 4 /\ Restore(seq, excuse)
    BY <2>1, <2>2, RestoreSpares
  <2>3. CASE step = 2 /\ clip.owner = "target" /\ Restore(clip.seq, excuse)
    BY <2>1, <2>3, RestoreSpares
  <2>4. CASE UNCHANGED clip
    BY <2>4
  <2> QED BY <1>5, <2>2, <2>3, <2>4 DEF Exit
<1>6. CASE UNCHANGED clip
  BY <1>6
<1> QED BY <1>1, <1>2, <1>3, <1>4, <1>5, <1>6
        DEF Next, Tick, Hotkey, Modifiers, TargetChanges, Deadline, TickHeld, TickSave, TickCopy,
            TickPoll, TickOwner, TickRead, TickJudge, TickPaste, Frozen

\* What the user has copied is never overwritten by the clean-up, but by that same
\* copy (app.c:4925), as long as no copy lands between two clipboard calls that
\* belong together and every copy names the program it comes from.
THEOREM NewerCopiesSurvive ==
  ASSUME "none" \notin Owners, "race" \notin Troubles
  PROVE  Spec => NeverClobbersNewerCopy
<1>1. Init => SafeToRestore
  BY DEF Init, SafeToRestore
<1>2. ASSUME Types, Progress, Selected, SafeToRestore, [Next]_vars
      PROVE  SafeToRestore'
  <2>1. CASE UNCHANGED vars
    <3>1. UNCHANGED <<step, at, seq, saved, clip>>
      BY <2>1 DEF vars
    <3> QED BY <1>2, <3>1 DEF SafeToRestore
  <2> QED BY <1>2, <2>1, EnvironmentSafe, TickSafe DEF Next
<1>3. Types /\ Progress /\ Selected /\ SafeToRestore /\ [Next]_vars
        => [clip' # clip /\ clip'.owner = "us" /\ clip.what = "user"
              => clip'.what = "user" /\ clip'.id = clip.id]_vars
  BY StepSpares
<1> QED BY <1>1, <1>2, <1>3, InitTypes, StepTypes, StaysSelected, PTL DEF Spec, NeverClobbersNewerCopy

-----------------------------------------------------------------------------
\* While nothing excuses it, the user's clipboard is on the clipboard or in the snapshot:
\* before Ctrl+C it is untouched; from then on it is saved, and what a step does not give
\* back itself has been written by the user meanwhile.
GivesBack ==
  /\ clip.owner \in {"program", "none"} => clip.what = "user"
  /\ step = 2 /\ at = "timer" /\ clip.seq # seq =>
       clip.owner # "us" /\ (clip.owner = "target" => ~copying)
  /\ at \in Inside \/ step = 4 => ~copying
  /\ excuse = "none" =>
       /\ step \in {0, 1} => clip.what = "user"
       /\ step \in {2, 4} \/ at = "saved" => saved.what = "user"
       /\ step = 2 /\ at = "timer" /\ clip.seq = seq => clip.what = "user"
       /\ (at \in {"owned", "read"} \/ step = 4) /\ clip.seq # seq => clip.what = "user"

\* The user, the application and other programs.
LEMMA EnvironmentGivesBack ==
  ASSUME "none" \notin Owners, Types, Progress, Selected, GivesBack,
         Hotkey \/ Modifiers \/ TargetChanges \/ ApplicationCopies \/ OtherCopies \/ Deadline
  PROVE  GivesBack'
<1>0. seq \in Nat /\ clip.seq \in Nat /\ seq <= clip.seq /\ clip.seq + 1 # seq
  BY DEF Types, Clipboard, Selected
<1>1. CASE UNCHANGED <<step, at, seq, saved, clip, copying, excuse>>
  BY <1>1 DEF GivesBack
<1>2. CASE Hotkey
  <2>1. step = 0 /\ step' = 1 /\ at = "timer" /\ UNCHANGED <<at, seq, saved, clip, copying>>
        /\ (excuse' = "none" => clip.what = "user" \/ excuse = "none")
    BY <1>2 DEF Hotkey
  <2> QED BY <2>1 DEF GivesBack, Inside
<1>3. CASE ApplicationCopies
  <2>1. UNCHANGED <<step, at, seq, saved>> /\ copying /\ ~copying'
    BY <1>3 DEF ApplicationCopies, Environment
  <2>2. CASE UNCHANGED <<clip, excuse>>
    BY <2>1, <2>2 DEF GivesBack
  <2>3. CASE /\ \E what \in Selections : Write(what, clip.id, "target")
             /\ excuse' = IF step = 2 THEN excuse ELSE "slow"
    <3>1. clip'.owner = "target" /\ clip'.seq = clip.seq + 1
      BY <2>3 DEF Write
    <3>2. excuse' = "none" => step = 2 /\ excuse = "none"
      BY <2>3
    <3>3. at \notin Inside /\ step # 4
      BY <2>1 DEF GivesBack
    <3>4. step = 2 => at = "timer"
      BY <3>3 DEF Types, Progress, Inside
    <3> QED BY <1>0, <2>1, <3>1, <3>2, <3>3, <3>4 DEF GivesBack, Inside
  <2> QED BY <1>3, <2>2, <2>3 DEF ApplicationCopies
<1>4. CASE OtherCopies
  <2>1. UNCHANGED <<step, at, seq, saved, copying, excuse>>
    BY <1>4 DEF OtherCopies, Environment
  <2>2. clip'.what = "user" /\ clip'.seq = clip.seq + 1 /\ clip'.owner = "program"
    BY <1>4, OwnersAssumption DEF OtherCopies, Write
  <2> QED BY <1>0, <2>1, <2>2 DEF GivesBack
<1> QED BY <1>1, <1>2, <1>3, <1>4 DEF Modifiers, TargetChanges, Deadline, Environment

\* A restore leaves the user's clipboard there, or an excuse.
LEMMA RestoreGivesBack ==
  ASSUME GivesBack, saved # Nothing, NEW expected, NEW why, Restore(expected, why), why # "none" \/ excuse = "none",
         excuse = "none" => saved.what = "user" /\ (clip.seq # expected => clip.what = "user")
  PROVE  /\ excuse' = "none" => clip'.what = "user"
         /\ clip'.owner \in {"program", "none"} => clip'.what = "user"
<1>1. CASE saved # Nothing /\ clip.seq = expected /\ Write(saved.what, saved.id, "us") /\ excuse' = why
  BY <1>1 DEF Write
<1>2. CASE clip.seq # expected /\ UNCHANGED clip /\ excuse' = why
  BY <1>2 DEF GivesBack
<1>3. CASE UNCHANGED clip /\ excuse' = "busy"
  BY <1>3 DEF GivesBack
<1> QED BY <1>1, <1>2, <1>3 DEF Restore

\* The clean-up has ended with the user's clipboard in place.
LEMMA StoppedGivesBack ==
  ASSUME Stop, excuse' = "none" => clip'.what = "user",
         clip'.owner \in {"program", "none"} => clip'.what = "user"
  PROVE  GivesBack'
BY DEF Stop, GivesBack, Inside

\* The first two steps.
LEMMA EarlyGivesBack ==
  ASSUME Types, Progress, Selected, GivesBack,
         TickCancelled \/ TickHeld \/ TickSave \/ TickCopy \/ TickPoll
  PROVE  GivesBack'
<1>1. CASE TickCancelled
  <2>1. CASE Timer(1) /\ UNCHANGED <<clip, excuse>>
    <3>1. excuse = "none" => clip.what = "user"
      BY <2>1 DEF Timer, GivesBack
    <3> QED BY <1>1, <2>1, <3>1, StoppedGivesBack DEF TickCancelled, GivesBack
  <2>2. CASE Timer(2) /\ Restore(seq, "moved")
    <3>1. excuse' # "none" /\ (clip'.owner \in {"program", "none"} => clip'.what = "user")
      BY <2>2 DEF Restore, Write, GivesBack
    <3> QED BY <1>1, <3>1, StoppedGivesBack DEF TickCancelled
  <2> QED BY <1>1, <2>1, <2>2 DEF TickCancelled
<1>2. CASE TickHeld
  <2>1. excuse = "none" => clip.what = "user"
    BY <1>2 DEF TickHeld, Timer, GivesBack
  <2> QED BY <1>2, <2>1, StoppedGivesBack DEF TickHeld, GivesBack
<1>3. CASE TickSave
  <2>1. /\ step = 1 /\ at = "timer" /\ UNCHANGED <<seq, clip, excuse, copying>>
        /\ (excuse = "none" => clip.what = "user")
    BY <1>3 DEF TickSave, Timer, Frozen, GivesBack
  <2>2. CASE saved' = [what |-> clip.what, id |-> clip.id] /\ Continue("saved")
    BY <2>1, <2>2 DEF Continue, GivesBack, Inside
  <2>3. CASE Stop
    BY <2>1, <2>3, StoppedGivesBack DEF GivesBack
  <2> QED BY <1>3, <2>2, <2>3 DEF TickSave
<1>4. CASE TickCopy
  <2>1. step = 1 /\ at = "saved" /\ seq' = clip.seq /\ UNCHANGED <<clip, excuse>>
    BY <1>4 DEF TickCopy, Progress
  <2>2. CASE GoTo(2)
    BY <2>1, <2>2 DEF GoTo, GivesBack, Inside
  <2>3. CASE Stop
    BY <2>1, <2>3, StoppedGivesBack DEF GivesBack
  <2> QED BY <1>4, <2>2, <2>3 DEF TickCopy
<1>5. CASE TickPoll
  <2>1. step = 2 /\ at = "timer" /\ clip.seq = seq /\ UNCHANGED <<seq, clip, copying>>
    BY <1>5 DEF TickPoll, Timer, Frozen
  <2>2. CASE UNCHANGED <<step, at, saved, excuse>>
    BY <2>1, <2>2 DEF GivesBack
  <2>3. CASE Stop /\ excuse' = IF copying THEN "slow" ELSE excuse
    BY <2>1, <2>3, StoppedGivesBack DEF GivesBack
  <2> QED BY <1>5, <2>2, <2>3 DEF TickPoll
<1> QED BY <1>1, <1>2, <1>3, <1>4, <1>5

\* The later steps, and the exit.
LEMMA LateGivesBack ==
  ASSUME Types, Progress, Selected, GivesBack,
         TickOwner \/ TickRead \/ TickJudge \/ TickWrite \/ TickPaste \/ TickRestore \/ Exit
  PROVE  GivesBack'
<1>1. CASE TickOwner
  <2>1. step = 2 /\ at = "timer" /\ clip.seq # seq /\ seq' = clip.seq /\ UNCHANGED <<clip, excuse, copying>>
    BY <1>1 DEF TickOwner, Timer, Frozen
  <2>2. clip.owner # "none" /\ clip.owner # "us" /\ (clip.owner = "target" => ~copying)
    BY <2>1 DEF GivesBack, Selected, HoldsSelection
  <2>3. CASE clip.owner = "target" /\ Continue("owned") /\ UNCHANGED saved
    BY <2>1, <2>2, <2>3 DEF Continue, GivesBack, Inside
  <2>4. CASE clip.owner # "target" /\ Stop
    <3>1. clip.what = "user"
      BY <2>2, <2>4 DEF Types, Clipboard, GivesBack
    <3> QED BY <2>1, <2>4, <3>1, StoppedGivesBack
  <2> QED BY <1>1, <2>2, <2>3, <2>4 DEF TickOwner
<1>2. CASE TickRead
  BY <1>2 DEF TickRead, Continue, Frozen, Progress, GivesBack, Inside
<1>3. CASE TickJudge
  <2>1. /\ step = 2 /\ at = "read" /\ UNCHANGED <<seq, clip, excuse, copying>>
        /\ (excuse = "none" /\ clip.seq # seq => clip.what = "user")
    BY <1>3 DEF TickJudge, Frozen, Progress, GivesBack, Inside
  <2>2. CASE Stop /\ clip.seq # seq
    BY <2>1, <2>2, StoppedGivesBack DEF GivesBack
  <2>3. CASE GoTo(4)
    BY <2>1, <2>3 DEF GoTo, GivesBack, Inside
  <2>4. CASE Continue("judged") /\ UNCHANGED saved
    BY <2>1, <2>4 DEF Continue, GivesBack, Inside
  <2> QED BY <1>3, <2>2, <2>3, <2>4 DEF TickJudge
<1>4. CASE TickWrite
  <2>1. /\ step = 2 /\ at = "judged" /\ at' = "written" /\ UNCHANGED <<step, seq, saved, excuse, copying>>
    BY <1>4 DEF TickWrite, Continue, Frozen, Progress, Inside
  <2>2. clip'.owner \in {"program", "none"} => clip'.what = "user"
    BY <1>4 DEF TickWrite, Write, GivesBack
  <2> QED BY <2>1, <2>2 DEF GivesBack, Inside
<1>5. CASE TickPaste
  <2>1. step = 2 /\ at = "written" /\ seq' = clip.seq /\ UNCHANGED <<clip, excuse, copying>> /\ GoTo(4)
    BY <1>5 DEF TickPaste, Frozen, Progress, Inside
  <2> QED BY <2>1 DEF GoTo, GivesBack, Inside
<1>6. CASE TickRestore
  <2>1. step = 4 /\ Restore(seq, excuse) /\ Stop /\ saved # Nothing
    BY <1>6 DEF TickRestore, Timer, Progress
  <2>2. excuse = "none" => saved.what = "user" /\ (clip.seq # seq => clip.what = "user")
    BY <2>1 DEF GivesBack
  <2>3. excuse # "none" \/ excuse = "none"
    OBVIOUS
  <2> QED BY <2>1, <2>2, <2>3, RestoreGivesBack, StoppedGivesBack
<1>7. CASE Exit
  <2>1. Stop /\ at = "timer"
    BY <1>7 DEF Exit
  <2>2. CASE step = 4 /\ Restore(seq, excuse)
    <3>1. saved # Nothing /\ (excuse = "none" => saved.what = "user" /\ (clip.seq # seq => clip.what = "user"))
      BY <2>2 DEF GivesBack, Progress
    <3> QED BY <2>1, <2>2, <3>1, RestoreGivesBack, StoppedGivesBack
  <2>3. CASE step = 2 /\ Restore(clip.seq, excuse)
    <3>1. saved # Nothing /\ (excuse = "none" => saved.what = "user")
      BY <2>3 DEF GivesBack, Progress
    <3> QED BY <2>1, <2>3, <3>1, RestoreGivesBack, StoppedGivesBack
  <2>4. CASE /\ step \in {0, 1} \/ (step = 2 /\ (clip.seq = seq \/ clip.owner # "target"))
             /\ UNCHANGED clip /\ excuse' = IF copying THEN "slow" ELSE excuse
    <3>1. excuse = "none" => clip.what = "user"
      BY <2>1, <2>4 DEF GivesBack, Types, Clipboard
    <3> QED BY <2>1, <2>4, <3>1, StoppedGivesBack DEF GivesBack
  <2> QED BY <1>7, <2>2, <2>3, <2>4 DEF Exit
<1> QED BY <1>1, <1>2, <1>3, <1>4, <1>5, <1>6, <1>7

\* Once a clean-up is over, the clipboard is the user's again unless one of the three
\* excuses holds (TYPING_HELPERS.md:144), however the copies, the polls, the failures and
\* the exit interleave, as long as every copy names the program it comes from.
THEOREM ClipboardGivenBack ==
  ASSUME "none" \notin Owners
  PROVE  Spec => []LeftAsFound
<1>1. Init => GivesBack
  BY DEF Init, GivesBack, Inside
<1>2. ASSUME Types, Progress, Selected, GivesBack, [Next]_vars
      PROVE  GivesBack'
  <2>1. CASE UNCHANGED vars
    <3>1. UNCHANGED <<step, at, seq, saved, clip, copying, excuse>>
      BY <2>1 DEF vars
    <3> QED BY <1>2, <3>1 DEF GivesBack
  <2> QED BY <1>2, <2>1, EnvironmentGivesBack, EarlyGivesBack, LateGivesBack DEF Next, Tick
<1>3. GivesBack => LeftAsFound
  BY DEF GivesBack, LeftAsFound
<1> QED BY <1>1, <1>2, <1>3, InitTypes, StepTypes, StaysSelected, PTL DEF Spec
=============================================================================
