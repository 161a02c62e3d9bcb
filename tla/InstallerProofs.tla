-------------------------- MODULE InstallerProofs ---------------------------
(* Setup and the uninstaller, for any packs, runs and failing calls.        *)
EXTENDS Installer, TLAPS

Upgrading == {"stop", "stage", "delete", "backup", "swap", "putback", "undo", "discard", "failed"}
Installed == {"clean", "packs", "settings", "startup", "register"}
Uninstalling == {"ustop", "udelete", "urest", "uend"}

\* A clean-up that waits while Setup installs is one that Install could not cancel,
\* and only an uninstall arranges one.
CleanupPending ==
    /\ pc \in Upgrading \cup Installed => ~runOnce \/ uncancelled
    /\ pc \in Uninstalling => result = "uninstalling"
    /\ runOnce => result # "installed" \/ uncancelled

\* What Setup would offer is what the user may have chosen, until the program saves
\* something else; a setting that could not be written leaves the choice open.
Offered(setting, entry, chosen) ==
    /\ setting \in {"on", "off"} => (setting = "on") \in chosen
    /\ setting = "none" => TRUE \in chosen
    /\ setting = "older" => entry \in chosen
ChoiceStands ==
    turned \/ /\ Offered(settings, runEntry, choice)
              /\ settings = "older" /\ pc = "startup" => choice = BOOLEAN

\* How far the swap of the files has come, and what was written after it unless
\* a problem was reported or the program saved its own settings since.
Progress ==
    /\ pc = "stop" => file = App
    /\ pc = "stage" /\ file = Uninstaller => staged[App] = Version
    /\ pc \in {"delete", "backup", "swap"} =>
         /\ staged[Uninstaller] = Version
         /\ IF file = App THEN staged[App] = Version ELSE target[App] = Version
    /\ pc \in Installed => \A f \in Files : target[f] = Version
    /\ pc \in {"settings", "startup", "register"} /\ ~problems => \A p \in Ships : packs[p] = Version
    /\ pc \in {"startup", "register"} /\ ~problems => saved \/ settings = Line(startup)
    /\ pc = "register" /\ ~problems => saved \/ runEntry = startup

\* The program does not run from a file that is about to be replaced.
NotRunning ==
    /\ pc \in {"swap", "putback"} => running # "target"
    /\ pc \in {"delete", "backup", "undo"} /\ file = Uninstaller => running # "target"

\* A file as it was when Install was pressed; one whose place was made free; one
\* that is back.
Same(f) == target[f] = before.target[f] /\ old[f] = before.old[f]
SetAside(f) ==
    \/ before.target[f] # 0 /\ old[f] = before.target[f]
    \/ before.target[f] = 0 /\ old[f] \in {0, before.old[f]}
Restored(f) ==
    \/ target[f] = before.target[f]
    \/ before.target[f] = 0 /\ target[f] = before.old[f]

\* What is remembered of the installation has these parts.
Recorded ==
    before = [target |-> before.target, old |-> before.old, packs |-> before.packs,
              listed |-> before.listed, runEntry |-> before.runEntry, settings |-> before.settings]

\* Until the last file is swapped, each file can still be put back; after the one
\* call that may fail, no other does.
Undoable ==
    /\ pc \in Upgrading =>
         <<packs, listed, runEntry, settings>>
           = <<before.packs, before.listed, before.runEntry, before.settings>>
    /\ pc \in {"stop", "stage"} => Same(App) /\ Same(Uninstaller)
    /\ pc \in {"delete", "backup", "swap", "putback", "undo"} =>
         IF file = App THEN Same(Uninstaller) ELSE SetAside(App)
    /\ pc = "delete" => Same(file)
    /\ pc = "backup" => target[file] = before.target[file] /\ old[file] \in {0, before.old[file]}
    /\ pc \in {"swap", "putback"} => target[file] = 0 /\ SetAside(file)
    /\ pc = "undo" => Restored(file)
    /\ pc \in {"discard", "failed"} => Restored(App) /\ Restored(Uninstaller)
    /\ pc = "putback" \/ (pc = "undo" /\ file = Uninstaller) => faults = MaxFaults

-----------------------------------------------------------------------------
(* What the program saves.                                                  *)

\* Truth values.
LEMMA Truths == TRUE \in BOOLEAN /\ FALSE \in BOOLEAN
BY Zenon

\* A saved setting changes the settings, the Run entry and the program's memory, and
\* nothing that Setup works on.
LEMMA SavedParts ==
    ASSUME Toggle \/ SaveOther
    PROVE  /\ UNCHANGED <<folder, listed, runOnce, shell, running, pc, wizard, runs, uncancelled, result>>
           /\ Works \/ Fault
           /\ before' = [before EXCEPT !.settings = settings', !.runEntry = runEntry']
           /\ saved' = (saved \/ pc \in {"startup", "register"})
BY DEF Toggle, SaveOther, SaveSettings

\* It leaves truth values and a setting.
LEMMA SavedTypes ==
    ASSUME Toggle \/ SaveOther, runEntry \in BOOLEAN, startWithWindows \in BOOLEAN, settings \in Setting
    PROVE  runEntry' \in BOOLEAN /\ startWithWindows' \in BOOLEAN /\ settings' \in Setting
<1>1. ASSUME NEW on \in BOOLEAN, SaveSettings(on)
      PROVE  runEntry' \in BOOLEAN /\ startWithWindows' \in BOOLEAN /\ settings' \in Setting
  BY <1>1 DEF SaveSettings, Setting, Line
<1> QED BY <1>1 DEF Toggle, SaveOther

-----------------------------------------------------------------------------
(* Clean-ups at the next sign-in.                                           *)

\* At the start no clean-up waits.
LEMMA CleanupInit == Init => CleanupPending
BY DEF Init, CleanupPending, Upgrading, Installed, Uninstalling

\* Install cancels a clean-up or notes that it could not, and what is installed
\* afterwards arranges none.
LEMMA CleanupStep == CleanupPending /\ [Next]_vars => CleanupPending'
<1> SUFFICES ASSUME CleanupPending, [Next]_vars PROVE CleanupPending'
  OBVIOUS
<1> USE DEF CleanupPending, Upgrading, Installed, Uninstalling
<1>0. CASE Toggle \/ SaveOther
  BY <1>0, SavedParts
<1>1. CASE AppStarts \/ AppEnds \/ OlderToggle
  BY <1>1 DEF AppStarts, AppEnds, OlderToggle, history
<1>2. CASE SignIn \/ SelfDelete
  BY <1>2 DEF SignIn, SelfDelete, history
<1>3. CASE Crash \/ Open \/ Cancel
  BY <1>3 DEF Crash, Open, Cancel, system, history
<1>4. CASE Install
  BY <1>4 DEF Install, Pressed
<1>5. CASE Stop \/ StopForUninstall
  BY <1>5 DEF Stop, StopForUninstall, StopApp, history
<1>6. CASE Stage \/ DeleteOld
  BY <1>6 DEF Stage, DeleteOld, system, history
<1>7. CASE Backup \/ Swap \/ PutBack
  BY <1>7 DEF Backup, Swap, PutBack, system, history
<1>8. CASE Undo \/ Discard \/ RestartPrevious
  BY <1>8 DEF Undo, Discard, RestartPrevious, system, history
<1>9. CASE CleanOld \/ InstallPacks \/ WriteSettings
  BY <1>9 DEF CleanOld, InstallPacks, WriteSettings, system, history
<1>10. CASE UpdateStartup \/ Finish
  BY <1>10 DEF UpdateStartup, Finish, history
<1>11. CASE Uninstall
  BY <1>11 DEF Uninstall, system
<1>12. CASE DeleteApp \/ RemoveRest
  BY <1>12 DEF DeleteApp, RemoveRest
<1>13. CASE EndUninstall
  BY <1>13 DEF EndUninstall
<1>14. CASE UNCHANGED vars
  BY <1>14 DEF vars, system, history
<1> QED BY <1>0, <1>1, <1>2, <1>3, <1>4, <1>5, <1>6, <1>7, <1>8, <1>9, <1>10, <1>11, <1>12, <1>13, <1>14
        DEF Next, Setup

\* No sign-in deletes a program that was installed after the uninstall, unless Setup
\* could not cancel the clean-up.
THEOREM InstallSurvivesSignIn == Spec => []SignInSparesInstall
<1>1. Init => CleanupPending
  BY CleanupInit
<1>2. CleanupPending /\ [Next]_vars => CleanupPending'
  BY CleanupStep
<1>3. CleanupPending => SignInSparesInstall
  BY DEF CleanupPending, SignInSparesInstall
<1> QED BY <1>1, <1>2, <1>3, PTL DEF Spec

-----------------------------------------------------------------------------
(* Types.                                                                   *)

\* What the folder holds as functions, and the version Setup carries.
LEMMA Versioned ==
    ASSUME TypeOK
    PROVE  /\ target \in [Files -> Versions] /\ staged \in [Files -> Versions]
           /\ old \in [Files -> Versions] /\ packs \in [Packs -> Versions]
           /\ Version \in Versions \ {0} /\ 0 \in Versions
           /\ NoFiles \in [Files -> Versions] /\ NoPacks \in [Packs -> Versions]
           /\ file \in Files /\ App \in Files /\ Uninstaller \in Files /\ App # Uninstaller
           /\ faults \in 0 .. MaxFaults /\ runs \in 0 .. MaxRuns
           /\ MaxFaults \in Nat /\ MaxRuns \in Nat
<1>1. MaxFaults \in Nat /\ MaxRuns \in Nat /\ faults \in 0 .. MaxFaults /\ runs \in 0 .. MaxRuns
  BY InstallerAssumption DEF TypeOK
<1>2. Version \in Versions \ {0} /\ 0 \in Versions
  BY <1>1 DEF Version, Versions
<1>3. NoFiles \in [Files -> Versions] /\ NoPacks \in [Packs -> Versions]
  BY <1>2 DEF NoFiles, NoPacks
<1>4. /\ target \in [Files -> Versions] /\ staged \in [Files -> Versions]
      /\ old \in [Files -> Versions] /\ packs \in [Packs -> Versions]
  BY DEF TypeOK
<1>5. file \in Files /\ App \in Files /\ Uninstaller \in Files /\ App # Uninstaller
  BY DEF TypeOK, Files, App, Uninstaller
<1> QED BY <1>1, <1>2, <1>3, <1>4, <1>5

\* The program runs from a file that is there.
Runs == running # "no" => (IF running = "old" THEN old ELSE target)[App] # 0

\* The types in parts: the folder, the truth values, the rest.
FolderTypes ==
    /\ target \in [Files -> Versions] /\ staged \in [Files -> Versions]
    /\ old \in [Files -> Versions] /\ packs \in [Packs -> Versions]
TruthTypes ==
    /\ listed \in BOOLEAN /\ runEntry \in BOOLEAN /\ runOnce \in BOOLEAN /\ shell \in BOOLEAN
    /\ startup \in BOOLEAN /\ wasRunning \in BOOLEAN /\ problems \in BOOLEAN
    /\ self \in BOOLEAN /\ purge \in BOOLEAN /\ startWithWindows \in BOOLEAN
    /\ turned \in BOOLEAN /\ saved \in BOOLEAN /\ uncancelled \in BOOLEAN
Places ==
    {"idle", "dialog", "stop", "stage", "delete", "backup", "swap", "putback", "undo",
     "discard", "failed", "clean", "packs", "settings", "startup", "register",
     "ustop", "udelete", "urest", "uend"}
RestTypes ==
    /\ settings \in Setting /\ pc \in Places /\ file \in Files /\ faults \in 0 .. MaxFaults
    /\ runs \in 0 .. MaxRuns /\ choice \in SUBSET BOOLEAN

\* The parts make up the types.
LEMMA TypeParts ==
    TypeOK <=> FolderTypes /\ TruthTypes /\ RestTypes /\ Runs /\ running \in {"no", "target", "old"}
BY DEF TypeOK, FolderTypes, TruthTypes, RestTypes, Runs, Places


\* The program starts on an empty or an older installation.
LEMMA TypeInit == Init => TypeOK
<1> SUFFICES ASSUME Init PROVE TypeOK
  OBVIOUS
<1>1. 0 \in Versions /\ 1 \in Versions /\ 0 \in 0 .. MaxFaults /\ 0 \in 0 .. MaxRuns
  BY InstallerAssumption DEF Versions
<1>2. FolderTypes
  BY <1>1 DEF Init, FolderTypes, NoFiles, NoPacks
<1>3. TruthTypes
  BY Truths DEF Init, TruthTypes
<1>4. RestTypes
  <2>1. choice \in SUBSET BOOLEAN /\ settings \in Setting
    BY Truths DEF Init, Setting
  <2> QED BY <1>1, <2>1 DEF Init, RestTypes, Places, Files
<1>5. Runs /\ running \in {"no", "target", "old"}
  <2>1. CASE running = "no"
    BY <2>1 DEF Runs
  <2>2. CASE target = [f \in Files |-> 1] /\ running = "target"
    BY <2>2 DEF Runs, Files, App
  <2> QED BY <2>1, <2>2 DEF Init
<1> QED BY <1>2, <1>3, <1>4, <1>5, TypeParts

\* Truth values stay truth values.
LEMMA TruthStep == TruthTypes /\ settings \in Setting /\ [Next]_vars => TruthTypes'
<1> SUFFICES ASSUME TruthTypes, settings \in Setting, [Next]_vars PROVE TruthTypes'
  OBVIOUS
<1>0. Starts \/ Ends \/ UNCHANGED program => startWithWindows' \in BOOLEAN
  BY Truths, Zenon DEF Starts, Ends, program, TruthTypes
<1> USE Truths DEF TruthTypes, wish
<1>1. CASE AppStarts \/ AppEnds \/ SignIn \/ SelfDelete
  <2>1. startWithWindows' \in BOOLEAN
    BY <1>0, <1>1 DEF AppStarts, AppEnds, SignIn, SelfDelete
  <2>3. CASE AppStarts
    BY <2>1, <2>3 DEF AppStarts, wizard, history
  <2>4. CASE AppEnds
    BY <2>1, <2>4 DEF AppEnds, wizard, history
  <2>5. CASE SignIn
    BY <2>1, <2>5 DEF SignIn, wizard
  <2>6. CASE SelfDelete
    BY <2>1, <2>6 DEF SelfDelete, program, wizard, history
  <2> QED BY <1>1, <2>3, <2>4, <2>5, <2>6
<1>2. CASE Toggle \/ SaveOther
  <2>1. runEntry' \in BOOLEAN /\ startWithWindows' \in BOOLEAN
    BY <1>2, SavedTypes
  <2>2. /\ UNCHANGED <<listed, runOnce, shell, wizard, uncancelled>>
        /\ saved' = (saved \/ pc \in {"startup", "register"})
    BY <1>2, SavedParts
  <2>3. saved' \in BOOLEAN
    BY <2>2, Zenon
  <2>4. CASE Toggle
    <3>1. turned' = FALSE
      BY <2>4 DEF Toggle
    <3> QED BY <2>1, <2>2, <2>3, <3>1 DEF wizard
  <2>5. CASE SaveOther
    <3>1. turned' = (turned \/ startWithWindows \notin choice \/ (settings = "none" /\ settings' = "older"))
      BY <2>5 DEF SaveOther
    <3>2. turned' \in BOOLEAN
      BY <3>1, Zenon
    <3> QED BY <2>1, <2>2, <2>3, <3>2 DEF wizard
  <2> QED BY <1>2, <2>4, <2>5
<1>3. CASE Crash \/ Cancel
  <2>1. startWithWindows' \in BOOLEAN
    BY <1>0, <1>3 DEF Crash, Cancel, system
  <2>3. CASE Crash
    BY <2>1, <2>3 DEF Crash, wizard
  <2>4. CASE Cancel
    BY <2>1, <2>4 DEF Cancel, system, wizard, history
  <2> QED BY <1>3, <2>3, <2>4
<1>14. CASE OlderToggle
  BY <1>0, <1>14 DEF OlderToggle, wizard
<1>4. CASE Open
  <2>1. StartupDefault \in BOOLEAN
    BY DEF StartupDefault
  <2> QED BY <1>0, <1>4, <2>1 DEF Open, system, history
<1>5. CASE Install
  BY <1>0, <1>5 DEF Install, Pressed
<1>6. CASE Stop \/ StopForUninstall
  <2>1. (running = "target") \in BOOLEAN
    BY Zenon
  <2>2. wasRunning' \in BOOLEAN
    BY <1>6, <2>1 DEF Stop, StopForUninstall, StopApp
  <2> QED BY <1>0, <1>6, <2>2 DEF Stop, StopForUninstall, StopApp, history
<1>7. CASE Stage \/ DeleteOld \/ Swap \/ Discard \/ CleanOld
  BY <1>0, <1>7 DEF Stage, DeleteOld, Swap, Discard, CleanOld, system, wizard, history
<1>8. CASE Backup \/ PutBack \/ Undo \/ RestartPrevious
  BY <1>0, <1>8 DEF Backup, PutBack, Undo, RestartPrevious, wizard, history
<1>9. CASE InstallPacks \/ WriteSettings
  <2>1. startWithWindows' \in BOOLEAN
    BY <1>0, <1>9 DEF InstallPacks, WriteSettings, system
  <2>3. CASE InstallPacks
    BY <2>1, <2>3 DEF InstallPacks, system, history
  <2>4. CASE WriteSettings
    BY <2>1, <2>4 DEF WriteSettings
  <2> QED BY <1>9, <2>3, <2>4
<1>10. CASE UpdateStartup \/ Finish
  <2>1. startWithWindows' \in BOOLEAN
    BY <1>0, <1>10 DEF UpdateStartup, Finish
  <2>3. CASE UpdateStartup
    BY <2>1, <2>3 DEF UpdateStartup, history
  <2>4. CASE Finish
    BY <2>1, <2>4 DEF Finish
  <2> QED BY <1>10, <2>3, <2>4
<1>11. CASE Uninstall
  BY <1>0, <1>11 DEF Uninstall, system
<1>12. CASE DeleteApp \/ RemoveRest \/ EndUninstall
  <2>1. startWithWindows' \in BOOLEAN
    BY <1>0, <1>12 DEF DeleteApp, RemoveRest, EndUninstall
  <2>2. (turned /\ settings' \in {"on", "off"}) \in BOOLEAN
    BY Zenon
  <2>3. CASE DeleteApp
    BY <2>1, <2>3 DEF DeleteApp, wizard
  <2>4. CASE RemoveRest
    <3>1. turned' = (turned /\ settings' \in {"on", "off"})
      BY <2>4 DEF RemoveRest
    <3>2. turned' \in BOOLEAN
      BY <2>2, <3>1, Zenon
    <3>3. UNCHANGED <<runOnce, shell, wizard, startWithWindows, saved, uncancelled>>
      BY <2>4 DEF RemoveRest, program
    <3>4. runEntry' \in {FALSE, runEntry} /\ listed' \in {FALSE, listed}
      BY <2>4 DEF RemoveRest
    <3> QED BY <3>2, <3>3, <3>4 DEF wizard
  <2>5. CASE EndUninstall
    BY <2>1, <2>5 DEF EndUninstall, wizard
  <2> QED BY <1>12, <2>3, <2>4, <2>5
<1>13. CASE UNCHANGED vars
  BY <1>0, <1>13 DEF vars, system, wizard, history
<1> QED BY <1>1, <1>2, <1>3, <1>4, <1>5, <1>6, <1>7, <1>8, <1>9, <1>10, <1>11, <1>12, <1>13, <1>14
        DEF Next, Setup

\* The place in the program, the file, the bounds and the choice stay in their sets.
LEMMA RestStep == RestTypes /\ TruthTypes /\ [Next]_vars => RestTypes'
<1> SUFFICES ASSUME RestTypes, TruthTypes, [Next]_vars PROVE RestTypes'
  OBVIOUS
<1>0. /\ settings \in Setting /\ pc \in Places /\ file \in Files /\ faults \in 0 .. MaxFaults
      /\ runs \in 0 .. MaxRuns /\ choice \in SUBSET BOOLEAN
      /\ MaxFaults \in Nat /\ MaxRuns \in Nat
  BY InstallerAssumption DEF RestTypes
<1>s. (Toggle \/ SaveOther) =>
        /\ settings' \in Setting /\ (Works \/ Fault) /\ UNCHANGED <<runs, pc, file>>
  BY <1>0, SavedParts, SavedTypes DEF TruthTypes, wizard
<1>1. UNCHANGED faults \/ (faults < MaxFaults /\ faults' = faults + 1) \/ faults' = 0
      => faults' \in 0 .. MaxFaults
  BY <1>0
<1>2. faults' \in 0 .. MaxFaults
  <2>1. ASSUME Works \/ Fault PROVE faults' \in 0 .. MaxFaults
    BY <1>1, <2>1 DEF Works, Fault
  <2>2. ASSUME NEW f, NEW place, Refused(f, place) PROVE faults' \in 0 .. MaxFaults
    BY <1>1, <2>2 DEF Refused, Works, Fault
  <2>3. CASE AppStarts \/ AppEnds \/ OlderToggle \/ SignIn \/ SelfDelete \/ Crash
    BY <1>1, <2>3 DEF AppStarts, AppEnds, OlderToggle, SignIn, SelfDelete, Crash
  <2>9. CASE Toggle \/ SaveOther \/ Install
    BY <1>s, <2>1, <2>9 DEF Install
  <2>4. CASE Open \/ Cancel \/ Stop \/ StopForUninstall \/ Uninstall \/ RestartPrevious
    BY <1>1, <2>4
    DEF Open, Cancel, Stop, StopForUninstall, StopApp, Uninstall, RestartPrevious
  <2>5. CASE Stage \/ DeleteOld \/ Backup \/ Swap \/ PutBack \/ Undo \/ Discard
    BY <2>1, <2>2, <2>5 DEF Stage, DeleteOld, Backup, Swap, PutBack, Undo, Discard
  <2>6. CASE CleanOld \/ InstallPacks \/ WriteSettings \/ UpdateStartup \/ Finish
    BY <2>1, <2>6 DEF CleanOld, InstallPacks, WriteSettings, UpdateStartup, Finish
  <2>7. CASE DeleteApp \/ RemoveRest \/ EndUninstall
    BY <2>1, <2>2, <2>7 DEF DeleteApp, RemoveRest, EndUninstall
  <2>8. CASE UNCHANGED vars
    BY <1>1, <2>8 DEF vars
  <2> QED BY <2>3, <2>4, <2>5, <2>6, <2>7, <2>8, <2>9 DEF Next, Setup
<1>3. runs' \in 0 .. MaxRuns
  <2>1. CASE AppStarts \/ AppEnds \/ OlderToggle \/ SignIn \/ SelfDelete \/ Crash
    BY <1>0, <2>1 DEF AppStarts, AppEnds, OlderToggle, SignIn, SelfDelete, Crash
  <2>8. CASE Toggle \/ SaveOther
    BY <1>0, <1>s, <2>8
  <2>2. CASE Open \/ Uninstall
    BY <1>0, <2>2 DEF Open, Uninstall
  <2>3. CASE Cancel \/ Install \/ Stop \/ StopForUninstall \/ RestartPrevious
    BY <1>0, <2>3 DEF Cancel, Install, Pressed, Stop, StopForUninstall, StopApp, RestartPrevious
  <2>4. CASE Stage \/ DeleteOld \/ Backup \/ Swap \/ PutBack \/ Undo \/ Discard
    BY <1>0, <2>4 DEF Stage, DeleteOld, Backup, Swap, PutBack, Undo, Discard
  <2>5. CASE CleanOld \/ InstallPacks \/ WriteSettings \/ UpdateStartup \/ Finish
    BY <1>0, <2>5 DEF CleanOld, InstallPacks, WriteSettings, UpdateStartup, Finish
  <2>6. CASE DeleteApp \/ RemoveRest \/ EndUninstall
    BY <1>0, <2>6 DEF DeleteApp, RemoveRest, EndUninstall
  <2>7. CASE UNCHANGED vars
    BY <1>0, <2>7 DEF vars
  <2> QED BY <2>1, <2>2, <2>3, <2>4, <2>5, <2>6, <2>7, <2>8 DEF Next, Setup
<1>4. settings' \in Setting /\ choice' \in SUBSET BOOLEAN
  <2>0. \A b \in BOOLEAN : {b} \in SUBSET BOOLEAN
    OBVIOUS
  <2> USE DEF program, wish
  <2>1. CASE AppStarts \/ AppEnds \/ SignIn \/ SelfDelete \/ Crash
    BY <1>0, <2>1 DEF AppStarts, AppEnds, SignIn, SelfDelete, Crash, history
  <2>2. CASE Toggle \/ SaveOther
    <3>1. choice' = choice \/ choice' = BOOLEAN \/ \E on \in BOOLEAN : choice' = {on}
      BY <2>2 DEF Toggle, SaveOther
    <3> QED BY <1>0, <1>s, <2>0, <2>2, <3>1
  <2>11. CASE OlderToggle
    BY <1>0, <2>0, <2>11 DEF OlderToggle
  <2>3. CASE Open \/ Uninstall \/ Cancel \/ Install
    BY <1>0, <2>3 DEF Open, Uninstall, Cancel, Install, Pressed, system, history
  <2>4. CASE Stop \/ StopForUninstall \/ RestartPrevious
    BY <1>0, <2>4 DEF Stop, StopForUninstall, StopApp, RestartPrevious, history
  <2>5. CASE Stage \/ DeleteOld \/ Backup \/ Swap \/ PutBack \/ Undo \/ Discard
    BY <1>0, <2>5 DEF Stage, DeleteOld, Backup, Swap, PutBack, Undo, Discard, system, history
  <2>6. CASE CleanOld \/ InstallPacks \/ UpdateStartup \/ Finish
    BY <1>0, <2>6 DEF CleanOld, InstallPacks, UpdateStartup, Finish, system, history
  <2>7. CASE WriteSettings
    BY <1>0, <2>0, <2>7 DEF WriteSettings, Setting, TruthTypes, Line
  <2>8. CASE RemoveRest
    BY <1>0, <2>0, <2>8, Truths DEF RemoveRest, Setting
  <2>9. CASE DeleteApp \/ EndUninstall
    BY <1>0, <2>9 DEF DeleteApp, EndUninstall
  <2>10. CASE UNCHANGED vars
    BY <1>0, <2>10 DEF vars, system, history
  <2> QED BY <2>1, <2>2, <2>3, <2>4, <2>5, <2>6, <2>7, <2>8, <2>9, <2>10, <2>11 DEF Next, Setup
<1>5. pc' \in Places /\ file' \in Files
  <2> USE DEF Places, Files, wizard
  <2>1. CASE AppStarts \/ AppEnds \/ OlderToggle \/ SignIn \/ SelfDelete \/ Crash
    BY <1>0, <2>1 DEF AppStarts, AppEnds, OlderToggle, SignIn, SelfDelete, Crash
  <2>9. CASE Toggle \/ SaveOther
    BY <1>0, <1>s, <2>9
  <2>2. CASE Open \/ Uninstall \/ Cancel \/ Install
    BY <1>0, <2>2 DEF Open, Uninstall, Cancel, Install, Pressed
  <2>3. CASE Stop \/ StopForUninstall \/ RestartPrevious
    BY <1>0, <2>3 DEF Stop, StopForUninstall, StopApp, RestartPrevious
  <2>4. CASE Stage \/ Swap
    BY <1>0, <2>4 DEF Stage, Swap
  <2>5. CASE DeleteOld \/ Backup \/ PutBack \/ Undo \/ Discard
    BY <1>0, <2>5 DEF DeleteOld, Backup, PutBack, Undo, Discard
  <2>6. CASE CleanOld \/ InstallPacks \/ WriteSettings \/ UpdateStartup \/ Finish
    BY <1>0, <2>6 DEF CleanOld, InstallPacks, WriteSettings, UpdateStartup, Finish
  <2>7. CASE DeleteApp \/ RemoveRest \/ EndUninstall
    BY <1>0, <2>7 DEF DeleteApp, RemoveRest, EndUninstall
  <2>8. CASE UNCHANGED vars
    BY <1>0, <2>8 DEF vars
  <2> QED BY <2>1, <2>2, <2>3, <2>4, <2>5, <2>6, <2>7, <2>8, <2>9 DEF Next, Setup
<1> QED BY <1>2, <1>3, <1>4, <1>5 DEF RestTypes

\* What the folder holds stays versions.
LEMMA FolderStep == TypeOK /\ [Next]_vars => FolderTypes'
<1> SUFFICES ASSUME TypeOK, [Next]_vars PROVE FolderTypes'
  OBVIOUS
<1>0. /\ target \in [Files -> Versions] /\ staged \in [Files -> Versions]
      /\ old \in [Files -> Versions] /\ packs \in [Packs -> Versions]
      /\ Version \in Versions /\ 0 \in Versions
      /\ NoFiles \in [Files -> Versions] /\ NoPacks \in [Packs -> Versions]
      /\ file \in Files /\ App \in Files /\ Uninstaller \in Files
  BY Versioned
<1> USE DEF FolderTypes
<1>1. CASE AppStarts \/ AppEnds \/ OlderToggle \/ Crash
  BY <1>0, <1>1 DEF AppStarts, AppEnds, OlderToggle, Crash, folder
<1>17. CASE Toggle \/ SaveOther
  BY <1>0, <1>17, SavedParts DEF folder
<1>2. CASE SignIn
  BY <1>0, <1>2 DEF SignIn, folder
<1>3. CASE SelfDelete
  <2>1. Removed("target") \in [Files -> Versions] /\ Removed("old") \in [Files -> Versions]
    BY <1>0 DEF Removed
  <2> QED BY <1>0, <1>3, <2>1 DEF SelfDelete, RemoveFolder
<1>4. CASE Open \/ Cancel \/ Install \/ Stop \/ StopForUninstall \/ RestartPrevious \/ Uninstall
  BY <1>0, <1>4
  DEF Open, Cancel, Install, Pressed, Stop, StopForUninstall, StopApp, RestartPrevious, Uninstall, folder
<1>5. CASE Stage
  BY <1>0, <1>5 DEF Stage
<1>6. CASE DeleteOld
  BY <1>0, <1>6 DEF DeleteOld
<1>7. CASE Backup
  BY <1>0, <1>7 DEF Backup
<1>8. CASE Swap
  BY <1>0, <1>8 DEF Swap
<1>9. CASE PutBack
  BY <1>0, <1>9 DEF PutBack, MovedBack
<1>10. CASE Undo
  BY <1>0, <1>10 DEF Undo, MovedBack
<1>11. CASE Discard \/ CleanOld
  BY <1>0, <1>11 DEF Discard, CleanOld
<1>12. CASE InstallPacks
  <2>1. \A S : [p \in Packs |-> IF p \in S THEN Version ELSE 0] \in [Packs -> Versions]
    BY <1>0
  <2>2. \A S : [p \in Packs |-> IF p \in S THEN Version ELSE packs[p]] \in [Packs -> Versions]
    BY <1>0
  <2> QED BY <1>0, <1>12, <2>1, <2>2 DEF InstallPacks
<1>13. CASE WriteSettings \/ UpdateStartup \/ Finish
  BY <1>0, <1>13 DEF WriteSettings, UpdateStartup, Finish, folder
<1>14. CASE DeleteApp \/ RemoveRest
  BY <1>0, <1>14 DEF DeleteApp, RemoveRest, folder
<1>15. CASE EndUninstall
  BY <1>0, <1>15 DEF EndUninstall
<1>16. CASE UNCHANGED vars
  BY <1>0, <1>16 DEF vars, folder
<1> QED BY <1>1, <1>2, <1>3, <1>4, <1>5, <1>6, <1>7, <1>8, <1>9, <1>10, <1>11, <1>12, <1>13, <1>14,
           <1>15, <1>16, <1>17 DEF Next, Setup

\* The files are swapped in order, each from a copy that is complete; what is
\* written after them is there, or a problem is reported.
LEMMA ProgressStep == TypeOK /\ Progress /\ [Next]_vars => Progress'
<1> SUFFICES ASSUME TypeOK, Progress, [Next]_vars PROVE Progress'
  OBVIOUS
<1>0. /\ target \in [Files -> Versions] /\ staged \in [Files -> Versions] /\ packs \in [Packs -> Versions]
      /\ file \in Files /\ App \in Files /\ Uninstaller \in Files /\ App # Uninstaller
      /\ \A f \in Files : f = App \/ f = Uninstaller
  BY Versioned DEF Files
<1>p. /\ pc \in {"delete", "backup", "swap"} =>
           /\ staged[Uninstaller] = Version
           /\ IF file = App THEN staged[App] = Version ELSE target[App] = Version
      /\ pc = "stop" => file = App
      /\ pc = "stage" /\ file = Uninstaller => staged[App] = Version
      /\ pc \in Installed => \A f \in Files : target[f] = Version
      /\ pc \in {"settings", "startup", "register"} /\ ~problems => \A p \in Ships : packs[p] = Version
      /\ pc \in {"startup", "register"} /\ ~problems => saved \/ settings = Line(startup)
      /\ pc = "register" /\ ~problems => saved \/ runEntry = startup
  BY DEF Progress
<1>v. runs' = runs => Version' = Version /\ Ships' = Ships
  BY DEF Version, Ships
<1>a. ASSUME pc' \in {"idle", "dialog", "putback", "undo", "discard", "failed"}
                     \cup Uninstalling \/ (pc' \in {"stop", "stage"} /\ file' = App)
      PROVE  Progress'
  BY <1>a DEF Progress, Installed, Uninstalling, App, Uninstaller
<1>b. ASSUME UNCHANGED <<target, staged, packs, startup, problems, pc, file, runs>>,
             UNCHANGED <<settings, runEntry, saved>> \/ saved' = (saved \/ pc \in {"startup", "register"})
      PROVE  Progress'
  BY <1>b, <1>p, <1>v DEF Progress, Line
<1>1. CASE AppStarts \/ AppEnds
  BY <1>1, <1>b DEF AppStarts, AppEnds, folder, wizard, history
<1>17. CASE Toggle \/ SaveOther
  BY <1>17, <1>b, SavedParts DEF folder, wizard
<1>2. CASE OlderToggle \/ SignIn \/ SelfDelete
  BY <1>2, <1>a DEF OlderToggle, SignIn, SelfDelete
<1>3. CASE Open \/ Cancel \/ Install \/ Uninstall \/ Crash
  BY <1>3, <1>a DEF Open, Cancel, Install, Pressed, Uninstall, Crash, Uninstalling
<1>4. CASE Stop \/ StopForUninstall
  <2>1. CASE pc' = "udelete"
    BY <1>a, <2>1 DEF Uninstalling
  <2>2. CASE pc = "stop" /\ pc' = "stage" /\ file' = file
    BY <1>a, <1>p, <2>2
  <2> QED BY <1>4, <2>1, <2>2 DEF Stop, StopForUninstall, StopApp
<1>5. CASE Stage
  <2>1. CASE pc' = "discard"
    BY <1>a, <2>1
  <2>2. CASE /\ staged' = [staged EXCEPT ![file] = Version]
             /\ file' = IF file = App THEN Uninstaller ELSE App
             /\ pc' = IF file = App THEN "stage" ELSE "delete"
    <3>1. runs' = runs /\ pc = "stage"
      BY <1>5 DEF Stage
    <3>2. CASE file = App
      BY <1>0, <1>v, <2>2, <3>1, <3>2 DEF Progress, Installed
    <3>3. CASE file = Uninstaller
      BY <1>0, <1>p, <1>v, <2>2, <3>1, <3>3 DEF Progress, Installed
    <3> QED BY <1>0, <3>2, <3>3
  <2> QED BY <1>5, <2>1, <2>2 DEF Stage
<1>6. CASE DeleteOld
  BY <1>6, <1>0, <1>p, <1>v DEF DeleteOld, wizard, Progress, Installed
<1>7. CASE Backup
  <2>1. CASE pc' = "undo"
    BY <1>a, <2>1
  <2>2. CASE pc' = "swap"
    <3>1. /\ pc = "backup" /\ UNCHANGED <<staged, file, runs>>
          /\ target' = target \/ target' = [target EXCEPT ![file] = 0]
      BY <1>7, <2>2 DEF Backup, wizard
    <3> QED BY <1>0, <1>p, <1>v, <2>2, <3>1 DEF Progress, Installed
  <2> QED BY <1>7, <2>1, <2>2 DEF Backup
<1>8. CASE Swap
  <2>1. CASE pc' = "putback"
    BY <1>a, <2>1
  <2>2. CASE /\ target' = [target EXCEPT ![file] = staged[file]]
             /\ staged' = [staged EXCEPT ![file] = 0]
             /\ file' = IF file = App THEN Uninstaller ELSE App
             /\ pc' = IF file = App THEN "delete" ELSE "clean"
    <3>1. runs' = runs /\ pc = "swap"
      BY <1>8 DEF Swap
    <3>2. CASE file = App
      BY <1>0, <1>p, <1>v, <2>2, <3>1, <3>2 DEF Progress, Installed
    <3>3. CASE file = Uninstaller
      BY <1>0, <1>p, <1>v, <2>2, <3>1, <3>3 DEF Progress, Installed
    <3> QED BY <1>0, <3>2, <3>3
  <2> QED BY <1>8, <2>1, <2>2 DEF Swap
<1>9. CASE PutBack \/ Undo \/ Discard \/ RestartPrevious
  BY <1>9, <1>a DEF PutBack, Undo, Discard, RestartPrevious
<1>10. CASE CleanOld
  BY <1>10, <1>p, <1>v DEF CleanOld, Progress, Installed
<1>11. CASE InstallPacks
  <2>1. /\ pc = "packs" /\ pc' = "settings" /\ UNCHANGED <<target, runs>>
        /\ problems' \/ packs' = [p \in Packs |-> IF p \in Ships THEN Version ELSE 0]
    BY <1>11 DEF InstallPacks
  <2>2. Ships \subseteq Packs
    BY DEF Ships
  <2> QED BY <1>p, <1>v, <2>1, <2>2 DEF Progress, Installed
<1>12. CASE WriteSettings
  BY <1>12, <1>p, <1>v DEF WriteSettings, Progress, Installed, folder, Line
<1>13. CASE UpdateStartup
  BY <1>13, <1>p, <1>v DEF UpdateStartup, Progress, Installed, folder, history, Line
<1>14. CASE Finish \/ EndUninstall
  BY <1>14, <1>a DEF Finish, EndUninstall
<1>15. CASE DeleteApp \/ RemoveRest
  BY <1>15, <1>a DEF DeleteApp, RemoveRest, Uninstalling
<1>16. CASE UNCHANGED vars
  BY <1>16, <1>b DEF vars, folder, system, wizard, history
<1> QED BY <1>1, <1>2, <1>3, <1>4, <1>5, <1>6, <1>7, <1>8, <1>9, <1>10, <1>11, <1>12, <1>13, <1>14,
           <1>15, <1>16, <1>17 DEF Next, Setup

\* The program runs from nothing, from its file, or from the file an upgrade renamed,
\* and never from a place an upgrade is about to fill.
LEMMA RunningStep ==
    TypeOK /\ Progress /\ NotRunning /\ [Next]_vars
      => Runs' /\ NotRunning' /\ running' \in {"no", "target", "old"}
<1> SUFFICES ASSUME TypeOK, Progress, NotRunning, [Next]_vars
             PROVE  Runs' /\ NotRunning' /\ running' \in {"no", "target", "old"}
  OBVIOUS
<1>0. /\ target \in [Files -> Versions] /\ staged \in [Files -> Versions] /\ old \in [Files -> Versions]
      /\ file \in Files /\ App \in Files /\ Uninstaller \in Files /\ App # Uninstaller
      /\ Version # 0 /\ running \in {"no", "target", "old"}
      /\ \A f \in Files : f = App \/ f = Uninstaller
  BY Versioned DEF Files, TypeOK
<1>r. /\ running = "target" => target[App] # 0
      /\ running = "old" => old[App] # 0
  BY TypeParts DEF Runs
<1>n. /\ pc \in {"swap", "putback"} => running # "target"
      /\ pc \in {"delete", "backup", "undo"} /\ file = Uninstaller => running # "target"
  BY DEF NotRunning
<1>a. ASSUME running' \in {"no", "target", "old"},
             running' = "target" => target'[App] # 0,
             running' = "old" => old'[App] # 0,
             pc' \in {"swap", "putback"} => running' # "target",
             pc' \in {"delete", "backup", "undo"} /\ file' = Uninstaller => running' # "target"
      PROVE  Runs' /\ NotRunning' /\ running' \in {"no", "target", "old"}
  BY <1>a DEF Runs, NotRunning, App, Uninstaller
<1>b. ASSUME running' \in {"no", running}, UNCHANGED <<target, old>>,
             \/ UNCHANGED <<pc, file>>
             \/ pc' \notin {"swap", "putback", "delete", "backup", "undo"}
      PROVE  Runs' /\ NotRunning' /\ running' \in {"no", "target", "old"}
  BY <1>0, <1>a, <1>b, <1>n, <1>r
<1> USE DEF program, Starts, Ends
<1>1. CASE AppStarts
  BY <1>1, <1>a DEF AppStarts, folder
<1>2. CASE AppEnds \/ OlderToggle
  BY <1>2, <1>b DEF AppEnds, OlderToggle, folder, wizard
<1>23. CASE Toggle \/ SaveOther
  BY <1>23, <1>b, SavedParts DEF folder, wizard
<1>3. CASE SignIn
  <2>1. /\ pc' = "idle" /\ running' = IF runEntry /\ target[App] # 0 THEN "target" ELSE "no"
        /\ runEntry => target'[App] = target[App]
    <3>1. CASE runOnce
      BY <1>0, <1>3, <3>1 DEF SignIn
    <3>2. CASE ~runOnce
      BY <1>3, <3>2 DEF SignIn, folder
    <3> QED BY <1>3, <3>1, <3>2 DEF SignIn
  <2> QED BY <1>a, <2>1
<1>4. CASE SelfDelete
  <2>1. /\ pc' = "idle" /\ running' = running
        /\ target' = Removed("target") /\ old' = Removed("old")
    BY <1>4 DEF SelfDelete, RemoveFolder
  <2>2. running = "target" => target'[App] = target[App]
    BY <1>0, <2>1 DEF Removed, InUse
  <2>3. running = "old" => old'[App] = old[App]
    BY <1>0, <2>1 DEF Removed, InUse
  <2> QED BY <1>0, <1>a, <1>r, <2>1, <2>2, <2>3
<1>5. CASE Open \/ Cancel \/ Install \/ Uninstall \/ Crash
  BY <1>5, <1>b DEF Open, Cancel, Install, Pressed, Uninstall, Crash, folder, system
<1>6. CASE Stop \/ StopForUninstall
  BY <1>6, <1>b DEF Stop, StopForUninstall, StopApp, folder
<1>7. CASE Stage
  <2>1. UNCHANGED <<target, old, running>>
    BY <1>7 DEF Stage, system
  <2>2. CASE pc' \in {"stage", "discard"}
    BY <1>b, <2>1, <2>2
  <2>3. CASE pc' = "delete" /\ file' = App
    BY <1>0, <1>a, <1>r, <2>1, <2>3
  <2> QED BY <1>7, <2>2, <2>3 DEF Stage
<1>8. CASE DeleteOld
  <2>1. /\ pc = "delete" /\ pc' = "backup" /\ UNCHANGED <<target, running, file>>
        /\ \/ ~InUse(file, "old") /\ old' = [old EXCEPT ![file] = 0]
           \/ old' = old
    BY <1>8 DEF DeleteOld, system, wizard
  <2>2. running = "old" => old'[App] = old[App]
    BY <1>0, <2>1 DEF InUse
  <2> QED BY <1>0, <1>a, <1>n, <1>r, <2>1, <2>2
<1>9. CASE Backup
  <2>0. pc = "backup" /\ file' = file
    BY <1>9 DEF Backup, wizard
  <2>1. CASE target[file] = 0 /\ pc' = "swap" /\ UNCHANGED <<target, old, running>>
    <3>1. running # "target"
      BY <1>0, <1>n, <1>r, <2>0, <2>1
    <3> QED BY <1>0, <1>a, <1>r, <2>1, <3>1
  <2>2. CASE /\ target[file] # 0 /\ ~InUse(file, "old")
             /\ old' = [old EXCEPT ![file] = target[file]]
             /\ target' = [target EXCEPT ![file] = 0]
             /\ running' = (IF InUse(file, "target") THEN "old" ELSE running)
             /\ pc' = "swap"
    <3>1. CASE file = App
      BY <1>0, <1>a, <1>r, <2>2, <3>1 DEF InUse
    <3>2. CASE file = Uninstaller
      BY <1>0, <1>a, <1>n, <1>r, <2>0, <2>2, <3>2 DEF InUse
    <3> QED BY <1>0, <3>1, <3>2
  <2>3. CASE pc' = "undo" /\ UNCHANGED <<target, old, running>>
    BY <1>0, <1>a, <1>n, <1>r, <2>0, <2>3
  <2> QED BY <1>9, <2>1, <2>2, <2>3 DEF Backup
<1>10. CASE Swap
  <2>0. pc = "swap" /\ UNCHANGED <<old, running>> /\ running # "target"
    BY <1>10, <1>n DEF Swap, system
  <2> QED BY <1>0, <1>10, <1>a, <1>r, <2>0
<1>11. ASSUME NEW f \in Files, MovedBack(f), running # "target", pc' = "undo" \/ pc' = "discard",
              pc' = "undo" /\ file' = Uninstaller => f = Uninstaller
       PROVE  Runs' /\ NotRunning' /\ running' \in {"no", "target", "old"}
  <2>1. /\ target' = [target EXCEPT ![f] = old[f]] /\ old' = [old EXCEPT ![f] = 0]
        /\ running' = (IF InUse(f, "old") THEN "target" ELSE running)
    BY <1>11 DEF MovedBack
  <2>2. CASE f = App
    BY <1>0, <1>11, <1>a, <1>r, <2>1, <2>2 DEF InUse
  <2>3. CASE f = Uninstaller
    BY <1>0, <1>11, <1>a, <1>r, <2>1, <2>3 DEF InUse
  <2> QED BY <1>0, <2>2, <2>3
<1>12. CASE PutBack
  <2>0. pc = "putback" /\ pc' = "undo" /\ file' = file /\ running # "target"
    BY <1>12, <1>n DEF PutBack, wizard
  <2>1. CASE MovedBack(file)
    BY <1>0, <1>11, <2>0, <2>1
  <2>2. CASE UNCHANGED <<target, old, running>>
    BY <1>0, <1>a, <1>r, <2>0, <2>2
  <2> QED BY <1>12, <2>1, <2>2 DEF PutBack
<1>13. CASE Undo
  <2>0. pc = "undo" /\ pc' = "discard" /\ file' = file
    BY <1>13 DEF Undo, wizard
  <2>1. CASE UNCHANGED <<target, old, running>>
    BY <1>b, <2>0, <2>1
  <2>2. CASE file = Uninstaller /\ MovedBack(App)
    BY <1>0, <1>11, <1>n, <2>0, <2>2
  <2>3. CASE file = Uninstaller /\ target' = [target EXCEPT ![App] = 0] /\ UNCHANGED <<old, running>>
    BY <1>0, <1>a, <1>n, <1>r, <2>0, <2>3
  <2> QED BY <1>13, <2>1, <2>2, <2>3 DEF Undo
<1>14. CASE Discard \/ InstallPacks
  BY <1>14, <1>b DEF Discard, InstallPacks, system
<1>15. CASE RestartPrevious
  BY <1>0, <1>15, <1>a, <1>r DEF RestartPrevious, folder
<1>16. CASE CleanOld
  <2>1. pc' = "packs" /\ UNCHANGED <<target, running>>
    BY <1>16 DEF CleanOld, system
  <2>2. running = "old" => old'[App] = old[App]
    BY <1>0, <1>16 DEF CleanOld, InUse
  <2> QED BY <1>0, <1>a, <1>r, <2>1, <2>2
<1>17. CASE WriteSettings \/ UpdateStartup
  BY <1>17, <1>b DEF WriteSettings, UpdateStartup, folder
<1>18. CASE Finish
  <2>1. target[App] # 0
    BY <1>0, <1>18 DEF Finish, Progress, Installed
  <2>2. pc' = "idle" /\ UNCHANGED <<target, old>> /\ running' \in {"no", "target", running}
    BY <1>18 DEF Finish, folder
  <2> QED BY <1>0, <1>a, <1>r, <2>1, <2>2
<1>19. CASE DeleteApp
  <2>1. /\ pc' \in {"urest", "idle"} /\ UNCHANGED <<old, running>>
        /\ \/ target' = target
           \/ ~InUse(App, "target") /\ target' = [target EXCEPT ![App] = 0]
    BY <1>19 DEF DeleteApp
  <2>2. running = "target" => target' = target
    BY <2>1 DEF InUse
  <2> QED BY <1>0, <1>a, <1>r, <2>1, <2>2
<1>20. CASE RemoveRest
  BY <1>20, <1>b DEF RemoveRest, folder
<1>21. CASE EndUninstall
  <2>1. pc' = "idle" /\ UNCHANGED <<old, running>>
    BY <1>21 DEF EndUninstall
  <2>2. target'[App] = target[App]
    BY <1>0, <1>21 DEF EndUninstall
  <2> QED BY <1>0, <1>a, <1>r, <2>1, <2>2
<1>22. CASE UNCHANGED vars
  BY <1>22, <1>b DEF vars, folder, system, wizard
<1> QED BY <1>1, <1>2, <1>3, <1>4, <1>5, <1>6, <1>7, <1>8, <1>9, <1>10, <1>12, <1>13, <1>14,
           <1>15, <1>16, <1>17, <1>18, <1>19, <1>20, <1>21, <1>22, <1>23 DEF Next, Setup

\* The types, the progress of an installation and where the program runs from.
LEMMA InstallInvariant == Spec => [](TypeOK /\ Progress /\ NotRunning)
<1>1. Init => TypeOK /\ Progress /\ NotRunning
  BY TypeInit DEF Init, Progress, NotRunning, Installed
<1>2. TypeOK /\ Progress /\ NotRunning /\ [Next]_vars => (TypeOK /\ Progress /\ NotRunning)'
  <2> SUFFICES ASSUME TypeOK, Progress, NotRunning, [Next]_vars
               PROVE  TypeOK' /\ Progress' /\ NotRunning'
    OBVIOUS
  <2>1. FolderTypes' /\ Progress'
    BY FolderStep, ProgressStep
  <2>2. TruthTypes /\ RestTypes
    BY TypeParts
  <2>3. TruthTypes' /\ RestTypes'
    BY <2>2, TruthStep, RestStep DEF RestTypes
  <2>4. Runs' /\ NotRunning' /\ running' \in {"no", "target", "old"}
    BY RunningStep
  <2>5. FolderTypes' /\ TruthTypes' /\ RestTypes' /\ Runs' /\ running' \in {"no", "target", "old"}
          => TypeOK'
    BY DEF TypeOK, FolderTypes, TruthTypes, RestTypes, Runs, Places
  <2> QED BY <2>1, <2>3, <2>4, <2>5
<1> QED BY <1>1, <1>2, PTL DEF Spec

\* The types hold, and the program runs from a file that is there.
THEOREM TypesAreRight == Spec => []TypeOK
BY InstallInvariant, PTL

-----------------------------------------------------------------------------
(* Installations that succeed.                                              *)

\* What Finish reports without a problem is whole.
LEMMA FinishIsWhole ==
    TypeOK /\ Progress =>
      (Finish /\ ~problems' =>
         /\ target = [f \in Files |-> Version] /\ \A p \in Ships : packs[p] = Version
         /\ listed' /\ (saved \/ (runEntry = startup /\ settings = Line(startup))))
<1> SUFFICES ASSUME TypeOK, Progress, Finish, ~problems'
             PROVE  /\ target = [f \in Files |-> Version] /\ \A p \in Ships : packs[p] = Version
                    /\ listed' /\ (saved \/ (runEntry = startup /\ settings = Line(startup)))
  OBVIOUS
<1>1. pc = "register" /\ listed' = TRUE /\ problems' = problems
  BY DEF Finish
<1>2. ~problems
  BY <1>1
<1>3. target = [f \in Files |-> Version]
  BY <1>1, Versioned DEF Progress, Installed
<1> QED BY <1>1, <1>2, <1>3 DEF Progress

\* An installation that reports no problem has both files and every pack of this
\* version, is listed, and starts with Windows as it was asked to or as a program that
\* went on running saved meanwhile.
THEOREM SuccessesAreWhole == Spec => SuccessIsWhole
BY InstallInvariant, FinishIsWhole, PTL DEF SuccessIsWhole

-----------------------------------------------------------------------------
(* "Start with Windows".                                                    *)

\* At the start the choice is the one the installation stands for.
LEMMA ChoiceInit == Init => ChoiceStands
BY DEF Init, ChoiceStands, Offered

\* A line that was written stands for the value it was written from.
LEMMA LineStands ==
    ASSUME NEW on \in BOOLEAN, NEW entry, NEW chosen, on \in chosen
    PROVE  Offered(Line(on), entry, chosen) /\ Line(on) \notin {"none", "older"}
<1>1. CASE on
  <2>1. Line(on) = "on" /\ ("on" = "on") = on
    BY <1>1 DEF Line
  <2>2. ("on" = "on") \in chosen
    BY <2>1, Zenon
  <2> QED BY <2>1, <2>2 DEF Offered
<1>2. CASE ~on
  <2>1. Line(on) = "off" /\ ("off" = "on") = on
    BY <1>2 DEF Line
  <2>2. ("off" = "on") \in chosen
    BY <2>1, Zenon
  <2> QED BY <2>1, <2>2 DEF Offered
<1> QED BY <1>1, <1>2

\* Every write of the setting or of the Run entry is what was chosen last, leaves the
\* choice open or turns it round.
LEMMA ChoiceStep == TypeOK /\ ChoiceStands /\ [Next]_vars => ChoiceStands'
<1> SUFFICES ASSUME TypeOK, ChoiceStands, [Next]_vars PROVE ChoiceStands'
  OBVIOUS
<1>0. \/ turned
      \/ /\ Offered(settings, runEntry, choice)
         /\ settings = "older" /\ pc = "startup" => choice = BOOLEAN
  BY DEF ChoiceStands
<1>t. /\ runEntry \in BOOLEAN /\ startup \in BOOLEAN /\ startWithWindows \in BOOLEAN
      /\ settings \in Setting
  BY TypeParts DEF TruthTypes, RestTypes
<1>a. ASSUME UNCHANGED <<settings, choice, runEntry, turned>>, pc' = pc \/ pc' # "startup"
      PROVE  ChoiceStands'
  BY <1>0, <1>a DEF ChoiceStands
<1>c. ASSUME choice' = BOOLEAN, runEntry' \in BOOLEAN
      PROVE  ChoiceStands'
  <2>1. (settings' = "on") \in BOOLEAN /\ TRUE \in BOOLEAN
    BY Zenon
  <2> QED BY <1>c, <2>1 DEF ChoiceStands, Offered
<1>d. ASSUME NEW on \in BOOLEAN, settings' = Line(on), on \in choice'
      PROVE  ChoiceStands'
  BY <1>d, LineStands DEF ChoiceStands
<1> USE DEF program, wish, history
<1>1. CASE AppStarts \/ AppEnds \/ SignIn \/ SelfDelete
  BY <1>1, <1>a DEF AppStarts, AppEnds, SignIn, SelfDelete
<1>2. CASE Toggle
  <2>1. PICK on \in BOOLEAN :
          /\ SaveSettings(on)
          /\ choice' = (IF settings' = Line(on) THEN {on} ELSE BOOLEAN)
    BY <1>2 DEF Toggle
  <2>2. CASE settings' = Line(on)
    BY <1>d, <2>1, <2>2
  <2>3. CASE settings' # Line(on)
    BY <1>2, <1>c, <1>t, <2>1, <2>3, SavedTypes
  <2> QED BY <2>2, <2>3
<1>12. CASE SaveOther
  <2>1. /\ SaveSettings(startWithWindows) /\ choice' = choice
        /\ turned' = (turned \/ startWithWindows \notin choice \/ (settings = "none" /\ settings' = "older"))
    BY <1>12 DEF SaveOther
  <2>2. CASE turned'
    BY <2>2 DEF ChoiceStands
  <2>3. CASE ~turned'
    <3>1. startWithWindows \in choice /\ ~turned /\ ~(settings = "none" /\ settings' = "older")
      BY <2>1, <2>3
    <3>2. CASE settings' = Line(startWithWindows)
      BY <1>d, <1>t, <2>1, <3>1, <3>2
    <3>3. CASE settings' = settings
      <4>1. runEntry' \in {runEntry, startWithWindows} /\ pc' = pc
        BY <2>1 DEF SaveSettings
      <4>2. Offered(settings', runEntry', choice')
        BY <1>0, <2>1, <3>1, <3>3, <4>1 DEF Offered
      <4> QED BY <1>0, <2>1, <3>1, <3>3, <4>1, <4>2 DEF ChoiceStands
    <3> QED BY <2>1, <3>1, <3>2, <3>3 DEF SaveSettings
  <2> QED BY <2>2, <2>3
<1>13. CASE OlderToggle
  <2>1. /\ settings' = "older" /\ pc' \in {"idle", "dialog"} /\ runEntry' \in choice'
    BY <1>13 DEF OlderToggle
  <2> QED BY <2>1 DEF ChoiceStands, Offered
<1>3. CASE Crash \/ Open \/ Cancel \/ Install \/ Uninstall
  BY <1>3, <1>a DEF Crash, Open, Cancel, Install, Pressed, Uninstall, system
<1>4. CASE Stop \/ StopForUninstall \/ RestartPrevious
  BY <1>4, <1>a DEF Stop, StopForUninstall, StopApp, RestartPrevious
<1>5. CASE Stage \/ DeleteOld \/ Swap \/ Discard \/ CleanOld \/ InstallPacks
  BY <1>5, <1>a DEF Stage, DeleteOld, Swap, Discard, CleanOld, InstallPacks, system
<1>6. CASE Backup \/ PutBack \/ Undo
  BY <1>6, <1>a DEF Backup, PutBack, Undo
<1>7. CASE WriteSettings
  <2>1. runEntry' = runEntry
    BY <1>7 DEF WriteSettings
  <2>2. CASE choice' = BOOLEAN
    BY <1>c, <1>t, <2>1, <2>2
  <2>3. CASE settings' = Line(startup) /\ choice' = {startup}
    BY <1>d, <1>t, <2>3
  <2> QED BY <1>7, <2>2, <2>3 DEF WriteSettings
<1>8. CASE UpdateStartup
  <2>1. /\ pc = "startup" /\ pc' = "register" /\ UNCHANGED <<settings, choice, turned>>
        /\ runEntry' \in BOOLEAN
    BY <1>8, <1>t DEF UpdateStartup
  <2>2. CASE turned
    BY <2>1, <2>2 DEF ChoiceStands
  <2>3. CASE ~turned /\ settings = "older"
    BY <1>0, <1>c, <2>1, <2>3
  <2>4. CASE ~turned /\ settings # "older"
    BY <1>0, <2>1, <2>4 DEF ChoiceStands, Offered
  <2> QED BY <2>2, <2>3, <2>4
<1>9. CASE Finish \/ DeleteApp \/ EndUninstall
  BY <1>9, <1>a DEF Finish, DeleteApp, EndUninstall
<1>10. CASE RemoveRest
  <2>1. /\ choice' = IF settings' = "none" THEN {TRUE} ELSE IF settings = "older" THEN BOOLEAN ELSE choice
        /\ settings' \in {settings, "none"} /\ runEntry' \in BOOLEAN /\ pc' = "uend"
        /\ turned' = (turned /\ settings' \in {"on", "off"})
    BY <1>10, <1>t, Truths DEF RemoveRest
  <2>2. CASE settings' = "none"
    BY <2>1, <2>2 DEF ChoiceStands, Offered
  <2>3. CASE settings' # "none" /\ settings = "older"
    BY <1>c, <2>1, <2>3
  <2>4. CASE settings' # "none" /\ settings # "older"
    <3>1. settings' = settings /\ choice' = choice /\ settings' \in {"on", "off"}
      BY <1>t, <2>1, <2>4 DEF Setting
    <3> QED BY <1>0, <2>1, <2>4, <3>1 DEF ChoiceStands, Offered
  <2> QED BY <2>2, <2>3, <2>4
<1>11. CASE UNCHANGED vars
  BY <1>11, <1>a DEF vars, system
<1> QED BY <1>1, <1>2, <1>3, <1>4, <1>5, <1>6, <1>7, <1>8, <1>9, <1>10, <1>11, <1>12, <1>13
        DEF Next, Setup

\* What Setup offers is in the choice, unless it was turned round.
LEMMA OfferIsChoice == TypeOK /\ ChoiceStands => StartupDefault \in choice \/ turned
<1> SUFFICES ASSUME TypeOK, ChoiceStands, ~turned PROVE StartupDefault \in choice
  OBVIOUS
<1>1. runEntry \in BOOLEAN /\ settings \in {"none", "older", "on", "off"}
  BY DEF TypeOK, Setting
<1>2. CASE settings \in {"on", "off"}
  <2>1. StartupDefault = (settings = "on")
    BY <1>2 DEF StartupDefault
  <2>2. (settings = "on") \in choice
    BY <1>2 DEF ChoiceStands, Offered
  <2> QED BY <2>1, <2>2, Zenon
<1>3. CASE settings = "none"
  <2>1. StartupDefault = TRUE
    BY <1>3 DEF StartupDefault
  <2>2. TRUE \in choice
    BY <1>3 DEF ChoiceStands, Offered
  <2> QED BY <2>1, <2>2, Zenon
<1>4. CASE settings = "older"
  <2>1. StartupDefault = runEntry
    BY <1>1, <1>4 DEF StartupDefault
  <2>2. runEntry \in choice
    BY <1>4 DEF ChoiceStands, Offered
  <2> QED BY <2>1, <2>2, Zenon
<1> QED BY <1>1, <1>2, <1>3, <1>4

\* An upgrade or a reinstall offers the choice the user made last, unless the program
\* saved another value since.
THEOREM ChoiceIsKept == Spec => ChoiceKept
<1>1. Init => ChoiceStands
  BY ChoiceInit
<1>2. TypeOK /\ ChoiceStands /\ [Next]_vars => ChoiceStands'
  BY ChoiceStep
<1>3. TypeOK /\ ChoiceStands => (Open => startup' \in choice \/ turned)
  BY OfferIsChoice DEF Open
<1> QED BY <1>1, <1>2, <1>3, TypesAreRight, PTL DEF Spec, ChoiceKept

-----------------------------------------------------------------------------
(* Installations that fail.                                                 *)

\* What is remembered of the installation.
LEMMA Remembered ==
    /\ Installation.target = target /\ Installation.old = old /\ Installation.packs = packs
    /\ Installation.listed = listed /\ Installation.runEntry = runEntry
    /\ Installation.settings = settings
BY DEF Installation

\* A file that was moved back is restored.
LEMMA MovedBackIsRestored ==
    ASSUME TypeOK, NEW f \in Files, SetAside(f), old[f] # 0, MovedBack(f), before' = before
    PROVE  /\ Restored(f)'
           /\ \A g \in Files \ {f} : target'[g] = target[g] /\ old'[g] = old[g]
<1>1. target' = [target EXCEPT ![f] = old[f]] /\ old' = [old EXCEPT ![f] = 0]
  BY DEF MovedBack
<1>2. target'[f] = old[f]
  BY <1>1, Versioned
<1>3. \A g \in Files \ {f} : target'[g] = target[g] /\ old'[g] = old[g]
  BY <1>1, Versioned
<1> QED BY <1>2, <1>3 DEF SetAside, Restored

\* What is remembered is an installation, or one in which the program saved since.
LEMMA RecordedStep == Recorded /\ [Next]_vars => Recorded'
<1> SUFFICES ASSUME Recorded, [Next]_vars PROVE Recorded'
  OBVIOUS
<1>a. ASSUME before' = before \/ before' = Installation
      PROVE  Recorded'
  BY <1>a DEF Recorded, Installation
<1> USE DEF history
<1>1. CASE Toggle \/ SaveOther
  <2>1. before' = [before EXCEPT !.settings = settings', !.runEntry = runEntry']
    BY <1>1, SavedParts
  <2>2. before' = [target |-> before.target, old |-> before.old, packs |-> before.packs,
                   listed |-> before.listed, runEntry |-> runEntry', settings |-> settings']
    BY <2>1 DEF Recorded
  <2> QED BY <2>2 DEF Recorded
<1>2. CASE AppStarts \/ AppEnds \/ OlderToggle \/ SignIn \/ SelfDelete
  BY <1>2, <1>a DEF AppStarts, AppEnds, OlderToggle, SignIn, SelfDelete
<1>3. CASE Crash \/ Open \/ Cancel \/ Install \/ Uninstall
  BY <1>3, <1>a DEF Crash, Open, Cancel, Install, Pressed, Uninstall
<1>4. CASE Stop \/ StopForUninstall \/ RestartPrevious
  BY <1>4, <1>a DEF Stop, StopForUninstall, StopApp, RestartPrevious
<1>5. CASE Stage \/ DeleteOld \/ Backup \/ Swap \/ PutBack \/ Undo \/ Discard
  BY <1>5, <1>a DEF Stage, DeleteOld, Backup, Swap, PutBack, Undo, Discard
<1>6. CASE CleanOld \/ InstallPacks \/ WriteSettings \/ UpdateStartup \/ Finish
  BY <1>6, <1>a DEF CleanOld, InstallPacks, WriteSettings, UpdateStartup, Finish
<1>7. CASE DeleteApp \/ RemoveRest \/ EndUninstall
  BY <1>7, <1>a DEF DeleteApp, RemoveRest, EndUninstall
<1>8. CASE UNCHANGED vars
  BY <1>8, <1>a DEF vars
<1> QED BY <1>1, <1>2, <1>3, <1>4, <1>5, <1>6, <1>7, <1>8 DEF Next, Setup

\* Each call leaves what is needed to undo the ones before it, and the undoing
\* uses it; only one call fails.
LEMMA UndoableStep ==
    ASSUME MaxFaults <= 1
    PROVE  TypeOK /\ Recorded /\ Undoable /\ [Next]_vars => Undoable'
<1> SUFFICES ASSUME TypeOK, Recorded, Undoable, [Next]_vars PROVE Undoable'
  OBVIOUS
<1> DEFINE Rest(r) == <<r.packs, r.listed, r.runEntry, r.settings>>
           Swapping == {"delete", "backup", "swap", "putback", "undo"}
<1>0. /\ target \in [Files -> Versions] /\ staged \in [Files -> Versions] /\ old \in [Files -> Versions]
      /\ file \in Files /\ App \in Files /\ Uninstaller \in Files /\ App # Uninstaller
      /\ \A f \in Files : f = App \/ f = Uninstaller
      /\ faults \in 0 .. MaxFaults /\ MaxFaults \in Nat
  BY Versioned DEF Files
<1>u. /\ pc \in Upgrading => <<packs, listed, runEntry, settings>> = Rest(before)
      /\ pc \in {"stop", "stage"} => Same(App) /\ Same(Uninstaller)
      /\ pc \in Swapping => IF file = App THEN Same(Uninstaller) ELSE SetAside(App)
      /\ pc = "delete" => Same(file)
      /\ pc = "backup" => target[file] = before.target[file] /\ old[file] \in {0, before.old[file]}
      /\ pc \in {"swap", "putback"} => target[file] = 0 /\ SetAside(file)
      /\ pc = "undo" => Restored(file)
      /\ pc \in {"discard", "failed"} => Restored(App) /\ Restored(Uninstaller)
      /\ pc = "putback" \/ (pc = "undo" /\ file = Uninstaller) => faults = MaxFaults
  BY DEF Undoable
<1>f. Fault => faults' = MaxFaults
  BY <1>0 DEF Fault
<1>s. \A f \in Files : Same(f) => Restored(f)
  BY DEF Same, Restored
<1>a. ASSUME pc' \notin Upgrading
      PROVE  Undoable'
  BY <1>a DEF Undoable, Upgrading
<1>b. ASSUME UNCHANGED <<target, old, packs, listed, runEntry, settings, before, pc, file, faults>>
      PROVE  Undoable'
  BY <1>b, <1>u DEF Undoable, Same, SetAside, Restored
<1>c. ASSUME pc \in Upgrading, UNCHANGED <<packs, listed, runEntry, settings, before>>
      PROVE  <<packs', listed', runEntry', settings'>> = Rest(before')
  BY <1>c, <1>u
<1> USE DEF program, wish
<1>1. CASE AppStarts \/ AppEnds
  BY <1>1, <1>b DEF AppStarts, AppEnds, folder, wizard, history
<1>16. CASE Toggle \/ SaveOther
  <2>1. /\ UNCHANGED <<target, old, packs, listed, pc, file>>
        /\ Works \/ Fault
        /\ before' = [before EXCEPT !.settings = settings', !.runEntry = runEntry']
    BY <1>16, SavedParts DEF folder, wizard
  <2>2. /\ before'.target = before.target /\ before'.old = before.old
        /\ before'.packs = before.packs /\ before'.listed = before.listed
        /\ before'.runEntry = runEntry' /\ before'.settings = settings'
    BY <2>1 DEF Recorded
  <2>3. faults = MaxFaults => faults' = MaxFaults
    BY <1>0, <2>1 DEF Works, Fault
  <2>4. pc \in Upgrading => <<packs', listed', runEntry', settings'>> = Rest(before')
    BY <1>u, <2>1, <2>2
  <2> QED BY <1>u, <2>1, <2>2, <2>3, <2>4 DEF Undoable, Same, SetAside, Restored
<1>2. CASE OlderToggle \/ SignIn \/ SelfDelete
  BY <1>2, <1>a DEF OlderToggle, SignIn, SelfDelete, Upgrading
<1>3. CASE Crash \/ Open \/ Cancel \/ Uninstall
  BY <1>3, <1>a DEF Crash, Open, Cancel, Uninstall, Upgrading
<1>4. CASE Install
  <2>1. /\ pc' = "stop" /\ before' = Installation
        /\ UNCHANGED <<target, old, packs, listed, runEntry, settings>>
    BY <1>4 DEF Install, Pressed, folder
  <2>2. Same(App)' /\ Same(Uninstaller)'
    BY <2>1, Remembered DEF Same
  <2>3. <<packs', listed', runEntry', settings'>> = Rest(before')
    BY <2>1, Remembered
  <2> QED BY <2>1, <2>2, <2>3 DEF Undoable
<1>5. CASE Stop \/ StopForUninstall
  <2>1. CASE pc' = "udelete"
    BY <1>a, <2>1 DEF Upgrading
  <2>2. CASE pc = "stop" /\ pc' = "stage"
    <3>1. UNCHANGED <<target, old, packs, listed, runEntry, settings, before>>
      BY <1>5 DEF Stop, StopForUninstall, StopApp, folder, history
    <3>2. Same(App)' /\ Same(Uninstaller)'
      BY <1>u, <2>2, <3>1 DEF Same
    <3>3. <<packs', listed', runEntry', settings'>> = Rest(before')
      BY <1>c, <2>2, <3>1 DEF Upgrading
    <3> QED BY <2>2, <3>2, <3>3 DEF Undoable
  <2> QED BY <1>5, <2>1, <2>2 DEF Stop, StopForUninstall, StopApp
<1>6. CASE Stage
  <2>1. /\ pc = "stage" /\ UNCHANGED <<target, old, packs, listed, runEntry, settings, before>>
    BY <1>6 DEF Stage, system, history
  <2>2. Same(App)' /\ Same(Uninstaller)'
    BY <1>u, <2>1 DEF Same
  <2>3. <<packs', listed', runEntry', settings'>> = Rest(before')
    BY <1>c, <2>1 DEF Upgrading
  <2>4. Restored(App)' /\ Restored(Uninstaller)'
    BY <2>2 DEF Same, Restored
  <2>5. pc' \in {"stage", "discard"} \/ (pc' = "delete" /\ file' = App)
    BY <1>6 DEF Stage
  <2> QED BY <2>2, <2>3, <2>4, <2>5 DEF Undoable
<1>7. CASE DeleteOld
  <2>1. /\ pc = "delete" /\ pc' = "backup"
        /\ UNCHANGED <<target, packs, listed, runEntry, settings, before, file>>
        /\ old' = old \/ old' = [old EXCEPT ![file] = 0]
    BY <1>7 DEF DeleteOld, system, history, wizard
  <2>2. <<packs', listed', runEntry', settings'>> = Rest(before')
    BY <1>c, <2>1 DEF Upgrading
  <2>3. target'[file'] = before'.target[file'] /\ old'[file'] \in {0, before'.old[file']}
    BY <1>0, <1>u, <2>1 DEF Same
  <2>4. IF file' = App THEN Same(Uninstaller)' ELSE SetAside(App)'
    <3>1. CASE file = App
      BY <1>0, <1>u, <2>1, <3>1 DEF Same
    <3>2. CASE file = Uninstaller
      BY <1>0, <1>u, <2>1, <3>2 DEF SetAside
    <3> QED BY <1>0, <3>1, <3>2
  <2> QED BY <2>1, <2>2, <2>3, <2>4 DEF Undoable
<1>8. CASE Backup
  <2>1. /\ pc = "backup" /\ UNCHANGED <<packs, listed, runEntry, settings, before, file>>
    BY <1>8 DEF Backup, history, wizard
  <2>2. <<packs', listed', runEntry', settings'>> = Rest(before')
    BY <1>c, <2>1 DEF Upgrading
  <2>3. CASE target[file] = 0 /\ pc' = "swap" /\ UNCHANGED <<target, old>>
    <3>1. target'[file'] = 0 /\ SetAside(file)'
      BY <1>u, <2>1, <2>3 DEF SetAside
    <3>2. IF file' = App THEN Same(Uninstaller)' ELSE SetAside(App)'
      BY <1>u, <2>1, <2>3 DEF Same, SetAside
    <3> QED BY <2>2, <2>3, <3>1, <3>2 DEF Undoable
  <2>4. CASE /\ target[file] # 0 /\ pc' = "swap"
             /\ old' = [old EXCEPT ![file] = target[file]]
             /\ target' = [target EXCEPT ![file] = 0]
    <3>1. target'[file'] = 0 /\ SetAside(file)'
      BY <1>0, <1>u, <2>1, <2>4 DEF SetAside
    <3>2. IF file' = App THEN Same(Uninstaller)' ELSE SetAside(App)'
      <4>1. CASE file = App
        BY <1>0, <1>u, <2>1, <2>4, <4>1 DEF Same
      <4>2. CASE file = Uninstaller
        BY <1>0, <1>u, <2>1, <2>4, <4>2 DEF SetAside
      <4> QED BY <1>0, <4>1, <4>2
    <3> QED BY <2>2, <2>4, <3>1, <3>2 DEF Undoable
  <2>5. CASE pc' = "undo" /\ Refused(file, "old") /\ UNCHANGED <<target, old>>
    <3>1. file = Uninstaller => faults' = MaxFaults
      BY <1>0, <1>f, <2>5 DEF Refused, InUse
    <3>2. Restored(file)'
      BY <1>u, <2>1, <2>5 DEF Restored
    <3>3. IF file' = App THEN Same(Uninstaller)' ELSE SetAside(App)'
      BY <1>u, <2>1, <2>5 DEF Same, SetAside
    <3> QED BY <2>1, <2>2, <2>5, <3>1, <3>2, <3>3 DEF Undoable
  <2> QED BY <1>8, <2>3, <2>4, <2>5 DEF Backup
<1>9. CASE Swap
  <2>1. /\ pc = "swap" /\ UNCHANGED <<old, packs, listed, runEntry, settings, before>>
    BY <1>9 DEF Swap, system, history
  <2>2. <<packs', listed', runEntry', settings'>> = Rest(before')
    BY <1>c, <2>1 DEF Upgrading
  <2>3. CASE Fault /\ pc' = "putback" /\ UNCHANGED <<target, file>>
    <3>1. target'[file'] = 0 /\ SetAside(file)'
      BY <1>u, <2>1, <2>3 DEF SetAside
    <3>2. IF file' = App THEN Same(Uninstaller)' ELSE SetAside(App)'
      BY <1>u, <2>1, <2>3 DEF Same, SetAside
    <3> QED BY <1>f, <2>2, <2>3, <3>1, <3>2 DEF Undoable
  <2>4. CASE /\ target' = [target EXCEPT ![file] = staged[file]]
             /\ file' = IF file = App THEN Uninstaller ELSE App
             /\ pc' = IF file = App THEN "delete" ELSE "clean"
    <3>1. CASE file = Uninstaller
      BY <1>0, <1>a, <2>4, <3>1 DEF Upgrading
    <3>2. CASE file = App
      <4>1. Same(Uninstaller)' /\ SetAside(App)'
        BY <1>0, <1>u, <2>1, <2>4, <3>2 DEF Same, SetAside
      <4> QED BY <1>0, <2>2, <2>4, <3>2, <4>1 DEF Undoable
    <3> QED BY <1>0, <3>1, <3>2
  <2> QED BY <1>9, <2>3, <2>4 DEF Swap
<1>10. CASE PutBack
  <2>1. /\ pc = "putback" /\ pc' = "undo"
        /\ UNCHANGED <<packs, listed, runEntry, settings, before, file>>
    BY <1>10 DEF PutBack, history, wizard
  <2>2. <<packs', listed', runEntry', settings'>> = Rest(before')
    BY <1>c, <2>1 DEF Upgrading
  <2>3. ~Fault /\ faults = MaxFaults
    BY <1>0, <1>u, <2>1 DEF Fault
  <2>4. faults' = MaxFaults
    BY <1>10, <2>3 DEF PutBack, Works
  <2>5. CASE old[file] # 0 /\ MovedBack(file)
    <3>1. /\ Restored(file)'
          /\ \A g \in Files \ {file} : target'[g] = target[g] /\ old'[g] = old[g]
      BY <1>0, <1>u, <2>1, <2>5, MovedBackIsRestored
    <3>2. IF file' = App THEN Same(Uninstaller)' ELSE SetAside(App)'
      BY <1>0, <1>u, <2>1, <3>1 DEF Same, SetAside
    <3> QED BY <2>1, <2>2, <2>4, <3>1, <3>2 DEF Undoable
  <2>6. CASE old[file] = 0 /\ UNCHANGED <<target, old>>
    <3>1. Restored(file)'
      BY <1>u, <2>1, <2>6 DEF SetAside, Restored
    <3>2. IF file' = App THEN Same(Uninstaller)' ELSE SetAside(App)'
      BY <1>u, <2>1, <2>6 DEF Same, SetAside
    <3> QED BY <2>1, <2>2, <2>4, <3>1, <3>2 DEF Undoable
  <2> QED BY <1>10, <2>3, <2>5, <2>6 DEF PutBack
<1>11. CASE Undo
  <2>1. /\ pc = "undo" /\ pc' = "discard"
        /\ UNCHANGED <<packs, listed, runEntry, settings, before, file>>
    BY <1>11 DEF Undo, history, wizard
  <2>2. <<packs', listed', runEntry', settings'>> = Rest(before')
    BY <1>c, <2>1 DEF Upgrading
  <2>3. CASE file = App /\ UNCHANGED <<target, old>>
    <3>1. Restored(App)' /\ Restored(Uninstaller)'
      BY <1>u, <2>1, <2>3 DEF Same, Restored
    <3> QED BY <2>1, <2>2, <3>1 DEF Undoable
  <2>4. CASE file = Uninstaller /\ old[App] # 0 /\ MovedBack(App)
    <3>1. SetAside(App) /\ Restored(Uninstaller)
      BY <1>0, <1>u, <2>1, <2>4
    <3>2. Restored(App)' /\ target'[Uninstaller] = target[Uninstaller]
      BY <1>0, <2>1, <2>4, <3>1, MovedBackIsRestored
    <3>3. Restored(Uninstaller)'
      BY <2>1, <3>1, <3>2 DEF Restored
    <3> QED BY <2>1, <2>2, <3>2, <3>3 DEF Undoable
  <2>5. CASE file = Uninstaller /\ old[App] = 0 /\ target' = [target EXCEPT ![App] = 0]
    <3>1. Restored(App)' /\ Restored(Uninstaller)'
      BY <1>0, <1>u, <2>1, <2>5 DEF SetAside, Restored
    <3> QED BY <2>1, <2>2, <3>1 DEF Undoable
  <2>6. ~(file = Uninstaller /\ Fault)
    BY <1>0, <1>u, <2>1 DEF Fault
  <2> QED BY <1>11, <2>3, <2>4, <2>5, <2>6 DEF Undo
<1>12. CASE Discard
  <2>1. /\ pc = "discard" /\ pc' = "failed"
        /\ UNCHANGED <<target, old, packs, listed, runEntry, settings, before>>
    BY <1>12 DEF Discard, history, system
  <2>2. <<packs', listed', runEntry', settings'>> = Rest(before')
    BY <1>c, <2>1 DEF Upgrading
  <2>3. Restored(App)' /\ Restored(Uninstaller)'
    BY <1>u, <2>1 DEF Restored
  <2> QED BY <2>1, <2>2, <2>3 DEF Undoable
<1>13. CASE RestartPrevious \/ CleanOld \/ InstallPacks \/ WriteSettings \/ UpdateStartup \/ Finish
  BY <1>13, <1>a
  DEF RestartPrevious, CleanOld, InstallPacks, WriteSettings, UpdateStartup, Finish, Upgrading
<1>14. CASE DeleteApp \/ RemoveRest \/ EndUninstall
  BY <1>14, <1>a DEF DeleteApp, RemoveRest, EndUninstall, Upgrading
<1>15. CASE UNCHANGED vars
  BY <1>15, <1>b DEF vars, folder, system, wizard, history
<1> QED BY <1>1, <1>2, <1>3, <1>4, <1>5, <1>6, <1>7, <1>8, <1>9, <1>10, <1>11, <1>12, <1>13, <1>14,
           <1>15, <1>16 DEF Next, Setup

\* What an upgrade that failed leaves.
LEMMA FailureRestores ==
    Undoable =>
      (RestartPrevious =>
         /\ \A f \in Files :
              \/ target[f] = before.target[f]
              \/ before.target[f] = 0 /\ target[f] = before.old[f]
         /\ <<packs, listed, runEntry, settings>>
              = <<before.packs, before.listed, before.runEntry, before.settings>>
         /\ wasRunning /\ target[App] # 0 => running' # "no")
<1> SUFFICES ASSUME Undoable, RestartPrevious
             PROVE  /\ \A f \in Files : Restored(f)
                    /\ <<packs, listed, runEntry, settings>>
                         = <<before.packs, before.listed, before.runEntry, before.settings>>
                    /\ wasRunning /\ target[App] # 0 => running' # "no"
  BY DEF Restored
<1>1. pc = "failed"
  BY DEF RestartPrevious
<1>2. \A f \in Files : Restored(f)
  BY <1>1 DEF Undoable, Files, App, Uninstaller
<1>3. wasRunning /\ target[App] # 0 => running' # "no"
  BY DEF RestartPrevious, Starts, program
<1> QED BY <1>1, <1>2, <1>3 DEF Undoable, Upgrading

\* An upgrade in which one call fails leaves the installation as it was, whatever
\* an earlier one that was killed left behind.
THEOREM FailuresChangeNothing == ASSUME MaxFaults <= 1 PROVE Spec => FailureChangesNothing
<1>1. Init => Recorded /\ Undoable
  BY DEF Init, Recorded, Installation, Undoable, Upgrading
<1>2. TypeOK /\ Recorded /\ Undoable /\ [Next]_vars => Recorded' /\ Undoable'
  BY RecordedStep, UndoableStep
<1> QED BY <1>1, <1>2, TypesAreRight, FailureRestores, PTL DEF Spec, FailureChangesNothing
=============================================================================
