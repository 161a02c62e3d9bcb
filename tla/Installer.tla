------------------------------ MODULE Installer ------------------------------
(***************************************************************************)
(* Setup and the uninstaller (installer.c).  The program's files are       *)
(* written next to the installed ones and swapped in one call at a time;   *)
(* any call may fail and Setup may be killed between two of them, with the *)
(* copies that are left behind.  A running program's file can be renamed   *)
(* and not deleted or replaced.                                            *)
(***************************************************************************)
EXTENDS Naturals, FiniteSets

CONSTANTS
    Packs,       \* names of language packs
    MaxRuns,     \* bound: runs of Setup and of the uninstaller
    MaxFaults    \* bound: calls that fail in one run

ASSUME InstallerAssumption == MaxRuns \in Nat /\ MaxFaults \in Nat

App == 1
Uninstaller == 2
Files == {App, Uninstaller}
Versions == 0 .. MaxRuns + 1        \* 0 is a file that is not there
NoFiles == [f \in Files |-> 0]
NoPacks == [p \in Packs |-> 0]

VARIABLES
    target, staged, old,  \* a file, its "<target>.new" and its "<target>.old"
    packs,      \* the packs next to the program
    listed,     \* the Installed apps entry and the shortcuts
    runEntry,   \* the Run entry: start with Windows
    settings,   \* StartWithWindows in settings.ini; "older" has no such line
    runOnce,    \* the folder is deleted at the next sign-in
    shell,      \* the folder is deleted when the uninstaller has ended
    running,    \* which file the running program was started from
    startWithWindows, \* and its g_settings.start_with_windows
    pc,         \* where Setup or the uninstaller is
    file,       \* targets[done]
    startup,    \* the check box
    wasRunning, \* g_was_running
    problems,   \* g_install_problems
    self,       \* the uninstaller is the installed one
    purge,      \* it removes the user's data
    faults, runs,
    before,     \* history: the installation when Install was pressed
    choice,     \* history: what the user may have chosen last about starting with Windows
    turned,     \* history: the program saved something else since, which nobody asked for
    saved,      \* history: it saved between Setup's settings and its end
    uncancelled, \* history: Install could not cancel the clean-up that was pending
    result      \* history: how the last run ended

folder == <<target, staged, old, packs>>
program == <<running, startWithWindows>>
system == <<listed, runEntry, settings, runOnce, shell, program>>
wizard == <<file, startup, wasRunning, problems, self, purge>>
wish == <<choice, turned>>
history == <<before, wish, saved, uncancelled, result>>
vars == <<folder, system, pc, wizard, faults, runs, history>>

Setting == {"none", "older", "on", "off"}
Installation == [target |-> target, old |-> old, packs |-> packs, listed |-> listed,
                 runEntry |-> runEntry, settings |-> settings]

TypeOK ==
    /\ {target, staged, old} \subseteq [Files -> Versions]
    /\ packs \in [Packs -> Versions]
    /\ {listed, runEntry, runOnce, shell, startup, wasRunning, problems, self, purge} \subseteq BOOLEAN
    /\ {startWithWindows, turned, saved, uncancelled} \subseteq BOOLEAN
    /\ settings \in Setting
    /\ running \in {"no", "target", "old"}
    /\ running # "no" => (IF running = "old" THEN old ELSE target)[App] # 0
    /\ pc \in {"idle", "dialog", "stop", "stage", "delete", "backup", "swap", "putback", "undo",
               "discard", "failed", "clean", "packs", "settings", "startup", "register",
               "ustop", "udelete", "urest", "uend"}
    /\ file \in Files /\ faults \in 0 .. MaxFaults /\ runs \in 0 .. MaxRuns
    /\ choice \in SUBSET BOOLEAN

\* Nothing is installed, or a version from before StartWithWindows was saved.
Init ==
    /\ \/ /\ target = NoFiles /\ listed = FALSE /\ runEntry = FALSE
          /\ settings = "none" /\ choice = {TRUE} /\ running = "no"
       \/ /\ target = [f \in Files |-> 1] /\ listed = TRUE /\ runEntry \in BOOLEAN
          /\ settings = "older" /\ choice = {runEntry} /\ running \in {"no", "target"}
    /\ staged = NoFiles /\ old = NoFiles /\ packs = NoPacks
    /\ runOnce = FALSE /\ shell = FALSE
    /\ pc = "idle" /\ file = App /\ startup = FALSE /\ wasRunning = FALSE /\ problems = FALSE
    /\ self = FALSE /\ purge = FALSE /\ faults = 0 /\ runs = 0
    /\ startWithWindows = TRUE /\ turned = FALSE /\ saved = FALSE /\ uncancelled = FALSE
    /\ before = Installation /\ result = "none"

-----------------------------------------------------------------------------
\* A call works, fails for a reason of its own, or fails because the program
\* runs from the file.
Works == UNCHANGED faults
Fault == faults < MaxFaults /\ faults' = faults + 1
InUse(f, place) == f = App /\ running = place
Refused(f, place) == \/ InUse(f, place) /\ Works
                     \/ Fault

Version == runs + 1                 \* what this Setup carries
Ships == IF runs = 1 THEN Packs ELSE {p \in Packs : p # CHOOSE q \in Packs : TRUE}

-----------------------------------------------------------------------------
\* The user and Windows.

\* startup_default
\* Mutant: only the Run entry is asked.
StartupByRunEntry == settings = "none" \/ runEntry
StartupDefault ==
    IF settings \in {"on", "off"} THEN settings = "on" ELSE settings = "none" \/ runEntry

\* load_settings: a file without the line counts as on.
Starts == running' = "target" /\ startWithWindows' = (settings # "off")
Ends == running' = "no" /\ startWithWindows' = TRUE

\* The program is started; not within the milliseconds in which files move.
AppStarts ==
    /\ running = "no" /\ target[App] # 0 /\ pc \in {"idle", "dialog", "stage"} /\ Starts
    /\ UNCHANGED <<folder, listed, runEntry, settings, runOnce, shell, pc, wizard, faults, runs, history>>

AppEnds ==
    /\ running # "no" /\ Ends
    /\ UNCHANGED <<folder, listed, runEntry, settings, runOnce, shell, pc, wizard, faults, runs, history>>

\* save_settings: every setting and then the Run entry are written from memory; lines
\* of the file and the entry may fail each on their own.
Line(value) == IF value THEN "on" ELSE "off"
RunningVersion == (IF running = "old" THEN old ELSE target)[App]
SaveSettings(value) ==
    /\ running # "no" /\ RunningVersion > 1 /\ startWithWindows' = value
    /\ \/ settings' = Line(value) /\ runEntry' = value /\ Works
       \/ /\ settings' \in {settings, Line(value), IF settings = "none" THEN "older" ELSE settings}
          /\ runEntry' \in {runEntry, value} /\ Fault
    /\ before' = [before EXCEPT !.settings = settings', !.runEntry = runEntry']
    /\ saved' = (saved \/ pc \in {"startup", "register"})
    /\ UNCHANGED <<folder, listed, runOnce, shell, running, pc, wizard, runs, uncancelled, result>>

\* The user changes "Start with Windows" in the program: apply_controls reports what
\* could not be saved.
Toggle ==
    \E on \in BOOLEAN :
        /\ SaveSettings(on)
        /\ choice' = (IF settings' = Line(on) THEN {on} ELSE BOOLEAN) /\ turned' = FALSE

\* Or any other setting, Pause or a command of the tray menu.
SaveOther ==
    /\ SaveSettings(startWithWindows) /\ UNCHANGED choice
    /\ turned' = (turned \/ startWithWindows \notin choice
                 \/ (settings = "none" /\ settings' = "older"))

\* The version from before the line was saved kept the choice in the Run entry.
OlderToggle ==
    /\ running # "no" /\ RunningVersion = 1 /\ settings = "older" /\ pc \in {"idle", "dialog"}
    /\ \E on \in BOOLEAN : runEntry' = on /\ choice' = {on}
    /\ turned' = FALSE
    /\ UNCHANGED <<folder, listed, settings, runOnce, shell, program, pc, wizard, faults, runs, before,
                   saved, uncancelled, result>>

\* rmdir /S /Q: everything but the file the program runs from.
Removed(place) == [f \in Files |-> IF InUse(f, place) THEN (IF place = "old" THEN old ELSE target)[f] ELSE 0]
RemoveFolder ==
    /\ target' = Removed("target") /\ old' = Removed("old")
    /\ staged' = NoFiles /\ packs' = NoPacks

\* The next sign-in: Run entries are started before RunOnce commands.
SignIn ==
    /\ pc = "idle" /\ ~shell
    /\ IF runEntry /\ target[App] # 0 THEN Starts ELSE Ends
    /\ IF runOnce
       THEN /\ target' = [f \in Files |-> IF f = App /\ runEntry THEN target[f] ELSE 0]
            /\ old' = NoFiles /\ staged' = NoFiles /\ packs' = NoPacks
       ELSE UNCHANGED folder
    /\ runOnce' = FALSE /\ uncancelled' = FALSE
    /\ result' = IF runOnce /\ running' = "target" /\ result = "uninstalled" THEN "kept" ELSE result
    /\ UNCHANGED <<listed, runEntry, settings, shell, pc, wizard, faults, runs, before, wish, saved>>

\* The command of schedule_self_delete, two seconds after the uninstaller.
SelfDelete ==
    /\ shell /\ pc = "idle"
    /\ RemoveFolder /\ shell' = FALSE
    /\ UNCHANGED <<listed, runEntry, settings, runOnce, program, pc, wizard, faults, runs, history>>

\* Setup or the uninstaller is killed, or Windows stops.
Crash ==
    /\ pc # "idle" /\ pc' = "idle" /\ result' = "crashed" /\ saved' = FALSE
    /\ Ends \/ UNCHANGED program
    /\ UNCHANGED <<folder, listed, runEntry, settings, runOnce, shell, wizard, faults, runs, before, wish,
                   uncancelled>>

-----------------------------------------------------------------------------
\* Setup.

\* WM_INITDIALOG; the self-delete command of an uninstall has ended by now.
Open ==
    /\ pc = "idle" /\ runs < MaxRuns /\ ~shell
    /\ pc' = "dialog" /\ runs' = runs + 1 /\ faults' = 0
    /\ startup' = StartupDefault
    /\ UNCHANGED <<folder, system, file, wasRunning, problems, self, purge, history>>

Cancel ==
    /\ pc = "dialog" /\ pc' = "idle"
    /\ UNCHANGED <<folder, system, wizard, faults, runs, history>>

\* IDC_INSTALL, ensure_directories and cancel_pending_cleanup.
Pressed ==
    /\ pc = "dialog" /\ pc' = "stop"
    /\ startup' \in BOOLEAN
    /\ problems' = FALSE /\ wasRunning' = FALSE /\ file' = App
    /\ before' = Installation /\ result' = "installing"
    /\ UNCHANGED <<folder, listed, runEntry, settings, shell, program, self, purge, runs, wish, saved>>
\* Mutant: a pending clean-up is left.
InstallOverCleanup == Pressed /\ Works /\ UNCHANGED <<runOnce, uncancelled>>
\* A clean-up that cannot be cancelled is not reported.
Install ==
    /\ Pressed
    /\ \/ runOnce' = FALSE /\ uncancelled' = FALSE /\ Works
       \/ runOnce /\ UNCHANGED runOnce /\ uncancelled' = TRUE /\ Fault

\* stop_running_app: a program that cannot be ended, or that runs from the file
\* an upgrade renamed, goes on.
StopApp(next) ==
    /\ pc' = next
    /\ wasRunning' = (running = "target")
    /\ \/ Ends
       \/ running # "no" /\ UNCHANGED program
    /\ UNCHANGED <<folder, listed, runEntry, settings, runOnce, shell>>
    /\ UNCHANGED <<file, startup, problems, self, purge, faults, runs, history>>
Stop == pc = "stop" /\ StopApp("stage")

\* stage_resource_file for each target.
Stage ==
    /\ pc = "stage"
    /\ \/ /\ staged' = [staged EXCEPT ![file] = Version]
          /\ file' = IF file = App THEN Uninstaller ELSE App
          /\ pc' = IF file = App THEN "stage" ELSE "delete"
          /\ Works
       \/ /\ Fault
          /\ staged' = [staged EXCEPT ![file] = 0]
          /\ pc' = "discard" /\ UNCHANGED file
    /\ UNCHANGED <<target, old, packs, system, startup, wasRunning, problems, self, purge, runs, history>>

\* commit_staged_files, call by call.
DeleteOld ==
    /\ pc = "delete" /\ pc' = "backup"
    /\ \/ ~InUse(file, "old") /\ Works /\ old' = [old EXCEPT ![file] = 0]
       \/ old[file] # 0 /\ Refused(file, "old") /\ UNCHANGED old
    /\ UNCHANGED <<target, staged, packs, system, wizard, runs, history>>

Backup ==
    /\ pc = "backup"
    /\ \/ /\ target[file] = 0 /\ Works
          /\ pc' = "swap" /\ UNCHANGED <<target, old, running>>
       \/ /\ target[file] # 0 /\ ~InUse(file, "old") /\ Works
          /\ old' = [old EXCEPT ![file] = target[file]]
          /\ target' = [target EXCEPT ![file] = 0]
          /\ running' = IF InUse(file, "target") THEN "old" ELSE running
          /\ pc' = "swap"
       \/ /\ target[file] # 0 /\ Refused(file, "old")
          /\ pc' = "undo" /\ UNCHANGED <<target, old, running>>
    /\ UNCHANGED <<staged, packs, listed, runEntry, settings, runOnce, shell, startWithWindows, wizard,
                   runs, history>>

Swap ==
    /\ pc = "swap"
    /\ \/ /\ Works
          /\ target' = [target EXCEPT ![file] = staged[file]]
          /\ staged' = [staged EXCEPT ![file] = 0]
          /\ file' = IF file = App THEN Uninstaller ELSE App
          /\ pc' = IF file = App THEN "delete" ELSE "clean"
       \/ /\ Fault
          /\ pc' = "putback" /\ UNCHANGED <<target, staged, file>>
    /\ UNCHANGED <<old, packs, system, startup, wasRunning, problems, self, purge, runs, history>>

\* MoveFileExW(old, target)
MovedBack(f) ==
    /\ target' = [target EXCEPT ![f] = old[f]]
    /\ old' = [old EXCEPT ![f] = 0]
    /\ running' = IF InUse(f, "old") THEN "target" ELSE running

PutBack ==
    /\ pc = "putback" /\ pc' = "undo"
    /\ \/ old[file] # 0 /\ MovedBack(file) /\ Works
       \/ old[file] = 0 /\ Works /\ UNCHANGED <<target, old, running>>
       \/ old[file] # 0 /\ Fault /\ UNCHANGED <<target, old, running>>
    /\ UNCHANGED <<staged, packs, listed, runEntry, settings, runOnce, shell, startWithWindows, wizard,
                   runs, history>>

\* The targets before this one are put back, or deleted when they had no
\* previous version.
\* Mutant: a target with no previous version stays.
UndoOldOnly ==
    /\ pc = "undo" /\ pc' = "discard"
    /\ \/ file = Uninstaller /\ old[App] # 0 /\ MovedBack(App) /\ Works
       \/ (file = App \/ old[App] = 0) /\ Works /\ UNCHANGED <<target, old, running>>
       \/ file = Uninstaller /\ Fault /\ UNCHANGED <<target, old, running>>
    /\ UNCHANGED <<staged, packs, listed, runEntry, settings, runOnce, shell, startWithWindows, wizard,
                   runs, history>>
Undo ==
    /\ pc = "undo" /\ pc' = "discard"
    /\ \/ file = App /\ Works /\ UNCHANGED <<target, old, running>>
       \/ file = Uninstaller /\ old[App] # 0 /\ MovedBack(App) /\ Works
       \/ /\ file = Uninstaller /\ old[App] = 0 /\ Works
          /\ target' = [target EXCEPT ![App] = 0] /\ UNCHANGED <<old, running>>
       \/ file = Uninstaller /\ Fault /\ UNCHANGED <<target, old, running>>
    /\ UNCHANGED <<staged, packs, listed, runEntry, settings, runOnce, shell, startWithWindows, wizard,
                   runs, history>>

Discard ==
    /\ pc = "discard" /\ pc' = "failed"
    /\ \/ staged' = NoFiles /\ Works
       \/ UNCHANGED staged /\ Fault
    /\ UNCHANGED <<target, old, packs, system, wizard, runs, history>>

\* restart_previous_copy; the wizard stays open.
RestartPrevious ==
    /\ pc = "failed" /\ pc' = "dialog" /\ result' = "failed"
    /\ IF running = "no" /\ wasRunning /\ target[App] # 0 THEN Starts ELSE UNCHANGED program
    /\ UNCHANGED <<folder, listed, runEntry, settings, runOnce, shell, wizard, faults, runs, before, wish,
                   saved, uncancelled>>

CleanOld ==
    /\ pc = "clean" /\ pc' = "packs"
    /\ \/ old' = [f \in Files |-> IF InUse(f, "old") THEN old[f] ELSE 0] /\ Works
       \/ UNCHANGED old /\ Fault
    /\ UNCHANGED <<target, staged, packs, system, wizard, runs, history>>

\* install_language_packs: a pack that cannot be written keeps its older copy,
\* and then no pack is removed.
\* Mutant: a pack that could not be written is not reported.
InstallPacksQuietly ==
    /\ pc = "packs" /\ pc' = "settings"
    /\ \/ packs' = [p \in Packs |-> IF p \in Ships THEN Version ELSE 0] /\ Works
       \/ /\ Fault
          /\ \E p \in Ships : packs' = [q \in Packs |-> IF q \in Ships \ {p} THEN Version ELSE packs[q]]
    /\ UNCHANGED <<target, staged, old, system, wizard, runs, history>>
InstallPacks ==
    /\ pc = "packs" /\ pc' = "settings"
    /\ \/ packs' = [p \in Packs |-> IF p \in Ships THEN Version ELSE 0] /\ Works /\ UNCHANGED problems
       \/ /\ Fault /\ problems' = TRUE
          /\ \E p \in Ships : packs' = [q \in Packs |-> IF q \in Ships \ {p} THEN Version ELSE packs[q]]
    /\ UNCHANGED <<target, staged, old, system, file, startup, wasRunning, self, purge, runs, history>>

\* write_initial_settings: a call that fails may leave a file without the line.
WriteSettings ==
    /\ pc = "settings" /\ pc' = "startup" /\ turned' = FALSE
    /\ \/ settings' = Line(startup) /\ choice' = {startup} /\ Works /\ UNCHANGED problems
       \/ /\ settings' \in {settings, Line(startup), IF settings = "none" THEN "older" ELSE settings}
          /\ choice' = BOOLEAN /\ Fault /\ problems' = TRUE
    /\ UNCHANGED <<folder, listed, runEntry, runOnce, shell, program>>
    /\ UNCHANGED <<file, startup, wasRunning, self, purge, runs, before, saved, uncancelled, result>>

\* update_startup
UpdateStartup ==
    /\ pc = "startup" /\ pc' = "register"
    /\ \/ runEntry' = startup /\ Works /\ UNCHANGED problems
       \/ UNCHANGED runEntry /\ Fault /\ problems' = TRUE
    /\ UNCHANGED <<folder, listed, settings, runOnce, shell, program>>
    /\ UNCHANGED <<file, startup, wasRunning, self, purge, runs, history>>

\* register_uninstaller, the shortcuts, show_install_complete and Finish.
Finish ==
    /\ pc = "register" /\ pc' = "idle" /\ result' = "installed" /\ saved' = FALSE
    /\ \/ listed' = TRUE /\ Works /\ UNCHANGED problems
       \/ UNCHANGED listed /\ Fault /\ problems' = TRUE
    /\ UNCHANGED program \/ (running = "no" /\ Starts)
    /\ UNCHANGED <<folder, runEntry, settings, runOnce, shell>>
    /\ UNCHANGED <<file, startup, wasRunning, self, purge, runs, before, wish, uncancelled>>

-----------------------------------------------------------------------------
\* perform_uninstall, from the installed uninstaller or from Setup /uninstall.

Uninstall ==
    /\ pc = "idle" /\ runs < MaxRuns /\ ~shell
    /\ self' \in {b \in BOOLEAN : b => target[Uninstaller] # 0}
    /\ purge' \in BOOLEAN
    /\ pc' = "ustop" /\ runs' = runs + 1 /\ faults' = 0 /\ result' = "uninstalling"
    /\ before' = Installation
    /\ UNCHANGED <<folder, system, file, startup, wasRunning, problems, wish, saved, uncancelled>>

StopForUninstall == pc = "ustop" /\ StopApp("udelete")

\* A program that is in use is deleted at the next sign-in, and when that cannot
\* be arranged nothing is removed.
\* Mutant: an uninstall goes on without a clean-up.
DeleteAppAnyway ==
    /\ pc = "udelete"
    /\ \/ /\ ~InUse(App, "target") /\ Works
          /\ target' = [target EXCEPT ![App] = 0]
       \/ /\ target[App] # 0 /\ Refused(App, "target")
          /\ UNCHANGED target
    /\ pc' = "urest"
    /\ UNCHANGED <<staged, old, packs, system, wizard, runs, history>>
DeleteApp ==
    /\ pc = "udelete"
    /\ \/ /\ ~InUse(App, "target") /\ Works
          /\ target' = [target EXCEPT ![App] = 0]
          /\ pc' = "urest" /\ UNCHANGED <<runOnce, result>>
       \/ /\ target[App] # 0 /\ Refused(App, "target")
          /\ runOnce' = TRUE /\ pc' = "urest" /\ UNCHANGED <<target, result>>
       \/ /\ InUse(App, "target") /\ Fault        \* nor can the clean-up be arranged
          /\ pc' = "idle" /\ result' = "kept" /\ UNCHANGED <<target, runOnce>>
    /\ UNCHANGED <<staged, old, packs, listed, runEntry, settings, shell, program, wizard, runs, before,
                   wish, saved, uncancelled>>

\* update_startup(0), remove_uninstall_registry, remove_shortcuts and
\* purge_data_folder; none of them is checked.
RemoveRest ==
    /\ pc = "urest" /\ pc' = "uend"
    /\ \/ runEntry' = FALSE /\ listed' = FALSE /\ settings' = (IF purge THEN "none" ELSE settings) /\ Works
       \/ /\ Fault
          /\ runEntry' \in {FALSE, runEntry} /\ listed' \in {FALSE, listed}
          /\ settings' \in (IF purge THEN {"none", settings} ELSE {settings})
    /\ choice' = IF settings' = "none" THEN {TRUE} ELSE IF settings = "older" THEN BOOLEAN ELSE choice
    /\ turned' = (turned /\ settings' \in {"on", "off"})
    /\ UNCHANGED <<folder, runOnce, shell, program, wizard, runs, before, saved, uncancelled, result>>

\* The installed uninstaller cannot delete itself: a command does it, or the next
\* sign-in when that command does not start.
EndUninstall ==
    /\ pc = "uend" /\ pc' = "idle" /\ result' = "uninstalled"
    /\ \/ self /\ shell' = TRUE /\ Works /\ UNCHANGED <<target, packs, runOnce>>
       \/ self /\ runOnce' = TRUE /\ Fault /\ UNCHANGED <<target, packs, shell>>
       \/ /\ ~self /\ Works
          /\ target' = [target EXCEPT ![Uninstaller] = 0] /\ packs' = NoPacks
          /\ UNCHANGED <<runOnce, shell>>
       \/ /\ ~self /\ Fault
          /\ target' \in {target, [target EXCEPT ![Uninstaller] = 0]}
          /\ packs' \in {packs, NoPacks}
          /\ UNCHANGED <<runOnce, shell>>
    /\ UNCHANGED <<staged, old, listed, runEntry, settings, program, wizard, runs, before, wish, saved,
                   uncancelled>>

Setup ==
    \/ Open \/ Cancel \/ Install \/ Stop \/ Stage \/ DeleteOld \/ Backup \/ Swap \/ PutBack \/ Undo
    \/ Discard \/ RestartPrevious \/ CleanOld \/ InstallPacks \/ WriteSettings \/ UpdateStartup \/ Finish

Next ==
    \/ AppStarts \/ AppEnds \/ Toggle \/ SaveOther \/ OlderToggle \/ SignIn \/ SelfDelete \/ Crash \/ Setup
    \/ Uninstall \/ StopForUninstall \/ DeleteApp \/ RemoveRest \/ EndUninstall

\* The user signs in again some day, and a command that was started runs.
Spec == Init /\ [][Next]_vars /\ WF_vars(SignIn) /\ WF_vars(SelfDelete)

-----------------------------------------------------------------------------
\* "The previous version was kept" (perform_install): one call that fails undoes
\* the whole upgrade, whatever an earlier run that was killed left behind (a
\* program it left as "<target>.old" may come back), and the program that was
\* closed for it runs again.
FailureChangesNothing ==
    [][RestartPrevious =>
         /\ \A f \in Files :
              \/ target[f] = before.target[f]
              \/ before.target[f] = 0 /\ target[f] = before.old[f]
         /\ <<packs, listed, runEntry, settings>>
              = <<before.packs, before.listed, before.runEntry, before.settings>>
         /\ wasRunning /\ target[App] # 0 => running' # "no"]_vars

\* An installation that reports no problem is whole, also over the files of an
\* upgrade that was killed and of a program that was not closed; such a program may
\* have saved other settings over those of Setup.
SuccessIsWhole ==
    [][Finish /\ ~problems' =>
         /\ target = [f \in Files |-> Version] /\ \A p \in Ships : packs[p] = Version
         /\ listed' /\ (saved \/ (runEntry = startup /\ settings = Line(startup)))]_vars

\* "A reinstall before then cancels that" (CHANGELOG.md): no sign-in deletes a
\* program that was installed after the uninstall, unless that could not be cancelled.
SignInSparesInstall == runOnce /\ result = "installed" => uncancelled

\* "An upgrade or reinstall keeps your 'Start with Windows' choice"
\* (CHANGELOG.md): Setup offers what the user chose last, over upgrades, uninstalls
\* that keep the data, settings of an older version and whatever the program saves;
\* except when it saved a value that the user had not chosen.
ChoiceKept == [][Open => startup' \in choice \/ turned]_vars

\* An uninstalled program is gone in the end, also when its file was in use: unless
\* Setup runs again, or its Run entry, which could not be removed or which the program
\* put back as it went on running, starts it before the clean-up ("kept").
UninstalledIsGone ==
    result = "uninstalled" ~> (target[App] = 0 \/ result # "uninstalled" \/ pc # "idle")
=============================================================================
