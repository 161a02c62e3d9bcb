---------------------------- MODULE MCInstaller ----------------------------
(* Instances of Installer for TLC. *)
EXTENDS Installer
CONSTANTS p, q

\* installer.c:457 and CHANGELOG.md:253, "a reinstall before then cancels that": no
\* installation that reports no problem is deleted at the next sign-in.
CleanupCancelled == runOnce /\ result = "installed" => problems

\* CHANGELOG.md:255, "keeps your choice": Setup offers what the user chose last, also
\* after the program saved its settings for another reason.
ChoiceKeptAnyway == [][Open => startup' \in choice]_vars
=============================================================================
