----------------------------- MODULE TextEditor -----------------------------
(***************************************************************************)
(* What the user is promised: the text before the caret is what was typed. *)
(* A layout correction changes only the alphabet, so here it is invisible: *)
(* it shows as the key that triggered it.  Only a snippet or a spelling    *)
(* fix replaces the word before the caret by another text, and only Undo   *)
(* puts it back.  After focus has moved to another field of the window and *)
(* before Windows says so ("stale") nothing is promised.                   *)
(***************************************************************************)
EXTENDS Integers, Sequences

CONSTANTS
  WordKeys, OtherKeys,  \* characters of words; separators, punctuation, ...
  MaxReplaced           \* the longest word a replacement may take away

VARIABLES
  doc,    \* the keys of the text before the caret
  stale

Characters == WordKeys \cup OtherKeys
Separators == {<<"space">>, <<"mark">>, <<>>}
Words(n) == [1..n -> WordKeys]
Texts == {<<"mark", "mark">>}
Without(n) == SubSeq(doc, 1, Len(doc) - n)
Pairs == {<<"unread", "unread">>} \cup {<<"mark", c>> : c \in Characters}

Init == doc = <<>> /\ stale = FALSE

\* A key adds a character, two where a dead key or a ligature does.
Type == \E t \in {<<c>> : c \in Characters} \cup Pairs : doc' = doc \o t
Erase == doc # <<>> /\ doc' = Without(1)
Leave == doc' = <<>>   \* the caret is elsewhere

Replace == \E n \in 0..MaxReplaced, text \in Texts, b \in Separators :
             /\ n <= Len(doc) /\ \A i \in Len(doc) - n + 1 .. Len(doc) : doc[i] \in WordKeys
             /\ doc' = Without(n) \o text \o b
PutBack == \E text \in Texts, b \in Separators, retyped \in BOOLEAN, n \in 1..MaxReplaced :
             /\ Len(doc) >= Len(text \o b)
             /\ SubSeq(doc, Len(doc) - Len(text \o b) + 1, Len(doc)) = text \o b
             /\ \E letters \in Words(n) :
                  doc' = Without(Len(text \o b)) \o letters \o (IF retyped THEN b ELSE <<>>)
Lost == stale

Next == Type \/ Erase \/ Leave \/ Replace \/ PutBack \/ Lost
Spec == Init /\ [][Next]_<<doc, stale>>
=============================================================================
