------------------------------ MODULE Evidence ------------------------------
(***************************************************************************)
(* What the sentence context promises: a balance of evidence, positive for  *)
(* the first language and negative for the second, gathered in one window.  *)
(***************************************************************************)
EXTENDS Integers

CONSTANT Windows

VARIABLES balance, about,
          current   \* less than 90 s old

vars == <<balance, about, current>>

Init == balance = 0 /\ about = "none" /\ current = FALSE

Size(b) == IF b < 0 THEN -b ELSE b
Bounded(b) == IF b > 4 THEN 4 ELSE IF b < -4 THEN -4 ELSE b
SameSide(b, d) == (b > 0 /\ d > 0) \/ (b < 0 /\ d < 0)
Step(d) == IF d > 0 THEN 1 ELSE -1

\* Evidence for the language that leads confirms it by one, or sets it to its own
\* weight; evidence against it is subtracted.
Weigh(b, d) == IF SameSide(b, d)
               THEN IF Size(b) < Size(d) THEN d ELSE Bounded(b + Step(d))
               ELSE b + d

\* Evidence from another window, or after 90 s, starts from nothing.
Standing(w) == IF about = w /\ current THEN balance ELSE 0
Observe(w, d) == about' = w /\ current' = TRUE /\ balance' = Weigh(Standing(w), d)

\* A word that is known, and corrected all the same, counts twice.
ObserveBoth(w, d, e) ==
  SameSide(d, e) /\ about' = w /\ current' = TRUE /\ balance' = Weigh(Weigh(Standing(w), d), e)

\* The user takes a correction back: only that counts.
TakeBack(w, d) == about' = w /\ balance' = d /\ current' = TRUE

Forget == about' = "none" /\ balance' = 0 /\ current' = FALSE

Expire == current' = FALSE /\ UNCHANGED <<balance, about>>

Next == \/ Forget \/ Expire
        \/ \E w \in Windows, d \in (-4..4) \ {0} : Observe(w, d)
        \/ \E w \in Windows, d, e \in (-4..4) \ {0} : ObserveBoth(w, d, e)
        \/ \E w \in Windows, d \in {-4, 4} : TakeBack(w, d)

Spec == Init /\ [][Next]_vars
=============================================================================
