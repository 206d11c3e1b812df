----------------------------- MODULE MC_Accounts -----------------------------
\* Model values for the accounts: two registrants that may want one name or
\* have one key, two roots with a certificate each.
EXTENDS Accounts, TLC

CONSTANTS r1, r2, c1, c2

TwoRoots == {r1, r2}
TwoCerts == {c1, c2}
OneEach == c1 :> r1 @@ c2 :> r2

\* Names, keys and tasks are interchangeable, and so are the roots together with
\* their certificates.
SwapRoots == r1 :> r2 @@ r2 :> r1 @@ c1 :> c2 @@ c2 :> c1
Symmetric ==
  Permutations(Name) \cup Permutations(Key) \cup Permutations(Task) \cup {SwapRoots}
=============================================================================
