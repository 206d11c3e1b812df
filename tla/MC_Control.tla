---------------------------- MODULE MC_Control ----------------------------
\* Model values for the control log; the cfg files choose among them.
EXTENDS ControlLog, TLC

CONSTANTS a1, a2, alice, f1, s1, s2

TwoAdmins == {a1, a2}
Everyone == {a1, a2, alice}
Alice == {alice}
OneFile == {f1}

RevokeAlice == [kind |-> "revoke", user |-> alice, scope |-> AccountWide, cap |-> "access"]
RevokeFromFile == [kind |-> "revoke", user |-> alice, scope |-> f1, cap |-> "access"]
ReinstateAlice == [kind |-> "reinstate", user |-> alice, scope |-> AccountWide]
NarrowAdmin == [kind |-> "revoke", user |-> a2, scope |-> f1, cap |-> "admin"]
KeyCompromised == [kind |-> "compromise", user |-> alice]

TwoCeremonies == {s1, s2}

\* a1 revokes and narrows a2's roles; a2 reinstates.
OneEach == s1 :> a1 @@ s2 :> a2
BackAndForth == s1 :> {RevokeAlice, NarrowAdmin} @@ s2 :> {ReinstateAlice}

\* One admin tries again, while the handler of its lost connection is at work.
TriedAgain == s1 :> a1 @@ s2 :> a1
Overlapping == [s \in TwoCeremonies |-> {RevokeAlice, RevokeFromFile, KeyCompromised}]
=============================================================================
