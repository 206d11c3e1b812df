--------------------------- MODULE VersionedFile ---------------------------
(***************************************************************************)
(* What the server promises of a file, were each of its requests to happen *)
(* at once: it publishes whole versions, one after another; what it has    *)
(* published stays as it is until the next version or the end of the file; *)
(* whom it can be opened by changes a recipient at a time, a withdrawal    *)
(* leaves a record, and the escrow is always among them; a published file  *)
(* ends with a tombstone.                                                  *)
(***************************************************************************)
EXTENDS Naturals

CONSTANTS
  Recipient,   \* whom a version may be wrapped to
  Escrow,      \* the one it always is
  Whole        \* what a published version may consist of

VARIABLES
  version,     \* the published version, 0 if there is none
  content,     \* what a reader of it would get
  holders,     \* who can open it
  withdrawn,   \* <<version, recipient>> of the recorded revocations
  ended        \* whether a published file has been deleted

fileVars == <<version, content, holders, withdrawn, ended>>

Init ==
  /\ version = 0 /\ content = {} /\ holders = {}
  /\ withdrawn = {} /\ ended = FALSE

\* The next version takes the place of the one before.
Publish ==
  /\ version' = version + 1
  /\ content' \in Whole
  /\ holders' \in {R \in SUBSET Recipient : Escrow \in R}
  /\ UNCHANGED <<withdrawn, ended>>

Share(r) ==
  /\ version # 0
  /\ holders' = holders \cup {r}
  /\ UNCHANGED <<version, content, withdrawn, ended>>

Withdraw(r) ==
  /\ r \in holders \ {Escrow}
  /\ holders' = holders \ {r}
  /\ withdrawn' = withdrawn \cup {<<version, r>>}
  /\ UNCHANGED <<version, content, ended>>

End ==
  /\ version # 0
  /\ version' = 0 /\ content' = {} /\ holders' = {}
  /\ ended' = TRUE
  /\ UNCHANGED withdrawn

Next == Publish \/ (\E r \in Recipient : Share(r) \/ Withdraw(r)) \/ End

Spec == Init /\ [][Next]_fileVars
=============================================================================
