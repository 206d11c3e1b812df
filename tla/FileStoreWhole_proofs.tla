------------------------ MODULE FileStoreWhole_proofs ------------------------
(***************************************************************************)
(* What holds of a file as long as the requests that write it come one at  *)
(* a time, or none of them discards or deletes it, for every set of users  *)
(* and streams and every number of versions and of clients: its versions   *)
(* are a chain, the escrow can open them, and, if a version is staged      *)
(* again only with the framing it had, what a reader gets is whole, and    *)
(* the file is the one of VersionedFile, whose requests happen at once.    *)
(* Without these assumptions the handlers' own checks are not enough: runs *)
(* upload_discard and file_restage show it.                                *)
(***************************************************************************)
EXTENDS FileStore_proofs

\* One request at a time writes the file: its owner uses a single client.
OneWriter == \A t, u \in Writer : t = u

\* The owner discards and deletes nothing, whatever number of clients write.
NoDiscard == "delete" \notin Events

\* A version is staged again with the framing it had.
OneFraming == \A f, g \in Framings : f = g

\* At most one request is suspended where it writes.
OneAtATime ==
  \A t, u \in Request : op[t].pc \in WritePcs /\ op[u].pc \in WritePcs => t = u

\* No discard comes between the steps of another request.
Undisturbed == NoDiscard \/ OneAtATime

----------------------------------------------------------------------------
(* The chain of versions *)

\* A request that writes serves the owner's client.
WritesByWriters == \A t \in Request : op[t].pc \in WritePcs => t \in Writer

\* Only a client of the owner starts a request that writes.
LEMMA WritersStep ==
  ASSUME TypeOK, WritesByWriters, Next
  PROVE  WritesByWriters'
<1>1. PICK t \in Request : Moves(t)
  BY EveryStepMoves
<1>2. PICK o : Goto(t, o) /\ (o.pc \in WritePcs => t \in Writer \/ op[t].pc \in WritePcs)
  BY <1>1 DEF Moves
<1>3. op'[t] = o /\ \A u \in Request : u # t => op'[u] = op[u]
  BY <1>2 DEF Goto, TypeOK
<1> QED
  BY <1>2, <1>3 DEF WritesByWriters

\* A request that discards serves a client that may.
DiscardsIfAllowed == NoDiscard => \A t \in Request : op[t].pc \notin DiscardPcs

\* Only DiscardBegin starts a discard.
LEMMA DiscardsStep ==
  ASSUME TypeOK, DiscardsIfAllowed, Next
  PROVE  DiscardsIfAllowed'
<1> SUFFICES ASSUME NoDiscard PROVE \A t \in Request : op'[t].pc \notin DiscardPcs
  BY DEF DiscardsIfAllowed
<1>1. PICK t \in Request : Moves(t)
  BY EveryStepMoves
<1>2. PICK o : Goto(t, o) /\ (o.pc \in DiscardPcs => op[t].pc \in DiscardPcs)
  BY <1>1 DEF Moves, NoDiscard, DiscardPcs
<1>3. op'[t] = o /\ \A u \in Request : u # t => op'[u] = op[u]
  BY <1>2 DEF Goto, TypeOK
<1> QED
  BY <1>2, <1>3 DEF DiscardsIfAllowed

\* The version a finalize transaction has found staged still is when it marks it
\* final.  (It is not if a second client discards it.)
StillStaged == \A t \in Request : op[t].pc = "finWrite" => stage[op[t].v] = "staged"

\* Undisturbed, no discard comes between the two steps of a finalize transaction.
LEMMA StagedStep ==
  ASSUME TypeOK, LockHolds, Undisturbed, DiscardsIfAllowed, StillStaged, Next
  PROVE  StillStaged'
<1>0. op \in [Request -> Operation]
  BY DEF TypeOK
<1>1. PICK t \in Request : Moves(t)
  BY EveryStepMoves
<1>2. PICK o : /\ Goto(t, o)
               /\ o.pc = "finWrite" => FinalizeCheck(t)
  BY <1>1 DEF Moves
<1>3. op'[t] = o /\ \A u \in Request : u # t => op'[u] = op[u]
  BY <1>0, <1>2 DEF Goto
<1>4. CASE o.pc = "finWrite"
  <2>1. UNCHANGED stage
    BY <1>2, <1>4 DEF FinalizeCheck, others, rowVars
  <2>2. stage[o.v] = "staged"
    <3>1. \A a, b : Goto(t, a) /\ Goto(t, b) => a = b
      BY <1>0 DEF Goto
    <3>2. CASE Answer(t, FALSE)
      BY <1>2, <1>4, <3>1, <3>2 DEF Answer
    <3>3. CASE /\ stage[op[t].v] = "staged"
               /\ Goto(t, [pc |-> "finWrite", v |-> op[t].v, refs |-> op[t].refs])
      BY <1>2, <3>1, <3>3
    <3> QED
      BY <1>2, <1>4, <3>2, <3>3 DEF FinalizeCheck
  <2> QED
    BY <1>3, <2>1, <2>2 DEF StillStaged
<1>5. CASE o.pc # "finWrite"
  <2>1. \A u \in Request : op'[u].pc = "finWrite" => op[u].pc = "finWrite" /\ op'[u] = op[u]
    BY <1>3, <1>5
  <2>2. (\E u \in Request : op'[u].pc = "finWrite") => UNCHANGED stage
    <3> SUFFICES ASSUME NEW u \in Request, op'[u].pc = "finWrite" PROVE UNCHANGED stage
      OBVIOUS
    <3>0. op[u].pc = "finWrite" /\ ~FileUnlocked
      BY <2>1 DEF FileUnlocked
    <3>1. ASSUME NEW x \in Request, NEW v \in Version, NEW slots \in Framings,
                 NEW R \in Audiences, Stage(x, v, slots, R)
          PROVE  UNCHANGED stage
      BY <3>0, <3>1 DEF Stage, others, rowVars
    <3>2. ASSUME NEW x \in Request, FinalizeWrite(x)
          PROVE  FALSE
      <4>1. x = u
        BY <3>0, <3>2 DEF FinalizeWrite, LockHolds
      <4>2. op' = [op EXCEPT ![x] = Purging(op[x].refs)]
        BY <3>2 DEF FinalizeWrite, Goto
      <4>3. op'[x].pc # "finWrite"
        BY <1>0, <4>2 DEF Purging
      <4> QED
        BY <4>1, <4>3
    <3>3. ASSUME NEW x \in Request, DiscardRows(x)
          PROVE  FALSE
      <4>1. op[x].pc = "discardRows" /\ op[u].pc = "finWrite"
        BY <3>0, <3>3 DEF DiscardRows
      <4>2. x = u
        BY <4>1 DEF DiscardsIfAllowed, Undisturbed, WritePcs, DiscardPcs, OneAtATime
      <4> QED
        BY <4>1, <4>2
    <3>4. ASSUME NEW x \in Request, DeleteFile(x)
          PROVE  FALSE
      BY <3>0, <3>4 DEF DeleteFile
    <3>5. ASSUME NEW x \in Request, AddWrapInsert(x)
          PROVE  UNCHANGED stage
      BY <3>5 DEF AddWrapInsert
    <3>6. ASSUME NEW x \in Request, NEW by \in User, NEW r \in Recipient, DeleteWrap(x, by, r)
          PROVE  UNCHANGED stage
      BY <3>6 DEF DeleteWrap
    <3> QED
      BY RowSteps, <3>1, <3>2, <3>3, <3>4, <3>5, <3>6 DEF RowStep, rowVars
  <2> QED
    BY <2>1, <2>2 DEF StillStaged
<1> QED
  BY <1>4, <1>5

\* Every step keeps the finalized versions a chain.
LEMMA ChainStep ==
  ASSUME TypeOK, LockHolds, StillStaged, VersionChain, Next
  PROVE  VersionChain'
<1>0. /\ stage \in [Version -> {"none", "staged", "final"}]
      /\ current \in 0..MaxVersion /\ MaxVersion \in Nat
      /\ op \in [Request -> Operation]
  BY FileAssumption DEF TypeOK
<1>1. CASE UNCHANGED rowVars
  BY <1>1 DEF rowVars, VersionChain
<1>2. ASSUME NEW t \in Request, NEW v \in Version, NEW slots \in Framings, NEW R \in Audiences,
             Stage(t, v, slots, R)
      PROVE  VersionChain'
  <2>1. CASE UNCHANGED others
    BY <2>1 DEF others, rowVars, VersionChain
  <2>2. CASE /\ stage[v] # "final"
             /\ exists' = TRUE
             /\ stage' = [stage EXCEPT ![v] = "staged"]
             /\ current' = current
    <3>1. \A w \in Version : stage'[w] = "final" <=> w <= current'
      BY <1>0, <2>2 DEF VersionChain
    <3>2. exists'
      BY <2>2
    <3> QED
      BY <3>1, <3>2 DEF VersionChain
  <2> QED
    BY <1>2, <2>1, <2>2 DEF Stage
<1>3. ASSUME NEW t \in Request, FinalizeWrite(t)
      PROVE  VersionChain'
  <2> DEFINE v == op[t].v
  <2>1. v \in Version
    BY <1>0, <1>3, OperationShapes DEF FinalizeWrite
  <2>2. exists /\ v = current + 1 /\ stage[v] = "staged"
    BY <1>3 DEF FinalizeWrite, LockHolds, StillStaged
  <2>3. /\ \A w \in Version : stage'[w] = IF w = v THEN "final" ELSE stage[w]
        /\ current' = v /\ exists'
    BY <1>3, <2>2 DEF FinalizeWrite
  <2>4. \A w \in Version : stage'[w] = "final" <=> w <= current'
    BY <1>0, <2>1, <2>2, <2>3 DEF VersionChain, Version
  <2> QED
    BY <2>3, <2>4 DEF VersionChain
<1>4. ASSUME NEW t \in Request, DiscardRows(t)
      PROVE  VersionChain'
  <2>1. \A w \in Version : stage'[w] = IF stage[w] = "staged" THEN "none" ELSE stage[w]
    BY <1>4 DEF DiscardRows
  <2>2. exists' = exists /\ current' = current
    BY <1>4 DEF DiscardRows
  <2> QED
    BY <2>1, <2>2 DEF VersionChain
<1>5. ASSUME NEW t \in Request, DeleteFile(t)
      PROVE  VersionChain'
  <2>1. CASE UNCHANGED rowVars
    BY <2>1 DEF rowVars, VersionChain
  <2>2. CASE current' = 0 /\ stage' = [v \in Version |-> "none"]
    BY <2>2 DEF VersionChain, Version
  <2> QED
    BY <1>5, <2>1, <2>2 DEF DeleteFile
<1>6. ASSUME NEW t \in Request, AddWrapInsert(t)
      PROVE  VersionChain'
  BY <1>6 DEF AddWrapInsert, VersionChain
<1>7. ASSUME NEW t \in Request, NEW by \in User, NEW r \in Recipient, DeleteWrap(t, by, r)
      PROVE  VersionChain'
  BY <1>7 DEF DeleteWrap, VersionChain
<1> QED
  BY RowSteps, <1>1, <1>2, <1>3, <1>4, <1>5, <1>6, <1>7 DEF RowStep

ChainInv == DiscardsIfAllowed /\ StillStaged /\ VersionChain

\* What the finalize transaction relies on besides its lock.
THEOREM ChainInvHolds == Spec /\ []Undisturbed => []ChainInv
<1>1. Init => ChainInv
  BY DEF Init, ChainInv, DiscardsIfAllowed, StillStaged, VersionChain, Version, IdleOp, DiscardPcs
<1>2. TypeOK /\ LockHolds /\ Undisturbed /\ ChainInv /\ [Next]_vars => ChainInv'
  <2> SUFFICES ASSUME TypeOK, LockHolds, Undisturbed, ChainInv, [Next]_vars PROVE ChainInv'
    OBVIOUS
  <2>1. CASE Next
    BY <2>1, DiscardsStep, StagedStep, ChainStep DEF ChainInv
  <2>2. CASE UNCHANGED vars
    BY <2>2 DEF vars, ChainInv, DiscardsIfAllowed, StillStaged, VersionChain
  <2> QED
    BY <2>1, <2>2
<1> QED
  BY TypeCorrect, LockIsExclusive, <1>1, <1>2, PTL DEF Spec

\* One client sends one request at a time, and nobody else's requests write.
THEOREM OneWriterIsUndisturbed == ASSUME OneWriter PROVE Spec => []Undisturbed
<1>1. Init => WritesByWriters
  BY DEF Init, WritesByWriters, IdleOp, WritePcs
<1>2. TypeOK /\ WritesByWriters /\ [Next]_vars => WritesByWriters'
  BY WritersStep DEF vars, WritesByWriters
<1>3. WritesByWriters => Undisturbed
  BY DEF WritesByWriters, OneWriter, OneAtATime, Undisturbed
<1> QED
  BY TypeCorrect, <1>1, <1>2, <1>3, PTL DEF Spec

\* One client that may do all it likes, or any number of clients that discard nothing.
LEMMA ClientsUndisturbed == ASSUME OneWriter \/ NoDiscard PROVE Spec => []Undisturbed
<1>1. CASE OneWriter
  BY <1>1, OneWriterIsUndisturbed
<1>2. CASE NoDiscard
  <2>1. Undisturbed
    BY <1>2 DEF Undisturbed
  <2> QED
    BY <2>1, PTL
<1> QED
  BY <1>1, <1>2

\* With one client that writes, or with many that discard nothing, the finalized versions
\* of a file are 1 to current_version, whatever versions are staged, finalized twice or
\* raced for, and wherever a handler is dropped.
THEOREM ChainHolds == ASSUME OneWriter \/ NoDiscard PROVE Spec => []VersionChain
<1>1. ChainInv => VersionChain
  BY DEF ChainInv
<1> QED
  BY ClientsUndisturbed, ChainInvHolds, <1>1, PTL

----------------------------------------------------------------------------
(* The escrow *)

\* Every step keeps the wrap of the escrow.
LEMMA EscrowStep ==
  ASSUME TypeOK, LockHolds, StillStaged, VersionChain, RecoveryAlwaysWrapped, Next
  PROVE  RecoveryAlwaysWrapped'
<1>0. /\ stage \in [Version -> {"none", "staged", "final"}]
      /\ wraps \in [Version -> [Recipient -> User \cup {None}]]
      /\ current \in 0..MaxVersion /\ MaxVersion \in Nat
      /\ op \in [Request -> Operation]
      /\ Recovery \in Recipient /\ Recovery \notin User
  BY FileAssumption DEF TypeOK, Recipient
<1>v. \A v \in Version : v # 0
  BY DEF Version
<1>1. CASE UNCHANGED rowVars
  BY <1>1 DEF rowVars, RecoveryAlwaysWrapped
<1>2. ASSUME NEW t \in Request, NEW v \in Version, NEW slots \in Framings, NEW R \in Audiences,
             Stage(t, v, slots, R)
      PROVE  RecoveryAlwaysWrapped'
  <2>1. CASE UNCHANGED others
    BY <2>1 DEF others, rowVars, RecoveryAlwaysWrapped
  <2>2. CASE /\ stage[v] # "final" /\ (exists \/ v = 1)
             /\ stage' = [stage EXCEPT ![v] = "staged"]
             /\ wraps' = [wraps EXCEPT ![v] =
                            [r \in Recipient |-> IF r \in R THEN Owner ELSE None]]
             /\ current' = current
    <3>1. wraps'[v][Recovery] = Owner
      BY <1>0, <1>2, <2>2 DEF Stage, WrapsRecovery
    <3>2. ASSUME NEW w \in Version, w # v, stage'[w] = "staged" \/ (exists' /\ w = current')
          PROVE  wraps'[w][Recovery] = Owner
      <4>1. stage'[w] = stage[w] /\ wraps'[w] = wraps[w]
        BY <1>0, <2>2, <3>2
      <4>2. w = current => exists
        BY <1>v, <3>2 DEF VersionChain
      <4> QED
        BY <2>2, <3>2, <4>1, <4>2 DEF RecoveryAlwaysWrapped
    <3> QED
      BY <3>1, <3>2 DEF RecoveryAlwaysWrapped
  <2> QED
    BY <1>2, <2>1, <2>2 DEF Stage
<1>3. ASSUME NEW t \in Request, FinalizeWrite(t)
      PROVE  RecoveryAlwaysWrapped'
  <2> DEFINE v == op[t].v
  <2>1. v \in Version
    BY <1>0, <1>3, OperationShapes DEF FinalizeWrite
  <2>2. exists /\ v = current + 1 /\ stage[v] = "staged"
    BY <1>3 DEF FinalizeWrite, LockHolds, StillStaged
  <2>3. /\ \A w \in Version : w # v => stage'[w] = stage[w]
        /\ \A w \in Version : w # current => wraps'[w] = wraps[w]
        /\ stage'[v] = "final"
        /\ current' = v
    BY <1>3, <2>1, <2>2 DEF FinalizeWrite
  <2>4. ASSUME NEW w \in Version, stage'[w] = "staged" \/ w = current'
        PROVE  wraps'[w][Recovery] = Owner
    <3>1. stage[w] = "staged"
      <4>1. CASE w = v
        BY <2>2, <4>1
      <4>2. CASE w # v
        BY <2>3, <2>4, <4>2
      <4> QED
        BY <4>1, <4>2
    <3>2. w # current
      BY <1>0, <3>1 DEF VersionChain, Version
    <3>3. wraps'[w] = wraps[w]
      BY <2>3, <3>2
    <3> QED
      BY <3>1, <3>3 DEF RecoveryAlwaysWrapped
  <2> QED
    BY <2>4 DEF RecoveryAlwaysWrapped
<1>4. ASSUME NEW t \in Request, DiscardRows(t)
      PROVE  RecoveryAlwaysWrapped'
  <2>1. \A w \in Version :
          /\ stage'[w] = IF stage[w] = "staged" THEN "none" ELSE stage[w]
          /\ wraps'[w] = IF stage[w] = "staged" THEN NoWraps ELSE wraps[w]
    BY <1>4 DEF DiscardRows
  <2>2. exists' = exists /\ current' = current
    BY <1>4 DEF DiscardRows
  <2>3. \A w \in Version : w = current => stage[w] # "staged"
    BY <1>0 DEF VersionChain, Version
  <2> QED
    BY <2>1, <2>2, <2>3 DEF RecoveryAlwaysWrapped
<1>5. ASSUME NEW t \in Request, DeleteFile(t)
      PROVE  RecoveryAlwaysWrapped'
  <2>1. CASE UNCHANGED rowVars
    BY <2>1 DEF rowVars, RecoveryAlwaysWrapped
  <2>2. CASE exists' = FALSE /\ stage' = [v \in Version |-> "none"]
    BY <2>2 DEF RecoveryAlwaysWrapped
  <2> QED
    BY <1>5, <2>1, <2>2 DEF DeleteFile
<1>6. ASSUME NEW t \in Request, AddWrapInsert(t)
      PROVE  RecoveryAlwaysWrapped'
  <2>1. op[t].v \in Version /\ op[t].to \in User
    BY <1>0, <1>6, OperationShapes DEF AddWrapInsert
  <2>2. CASE wraps' = [wraps EXCEPT ![op[t].v] = [wraps[op[t].v] EXCEPT ![op[t].to] = op[t].by]]
    <3>1. \A w \in Version : wraps'[w][Recovery] = wraps[w][Recovery]
      BY <1>0, <2>1, <2>2
    <3> QED
      BY <1>6, <3>1 DEF AddWrapInsert, RecoveryAlwaysWrapped
  <2>3. CASE UNCHANGED wraps
    BY <1>6, <2>3 DEF AddWrapInsert, RecoveryAlwaysWrapped
  <2> QED
    BY <1>6, <2>2, <2>3 DEF AddWrapInsert
<1>7. ASSUME NEW t \in Request, NEW by \in User, NEW r \in Recipient, DeleteWrap(t, by, r)
      PROVE  RecoveryAlwaysWrapped'
  <2>1. \A w \in Version : wraps'[w][Recovery] = wraps[w][Recovery]
    BY <1>0, <1>7 DEF DeleteWrap, Unprotected, Version
  <2> QED
    BY <1>7, <2>1 DEF DeleteWrap, RecoveryAlwaysWrapped
<1> QED
  BY RowSteps, <1>1, <1>2, <1>3, <1>4, <1>5, <1>6, <1>7 DEF RowStep

\* Undisturbed, the escrow keeps its wraps ...
THEOREM EscrowHolds == Spec /\ []Undisturbed => []RecoveryAlwaysWrapped
<1>1. Init => RecoveryAlwaysWrapped
  BY DEF Init, RecoveryAlwaysWrapped, Version
<1>2. TypeOK /\ LockHolds /\ ChainInv /\ RecoveryAlwaysWrapped /\ [Next]_vars
        => RecoveryAlwaysWrapped'
  <2> SUFFICES ASSUME TypeOK, LockHolds, ChainInv, RecoveryAlwaysWrapped, [Next]_vars
               PROVE  RecoveryAlwaysWrapped'
    OBVIOUS
  <2>1. CASE Next
    BY <2>1, EscrowStep DEF ChainInv
  <2>2. CASE UNCHANGED vars
    BY <2>2 DEF vars, RecoveryAlwaysWrapped
  <2> QED
    BY <2>1, <2>2
<1> QED
  BY TypeCorrect, LockIsExclusive, ChainInvHolds, <1>1, <1>2, PTL DEF Spec

\* ... so with one client that writes, or many that discard nothing, it has a wrap,
\* granted by the owner, to every version that is staged or current: no share,
\* revocation, re-stage, supersession or discard, however they interleave, leaves one it
\* cannot open.
THEOREM EscrowCanOpen == ASSUME OneWriter \/ NoDiscard PROVE Spec => []RecoveryAlwaysWrapped
  BY ClientsUndisturbed, EscrowHolds, PTL

----------------------------------------------------------------------------
(* Whole files: the inductive invariant *)

\* The stream rows of a version are a framing or gone, and those of one that may
\* still be read or finalized are there.
FramesKept ==
  \A v \in Version :
    /\ framed[v] \in Framings \cup {{}}
    /\ stage[v] = "staged" \/ v = current => framed[v] \in Framings

\* The blob store holds no chunk that no framing has.
BlobsFramed ==
  \A v \in Version, slot \in Slot :
    <<v, slot>> \in blobs => \E f \in Framings : slot \in f

AllHeld(v) == \A slot \in framed[v] : <<v, slot>> \in blobs

\* What the finalize handler has counted of a version is all there, unless the
\* version is superseded.
CountHolds(v, slots, todo) ==
  current <= v =>
    /\ slots = framed[v]
    /\ \A slot \in framed[v] : slot[1] \notin todo => <<v, slot>> \in blobs

\* The blob_refs to purge are not of the current version, cur, and of superseded ones
\* only if nobody discards.
Purgeable(refs, cur) ==
  \A ref \in refs : ref[1] # cur /\ (NoDiscard => ref[1] < cur)

\* What a writing handler has read is still so.
WriteHolds(o) ==
  /\ o.pc = "putBlob" => \E f \in Framings : o.slot \in f
  /\ o.pc \in {"finStreams", "finCount", "finPrior", "finCheck", "finWrite"} => stage[o.v] # "none"
  /\ o.pc = "finCount" => CountHolds(o.v, o.framed, o.todo)
  /\ o.pc \in {"finPrior", "finCheck", "finWrite"} => (current <= o.v => AllHeld(o.v))
  /\ o.pc \in {"finCheck", "finWrite"} => \A ref \in o.refs : ref[1] < o.v
  /\ o.pc = "purge" => Purgeable(o.refs, current)
  /\ o.pc \in {"discardRefs", "discardRows"} => current = 0

\* What a reading handler has read is still so, or superseded, or deleted.
ReadHolds(o) ==
  /\ o.pc \in {"getWraps", "getOwner", "getStreams"} => o.v <= current \/ tombstone
  /\ o.pc = "view" =>
       \/ o.v = current /\ o.framed = framed[current] /\ AllHeld(current)
       \/ o.v < current
       \/ tombstone

OpsHold == \A t \in Request : WriteHolds(op[t]) /\ ReadHolds(op[t])

WholeInv == FramesKept /\ BlobsFramed /\ FinalizedWhole /\ OpsHold

----------------------------------------------------------------------------
(* Preservation *)

\* A store without files is whole.
LEMMA WholeInit == Init => WholeInv
<1> SUFFICES ASSUME Init PROVE WholeInv
  OBVIOUS
<1>1. \A t \in Request : op[t] = IdleOp /\ op[t].pc = "idle"
  BY DEF Init, IdleOp
<1>2. OpsHold
  BY <1>1 DEF OpsHold, WriteHolds, ReadHolds
<1>3. FramesKept /\ BlobsFramed /\ FinalizedWhole
  BY DEF Init, FramesKept, BlobsFramed, FinalizedWhole, Version
<1> QED
  BY <1>2, <1>3 DEF WholeInv

\* A step that leaves versions, stream rows and chunks alone has only its own
\* request to account for.
CalmVars == <<exists, current, stage, framed, tombstone, blobs>>

\* A step that changes neither the rows nor the chunks a request relies on keeps WholeInv
\* if the request relies on what it has read.
LEMMA CalmStep ==
  ASSUME TypeOK, WholeInv, NEW t \in Request, NEW o,
         Goto(t, o), UNCHANGED CalmVars, WriteHolds(o), ReadHolds(o)
  PROVE  WholeInv'
<1>1. /\ op'[t] = o
      /\ \A u \in Request : u # t => op'[u] = op[u]
  BY DEF Goto, TypeOK
<1>2. FramesKept' /\ BlobsFramed' /\ FinalizedWhole'
  BY DEF WholeInv, FramesKept, BlobsFramed, FinalizedWhole, CalmVars
<1>3. \A u \in Request : WriteHolds(op'[u]) /\ ReadHolds(op'[u])
  BY <1>1 DEF WholeInv, OpsHold
<1>4. ASSUME NEW u \in Request
      PROVE  WriteHolds(op[u])' /\ ReadHolds(op[u])'
  BY <1>3, <1>4 DEF WriteHolds, ReadHolds, AllHeld, CountHolds, Purgeable, CalmVars
<1> QED
  BY <1>2, <1>4 DEF WholeInv, OpsHold

\* A step of a writer has the rows, the chunks and the readers to account for, and the
\* other writers if they are many.
LEMMA WriterStep ==
  ASSUME TypeOK, WholeInv, Undisturbed, NEW t \in Request, NEW o, Goto(t, o),
         FramesKept', BlobsFramed', FinalizedWhole',
         o.pc \in {"done", "purge"}, o.pc = "purge" => Purgeable(o.refs, current'),
         \/ op[t].pc \in WritePcs /\ ~NoDiscard
         \/ \A x \in Operation :
              WriteHolds(x) /\ (NoDiscard => x.pc \notin DiscardPcs) => WriteHolds(x)',
         \A x \in Operation : ReadHolds(x) => ReadHolds(x)',
         DiscardsIfAllowed
  PROVE  WholeInv'
<1>0. op \in [Request -> Operation]
  BY DEF TypeOK
<1>1. /\ op'[t] = o
      /\ \A u \in Request : u # t => op'[u] = op[u]
  BY <1>0 DEF Goto
<1>3. ASSUME NEW u \in Request, u # t
      PROVE  WriteHolds(op[u])' /\ ReadHolds(op[u])'
  <2>1. op'[u] = op[u]
    BY <1>1, <1>3
  <2>2. op[u].pc \notin WritePcs => WriteHolds(op[u])'
    BY <2>1 DEF WriteHolds, WritePcs
  <2>3. ASSUME \A x \in Operation :
                 WriteHolds(x) /\ (NoDiscard => x.pc \notin DiscardPcs) => WriteHolds(x)'
        PROVE  WriteHolds(op[u])'
    <3>1. /\ op[u] \in Operation /\ WriteHolds(op[u])
          /\ NoDiscard => op[u].pc \notin DiscardPcs
      BY <1>0 DEF WholeInv, OpsHold, DiscardsIfAllowed
    <3>2. PICK y \in Operation :
            y = op[u] /\ WriteHolds(y) /\ (NoDiscard => y.pc \notin DiscardPcs)
      BY <3>1
    <3>3. WriteHolds(y)'
      BY <2>3, <3>2
    <3>4. op'[u] = y
      BY <2>1, <3>2
    <3> QED
      BY <3>3, <3>4 DEF WriteHolds, CountHolds, AllHeld, Purgeable
  <2>5. WriteHolds(op[u])'
    BY <1>3, <2>2, <2>3 DEF OneAtATime, Undisturbed
  <2>4. ReadHolds(op[u])'
    <3>1. op[u] \in Operation /\ ReadHolds(op[u])
      BY <1>0 DEF WholeInv, OpsHold
    <3>2. PICK y \in Operation : y = op[u] /\ ReadHolds(y)
      BY <3>1
    <3>3. ReadHolds(y)'
      BY <3>2
    <3>4. op'[u] = y
      BY <2>1, <3>2
    <3> QED
      BY <3>3, <3>4 DEF ReadHolds
  <2> QED
    BY <2>4, <2>5
<1>4. WriteHolds(op[t])' /\ ReadHolds(op[t])'
  BY <1>1 DEF WriteHolds, ReadHolds
<1> QED
  BY <1>3, <1>4 DEF WholeInv, OpsHold

\* ... as one that answers does.
LEMMA CalmAnswer ==
  ASSUME TypeOK, WholeInv, NEW t \in Request, NEW ok, Answer(t, ok), UNCHANGED CalmVars
  PROVE  WholeInv'
<1> DEFINE o == [pc |-> "done", ok |-> ok]
<1>1. WriteHolds(o) /\ ReadHolds(o)
  BY DEF WriteHolds, ReadHolds
<1> QED
  BY <1>1, CalmStep DEF Answer

\* What the owner's clients ask for.
LEMMA WriteWhole ==
  ASSUME TypeOK, ChainInv, WholeInv, Undisturbed, OneFraming, NEW t \in Writer, Write(t)
  PROVE  WholeInv'
<1>0. t \in Request
  BY DEF Request
<1>i. VersionChain /\ DiscardsIfAllowed
  BY DEF ChainInv
<1>c. UNCHANGED others => UNCHANGED CalmVars
  BY DEF others, rowVars, CalmVars
<1>1. ASSUME NEW v \in Version, NEW slots \in Framings, NEW R \in Audiences, Stage(t, v, slots, R)
      PROVE  WholeInv'
  <2>1. CASE UNCHANGED others
    BY <1>0, <1>1, <1>c, <2>1, CalmAnswer DEF Stage
  <2>2. CASE /\ stage[v] # "final" /\ (exists \/ v = 1)
             /\ exists' = TRUE
             /\ stage' = [stage EXCEPT ![v] = "staged"]
             /\ framed' = [framed EXCEPT ![v] = slots]
             /\ Answer(t, TRUE)
             /\ UNCHANGED <<current, tombstone, blobs>>
    <3>1. /\ stage \in [Version -> {"none", "staged", "final"}]
          /\ framed \in [Version -> SUBSET Slot]
          /\ current \in 0..MaxVersion /\ MaxVersion \in Nat
          /\ v # current
      BY <1>i, <2>2, FileAssumption DEF TypeOK, VersionChain, Version
    <3>2. framed'[current] = framed[current]
      BY <2>2, <3>1
    <3>3. FramesKept'
      BY <2>2, <3>1 DEF WholeInv, FramesKept
    <3>4. BlobsFramed'
      BY <2>2 DEF WholeInv, BlobsFramed
    <3>5. FinalizedWhole'
      <4>1. current \in Version => exists
        BY <1>i DEF VersionChain, Version
      <4> QED
        BY <2>2, <3>1, <3>2, <4>1 DEF WholeInv, FinalizedWhole, Version
    <3>6. \A x \in Operation : ReadHolds(x) => ReadHolds(x)'
      BY <2>2, <3>2 DEF ReadHolds, AllHeld
    <3>8. ASSUME NEW x \in Operation, WriteHolds(x)
          PROVE  WriteHolds(x)'
      <4> DEFINE fins == {"finStreams", "finCount", "finPrior", "finCheck", "finWrite"}
      <4>1. x.pc \in fins => x.v \in Version
        BY OperationShapes, <3>1 DEF Version
      <4>2. x.pc \in fins => stage[x.v] # "none" /\ stage'[x.v] # "none"
        BY <2>2, <3>1, <3>8, <4>1 DEF WriteHolds
      <4>3. x.pc \in fins /\ current <= x.v => framed[x.v] \in Framings
        <5>1. ASSUME NEW w \in Version, stage[w] # "none", current <= w
              PROVE  framed[w] \in Framings
          BY <1>i, <3>1, <5>1 DEF WholeInv, FramesKept, VersionChain, Version
        <5> QED
          BY <4>1, <4>2, <5>1
      <4>4. x.pc \in fins /\ current <= x.v => framed'[x.v] = framed[x.v]
        BY <2>2, <3>1, <4>1, <4>3 DEF OneFraming
      <4> QED
        BY <2>2, <3>8, <4>2, <4>4 DEF WriteHolds, CountHolds, AllHeld, Purgeable
    <3> DEFINE o == [pc |-> "done", ok |-> TRUE]
    <3>7. Goto(t, o) /\ o.pc = "done"
      BY <2>2 DEF Answer
    <3> QED
      BY <1>0, <1>i, <3>3, <3>4, <3>5, <3>6, <3>7, <3>8, WriterStep
  <2> QED
    BY <1>1, <2>1, <2>2 DEF Stage
<1>2. ASSUME NEW v \in Version, NEW slot \in Slot, PutBegin(t, v, slot)
      PROVE  WholeInv'
  <2> DEFINE o == [pc |-> "putStreams", v |-> v, slot |-> slot]
  <2>1. WriteHolds(o) /\ ReadHolds(o)
    BY DEF WriteHolds, ReadHolds
  <2>2. UNCHANGED CalmVars /\ (Goto(t, o) \/ Answer(t, FALSE))
    BY <1>2, <1>c DEF PutBegin
  <2> QED
    BY <1>0, <2>1, <2>2, CalmStep, CalmAnswer
<1>3. ASSUME NEW v \in Version, FinalizeBegin(t, v)
      PROVE  WholeInv'
  <2> DEFINE o == [pc |-> "finStreams", v |-> v]
  <2>1. stage[v] # "none" => WriteHolds(o) /\ ReadHolds(o)
    BY DEF WriteHolds, ReadHolds
  <2>2. UNCHANGED CalmVars /\ ((stage[v] # "none" /\ Goto(t, o)) \/ Answer(t, FALSE))
    BY <1>3, <1>c DEF FinalizeBegin
  <2> QED
    BY <1>0, <2>1, <2>2, CalmStep, CalmAnswer
<1>4. ASSUME DiscardBegin(t)
      PROVE  WholeInv'
  <2>1. UNCHANGED CalmVars
    BY <1>4, <1>c DEF DiscardBegin
  <2>2. CASE current = 0 /\ Goto(t, [pc |-> "discardRefs"])
    <3> DEFINE o == [pc |-> "discardRefs"]
    <3>1. WriteHolds(o) /\ ReadHolds(o)
      BY <2>2 DEF WriteHolds, ReadHolds
    <3> QED
      BY <1>0, <2>1, <2>2, <3>1, CalmStep
  <2>3. CASE Goto(t, [pc |-> "deleteFile"])
    <3> DEFINE o == [pc |-> "deleteFile"]
    <3>1. WriteHolds(o) /\ ReadHolds(o)
      BY DEF WriteHolds, ReadHolds
    <3> QED
      BY <1>0, <2>1, <2>3, <3>1, CalmStep
  <2>4. CASE Answer(t, TRUE)
    BY <1>0, <2>1, <2>4, CalmAnswer
  <2> QED
    BY <1>4, <2>2, <2>3, <2>4 DEF DiscardBegin
<1>5. ASSUME NEW r \in Recipient, DeleteWrap(t, Owner, r)
      PROVE  WholeInv'
  <2>1. UNCHANGED CalmVars /\ Answer(t, TRUE)
    BY <1>5 DEF DeleteWrap, CalmVars
  <2> QED
    BY <1>0, <2>1, CalmAnswer
<1> QED
  BY <1>1, <1>2, <1>3, <1>4, <1>5 DEF Write

\* What anyone asks for.
LEMMA AskWhole ==
  ASSUME TypeOK, WholeInv, NEW t \in Asker, Ask(t)
  PROVE  WholeInv'
<1>0. t \in Request
  BY DEF Request
<1>c. UNCHANGED others => UNCHANGED CalmVars
  BY DEF others, rowVars, CalmVars
<1>1. ASSUME NEW by \in User, NEW to \in User, AddWrapBegin(t, by, to)
      PROVE  WholeInv'
  <2> DEFINE o == [pc |-> "addHolds", v |-> current, by |-> by, to |-> to]
  <2>1. WriteHolds(o) /\ ReadHolds(o)
    BY DEF WriteHolds, ReadHolds
  <2>2. UNCHANGED CalmVars /\ (Goto(t, o) \/ Answer(t, FALSE))
    BY <1>1, <1>c DEF AddWrapBegin
  <2> QED
    BY <1>0, <2>1, <2>2, CalmStep, CalmAnswer
<1>2. ASSUME NEW by \in User, NEW r \in Recipient, DeleteWrap(t, by, r)
      PROVE  WholeInv'
  <2>1. UNCHANGED CalmVars /\ Answer(t, TRUE)
    BY <1>2 DEF DeleteWrap, CalmVars
  <2> QED
    BY <1>0, <2>1, CalmAnswer
<1>3. ASSUME NEW by \in User, NEW v, Goto(t, [pc |-> "getRow", v |-> v, by |-> by]),
             UNCHANGED others
      PROVE  WholeInv'
  <2> DEFINE o == [pc |-> "getRow", v |-> v, by |-> by]
  <2>1. WriteHolds(o) /\ ReadHolds(o)
    BY DEF WriteHolds, ReadHolds
  <2> QED
    BY <1>0, <1>3, <1>c, <2>1, CalmStep
<1>4. ASSUME NEW by \in User, GetLatest(t, by)
      PROVE  WholeInv'
  BY <1>0, <1>c, <1>3, <1>4, CalmAnswer DEF GetLatest
<1>5. ASSUME NEW by \in User, NEW v \in Version, GetSpecific(t, by, v)
      PROVE  WholeInv'
  BY <1>3, <1>5 DEF GetSpecific
<1> QED
  BY <1>1, <1>2, <1>4, <1>5 DEF Ask

\* The finalize handler only compares counts.  With one framing the chunks it counts
\* are among those framed, so equal counts are equal sets.
LEMMA EqualCountIsAllHeld ==
  ASSUME BlobsFramed, OneFraming,
         NEW v \in Version, NEW f \in Framings, NEW s, HasExactly(v, f, s)
  PROVE  \A slot \in f : slot[1] = s => <<v, slot>> \in blobs
<1>1. IsFiniteSet(Slot) /\ f \subseteq Slot
  BY FileAssumption, FS_Product DEF Slot
<1>2. Held(v, s) \subseteq FramedIn(f, s)
  BY DEF Held, FramedIn, BlobsFramed, OneFraming
<1>3. FramedIn(f, s) \subseteq Slot
  BY <1>1 DEF FramedIn
<1>4. IsFiniteSet(FramedIn(f, s))
  BY <1>1, <1>3, FS_Subset
<1>5. Held(v, s) = FramedIn(f, s)
  BY <1>2, <1>4, FS_Subset DEF HasExactly
<1> QED
  BY <1>5 DEF Held, FramedIn

\* Once no stream is left to count, all of them have been.
LEMMA CountedHolds ==
  ASSUME NEW v \in Version, NEW slots, NEW todo, stage[v] # "none", CountHolds(v, slots, todo)
  PROVE  WriteHolds(Counted(v, slots, todo)) /\ ReadHolds(Counted(v, slots, todo))
<1>1. CASE todo # {}
  BY <1>1 DEF Counted, WriteHolds, ReadHolds
<1>2. CASE todo = {}
  <2>1. current <= v => AllHeld(v)
    BY <1>2 DEF AllHeld, CountHolds
  <2> QED
    BY <1>2, <2>1 DEF Counted, WriteHolds, ReadHolds
<1> QED
  BY <1>1, <1>2

\* After its transaction a handler purges the blob_refs it has read, or has none.
LEMMA PurgingHolds ==
  ASSUME NEW refs
  PROVE  /\ Purging(refs).pc \in {"done", "purge"}
         /\ Purging(refs).pc = "purge" => Purging(refs).refs = refs
  BY DEF Purging

\* How a handler of a writer carries on.
LEMMA WriterProceeds ==
  ASSUME TypeOK, LockHolds, ChainInv, WholeInv, Undisturbed, OneFraming, NEW t \in Request,
         \/ PutStreams(t) \/ PutBlob(t)
         \/ FinalizeStreams(t) \/ FinalizeCount(t) \/ FinalizePrior(t)
         \/ FinalizeCheck(t) \/ FinalizeWrite(t)
         \/ Purge(t)
         \/ DiscardRefs(t) \/ DiscardRows(t) \/ DeleteFile(t)
  PROVE  WholeInv'
<1>0. /\ op[t] \in Operation
      /\ stage \in [Version -> {"none", "staged", "final"}]
      /\ framed \in [Version -> SUBSET Slot]
      /\ current \in 0..MaxVersion /\ MaxVersion \in Nat
  BY FileAssumption DEF TypeOK
<1>c. UNCHANGED others => UNCHANGED CalmVars
  BY DEF others, rowVars, CalmVars
<1>v. \A v \in Version : v # 0
  BY DEF Version
<1>w. /\ op[t].pc \in WritePcs
      /\ VersionChain /\ StillStaged /\ DiscardsIfAllowed
  BY DEF WritePcs, ChainInv, PutStreams, PutBlob, FinalizeStreams, FinalizeCount, FinalizePrior,
     FinalizeCheck, FinalizeWrite, Purge, DiscardRefs, DiscardRows, DeleteFile
<1>h. WriteHolds(op[t]) /\ ReadHolds(op[t])
  BY DEF WholeInv, OpsHold
<1>1. CASE PutStreams(t)
  <2> DEFINE o == [pc |-> "putBlob", v |-> op[t].v, slot |-> op[t].slot]
  <2>1. op[t].v \in Version
    BY <1>0, <1>1, OperationShapes DEF PutStreams
  <2>2. op[t].slot \in framed[op[t].v] => WriteHolds(o) /\ ReadHolds(o)
    BY <2>1 DEF WholeInv, FramesKept, WriteHolds, ReadHolds
  <2>3. /\ UNCHANGED CalmVars
        /\ (op[t].slot \in framed[op[t].v] /\ Goto(t, o)) \/ Answer(t, FALSE)
    BY <1>1, <1>c DEF PutStreams
  <2> QED
    BY <1>w, <2>2, <2>3, CalmStep, CalmAnswer
<1>2. CASE PutBlob(t)
  <2>1. CASE UNCHANGED blobs
    <3>1. UNCHANGED CalmVars /\ (Answer(t, TRUE) \/ Answer(t, FALSE))
      BY <1>2, <2>1 DEF PutBlob, CalmVars, rowVars
    <3> QED
      BY <3>1, CalmAnswer
  <2>2. CASE blobs' = blobs \cup {<<op[t].v, op[t].slot>>} /\ Answer(t, TRUE)
    <3>1. UNCHANGED <<exists, current, stage, framed, tombstone>>
      BY <1>2 DEF PutBlob, rowVars
    <3>2. FramesKept' /\ FinalizedWhole'
      BY <2>2, <3>1 DEF WholeInv, FramesKept, FinalizedWhole
    <3>3. BlobsFramed'
      BY <1>2, <1>h, <2>2 DEF WholeInv, BlobsFramed, PutBlob, WriteHolds
    <3>4. \A x \in Operation : ReadHolds(x) => ReadHolds(x)'
      BY <2>2, <3>1 DEF ReadHolds, AllHeld
    <3>6. \A x \in Operation : WriteHolds(x) => WriteHolds(x)'
      BY <2>2, <3>1 DEF WriteHolds, CountHolds, AllHeld, Purgeable
    <3> DEFINE o == [pc |-> "done", ok |-> TRUE]
    <3>5. Goto(t, o) /\ o.pc = "done"
      BY <2>2 DEF Answer
    <3> QED
      BY <1>w, <3>2, <3>3, <3>4, <3>5, <3>6, WriterStep
  <2> QED
    BY <1>2, <2>1, <2>2 DEF PutBlob
<1>3. CASE FinalizeStreams(t)
  <2> DEFINE slots == framed[op[t].v]
             o == Counted(op[t].v, slots, StreamsOf(slots))
  <2>1. op[t].v \in Version
    BY <1>0, <1>3, OperationShapes DEF FinalizeStreams
  <2>4. stage[op[t].v] # "none" /\ CountHolds(op[t].v, slots, StreamsOf(slots))
    BY <1>3, <1>h DEF FinalizeStreams, WriteHolds, CountHolds, StreamsOf
  <2>2. WriteHolds(o) /\ ReadHolds(o)
    BY <2>1, <2>4, CountedHolds
  <2>3. UNCHANGED CalmVars /\ Goto(t, o)
    BY <1>3, <1>c DEF FinalizeStreams
  <2> HIDE DEF o
  <2> QED
    BY <1>w, <2>2, <2>3, CalmStep
<1>4. CASE FinalizeCount(t)
  <2>1. UNCHANGED CalmVars
    BY <1>4, <1>c DEF FinalizeCount
  <2>2. op[t].v \in Version
    BY <1>0, <1>4, OperationShapes DEF FinalizeCount
  <2>3. stage[op[t].v] # "none" /\ CountHolds(op[t].v, op[t].framed, op[t].todo)
    BY <1>4, <1>h DEF FinalizeCount, WriteHolds
  <2>4. ASSUME NEW s \in op[t].todo, HasExactly(op[t].v, op[t].framed, s),
               Goto(t, Counted(op[t].v, op[t].framed, op[t].todo \ {s}))
        PROVE  WholeInv'
    <3> DEFINE o == Counted(op[t].v, op[t].framed, op[t].todo \ {s})
    <3>1. current <= op[t].v =>
            \A slot \in framed[op[t].v] : slot[1] = s => <<op[t].v, slot>> \in blobs
      <4>1. framed[op[t].v] \in Framings \/ framed[op[t].v] = {}
        BY <2>2 DEF WholeInv, FramesKept
      <4>2. BlobsFramed
        BY DEF WholeInv
      <4> QED
        BY <2>2, <2>3, <2>4, <4>1, <4>2, EqualCountIsAllHeld DEF CountHolds
    <3>2. CountHolds(op[t].v, op[t].framed, op[t].todo \ {s})
      BY <2>3, <3>1 DEF CountHolds
    <3>3. WriteHolds(o) /\ ReadHolds(o)
      BY <2>2, <2>3, <3>2, CountedHolds
    <3> HIDE DEF o
    <3> QED
      BY <1>w, <2>1, <2>4, <3>3, CalmStep DEF o
  <2>5. CASE Answer(t, FALSE)
    BY <2>1, <2>5, CalmAnswer
  <2> QED
    BY <1>4, <2>4, <2>5 DEF FinalizeCount
<1>5. CASE FinalizePrior(t)
  <2> DEFINE v == op[t].v
             o == [pc |-> "finCheck", v |-> v, refs |-> RefsOf(v - 1, framed[v - 1])]
  <2>1. v \in 2..MaxVersion
    BY <1>0, <1>5, OperationShapes DEF FinalizePrior
  <2>2. \A ref \in o.refs : ref[1] < v
    BY <2>1 DEF RefsOf
  <2>3. WriteHolds(o) /\ ReadHolds(o)
    BY <1>5, <1>h, <2>2 DEF FinalizePrior, WriteHolds, ReadHolds
  <2>4. UNCHANGED CalmVars /\ Goto(t, o)
    BY <1>5, <1>c DEF FinalizePrior
  <2> QED
    BY <1>w, <2>3, <2>4, CalmStep
<1>6. CASE FinalizeCheck(t)
  <2> DEFINE o == [pc |-> "finWrite", v |-> op[t].v, refs |-> op[t].refs]
  <2>1. WriteHolds(o) /\ ReadHolds(o)
    BY <1>6, <1>h DEF FinalizeCheck, WriteHolds, ReadHolds
  <2>2. UNCHANGED CalmVars /\ (Goto(t, o) \/ Answer(t, FALSE))
    BY <1>6, <1>c DEF FinalizeCheck
  <2> QED
    BY <2>1, <2>2, CalmStep, CalmAnswer
<1>11. CASE FinalizeWrite(t)
  <2> DEFINE v == op[t].v
             o == Purging(op[t].refs)
  <2>1. v \in Version
    BY <1>0, <1>11, OperationShapes DEF FinalizeWrite
  <2>2. exists /\ v = current + 1 /\ stage[v] = "staged"
    BY <1>w, <1>11 DEF FinalizeWrite, LockHolds, StillStaged
  <2>3. /\ \A w \in Version : stage'[w] = IF w = v THEN "final" ELSE stage[w]
        /\ \A w \in Version : framed'[w] = IF w = current THEN {} ELSE framed[w]
        /\ current' = v
        /\ Goto(t, o)
        /\ UNCHANGED <<exists, tombstone, blobs>>
    BY <1>11, <2>2 DEF FinalizeWrite
  <2>4. v # current /\ framed'[v] = framed[v]
    BY <1>0, <2>1, <2>2, <2>3
  <2>5. FramesKept'
    <3>1. \A w \in Version : w = current => stage[w] # "staged"
      BY <1>0, <1>w DEF VersionChain
    <3> QED
      BY <2>1, <2>2, <2>3, <2>4, <3>1 DEF WholeInv, FramesKept
  <2>6. BlobsFramed'
    BY <2>3 DEF WholeInv, BlobsFramed
  <2>7. FinalizedWhole'
    <3>1. AllHeld(v)
      BY <1>0, <1>h, <1>11, <2>2 DEF FinalizeWrite, WriteHolds
    <3>2. framed[v] \in Framings
      BY <2>1, <2>2 DEF WholeInv, FramesKept
    <3> QED
      BY <2>3, <2>4, <3>1, <3>2 DEF AllHeld, FinalizedWhole
  <2>8. ASSUME NEW x \in Operation, ReadHolds(x)
        PROVE  ReadHolds(x)'
    <3> DEFINE reads == x.pc \in {"getWraps", "getOwner", "getStreams", "view"}
    <3>1. reads => x.v \in Version
      BY OperationShapes
    <3>2. reads => x.v <= current \/ tombstone
      BY <1>0, <2>8, <3>1 DEF ReadHolds, Version
    <3>3. reads => x.v < current' \/ tombstone'
      BY <1>0, <2>2, <2>3, <3>1, <3>2 DEF Version
    <3>4. reads => x.v <= current' \/ tombstone'
      BY <1>0, <2>1, <2>3, <3>1, <3>3 DEF Version
    <3> QED
      BY <3>3, <3>4 DEF ReadHolds
  <2>9. Purgeable(op[t].refs, current')
    <3>1. op[t].refs \in SUBSET BlobRef
      BY <1>0, <1>11, OperationShapes DEF FinalizeWrite
    <3>2. \A ref \in op[t].refs : ref[1] < current' /\ ref[1] # current'
      BY <1>0, <1>11, <1>h, <2>1, <2>3, <3>1 DEF FinalizeWrite, WriteHolds, Version, BlobRef
    <3> QED
      BY <3>2 DEF Purgeable
  <2>10. o.pc \in {"done", "purge"} /\ (o.pc = "purge" => Purgeable(o.refs, current'))
    BY <2>9, PurgingHolds
  <2>12. ASSUME NoDiscard, NEW x \in Operation, WriteHolds(x), x.pc \notin DiscardPcs
         PROVE  WriteHolds(x)'
    <3> DEFINE fins == {"finStreams", "finCount", "finPrior", "finCheck", "finWrite"}
    <3>1. x.pc \in fins => x.v \in Version
      BY OperationShapes, <1>0 DEF Version
    <3>2. x.pc \in fins => stage'[x.v] # "none"
      BY <2>3, <2>12, <3>1 DEF WriteHolds
    <3>3. x.pc \in fins /\ current' <= x.v => current <= x.v /\ framed'[x.v] = framed[x.v]
      BY <1>0, <2>1, <2>2, <2>3, <3>1 DEF Version
    <3>4. x.pc = "purge" => Purgeable(x.refs, current')
      <4>1. x.pc = "purge" => x.refs \in SUBSET BlobRef
        BY OperationShapes
      <4> QED
        BY <1>0, <2>2, <2>3, <2>12, <4>1 DEF WriteHolds, Purgeable, Version, BlobRef
    <3> QED
      BY <2>3, <2>12, <3>2, <3>3, <3>4 DEF WriteHolds, CountHolds, AllHeld, DiscardPcs
  <2> HIDE DEF o
  <2> QED
    BY <1>w, <2>3, <2>5, <2>6, <2>7, <2>8, <2>10, <2>12, WriterStep
<1>7. CASE Purge(t)
  <2>1. op[t].refs \in SUBSET BlobRef
    BY <1>0, <1>7, OperationShapes DEF Purge
  <2>2. PICK ref \in op[t].refs :
          /\ blobs' = blobs \ ({ref[1]} \X Held(ref[1], ref[2])) \/ UNCHANGED blobs
          /\ Goto(t, Purging(op[t].refs \ {ref}))
    BY <1>7 DEF Purge
  <2> DEFINE o == Purging(op[t].refs \ {ref})
  <2>3. UNCHANGED <<exists, current, stage, framed, tombstone>>
    BY <1>7 DEF Purge, rowVars
  <2>4. Purgeable(op[t].refs, current)
    BY <1>7, <1>h DEF Purge, WriteHolds
  <2>5. blobs' \subseteq blobs /\ \A slot \in Slot : <<current, slot>> \in blobs => <<current, slot>> \in blobs'
    BY <2>2, <2>4 DEF Purgeable
  <2>6. FramesKept' /\ BlobsFramed'
    BY <2>3, <2>5 DEF WholeInv, FramesKept, BlobsFramed
  <2>7. current # 0 => framed[current] \subseteq Slot
    BY <1>0 DEF Version
  <2>8. FinalizedWhole'
    BY <2>3, <2>5, <2>7 DEF WholeInv, FinalizedWhole
  <2>9. ASSUME NEW x \in Operation, ReadHolds(x)
        PROVE  ReadHolds(x)'
    <3>1. x.pc = "view" /\ x.v = current => current # 0
      BY <1>v, OperationShapes
    <3>2. current # 0 /\ AllHeld(current) => AllHeld(current)'
      BY <2>3, <2>5, <2>7 DEF AllHeld
    <3> QED
      BY <2>3, <2>9, <3>1, <3>2 DEF ReadHolds
  <2>10. o.pc \in {"done", "purge"} /\ (o.pc = "purge" => Purgeable(o.refs, current'))
    BY <2>3, <2>4, PurgingHolds DEF Purgeable
  <2>11. Goto(t, o)
    BY <2>2
  <2>12. ASSUME NoDiscard, NEW x \in Operation, WriteHolds(x), x.pc \notin DiscardPcs
         PROVE  WriteHolds(x)'
    <3> DEFINE fins == {"finStreams", "finCount", "finPrior", "finCheck", "finWrite"}
    <3>1. x.pc \in fins => x.v \in Version
      BY OperationShapes, <1>0 DEF Version
    <3>2. ref[1] \in Version /\ ref[1] < current
      BY <2>1, <2>4, <2>12 DEF Purgeable, BlobRef
    <3>3. x.pc \in fins /\ current <= x.v =>
            \A slot \in framed[x.v] : <<x.v, slot>> \in blobs => <<x.v, slot>> \in blobs'
      BY <1>0, <2>2, <3>1, <3>2 DEF Version
    <3> QED
      BY <2>3, <2>12, <3>3
         DEF WriteHolds, CountHolds, AllHeld, Purgeable, DiscardPcs
  <2> HIDE DEF o
  <2> QED
    BY <1>w, <2>6, <2>8, <2>9, <2>10, <2>11, <2>12, WriterStep
<1>8. CASE DiscardRefs(t)
  <2> DEFINE refs == UNION {RefsOf(v, framed[v]) : v \in {w \in Version : stage[w] = "staged"}}
             o == [pc |-> "discardRows", refs |-> refs]
  <2>1. current = 0
    BY <1>8, <1>h DEF DiscardRefs, WriteHolds
  <2> HIDE DEF refs
  <2>2. WriteHolds(o) /\ ReadHolds(o)
    BY <2>1 DEF WriteHolds, ReadHolds
  <2>3. UNCHANGED CalmVars /\ Goto(t, o)
    BY <1>8, <1>c DEF DiscardRefs, refs
  <2> QED
    BY <1>w, <2>2, <2>3, CalmStep
<1>9. CASE DiscardRows(t)
  <2> DEFINE o == Purging(op[t].refs)
  <2>1. /\ op[t].refs \in SUBSET BlobRef
        /\ current = 0
    BY <1>0, <1>9, <1>h, OperationShapes DEF DiscardRows, WriteHolds
  <2>2. /\ stage' = [v \in Version |-> IF stage[v] = "staged" THEN "none" ELSE stage[v]]
        /\ framed' = [v \in Version |-> IF stage[v] = "staged" THEN {} ELSE framed[v]]
        /\ Goto(t, o)
        /\ UNCHANGED <<exists, current, tombstone, blobs>>
    BY <1>9 DEF DiscardRows
  <2>3. FramesKept'
    BY <1>v, <2>1, <2>2 DEF WholeInv, FramesKept
  <2>4. BlobsFramed' /\ FinalizedWhole'
    BY <2>1, <2>2 DEF WholeInv, BlobsFramed, FinalizedWhole
  <2>5. ASSUME NEW x \in Operation, ReadHolds(x)
        PROVE  ReadHolds(x)'
    <3>1. x.pc = "view" => x.v # current
      BY <1>v, <2>1, OperationShapes
    <3> QED
      BY <2>2, <2>5, <3>1 DEF ReadHolds
  <2>7. ~NoDiscard
    BY <1>9, <1>w DEF DiscardRows, DiscardsIfAllowed, DiscardPcs
  <2>6. o.pc \in {"done", "purge"} /\ (o.pc = "purge" => Purgeable(o.refs, current'))
    BY <1>v, <2>1, <2>2, <2>7, PurgingHolds DEF BlobRef, Purgeable
  <2> HIDE DEF o
  <2> QED
    BY <1>w, <2>2, <2>3, <2>4, <2>5, <2>6, <2>7, WriterStep
<1>10. CASE DeleteFile(t)
  <2> DEFINE refs == UNION {RefsOf(v, framed[v]) : v \in Version}
             o == Purging(refs)
  <2>1. CASE UNCHANGED rowVars /\ Answer(t, FALSE)
    <3>1. UNCHANGED CalmVars
      BY <1>10, <2>1 DEF DeleteFile, rowVars, CalmVars
    <3> QED
      BY <2>1, <3>1, CalmAnswer
  <2>2. CASE /\ current' = 0
             /\ stage' = [v \in Version |-> "none"]
             /\ framed' = [v \in Version |-> {}]
             /\ tombstone' = TRUE
             /\ Goto(t, o)
             /\ UNCHANGED blobs
    <3>1. FramesKept' /\ BlobsFramed' /\ FinalizedWhole'
      BY <1>v, <2>2 DEF WholeInv, FramesKept, BlobsFramed, FinalizedWhole
    <3>2. \A x \in Operation : ReadHolds(x)'
      BY <2>2 DEF ReadHolds
    <3>5. ~NoDiscard
      BY <1>10, <1>w DEF DeleteFile, DiscardsIfAllowed, DiscardPcs
    <3>3. \A ref \in refs : ref[1] # current'
      BY <1>v, <2>2 DEF RefsOf
    <3> HIDE DEF refs
    <3>4. o.pc \in {"done", "purge"} /\ (o.pc = "purge" => Purgeable(o.refs, current'))
      BY <3>3, <3>5, PurgingHolds DEF Purgeable
    <3> HIDE DEF o
    <3> QED
      BY <1>w, <2>2, <3>1, <3>2, <3>4, <3>5, WriterStep
  <2> QED
    BY <1>10, <2>1, <2>2 DEF DeleteFile
<1> QED
  BY <1>1, <1>2, <1>3, <1>4, <1>5, <1>6, <1>7, <1>8, <1>9, <1>10, <1>11

\* How a handler of anyone's share or read carries on.
LEMMA AskerProceeds ==
  ASSUME TypeOK, VersionChain, WholeInv, NEW t \in Request,
         \/ AddWrapHolds(t) \/ AddWrapInsert(t)
         \/ GetRow(t) \/ GetWraps(t) \/ GetOwner(t) \/ GetStreams(t)
  PROVE  WholeInv'
<1>0. op[t] \in Operation
  BY DEF TypeOK
<1>c. UNCHANGED others => UNCHANGED CalmVars
  BY DEF others, rowVars, CalmVars
<1>h. ReadHolds(op[t])
  BY DEF WholeInv, OpsHold
<1>1. CASE AddWrapHolds(t)
  <2> DEFINE o == [pc |-> "addInsert", v |-> op[t].v, by |-> op[t].by, to |-> op[t].to]
  <2>1. WriteHolds(o) /\ ReadHolds(o)
    BY DEF WriteHolds, ReadHolds
  <2>2. UNCHANGED CalmVars /\ (Goto(t, o) \/ Answer(t, FALSE))
    BY <1>1, <1>c DEF AddWrapHolds
  <2> QED
    BY <2>1, <2>2, CalmStep, CalmAnswer
<1>2. CASE AddWrapInsert(t)
  <2>1. UNCHANGED CalmVars /\ (Answer(t, TRUE) \/ Answer(t, FALSE))
    BY <1>2 DEF AddWrapInsert, CalmVars
  <2> QED
    BY <2>1, CalmAnswer
<1>3. CASE GetRow(t)
  <2> DEFINE o == [pc |-> "getWraps", v |-> op[t].v, by |-> op[t].by]
  <2>1. op[t].v \in Version
    BY <1>0, <1>3, OperationShapes DEF GetRow
  <2>2. Visible(op[t].v) => WriteHolds(o) /\ ReadHolds(o)
    BY <2>1 DEF Visible, VersionChain, WriteHolds, ReadHolds
  <2>3. UNCHANGED CalmVars /\ ((Visible(op[t].v) /\ Goto(t, o)) \/ Answer(t, FALSE))
    BY <1>3, <1>c DEF GetRow
  <2> QED
    BY <2>2, <2>3, CalmStep, CalmAnswer
<1>4. CASE GetWraps(t)
  <2> DEFINE o == [pc |-> "getOwner", v |-> op[t].v]
  <2>1. WriteHolds(o) /\ ReadHolds(o)
    BY <1>4, <1>h DEF GetWraps, WriteHolds, ReadHolds
  <2>2. UNCHANGED CalmVars /\ (Goto(t, o) \/ Answer(t, FALSE))
    BY <1>4, <1>c DEF GetWraps
  <2> QED
    BY <2>1, <2>2, CalmStep, CalmAnswer
<1>5. CASE GetOwner(t)
  <2> DEFINE o == [pc |-> "getStreams", v |-> op[t].v]
  <2>1. WriteHolds(o) /\ ReadHolds(o)
    BY <1>5, <1>h DEF GetOwner, WriteHolds, ReadHolds
  <2>2. UNCHANGED CalmVars /\ (Goto(t, o) \/ Answer(t, FALSE))
    BY <1>5, <1>c DEF GetOwner
  <2> QED
    BY <2>1, <2>2, CalmStep, CalmAnswer
<1>6. CASE GetStreams(t)
  <2> DEFINE o == [pc |-> "view", v |-> op[t].v, framed |-> framed[op[t].v]]
  <2>1. op[t].v \in Version
    BY <1>0, <1>6, OperationShapes DEF GetStreams
  <2>2. op[t].v <= current \/ tombstone
    BY <1>6, <1>h DEF GetStreams, ReadHolds
  <2>3. current \in 0..MaxVersion /\ MaxVersion \in Nat
    BY FileAssumption DEF TypeOK
  <2>4. op[t].v = current => AllHeld(current)
    BY <2>1 DEF VersionChain, WholeInv, FinalizedWhole, AllHeld, Version
  <2>5. WriteHolds(o) /\ ReadHolds(o)
    BY <2>1, <2>2, <2>3, <2>4 DEF WriteHolds, ReadHolds, Version
  <2>6. UNCHANGED CalmVars /\ Goto(t, o)
    BY <1>6, <1>c DEF GetStreams
  <2> QED
    BY <2>5, <2>6, CalmStep
<1> QED
  BY <1>1, <1>2, <1>3, <1>4, <1>5, <1>6

\* Every step keeps the file whole.
LEMMA WholeStep ==
  ASSUME TypeOK, LockHolds, ChainInv, WholeInv, Undisturbed, OneFraming, Next
  PROVE  WholeInv'
<1>1. ASSUME NEW t \in Request, Return(t) \/ Drop(t)
      PROVE  WholeInv'
  <2>1. WriteHolds(IdleOp) /\ ReadHolds(IdleOp)
    BY DEF IdleOp, WriteHolds, ReadHolds
  <2>2. UNCHANGED CalmVars /\ Goto(t, IdleOp)
    BY <1>1 DEF Return, Drop, others, rowVars, CalmVars
  <2> QED
    BY <2>1, <2>2, CalmStep
<1>2. ASSUME NEW t \in Request, Proceed(t)
      PROVE  WholeInv'
  BY <1>2, WriterProceeds, AskerProceeds DEF Proceed, ChainInv
<1> QED
  BY <1>1, <1>2, WriteWhole, AskWhole DEF Next

----------------------------------------------------------------------------
(* Theorems *)

\* The inductive invariant holds as long as the writing requests are undisturbed.
THEOREM WholeHolds == ASSUME OneFraming PROVE Spec /\ []Undisturbed => []WholeInv
<1>1. TypeOK /\ LockHolds /\ ChainInv /\ Undisturbed /\ WholeInv /\ [Next]_vars => WholeInv'
  <2> SUFFICES ASSUME TypeOK, LockHolds, ChainInv, Undisturbed, WholeInv, [Next]_vars
               PROVE  WholeInv'
    OBVIOUS
  <2>1. CASE Next
    BY <2>1, WholeStep
  <2>2. CASE UNCHANGED vars
    BY <2>2 DEF vars, WholeInv, FramesKept, BlobsFramed, FinalizedWhole, OpsHold,
       WriteHolds, ReadHolds, AllHeld, CountHolds, Purgeable
  <2> QED
    BY <2>1, <2>2
<1> QED
  BY TypeCorrect, LockIsExclusive, ChainInvHolds, WholeInit, <1>1, PTL DEF Spec

\* As long as the requests that write come one at a time, or none discards, and a version
\* keeps its framing, what a finalized file frames is in the blob store: whatever is
\* shared, revoked, staged again or raced for, dropped half way, or fails in the blob store.
THEOREM WholeWhileUndisturbed ==
  ASSUME OneFraming PROVE Spec /\ []Undisturbed => []FinalizedWhole
<1>1. WholeInv => FinalizedWhole
  BY DEF WholeInv
<1> QED
  BY WholeHolds, <1>1, PTL

\* So with one client that writes, or any number that discard nothing, every chunk a
\* finalized file frames is in the blob store.
THEOREM FinalizedIsWhole ==
  ASSUME OneWriter \/ NoDiscard, OneFraming PROVE Spec => []FinalizedWhole
  BY ClientsUndisturbed, WholeWhileUndisturbed, PTL

\* A reader whose queries interleave with all that is never left with a torn view of a
\* file nobody has superseded or deleted.
THEOREM ViewsHold ==
  ASSUME OneWriter \/ NoDiscard, OneFraming PROVE Spec => []ViewHoldsOrIsSuperseded
<1>1. WholeInv => ViewHoldsOrIsSuperseded
  BY DEF WholeInv, OpsHold, ReadHolds, AllHeld, ViewHoldsOrIsSuperseded
<1> QED
  BY ClientsUndisturbed, WholeHolds, <1>1, PTL

----------------------------------------------------------------------------
(* One versioned file *)

\* A file about to be deleted is published.
DeletesPublished == \A t \in Request : op[t].pc = "deleteFile" => exists /\ current # 0

\* Undisturbed, nothing takes a file away from the request that is about to delete it.
LEMMA DeletesStep ==
  ASSUME TypeOK, DiscardsIfAllowed, Undisturbed, LockHolds, DeletesPublished, Next
  PROVE  DeletesPublished'
<1>0. op \in [Request -> Operation] /\ current \in Nat
  BY FileAssumption DEF TypeOK
<1>1. PICK t \in Request : Moves(t)
  BY EveryStepMoves
<1>2. PICK o : /\ Goto(t, o)
               /\ o.pc = "deleteFile" => exists /\ current # 0 /\ UNCHANGED rowVars
  BY <1>1 DEF Moves
<1>3. op'[t] = o /\ \A u \in Request : u # t => op'[u] = op[u]
  BY <1>0, <1>2 DEF Goto
<1>4. CASE o.pc = "deleteFile"
  BY <1>2, <1>3, <1>4 DEF DeletesPublished, rowVars
<1>5. CASE o.pc # "deleteFile"
  <2> SUFFICES ASSUME NEW u \in Request, op'[u].pc = "deleteFile"
               PROVE  exists' /\ current' # 0
    BY DEF DeletesPublished
  <2>1. op'[u] = op[u] /\ op[u].pc = "deleteFile" /\ exists /\ current # 0
    BY <1>3, <1>5 DEF DeletesPublished
  <2>2. ASSUME NEW x \in Request, DeleteFile(x)
        PROVE  FALSE
    <3>1. x = u
      BY <2>1, <2>2 DEF DeleteFile, DiscardsIfAllowed, Undisturbed, OneAtATime, DiscardPcs, WritePcs
    <3>2. op'[x].pc \in {"done", "purge"}
      BY <1>0, <2>2 DEF DeleteFile, Goto, Answer, Purging
    <3> QED
      BY <2>1, <3>1, <3>2
  <2>3. ASSUME NEW x \in Request, FinalizeWrite(x)
        PROVE  exists' /\ current' # 0
    BY <1>0, <2>1, <2>3 DEF FinalizeWrite, LockHolds
  <2> QED
    BY <2>1, <2>2, <2>3, RowSteps
    DEF RowStep, rowVars, Stage, others, DiscardRows, AddWrapInsert, DeleteWrap
<1> QED
  BY <1>4, <1>5

\* Undisturbed, the published content is the one framing and changes with it only.
LEMMA ContentIsWhole ==
  ASSUME VersionChain, FinalizedWhole, current # 0
  PROVE  PublishedContent \in Framings
<1>1. framed[current] \in Framings /\ \A slot \in framed[current] : <<current, slot>> \in blobs
  BY DEF VersionChain, FinalizedWhole
<1>2. PublishedContent = framed[current]
  BY <1>1 DEF PublishedContent
<1> QED
  BY <1>1, <1>2

\* Every step is one of a versioned file, or changes nothing its users can see.
LEMMA FileStep ==
  ASSUME TypeOK, TypeOK', OneFraming, LockHolds, StillStaged, DeletesPublished,
         VersionChain, VersionChain', RecoveryAlwaysWrapped, FinalizedWhole, FinalizedWhole',
         Next
  PROVE  Promise!Next \/ UNCHANGED Promise!fileVars
<1>0. /\ stage \in [Version -> {"none", "staged", "final"}]
      /\ wraps \in [Version -> [Recipient -> User \cup {None}]]
      /\ current \in 0..MaxVersion /\ MaxVersion \in Nat
      /\ op \in [Request -> Operation]
      /\ Recovery \in Recipient /\ Recovery \notin User /\ User \subseteq Recipient
      /\ Owner # None
  BY FileAssumption DEF TypeOK, Recipient
<1>v. \A v \in Version : v # 0
  BY DEF Version
<1>c. ASSUME current' = current
      PROVE  PublishedContent' = PublishedContent
  <2>1. CASE current = 0
    BY <1>c, <2>1 DEF PublishedContent
  <2>2. CASE current # 0
    <3>1. PublishedContent \in Framings
      BY <2>2, ContentIsWhole
    <3>2. PublishedContent' \in Framings
      <4>1. framed'[current'] \in Framings
              /\ \A slot \in framed'[current'] : <<current', slot>> \in blobs'
        BY <1>c, <2>2 DEF VersionChain, FinalizedWhole
      <4>2. PublishedContent' = framed'[current']
        BY <1>c, <2>2, <4>1 DEF PublishedContent
      <4> QED
        BY <4>1, <4>2
    <3> QED
      BY <3>1, <3>2 DEF OneFraming
  <2> QED
    BY <2>1, <2>2
<1>s. ASSUME current' = current, UNCHANGED <<revoked, tombstone>>,
             current # 0 => wraps'[current] = wraps[current]
      PROVE  UNCHANGED Promise!fileVars
  <2>1. PublishedTo' = PublishedTo
    BY <1>s DEF PublishedTo
  <2> QED
    BY <1>s, <1>c, <2>1 DEF Promise!fileVars
<1>f. \A v \in Version : v = current => stage[v] = "final"
  BY <1>0 DEF VersionChain, Version
<1>n. current # 0 => current \in Version
  BY <1>0 DEF Version
<1>1. CASE UNCHANGED rowVars
  BY <1>1, <1>s DEF rowVars
<1>2. ASSUME NEW t \in Request, NEW v \in Version, NEW slots \in Framings, NEW R \in Audiences,
             Stage(t, v, slots, R)
      PROVE  UNCHANGED Promise!fileVars
  <2>1. CASE UNCHANGED others
    BY <2>1, <1>s DEF others, rowVars
  <2>2. CASE /\ stage[v] # "final"
             /\ wraps' = [wraps EXCEPT ![v] =
                            [r \in Recipient |-> IF r \in R THEN Owner ELSE None]]
             /\ UNCHANGED <<current, revoked, tombstone>>
    <3>1. v # current
      BY <1>f, <2>2
    <3>2. current # 0 => wraps'[current] = wraps[current]
      BY <1>0, <1>n, <2>2, <3>1
    <3> QED
      BY <1>s, <2>2, <3>2
  <2> QED
    BY <1>2, <2>1, <2>2 DEF Stage
<1>3. ASSUME NEW t \in Request, FinalizeWrite(t)
      PROVE  Promise!Publish
  <2> DEFINE v == op[t].v
  <2>1. v \in Version
    BY <1>0, <1>3, OperationShapes DEF FinalizeWrite
  <2>2. exists /\ v = current + 1 /\ stage[v] = "staged"
    BY <1>3 DEF FinalizeWrite, LockHolds, StillStaged
  <2>3. /\ \A w \in Version : wraps'[w] = IF w = current THEN NoWraps ELSE wraps[w]
        /\ current' = v
        /\ UNCHANGED <<exists, revoked, tombstone>>
    BY <1>3 DEF FinalizeWrite
  <2>4. current' = current + 1 /\ current' # 0
    BY <1>0, <2>2, <2>3
  <2>5. wraps'[current'] = wraps[v] /\ wraps[v][Recovery] = Owner
    BY <1>0, <2>1, <2>2, <2>3 DEF RecoveryAlwaysWrapped
  <2>6. PublishedTo' = {r \in Recipient : wraps[v][r] # None}
    BY <2>4, <2>5 DEF PublishedTo
  <2>7. PublishedTo' \in {R \in SUBSET Recipient : Recovery \in R}
    BY <1>0, <2>5, <2>6
  <2>8. PublishedContent' \in Framings
    <3>1. framed'[current'] \in Framings
            /\ \A slot \in framed'[current'] : <<current', slot>> \in blobs'
      BY <2>2, <2>3, <2>4 DEF FinalizedWhole
    <3>2. PublishedContent' = framed'[current']
      BY <2>4, <3>1 DEF PublishedContent
    <3> QED
      BY <3>1, <3>2
  <2> QED
    BY <2>3, <2>4, <2>7, <2>8 DEF Promise!Publish
<1>4. ASSUME NEW t \in Request, DiscardRows(t)
      PROVE  UNCHANGED Promise!fileVars
  <2>1. \A v \in Version : wraps'[v] = IF stage[v] = "staged" THEN NoWraps ELSE wraps[v]
    BY <1>4 DEF DiscardRows
  <2>2. current # 0 => wraps'[current] = wraps[current]
    BY <1>f, <1>n, <2>1
  <2> QED
    BY <1>4, <1>s, <2>2 DEF DiscardRows
<1>5. ASSUME NEW t \in Request, DeleteFile(t)
      PROVE  Promise!End
  <2>1. exists /\ current # 0
    BY <1>5 DEF DeleteFile, DeletesPublished
  <2>2. current' = 0 /\ tombstone' = TRUE /\ revoked' = revoked
    BY <1>5, <2>1 DEF DeleteFile
  <2>3. PublishedContent' = {} /\ PublishedTo' = {}
    BY <2>2 DEF PublishedContent, PublishedTo
  <2> QED
    BY <2>1, <2>2, <2>3 DEF Promise!End
<1>6. ASSUME NEW t \in Request, AddWrapInsert(t)
      PROVE  (\E r \in Recipient : Promise!Share(r)) \/ UNCHANGED Promise!fileVars
  <2> DEFINE o == op[t]
  <2>1. o.v \in Version /\ o.to \in User /\ o.by \in User
    BY <1>0, <1>6, OperationShapes DEF AddWrapInsert
  <2>2. UNCHANGED <<current, revoked, tombstone>>
    BY <1>6 DEF AddWrapInsert
  <2>3. CASE UNCHANGED wraps
    BY <1>s, <2>2, <2>3
  <2>4. CASE wraps' = [wraps EXCEPT ![o.v] = [wraps[o.v] EXCEPT ![o.to] = o.by]] /\ o.v # current
    <3>1. current # 0 => wraps'[current] = wraps[current]
      BY <1>0, <1>n, <2>4
    <3> QED
      BY <1>s, <2>2, <3>1
  <2>5. CASE wraps' = [wraps EXCEPT ![o.v] = [wraps[o.v] EXCEPT ![o.to] = o.by]] /\ o.v = current
    <3>1. current # 0 /\ current' # 0
      BY <1>v, <2>1, <2>2, <2>5
    <3>2. \A r \in Recipient : wraps'[current][r] # None <=> wraps[current][r] # None \/ r = o.to
      <4>1. o.by # None
        BY <2>1, FileAssumption
      <4> QED
        BY <1>0, <1>n, <2>1, <2>5, <3>1, <4>1
    <3>3. o.to \in Recipient
      BY <1>0, <2>1
    <3>4. PublishedTo' = PublishedTo \cup {o.to}
      BY <2>2, <3>1, <3>2, <3>3 DEF PublishedTo
    <3>5. Promise!Share(o.to)
      BY <1>c, <2>2, <3>1, <3>4 DEF Promise!Share
    <3> QED
      BY <3>3, <3>5
  <2> QED
    BY <1>6, <2>3, <2>4, <2>5 DEF AddWrapInsert
<1>7. ASSUME NEW t \in Request, NEW by \in User, NEW r \in Recipient, DeleteWrap(t, by, r)
      PROVE  Promise!Withdraw(r)
  <2>1. /\ r # Recovery /\ current # 0 /\ wraps[current][r] # None
        /\ wraps' = [wraps EXCEPT ![current] = [wraps[current] EXCEPT ![r] = None]]
        /\ revoked' = revoked \cup {<<current, r>>}
        /\ UNCHANGED <<current, tombstone>>
    BY <1>7 DEF DeleteWrap, Unprotected, RecordRevocation
  <2>2. \A s \in Recipient : wraps'[current][s] # None <=> wraps[current][s] # None /\ s # r
    BY <1>0, <1>n, <2>1
  <2>3. r \in PublishedTo \ {Recovery} /\ PublishedTo' = PublishedTo \ {r}
    BY <2>1, <2>2 DEF PublishedTo
  <2> QED
    BY <1>c, <2>1, <2>3 DEF Promise!Withdraw
<1> QED
  BY RowSteps, <1>1, <1>2, <1>3, <1>4, <1>5, <1>6, <1>7 DEF RowStep, Promise!Next

\* Undisturbed, the file is one versioned file to its users ...
THEOREM VersionedWhileUndisturbed ==
  ASSUME OneFraming PROVE Spec /\ []Undisturbed => ImplementsVersionedFile
<1>1. Init => Promise!Init
  BY DEF Init, Promise!Init, PublishedContent, PublishedTo
<1>2. Init => DeletesPublished
  BY DEF Init, IdleOp, DeletesPublished
<1>3. TypeOK /\ ChainInv /\ LockHolds /\ Undisturbed /\ DeletesPublished /\ [Next]_vars
        => DeletesPublished'
  BY DeletesStep DEF ChainInv, vars, DeletesPublished
<1>4. ASSUME TypeOK, TypeOK', LockHolds, ChainInv, ChainInv', DeletesPublished,
             RecoveryAlwaysWrapped, FinalizedWhole, FinalizedWhole', [Next]_vars
      PROVE  [Promise!Next]_<<current, PublishedContent, PublishedTo, revoked, tombstone>>
  <2>1. CASE Next
    BY <1>4, <2>1, FileStep DEF ChainInv, Promise!fileVars
  <2>2. CASE UNCHANGED vars
    BY <2>2 DEF vars, PublishedContent, PublishedTo
  <2> QED
    BY <1>4, <2>1, <2>2
<1> QED
  BY TypeCorrect, LockIsExclusive, ChainInvHolds, EscrowHolds, WholeWhileUndisturbed,
     <1>1, <1>2, <1>3, <1>4, PTL DEF Spec, ImplementsVersionedFile, Promise!Spec, Promise!fileVars

\* ... so with one client that writes, or any number that discard nothing, each request
\* takes effect at once or not at all: versions are published whole, in order, and with
\* the escrow among their holders, and withdrawals and deletions leave their records.
THEOREM FileIsVersionedFile ==
  ASSUME OneWriter \/ NoDiscard, OneFraming PROVE Spec => ImplementsVersionedFile
  BY ClientsUndisturbed, VersionedWhileUndisturbed, PTL
==============================================================================
