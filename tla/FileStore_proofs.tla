-------------------------- MODULE FileStore_proofs --------------------------
(***************************************************************************)
(* What holds of a file on the server for every set of users, framings and *)
(* requests, every number of versions and every choice of events.          *)
(***************************************************************************)
EXTENDS FileStore, FiniteSetTheorems, TLAPS

----------------------------------------------------------------------------
(* Type correctness *)

\* The shapes of the suspended operations, by program point.
LEMMA OperationShapes ==
  ASSUME NEW o \in Operation
  PROVE  /\ o.pc \in {"putStreams", "putBlob"} => o \in [pc : {o.pc}, v : Version, slot : Slot]
         /\ o.pc \in {"finStreams", "getOwner", "getStreams"} => o \in [pc : {o.pc}, v : Version]
         /\ o.pc = "finPrior" => o \in [pc : {o.pc}, v : 2..MaxVersion]
         /\ o.pc = "finCount"
              => o \in [pc : {o.pc}, v : Version, framed : SUBSET Slot, todo : SUBSET Stream]
         /\ o.pc \in {"finCheck", "finWrite"}
              => o \in [pc : {o.pc}, v : Version, refs : SUBSET BlobRef]
         /\ o.pc \in {"discardRows", "purge"} => o \in [pc : {o.pc}, refs : SUBSET BlobRef]
         /\ o.pc \in {"addHolds", "addInsert"}
              => o \in [pc : {o.pc}, v : Version, by : User, to : User]
         /\ o.pc \in {"getRow", "getWraps"} => o \in [pc : {o.pc}, v : Version, by : User]
         /\ o.pc = "view" => o \in [pc : {o.pc}, v : Version, framed : SUBSET Slot]
  BY DEF Operation, IdleOp

\* The blob_refs of a framing are blob_refs.
LEMMA RefsAreTyped ==
  ASSUME NEW v \in Version, NEW slots \in SUBSET Slot
  PROVE  /\ StreamsOf(slots) \in SUBSET Stream
         /\ RefsOf(v, slots) \in SUBSET BlobRef
  BY DEF StreamsOf, RefsOf, BlobRef, Slot

\* Moving on to purge blob_refs ...
LEMMA PurgingIsTyped ==
  ASSUME NEW refs \in SUBSET BlobRef
  PROVE  Purging(refs) \in Operation
  BY DEF Purging, Operation

\* ... or to count the streams of a version is a well-typed operation.
LEMMA CountedIsTyped ==
  ASSUME NEW v \in Version, NEW slots \in SUBSET Slot, NEW todo \in SUBSET Stream
  PROVE  Counted(v, slots, todo) \in Operation
<1>1. CASE todo # {}
  <2>1. [pc |-> "finCount", v |-> v, framed |-> slots, todo |-> todo] \in Operation
    BY DEF Operation
  <2> QED
    BY <1>1, <2>1 DEF Counted
<1>2. CASE todo = {} /\ v >= 2
  <2>1. v \in 2..MaxVersion
    BY <1>2 DEF Version
  <2>2. [pc |-> "finPrior", v |-> v] \in Operation
    BY <2>1 DEF Operation
  <2> QED
    BY <1>2, <2>2 DEF Counted
<1>3. CASE todo = {} /\ ~(v >= 2)
  <2>1. [pc |-> "finCheck", v |-> v, refs |-> {}] \in Operation
    BY DEF Operation
  <2> QED
    BY <1>3, <2>1 DEF Counted
<1> QED
  BY <1>1, <1>2, <1>3

\* Moving a request on keeps op well typed.
LEMMA GotoIsTyped ==
  ASSUME TypeOK, NEW t \in Request, NEW o \in Operation, Goto(t, o)
  PROVE  op' \in [Request -> Operation]
  BY DEF TypeOK, Goto

\* ... and so does answering it.
LEMMA AnswerIsTyped ==
  ASSUME TypeOK, NEW t \in Request, NEW ok \in BOOLEAN, Answer(t, ok)
  PROVE  op' \in [Request -> Operation]
<1>1. [pc |-> "done", ok |-> ok] \in Operation
  BY DEF Operation
<1> QED
  BY <1>1, GotoIsTyped DEF Answer

\* The owner's rows stay well typed.
RowsTyped ==
  /\ exists \in BOOLEAN
  /\ current \in 0..MaxVersion
  /\ stage \in [Version -> {"none", "staged", "final"}]
  /\ framed \in [Version -> SUBSET Slot]
  /\ wraps \in [Version -> [Recipient -> User \cup {None}]]
  /\ revoked \subseteq Version \X Recipient
  /\ tombstone \in BOOLEAN

\* An empty database and blob store are well typed ...
LEMMA TypeInit == Init => TypeOK
<1> SUFFICES ASSUME Init PROVE TypeOK
  OBVIOUS
<1>1. IdleOp \in Operation
  BY DEF Operation
<1>2. op \in [Request -> Operation]
  BY <1>1 DEF Init
<1>3. NoWraps \in [Recipient -> User \cup {None}]
  BY DEF NoWraps
<1>4. /\ stage \in [Version -> {"none", "staged", "final"}]
      /\ framed \in [Version -> SUBSET Slot]
      /\ wraps \in [Version -> [Recipient -> User \cup {None}]]
      /\ revoked \subseteq Version \X Recipient
      /\ blobs \subseteq Version \X Slot
  BY <1>3 DEF Init
<1>5. exists \in BOOLEAN /\ tombstone \in BOOLEAN
  BY Zenon DEF Init
<1>6. current \in 0..MaxVersion
  BY FileAssumption, SMT DEF Init
<1> QED
  BY <1>2, <1>4, <1>5, <1>6 DEF TypeOK

\* ... and every query, transaction and blob store call keeps them so.
LEMMA TypeStep ==
  ASSUME TypeOK, Next
  PROVE  TypeOK'
<1>0. /\ RowsTyped /\ blobs \in SUBSET (Version \X Slot)
      /\ op \in [Request -> Operation]
      /\ MaxVersion \in Nat
  BY FileAssumption DEF TypeOK, RowsTyped
<1>w. ASSUME NEW t \in Writer, Write(t)
      PROVE  TypeOK'
  <2>0. t \in Request
    BY <1>w DEF Request
  <2>1. ASSUME NEW v \in Version, NEW slots \in Framings, NEW R \in Audiences,
               Stage(t, v, slots, R)
        PROVE  TypeOK'
    <3>1. op' \in [Request -> Operation] /\ blobs' = blobs
      BY <2>0, <2>1, AnswerIsTyped DEF Stage, others
    <3>2. slots \in SUBSET Slot /\ Owner \in User
      BY FileAssumption
    <3>3. CASE UNCHANGED others
      BY <1>0, <3>1, <3>3 DEF TypeOK, RowsTyped, others, rowVars
    <3>4. CASE /\ exists' = TRUE
               /\ stage' = [stage EXCEPT ![v] = "staged"]
               /\ framed' = [framed EXCEPT ![v] = slots]
               /\ wraps' = [wraps EXCEPT ![v] =
                              [r \in Recipient |-> IF r \in R THEN Owner ELSE None]]
               /\ UNCHANGED <<current, revoked, tombstone, blobs>>
      <4>1. [r \in Recipient |-> IF r \in R THEN Owner ELSE None]
              \in [Recipient -> User \cup {None}]
        BY <3>2
      <4> QED
        BY <1>0, <3>1, <3>2, <3>4, <4>1 DEF TypeOK, RowsTyped
    <3> QED
      BY <2>1, <3>3, <3>4 DEF Stage
  <2>2. ASSUME NEW v \in Version, NEW slot \in Slot, PutBegin(t, v, slot)
        PROVE  TypeOK'
    <3>1. [pc |-> "putStreams", v |-> v, slot |-> slot] \in Operation
      BY DEF Operation
    <3>2. op' \in [Request -> Operation]
      BY <2>0, <2>2, <3>1, GotoIsTyped, AnswerIsTyped DEF PutBegin
    <3> QED
      BY <1>0, <2>2, <3>2 DEF PutBegin, TypeOK, RowsTyped, others, rowVars
  <2>3. ASSUME NEW v \in Version, FinalizeBegin(t, v)
        PROVE  TypeOK'
    <3>1. [pc |-> "finStreams", v |-> v] \in Operation
      BY DEF Operation
    <3>2. op' \in [Request -> Operation]
      BY <2>0, <2>3, <3>1, GotoIsTyped, AnswerIsTyped DEF FinalizeBegin
    <3> QED
      BY <1>0, <2>3, <3>2 DEF FinalizeBegin, TypeOK, RowsTyped, others, rowVars
  <2>4. ASSUME DiscardBegin(t)
        PROVE  TypeOK'
    <3>1. [pc |-> "discardRefs"] \in Operation /\ [pc |-> "deleteFile"] \in Operation
      BY DEF Operation
    <3>2. op' \in [Request -> Operation]
      BY <2>0, <2>4, <3>1, GotoIsTyped, AnswerIsTyped DEF DiscardBegin
    <3> QED
      BY <1>0, <2>4, <3>2 DEF DiscardBegin, TypeOK, RowsTyped, others, rowVars
  <2>5. ASSUME NEW r \in Recipient, DeleteWrap(t, Owner, r)
        PROVE  TypeOK'
    <3>1. op' \in [Request -> Operation]
      BY <2>0, <2>5, AnswerIsTyped DEF DeleteWrap
    <3>2. current \in Version
      BY <1>0, <2>5 DEF DeleteWrap, Version, RowsTyped
    <3> QED
      BY <1>0, <2>5, <3>1, <3>2 DEF DeleteWrap, RecordRevocation, TypeOK, RowsTyped
  <2> QED
    BY <1>w, <2>1, <2>2, <2>3, <2>4, <2>5 DEF Write
<1>a. ASSUME NEW t \in Asker, Ask(t)
      PROVE  TypeOK'
  <2>0. t \in Request
    BY <1>a DEF Request
  <2>c. exists /\ current # 0 => current \in Version
    BY <1>0 DEF RowsTyped, Version
  <2>1. ASSUME NEW by \in User, NEW to \in User, AddWrapBegin(t, by, to)
        PROVE  TypeOK'
    <3>1. current \in Version =>
            [pc |-> "addHolds", v |-> current, by |-> by, to |-> to] \in Operation
      BY DEF Operation
    <3>2. op' \in [Request -> Operation]
      BY <2>0, <2>1, <2>c, <3>1, GotoIsTyped, AnswerIsTyped DEF AddWrapBegin
    <3> QED
      BY <1>0, <2>1, <3>2 DEF AddWrapBegin, TypeOK, RowsTyped, others, rowVars
  <2>2. ASSUME NEW by \in User, NEW r \in Recipient, DeleteWrap(t, by, r)
        PROVE  TypeOK'
    <3>1. op' \in [Request -> Operation]
      BY <2>0, <2>2, AnswerIsTyped DEF DeleteWrap
    <3>2. current \in Version
      BY <2>2, <2>c DEF DeleteWrap
    <3> QED
      BY <1>0, <2>2, <3>1, <3>2 DEF DeleteWrap, RecordRevocation, TypeOK, RowsTyped
  <2>3. ASSUME NEW by \in User, GetLatest(t, by)
        PROVE  TypeOK'
    <3>1. current \in Version => [pc |-> "getRow", v |-> current, by |-> by] \in Operation
      BY DEF Operation
    <3>2. op' \in [Request -> Operation]
      BY <2>0, <2>3, <2>c, <3>1, GotoIsTyped, AnswerIsTyped DEF GetLatest
    <3> QED
      BY <1>0, <2>3, <3>2 DEF GetLatest, TypeOK, RowsTyped, others, rowVars
  <2>4. ASSUME NEW by \in User, NEW v \in Version, GetSpecific(t, by, v)
        PROVE  TypeOK'
    <3>1. [pc |-> "getRow", v |-> v, by |-> by] \in Operation
      BY DEF Operation
    <3>2. op' \in [Request -> Operation]
      BY <2>0, <2>4, <3>1, GotoIsTyped DEF GetSpecific
    <3> QED
      BY <1>0, <2>4, <3>2 DEF GetSpecific, TypeOK, RowsTyped, others, rowVars
  <2> QED
    BY <1>a, <2>1, <2>2, <2>3, <2>4 DEF Ask
<1>p. ASSUME NEW t \in Request, Proceed(t)
      PROVE  TypeOK'
  <2>0. op[t] \in Operation
    BY <1>0
  <2> DEFINE Settled == op' \in [Request -> Operation] => TypeOK'
  <2>s. ASSUME UNCHANGED others PROVE Settled
    BY <1>0, <2>s DEF TypeOK, RowsTyped, others, rowVars
  <2>1. CASE PutStreams(t)
    <3>1. op[t].v \in Version /\ op[t].slot \in Slot
      BY <2>0, <2>1, OperationShapes DEF PutStreams
    <3>2. [pc |-> "putBlob", v |-> op[t].v, slot |-> op[t].slot] \in Operation
      BY <3>1 DEF Operation
    <3> QED
      BY <2>1, <2>s, <3>2, GotoIsTyped, AnswerIsTyped DEF PutStreams
  <2>2. CASE PutBlob(t)
    <3>1. <<op[t].v, op[t].slot>> \in Version \X Slot
      BY <2>0, <2>2, OperationShapes DEF PutBlob
    <3>2. op' \in [Request -> Operation]
      BY <2>2, AnswerIsTyped DEF PutBlob
    <3>3. blobs' \in SUBSET (Version \X Slot)
      BY <1>0, <2>2, <3>1 DEF PutBlob
    <3> QED
      BY <1>0, <2>2, <3>2, <3>3 DEF PutBlob, TypeOK, RowsTyped, rowVars
  <2>3. CASE FinalizeStreams(t)
    <3>1. op[t].v \in Version
      BY <2>0, <2>3, OperationShapes DEF FinalizeStreams
    <3>2. framed[op[t].v] \in SUBSET Slot
      BY <1>0, <3>1 DEF RowsTyped
    <3>3. Counted(op[t].v, framed[op[t].v], StreamsOf(framed[op[t].v])) \in Operation
      BY <3>1, <3>2, RefsAreTyped, CountedIsTyped
    <3> QED
      BY <2>3, <2>s, <3>3, GotoIsTyped DEF FinalizeStreams
  <2>4. CASE FinalizeCount(t)
    <3>1. op[t].v \in Version /\ op[t].framed \in SUBSET Slot /\ op[t].todo \in SUBSET Stream
      BY <2>0, <2>4, OperationShapes DEF FinalizeCount
    <3>2. \A s \in op[t].todo :
            Counted(op[t].v, op[t].framed, op[t].todo \ {s}) \in Operation
      <4> TAKE s \in op[t].todo
      <4>1. op[t].todo \ {s} \in SUBSET Stream
        BY <3>1
      <4> QED
        BY <3>1, <4>1, CountedIsTyped
    <3> QED
      BY <2>4, <2>s, <3>2, GotoIsTyped, AnswerIsTyped DEF FinalizeCount
  <2>5. CASE FinalizePrior(t)
    <3> DEFINE prior == op[t].v - 1
               refs == RefsOf(prior, framed[prior])
    <3>1. op[t].v \in Version /\ prior \in Version
      BY <1>0, <2>0, <2>5, OperationShapes DEF FinalizePrior, Version
    <3>2. refs \in SUBSET BlobRef
      BY <1>0, <3>1, RefsAreTyped DEF RowsTyped
    <3>3. [pc |-> "finCheck", v |-> op[t].v, refs |-> refs] \in Operation
      BY <3>1, <3>2 DEF Operation
    <3> QED
      BY <2>5, <2>s, <3>3, GotoIsTyped DEF FinalizePrior
  <2>6. CASE FinalizeCheck(t)
    <3>1. op[t].v \in Version /\ op[t].refs \in SUBSET BlobRef
      BY <2>0, <2>6, OperationShapes DEF FinalizeCheck
    <3>2. [pc |-> "finWrite", v |-> op[t].v, refs |-> op[t].refs] \in Operation
      BY <3>1 DEF Operation
    <3> QED
      BY <2>6, <2>s, <3>2, GotoIsTyped, AnswerIsTyped DEF FinalizeCheck
  <2>16. CASE FinalizeWrite(t)
    <3>1. op[t].v \in Version /\ op[t].refs \in SUBSET BlobRef
      BY <2>0, <2>16, OperationShapes DEF FinalizeWrite
    <3>2. op' \in [Request -> Operation]
      BY <2>16, <3>1, PurgingIsTyped, GotoIsTyped DEF FinalizeWrite
    <3>3. current' \in 0..MaxVersion
      BY <1>0, <2>16, <3>1 DEF FinalizeWrite, Version
    <3>4. NoWraps \in [Recipient -> User \cup {None}]
      BY DEF NoWraps
    <3>5. /\ stage' \in [Version -> {"none", "staged", "final"}]
          /\ framed' \in [Version -> SUBSET Slot]
          /\ wraps' \in [Version -> [Recipient -> User \cup {None}]]
      BY <1>0, <2>16, <3>4 DEF FinalizeWrite, RowsTyped
    <3> QED
      BY <1>0, <2>16, <3>2, <3>3, <3>5 DEF FinalizeWrite, TypeOK, RowsTyped
  <2>7. CASE Purge(t)
    <3>1. op[t].refs \in SUBSET BlobRef
      BY <2>0, <2>7, OperationShapes DEF Purge
    <3>2. \A ref \in op[t].refs : Purging(op[t].refs \ {ref}) \in Operation
      <4> TAKE ref \in op[t].refs
      <4>1. op[t].refs \ {ref} \in SUBSET BlobRef
        BY <3>1
      <4> QED
        BY <4>1, PurgingIsTyped
    <3>3. op' \in [Request -> Operation] /\ blobs' \subseteq blobs
      BY <2>7, <3>2, GotoIsTyped DEF Purge
    <3> QED
      BY <1>0, <2>7, <3>3 DEF Purge, TypeOK, RowsTyped, rowVars
  <2>8. CASE DiscardRefs(t)
    <3> DEFINE refs == UNION {RefsOf(v, framed[v]) : v \in {w \in Version : stage[w] = "staged"}}
    <3>1. refs \in SUBSET BlobRef
      BY <1>0, RefsAreTyped DEF RowsTyped
    <3>2. [pc |-> "discardRows", refs |-> refs] \in Operation
      BY <3>1 DEF Operation
    <3> QED
      BY <2>8, <2>s, <3>2, GotoIsTyped DEF DiscardRefs
  <2>9. CASE DiscardRows(t)
    <3>1. op[t].refs \in SUBSET BlobRef
      BY <2>0, <2>9, OperationShapes DEF DiscardRows
    <3>2. op' \in [Request -> Operation]
      BY <2>9, <3>1, PurgingIsTyped, GotoIsTyped DEF DiscardRows
    <3>3. NoWraps \in [Recipient -> User \cup {None}]
      BY DEF NoWraps
    <3>4. /\ stage' \in [Version -> {"none", "staged", "final"}]
          /\ framed' \in [Version -> SUBSET Slot]
          /\ wraps' \in [Version -> [Recipient -> User \cup {None}]]
      BY <1>0, <2>9, <3>3 DEF DiscardRows, RowsTyped
    <3> QED
      BY <1>0, <2>9, <3>2, <3>4 DEF DiscardRows, TypeOK, RowsTyped
  <2>10. CASE DeleteFile(t)
    <3> DEFINE refs == UNION {RefsOf(v, framed[v]) : v \in Version}
    <3>1. refs \in SUBSET BlobRef
      BY <1>0, RefsAreTyped DEF RowsTyped
    <3>2. op' \in [Request -> Operation]
      BY <2>10, <3>1, PurgingIsTyped, GotoIsTyped, AnswerIsTyped DEF DeleteFile
    <3>3. NoWraps \in [Recipient -> User \cup {None}]
      BY DEF NoWraps
    <3> QED
      <4>1. CASE UNCHANGED rowVars
        BY <1>0, <2>10, <3>2, <4>1 DEF DeleteFile, TypeOK, RowsTyped, rowVars
      <4>2. CASE /\ exists' = FALSE /\ current' = 0
                 /\ stage' = [v \in Version |-> "none"]
                 /\ framed' = [v \in Version |-> {}]
                 /\ wraps' = [v \in Version |-> NoWraps]
                 /\ tombstone' = TRUE
                 /\ UNCHANGED revoked
        <5>0. exists' \in BOOLEAN /\ tombstone' \in BOOLEAN
          BY <4>2, Zenon
        <5>1. current' \in 0..MaxVersion
          BY <1>0, <4>2, SMT
        <5>2. /\ stage' \in [Version -> {"none", "staged", "final"}]
              /\ framed' \in [Version -> SUBSET Slot]
              /\ wraps' \in [Version -> [Recipient -> User \cup {None}]]
          BY <3>3, <4>2
        <5> QED
          BY <1>0, <2>10, <3>2, <4>2, <5>0, <5>1, <5>2 DEF DeleteFile, TypeOK, RowsTyped
      <4> QED
        BY <2>10, <4>1, <4>2 DEF DeleteFile
  <2>11. CASE AddWrapHolds(t)
    <3>1. op[t].v \in Version /\ op[t].by \in User /\ op[t].to \in User
      BY <2>0, <2>11, OperationShapes DEF AddWrapHolds
    <3>2. [pc |-> "addInsert", v |-> op[t].v, by |-> op[t].by, to |-> op[t].to] \in Operation
      BY <3>1 DEF Operation
    <3> QED
      BY <2>11, <2>s, <3>2, GotoIsTyped, AnswerIsTyped DEF AddWrapHolds
  <2>12. CASE AddWrapInsert(t)
    <3>1. op[t].v \in Version /\ op[t].by \in User /\ op[t].to \in Recipient
      BY <2>0, <2>12, OperationShapes DEF AddWrapInsert, Recipient
    <3>2. op' \in [Request -> Operation]
      BY <2>12, AnswerIsTyped DEF AddWrapInsert
    <3>3. wraps' \in [Version -> [Recipient -> User \cup {None}]]
      <4> DEFINE v == op[t].v
                 to == op[t].to
                 by == op[t].by
      <4>1. wraps[v] \in [Recipient -> User \cup {None}]
        BY <1>0, <3>1 DEF RowsTyped
      <4>2. [wraps[v] EXCEPT ![to] = by] \in [Recipient -> User \cup {None}]
        BY <3>1, <4>1
      <4>3. \/ wraps' = [wraps EXCEPT ![v] = [wraps[v] EXCEPT ![to] = by]]
            \/ UNCHANGED wraps
        BY <2>12 DEF AddWrapInsert
      <4> QED
        BY <1>0, <3>1, <4>2, <4>3 DEF RowsTyped
    <3> QED
      BY <1>0, <2>12, <3>2, <3>3 DEF AddWrapInsert, TypeOK, RowsTyped
  <2>13. CASE GetRow(t)
    <3>1. op[t].v \in Version /\ op[t].by \in User
      BY <2>0, <2>13, OperationShapes DEF GetRow
    <3>2. [pc |-> "getWraps", v |-> op[t].v, by |-> op[t].by] \in Operation
      BY <3>1 DEF Operation
    <3> QED
      BY <2>13, <2>s, <3>2, GotoIsTyped, AnswerIsTyped DEF GetRow
  <2>14. CASE GetWraps(t)
    <3>1. op[t].v \in Version
      BY <2>0, <2>14, OperationShapes DEF GetWraps
    <3>2. [pc |-> "getOwner", v |-> op[t].v] \in Operation
      BY <3>1 DEF Operation
    <3> QED
      BY <2>14, <2>s, <3>2, GotoIsTyped, AnswerIsTyped DEF GetWraps
  <2>17. CASE GetOwner(t)
    <3>1. op[t].v \in Version
      BY <2>0, <2>17, OperationShapes DEF GetOwner
    <3>2. [pc |-> "getStreams", v |-> op[t].v] \in Operation
      BY <3>1 DEF Operation
    <3> QED
      BY <2>17, <2>s, <3>2, GotoIsTyped, AnswerIsTyped DEF GetOwner
  <2>15. CASE GetStreams(t)
    <3>1. op[t].v \in Version
      BY <2>0, <2>15, OperationShapes DEF GetStreams
    <3>2. [pc |-> "view", v |-> op[t].v, framed |-> framed[op[t].v]] \in Operation
      BY <1>0, <3>1 DEF Operation, RowsTyped
    <3> QED
      BY <2>15, <2>s, <3>2, GotoIsTyped, AnswerIsTyped DEF GetStreams
  <2> QED
    BY <1>p, <2>1, <2>2, <2>3, <2>4, <2>5, <2>6, <2>7, <2>8, <2>9, <2>10, <2>11, <2>12, <2>13,
       <2>14, <2>15, <2>16, <2>17 DEF Proceed
<1>r. ASSUME NEW t \in Request, Return(t) \/ Drop(t)
      PROVE  TypeOK'
  <2>1. IdleOp \in Operation
    BY DEF Operation
  <2>2. op' \in [Request -> Operation]
    BY <1>r, <2>1, GotoIsTyped DEF Return, Drop
  <2> QED
    BY <1>0, <1>r, <2>2 DEF Return, Drop, TypeOK, RowsTyped, others, rowVars
<1> QED
  BY <1>w, <1>a, <1>p, <1>r DEF Next

\* Every reachable state is well typed: each handler suspends with the arguments
\* its next query needs.
THEOREM TypeCorrect == Spec => []TypeOK
<1>1. TypeOK /\ [Next]_vars => TypeOK'
  <2> SUFFICES ASSUME TypeOK, [Next]_vars PROVE TypeOK'
    OBVIOUS
  <2>1. CASE Next
    BY <2>1, TypeStep
  <2>2. CASE UNCHANGED vars
    BY <2>2 DEF vars, TypeOK
  <2> QED
    BY <2>1, <2>2
<1> QED
  BY TypeInit, <1>1, PTL DEF Spec

----------------------------------------------------------------------------
(* The lock of the files row *)

\* Where a handler that writes suspends, and where one that discards or deletes does.
WritePcs ==
  {"putStreams", "putBlob", "finStreams", "finCount", "finPrior", "finCheck", "finWrite",
   "discardRefs", "discardRows", "deleteFile", "purge"}

DiscardPcs == {"discardRefs", "discardRows", "deleteFile"}

\* Request t moves on: only a writer's begins to write, a discard begins only where the
\* owner may discard, a deletion only of a file that is published, and only the check of
\* the finalize transaction takes the lock.
Moves(t) ==
  \E o : /\ Goto(t, o)
         /\ o.pc \in WritePcs => t \in Writer \/ op[t].pc \in WritePcs
         /\ o.pc \in DiscardPcs => "delete" \in Events \/ op[t].pc \in DiscardPcs
         /\ o.pc = "finWrite" => FinalizeCheck(t)
         /\ o.pc = "deleteFile" => exists /\ current # 0 /\ UNCHANGED rowVars

\* Moving a request on to any point but the finalize transaction ...
LEMMA MovesTo ==
  ASSUME NEW t, NEW o, Goto(t, o), o.pc \notin {"finWrite", "deleteFile"},
         o.pc \in WritePcs => t \in Writer \/ op[t].pc \in WritePcs,
         o.pc \in DiscardPcs => "delete" \in Events \/ op[t].pc \in DiscardPcs
  PROVE  Moves(t)
  BY DEF Moves

\* ... answering it ...
LEMMA AnswerMoves ==
  ASSUME NEW t, NEW ok, Answer(t, ok)
  PROVE  Moves(t)
  BY DEF Answer, Moves, WritePcs, DiscardPcs

\* ... or having it purge blobs is such a move.
LEMMA PurgingMoves ==
  ASSUME NEW t, NEW refs, Goto(t, Purging(refs)), op[t].pc \in WritePcs
  PROVE  Moves(t)
<1>1. Purging(refs).pc # "finWrite" /\ Purging(refs).pc \notin DiscardPcs
  BY DEF Purging, DiscardPcs
<1> QED
  BY <1>1 DEF Moves, DiscardPcs

\* Every step moves one request so.
LEMMA EveryStepMoves ==
  ASSUME Next
  PROVE  \E t \in Request : Moves(t)
<1>1. ASSUME NEW t \in Writer, Write(t)
      PROVE  Moves(t)
  <2>1. \A v \in Version, slots \in Framings, R \in Audiences : Stage(t, v, slots, R) => Moves(t)
    BY AnswerMoves DEF Stage, DiscardPcs
  <2>2. \A v \in Version, slot \in Slot : PutBegin(t, v, slot) => Moves(t)
    BY AnswerMoves, MovesTo DEF PutBegin, DiscardPcs
  <2>3. \A v \in Version : FinalizeBegin(t, v) => Moves(t)
    BY AnswerMoves, MovesTo DEF FinalizeBegin, DiscardPcs
  <2>4. DiscardBegin(t) => Moves(t)
    <3> SUFFICES ASSUME DiscardBegin(t) PROVE Moves(t)
      OBVIOUS
    <3>1. CASE exists /\ current # 0 /\ Goto(t, [pc |-> "deleteFile"])
      BY <1>1, <3>1 DEF DiscardBegin, Moves, others
    <3> QED
      BY <3>1, AnswerMoves, MovesTo DEF DiscardBegin, DiscardPcs
  <2>5. \A r \in Recipient : DeleteWrap(t, Owner, r) => Moves(t)
    BY AnswerMoves DEF DeleteWrap, DiscardPcs
  <2> QED
    BY <1>1, <2>1, <2>2, <2>3, <2>4, <2>5 DEF Write
<1>2. ASSUME NEW t \in Asker, Ask(t)
      PROVE  Moves(t)
  <2>1. \A by \in User, to \in User : AddWrapBegin(t, by, to) => Moves(t)
    BY AnswerMoves, MovesTo DEF AddWrapBegin, WritePcs, DiscardPcs
  <2>2. \A by \in User, r \in Recipient : DeleteWrap(t, by, r) => Moves(t)
    BY AnswerMoves DEF DeleteWrap, DiscardPcs
  <2>3. \A by \in User : GetLatest(t, by) => Moves(t)
    BY AnswerMoves, MovesTo DEF GetLatest, WritePcs, DiscardPcs
  <2>4. \A by \in User, v \in Version : GetSpecific(t, by, v) => Moves(t)
    BY MovesTo DEF GetSpecific, WritePcs, DiscardPcs
  <2> QED
    BY <1>2, <2>1, <2>2, <2>3, <2>4 DEF Ask
<1>3. ASSUME NEW t \in Request, Proceed(t)
      PROVE  Moves(t)
  <2>1. PutStreams(t) \/ PutBlob(t) => Moves(t)
    BY AnswerMoves, MovesTo DEF PutStreams, PutBlob, WritePcs, DiscardPcs
  <2>2. ASSUME NEW v, NEW slots, NEW todo, Goto(t, Counted(v, slots, todo)), op[t].pc \in WritePcs
        PROVE  Moves(t)
    <3>1. Counted(v, slots, todo).pc # "finWrite" /\ Counted(v, slots, todo).pc \notin DiscardPcs
      BY DEF Counted, DiscardPcs
    <3> QED
      BY <2>2, <3>1 DEF Moves, DiscardPcs
  <2>3. FinalizeStreams(t) \/ FinalizeCount(t) => Moves(t)
    BY <2>2, AnswerMoves DEF FinalizeStreams, FinalizeCount, WritePcs, DiscardPcs
  <2>4. FinalizePrior(t) => Moves(t)
    BY DEF FinalizePrior, Moves, WritePcs, DiscardPcs
  <2>5. FinalizeCheck(t) => Moves(t)
    <3> SUFFICES ASSUME FinalizeCheck(t) PROVE Moves(t)
      OBVIOUS
    <3> DEFINE o == [pc |-> "finWrite", v |-> op[t].v, refs |-> op[t].refs]
    <3>1. Goto(t, o) \/ Answer(t, FALSE)
      BY DEF FinalizeCheck
    <3>2. op[t].pc \in WritePcs
      BY DEF FinalizeCheck, WritePcs
    <3>3. o.pc = "finWrite" /\ o.pc \notin DiscardPcs /\ o.pc # "deleteFile"
      BY DEF DiscardPcs
    <3> HIDE DEF o
    <3>4. CASE Goto(t, o)
      BY <3>2, <3>3, <3>4 DEF Moves
    <3> QED
      BY <3>1, <3>4, AnswerMoves
  <2>6. FinalizeWrite(t) \/ Purge(t) \/ DiscardRows(t) \/ DeleteFile(t) => Moves(t)
    BY PurgingMoves, AnswerMoves DEF FinalizeWrite, Purge, DiscardRows, DeleteFile, WritePcs, DiscardPcs
  <2>7. DiscardRefs(t) => Moves(t)
    BY DEF DiscardRefs, Moves, WritePcs, DiscardPcs
  <2>8. AddWrapHolds(t) \/ AddWrapInsert(t) => Moves(t)
    BY AnswerMoves, MovesTo DEF AddWrapHolds, AddWrapInsert, WritePcs, DiscardPcs
  <2>9. GetRow(t) \/ GetWraps(t) \/ GetOwner(t) \/ GetStreams(t) => Moves(t)
    BY AnswerMoves, MovesTo DEF GetRow, GetWraps, GetOwner, GetStreams, WritePcs, DiscardPcs
  <2> QED
    BY <1>3, <2>1, <2>3, <2>4, <2>5, <2>6, <2>7, <2>8, <2>9 DEF Proceed
<1>4. ASSUME NEW t \in Request, Return(t) \/ Drop(t)
      PROVE  Moves(t)
  BY <1>4 DEF Return, Drop, Moves, IdleOp, WritePcs, DiscardPcs
<1> QED
  BY <1>1, <1>2, <1>3, <1>4 DEF Next, Request

----------------------------------------------------------------------------
(* The rows: which versions are final, and who holds a wrap *)

\* The steps that write a row of the file.
RowStep ==
  \/ \E t \in Request, v \in Version, slots \in Framings, R \in Audiences : Stage(t, v, slots, R)
  \/ \E t \in Request : FinalizeWrite(t) \/ DiscardRows(t) \/ DeleteFile(t) \/ AddWrapInsert(t)
  \/ \E t \in Request, by \in User, r \in Recipient : DeleteWrap(t, by, r)

\* Every other step leaves the rows alone.
LEMMA RowSteps ==
  ASSUME Next
  PROVE  RowStep \/ UNCHANGED rowVars
<1>1. ASSUME NEW t \in Writer, Write(t)
      PROVE  RowStep \/ UNCHANGED rowVars
  <2>1. t \in Request /\ Owner \in User
    BY FileAssumption DEF Request
  <2> QED
    BY <1>1, <2>1 DEF Write, RowStep, PutBegin, FinalizeBegin, DiscardBegin, others
<1>2. ASSUME NEW t \in Asker, Ask(t)
      PROVE  RowStep \/ UNCHANGED rowVars
  <2>1. t \in Request
    BY DEF Request
  <2> QED
    BY <1>2, <2>1 DEF Ask, RowStep, AddWrapBegin, GetLatest, GetSpecific, others
<1>3. ASSUME NEW t \in Request, Proceed(t)
      PROVE  RowStep \/ UNCHANGED rowVars
  BY <1>3 DEF Proceed, RowStep, PutStreams, PutBlob, FinalizeStreams, FinalizeCount, FinalizePrior,
     FinalizeCheck, Purge, DiscardRefs, AddWrapHolds, GetRow, GetWraps, GetOwner, GetStreams, others
<1>4. ASSUME NEW t \in Request, Return(t) \/ Drop(t)
      PROVE  RowStep \/ UNCHANGED rowVars
  BY <1>4 DEF Return, Drop, others
<1> QED
  BY <1>1, <1>2, <1>3, <1>4 DEF Next

\* A finalize transaction that holds the lock holds it alone, and what it read of
\* the files row is still so.
LockHolds ==
  /\ \A t, u \in Request : op[t].pc = "finWrite" /\ op[u].pc = "finWrite" => t = u
  /\ \A t \in Request : op[t].pc = "finWrite" => exists /\ op[t].v = current + 1

\* Every step keeps the lock of the files row exclusive.
LEMMA LockStep ==
  ASSUME TypeOK, LockHolds, Next
  PROVE  LockHolds'
<1>0. op \in [Request -> Operation]
  BY DEF TypeOK
<1>1. PICK t \in Request : Moves(t)
  BY EveryStepMoves
<1>2. PICK o : /\ Goto(t, o)
               /\ o.pc = "finWrite" => FinalizeCheck(t)
  BY <1>1 DEF Moves
<1>3. op'[t] = o /\ \A u \in Request : u # t => op'[u] = op[u]
  BY <1>0, <1>2 DEF Goto
<1>4. CASE o.pc = "finWrite"
  <2>1. FileUnlocked /\ UNCHANGED <<exists, current>>
    BY <1>2, <1>4 DEF FinalizeCheck, others, rowVars
  <2>2. exists /\ o.v = current + 1
    <3>1. \A a, b : Goto(t, a) /\ Goto(t, b) => a = b
      BY <1>0 DEF Goto
    <3>2. CASE Answer(t, FALSE)
      BY <1>2, <1>4, <3>1, <3>2 DEF Answer
    <3>3. CASE /\ exists /\ NextVersion(op[t].v)
               /\ Goto(t, [pc |-> "finWrite", v |-> op[t].v, refs |-> op[t].refs])
      BY <1>2, <3>1, <3>3 DEF NextVersion
    <3> QED
      BY <1>2, <1>4, <3>2, <3>3 DEF FinalizeCheck
  <2> QED
    BY <1>3, <2>1, <2>2 DEF LockHolds, FileUnlocked
<1>5. CASE o.pc # "finWrite"
  <2>1. \A u \in Request : op'[u].pc = "finWrite" => u # t /\ op[u].pc = "finWrite" /\ op'[u] = op[u]
    BY <1>3, <1>5
  <2>2. (\E u \in Request : op'[u].pc = "finWrite") => exists' /\ current' = current
    <3>1. ASSUME NEW x \in Request, NEW v \in Version, NEW slots \in Framings,
                 NEW R \in Audiences, Stage(x, v, slots, R),
                 \E u \in Request : op'[u].pc = "finWrite"
          PROVE  exists' /\ current' = current
      <4>1. ~FileUnlocked
        BY <2>1, <3>1 DEF FileUnlocked
      <4>2. UNCHANGED <<exists, current>>
        BY <3>1, <4>1 DEF Stage, others, rowVars
      <4> QED
        BY <2>1, <3>1, <4>2 DEF LockHolds
    <3>2. ASSUME NEW x \in Request, FinalizeWrite(x)
          PROVE  \A u \in Request : op'[u].pc # "finWrite"
      <4>1. op' = [op EXCEPT ![x] = Purging(op[x].refs)]
        BY <3>2 DEF FinalizeWrite, Goto
      <4>2. op'[x].pc # "finWrite"
        BY <1>0, <4>1 DEF Purging
      <4>3. op[x].pc = "finWrite"
        BY <3>2 DEF FinalizeWrite
      <4> QED
        BY <2>1, <4>2, <4>3 DEF LockHolds
    <3>3. ASSUME NEW x \in Request, DeleteFile(x)
          PROVE  \A u \in Request : op'[u].pc # "finWrite"
      BY <2>1, <3>3 DEF DeleteFile, FileUnlocked
    <3>4. ASSUME UNCHANGED <<exists, current>>, \E u \in Request : op'[u].pc = "finWrite"
          PROVE  exists' /\ current' = current
      BY <2>1, <3>4 DEF LockHolds
    <3>5. ASSUME NEW x \in Request, DiscardRows(x) \/ AddWrapInsert(x)
          PROVE  UNCHANGED <<exists, current>>
      BY <3>5 DEF DiscardRows, AddWrapInsert
    <3>6. ASSUME NEW x \in Request, NEW by \in User, NEW r \in Recipient, DeleteWrap(x, by, r)
          PROVE  UNCHANGED <<exists, current>>
      BY <3>6 DEF DeleteWrap
    <3>7. ASSUME UNCHANGED rowVars
          PROVE  UNCHANGED <<exists, current>>
      BY <3>7 DEF rowVars
    <3> QED
      BY RowSteps, <3>1, <3>2, <3>3, <3>4, <3>5, <3>6, <3>7 DEF RowStep
  <2> QED
    BY <2>1, <2>2 DEF LockHolds
<1> QED
  BY <1>4, <1>5

\* Two finalize transactions never write at once, and the one that does still has the
\* file and the next version to write, however many clients the owner uses: the lock of
\* the files row is enough for that much.
THEOREM LockIsExclusive == Spec => []LockHolds
<1>1. Init => LockHolds
  BY DEF Init, LockHolds, IdleOp
<1>2. TypeOK /\ LockHolds /\ [Next]_vars => LockHolds'
  <2> SUFFICES ASSUME TypeOK, LockHolds, [Next]_vars PROVE LockHolds'
    OBVIOUS
  <2>1. CASE Next
    BY <2>1, LockStep
  <2>2. CASE UNCHANGED vars
    BY <2>2 DEF vars, LockHolds
  <2> QED
    BY <2>1, <2>2
<1> QED
  BY TypeCorrect, <1>1, <1>2, PTL DEF Spec

----------------------------------------------------------------------------
(* Wraps vanish on record *)

\* Every step that takes a wrap of a finalized version away leaves a trace of it.
LEMMA VanishStep ==
  ASSUME TypeOK, LockHolds, Next
  PROVE  VanishesOnRecord
<1>0. /\ stage \in [Version -> {"none", "staged", "final"}]
      /\ wraps \in [Version -> [Recipient -> User \cup {None}]]
      /\ current \in 0..MaxVersion /\ MaxVersion \in Nat
      /\ op \in [Request -> Operation]
      /\ None \notin User
  BY FileAssumption DEF TypeOK
<1> SUFFICES ASSUME NEW w \in Version, NEW q \in Recipient,
                    stage[w] = "final", wraps[w][q] # None, wraps'[w][q] = None
             PROVE  \/ <<w, q>> \in revoked'
                    \/ w < current'
                    \/ ~exists' /\ tombstone'
  BY DEF VanishesOnRecord
<1>1. wraps' # wraps
  OBVIOUS
<1>2. ASSUME NEW t \in Request, NEW v \in Version, NEW slots \in Framings, NEW R \in Audiences,
             Stage(t, v, slots, R)
      PROVE  FALSE
  <2>1. stage[v] # "final" /\ wraps' = [wraps EXCEPT ![v] = wraps'[v]]
    BY <1>0, <1>1, <1>2 DEF Stage, others, rowVars
  <2> QED
    BY <1>0, <2>1
<1>3. ASSUME NEW t \in Request, FinalizeWrite(t)
      PROVE  w < current'
  <2>1. op[t].v = current + 1
    BY <1>3 DEF FinalizeWrite, LockHolds
  <2>2. /\ current' = op[t].v
        /\ wraps' = [x \in Version |-> IF x = current THEN NoWraps ELSE wraps[x]]
    BY <1>3 DEF FinalizeWrite
  <2>3. w = current
    BY <2>2
  <2> QED
    BY <1>0, <2>1, <2>2, <2>3
<1>4. ASSUME NEW t \in Request, DiscardRows(t)
      PROVE  FALSE
  BY <1>4 DEF DiscardRows
<1>5. ASSUME NEW t \in Request, DeleteFile(t)
      PROVE  ~exists' /\ tombstone'
  BY <1>1, <1>5 DEF DeleteFile, rowVars
<1>6. ASSUME NEW t \in Request, AddWrapInsert(t)
      PROVE  FALSE
  <2>1. op[t].v \in Version /\ op[t].by \in User
    BY <1>0, <1>6, OperationShapes DEF AddWrapInsert
  <2>2. wraps' = [wraps EXCEPT ![op[t].v] = [wraps[op[t].v] EXCEPT ![op[t].to] = op[t].by]]
    BY <1>1, <1>6 DEF AddWrapInsert
  <2> QED
    BY <1>0, <2>1, <2>2
<1>7. ASSUME NEW t \in Request, NEW by \in User, NEW r \in Recipient, DeleteWrap(t, by, r)
      PROVE  <<w, q>> \in revoked'
  <2>1. current \in Version
    BY <1>0, <1>7 DEF DeleteWrap, Version
  <2>2. wraps' = [wraps EXCEPT ![current] = [wraps[current] EXCEPT ![r] = None]]
    BY <1>7 DEF DeleteWrap
  <2>3. w = current /\ q = r
    BY <1>0, <2>1, <2>2
  <2> QED
    BY <1>7, <2>3 DEF DeleteWrap, RecordRevocation
<1>8. ASSUME UNCHANGED rowVars
      PROVE  FALSE
  BY <1>1, <1>8 DEF rowVars
<1> QED
  BY RowSteps, <1>2, <1>3, <1>4, <1>5, <1>6, <1>7, <1>8 DEF RowStep

\* No step makes a wrap of a finalized version vanish without a trace: the restore
\* merge may read an absent wrap with its record as a revocation, and one without as
\* a loss.
THEOREM WrapsLeaveRecords == Spec => WrapsVanishOnRecord
<1>1. TypeOK /\ LockHolds /\ [Next]_vars => [VanishesOnRecord]_vars
  BY VanishStep
<1> QED
  BY TypeCorrect, LockIsExclusive, <1>1, PTL DEF Spec, WrapsVanishOnRecord
=============================================================================
