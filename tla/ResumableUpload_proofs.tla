----------------------- MODULE ResumableUpload_proofs -----------------------
(***************************************************************************)
(* What holds of an upload carried over lost connections and restarts, for *)
(* every framing, every number of connections, of faults and of discards.  *)
(* The client's steps are steps of the server's FileStore or leave it      *)
(* alone, so what is proved of FileStore holds here; a checkpoint is never *)
(* ahead of the server until something discards the upload; and if nothing *)
(* may, what is finalized is whole, and one versioned file to its users,   *)
(* however many handlers of lost connections are still running.            *)
(***************************************************************************)
EXTENDS ResumableUpload, FileStoreWhole_proofs

----------------------------------------------------------------------------
(* The client's own state *)

Attempts ==
  [pc: {"idle", "stage", "small", "content", "finalize"},
   todo: SUBSET Small, n: 0..Chunks, ofJob: BOOLEAN]

LocalTyped ==
  /\ record \in 0..Chunks \cup {Gone} /\ job \in 0..Chunks \cup {Gone}
  /\ media \in BOOLEAN /\ prompt \in BOOLEAN

CountsTyped ==
  /\ orphan \in 0..MaxDiscards
  /\ faults \in 0..MaxFaults
  /\ discards \in 0..MaxDiscards

\* Every call that discards the upload is counted.
OrphanCounted == orphan <= discards

AppTyped == app \in Attempts /\ conn \in Writer \cup {None}

\* While small chunks are sent there is one to send, a content chunk that is sent is one
\* of the upload's, and only an attempt awaits an answer.
AppShape ==
  /\ app.pc = "small" => app.todo # {}
  /\ app.pc = "content" => app.n < Chunks
  /\ app.pc \in {"stage", "small"} => app.n = 0
  /\ app.pc = "idle" => conn = None

ClientInv == LocalTyped /\ CountsTyped /\ OrphanCounted /\ AppTyped /\ AppShape

\* An app that is idle, and one that goes on from a chunk.
LEMMA StillIsClient ==
  Still \in Attempts /\ Still.pc = "idle" /\ Still.n = 0
  BY UploadAssumption DEF Still, Attempts

LEMMA SendFromIsClient ==
  ASSUME NEW n \in 0..Chunks, NEW j \in BOOLEAN
  PROVE  /\ SendFrom(n, j) \in Attempts
         /\ SendFrom(n, j).n = n
         /\ SendFrom(n, j).pc \in {"content", "finalize"}
         /\ SendFrom(n, j).pc = "content" => n < Chunks
  BY UploadAssumption DEF SendFrom, Attempts

\* A fault is counted within its bound.
LEMMA FaultIsBounded ==
  ASSUME CountsTyped, Fault
  PROVE  faults' \in 0..MaxFaults
  BY UploadAssumption DEF CountsTyped, Fault

\* What is removed is gone, or was there.
LEMMA RemovedIsTyped ==
  ASSUME LocalTyped, CountsTyped, RemoveStaging
  PROVE  /\ record' \in {record, Gone} /\ media' \in BOOLEAN
         /\ faults' \in 0..MaxFaults
  BY FaultIsBounded DEF LocalTyped, CountsTyped, RemoveStaging

\* An attempt begins where it may go on.
LEMMA BeginIsClient ==
  ASSUME NEW n \in 0..Chunks, NEW j \in BOOLEAN, Begin(n, j)
  PROVE  /\ app' \in Attempts /\ app'.pc \in {"stage", "content", "finalize"} /\ app'.n = n
         /\ app'.pc = "content" => n < Chunks
         /\ app'.pc = "stage" <=> n = 0
<1>1. CASE n = 0
  <2>1. app' = [pc |-> "stage", todo |-> {}, n |-> 0, ofJob |-> j]
    BY <1>1 DEF Begin, Still
  <2> QED
    BY <1>1, <2>1, UploadAssumption DEF Attempts
<1>2. CASE n # 0
  BY <1>2, SendFromIsClient DEF Begin
<1> QED
  BY <1>1, <1>2

\* An attempt that fails leaves the job its progress, or as it was.
LEMMA FailIsClient ==
  ASSUME LocalTyped, AppTyped, Fail
  PROVE  /\ app' = Still
         /\ job' \in {job, app.n} /\ job' \in 0..Chunks \cup {Gone}
  BY DEF LocalTyped, AppTyped, Attempts, Fail

\* The small chunks that are left are sent, then the content from its first chunk, unless
\* the attempt fails for want of the media file.
LEMMA SendSmallIsClient ==
  ASSUME LocalTyped, AppTyped, app.n = 0, NEW todo \in SUBSET Small, SendSmall(todo)
  PROVE  /\ app' \in Attempts /\ app'.n = 0 /\ job' \in {job, 0}
         /\ \/ todo # {} /\ app'.pc = "small" /\ app'.todo = todo
            \/ todo = {} /\ app' = SendFrom(0, app.ofJob)
            \/ app' = Still
<1>0. 0 \in 0..Chunks /\ app.ofJob \in BOOLEAN
  BY UploadAssumption DEF AppTyped, Attempts
<1>1. CASE todo # {} /\ app' = [app EXCEPT !.pc = "small", !.todo = todo] /\ UNCHANGED job
  BY <1>1 DEF AppTyped, Attempts
<1>2. CASE todo = {} /\ app' = SendFrom(0, app.ofJob) /\ UNCHANGED job
  BY <1>0, <1>2, SendFromIsClient
<1>3. CASE Fail
  BY <1>3, FailIsClient, StillIsClient
<1> QED
  BY <1>1, <1>2, <1>3 DEF SendSmall

\* An answer that is heard leaves the client nothing to wait for.
Answering == StageAnswered \/ SmallAnswered \/ ContentAnswered \/ FinalizeAnswered \/ Refused

LEMMA AnsweringHears ==
  ASSUME Answering
  PROVE  /\ conn # None /\ op[conn].pc = "done" /\ Return(conn) /\ conn' = None
         /\ UNCHANGED <<orphan, discards>>
         /\ app.pc # "finalize" \/ Refused => UNCHANGED <<media, prompt>>
  BY DEF Answering, StageAnswered, SmallAnswered, ContentAnswered, FinalizeAnswered, Refused, Hears

\* Every step of the client, and of the server, keeps the client's state in shape.
LEMMA ClientStep ==
  ASSUME ClientInv, UploadNext
  PROVE  ClientInv'
<1>0. /\ Chunks \in Nat \ {0} /\ MaxDiscards \in Nat
      /\ LocalTyped /\ CountsTyped /\ OrphanCounted /\ AppTyped /\ AppShape
  BY UploadAssumption DEF ClientInv
<1>1. CASE ResumeRecord
  <2>1. /\ record \in 0..Chunks /\ Begin(record, FALSE)
        /\ UNCHANGED <<record, media, job, prompt, conn, orphan, faults, discards>>
    BY <1>0, <1>1 DEF ResumeRecord, localVars, LocalTyped
  <2>2. /\ app' \in Attempts /\ app'.pc \in {"stage", "content", "finalize"}
        /\ app'.pc = "content" => app'.n < Chunks
        /\ app'.pc = "stage" => app'.n = 0
    <3>1. PICK j \in BOOLEAN : Begin(record, j)
      BY <2>1, Zenon
    <3> QED
      BY <2>1, <3>1, BeginIsClient
  <2> QED
    <3>1. LocalTyped' /\ CountsTyped' /\ OrphanCounted'
      BY <1>0, <2>1 DEF LocalTyped, CountsTyped, OrphanCounted
    <3>2. AppTyped' /\ AppShape'
      BY <1>0, <2>1, <2>2 DEF AppTyped, AppShape
    <3> QED
      BY <3>1, <3>2 DEF ClientInv
<1>2. CASE ConfirmJob
  <2>1. /\ job \in 0..Chunks /\ Begin(job, TRUE) /\ job' = Gone
        /\ UNCHANGED <<record, media, prompt, conn, orphan, faults, discards>>
    BY <1>0, <1>2 DEF ConfirmJob, LocalTyped
  <2>2. /\ app' \in Attempts /\ app'.pc \in {"stage", "content", "finalize"}
        /\ app'.pc = "content" => app'.n < Chunks
        /\ app'.pc = "stage" => app'.n = 0
    <3>1. PICK j \in BOOLEAN : Begin(job, j)
      BY <2>1, Zenon
    <3> QED
      BY <2>1, <3>1, BeginIsClient
  <2> QED
    <3>1. LocalTyped' /\ CountsTyped' /\ OrphanCounted'
      BY <1>0, <2>1 DEF LocalTyped, CountsTyped, OrphanCounted
    <3>2. AppTyped' /\ AppShape'
      BY <1>0, <2>1, <2>2 DEF AppTyped, AppShape
    <3> QED
      BY <3>1, <3>2 DEF ClientInv
<1>3. ASSUME NEW t \in Writer, Send(t)
      PROVE  ClientInv'
  <2>1. app.pc # "idle" /\ conn' = t
        /\ UNCHANGED <<record, media, job, prompt, app, orphan, faults, discards>>
    BY <1>3 DEF Send, localVars
  <2> QED
    BY <1>0, <2>1 DEF LocalTyped, CountsTyped, OrphanCounted, AppTyped, AppShape, ClientInv
<1>4. CASE StageAnswered \/ SmallAnswered
  <2>1. /\ app.n = 0 /\ conn' = None
        /\ UNCHANGED <<record, media, prompt, orphan, faults, discards>>
    BY <1>0, <1>4 DEF StageAnswered, SmallAnswered, Hears, AppShape
  <2>2. PICK todo \in SUBSET Small : SendSmall(todo)
    BY <1>0, <1>4 DEF StageAnswered, SmallAnswered, AppTyped, Attempts
  <2>3. 0 \in 0..Chunks /\ app.ofJob \in BOOLEAN
    BY <1>0 DEF AppTyped, Attempts
  <2> QED
    BY <1>0, <2>1, <2>2, <2>3, SendSmallIsClient, SendFromIsClient, StillIsClient
    DEF LocalTyped, CountsTyped, OrphanCounted, AppTyped, AppShape, ClientInv
<1>5. CASE ContentAnswered
  <2>1. /\ app' = SendFrom(app.n + 1, app.ofJob) /\ conn' = None
        /\ (record' = app.n + 1 /\ UNCHANGED faults) \/ (UNCHANGED record /\ Fault)
        /\ UNCHANGED <<media, job, prompt, orphan, discards>>
    BY <1>5 DEF ContentAnswered, Hears, Checkpoint
  <2>2. app.n + 1 \in 0..Chunks /\ app.ofJob \in BOOLEAN
    BY <1>0, <1>5 DEF AppTyped, Attempts, AppShape, ContentAnswered
  <2> QED
    BY <1>0, <2>1, <2>2, SendFromIsClient, FaultIsBounded
    DEF LocalTyped, CountsTyped, OrphanCounted, AppTyped, AppShape, ClientInv
<1>6. CASE FinalizeAnswered
  <2>1. /\ app' = Still /\ conn' = None /\ RemoveStaging /\ prompt' \in BOOLEAN
        /\ UNCHANGED <<job, orphan, discards>>
    BY <1>0, <1>6 DEF FinalizeAnswered, Hears, LocalTyped, AppTyped, Attempts
  <2> QED
    BY <1>0, <2>1, StillIsClient, RemovedIsTyped
    DEF LocalTyped, CountsTyped, OrphanCounted, AppTyped, AppShape, ClientInv
<1>7. CASE Refused \/ Break
  <2>1. /\ conn' = None /\ UNCHANGED <<record, media, prompt, orphan, discards>>
        /\ UNCHANGED faults \/ Fault
        /\ Fail \/ UNCHANGED <<app, job>>
    BY <1>7 DEF Refused, Hears, Break
  <2> QED
    BY <1>0, <2>1, FailIsClient, StillIsClient, FaultIsBounded
    DEF LocalTyped, CountsTyped, OrphanCounted, AppTyped, AppShape, ClientInv
<1>8. CASE Crash
  <2>1. /\ app' = Still /\ conn' = None /\ orphan' = 0 /\ job' = Gone /\ prompt' = FALSE
        /\ UNCHANGED <<record, media, discards>> /\ Fault
    BY <1>8 DEF Crash
  <2>p. prompt' \in BOOLEAN
    BY <2>1, Zenon
  <2>2. LocalTyped' /\ CountsTyped' /\ OrphanCounted'
    BY <1>0, <2>1, <2>p, FaultIsBounded DEF LocalTyped, CountsTyped, OrphanCounted
  <2>3. AppTyped' /\ AppShape'
    BY <2>1, StillIsClient DEF AppTyped, AppShape
  <2> QED
    BY <2>2, <2>3 DEF ClientInv
<1>9. CASE ShowPrompt
  BY <1>0, <1>9
  DEF ShowPrompt, LocalTyped, CountsTyped, OrphanCounted, AppTyped, AppShape, ClientInv
<1>10. CASE Sweep \/ Dismiss \/ Cancel
  <2>1. /\ Discard /\ UNCHANGED <<app, conn>>
        /\ prompt' \in {prompt, FALSE} /\ job' \in {job, Gone}
    BY <1>10 DEF Sweep, Dismiss, Cancel, Discard
  <2>2. orphan' \in 0..MaxDiscards /\ discards' \in 0..MaxDiscards /\ orphan' <= discards'
    BY <1>0, <2>1 DEF Discard, CountsTyped, OrphanCounted
  <2>3. RemoveStaging
    BY <2>1 DEF Discard
  <2> QED
    BY <1>0, <2>1, <2>2, <2>3, RemovedIsTyped
    DEF LocalTyped, CountsTyped, OrphanCounted, AppTyped, AppShape, ClientInv
<1>11. CASE LoseDelete \/ \E t \in Writer : SendDelete(t)
  <2>1. /\ orphan > 0 /\ orphan' = orphan - 1
        /\ UNCHANGED faults \/ Fault
        /\ UNCHANGED <<record, media, job, prompt, app, conn, discards>>
    BY <1>11 DEF LoseDelete, SendDelete, localVars
  <2> QED
    <3>1. LocalTyped' /\ CountsTyped' /\ OrphanCounted'
      BY <1>0, <2>1, FaultIsBounded DEF LocalTyped, CountsTyped, OrphanCounted
    <3>2. AppTyped' /\ AppShape'
      BY <1>0, <2>1 DEF AppTyped, AppShape
    <3> QED
      BY <3>1, <3>2 DEF ClientInv
<1>12. ASSUME NEW t \in Writer, Serve(t)
       PROVE  ClientInv'
  BY <1>0, <1>12
  DEF Serve, clientVars, localVars, LocalTyped, CountsTyped, OrphanCounted, AppTyped, AppShape,
      ClientInv
<1> QED
  BY <1>1, <1>2, <1>3, <1>4, <1>5, <1>6, <1>7, <1>8, <1>9, <1>10, <1>11, <1>12
  DEF UploadNext, Upload, Discarding

\* The client's state stays in shape.
LEMMA ClientInvHolds == UploadSpec => []ClientInv
<1>1. UploadInit => ClientInv
  <2> SUFFICES ASSUME UploadInit PROVE ClientInv
    OBVIOUS
  <2>1. media \in BOOLEAN /\ prompt \in BOOLEAN
    BY Zenon DEF UploadInit
  <2>2. LocalTyped /\ CountsTyped /\ OrphanCounted
    BY <2>1, UploadAssumption DEF UploadInit, LocalTyped, CountsTyped, OrphanCounted
  <2>3. AppTyped /\ AppShape
    BY StillIsClient DEF UploadInit, AppTyped, AppShape
  <2> QED
    BY <2>2, <2>3 DEF ClientInv
<1>2. ClientInv /\ [UploadNext]_uploadVars => ClientInv'
  <2> SUFFICES ASSUME ClientInv, [UploadNext]_uploadVars PROVE ClientInv'
    OBVIOUS
  <2>1. CASE UploadNext
    BY <2>1, ClientStep
  <2>2. CASE UNCHANGED uploadVars
    BY <2>2 DEF uploadVars, clientVars, localVars, ClientInv, LocalTyped, CountsTyped,
       OrphanCounted, AppTyped, AppShape
  <2> QED
    BY <2>1, <2>2
<1> QED
  BY <1>1, <1>2, PTL DEF UploadSpec

----------------------------------------------------------------------------
(* The upload implements the server's specification *)

\* The chunks of the upload are chunks of the file.
LEMMA UploadSlots ==
  /\ 1 \in Version /\ Whole \in Framings /\ Whole \subseteq Slot
  /\ Small \subseteq Whole
  /\ \A i \in 0..(Chunks - 1) : ContentSlot(i) \in Whole
  BY UploadAssumption, FileAssumption DEF Whole

\* The next small chunk is one of those left to send.
LEMMA NextSmallIsLeft ==
  ASSUME ClientInv, app.pc = "small"
  PROVE  NextSmall \in app.todo /\ NextSmall \in Small
  BY DEF ClientInv, AppTyped, Attempts, AppShape, NextSmall

\* Every step of the upload is a step of the server or leaves it alone.
LEMMA StepImplements ==
  ASSUME ClientInv, UploadNext
  PROVE  Next \/ UNCHANGED vars
<1>0. \A t \in Writer : t \in Request
  BY DEF Request
<1>1. ASSUME NEW t \in Writer, Send(t)
      PROVE  Write(t)
  <2>1. CASE app.pc = "stage" /\ Stage(t, 1, Whole, {Owner, Recovery})
    BY <2>1, UploadSlots, UploadAssumption DEF Write
  <2>2. CASE app.pc = "small" /\ PutBegin(t, 1, NextSmall)
    BY <2>2, UploadSlots, NextSmallIsLeft DEF Write
  <2>3. CASE app.pc = "content" /\ PutBegin(t, 1, ContentSlot(app.n))
    <3>1. app.n \in 0..(Chunks - 1)
      BY <2>3, UploadAssumption DEF ClientInv, AppTyped, Attempts, AppShape
    <3> QED
      BY <2>3, <3>1, UploadSlots DEF Write
  <2>4. CASE app.pc = "finalize" /\ FinalizeBegin(t, 1)
    BY <2>4, UploadSlots DEF Write
  <2> QED
    BY <1>1, <2>1, <2>2, <2>3, <2>4 DEF Send
<1>2. CASE Answering
  <2>1. conn # None /\ Return(conn)
    BY <1>2, AnsweringHears
  <2>2. conn \in Request
    BY <1>0, <2>1 DEF ClientInv, AppTyped
  <2> QED
    BY <2>1, <2>2 DEF Next
<1>3. CASE ResumeRecord \/ ConfirmJob \/ Break \/ Crash \/ ShowPrompt \/ Sweep \/ Dismiss \/ Cancel
           \/ LoseDelete
  BY <1>3 DEF ResumeRecord, ConfirmJob, Break, Crash, ShowPrompt, Sweep, Dismiss, Cancel, Discard,
     LoseDelete
<1>4. ASSUME NEW t \in Writer, SendDelete(t)
      PROVE  Write(t)
  BY <1>4 DEF SendDelete, Write
<1>5. ASSUME NEW t \in Writer, Serve(t)
      PROVE  Proceed(t) \/ Return(t) \/ Drop(t)
  BY <1>5 DEF Serve
<1> QED
  BY <1>0, <1>1, <1>2, <1>3, <1>4, <1>5 DEF UploadNext, Upload, Discarding, Answering, Next

\* Whatever connections are lost and however often the app restarts, what the server
\* sees of an upload is what FileStore allows its clients.
THEOREM UploadImplementsFile == UploadSpec => Spec
<1>1. UploadInit => Init
  BY DEF UploadInit
<1>2. ClientInv /\ [UploadNext]_uploadVars => [Next]_vars
  BY StepImplements DEF uploadVars
<1> QED
  BY ClientInvHolds, <1>1, <1>2, PTL DEF UploadSpec, Spec

\* The upload and the server are well typed in every state.
THEOREM UploadTypeCorrect == UploadSpec => []UploadTypeOK
<1>1. TypeOK /\ ClientInv => UploadTypeOK
  BY DEF ClientInv, LocalTyped, CountsTyped, AppTyped, Attempts, UploadTypeOK
<1> QED
  BY UploadImplementsFile, TypeCorrect, ClientInvHolds, <1>1, PTL
----------------------------------------------------------------------------
(* What runs on the server *)

DestroyPcs == {"discardRefs", "discardRows", "deleteFile", "purge"}

\* A handler of the upload is about version 1, which supersedes nothing, and what is
\* there is destroyed only once the upload has been discarded (d, how often).
OpOfUpload(o, d) ==
  /\ o.pc \in {"putStreams", "putBlob"} => o.v = 1 /\ o.slot \in Whole
  /\ o.pc \in {"finStreams", "finCount"} => o.v = 1
  /\ o.pc # "finPrior"
  /\ o.pc \in {"finCheck", "finWrite"} => o.v = 1 /\ o.refs = {}
  /\ o.pc \in DestroyPcs => d # 0 /\ "delete" \in Events

OpsOfUpload == \A t \in Request : OpOfUpload(op[t], discards)

\* Moving a request on keeps OpsOfUpload if it moves to a handler of the upload.
LEMMA OpMoves ==
  ASSUME TypeOK, OpsOfUpload, discards # 0 => discards' # 0,
         NEW t \in Request, NEW o, Goto(t, o), OpOfUpload(o, discards')
  PROVE  OpsOfUpload'
<1>1. /\ op'[t] = o
      /\ \A u \in Request : u # t => op'[u] = op[u]
  BY DEF Goto, TypeOK
<1> QED
  BY <1>1 DEF OpsOfUpload, OpOfUpload

\* A request that is answered, dropped or has nothing to purge is done.
LEMMA OpEnds ==
  ASSUME NEW d, NEW ok
  PROVE  /\ OpOfUpload([pc |-> "done", ok |-> ok], d)
         /\ OpOfUpload(IdleOp, d)
         /\ OpOfUpload(Purging({}), d)
         /\ \A refs : d # 0 /\ "delete" \in Events => OpOfUpload(Purging(refs), d)
  BY DEF OpOfUpload, IdleOp, Purging, DestroyPcs

\* How a handler of the upload carries on.
LEMMA OpProceeds ==
  ASSUME TypeOK, OpsOfUpload, discards' = discards, NEW t \in Request, Proceed(t)
  PROVE  OpsOfUpload'
<1>0. OpOfUpload(op[t], discards)
  BY DEF OpsOfUpload
<1>a. ASSUME NEW ok, Answer(t, ok)
      PROVE  OpsOfUpload'
  BY <1>0, <1>a, OpEnds, OpMoves DEF Answer
<1>g. ASSUME NEW o, Goto(t, o), OpOfUpload(o, discards)
      PROVE  OpsOfUpload'
  <2>1. OpOfUpload(o, discards')
    BY <1>g
  <2> QED
    BY <1>0, <1>g, <2>1, OpMoves
<1>1. CASE PutStreams(t)
  <2>1. OpOfUpload([pc |-> "putBlob", v |-> op[t].v, slot |-> op[t].slot], discards)
    BY <1>0, <1>1 DEF PutStreams, OpOfUpload, DestroyPcs
  <2> QED
    BY <1>1, <1>a, <1>g, <2>1 DEF PutStreams
<1>2. CASE PutBlob(t)
  BY <1>2, <1>a DEF PutBlob
<1>3. CASE FinalizeStreams(t) \/ FinalizeCount(t)
  <2>1. op[t].v = 1
    BY <1>0, <1>3 DEF FinalizeStreams, FinalizeCount, OpOfUpload
  <2>2. \A slots, todo : OpOfUpload(Counted(op[t].v, slots, todo), discards)
    BY <2>1 DEF Counted, OpOfUpload, DestroyPcs
  <2> QED
    BY <1>3, <1>a, <1>g, <2>2 DEF FinalizeStreams, FinalizeCount
<1>4. CASE FinalizePrior(t)
  BY <1>0, <1>4 DEF FinalizePrior, OpOfUpload
<1>5. CASE FinalizeCheck(t)
  <2>1. OpOfUpload([pc |-> "finWrite", v |-> op[t].v, refs |-> op[t].refs], discards)
    BY <1>0, <1>5 DEF FinalizeCheck, OpOfUpload, DestroyPcs
  <2> QED
    BY <1>5, <1>a, <1>g, <2>1 DEF FinalizeCheck
<1>6. CASE FinalizeWrite(t)
  <2>1. op[t].refs = {}
    BY <1>0, <1>6 DEF FinalizeWrite, OpOfUpload
  <2>2. Goto(t, Purging({}))
    BY <1>6, <2>1 DEF FinalizeWrite
  <2> QED
    BY <1>g, <2>2, OpEnds
<1>7. CASE Purge(t) \/ DiscardRefs(t) \/ DiscardRows(t) \/ DeleteFile(t)
  <2>1. discards # 0 /\ "delete" \in Events
    BY <1>0, <1>7 DEF Purge, DiscardRefs, DiscardRows, DeleteFile, OpOfUpload, DestroyPcs
  <2>2. \A refs : OpOfUpload(Purging(refs), discards)
    BY <2>1, OpEnds
  <2>3. \A refs : OpOfUpload([pc |-> "discardRows", refs |-> refs], discards)
    BY <2>1 DEF OpOfUpload
  <2>4. \/ \E refs : Goto(t, Purging(refs)) \/ Goto(t, [pc |-> "discardRows", refs |-> refs])
        \/ Answer(t, FALSE)
    BY <1>7 DEF Purge, DiscardRefs, DiscardRows, DeleteFile
  <2> QED
    BY <1>a, <1>g, <2>2, <2>3, <2>4
<1>8. CASE AddWrapHolds(t) \/ AddWrapInsert(t)
  <2>1. OpOfUpload([pc |-> "addInsert", v |-> op[t].v, by |-> op[t].by, to |-> op[t].to], discards)
    BY DEF OpOfUpload, DestroyPcs
  <2> QED
    BY <1>8, <1>a, <1>g, <2>1 DEF AddWrapHolds, AddWrapInsert
<1>9. CASE GetRow(t) \/ GetWraps(t) \/ GetOwner(t) \/ GetStreams(t)
  <2>1. /\ OpOfUpload([pc |-> "getWraps", v |-> op[t].v, by |-> op[t].by], discards)
        /\ OpOfUpload([pc |-> "getOwner", v |-> op[t].v], discards)
        /\ OpOfUpload([pc |-> "getStreams", v |-> op[t].v], discards)
        /\ OpOfUpload([pc |-> "view", v |-> op[t].v, framed |-> framed[op[t].v]], discards)
    BY DEF OpOfUpload, DestroyPcs
  <2> QED
    BY <1>9, <1>a, <1>g, <2>1 DEF GetRow, GetWraps, GetOwner, GetStreams
<1> QED
  BY <1>1, <1>2, <1>3, <1>4, <1>5, <1>6, <1>7, <1>8, <1>9 DEF Proceed

\* Discards are only counted up.
LEMMA DiscardsGrow ==
  ASSUME ClientInv, UploadNext
  PROVE  discards' = discards \/ discards' # 0
<1>1. discards' = discards \/ discards' = discards + 1
  BY DEF UploadNext, Upload, Discarding, ResumeRecord, ConfirmJob, Send, StageAnswered,
     SmallAnswered, ContentAnswered, FinalizeAnswered, Refused, Break, Crash, ShowPrompt, Sweep,
     Dismiss, Cancel, Discard, SendDelete, LoseDelete, Serve, clientVars
<1> QED
  BY <1>1, UploadAssumption DEF ClientInv, CountsTyped

\* Every step keeps what runs on the server the upload's.
LEMMA OpsStep ==
  ASSUME TypeOK, ClientInv, OpsOfUpload, UploadNext
  PROVE  OpsOfUpload'
<1>0. /\ \A t \in Writer : t \in Request
      /\ Chunks \in Nat /\ AppTyped /\ AppShape
      /\ discards # 0 => discards' # 0
  BY UploadAssumption, DiscardsGrow DEF Request, ClientInv
<1>a. ASSUME NEW t \in Request, NEW o, Goto(t, o), OpOfUpload(o, discards), discards' = discards
      PROVE  OpsOfUpload'
  BY <1>a, OpMoves
<1>b. ASSUME UNCHANGED op
      PROVE  OpsOfUpload'
  BY <1>0, <1>b DEF OpsOfUpload, OpOfUpload
<1>1. CASE ResumeRecord \/ ConfirmJob \/ Break \/ Crash \/ ShowPrompt \/ Sweep \/ Dismiss \/ Cancel
           \/ LoseDelete
  BY <1>b, <1>1 DEF ResumeRecord, ConfirmJob, Break, Crash, ShowPrompt, Sweep, Dismiss, Cancel,
     Discard, LoseDelete, vars
<1>2. ASSUME NEW t \in Writer, Send(t)
      PROVE  OpsOfUpload'
  <2>0. discards' = discards
    BY <1>2 DEF Send
  <2>2. ASSUME NEW slot \in Whole, PutBegin(t, 1, slot)
        PROVE  OpsOfUpload'
    <3>1. OpOfUpload([pc |-> "putStreams", v |-> 1, slot |-> slot], discards)
      BY DEF OpOfUpload, DestroyPcs
    <3> QED
      BY <1>0, <1>a, <2>0, <2>2, <3>1, OpEnds DEF PutBegin, Answer
  <2>3. CASE Stage(t, 1, Whole, {Owner, Recovery})
    BY <1>0, <1>a, <2>0, <2>3, OpEnds DEF Stage, Answer
  <2>4. CASE FinalizeBegin(t, 1)
    <3>1. OpOfUpload([pc |-> "finStreams", v |-> 1], discards)
      BY DEF OpOfUpload, DestroyPcs
    <3> QED
      BY <1>0, <1>a, <2>0, <2>4, <3>1, OpEnds DEF FinalizeBegin, Answer
  <2>5. CASE app.pc = "small" /\ PutBegin(t, 1, NextSmall)
    BY <2>2, <2>5, NextSmallIsLeft, UploadSlots
  <2>6. CASE app.pc = "content" /\ PutBegin(t, 1, ContentSlot(app.n))
    <3>1. app.n \in 0..(Chunks - 1)
      BY <1>0, <2>6 DEF AppTyped, Attempts, AppShape
    <3> QED
      BY <2>2, <2>6, <3>1, UploadSlots
  <2> QED
    BY <1>2, <2>3, <2>4, <2>5, <2>6 DEF Send
<1>3. CASE Answering
  <2>1. conn \in Writer /\ Goto(conn, IdleOp) /\ discards' = discards
    BY <1>0, <1>3, AnsweringHears DEF Return, AppTyped
  <2> QED
    BY <1>0, <1>a, <2>1, OpEnds
<1>4. ASSUME NEW t \in Writer, SendDelete(t)
      PROVE  OpsOfUpload'
  <2>1. discards' = discards /\ discards # 0 /\ "delete" \in Events
    BY <1>4, UploadAssumption
    DEF SendDelete, DiscardBegin, ClientInv, CountsTyped, OrphanCounted
  <2>2. /\ OpOfUpload([pc |-> "discardRefs"], discards)
        /\ OpOfUpload([pc |-> "deleteFile"], discards)
    BY <2>1 DEF OpOfUpload
  <2> QED
    BY <1>0, <1>4, <1>a, <2>1, <2>2, OpEnds DEF SendDelete, DiscardBegin, Answer
<1>5. ASSUME NEW t \in Writer, Serve(t)
      PROVE  OpsOfUpload'
  <2>1. discards' = discards
    BY <1>5 DEF Serve, clientVars
  <2>2. CASE Proceed(t)
    BY <1>0, <2>1, <2>2, OpProceeds
  <2>3. CASE Return(t) \/ Drop(t)
    BY <1>0, <1>a, <2>1, <2>3, OpEnds DEF Return, Drop
  <2> QED
    BY <1>5, <2>2, <2>3 DEF Serve
<1> QED
  BY <1>1, <1>2, <1>3, <1>4, <1>5 DEF UploadNext, Upload, Discarding, Answering

\* Until an upload is discarded nothing on the server destroys what it has sent.
LEMMA OpsHoldForUpload == UploadSpec => []OpsOfUpload
<1>1. UploadInit => OpsOfUpload
  BY OpEnds DEF UploadInit, Init, OpsOfUpload
<1>2. TypeOK /\ ClientInv /\ OpsOfUpload /\ [UploadNext]_uploadVars => OpsOfUpload'
  <2> SUFFICES ASSUME TypeOK, ClientInv, OpsOfUpload, [UploadNext]_uploadVars
               PROVE  OpsOfUpload'
    OBVIOUS
  <2>1. CASE UploadNext
    BY <2>1, OpsStep
  <2>2. CASE UNCHANGED uploadVars
    BY <2>2 DEF uploadVars, vars, clientVars, OpsOfUpload, OpOfUpload
  <2> QED
    BY <2>1, <2>2
<1> QED
  BY UploadImplementsFile, TypeCorrect, ClientInvHolds, <1>1, <1>2, PTL DEF UploadSpec

----------------------------------------------------------------------------
(* Checkpoints *)

Staged == exists /\ stage[1] # "none"

\* What a resume from progress n skips is there.
Passed(n) ==
  /\ Staged
  /\ \A slot \in Small \cup {ContentSlot(i) : i \in 0..(n - 1)} : <<1, slot>> \in blobs

\* The handler that is awaited PUTs this chunk, or has answered.
PutAwaited(slot) ==
  /\ op[conn].pc \in {"putStreams", "putBlob", "done"}
  /\ op[conn].pc # "done" => op[conn].slot = slot
  /\ op[conn].pc = "done" => (op[conn].ok => <<1, slot>> \in blobs)

\* CheckpointIsStored, with what the app has got through and what it waits for.
SentInv ==
  /\ \A n \in {record, job} \cap 1..Chunks : Passed(n)
  /\ app.pc = "small" => Staged /\ \A slot \in Small \ app.todo : <<1, slot>> \in blobs
  /\ app.pc \in {"content", "finalize"} => Passed(app.n)
  /\ conn # None =>
       /\ app.pc = "stage" => op[conn].pc = "done" /\ (op[conn].ok => Staged)
       /\ app.pc = "small" => PutAwaited(NextSmall)
       /\ app.pc = "content" => PutAwaited(ContentSlot(app.n))

\* So it is until the upload is discarded.
SentUntilDiscarded == discards = 0 => SentInv

Grows ==
  /\ exists => exists'
  /\ stage[1] # "none" => stage'[1] # "none"
  /\ blobs \subseteq blobs'

\* A handler that destroys nothing only adds to what is there.
LEMMA HandlerGrows ==
  ASSUME TypeOK, NEW t \in Request, op[t].pc \notin DestroyPcs,
         Proceed(t) \/ Return(t) \/ Drop(t)
  PROVE  Grows
<1>0. 1 \in Version /\ stage \in [Version -> {"none", "staged", "final"}]
  BY UploadSlots DEF TypeOK
<1>1. CASE UNCHANGED others
  BY <1>1 DEF others, rowVars, Grows
<1>2. CASE PutBlob(t)
  BY <1>2 DEF PutBlob, rowVars, Grows
<1>3. CASE FinalizeWrite(t)
  BY <1>0, <1>3 DEF FinalizeWrite, Grows
<1>4. CASE AddWrapInsert(t)
  BY <1>4 DEF AddWrapInsert, Grows
<1> QED
  BY <1>1, <1>2, <1>3, <1>4 DEF Proceed, Return, Drop, DestroyPcs, PutStreams, FinalizeStreams,
     FinalizeCount, FinalizePrior, FinalizeCheck, Purge, DiscardRefs, DiscardRows, DeleteFile,
     AddWrapHolds, GetRow, GetWraps, GetOwner, GetStreams

\* Staging the upload only adds to what is there, and it is staged if the answer says so.
LEMMA StageGrows ==
  ASSUME TypeOK, NEW t \in Request, Stage(t, 1, Whole, {Owner, Recovery})
  PROVE  Grows /\ op'[t].pc = "done" /\ (op'[t].ok => Staged')
<1>0. 1 \in Version /\ stage \in [Version -> {"none", "staged", "final"}]
      /\ op \in [Request -> Operation]
  BY UploadSlots DEF TypeOK
<1>1. /\ Answer(t, TRUE) => op'[t].pc = "done"
      /\ Answer(t, FALSE) => op'[t].pc = "done" /\ ~op'[t].ok
  BY <1>0 DEF Answer, Goto
<1>2. CASE Answer(t, TRUE) /\ exists' = TRUE /\ stage' = [stage EXCEPT ![1] = "staged"]
           /\ UNCHANGED blobs
  BY <1>0, <1>1, <1>2 DEF Grows, Staged
<1>3. CASE Answer(t, FALSE) /\ UNCHANGED others
  BY <1>1, <1>3 DEF others, rowVars, Grows
<1> QED
  BY <1>2, <1>3 DEF Stage

\* While nothing is discarded, every step only adds to what is there.
LEMMA UploadGrows ==
  ASSUME TypeOK, ClientInv, UploadNext, \A t \in Request : op[t].pc \notin DestroyPcs
  PROVE  Grows
<1>0. \A t \in Writer : t \in Request /\ op[t].pc \notin DestroyPcs
  BY DEF Request
<1>1. ASSUME NEW t \in Writer, Send(t)
      PROVE  Grows
  <2>1. CASE Stage(t, 1, Whole, {Owner, Recovery})
    BY <1>0, <2>1, StageGrows
  <2>2. CASE UNCHANGED others
    BY <2>2 DEF others, rowVars, Grows
  <2> QED
    BY <1>1, <2>1, <2>2 DEF Send, PutBegin, FinalizeBegin
<1>2. CASE Answering
  <2>1. Return(conn)
    BY <1>2, AnsweringHears
  <2> QED
    BY <2>1 DEF Return, others, rowVars, Grows
<1>3. CASE ResumeRecord \/ ConfirmJob \/ Break \/ Crash \/ ShowPrompt \/ Sweep \/ Dismiss \/ Cancel
           \/ LoseDelete
  <2>1. UNCHANGED vars
    BY <1>3 DEF ResumeRecord, ConfirmJob, Break, Crash, ShowPrompt, Sweep, Dismiss, Cancel, Discard,
       LoseDelete
  <2> QED
    BY <2>1 DEF vars, Grows
<1>4. ASSUME NEW t \in Writer, SendDelete(t)
      PROVE  Grows
  BY <1>4 DEF SendDelete, DiscardBegin, others, rowVars, Grows
<1>5. ASSUME NEW t \in Writer, Serve(t)
      PROVE  Grows
  BY <1>0, <1>5, HandlerGrows DEF Serve
<1> QED
  BY <1>1, <1>2, <1>3, <1>4, <1>5 DEF UploadNext, Upload, Discarding, Answering

\* What has been got through stays so.
LEMMA PassedStays ==
  ASSUME Grows
  PROVE  /\ Staged => Staged'
         /\ \A n : Passed(n) => Passed(n)'
  BY DEF Grows, Staged, Passed

\* A step that grows what is there, and moves neither the app nor what it awaits, keeps
\* SentInv.
LEMMA SentStays ==
  ASSUME SentInv, Grows, UNCHANGED <<record, job, app>>,
         conn' = None \/ (conn' = conn /\ op'[conn] = op[conn])
  PROVE  SentInv'
<1>1. NextSmall' = NextSmall
  BY DEF NextSmall
<1>2. \A slot : PutAwaited(slot) /\ conn' # None => PutAwaited(slot)'
  BY DEF PutAwaited, Grows
<1>3. \A slot : <<1, slot>> \in blobs => <<1, slot>> \in blobs'
  BY DEF Grows
<1>4. /\ \A n \in {record, job} \cap 1..Chunks : Passed(n)'
      /\ app.pc = "small" => Staged' /\ \A slot \in Small \ app.todo : <<1, slot>> \in blobs'
      /\ app.pc \in {"content", "finalize"} => Passed(app.n)'
  BY <1>3, PassedStays DEF SentInv
<1>5. conn' # None =>
       /\ app.pc = "stage" => op'[conn].pc = "done" /\ (op'[conn].ok => Staged')
       /\ app.pc = "small" => PutAwaited(NextSmall)'
       /\ app.pc = "content" => PutAwaited(ContentSlot(app.n))'
  BY <1>1, <1>2, PassedStays DEF SentInv
<1> QED
  BY <1>1, <1>4, <1>5 DEF SentInv, Passed, PutAwaited

\* An attempt that is over leaves the progress there was, or its own.
LEMMA SentIdles ==
  ASSUME SentInv, Grows, conn' = None, app'.pc = "idle",
         \A n \in {record', job'} \cap 1..Chunks :
           n \in {record, job} \/ (n = app.n /\ app.pc \in {"content", "finalize"})
  PROVE  SentInv'
<1>1. \A n \in {record', job'} \cap 1..Chunks : Passed(n)'
  BY PassedStays DEF SentInv
<1> QED
  BY <1>1 DEF SentInv, Passed

\* Once all small chunks are there, the content is to be sent from its first chunk, unless
\* there is none to be read.
LEMMA SentSmall ==
  ASSUME ClientInv, SentInv, Grows, record' = record, conn' = None, Staged', app.n = 0,
         NEW todo \in SUBSET Small, SendSmall(todo),
         \A slot \in Small \ todo : <<1, slot>> \in blobs'
  PROVE  SentInv'
<1>0. /\ 0 \in 0..Chunks /\ 0 \notin 1..Chunks /\ 0..(0 - 1) = {} /\ app.ofJob \in BOOLEAN
      /\ LocalTyped /\ AppTyped
  BY UploadAssumption DEF ClientInv, AppTyped, Attempts
<1>1. /\ app'.n = 0 /\ job' \in {job, 0}
      /\ \/ todo # {} /\ app'.pc = "small" /\ app'.todo = todo
         \/ todo = {} /\ app' = SendFrom(0, app.ofJob)
         \/ app' = Still
  BY <1>0, SendSmallIsClient
<1>2. \A n \in {record', job'} \cap 1..Chunks : Passed(n)'
  BY <1>0, <1>1, PassedStays DEF SentInv
<1>3. CASE todo = {} /\ app' = SendFrom(0, app.ofJob)
  <2>1. app'.pc \in {"content", "finalize"}
    BY <1>0, <1>3, SendFromIsClient
  <2>2. \A n : n = 0 => Passed(n)'
    BY <1>0, <1>3 DEF Passed
  <2>3. Passed(app.n)'
    BY <1>1, <2>2 DEF Passed
  <2> QED
    BY <1>2, <2>1, <2>3 DEF SentInv
<1>4. CASE todo # {} /\ app'.pc = "small" /\ app'.todo = todo
  BY <1>2, <1>4 DEF SentInv
<1>5. CASE app' = Still
  BY <1>2, <1>5, StillIsClient DEF SentInv
<1> QED
  BY <1>1, <1>3, <1>4, <1>5

\* A PUT that is awaited goes on with its chunk and answers when it is stored.
LEMMA AwaitedProceeds ==
  ASSUME TypeOK, OpsOfUpload, conn \in Request, conn' = conn, Proceed(conn),
         NEW slot, PutAwaited(slot)
  PROVE  PutAwaited(slot)'
<1>0. /\ op \in [Request -> Operation] /\ OpOfUpload(op[conn], discards)
      /\ op[conn].pc \in {"putStreams", "putBlob", "done"}
      /\ op[conn].pc # "done" => op[conn].slot = slot
  BY DEF TypeOK, OpsOfUpload, PutAwaited
<1>1. CASE PutStreams(conn)
  <2>1. op[conn].slot = slot
    BY <1>0, <1>1 DEF PutStreams
  <2>2. CASE Goto(conn, [pc |-> "putBlob", v |-> op[conn].v, slot |-> op[conn].slot])
    BY <1>0, <2>1, <2>2 DEF Goto, PutAwaited
  <2>3. CASE Answer(conn, FALSE)
    BY <1>0, <2>3 DEF Answer, Goto, PutAwaited
  <2> QED
    BY <1>1, <2>2, <2>3 DEF PutStreams
<1>2. CASE PutBlob(conn)
  <2>1. op[conn].slot = slot /\ op[conn].v = 1
    BY <1>0, <1>2 DEF PutBlob, OpOfUpload
  <2>2. CASE blobs' = blobs \cup {<<op[conn].v, op[conn].slot>>} /\ Answer(conn, TRUE)
    BY <1>0, <2>1, <2>2 DEF Answer, Goto, PutAwaited
  <2>3. CASE Answer(conn, FALSE)
    BY <1>0, <2>3 DEF Answer, Goto, PutAwaited
  <2> QED
    BY <1>2, <2>2, <2>3 DEF PutBlob
<1> QED
  BY <1>0, <1>1, <1>2 DEF Proceed, FinalizeStreams, FinalizeCount, FinalizePrior, FinalizeCheck,
     FinalizeWrite, Purge, DiscardRefs, DiscardRows, DeleteFile, AddWrapHolds, AddWrapInsert,
     GetRow, GetWraps, GetOwner, GetStreams

\* A request for a chunk waits for that chunk.
LEMMA PutBegins ==
  ASSUME TypeOK, NEW t \in Request, NEW slot, PutBegin(t, 1, slot), conn' = t
  PROVE  PutAwaited(slot)'
<1>0. op \in [Request -> Operation]
  BY DEF TypeOK
<1>1. CASE Goto(t, [pc |-> "putStreams", v |-> 1, slot |-> slot])
  BY <1>0, <1>1 DEF Goto, PutAwaited
<1>2. CASE Answer(t, FALSE)
  BY <1>0, <1>2 DEF Answer, Goto, PutAwaited
<1> QED
  BY <1>1, <1>2 DEF PutBegin

\* The handlers of a step that the server takes.
LEMMA ServeMoves ==
  ASSUME TypeOK, NEW t \in Request, Proceed(t) \/ Return(t) \/ Drop(t)
  PROVE  \A u \in Request : u # t => op'[u] = op[u]
<1>1. \A o : Goto(t, o) => \A u \in Request : u # t => op'[u] = op[u]
  BY DEF TypeOK, Goto
<1>2. \E o : Goto(t, o)
  BY DEF Proceed, Return, Drop, Answer, PutStreams, PutBlob, FinalizeStreams,
     FinalizeCount, FinalizePrior, FinalizeCheck, FinalizeWrite, Purge, DiscardRefs, DiscardRows,
     DeleteFile, AddWrapHolds, AddWrapInsert, GetRow, GetWraps, GetOwner, GetStreams
<1> QED
  BY <1>1, <1>2

\* Every step keeps the client's progress behind the server, while nothing is discarded.
LEMMA SentStep ==
  ASSUME TypeOK, ClientInv, OpsOfUpload, SentInv, UploadNext, discards = 0, discards' = 0
  PROVE  SentInv'
<1>0. /\ Gone \notin 0..Chunks /\ None \notin Writer /\ Chunks \in Nat \ {0}
      /\ 1..Chunks \subseteq 0..Chunks
      /\ \A t \in Writer : t \in Request
      /\ LocalTyped /\ CountsTyped /\ OrphanCounted /\ AppTyped /\ AppShape
  BY UploadAssumption DEF ClientInv, Request
<1>2. Grows
  <2>2. \A t \in Request : op[t].pc \notin DestroyPcs
    BY DEF OpsOfUpload, OpOfUpload
  <2> QED
    BY <2>2, UploadGrows
<1>r. PICK r : r = record
  OBVIOUS
<1>j. PICK j : j = job
  OBVIOUS
<1>m. PICK m : m = app.n
  OBVIOUS
<1>p. /\ r \in 1..Chunks => Passed(r)'
      /\ j \in 1..Chunks => Passed(j)'
      /\ app.pc \in {"content", "finalize"} => Passed(m)'
  BY <1>2, <1>r, <1>j, <1>m, PassedStays DEF SentInv
<1>b. ASSUME NEW n \in 0..Chunks, NEW k \in BOOLEAN, Begin(n, k), n \in {record, job},
             app.pc = "idle", conn' = conn, record' = record, job' \in {job, Gone}
      PROVE  SentInv'
  <2>1. conn' = None
    BY <1>0, <1>b DEF AppShape
  <2>2. \A i \in {record', job'} \cap 1..Chunks : Passed(i)'
    BY <1>0, <1>r, <1>j, <1>p, <1>b
  <2>3. CASE n = 0
    BY <1>b, <2>1, <2>2, <2>3, BeginIsClient DEF SentInv
  <2>4. CASE n # 0
    <3>1. app'.pc \in {"content", "finalize"} /\ app'.n = n
      BY <1>b, <2>4, BeginIsClient
    <3>2. Passed(n)'
      BY <1>0, <1>b, <1>r, <1>j, <1>p, <2>4
    <3> QED
      BY <2>1, <2>2, <3>1, <3>2 DEF SentInv, Passed
  <2> QED
    BY <2>3, <2>4
<1>3. CASE ResumeRecord \/ ConfirmJob
  <2>1. CASE ResumeRecord
    <3>1. /\ record \in 0..Chunks /\ Begin(record, FALSE) /\ app.pc = "idle"
          /\ UNCHANGED <<record, job, conn>>
      BY <1>0, <2>1 DEF ResumeRecord, localVars, LocalTyped
    <3> QED
      BY <1>b, <3>1
  <2>2. CASE ConfirmJob
    <3>1. /\ job \in 0..Chunks /\ Begin(job, TRUE) /\ app.pc = "idle" /\ job' = Gone
          /\ UNCHANGED <<record, conn>>
      BY <1>0, <2>2 DEF ConfirmJob, LocalTyped
    <3> QED
      BY <1>b, <3>1
  <2> QED
    BY <1>3, <2>1, <2>2
<1>4. ASSUME NEW t \in Writer, Send(t)
      PROVE  SentInv'
  <2>1. conn' = t /\ UNCHANGED <<record, job, app>> /\ conn = None /\ t \in Request
    BY <1>0, <1>4 DEF Send, localVars
  <2>2. NextSmall' = NextSmall
    BY <2>1 DEF NextSmall
  <2>3. app.pc = "small" => Staged' /\ \A slot \in Small \ app.todo : <<1, slot>> \in blobs'
    BY <1>2, PassedStays DEF SentInv, Grows
  <2>4. /\ app.pc = "stage" => op'[t].pc = "done" /\ (op'[t].ok => Staged')
        /\ app.pc = "small" => PutAwaited(NextSmall)'
        /\ app.pc = "content" => PutAwaited(ContentSlot(app.n))'
    <3>1. app.pc = "stage" => op'[t].pc = "done" /\ (op'[t].ok => Staged')
      BY <1>4, <2>1, StageGrows DEF Send
    <3>2. app.pc = "small" => PutAwaited(NextSmall)'
      <4>1. app.pc = "small" => PutBegin(t, 1, NextSmall)
        BY <1>4 DEF Send
      <4> DEFINE slot == NextSmall
      <4>2. app.pc = "small" => PutBegin(t, 1, slot)
        BY <4>1
      <4>3. slot' = slot
        BY <2>2
      <4> QED
        BY <2>1, <4>2, <4>3, PutBegins DEF PutAwaited
    <3>3. app.pc = "content" => PutAwaited(ContentSlot(app.n))'
      <4>1. app.pc = "content" => PutBegin(t, 1, ContentSlot(app.n))
        BY <1>4 DEF Send
      <4>2. app' = app
        BY <2>1
      <4> QED
        BY <2>1, <4>1, <4>2, PutBegins DEF PutAwaited, ContentSlot
    <3> QED
      BY <3>1, <3>2, <3>3
  <2> QED
    BY <1>r, <1>j, <1>m, <1>p, <2>1, <2>2, <2>3, <2>4 DEF SentInv, Passed, PutAwaited, ContentSlot
<1>5. CASE StageAnswered
  <2>1. /\ conn # None /\ op[conn].ok = TRUE /\ app.n = 0
        /\ app.pc = "stage" /\ SendSmall(Small) /\ conn' = None /\ record' = record
    BY <1>0, <1>5 DEF StageAnswered, Hears, AppShape
  <2>2. Staged'
    BY <1>2, <2>1, PassedStays DEF SentInv
  <2> QED
    BY <1>2, <2>1, <2>2, SentSmall
<1>6. CASE SmallAnswered
  <2> DEFINE todo == app.todo \ {NextSmall}
  <2>1. /\ conn # None /\ op[conn].pc = "done" /\ op[conn].ok = TRUE /\ app.n = 0
        /\ app.pc = "small" /\ SendSmall(todo) /\ conn' = None /\ record' = record
    BY <1>0, <1>6 DEF SmallAnswered, Hears, AppShape
  <2>2. /\ Staged' /\ <<1, NextSmall>> \in blobs'
        /\ \A slot \in Small \ app.todo : <<1, slot>> \in blobs'
    <3>1. PutAwaited(NextSmall)
      BY <2>1 DEF SentInv
    <3> QED
      BY <1>2, <2>1, <3>1, PassedStays DEF SentInv, PutAwaited, Grows
  <2>3. todo \in SUBSET Small /\ \A slot \in Small \ todo : <<1, slot>> \in blobs'
    BY <1>0, <2>2 DEF AppTyped, Attempts
  <2> HIDE DEF todo
  <2> QED
    BY <1>2, <2>1, <2>2, <2>3, SentSmall
<1>7. CASE ContentAnswered
  <2>1. /\ conn # None /\ op[conn].pc = "done" /\ op[conn].ok = TRUE
        /\ app.pc = "content" /\ app' = SendFrom(m + 1, app.ofJob) /\ conn' = None
        /\ record' \in {m + 1, r} /\ job' = j
    BY <1>7, <1>r, <1>j, <1>m DEF ContentAnswered, Hears, Checkpoint
  <2>2. m \in 0..(Chunks - 1) /\ m + 1 \in 0..Chunks /\ app.ofJob \in BOOLEAN
    BY <1>0, <1>m, <2>1 DEF AppTyped, Attempts, AppShape
  <2>3. <<1, ContentSlot(m)>> \in blobs' /\ Passed(m)'
    BY <1>2, <1>m, <1>p, <2>1 DEF SentInv, PutAwaited, Grows
  <2>4. Passed(m + 1)'
    <3>1. 0..(m + 1 - 1) = 0..(m - 1) \cup {m}
      BY <1>0, <2>2
    <3> QED
      BY <2>3, <3>1 DEF Passed
  <2>5. app'.pc \in {"content", "finalize"} /\ app'.n = m + 1
    BY <2>1, <2>2, SendFromIsClient
  <2> QED
    BY <1>p, <2>1, <2>4, <2>5 DEF SentInv, Passed
<1>8. CASE FinalizeAnswered \/ Crash
  <2>1. app' = Still /\ conn' = None /\ record' \in {record, Gone} /\ job' \in {job, Gone}
    BY <1>0, <1>8, RemovedIsTyped DEF FinalizeAnswered, Hears, Crash
  <2>2. app'.pc = "idle" /\ \A n \in {record', job'} \cap 1..Chunks : n \in {record, job}
    BY <1>0, <2>1, StillIsClient
  <2> QED
    BY <1>2, <2>1, <2>2, SentIdles
<1>9. CASE Refused \/ Break
  <2>1. /\ record' = record /\ conn' = None
        /\ Fail \/ UNCHANGED <<app, job>>
        /\ app.pc # "idle"
    BY <1>0, <1>9 DEF Refused, Hears, Break, AppShape
  <2>2. CASE UNCHANGED <<app, job>>
    BY <1>2, <2>1, <2>2, SentStays
  <2>3. CASE Fail
    <3>1. app'.pc = "idle" /\ job' \in {job, app.n}
      BY <1>0, <2>3, FailIsClient, StillIsClient
    <3>2. app.n \in 1..Chunks => app.pc \in {"content", "finalize"}
      BY <1>0, <2>1 DEF AppShape, AppTyped, Attempts
    <3>3. \A n \in {record', job'} \cap 1..Chunks :
            n \in {record, job} \/ (n = app.n /\ app.pc \in {"content", "finalize"})
      BY <2>1, <3>1, <3>2
    <3> QED
      BY <1>2, <2>1, <3>1, <3>3, SentIdles
  <2> QED
    BY <2>1, <2>2, <2>3
<1>10. CASE ShowPrompt
  <2>1. UNCHANGED <<record, job, app, conn, op>>
    BY <1>10 DEF ShowPrompt, vars
  <2> QED
    BY <1>2, <2>1, SentStays
<1>d. CASE Discarding
  <2>1. ~Discard
    BY <1>0 DEF Discard
  <2>2. ~(orphan > 0)
    BY <1>0, UploadAssumption DEF CountsTyped, OrphanCounted
  <2> QED
    BY <1>d, <2>1, <2>2 DEF Discarding, Sweep, Dismiss, Cancel, SendDelete, LoseDelete
<1>11. ASSUME NEW t \in Writer, Serve(t)
       PROVE  SentInv'
  <2>1. /\ UNCHANGED <<record, job, app, conn>>
        /\ Proceed(t) \/ (t # conn /\ (Return(t) \/ Drop(t)))
    BY <1>11 DEF Serve, clientVars, localVars
  <2>2. \A u \in Request : u # t => op'[u] = op[u]
    BY <1>0, <2>1, ServeMoves
  <2>3. CASE t # conn
    <3>1. conn = None \/ op'[conn] = op[conn]
      BY <1>0, <2>2, <2>3 DEF AppTyped
    <3> QED
      BY <1>2, <2>1, <3>1, SentStays
  <2>4. CASE t = conn
    <3>1. Proceed(conn) /\ conn \in Request /\ conn # None
      BY <1>0, <2>1, <2>4
    <3>2. op[conn].pc # "done"
      BY <3>1 DEF Proceed, PutStreams, PutBlob, FinalizeStreams, FinalizeCount, FinalizePrior,
         FinalizeCheck, FinalizeWrite, Purge, DiscardRefs, DiscardRows, DeleteFile, AddWrapHolds,
         AddWrapInsert, GetRow, GetWraps, GetOwner, GetStreams
    <3>3. app.pc # "stage" /\ (app.pc = "small" => PutAwaited(NextSmall))
          /\ (app.pc = "content" => PutAwaited(ContentSlot(app.n)))
      BY <3>1, <3>2 DEF SentInv
    <3>4. \A slot : PutAwaited(slot) => PutAwaited(slot)'
      BY <2>1, <3>1, AwaitedProceeds
    <3>5. NextSmall' = NextSmall
      BY <2>1 DEF NextSmall
    <3>6. app.pc = "small" => Staged' /\ \A slot \in Small \ app.todo : <<1, slot>> \in blobs'
      BY <1>2, PassedStays DEF SentInv, Grows
    <3> QED
      BY <1>r, <1>j, <1>m, <1>p, <2>1, <3>3, <3>4, <3>5, <3>6
      DEF SentInv, Passed, PutAwaited, ContentSlot
  <2> QED
    BY <2>3, <2>4
<1> QED
  BY <1>3, <1>4, <1>5, <1>6, <1>7, <1>8, <1>9, <1>10, <1>11, <1>d DEF UploadNext, Upload

\* A checkpoint is never ahead of the server until the upload is discarded: whatever
\* connections are lost, whichever handlers are still running, however often the app dies,
\* and whether an attempt goes on from the record or from the job, it skips only what is
\* there.
THEOREM CheckpointHolds == UploadSpec => []StoredUntilDiscarded
<1>1. UploadInit => SentUntilDiscarded
  <2> SUFFICES ASSUME UploadInit PROVE SentInv
    BY DEF SentUntilDiscarded
  <2>1. record = 0 /\ job = 0 /\ app.pc = "idle" /\ conn = None
    BY StillIsClient DEF UploadInit
  <2>2. 0 \notin 1..Chunks
    BY UploadAssumption
  <2> QED
    BY <2>1, <2>2 DEF SentInv
<1>2. TypeOK /\ ClientInv /\ OpsOfUpload /\ SentUntilDiscarded /\ [UploadNext]_uploadVars
        => SentUntilDiscarded'
  <2> SUFFICES ASSUME TypeOK, ClientInv, OpsOfUpload, SentUntilDiscarded,
                      [UploadNext]_uploadVars, discards' = 0
               PROVE  SentInv'
    BY DEF SentUntilDiscarded
  <2>1. CASE UploadNext
    BY <2>1, DiscardsGrow, SentStep DEF SentUntilDiscarded
  <2>2. CASE UNCHANGED uploadVars
    <3>1. Grows /\ UNCHANGED <<record, job, app, conn, op, discards>>
      BY <2>2 DEF uploadVars, vars, clientVars, localVars, Grows
    <3> QED
      BY <3>1, SentStays DEF SentUntilDiscarded
  <2> QED
    BY <2>1, <2>2
<1>3. SentUntilDiscarded => StoredUntilDiscarded
  BY DEF SentUntilDiscarded, StoredUntilDiscarded, SentInv, Passed, Staged, CheckpointIsStored
<1> QED
  BY UploadImplementsFile, TypeCorrect, ClientInvHolds, OpsHoldForUpload, <1>1, <1>2, <1>3, PTL
  DEF UploadSpec

----------------------------------------------------------------------------
(* Publication *)

\* The upload has one framing.
LEMMA UploadOneFraming == OneFraming
  BY UploadAssumption DEF OneFraming

\* Unless files are discarded, an upload that is finalized is whole, though a connection
\* that was lost leaves its handlers running beside those of the next attempt: run
\* upload_discard shows that a discard is enough to break it.
THEOREM UploadFinalizedIsWhole == ASSUME NoDiscard PROVE UploadSpec => []FinalizedWhole
  BY UploadImplementsFile, UploadOneFraming, FinalizedIsWhole, PTL

\* So the file that is uploaded is one versioned file to its users, its states those of
\* VersionedFile.
THEOREM UploadIsVersionedFile == ASSUME NoDiscard PROVE UploadSpec => ImplementsVersionedFile
  BY UploadImplementsFile, UploadOneFraming, FileIsVersionedFile, PTL
=============================================================================
