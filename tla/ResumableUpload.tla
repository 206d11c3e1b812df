-------------------------- MODULE ResumableUpload --------------------------
(***************************************************************************)
(* The video upload of the client app (crates/client-app/src/commands/     *)
(* upload.rs and upload_staging.rs) against the server's FileStore.  An    *)
(* upload is there twice: as a staging record on disk beside the media     *)
(* file, which a resume prompt of the tray goes on from after a restart,   *)
(* and as a job in memory, which is confirmed and tried again.  Attempts   *)
(* come one after another (core/serial.ts); what discards an upload, on    *)
(* disk and then on the server, waits for none of them.                    *)
(*                                                                         *)
(* Abstractions.  One upload of one owner, which is no bundle's member,    *)
(* whose framing never changes and whose chunks are sealed to the same     *)
(* bytes each time.  A media file that an attempt has opened can be read   *)
(* to its end.  Whether a day has passed is left open.  Faults (lost       *)
(* connections, crashes, local disk errors) and discards are bounded by    *)
(* MaxFaults and MaxDiscards.                                              *)
(***************************************************************************)
EXTENDS FileStore

CONSTANTS
  Content,     \* the content stream
  Chunks,      \* content_chunk_count
  Small,       \* the chunk slots of the small streams
  Gone,        \* no staging record, or no job
  MaxFaults,   \* bound: faults
  MaxDiscards  \* bound: cancels, dismissals and sweeps

ContentSlot(i) == <<Content, i>>
Whole == Small \cup {ContentSlot(i) : i \in 0..(Chunks - 1)}

\* The upload is version 1 of the file, and its framing is the only one staged.
ASSUME UploadAssumption ==
  /\ Chunks \in Nat \ {0} /\ MaxFaults \in Nat /\ MaxDiscards \in Nat
  /\ Content \in Stream /\ 0..(Chunks - 1) \subseteq Index
  /\ Small \subseteq {c \in Slot : c[1] # Content}
  /\ Gone \notin 0..Chunks
  /\ None \notin Writer
  /\ Framings = {Whole} /\ {Owner, Recovery} \in Audiences
  /\ 1 \in Version

VARIABLES
  record,     \* StagingRecord.progress on disk, or Gone
  media,      \* out.mp4 is beside it
  job,        \* the progress of the job in UploadJobs, or Gone
  prompt,     \* the tray offers to resume or discard the record
  app,        \* streaming_confirm: where it is, small chunks to send, progress, and
              \* whether it is the job's attempt
  conn,       \* the request whose answer streaming_confirm awaits, or None
  orphan,     \* calls of discard_server_orphan whose DELETE is not sent yet
  faults,     \* faults so far
  discards    \* cancels, dismissals and sweeps so far

localVars == <<record, media, job, prompt>>
clientVars == <<localVars, app, conn, orphan, faults, discards>>
uploadVars == <<vars, clientVars>>

Still == [pc |-> "idle", todo |-> {}, n |-> 0, ofJob |-> FALSE]

UploadTypeOK ==
  /\ TypeOK
  /\ record \in 0..Chunks \cup {Gone} /\ job \in 0..Chunks \cup {Gone}
  /\ media \in BOOLEAN /\ prompt \in BOOLEAN
  /\ app \in [pc: {"idle", "stage", "small", "content", "finalize"},
              todo: SUBSET Small, n: 0..Chunks, ofJob: BOOLEAN]
  /\ conn \in Writer \cup {None}
  /\ orphan \in 0..MaxDiscards
  /\ faults \in 0..MaxFaults
  /\ discards \in 0..MaxDiscards

\* The pipeline has sealed the upload, persisted its record and registered its job.
UploadInit ==
  /\ Init
  /\ record = 0 /\ media = TRUE /\ job = 0 /\ prompt = FALSE
  /\ app = Still
  /\ conn = None
  /\ orphan = 0
  /\ faults = 0
  /\ discards = 0

Fault == faults < MaxFaults /\ faults' = faults + 1

\* StagingStore.remove: the directory goes with what is in it, or a part of it.
RemoveStaging ==
  \/ record' = Gone /\ media' = FALSE /\ UNCHANGED faults
  \/ Fault /\ record' \in {record, Gone} /\ media' \in {media, FALSE}

----------------------------------------------------------------------------
(* streaming_confirm *)

\* Content chunk n comes next, or finalize after the last.
SendOneMore(n, j) ==
  [pc |-> IF n > Chunks THEN "finalize" ELSE "content", todo |-> {}, n |-> n, ofJob |-> j]
SendFrom(n, j) ==
  [pc |-> IF n = Chunks THEN "finalize" ELSE "content", todo |-> {}, n |-> n, ofJob |-> j]

\* The stage and the small streams are skipped when a content chunk is already there,
\* and the media file is opened first.
Begin(n, j) ==
  \/ n = 0 /\ app' = [Still EXCEPT !.pc = "stage", !.ofJob = j]
  \/ n # 0 /\ media /\ app' = SendFrom(n, j)

\* resume_upload, from the tray's prompt, goes on from the record ...
ResumeRecord ==
  /\ app.pc = "idle"
  /\ prompt /\ record # Gone
  /\ Begin(record, FALSE)
  /\ UNCHANGED <<vars, localVars, conn, orphan, faults, discards>>

\* ... and confirm_upload, first or again, takes the job out of the registry and goes
\* on from its progress, ahead of the record if a checkpoint failed.
ConfirmJob ==
  /\ app.pc = "idle"
  /\ job # Gone
  /\ Begin(job, TRUE)
  /\ job' = Gone
  /\ UNCHANGED <<vars, record, media, prompt, conn, orphan, faults, discards>>

\* An attempt that fails is over; a job is retained with its progress.
Fail ==
  /\ app' = Still
  /\ job' = IF app.ofJob THEN app.n ELSE job

\* The small chunks go in a fixed order; after them the media file is opened.
NextSmall == CHOOSE slot \in app.todo : TRUE
SendSmall(todo) ==
  \/ todo # {} /\ app' = [app EXCEPT !.pc = "small", !.todo = todo] /\ UNCHANGED job
  \/ todo = {} /\ media /\ app' = SendFrom(0, app.ofJob) /\ UNCHANGED job
  \/ todo = {} /\ ~media /\ Fail

\* A request is sent ...
Send(t) ==
  /\ conn = None
  /\ \/ app.pc = "stage" /\ Stage(t, 1, Whole, {Owner, Recovery})
     \/ app.pc = "small" /\ PutBegin(t, 1, NextSmall)
     \/ app.pc = "content" /\ PutBegin(t, 1, ContentSlot(app.n))
     \/ app.pc = "finalize" /\ FinalizeBegin(t, 1)
  /\ conn' = t
  /\ UNCHANGED <<localVars, app, orphan, faults, discards>>

\* ... and its answer awaited.
Hears(ok) ==
  /\ conn # None /\ op[conn].pc = "done" /\ op[conn].ok = ok
  /\ Return(conn)
  /\ conn' = None

StageAnswered ==
  /\ app.pc = "stage" /\ Hears(TRUE)
  /\ SendSmall(Small)
  /\ UNCHANGED <<record, media, prompt, orphan, faults, discards>>

SmallAnswered ==
  /\ app.pc = "small" /\ Hears(TRUE)
  /\ SendSmall(app.todo \ {NextSmall})
  /\ UNCHANGED <<record, media, prompt, orphan, faults, discards>>

\* The checkpoint, best-effort: persist makes the directory again if it is gone, but
\* not the media file.
CheckpointAhead(n) == record' = IF n < Chunks THEN n + 1 ELSE n
Checkpoint(n) == record' = n

ContentAnswered ==
  /\ app.pc = "content" /\ Hears(TRUE)
  /\ app' = SendFrom(app.n + 1, app.ofJob)
  /\ \/ Checkpoint(app.n + 1) /\ UNCHANGED faults
     \/ UNCHANGED record /\ Fault
  /\ UNCHANGED <<media, job, prompt, orphan, discards>>

\* Success: the staging directory is removed, best-effort.  A prompt goes with its own
\* resume, and stays when the job's attempt was the one.
FinalizeAnswered ==
  /\ app.pc = "finalize" /\ Hears(TRUE)
  /\ app' = Still
  /\ RemoveStaging
  /\ prompt' = (prompt /\ app.ofJob)
  /\ UNCHANGED <<job, orphan, discards>>

\* A refused chunk is PUT again up to MAX_CHUNK_RETRY times; any other refusal
\* ends the attempt, and the record stays for a later one.
Refused ==
  /\ Hears(FALSE)
  /\ \/ Fail
     \/ app.pc \in {"small", "content"} /\ UNCHANGED <<app, job>>
  /\ UNCHANGED <<record, media, prompt, orphan, faults, discards>>

\* The connection is lost, or the app cannot read the next chunk: the attempt fails.
\* A handler that was at work runs on until the server notices.
Break ==
  /\ Fault
  /\ app.pc # "idle"
  /\ Fail /\ conn' = None
  /\ UNCHANGED <<vars, record, media, prompt, orphan, discards>>

\* The app dies; what it has on disk stays.
Crash ==
  /\ Fault
  /\ app' = Still /\ conn' = None /\ orphan' = 0
  /\ job' = Gone /\ prompt' = FALSE
  /\ UNCHANGED <<vars, record, media, discards>>

----------------------------------------------------------------------------
(* Prompts and discards: none of them waits for an attempt *)

\* list_pending_uploads, on each connection: a record that is not a day old is offered
\* by the tray, whoever else is uploading it, ...
ShowPrompt ==
  /\ record # Gone
  /\ ~prompt /\ prompt' = TRUE
  /\ UNCHANGED <<vars, record, media, job, app, conn, orphan, faults, discards>>

\* What is on disk goes first, then discard_server_orphan opens a channel.
Discard ==
  /\ "delete" \in Events
  /\ discards < MaxDiscards /\ discards' = discards + 1
  /\ RemoveStaging
  /\ orphan' = orphan + 1
  /\ UNCHANGED <<vars, app, conn>>

\* ... and one that is older is swept.
Sweep ==
  /\ record # Gone
  /\ Discard
  /\ UNCHANGED <<job, prompt>>

\* dismiss_pending_upload: the prompt's button, until it is clicked or its own resume
\* runs, whatever has become of the record.
Dismiss ==
  /\ prompt /\ prompt' = FALSE
  /\ app.pc = "idle" \/ app.ofJob
  /\ Discard
  /\ UNCHANGED job

\* cancel_upload drops a job that no attempt has taken.
Cancel ==
  /\ job # Gone /\ job' = Gone
  /\ Discard
  /\ UNCHANGED prompt

\* The server is sent a DELETE, whose answer is ignored, ...
SendDelete(t) ==
  /\ orphan > 0 /\ orphan' = orphan - 1
  /\ DiscardBegin(t)
  /\ UNCHANGED <<localVars, app, conn, faults, discards>>

\* ... or cannot be reached.
LoseDelete ==
  /\ Fault
  /\ orphan > 0 /\ orphan' = orphan - 1
  /\ UNCHANGED <<vars, localVars, app, conn, discards>>

\* The server carries on; an answer nobody awaits is dropped, and so may be the
\* handler of a lost connection.
Serve(t) ==
  /\ \/ Proceed(t)
     \/ t # conn /\ (Return(t) \/ Drop(t))
  /\ UNCHANGED clientVars

----------------------------------------------------------------------------
(* Specification *)

Upload ==
  \/ ResumeRecord \/ ConfirmJob
  \/ \E t \in Writer : Send(t)
  \/ StageAnswered \/ SmallAnswered \/ ContentAnswered \/ FinalizeAnswered \/ Refused

Discarding ==
  \/ Sweep \/ Dismiss \/ Cancel
  \/ \E t \in Writer : SendDelete(t)
  \/ LoseDelete

UploadNext ==
  \/ Upload
  \/ Break \/ Crash
  \/ ShowPrompt \/ Discarding
  \/ \E t \in Writer : Serve(t)

UploadSpec == UploadInit /\ [][UploadNext]_uploadVars

\* The tray offers a record that is on disk, the user tries an upload again as long as
\* there is one, the app goes on with what it has begun, and the server with what it
\* was asked for.
UploadFairness ==
  /\ WF_uploadVars(Upload)
  /\ WF_uploadVars(ShowPrompt)
  /\ \A t \in Writer : WF_uploadVars(Serve(t))

FairUploadSpec == UploadSpec /\ UploadFairness

----------------------------------------------------------------------------
(* Properties *)

\* "if `progress > 0` the file-version is already staged on the server and its small
\* streams are already uploaded" (streaming_confirm), and so are content chunks 0 to
\* progress - 1: what the record, or the job in memory, lets an attempt skip is there.
CheckpointIsStored ==
  \A n \in {record, job} \cap 1..Chunks :
    /\ exists /\ stage[1] # "none"
    /\ \A slot \in Small \cup {ContentSlot(i) : i \in 0..(n - 1)} : <<1, slot>> \in blobs

\* A checkpoint is never ahead of the server, whatever connections were lost, however
\* often the app died, and whichever of the record and the job an attempt went on from,
\* until something discards the upload: a checkpoint of an attempt that was running
\* writes a record anew, for a version that the discard's DELETE takes off the server.
StoredUntilDiscarded == discards = 0 => CheckpointIsStored

\* An upload whose record is on disk is finalized in the end, unless it is discarded: no
\* loss of a connection or of the app leaves it where every attempt is refused for good.
UploadSettles ==
  (record # Gone /\ discards = 0) ~> ((exists /\ current = 1) \/ discards > 0)

\* discard_server_orphan is a "best-effort server DELETE for an unfinalized
\* file-version": cleaning up an interrupted upload never destroys a published file.
DiscardSparesPublished == [][exists /\ current = 1 => exists']_uploadVars
=============================================================================
