----------------------------- MODULE FileStore -----------------------------
(***************************************************************************)
(* One file on the server: its Postgres rows (crates/server/src/pg.rs),    *)
(* its chunks in the blob store, and the handlers of http.rs that drive    *)
(* the two.  Queries a handler issues one by one on the pool are one       *)
(* action each, so handlers interleave between any two of them.  A         *)
(* transaction that locks or re-checks what it writes is one action; the   *)
(* finalize transaction locks the files row only, never the version row it *)
(* marks, and is two.  There is no transaction over rows and blobs         *)
(* together.                                                               *)
(*                                                                         *)
(* Abstractions.  The file is not a bundle.  A manifest is its framing,    *)
(* the chunk slots its streams declare; bytes, signatures and wrapped keys *)
(* are left out.  Requests that are refused on what they read first, and   *)
(* those of a user who is not the owner on owner-only routes, change       *)
(* nothing and are left out where no later step depends on them.  Two      *)
(* stage transactions of one version run one after the other, where        *)
(* Postgres might fail one.  The blob store answers each call in one       *)
(* step (ChunkStore is what WriteBackTier promises its callers).           *)
(***************************************************************************)
EXTENDS Naturals, FiniteSets

CONSTANTS
  User,        \* enrolled users
  Owner,       \* the user whose genesis the file carries
  Recovery,    \* RECOVERY_ID, the escrow recipient
  None,        \* no wrap
  Stream,      \* stream types
  Index,       \* chunk indices
  Framings,    \* the framings a client may stage
  Audiences,   \* the recipients a client may wrap a staged version to
  MaxVersion,  \* bound: versions proposed
  Writer,      \* request tasks serving the owner's clients: one for each client
  Asker,       \* request tasks serving anyone's shares, revocations and reads
  Events       \* which of the optional events below a model allows

\* "drop": a handler may be dropped where it waits (its peer went away, or the
\* server died).  "iofail": a blob store error.  "delete": the owner may discard or
\* delete the file.
EventKinds == {"drop", "iofail", "delete"}

Request == Writer \cup Asker

Version == 1..MaxVersion
Slot == Stream \X Index
Recipient == User \cup {Recovery}
BlobRef == Version \X Stream

\* Who the users are, and that what a client may ask for is of the file.
ASSUME FileAssumption ==
  /\ Owner \in User /\ Recovery \notin User
  /\ None \notin User
  /\ IsFiniteSet(Stream) /\ IsFiniteSet(Index)
  /\ Framings \subseteq SUBSET Slot
  /\ Audiences \subseteq SUBSET Recipient
  /\ MaxVersion \in Nat
  /\ Events \subseteq EventKinds

VARIABLES
  exists,     \* the files row is there
  current,    \* files.current_version
  stage,      \* stage[v]: no file_versions row, a staged one or a finalized one
  framed,     \* framed[v]: the chunk slots of the version's file_streams rows
  wraps,      \* wraps[v][r]: granted_by of r's file_key_wraps row, or None
  revoked,    \* wrap_revocations
  tombstone,  \* the file_tombstones row is there
  blobs,      \* <<v, slot>> of the chunks the blob store holds
  op          \* op[t]: what request t is suspended in

rowVars == <<exists, current, stage, framed, wraps, revoked, tombstone>>
others == <<rowVars, blobs>>
vars == <<exists, current, stage, framed, wraps, revoked, tombstone, blobs, op>>

IdleOp == [pc |-> "idle"]
Operation ==
  {IdleOp}
  \cup [pc: {"done"}, ok: BOOLEAN]
  \cup [pc: {"putStreams", "putBlob"}, v: Version, slot: Slot]
  \cup [pc: {"finStreams"}, v: Version]
  \cup [pc: {"finCount"}, v: Version, framed: SUBSET Slot, todo: SUBSET Stream]
  \cup [pc: {"finPrior"}, v: 2..MaxVersion]
  \cup [pc: {"finCheck", "finWrite"}, v: Version, refs: SUBSET BlobRef]
  \cup [pc: {"discardRefs", "deleteFile"}]
  \cup [pc: {"discardRows", "purge"}, refs: SUBSET BlobRef]
  \cup [pc: {"addHolds", "addInsert"}, v: Version, by: User, to: User]
  \cup [pc: {"getRow", "getWraps"}, v: Version, by: User]
  \cup [pc: {"getOwner", "getStreams"}, v: Version]
  \cup [pc: {"view"}, v: Version, framed: SUBSET Slot]

NoWraps == [r \in Recipient |-> None]

TypeOK ==
  /\ exists \in BOOLEAN
  /\ current \in 0..MaxVersion
  /\ stage \in [Version -> {"none", "staged", "final"}]
  /\ framed \in [Version -> SUBSET Slot]
  /\ wraps \in [Version -> [Recipient -> User \cup {None}]]
  /\ revoked \subseteq Version \X Recipient
  /\ tombstone \in BOOLEAN
  /\ blobs \subseteq Version \X Slot
  /\ op \in [Request -> Operation]

Init ==
  /\ exists = FALSE /\ current = 0
  /\ stage = [v \in Version |-> "none"]
  /\ framed = [v \in Version |-> {}]
  /\ wraps = [v \in Version |-> NoWraps]
  /\ revoked = {} /\ tombstone = FALSE
  /\ blobs = {}
  /\ op = [t \in Request |-> IdleOp]

Goto(t, next) == op' = [op EXCEPT ![t] = next]
Answer(t, ok) == Goto(t, [pc |-> "done", ok |-> ok])

Idle(t) == op[t] = IdleOp

\* No finalize transaction holds the lock of the files row: what takes that lock,
\* or adds a version under it, waits.
FileUnlocked == \A t \in Request : op[t].pc # "finWrite"

\* The blob_refs of the streams of version v.
StreamsOf(slots) == {c[1] : c \in slots}
RefsOf(v, slots) == {v} \X StreamsOf(slots)
Purging(refs) ==
  IF refs = {} THEN [pc |-> "done", ok |-> TRUE] ELSE [pc |-> "purge", refs |-> refs]

----------------------------------------------------------------------------
(* stage_version *)

\* parse_stage: the recovery recipient is among those the version is wrapped to.
WrapsRecovery(R) == Recovery \in R

\* The transaction re-creates the rows of a version that is not finalized; only
\* version 1 creates the file.
Stage(t, v, slots, R) ==
  /\ Idle(t)
  /\ WrapsRecovery(R)
  /\ \/ /\ FileUnlocked
        /\ stage[v] # "final"
        /\ exists \/ v = 1
        /\ exists' = TRUE
        /\ stage' = [stage EXCEPT ![v] = "staged"]
        /\ framed' = [framed EXCEPT ![v] = slots]
        /\ wraps' = [wraps EXCEPT ![v] = [r \in Recipient |-> IF r \in R THEN Owner ELSE None]]
        /\ Answer(t, TRUE)
        /\ UNCHANGED <<current, revoked, tombstone, blobs>>
     \/ /\ stage[v] = "final" \/ (~exists /\ v # 1)
        /\ Answer(t, FALSE)
        /\ UNCHANGED others

----------------------------------------------------------------------------
(* put_chunk *)

\* version_meta reads the version row, then its streams.
PutBegin(t, v, slot) ==
  /\ Idle(t)
  /\ IF stage[v] = "staged"
     THEN Goto(t, [pc |-> "putStreams", v |-> v, slot |-> slot])
     ELSE Answer(t, FALSE)
  /\ UNCHANGED others

PutStreams(t) ==
  /\ op[t].pc = "putStreams"
  /\ IF op[t].slot \in framed[op[t].v]
     THEN Goto(t, [pc |-> "putBlob", v |-> op[t].v, slot |-> op[t].slot])
     ELSE Answer(t, FALSE)
  /\ UNCHANGED others

PutBlob(t) ==
  /\ op[t].pc = "putBlob"
  /\ \/ blobs' = blobs \cup {<<op[t].v, op[t].slot>>} /\ Answer(t, TRUE)
     \/ "iofail" \in Events /\ UNCHANGED blobs /\ Answer(t, FALSE)
  /\ UNCHANGED rowVars

----------------------------------------------------------------------------
(* finalize_version *)

FinalizeBegin(t, v) ==
  /\ Idle(t)
  /\ IF stage[v] # "none"
     THEN Goto(t, [pc |-> "finStreams", v |-> v])
     ELSE Answer(t, FALSE)
  /\ UNCHANGED others

\* Once every stream is counted, the prior version's blob_refs are read (v >= 2).
Counted(v, slots, todo) ==
  IF todo # {} THEN [pc |-> "finCount", v |-> v, framed |-> slots, todo |-> todo]
  ELSE IF v >= 2 THEN [pc |-> "finPrior", v |-> v]
  ELSE [pc |-> "finCheck", v |-> v, refs |-> {}]

FinalizeStreams(t) ==
  /\ op[t].pc = "finStreams"
  /\ LET slots == framed[op[t].v]
     IN  Goto(t, Counted(op[t].v, slots, StreamsOf(slots)))
  /\ UNCHANGED others

\* The completeness check of a stream: chunk_count is what its row declares.
Held(v, s) == {slot \in Slot : slot[1] = s /\ <<v, slot>> \in blobs}
FramedIn(slots, s) == {slot \in slots : slot[1] = s}
HasSomeOf(v, slots, s) == Held(v, s) # {}
HasExactly(v, slots, s) == Cardinality(Held(v, s)) = Cardinality(FramedIn(slots, s))

FinalizeCount(t) ==
  /\ op[t].pc = "finCount"
  /\ \E s \in op[t].todo :
       \/ /\ HasExactly(op[t].v, op[t].framed, s)
          /\ Goto(t, Counted(op[t].v, op[t].framed, op[t].todo \ {s}))
       \/ /\ ~HasExactly(op[t].v, op[t].framed, s)
          /\ Answer(t, FALSE)
       \/ "iofail" \in Events /\ Answer(t, FALSE)
  /\ UNCHANGED others

FinalizePrior(t) ==
  /\ op[t].pc = "finPrior"
  /\ LET prior == op[t].v - 1
     IN  Goto(t, [pc |-> "finCheck", v |-> op[t].v, refs |-> RefsOf(prior, framed[prior])])
  /\ UNCHANGED others

\* Only the version after the current one may be finalized.
AnyVersion(v) == TRUE
NextVersion(v) == v = current + 1

\* The transaction locks the files row and reads the version's ...
FinalizeCheck(t) ==
  /\ op[t].pc = "finCheck"
  /\ FileUnlocked
  /\ LET v == op[t].v
     IN  IF exists /\ stage[v] = "staged" /\ NextVersion(v)
         THEN Goto(t, [pc |-> "finWrite", v |-> v, refs |-> op[t].refs])
         ELSE Answer(t, FALSE)
  /\ UNCHANGED others

\* ... which is not locked, and may have been discarded by the time it is marked
\* final.  The version is current now; the one it supersedes loses its streams and
\* wraps.
FinalizeWrite(t) ==
  /\ op[t].pc = "finWrite"
  /\ LET v == op[t].v
     IN  /\ stage' = [w \in Version |-> IF w = v /\ stage[w] = "staged" THEN "final" ELSE stage[w]]
         /\ current' = v
         /\ framed' = [w \in Version |-> IF w = current THEN {} ELSE framed[w]]
         /\ wraps' = [w \in Version |-> IF w = current THEN NoWraps ELSE wraps[w]]
  /\ Goto(t, Purging(op[t].refs))
  /\ UNCHANGED <<exists, revoked, tombstone, blobs>>

\* Best-effort teardown of blobs whose rows are gone: a failure is logged.
Purge(t) ==
  /\ op[t].pc = "purge"
  /\ \E ref \in op[t].refs :
       /\ \/ blobs' = blobs \ ({ref[1]} \X Held(ref[1], ref[2]))
          \/ "iofail" \in Events /\ UNCHANGED blobs
       /\ Goto(t, Purging(op[t].refs \ {ref}))
  /\ UNCHANGED rowVars

----------------------------------------------------------------------------
(* discard_file: discard_unfinalized, or delete_file once something is final *)

DiscardBegin(t) ==
  /\ "delete" \in Events
  /\ Idle(t)
  /\ \/ ~exists /\ Answer(t, TRUE)
     \/ exists /\ current = 0 /\ Goto(t, [pc |-> "discardRefs"])
     \/ exists /\ current # 0 /\ Goto(t, [pc |-> "deleteFile"])
  /\ UNCHANGED others

DiscardRefs(t) ==
  /\ op[t].pc = "discardRefs"
  /\ Goto(t, [pc |-> "discardRows",
              refs |-> UNION {RefsOf(v, framed[v]) : v \in {w \in Version : stage[w] = "staged"}}])
  /\ UNCHANGED others

\* DELETE ... WHERE finalized = false, cascading to streams and wraps.
DiscardRows(t) ==
  /\ op[t].pc = "discardRows"
  /\ stage' = [v \in Version |-> IF stage[v] = "staged" THEN "none" ELSE stage[v]]
  /\ framed' = [v \in Version |-> IF stage[v] = "staged" THEN {} ELSE framed[v]]
  /\ wraps' = [v \in Version |-> IF stage[v] = "staged" THEN NoWraps ELSE wraps[v]]
  /\ Goto(t, Purging(op[t].refs))
  /\ UNCHANGED <<exists, current, revoked, tombstone, blobs>>

\* One transaction over every row of the file, and the tombstone.
DeleteFile(t) ==
  /\ op[t].pc = "deleteFile"
  /\ FileUnlocked
  /\ \/ /\ exists
        /\ exists' = FALSE /\ current' = 0
        /\ stage' = [v \in Version |-> "none"]
        /\ framed' = [v \in Version |-> {}]
        /\ wraps' = [v \in Version |-> NoWraps]
        /\ tombstone' = TRUE
        /\ Goto(t, Purging(UNION {RefsOf(v, framed[v]) : v \in Version}))
        /\ UNCHANGED revoked
     \/ ~exists /\ Answer(t, FALSE) /\ UNCHANGED rowVars
  /\ UNCHANGED blobs

----------------------------------------------------------------------------
(* add_wrap and delete_wrap *)

\* A re-share targets the version that is current when it is first read ...
AddWrapBegin(t, by, to) ==
  /\ Idle(t)
  /\ IF exists /\ current # 0
     THEN Goto(t, [pc |-> "addHolds", v |-> current, by |-> by, to |-> to])
     ELSE Answer(t, FALSE)
  /\ UNCHANGED others

\* ... of which the caller must hold a wrap ...
AddWrapHolds(t) ==
  /\ op[t].pc = "addHolds"
  /\ IF wraps[op[t].v][op[t].by] # None
     THEN Goto(t, [pc |-> "addInsert", v |-> op[t].v, by |-> op[t].by, to |-> op[t].to])
     ELSE Answer(t, FALSE)
  /\ UNCHANGED others

\* ... and is inserted or replaced while that version's row is there.
AddWrapInsert(t) ==
  /\ op[t].pc = "addInsert"
  /\ LET o == op[t]
     IN  IF stage[o.v] # "none"
         THEN wraps' = [wraps EXCEPT ![o.v][o.to] = o.by] /\ Answer(t, TRUE)
         ELSE UNCHANGED wraps /\ Answer(t, FALSE)
  /\ UNCHANGED <<exists, current, stage, framed, revoked, tombstone, blobs>>

\* Whose wrap may be taken away: never the escrow's.
AnyRecipient(r) == TRUE
Unprotected(r) == r # Recovery

\* The record that makes the absence of the wrap a revocation.
RecordNothing(v, r) == UNCHANGED revoked
RecordRevocation(v, r) == revoked' = revoked \cup {<<v, r>>}

\* One transaction, under a lock of the files row, by the owner or the granter.
DeleteWrap(t, by, r) ==
  /\ Idle(t)
  /\ Unprotected(r)
  /\ FileUnlocked
  /\ exists /\ current # 0
  /\ wraps[current][r] # None
  /\ by = Owner \/ by = wraps[current][r]
  /\ wraps' = [wraps EXCEPT ![current][r] = None]
  /\ RecordRevocation(current, r)
  /\ Answer(t, TRUE)
  /\ UNCHANGED <<exists, current, stage, framed, tombstone, blobs>>

----------------------------------------------------------------------------
(* get_file *)

\* The latest version, or the one asked for ...
GetLatest(t, by) ==
  /\ Idle(t)
  /\ IF exists /\ current # 0
     THEN Goto(t, [pc |-> "getRow", v |-> current, by |-> by])
     ELSE Answer(t, FALSE)
  /\ UNCHANGED others

GetSpecific(t, by, v) ==
  /\ Idle(t)
  /\ Goto(t, [pc |-> "getRow", v |-> v, by |-> by])
  /\ UNCHANGED others

\* ... must be finalized ...
VisibleStaged(v) == stage[v] # "none"
Visible(v) == stage[v] = "final"

GetRow(t) ==
  /\ op[t].pc = "getRow"
  /\ IF Visible(op[t].v)
     THEN Goto(t, [pc |-> "getWraps", v |-> op[t].v, by |-> op[t].by])
     ELSE Answer(t, FALSE)
  /\ UNCHANGED others

\* ... and wrapped to the caller.
GetWraps(t) ==
  /\ op[t].pc = "getWraps"
  /\ IF wraps[op[t].v][op[t].by] # None
     THEN Goto(t, [pc |-> "getOwner", v |-> op[t].v])
     ELSE Answer(t, FALSE)
  /\ UNCHANGED others

\* The owner and genesis rows must still be there ...
GetOwner(t) ==
  /\ op[t].pc = "getOwner"
  /\ IF exists THEN Goto(t, [pc |-> "getStreams", v |-> op[t].v]) ELSE Answer(t, FALSE)
  /\ UNCHANGED others

\* ... and the streams, or what is left of them, complete the view.
GetStreams(t) ==
  /\ op[t].pc = "getStreams"
  /\ Goto(t, [pc |-> "view", v |-> op[t].v, framed |-> framed[op[t].v]])
  /\ UNCHANGED others

----------------------------------------------------------------------------
(* Specification *)

\* The caller has its answer.
Return(t) ==
  /\ op[t].pc \in {"done", "view"}
  /\ Goto(t, IdleOp)
  /\ UNCHANGED others

\* The handler is dropped where it waits; what it has committed stays.
Drop(t) ==
  /\ "drop" \in Events
  /\ op[t].pc \notin {"idle", "done", "view"}
  /\ Goto(t, IdleOp)
  /\ UNCHANGED others

\* What a client of the owner asks for; it waits for each answer.
Write(t) ==
  \/ \E v \in Version :
       \/ \E slots \in Framings, R \in Audiences : Stage(t, v, slots, R)
       \/ \E slot \in Slot : PutBegin(t, v, slot)
       \/ FinalizeBegin(t, v)
  \/ DiscardBegin(t)
  \/ \E r \in Recipient : DeleteWrap(t, Owner, r)

\* What any user asks for.
Ask(t) ==
  \E by \in User :
    \/ \E to \in User : AddWrapBegin(t, by, to)
    \/ \E r \in Recipient : DeleteWrap(t, by, r)
    \/ GetLatest(t, by)
    \/ \E v \in Version : GetSpecific(t, by, v)

\* How a handler carries on.
Proceed(t) ==
  \/ PutStreams(t) \/ PutBlob(t)
  \/ FinalizeStreams(t) \/ FinalizeCount(t) \/ FinalizePrior(t)
  \/ FinalizeCheck(t) \/ FinalizeWrite(t)
  \/ Purge(t)
  \/ DiscardRefs(t) \/ DiscardRows(t) \/ DeleteFile(t)
  \/ AddWrapHolds(t) \/ AddWrapInsert(t)
  \/ GetRow(t) \/ GetWraps(t) \/ GetOwner(t) \/ GetStreams(t)

Next ==
  \/ \E t \in Writer : Write(t)
  \/ \E t \in Asker : Ask(t)
  \/ \E t \in Request : Proceed(t) \/ Return(t) \/ Drop(t)

Spec == Init /\ [][Next]_vars

----------------------------------------------------------------------------
(* Properties *)

\* What a reader of the file gets is all there: the current version has its
\* stream rows, and the blob store every chunk they frame.  Only the finalize
\* handler's count stands between rows and blobs.
FinalizedWhole ==
  exists /\ current # 0 =>
    /\ framed[current] \in Framings
    /\ \A slot \in framed[current] : <<current, slot>> \in blobs

\* The finalized versions of a file are 1 to current_version without a gap,
\* though a client may stage any version at any time, and none outlives its file.
VersionChain ==
  /\ \A v \in Version : stage[v] = "final" <=> v <= current
  /\ ~exists => current = 0 /\ \A v \in Version : stage[v] = "none"

\* The escrow can open whatever can be opened: a version that is staged or
\* current has its recovery wrap, granted by the owner, whatever is shared,
\* revoked, re-staged or rotated.
RecoveryAlwaysWrapped ==
  \A v \in Version : stage[v] = "staged" \/ (exists /\ v = current) =>
    wraps[v][Recovery] = Owner

\* What a step may do to the wraps of a finalized version.
VanishesOnRecord ==
  \A v \in Version, r \in Recipient :
    stage[v] = "final" /\ wraps[v][r] # None /\ wraps'[v][r] = None =>
      \/ <<v, r>> \in revoked'
      \/ v < current'
      \/ ~exists' /\ tombstone'

\* The absence of a wrap means something: one of a finalized version vanishes only
\* by a recorded revocation, by supersession, or with the tombstoned file.  The
\* restore merge depends on it.
WrapsVanishOnRecord == [][VanishesOnRecord]_vars

\* get_file reads its rows one query at a time.  What it answers is still the
\* current version with every chunk to be had, or has been superseded or deleted
\* since it began to read: a torn view is never of a file nobody touched.
ViewHoldsOrIsSuperseded ==
  \A t \in Request : op[t].pc = "view" =>
    \/ /\ op[t].v = current
       /\ op[t].framed = framed[current]
       /\ \A slot \in op[t].framed : <<current, slot>> \in blobs
    \/ op[t].v < current
    \/ tombstone

\* The file as its users see it: the published version, what a read of it finds, and
\* who can open it.
PublishedContent ==
  IF current = 0 THEN {} ELSE {slot \in framed[current] : <<current, slot>> \in blobs}
PublishedTo == IF current = 0 THEN {} ELSE {r \in Recipient : wraps[current][r] # None}
Promise == INSTANCE VersionedFile WITH
  Escrow <- Recovery, Whole <- Framings,
  version <- current, content <- PublishedContent, holders <- PublishedTo,
  withdrawn <- revoked, ended <- tombstone

\* However the queries of its requests interleave, the file is one versioned file to its
\* users: a request takes effect at once or not at all, and the rows and blobs that
\* finalize, purge and discard handle one by one never show.
ImplementsVersionedFile == Promise!Spec
=============================================================================
