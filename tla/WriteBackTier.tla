--------------------------- MODULE WriteBackTier ---------------------------
(***************************************************************************)
(* The write-back blob tier (crates/server/src/writeback_tier.rs): a local *)
(* store that takes every upload, a durable cold tier that chunks migrate  *)
(* to on demand, and an in-memory index of what is local.  The index lock  *)
(* is never held across an await and the local store is reached outside    *)
(* it, so each access to one of the three is an action of its own and      *)
(* tasks interleave between any two of them.                               *)
(*                                                                         *)
(* Abstractions.  Every chunk has size one, so total_bytes is the number   *)
(* of indexed chunks and capacity_bytes a number of chunks.  The clock and *)
(* the tick counter become the order of last use (older); "idle for longer *)
(* than the span" is any prefix of that order.  Victims of one trigger are *)
(* a set, handled in any order.  Where an error of the local store ends a  *)
(* request before it has changed anything, or leaves behind what no row of *)
(* the database names any more, it is left out.                            *)
(***************************************************************************)
EXTENDS Naturals, FiniteSets

CONSTANTS
  Stream,     \* blob_refs
  Index,      \* chunk indices of a stream
  Pinned,     \* the Thumbnail / Preview streams
  Bytes,      \* ciphertexts a client may send for a chunk
  None,       \* no chunk
  Capacity,   \* capacity_bytes, in chunks
  Request,    \* request tasks of the server
  Sweeper,    \* the idle-sweep task (a set of one task, or none)
  Backup,     \* the backup subcommand's process (a set of one, or none)
  Events      \* which of the optional events below a model allows

\* What the environment and the optional callers may do.  "reput": a client
\* re-sends an index it has already sent.  "late": a PUT that found its stream's row
\* reaches the tier after the row, and the stream, have been deleted.  "cancel": hyper
\* drops a handler whose peer went away, at an await that is pending.  "iofail": a tier
\* I/O error.
EventKinds == {"restart", "cancel", "iofail", "delete", "reput", "late", "get", "count"}

Chunk == Stream \X Index
Task == Request \cup Sweeper \cup Backup

\* The tier's tasks are distinct, and a stream has finitely many chunks.
ASSUME TierAssumption ==
  /\ Pinned \subseteq Stream
  /\ IsFiniteSet(Stream) /\ IsFiniteSet(Index)
  /\ None \notin Bytes
  /\ None \notin Chunk
  /\ Capacity \in Nat
  /\ Events \subseteq EventKinds
  /\ Request \cap Sweeper = {}
  /\ Backup \cap (Request \cup Sweeper) = {}

VARIABLES
  local,      \* local[c]: the bytes on local disk, or None
  cold,       \* cold[c]: the bytes in the cold tier, or None
  entries,    \* keys of LocalIndex.entries
  inCold,     \* the entries whose in_cold flag is set
  older,      \* <<a, b>>: entry a was used before entry b (last_tick)
  fetching,   \* keys with a cold fetch in flight
  op,         \* op[t]: what task t is suspended in
  written,    \* history: bytes of the last PUT of a chunk still wanted, or None
  gone        \* history: chunks of streams whose deletion has begun

storeVars == <<local, cold>>
indexVars == <<entries, inCold, older>>
historyVars == <<written, gone>>
others == <<local, cold, entries, inCold, older, fetching, written, gone>>
vars == <<local, cold, entries, inCold, older, fetching, op, written, gone>>

Victim == [key: Chunk, inCold: BOOLEAN]
IdleOp == [pc |-> "idle"]

Operation ==
  {IdleOp}
  \cup [pc: {"record", "hit", "fill", "refill"}, key: Chunk, bytes: Bytes]
  \cup [pc: {"fetch", "notfound"}, key: Chunk, owed: BOOLEAN]
  \cup [pc: {"offload", "readopt"}, queue: SUBSET Victim]
  \cup [pc: {"upload", "drop"}, key: Chunk, bytes: Bytes, queue: SUBSET Victim]
  \cup [pc: {"readd"}, key: Chunk, inCold: BOOLEAN, queue: SUBSET Victim]
  \cup [pc: {"countCold", "countOverlap", "counted"}, stream: Stream, n: Nat]
  \cup [pc: {"delCold", "delIndex"}, keys: SUBSET Chunk]
  \cup [pc: {"copy", "report"}, todo: SUBSET Chunk, refs: SUBSET Chunk,
        missing: SUBSET Chunk]
  \cup [pc: {"copyRead", "copyReprobe"}, key: Chunk, todo: SUBSET Chunk,
        refs: SUBSET Chunk, missing: SUBSET Chunk]
  \cup [pc: {"copyPut"}, key: Chunk, bytes: Bytes, todo: SUBSET Chunk,
        refs: SUBSET Chunk, missing: SUBSET Chunk]

TypeOK ==
  /\ local \in [Chunk -> Bytes \cup {None}]
  /\ cold \in [Chunk -> Bytes \cup {None}]
  /\ entries \subseteq Chunk
  /\ inCold \subseteq entries
  /\ older \subseteq entries \X entries
  /\ fetching \subseteq Chunk
  /\ op \in [Task -> Operation]
  /\ written \in [Chunk -> Bytes \cup {None}]
  /\ gone \subseteq Chunk

Init ==
  /\ local = [c \in Chunk |-> None]
  /\ cold = [c \in Chunk |-> None]
  /\ entries = {}
  /\ inCold = {}
  /\ older = {}
  /\ fetching = {}
  /\ op = [t \in Task |-> IdleOp]
  /\ written = [c \in Chunk |-> None]
  /\ gone = {}

----------------------------------------------------------------------------
(* LocalIndex *)

Present(store, c) == store[c] # None
Held(store, s) == {c \in Chunk : c[1] = s /\ Present(store, c)}

\* delete_chunk of the local store.
WithoutNothing(store, c) == store
Without(store, c) == [store EXCEPT ![c] = None]

Goto(t, next) == op' = [op EXCEPT ![t] = next]
Finish(t) == Goto(t, IdleOp)

\* The entries an offload may take: never those of Thumbnail and Preview streams.
EvictableAnything(S) == S
Evictable(S) == {c \in S : c[1] \notin Pinned}

\* The n least recently used members of S.
LeastRecentButOne(n, S) == {c \in S : Cardinality({d \in S : <<d, c>> \in older}) + 1 < n}
LeastRecent(n, S) == {c \in S : Cardinality({d \in S : <<d, c>> \in older}) < n}

\* What record_put of c evicts to come back within capacity.
VictimsOf(c) ==
  LeastRecent(Cardinality(entries \cup {c}) - Capacity, Evictable(entries \ {c}))

\* The order of use of S once c, in S or not, becomes its latest member.
LatestOf(S, c) ==
  LET rest == S \ {c} IN (older \cap (rest \X rest)) \cup (rest \X {c})

\* The in_cold flags of the kept entries once c is recorded.
FlagsOf(kept, c, flag) ==
  IF flag THEN (inCold \cap kept) \cup {c} ELSE (inCold \cap kept) \ {c}

\* record_put of c with the given in_cold flag, its victims leaving the index.
RecordPut(c, flag, victims) ==
  LET kept == entries \ victims
  IN  /\ entries' = kept \cup {c}
      /\ inCold' = FlagsOf(kept, c, flag)
      /\ older' = LatestOf(kept, c)

\* record_access of an indexed chunk.
RecordAccess(c) ==
  /\ older' = LatestOf(entries, c)
  /\ UNCHANGED <<entries, inCold>>

\* The victims a trigger hands to offload_victims, each with its flag.
QueueOfAllCold(victims) == {[key |-> c, inCold |-> TRUE] : c \in victims}
QueueOf(victims) == {[key |-> c, inCold |-> c \in inCold] : c \in victims}
Offloading(queue) ==
  IF queue = {} THEN IdleOp ELSE [pc |-> "offload", queue |-> queue]

----------------------------------------------------------------------------
(* put_chunk *)

\* The upload lands on the local store.  A client re-sends an index only under
\* "reput", and the deletion of its stream has begun only under "late".
PutLocal(t, c, b) ==
  /\ op[t] = IdleOp
  /\ \/ "reput" \in Events
     \/ /\ written[c] = None
        /\ \A u \in Request : op[u].pc = "record" => op[u].key # c
  /\ "late" \in Events \/ c \notin gone
  /\ local' = [local EXCEPT ![c] = b]
  /\ written' = IF c \in gone THEN written ELSE [written EXCEPT ![c] = b]
  /\ Goto(t, [pc |-> "record", key |-> c, bytes |-> b])
  /\ UNCHANGED <<cold, indexVars, fetching, gone>>

\* It is indexed, and the least recently used chunks become victims.
PutRecord(t) ==
  /\ op[t].pc = "record"
  /\ LET victims == VictimsOf(op[t].key)
     IN  /\ RecordPut(op[t].key, FALSE, victims)
         /\ Goto(t, Offloading(QueueOf(victims)))
  /\ UNCHANGED <<storeVars, fetching, historyVars>>

----------------------------------------------------------------------------
(* offload, offload_victims and readopt *)

\* An already-cold victim is dropped from local; one gone from local is skipped.
OffloadDrop(t) ==
  /\ op[t].pc = "offload"
  /\ \E v \in op[t].queue :
       /\ \/ v.inCold /\ local' = Without(local, v.key)
          \/ ~v.inCold /\ ~Present(local, v.key) /\ UNCHANGED local
       /\ Goto(t, Offloading(op[t].queue \ {v}))
  /\ UNCHANGED <<cold, indexVars, fetching, historyVars>>

\* A local-only victim is read ...
OffloadRead(t) ==
  /\ op[t].pc = "offload"
  /\ \E v \in op[t].queue :
       /\ ~v.inCold
       /\ Present(local, v.key)
       /\ Goto(t, [pc |-> "upload", key |-> v.key, bytes |-> local[v.key],
                   queue |-> op[t].queue \ {v}])
  /\ UNCHANGED others

\* ... uploaded to the cold tier ...
OffloadUpload(t) ==
  /\ op[t].pc = "upload"
  /\ cold' = [cold EXCEPT ![op[t].key] = op[t].bytes]
  /\ Goto(t, [op[t] EXCEPT !.pc = "drop"])
  /\ UNCHANGED <<local, indexVars, fetching, historyVars>>

\* ... and only then deleted from local.
OffloadDelete(t) ==
  /\ op[t].pc = "drop"
  /\ local' = Without(local, op[t].key)
  /\ Goto(t, Offloading(op[t].queue))
  /\ UNCHANGED <<cold, indexVars, fetching, historyVars>>

\* Slip: a failed upload is taken for a done one.
OffloadFailsUnnoticed(t) ==
  /\ "iofail" \in Events
  /\ op[t].pc = "upload"
  /\ Goto(t, [op[t] EXCEPT !.pc = "drop"])
  /\ UNCHANGED others

\* The first failure stops the loop: this victim and the rest are re-adopted.
\* A failed upload may still have reached the cold tier.
OffloadFails(t) ==
  /\ "iofail" \in Events
  /\ \/ /\ op[t].pc = "offload"
        /\ Goto(t, [pc |-> "readopt", queue |-> op[t].queue])
        /\ UNCHANGED cold
     \/ /\ op[t].pc \in {"upload", "drop"}
        /\ Goto(t, [pc |-> "readopt",
                    queue |-> op[t].queue \cup {[key |-> op[t].key, inCold |-> FALSE]}])
        /\ \/ UNCHANGED cold
           \/ op[t].pc = "upload" /\ cold' = [cold EXCEPT ![op[t].key] = op[t].bytes]
  /\ UNCHANGED <<local, indexVars, fetching, historyVars>>

Readopting(queue) ==
  IF queue = {} THEN IdleOp ELSE [pc |-> "readopt", queue |-> queue]

\* readopt reads the chunk back, and forgets one it cannot read ...
ReadoptRead(t) ==
  /\ op[t].pc = "readopt"
  /\ \E v \in op[t].queue :
       \/ /\ Present(local, v.key)
          /\ Goto(t, [pc |-> "readd", key |-> v.key, inCold |-> v.inCold,
                      queue |-> op[t].queue \ {v}])
       \/ /\ ~Present(local, v.key) \/ "iofail" \in Events
          /\ Goto(t, Readopting(op[t].queue \ {v}))
  /\ UNCHANGED others

\* ... and indexes it again; the victims record_put returns are dropped.
ReadoptRecord(t) ==
  /\ op[t].pc = "readd"
  /\ RecordPut(op[t].key, op[t].inCold, VictimsOf(op[t].key))
  /\ Goto(t, Readopting(op[t].queue))
  /\ UNCHANGED <<storeVars, fetching, historyVars>>

----------------------------------------------------------------------------
(* get_chunk *)

\* A chunk a client has sent and nobody is deleting.
Wanted(c) == written[c] # None

\* Local hit.
GetLocalHit(t, c) ==
  /\ "get" \in Events
  /\ op[t] = IdleOp
  /\ Present(local, c)
  /\ Goto(t, [pc |-> "hit", key |-> c, bytes |-> local[c]])
  /\ UNCHANGED others

\* An indexed chunk is touched; an unseen one is adopted as local-only, and the
\* victims record_put returns are dropped.
GetHitRecord(t) ==
  /\ op[t].pc = "hit"
  /\ IF op[t].key \in entries
     THEN RecordAccess(op[t].key)
     ELSE RecordPut(op[t].key, FALSE, VictimsOf(op[t].key))
  /\ Finish(t)
  /\ UNCHANGED <<storeVars, fetching, historyVars>>

\* Local miss: the key is marked as being fetched and the cold tier is asked.
GetLocalMiss(t, c) ==
  /\ "get" \in Events
  /\ op[t] = IdleOp
  /\ ~Present(local, c)
  /\ fetching' = fetching \cup {c}
  /\ Goto(t, [pc |-> "fetch", key |-> c, owed |-> Wanted(c)])
  /\ UNCHANGED <<storeVars, indexVars, historyVars>>

\* The cold tier answers with the bytes, with nothing, or with an error.
GetCold(t) ==
  /\ op[t].pc = "fetch"
  /\ fetching' = fetching \ {op[t].key}
  /\ \/ /\ Present(cold, op[t].key)
        /\ Goto(t, [pc |-> "fill", key |-> op[t].key, bytes |-> cold[op[t].key]])
     \/ /\ ~Present(cold, op[t].key)
        /\ Goto(t, [op[t] EXCEPT !.pc = "notfound"])
     \/ /\ "iofail" \in Events
        /\ Finish(t)
  /\ UNCHANGED <<storeVars, indexVars, historyVars>>

\* Rehydrate: a copy goes back to the local store ...
GetFill(t) ==
  /\ op[t].pc = "fill"
  /\ \/ /\ local' = [local EXCEPT ![op[t].key] = op[t].bytes]
        /\ Goto(t, [op[t] EXCEPT !.pc = "refill"])
     \/ /\ "iofail" \in Events
        /\ UNCHANGED local
        /\ Finish(t)
  /\ UNCHANGED <<cold, indexVars, fetching, historyVars>>

\* ... and is indexed as resident in both tiers.
GetFillRecord(t) ==
  /\ op[t].pc = "refill"
  /\ LET victims == VictimsOf(op[t].key)
     IN  /\ RecordPut(op[t].key, TRUE, victims)
         /\ Goto(t, Offloading(QueueOf(victims)))
  /\ UNCHANGED <<storeVars, fetching, historyVars>>

----------------------------------------------------------------------------
(* chunk_count *)

Overlap(s) == Cardinality({c \in inCold : c[1] = s})
SaturatingSub(m, n) == IF m < n THEN 0 ELSE m - n

\* The local count ...
CountLocal(t, s) ==
  /\ "count" \in Events
  /\ op[t] = IdleOp
  /\ Goto(t, [pc |-> "countCold", stream |-> s, n |-> Cardinality(Held(local, s))])
  /\ UNCHANGED others

\* ... plus the cold count, or alone when the cold tier errs ...
CountCold(t) ==
  /\ op[t].pc = "countCold"
  /\ \/ Goto(t, [pc |-> "countOverlap", stream |-> op[t].stream,
                 n |-> op[t].n + Cardinality(Held(cold, op[t].stream))])
     \/ "iofail" \in Events /\ Goto(t, [op[t] EXCEPT !.pc = "counted"])
  /\ UNCHANGED others

\* ... less the chunks the index knows to be in both.
CountOverlap(t) ==
  /\ op[t].pc = "countOverlap"
  /\ Goto(t, [pc |-> "counted", stream |-> op[t].stream,
              n |-> SaturatingSub(op[t].n, Overlap(op[t].stream))])
  /\ UNCHANGED others

----------------------------------------------------------------------------
(* delete_stream *)

\* A caller deletes a stream once its row is gone from the database: it is
\* uploaded again neither under this blob_ref nor wanted any more.
DeleteLocal(t, s) ==
  /\ "delete" \in Events
  /\ op[t] = IdleOp
  /\ LET keys == {c \in Chunk : c[1] = s}
     IN  /\ local' = [c \in Chunk |-> IF c \in keys THEN None ELSE local[c]]
         /\ written' = [c \in Chunk |-> IF c \in keys THEN None ELSE written[c]]
         /\ gone' = gone \cup keys
         /\ Goto(t, [pc |-> "delCold", keys |-> keys])
  /\ UNCHANGED <<cold, indexVars, fetching>>

DeleteCold(t) ==
  /\ op[t].pc = "delCold"
  /\ \/ /\ cold' = [c \in Chunk |-> IF c \in op[t].keys THEN None ELSE cold[c]]
        /\ Goto(t, [op[t] EXCEPT !.pc = "delIndex"])
     \/ /\ "iofail" \in Events
        /\ UNCHANGED cold
        /\ Finish(t)
  /\ UNCHANGED <<local, indexVars, fetching, historyVars>>

DeleteIndex(t) ==
  /\ op[t].pc = "delIndex"
  /\ entries' = entries \ op[t].keys
  /\ inCold' = inCold \ op[t].keys
  /\ older' = {o \in older : o[1] \notin op[t].keys /\ o[2] \notin op[t].keys}
  /\ Finish(t)
  /\ UNCHANGED <<storeVars, fetching, historyVars>>

----------------------------------------------------------------------------
(* run_idle_sweep *)

\* The n chunks used longest ago have been idle for the whole span: those that
\* may be offloaded are queued, and stay in the index.
IdleVictimsBeforeCutoff(n) == Evictable(LeastRecent(n - 1, entries))
IdleVictims(n) == Evictable(LeastRecent(n, entries))

Sweep(t, n) ==
  /\ op[t] = IdleOp
  /\ IdleVictims(n) # {}
  /\ Goto(t, Offloading(QueueOf(IdleVictims(n))))
  /\ UNCHANGED others

----------------------------------------------------------------------------
(* backup_copy_refs *)

\* The chunks of the finalized streams the database lists.
FinalizedRefs == {c \in Chunk : \A i \in Index : Wanted(<<c[1], i>>)}

Copying(o, todo, missing) ==
  [pc |-> IF todo = {} THEN "report" ELSE "copy",
   todo |-> todo, refs |-> o.refs, missing |-> missing]

BackupBegin(t) ==
  /\ op[t] = IdleOp
  /\ FinalizedRefs # {}
  /\ Goto(t, [pc |-> "copy", todo |-> FinalizedRefs, refs |-> FinalizedRefs, missing |-> {}])
  /\ UNCHANGED others

\* A chunk the cold tier already holds (has_chunk, not the index) needs nothing.
AlreadyColdByIndex(c) == c \notin entries \/ Present(cold, c)
AlreadyCold(c) == Present(cold, c)

BackupProbe(t) ==
  /\ op[t].pc = "copy"
  /\ \E c \in op[t].todo :
       IF AlreadyCold(c)
       THEN Goto(t, Copying(op[t], op[t].todo \ {c}, op[t].missing))
       ELSE Goto(t, [pc |-> "copyRead", key |-> c, todo |-> op[t].todo \ {c},
                     refs |-> op[t].refs, missing |-> op[t].missing])
  /\ UNCHANGED others

BackupRead(t) ==
  /\ op[t].pc = "copyRead"
  /\ LET c == op[t].key
     IN  IF Present(local, c)
         THEN Goto(t, [pc |-> "copyPut", key |-> c, bytes |-> local[c], todo |-> op[t].todo,
                       refs |-> op[t].refs, missing |-> op[t].missing])
         ELSE Goto(t, [op[t] EXCEPT !.pc = "copyReprobe"])
  /\ UNCHANGED others

\* Absent locally: an offload may have moved it since the probe, so ask again.
HoleAtLocalMiss(c) == {c}
HoleAt(c) == IF Present(cold, c) THEN {} ELSE {c}

BackupReprobe(t) ==
  /\ op[t].pc = "copyReprobe"
  /\ Goto(t, Copying(op[t], op[t].todo, op[t].missing \cup HoleAt(op[t].key)))
  /\ UNCHANGED others

\* The copy leaves the local chunk and the index alone.
BackupPut(t) ==
  /\ op[t].pc = "copyPut"
  /\ cold' = [cold EXCEPT ![op[t].key] = op[t].bytes]
  /\ Goto(t, Copying(op[t], op[t].todo, op[t].missing))
  /\ UNCHANGED <<local, indexVars, fetching, historyVars>>

\* Any tier I/O error aborts the copy.
BackupAbort(t) ==
  /\ "iofail" \in Events
  /\ op[t].pc \in {"copy", "copyRead", "copyReprobe", "copyPut"}
  /\ Finish(t)
  /\ UNCHANGED others

----------------------------------------------------------------------------
(* Answers, restart and cancellation *)

\* The caller has its answer: no such chunk, a count, a copy report.
Return(t) ==
  /\ op[t].pc \in {"notfound", "counted", "report"}
  /\ Finish(t)
  /\ UNCHANGED others

\* The server process dies; the stores survive, the index starts empty.  The
\* backup is another process and goes on.
Restart ==
  /\ "restart" \in Events
  /\ op' = [t \in Task |-> IF t \in Backup THEN op[t] ELSE IdleOp]
  /\ entries' = {} /\ inCold' = {} /\ older' = {}
  /\ fetching' = {}
  /\ UNCHANGED <<storeVars, historyVars>>

\* The peer of a request goes away and its handler is dropped where it waits for
\* the cold tier (the local store never suspends).  The cold operation may have
\* been carried out.
Cancel(t) ==
  /\ "cancel" \in Events
  /\ op[t].pc \in {"upload", "fetch", "countCold", "delCold"}
  /\ \/ UNCHANGED cold
     \/ op[t].pc = "upload" /\ cold' = [cold EXCEPT ![op[t].key] = op[t].bytes]
     \/ /\ op[t].pc = "delCold"
        /\ cold' = [c \in Chunk |-> IF c \in op[t].keys THEN None ELSE cold[c]]
  /\ Finish(t)
  /\ UNCHANGED <<local, indexVars, fetching, historyVars>>

----------------------------------------------------------------------------
(* Specification *)

\* What a request asks for.
Call(t) ==
  \/ \E c \in Chunk :
       \/ \E b \in Bytes : PutLocal(t, c, b)
       \/ GetLocalHit(t, c)
       \/ GetLocalMiss(t, c)
  \/ \E s \in Stream : CountLocal(t, s) \/ DeleteLocal(t, s)

\* How the tier carries on with what it was asked for.
Proceed(t) ==
  \/ PutRecord(t)
  \/ OffloadDrop(t) \/ OffloadRead(t) \/ OffloadUpload(t) \/ OffloadDelete(t)
  \/ ReadoptRead(t) \/ ReadoptRecord(t)
  \/ GetHitRecord(t) \/ GetCold(t) \/ GetFill(t) \/ GetFillRecord(t)
  \/ CountCold(t) \/ CountOverlap(t) \/ Return(t)
  \/ DeleteCold(t) \/ DeleteIndex(t)

Copy(t) ==
  \/ BackupBegin(t) \/ BackupProbe(t) \/ BackupRead(t) \/ BackupReprobe(t)
  \/ BackupPut(t) \/ Return(t) \/ BackupAbort(t)

Next ==
  \/ \E t \in Request : Call(t) \/ Cancel(t)
  \/ \E t \in Sweeper, n \in 1..Cardinality(entries) : Sweep(t, n)
  \/ \E t \in Request \cup Sweeper : Proceed(t) \/ OffloadFails(t)
  \/ \E t \in Backup : Copy(t)
  \/ Restart

Spec == Init /\ [][Next]_vars

\* Every task that has been started runs on, and the sweep comes round again
\* (run.rs ticks it forever) once every chunk has been idle for the span.
\* Requests, restarts and failures may happen or not.
Fairness ==
  /\ \A t \in Request \cup Sweeper : WF_vars(Proceed(t))
  /\ \A t \in Sweeper : WF_vars(Sweep(t, Cardinality(entries)))

FairSpec == Spec /\ Fairness

----------------------------------------------------------------------------
(* Properties *)

\* No chunk a client has sent and nobody has deleted is ever in neither tier,
\* whatever offloads, rehydrates, evictions, failures, cancellations and restarts
\* overlap (the fail-safe rule: an offload never deletes a local copy it has not
\* durably stored).
NoChunkLost == \A c \in Chunk : Wanted(c) => Present(local, c) \/ Present(cold, c)

\* A chunk of a Thumbnail or Preview stream stays on local disk: no trigger, sweep
\* or re-adoption ever offloads it.
PinnedStaysLocal == \A c \in Chunk : c[1] \in Pinned /\ Wanted(c) => Present(local, c)

\* The index keeps to its capacity, over which it goes for pinned chunks and the one just
\* recorded only, whatever is recorded, touched, removed and re-adopted in between.
IndexWithinCapacity ==
  \/ Cardinality(entries) <= Capacity
  \/ \A c, d \in Evictable(entries) : c = d

\* get_chunk reads local and then cold without a lock; an offload in between
\* moves the chunk the other way only after cold holds it, so a chunk that was
\* there when the read began is never reported absent unless deleted meanwhile.
NoFalseMiss ==
  \A t \in Request : op[t].pc = "notfound" /\ op[t].owed => op[t].key \in gone

\* A backup run that ends has every chunk it was asked for in the cold tier, in
\* its missing list, or deleted since.
BackupAccountsForAll ==
  \A t \in Backup : op[t].pc = "report" =>
    \A c \in op[t].refs : Present(cold, c) \/ c \in op[t].missing \/ c \in gone

\* What a backup run lists as missing was deleted while it ran: an offload that
\* overlaps the copy never makes a hole appear (the re-probe).
BackupMissingIsGone ==
  \A t \in Backup : op[t].pc \in {"copy", "report"} => op[t].missing \subseteq gone

\* The tier as a ChunkStore: a read finds what either store holds, and the chunks
\* a deletion has not reached yet, or a late write brings back, no longer count.
StreamOf(c) == c[1]
Readable == {c \in Chunk : (Present(local, c) \/ Present(cold, c)) /\ c \notin gone}
Abstract == INSTANCE ChunkStore WITH store <- Readable, dead <- gone

\* However chunks move between the stores, the tier is one durable store to its
\* callers: only a PUT adds a readable chunk and only a deletion takes one away.
ImplementsChunkStore == Abstract!Spec

Quiet == \A t \in Task : op[t] = IdleOp

\* What chunk_count would answer now, and what there is to count.
CountOf(s) ==
  SaturatingSub(Cardinality(Held(local, s)) + Cardinality(Held(cold, s)), Overlap(s))
Stored(s) == Cardinality(Held(local, s) \cup Held(cold, s))

\* While chunks are only uploaded and offloaded (no read, no re-sent index, no
\* restart, no failure, no backup) chunk_count is exact once nothing is in flight: the finalize
\* check accepts a whole upload and refuses one with a hole.  (An index sent again
\* after it was offloaded is counted in both tiers.)
QuietCountExact == Quiet => \A s \in Stream : CountOf(s) = Stored(s)

\* An upload nobody touches any more reaches the cold tier (lazy offload: by
\* capacity or by the idle sweep), if its stream may be offloaded.
UploadReachesCold ==
  \A c \in Chunk : c[1] \notin Pinned =>
    (Wanted(c) ~> (Present(cold, c) \/ c \in gone))

\* delete_stream leaves nothing of the stream in either tier, whatever offloads and
\* rehydrating reads of it are under way.  (Under "late" a PUT may of course put a chunk
\* back: run tier_undead has none.)
DeletedIsPurged == Quiet => \A c \in gone : ~Present(local, c) /\ ~Present(cold, c)
============================================================================
