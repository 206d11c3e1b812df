# MaxSecu: a TLA+ verification project

MaxSecu is an end-to-end encrypted file, blog and video sharing system: a Rust server that keeps
rows in Postgres and ciphertext chunks in a blob store, a desktop client that does all the
cryptography, and an external sink that anchors the log of revocations. This directory models the
parts of it where the order of steps decides whether data survives, checks them with TLC, and
proves the properties that matter most with TLAPS.

Paths below are relative to the repository; `crates/server/src/` is abbreviated to `server/`.

## The system

| component | state it keeps | operations | what is hard | what makes it correct |
|---|---|---|---|---|
| Write-back blob tier (`server/writeback_tier.rs`) | local store, cold store, in-memory LRU index with `in_cold` flags, keys being fetched | PUT, GET, count, delete stream, offload, re-adopt, idle sweep, backup copy | three pieces of state, no lock across an `await`, restarts that empty the index, a cold tier that fails | no chunk lost, no false miss, pinned chunks stay, uploads reach cold, counts exact at rest |
| File rows (`server/pg.rs`, `migrations/`) | `files`, `file_versions`, `file_streams`, `file_key_wraps`, `wrap_revocations`, `file_tombstones` | stage, finalize, discard, delete, add/delete wrap, read | queries outside transactions, READ COMMITTED races, cascades | versions 1..current, one writer of `current_version`, the escrow's wrap, absence on record |
| File handlers (`server/http.rs`, `server/files.rs`) | none of their own | call the rows, then the blobs | rows and blobs change in separate steps; a handler may be dropped at any `await` | a finalized version is whole; a read is not torn |
| Resumable upload (`crates/client-app/src/commands/upload.rs`, `upload_staging.rs`) | staging record on disk, progress in memory | stage, PUT, checkpoint, finalize, resume, cancel, dismiss, sweep | lost answers, app crashes, a server still working for a lost connection | checkpoints never ahead of the server, uploads settle, published files survive |
| Backup, restore, merge (`server/backup/`, `portable-server/src/backup_cli.rs`) | sealed bundles on the cold tier, a manifest per bundle | dump, enumerate, copy, seal, prune; merge into a live database; replace it | old facts meeting new ones: tombstones, revocations, superseded versions; runs cut half way | a listed bundle is whole and opens; what was deleted or revoked stays so; what was lost comes back |
| Control log (`server/control.rs`, `server/pg.rs` `append_control`, the append trigger of `0001_baseline.sql`) | a hash chain of revocation records | append, serve, publish best-effort | concurrent appends, lost publications, restores | one chain; what the log says is never edited |
| Sink (`crates/sink-server`) | the chain it was sent, its anchored head | append, serve the head | it may be ahead of a restored server | it only extends |
| Client trust state (`crates/client-core` `revocation.rs`, `version_memory.rs`, `client-app` `revocations.rs`, `tofu.rs`) | the revocations accepted for a batch, versions and pins remembered | fetch, verify, anchor, refuse | rollback, forks, staleness | nothing confirmed is missed, nothing unknown to the sink accepted |
| Admin ceremony (`crates/admin-core/src/control.rs`) | the head and the epoch counters of a session | begin, issue, resume | counters that start again | epochs name one revocation each |
| Delegation (`server/delegation.rs`, `portable-server/src/delegation_setup.rs`) | the installed pair in memory, three files | bootstrap once, renew, load | three writes, disk errors, crashes | a served root stays; enrollment can always be opened |
| Accounts (`server/auth.rs`, `recovery.rs`, `server/http.rs`, `server/pg.rs`) | recovery account, registration keys, users, bindings, nonces, sessions | challenge, prove, log out, invite, enroll, publish a binding | several queries a request; transactions that wait for each other's rows | one first admin, one account a key, no late proof, no admin the server's key did not make |
| Client caches and jobs (`blob_cache.rs`, `jobs.rs`, ...) | byte-budgeted LRU maps | put, get, evict | accounting | budget kept |
| Everything else | | crypto, encodings, media sandbox, UI, launcher, tools | | pure, presentation or set-up |

The client speaks HTTP to the handlers; each handler runs on its own task of a multi-threaded
runtime, issues queries on a connection pool, and calls the blob store. The portable server gives
them a write-back tier (or the bare local store) and spawns one sweeper task. The backup
subcommand is another process over the same two stores, with a tier and an index of its own.
`PROJECT.json` lists every component with its status, and every hazard of this code at its line
with the property that covers it or the reason none does yet.

## Modules

| module | what it is |
|---|---|
| `ChunkStore` | what a blob store promises (the `BlobStore` trait): a PUT adds a chunk, deleting a stream removes its chunks for good, nothing else changes the set |
| `WriteBackTier` | the tier, one action per access to local, cold or index; refines `ChunkStore` |
| `WriteBackTier_proofs` | its theorems |
| `VersionedFile` | what the server promises of a file: versions published whole, one after another, a recipient shared with or withdrawn at a time and on record, the escrow always among them |
| `FileStore` | one file: rows, chunks and the handlers that drive them, one action per query or transaction; refines `VersionedFile` |
| `FileStore_proofs`, `FileStoreWhole_proofs` | its theorems: for any interleaving, and for handlers that are undisturbed |
| `ResumableUpload` | EXTENDS `FileStore` with the client of an upload |
| `ResumableUpload_proofs` | its theorems |
| `ControlLog` | the control log, the sink, the admin ceremonies and the clients that re-share on what they fetched |
| `ControlLog_proofs` | its theorems |
| `BackupRestore` | the rows of one file, its chunks by incarnation in both tiers, the bundles, and the backup and restore tools |
| `BackupRestore_proofs`, `BackupRestoreTier_proofs` | its theorems: about the rows, and about where the ciphertext is |
| `Delegation` | how the server comes by its directory root: the bootstrap ceremony, its files, renewal |
| `Registry` | what the server promises of its accounts, were each request to happen at once |
| `Accounts` | EXTENDS `Delegation` with login, invitations, enrollment and the directory; refines `Registry` |
| `Accounts_proofs` | theorems of both |
| `MC_Tier`, `MC_File`, `MC_Upload`, `MC_Control`, `MC_Backup`, `MC_Accounts` | values for the constants; each `.cfg` picks among them |

### How they correspond to the code

**Tasks.** In each module `op[t]` is what request, sweeper or backup task `t` is suspended in: the
point between two awaits and the local variables it carries there. An action starts from `IdleOp`
(a call) or from one such point, makes one access to shared state and moves on. `pc` values name
the point after the access before it.

**WriteBackTier.** `local` and `cold` map chunks to bytes; `entries`, `inCold` and `older` are
`LocalIndex` (`older` is the order of `last_tick`); `fetching` is the set of that name. PUT is
`PutLocal`, `PutRecord`, then the offload of the victims: `OffloadDrop`, or `OffloadRead`,
`OffloadUpload`, `OffloadDelete`, with `OffloadFails`, `ReadoptRead`, `ReadoptRecord` on a failure.
GET is `GetLocalHit`, `GetHitRecord` or `GetLocalMiss`, `GetCold`, `GetFill`, `GetFillRecord`.
`chunk_count` is `CountLocal`, `CountCold`, `CountOverlap`; `delete_stream` is `DeleteLocal`,
`DeleteCold`, `DeleteIndex`; the sweep is `Sweep`; the copy is `BackupBegin` .. `BackupAbort`.
`Restart` loses the index and every request; `Cancel` is a handler dropped where it waits for the
cold tier, whose call may have taken effect. `written` and `gone` are history: what a client has
stored and nobody has deleted, and what a deletion has begun on. Deletion removes a chunk from
`written` because every caller deletes a stream after its row has gone.

**FileStore.** `exists`, `current`, `stage`, `framed`, `wraps`, `revoked`, `tombstone` are the rows
of one file; `blobs` the chunks stored. `stage_version` and `delete_file` are transactions and one
action; finalize's transaction locks the `files` row only, so it is `FinalizeCheck` and
`FinalizeWrite` with `FileUnlocked` as the lock; `discard_unfinalized`, `add_wrap`, `get_file` and
`version_meta` use the pool query by query and are one action per query. The handler around them
(`FinalizeBegin` .. `Purge`) reads rows, counts chunks stream by stream, reads the prior version's
blob_refs, commits, then purges best-effort. The blob store answers in one step: that is what
`WriteBackTier` refining `ChunkStore` justifies (a purge takes the stream's chunks at once; what
the tier may leave behind is a finding below). `VersionedFile` is the same file without queries:
the refinement mapping shows `current_version`, those of its framed chunks that are stored, and who
has a wrap of it; what a stage, a discard or a purge does to other versions shows nothing.

**ResumableUpload.** An upload is in two places: as a staging record on disk (`record`, `media`;
`prompt` is the tray's entry for it) and as a `job` in memory. `app` is where `streaming_confirm` is, `conn` the request it
awaits, `orphan` the DELETEs still to be sent. Attempts come one after another, as the UI's serial
queue has them. A cancel, a dismissal and the sweep wait for none: `Discard` takes the record away
while an attempt runs, whose next checkpoint writes it anew, and its DELETE goes out later, on a connection of its
own. A lost connection leaves the server's handler running (`Serve`), so it takes a second `Writer`
to show what overlaps.

**ControlLog.** `log` is the `control_log` table by sequence number, `NoRow` where a number was
taken by an insert that did not commit; an append is the server's guard, the insert with the
trigger's look at the last committed row, and the commit. `sink` is the chain the sink holds: a
publication happens after the commit and may be lost, and an append to the sink that does not
extend it is refused. A record is its predecessor head and a body, so that a head is the sequence
of bodies it stands for (a hash chain without the hashes). `issuer[a]` is a ceremony of the admin
`AdminOf[a]`: the head it read, its epoch counters and the record under way, whose handler goes on when its
connection is lost. An admin may have several ceremonies, as when it tries again meanwhile. `reader[u]` is a re-share
batch: the anchor it fetched, the records it verified against it, and whom it wrapped to since.
`Restore` replaces the table by an earlier one while the server is stopped; the sink, on another
machine, stays.

**BackupRestore.** `live` is the set of rows of one file id across its incarnations and `local`,
`cold` the chunks, each named by what it was encrypted under, so that a chunk re-encrypted under
another DEK is another chunk. The backup is `StartBackup` (the dump), `Enumerate`, `SealAndCopy`
part by part, `Commit` (the manifest) and the prune object by object, any of which may be the last
thing a run does; `Merge` is the merge as a whole, in its transaction, table by table through the gate;
`Replace` is the replacing restore. `LoseRows` and `LoseBox` are the faults a restore is there
for. History variables say what may be expected: what was deleted (`buried`), what was given up,
what was left behind.

**Delegation.** `disk` is the three files, `installed` and `awaiting` the two locks' contents,
`pinned` the `directory_pub` that start-up hands to the rest. `install_bootstrap` holds the
token's lock from its first check to its last write, and is an action per write.

**Accounts.** One variable a table. `enroll` is one transaction, taken apart at the four
statements where it may wait for another; which rows it has locked follows from where it is
(`HoldsKey`, `HoldsName`, `HoldsClaim`), its writes take effect at the commit, and a refused or
dropped one leaves nothing. `prove` and `recovery_verify` are the same three queries and one
action each. `put_binding` is two: the history takes a version once, the users mirror takes the
posted keys each time. A key pair is a number, among those of its user. `Registry` keeps the served
root, who gave each key away, the accounts and the bindings; the claim, the nonces, the sessions and
the state of a key are how the server keeps its promise, and are not in it, nor is the login key,
of which the code keeps none without a hypothesis (`LoginKeyIsBoundHolds`).

## Runs

| run | result | what it shows |
|---|---|---|
| `tier_durable` | holds | `NoChunkLost`, `NoFalseMiss`, `PinnedStaysLocal`, the backup copy accounts for every chunk and reports no false hole, and the tier is a `ChunkStore`, under restarts, dropped handlers, I/O errors, deletions, re-sent chunks |
| `tier_upload` | holds | counts are exact at rest, the index is over its capacity for pinned chunks and the last one recorded only, and uploads reach the cold tier (liveness) |
| `tier_undead` | violated | an offload that has read a chunk uploads it to cold after its stream was deleted from both tiers; no PUT arrives once the deletion has begun |
| `file_store` | holds | a finalized version is whole, versions are a chain, the escrow keeps its wrap, wraps vanish only on record, reads are not torn; the interleaved queries refine `VersionedFile` |
| `file_restage` | violated | the completeness check counts chunks of an earlier framing |
| `upload_resume` | holds | until an upload is discarded, neither its record nor its job is ahead of the server, and it is finalized in the end (liveness) |
| `upload_sweep` | violated | an upload swept during its attempt is published, and then destroyed by the sweep's DELETE |
| `upload_discard` | violated | a discard that overlaps a finalize leaves a published version without chunks or row |
| `control_log` | holds | what an anchored client accepts is a whole, unedited log; a confirmed revocation or narrowing holds until it is lifted, whatever publications are lost and whatever is restored |
| `control_fork` | violated | one admin tries again while the handler of its lost connection is at work; both records pass the append guard before either commits, and the log forks |
| `backup_restore` | holds | a listed bundle is whole and opens, the fresh one is not pruned; a merge brings back nothing that was deleted, revoked or superseded and leaves no version without its row; what was staged since the last restore can be read, and so can what a bundle brought back unless it was superseded, deleted or staged again since |
| `accounts` | holds | a served root stays and enrollment can be opened again; one enrollment makes an admin, a key opens one account, only the recovery principal and that admin invite, a late proof mints no session, enrollments never wait in a circle; the interleaved queries refine `Registry` |

The five violated runs each check one sentence of the repository against what the code does;
`PROJECT.json` quotes it with its line. Those behaviours are real in the model of the code and are
left as they are: no module is bent to make them hold.

### Bounds, and why they are enough

* **Tier.** One or two chunks with capacity 1, so that a second chunk always makes a victim; one
  body stream and one thumbnail stream; in `tier_durable` one request, the sweeper and one backup
  copy (2,060,222 states), so that an offload, a read or a deletion, and the copy of one chunk
  overlap. A second request beside a backup is out of reach of a run; the theorems hold for any
  number of each. One value
  of `Bytes`: clients re-seal a chunk to the same bytes, and the properties ask where it is. The
  idle span is any prefix of the order of use. Events are restricted per question and named in
  `MC_Tier`: `tier_upload` asks about uploads and counts, so reads, re-sends, restarts and
  failures are off; `Request` tasks are symmetric where no liveness is checked.
* **File.** Two versions are the least with a supersession; one content stream of two chunks is
  the least a count can get wrong; the owner and one other user, and the escrow. One request task
  of the owner's client and one of anybody's. Clients may also offer a version without the escrow
  (`Everybody`), which `parse_stage` must refuse. A version is staged with one framing in the
  passing run: with two, `FinalizedWhole` fails, which is what `file_restage` shows.
  1,686,778 states.
* **Control log.** Two admins with a ceremony each, one client, three rows, one restore, each record published once or
  never (1,808,155 states): the least for two ceremonies to race, for a reinstatement to lift a
  revocation another admin issued, and for a client to read between a restore and the next append.
  Orders are a revocation and what lifts it, a narrowing and what raises it (`BackAndForth`).
  A third ceremony, so that an admin races itself beside another, is out of reach of a run; `control_fork`
  has one admin with two ceremonies, and the theorems any number of each admin's.
* **Backup.** One user beside the escrow, versions 1 and 2, three incarnations, four requests after
  version 1 is published, one bundle kept of two stamps, one fault, two restores (4,140,720
  states). Four requests cover: stage again and finalize in the middle of a rotation; delete, create
  again and finalize; revoke; offload, then stage again. `CHECK_DEADLOCK FALSE`: the budgets run
  out.
* **Accounts.** Two roots with a certificate each, two names, three registration keys (the third
  is what a second user could mint), one nonce that can be pruned and issued again, two request tasks,
  key versions 1 and 2, one key pair, both names promotable by the root, one disk error or restart (601,668
  states up to exchange of names, keys, tasks, and of the roots with their certificates). With two
  keys and two faults everything holds too; more faults are covered by the theorems.
  `CHECK_DEADLOCK FALSE`: the fault budget and the keys run out. No property of that run looks at key
  pairs; what is said of them is proved.
* **Upload.** Two content chunks and one metadata chunk: the least where a resume skips something
  and still has something to send. Two faults and one discard in `upload_resume`, one discard and no fault in the
  other two. Two server tasks: the lost connection's, or the DELETE's, and the
  next one's. One upload: those that share the serial queue share nothing else. `CHECK_DEADLOCK FALSE` in the upload runs and `tier_upload`: an upload that is
  finished, or uploads that are all done, leave nothing to do.

### Fairness

* `WriteBackTier!Fairness`: a task that has been started runs on (tokio polls what is ready, and
  the stores' futures complete), and the sweep comes round again with every chunk idle for the span
  (`run.rs` ticks it forever; time passes). Requests, restarts and failures are not fair.
* `ResumableUpload!UploadFairness`: the user tries an upload again as long as it is offered, the app
  goes on with what it began, and the server carries on with each handler. Discards, crashes and
  lost connections are not fair; the latter two are bounded by `MaxFaults`.

## Proofs

All theorems hold for every value of the constants that satisfies the named assumptions
(`TierAssumption`, `FileAssumption`, `ControlAssumption`, those of `BackupRestore`,
`UploadAssumption`, `DelegationAssumption`, `AccountsAssumption`): disjointness of task sets, finiteness of streams and
indices, types. TLC evaluates those of the modules in the runs. Every module has a type invariant, and each is
proved; the runs check those of `ResumableUpload` (with `FileStore`'s in it), `ControlLog` and
`BackupRestore`.

Some theorems have a hypothesis of their own, named in the statement. Each of them is there because
the property fails without it, as a run or a known matter below shows, so that both together say where the property ends:

| hypothesis | meaning | without it |
|---|---|---|
| `OneFraming` | a version is staged again as it was | `file_restage` |
| `OneWriter` | the owner uses one client, which waits for each answer | `upload_discard` |
| `NoDiscard` | nobody gives a version up or deletes the file | `upload_discard`, `upload_sweep` |
| `Undisturbed` | at every moment `NoDiscard`, or one handler at work on the file | `upload_discard` |
| `OneGuarded` | at every moment one append at most between its guard and its commit | `control_fork` |
| `OneKeyPerVersion` | the root publishes a bound version again with the keys it has only | "Known" below |
| `UploadsOnly` | nothing but uploads, offloads and counts | "Known" below |

**WriteBackTier_proofs.** `TypeCorrect`; `NoChunkIsLost`, `NoReadMissesFalsely`, `BackupAccounts`,
`BackupHolesAreDeletions`, `PinnedIsLocal` and `TierImplementsChunkStore`. None of the properties is
inductive: what a task does next depends on what it read some steps ago. The invariant `Durable`
says what each suspended task relies on (`OpRelies`): a victim flagged `in_cold`, an index entry
flagged so, and the chunk of a task about to delete a local copy are each *safe to drop* (in the
cold tier, or dead).  Chunks once safe, or once known to either store, stay so (`ReliesMonotone`),
so a task's knowledge never goes stale. From
it follow the two durability properties, the two backup properties and the refinement, where every
step is a `Put`, a `DeleteStream` or a stutter of `ChunkStore`. `PinnedInv` adds to
`PinnedStaysLocal` that no offload under way holds a pinned chunk. `QuietCountIsExact` assumes
`UploadsOnly` (no event but counting, no backup): by `ApartInv` both tiers hold a chunk only between
its upload to cold and the deletion of the local copy, so at rest the two counts add up.
`IndexKeepsToCapacity` and `EvictionIsLRU`: by `OrderInv` the order of use is a strict total order on
what is indexed. A finite set so ordered has a first and a last member (strict inclusion of finite sets
is well-founded, which the library proves), so that the n least recently used of a set are n of them,
or all (`LeastRecentEnough`, `LeastRecentOnly`). `record_put` thus evicts neither fewer nor more
than it must, and the oldest. This is about the index: what is on the disk and not in the index is
among the known matters below.

**FileStore_proofs.** For any number of clients and any interleaving: `TypeCorrect`,
`LockIsExclusive` (at most one finalize transaction between its check and its write) and
`WrapsLeaveRecords` (an action property: a finalized version's wrap vanishes only by a recorded
revocation, by supersession or with a tombstoned file).

**FileStoreWhole_proofs.** These hold of a file that is `Undisturbed`: nothing may be discarded, or no two
handlers that change the file are at work at once. `OneWriterIsUndisturbed` derives that from
`OneWriter`, and `NoDiscard` is the other half. `ChainHolds` and `EscrowCanOpen`; with
`OneFraming` too, `FinalizedIsWhole`, `ViewsHold` and `FileIsVersionedFile`. The inductive invariant is
`LockHolds` (one transaction holds the lock, and what it read of the `files` row is still so), `ChainInv` (the version
a transaction is to mark is still staged; final means at most current) and `WholeInv`: what the
finalize handler has counted so far is in the blob store, no purge or discard in flight names a
version that is current or could become so, and a reader's half-built view is whole or superseded.
The refinement `FileIsVersionedFile` maps `FinalizeWrite` to `Publish`, a wrap inserted or deleted
for the current version to `Share` and `Withdraw`, `DeleteFile` to `End`, and everything else to a
stutter: by `WholeInv` a purge or a discard takes nothing away that is published (`ContentIsWhole`), so no
half-done request shows. `VersionedWhileUndisturbed` is the same for a file undisturbed for whatever reason.

**ResumableUpload_proofs.** `UploadImplementsFile`: each step of the composition is a `FileStore` step
or leaves the server alone, so what is proved of `FileStore` for any interleaving holds of it.
`UploadTypeCorrect`. `CheckpointHolds`: `StoredUntilDiscarded` is not inductive, since an answer the
client awaits may be of a handler that has not stored anything yet. `SentInv` adds what the app has
got through and what the awaited handler will have done when it says so; `OpsOfUpload` adds that
nothing on the server destroys chunks before something is discarded. Two runs show what a discard beside an
attempt does, with no fault at all, and a record written anew is a third thing ("Known" below); so what is said of a finalized upload has `NoDiscard` for a hypothesis, and
no weaker one would do: `UploadFinalizedIsWhole`, it is whole beside any number of handlers of lost connections,
and `UploadIsVersionedFile`, the upload refines `VersionedFile`.

**ControlLog_proofs.** `TypeCorrect`, `AcceptedIsWhole`, `ConfirmedRevocationStands`,
`ConfirmedNarrowingStands`. The inductive invariant is `LogInv` (the unique indexes keep epochs of
one scope and user apart, so in any head that is served an epoch names one revocation; every head a
row builds on is covered by committed rows), `SinkInv` (the sink's chain is one of committed
bodies and is only extended) and `ReaderInv` (what an anchored reader has seen *is* its anchor;
a reinstatement stands after what it lifts). What was confirmed is then a prefix of what is seen.
`control_fork` shows that the append trigger does not keep the log linear. It does while one append at a
time is between its guard and its commit (`LinkedWhileOneAppends`, by `LinkInv`), however often the server is
restored: the race of two appends is the only way to a fork. One admin suffices for it, since a ceremony may be
resumed while the handler of the last one is still at work.

**BackupRestore_proofs.** `TypeCorrect`, `ListedIsWholeAlways`, `FreshBundleAlways`,
`DeletedAlways`, `NoWrapComesBackAlways`, `SupersededAlways`, `HistoryAlways`. The invariant says
that three kinds of row set are *sound* (the live one, the running dump, every bundle): versions,
streams and wraps of a file belong together (`RowsInv`); that each bundle is a past of the live
database (`LineageInv`: what is missing from the one has been deleted, revoked or superseded on
record, or was lost); and what a run cut half way can have left in a bundle (`BundleInv`).

**BackupRestoreTier_proofs.** `BundleOpensAlways`, `ServedOpensAlways`, over `TierInv`: chunk names
belong to one incarnation (`Names`), what is served is stored (`Served`), what a task holds it has
read (`Held`), what a dump names is in a tier or was given up (`DumpOpens`). What is given up
(superseded, deleted, or staged again since the dump) is purged, and a bundle may bring its rows
back: `ServedOpens` exempts it for rows that a merge or a replace brought, and for no other (`NewIsRead`, by
`NewInv`: a row staged since names a chunk nobody gave up).

**Accounts_proofs.** All properties of `accounts`, and `LoginKeyIsBound` under `OneKeyPerVersion`. `FilesInv` says what the files hold at
each step of a ceremony, that memory agrees with them, and that key and certificate on the disk
come from ceremonies that were begun; `LocksInv`, that the rows an enrollment has locked are locked by it alone
and are as it found them; `RowsInv`, that an operational binding is the first of an enrolled name and that whoever
minted a key was the recovery principal or the one admin such a binding made; `LocalsInv`, what a
handler between two queries still knows. `NoWaitCycle` needs none of it: the statements of `enroll` are in
lock order, whatever the state. `AccountsAreRegistry` maps an enrollment to the commit of its
transaction. `RegistryInv` adds what that needs: the root was served before the transaction began and
still is, the key has an inviter, and whoever commits with the claim is the first to have an account.

**Model-checked only.** `UploadReachesCold` and `UploadSettles`: liveness under fairness is beyond
the prover. Every invariant,
action property and refinement of a run that holds is proved, some under those hypotheses.

## Not modelled

Bytes, keys and signatures (what a chunk decrypts to, whether a manifest verifies); bundles and
their member cascade; chunk GETs in `FileStore` (the tier's GET is in `WriteBackTier`);
`chunk_status` and direct links; local-store errors that end a request before it changed anything;
the temporary files of `FsBlobStore`; Postgres aborting one of two conflicting stage transactions;
quota and idle clocks as numbers. The write-through `TieredBlobStore` and `MemoryStore` are used by
tests only. What the modules leave out of their own parts:

* *Control log:* the sink's position log, its cosigned checkpoints and its directory log: no
  production caller reads them (`CompromiseCheck` is called by tests only). `MemoryStore` lacks the unique index on
  epochs and `MemoryAuditSink` overwrites its position; both are for tests. The revocations a batch
  fetched are used for all of its recipients, which is modelled; that a batch starts its versions at one is not.
* *Backup:* sealing and framing; the account tables except that an owner may be registered
  anew; the audit that verifies restored blobs. Rows are lost between backup runs, not during one;
  the whole database is lost only with the machine.
* *Accounts:* the rate limits; that a registration key expires (it is then as if it had not been
  issued); the publication of an enrollment in the directory log, lost if the handler is dropped
  after the commit (the production sink is `NullAuditSink`); the development profile, whose delegation never
  changes. A binding published for an id that has no account yet is left out: no enrollment gets that id.

### Known, and covered by no property

* Tier: the sweep queues victims without taking them out of the index, and `readopt` drops what
  `record_put` evicts (`writeback_tier.rs:392`), so the disk keeps to the budget approximately, though the
  index does exactly. After a restart a
  local chunk nobody reads is never offered to the sweep (`:326`). A dropped handler leaves its key in
  `fetching` (`:510`). `chunk_count` reads beside an offload (`:539`), and counts an index twice that is
  sent again after it was offloaded (`:559`): a whole upload can be refused. An index sent again with other
  bytes meets an offload of the first ones (`:346`). The backup copy takes a stream for already cold by
  its name (`:427`): staged again under the same version, the bundle lacks what its dump names; `GivenUp`
  in `BackupRestore` exempts it.
* File: `add_wrap` inserts for a version it read two queries ago (`pg.rs:1232`). A PUT that passed the
  not-finalized check writes after finalize has counted (`http.rs:1588`). Two PUTs of an index share
  a temporary file (`blob.rs:232`). The app removes its record before it sends the DELETE (`upload.rs:1883`).
  A sweep or dismissal (`:1880`, `:1907`) during an attempt removes the record, and the attempt's next checkpoint
  makes directory and record anew (`upload_staging.rs:110`) for a version that the DELETE then takes off the
  server: every resume is refused until it is discarded again. `StoredUntilDiscarded` and `UploadSettles`
  exempt it; `CheckpointIsStored` without the exemption fails, with one discard and no fault.
* Restore: a database replaced by a bundle older than the last supersession (publish, back up, publish again,
  replace) serves a version whose chunks have been purged from both tiers; `ServedOpens` exempts it, and
  `verify-restored-blobs` is there to tell. A merge of such a bundle skips those rows.
* Merge: a bundle with finalized versions beyond the live `current_version` inserts rows nothing points to, and
  that version can then never be staged. An id that was deleted and re-created, and whose row is later
  lost, is skipped though the bundle holds it. An older bundle merged after a deletion and a
  re-creation gives recipients of the first file a wrap that opens nothing. Two backups within one
  second would share a stamp. `docs` describe tombstones as merged first; the code merges them last, on purpose.
* Accounts: two proofs matched to one nonce before either consumes it both mint a session (`auth.rs:278`).
  A version published again with other keys is a no-op for the history, but `users.sig_pub` takes them
  (`pg.rs:342`), though `pg.rs:320` calls it a no-op: the login key is then in no row of the directory. Posting an older binding again leaves the history alone but moves the users mirror, and
  with it the login key, back too, to a key that the directory holds but no longer serves; the
  column's comment calls the version monotonic. A binding published by the
  root makes an admin lose that standing, because sessions are checked under the operational key. Two
  ceremonies of different roots, both cut short, can close enrollment for good
  (`NeverStranded` exempts it). A key minted by the recovery principal before anybody has enrolled
  makes its user an admin, though `http.rs:394` says minted keys never do.
* Client: the pin store is opened per command and written as a whole, so of two overlapping batches
  one loses its pin, and the name is pinned anew at its next key. Version memory
  (`version_memory.rs:66`) and the cut points of `scripts/upgrade-server.sh` are not modelled. A clock that steps back keeps a
  rate-limited name blocked longer than the cap.

## Plan

Done: the tier and its store, the file rows and handlers, the resumable upload, the control log with
its sink and readers, backup and restore, delegation and accounts, the three abstract specifications,
and the theorems above.
What is left, in this order:

1. `TrustMemory`: version memory and pins of a client that restarts or runs twice, against a
   server that answers with any earlier state.
2. Local chunks the tier's index does not know: ghosts of the sweep, dropped victims, what was there
   before a restart.
3. The upgrade script's phases with a crash between any two.
4. Rotation of a file on the client, composed with `FileStore` and `ControlLog`.

## Running

    tlc -workers 2 -config Tier_Durable.cfg MC_Tier.tla
    tlapm FileStore_proofs.tla

`PROJECT.json` names, for each run, its module, configuration and properties; for each property a
mutated definition that breaks it; and for each definition the lines of code it stands for.
