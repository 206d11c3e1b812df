---------------------------- MODULE BackupRestore ----------------------------
(***************************************************************************)
(* The operator's backup of a running server, its retention, and the two   *)
(* ways back: `--replace`, which puts a bundle's database in the place of  *)
(* the live one, and the merge, which adds a bundle's rows to the live     *)
(* database, gated on what the owners have deleted and revoked since.      *)
(*                                                                         *)
(* One file id with one stream per version stands for all: a bundle's      *)
(* subtrees are merged independently of one another.  Each request of the  *)
(* server is one step here (FileStore takes them apart into queries and    *)
(* WriteBackTier does the same for the tier); a backup run is taken apart  *)
(* because the server works on beside it.                                  *)
(*                                                                         *)
(* Every staging encrypts under a fresh DEK.  A generation is the number   *)
(* of a staging and stands for its DEK, its manifest and its ciphertext;   *)
(* the store names ciphertext by the version number alone (blob_ref), so   *)
(* two generations of one version share a name.                            *)
(***************************************************************************)
EXTENDS Integers, Sequences, FiniteSets

CONSTANTS
  Users,        \* recipients other than the owner and the recovery key
  MaxVersion,   \* bound: version numbers
  MaxGen,       \* bound: stagings over the whole behaviour
  MaxRequests,  \* bound: requests and offloads over the whole behaviour
  MaxStamp,     \* bound: bundle stamps, ordered as the stamp strings are
  Keep,         \* bundles the retention keeps
  MaxFaults,    \* bound: failed purges, lost rows and lost boxes
  MaxRestores   \* bound: replaces and merges

ASSUME Bounds ==
  /\ MaxVersion \in Nat \ {0}
  /\ MaxGen \in Nat \ {0}
  /\ MaxRequests \in Nat
  /\ MaxStamp \in Nat \ {0}
  /\ Keep \in Nat \ {0}
  /\ MaxFaults \in Nat
  /\ MaxRestores \in Nat

Versions == 1..MaxVersion
Gens     == 1..MaxGen
Stamps   == 1..MaxStamp
NoGen    == 0

Wrap == [v: Versions, u: Users, g: Gens]

(* The rows of the file in one database.  `stream` holds the generation    *)
(* whose streams and manifest the version has rows for; `owner` is the     *)
(* users row its owner_id needs.  The last two fields are no columns: what *)
(* this database's history has denied and destroyed, for the properties.   *)
Rows == [exists:  BOOLEAN,
         current: 0..MaxVersion,
         final:   SUBSET Versions,
         stream:  [Versions -> 0..MaxGen],
         wraps:   SUBSET Wrap,
         tomb:    BOOLEAN,
         revoked: SUBSET (Versions \X Users),
         owner:   {"present", "absent", "taken"},
         denied:  SUBSET (Gens \X Users),
         buried:  SUBSET Gens]

NoFile(r) == [r EXCEPT !.exists = FALSE, !.current = 0, !.final = {},
                       !.stream = [v \in Versions |-> NoGen], !.wraps = {}]

EmptyRows == [exists |-> FALSE, current |-> 0, final |-> {},
              stream |-> [v \in Versions |-> NoGen], wraps |-> {},
              tomb |-> FALSE, revoked |-> {}, owner |-> "absent",
              denied |-> {}, buried |-> {}]

Bundle  == [db: BOOLEAN, state: BOOLEAN, manifest: BOOLEAN,
            seq: 0..MaxStamp, rows: Rows]
NoBundle == [db |-> FALSE, state |-> FALSE, manifest |-> FALSE,
             seq |-> 0, rows |-> EmptyRows]

VARIABLES
  live,      \* the live database's rows of the file
  local,     \* what the local disk holds under each version's blob_ref
  cold,      \* what the cold tier holds under it
  made,      \* the version each generation was staged as, in order
  bundles,   \* _backup/<stamp> on the cold tier
  pc,        \* where the backup run is
  run,       \* its locals: stamp, dump, refs, holes
  commits,   \* bundles published, numbering them
  complete,  \* the last run that printed "backup complete"
  retired,   \* generations whose name has been purged on purpose
  left,      \* generations made before a loss or a replace
  requests,
  faults,
  restores

store  == <<live, local, cold, made, retired>>
backup == <<bundles, pc, run, commits, complete>>
spent  == <<requests, faults, restores>>
vars   == <<store, backup, left, spent>>

NoRun == [stamp |-> 0, dump |-> EmptyRows, refs |-> {}, holes |-> {}]

\* A server that has been in use: its owner has published version 1, whose
\* chunks are still on the local disk, and shared it with some.
InUse(given) ==
  [EmptyRows EXCEPT !.exists = TRUE, !.current = 1, !.final = {1},
                    !.stream = [@ EXCEPT ![1] = 1],
                    !.wraps = {[v |-> 1, u |-> u, g |-> 1] : u \in given},
                    !.owner = "present"]

Init ==
  /\ live \in {InUse(given) : given \in SUBSET Users}
  /\ local = [v \in Versions |-> IF v = 1 THEN 1 ELSE NoGen]
  /\ cold = [v \in Versions |-> NoGen]
  /\ made = <<1>>
  /\ bundles = [s \in Stamps |-> NoBundle]
  /\ pc = "idle"
  /\ run = NoRun
  /\ commits = 0
  /\ complete = 0
  /\ retired = {}
  /\ left = {}
  /\ requests = 0
  /\ faults = 0
  /\ restores = 0

-----------------------------------------------------------------------------
(* The server's requests.                                                  *)

AllGens == DOMAIN made

\* Generations staged under the name of version v.
Named(v) == {g \in AllGens : made[g] = v}

\* A version with rows that is not final.
Staged(r) == {v \in Versions : r.stream[v] # NoGen /\ v \notin r.final}

\* A read: local first, then cold.
Read(v) == IF local[v] # NoGen THEN local[v] ELSE cold[v]

\* delete_stream of the names in vs: both tiers, best-effort.
Purge(vs) ==
  /\ \/ /\ local' = [v \in Versions |-> IF v \in vs THEN NoGen ELSE local[v]]
        /\ cold' = [v \in Versions |-> IF v \in vs THEN NoGen ELSE cold[v]]
        /\ UNCHANGED faults
     \/ /\ faults < MaxFaults
        /\ faults' = faults + 1
        /\ UNCHANGED <<local, cold>>
  /\ retired' = retired \union UNION {Named(v) : v \in vs}

\* create_file (no row yet, or only a staged version 1) and stage_version: a
\* new generation replaces the staged one; no tombstone is consulted.
Stage(given) ==
  LET g == Len(made) + 1
      v == IF live.exists THEN live.current + 1 ELSE 1
  IN /\ live.owner = "present"
     /\ g \in Gens
     /\ v \in Versions \ live.final
     /\ live' = [live EXCEPT
                   !.exists = TRUE,
                   !.stream = [@ EXCEPT ![v] = g],
                   !.wraps = {w \in @ : w.v # v}
                             \union {[v |-> v, u |-> u, g |-> g] : u \in given}]
     /\ made' = Append(made, v)
     /\ local' = [local EXCEPT ![v] = g]
     /\ UNCHANGED <<cold, retired, backup, left, faults, restores>>

\* A client is at work on the last generation only: staging anew gives up
\* the staging before.
InHand(v) == v \in Staged(live) /\ live.stream[v] = Len(made)

\* The tier moves a chunk to cold, overwriting what lies there.
Offload(v) ==
  /\ local[v] # NoGen
  /\ cold' = [cold EXCEPT ![v] = local[v]]
  /\ local' = [local EXCEPT ![v] = NoGen]
  /\ UNCHANGED <<live, made, retired, backup, left, faults, restores>>

\* finalize_version: the server counts the chunks under the name; the prior
\* version loses its streams and wraps, then its chunks.
Finalize ==
  LET v == live.current + 1 IN
  /\ v \in Versions /\ InHand(v)
  /\ Read(v) # NoGen
  /\ live' = [live EXCEPT
                !.current = v,
                !.final = @ \union {v},
                !.stream = [u \in Versions |-> IF u = live.current THEN NoGen ELSE @[u]],
                !.wraps = {w \in @ : w.v # live.current}]
  /\ Purge({live.current} \ {0})
  /\ UNCHANGED <<made, backup, left, restores>>

\* DELETE of a file: a file with no finalized version only loses what is
\* staged; any other is destroyed, and a tombstone recorded with it.
DiscardStaged ==
  /\ live.exists /\ live.current = 0
  /\ live' = [live EXCEPT
                !.stream = [v \in Versions |-> IF v \in Staged(live) THEN NoGen ELSE @[v]],
                !.wraps = {w \in @ : w.v \notin Staged(live)}]
  /\ Purge(Staged(live))
  /\ UNCHANGED <<made, backup, left, restores>>

Delete ==
  /\ live.exists /\ live.current >= 1
  /\ live' = [NoFile(live) EXCEPT !.tomb = TRUE, !.buried = @ \union AllGens]
  /\ Purge({v \in Versions : live.stream[v] # NoGen})
  /\ UNCHANGED <<made, backup, left, restores>>

\* add_wrap: an upsert of the current version's wrap for u.
AddWrap(u) ==
  LET v == live.current IN
  /\ live.exists /\ v >= 1
  /\ live.stream[v] # NoGen
  /\ live' = [live EXCEPT
                !.wraps = {w \in @ : ~(w.v = v /\ w.u = u)}
                          \union {[v |-> v, u |-> u, g |-> live.stream[v]]},
                !.denied = @ \ {<<live.stream[v], u>>}]
  /\ UNCHANGED <<local, cold, made, retired, backup, left, faults, restores>>

\* delete_wrap: the wrap goes and the revocation is recorded with it.
DeleteWrap(w) ==
  /\ w \in live.wraps /\ w.v = live.current
  /\ live' = [live EXCEPT !.wraps = @ \ {w},
                          !.revoked = @ \union {<<w.v, w.u>>},
                          !.denied = @ \union {<<w.g, w.u>>}]
  /\ UNCHANGED <<local, cold, made, retired, backup, left, faults, restores>>

-----------------------------------------------------------------------------
(* One backup run, beside the server.                                      *)

CurrentStreams(r) ==
  IF r.exists /\ r.current >= 1 /\ r.stream[r.current] # NoGen
  THEN {r.current} ELSE {}

\* A stamp under which nothing lies (stamps have one-second resolution and a
\* clock that may step back: fresh, but in any order), and the pg_dump.
StartBackup(s) ==
  /\ pc = "idle"
  /\ bundles[s] = NoBundle
  /\ commits < MaxStamp
  /\ pc' = "dumped"
  /\ run' = [NoRun EXCEPT !.stamp = s, !.dump = live]
  /\ UNCHANGED <<store, bundles, commits, complete, left, spent>>

\* The streams to copy are listed after the dump, so that a version finalized
\* in between is copied needlessly rather than missed.
ListedUnjoined(r) == [r EXCEPT !.refs = {live.current}]
ListedThenDumped(r) == [r EXCEPT !.refs = CurrentStreams(r.dump), !.dump = live]
Listed(r) == [r EXCEPT !.refs = CurrentStreams(live)]

Enumerate ==
  /\ pc = "dumped"
  /\ run' = Listed(run)
  /\ pc' = "listed"
  /\ UNCHANGED <<store, bundles, commits, complete, left, spent>>

\* backup_copy_refs asks cold for the name, not for the bytes under it.
AlreadySomewhere(v) == Read(v) # NoGen
AlreadyCold(v) == cold[v] # NoGen

\* What a seal leaves under its stamp: the database first, then the state.
Parts(st) == [NoBundle EXCEPT !.db = TRUE, !.state = st]

\* The dump and the state files are sealed, each component whole once its
\* part 0, written last, is there; then the listed streams are copied.
SealAndCopy ==
  /\ pc = "listed"
  /\ bundles' = [bundles EXCEPT ![run.stamp] = Parts(TRUE)]
  /\ cold' = [v \in Versions |->
                IF v \in run.refs /\ ~AlreadyCold(v) THEN local[v] ELSE cold[v]]
  /\ run' = [run EXCEPT !.holes = {v \in run.refs : Read(v) = NoGen}]
  /\ pc' = "copied"
  /\ UNCHANGED <<live, local, made, retired, commits, complete, left, spent>>

\* A hole is forgiven if its stream is no longer current.
RealHoles == run.holes \intersect CurrentStreams(live)

Published == {s \in Stamps : bundles[s].manifest}

WithManifest(s) ==
  [bundles EXCEPT ![s] = [db |-> TRUE, state |-> TRUE, manifest |-> TRUE,
                          seq |-> commits + 1, rows |-> run.dump]]

\* prune_protecting: all but the newest `keep` stamps, never the run's own.
VictimsUnprotected(s) ==
  LET listed == Published \union {s}
  IN {t \in listed : Cardinality({n \in listed : n > t}) >= Keep}

Victims(s) ==
  LET listed == Published \union {s}
  IN {t \in listed : Cardinality({n \in listed : n > t}) >= Keep} \ {s}

\* A victim with its first n objects deleted: the manifest goes first, then
\* the database, then the state.
ShrunkManifestLast(b, n) ==
  IF n = 0 THEN b
  ELSE [b EXCEPT !.db = FALSE, !.state = n = 1, !.manifest = n # 3]
Shrunk(b, n) ==
  IF n = 0 THEN b ELSE [NoBundle EXCEPT !.db = n = 1, !.state = n # 3]

\* Victims before t are gone, t has lost n objects, the others are as they were.
PrunedTo(t, n) ==
  [s \in Stamps |->
     IF s \notin Victims(run.stamp) THEN WithManifest(run.stamp)[s]
     ELSE Shrunk(bundles[s], IF s < t THEN 3 ELSE IF s = t THEN n ELSE 0)]

\* commit_bundle: the manifest, then retention; "complete" is printed when
\* every victim is gone.
Commit ==
  /\ pc = "copied" /\ RealHoles = {}
  /\ bundles' = PrunedTo(MaxStamp + 1, 0)
  /\ commits' = commits + 1
  /\ complete' = commits + 1
  /\ pc' = "idle"
  /\ run' = NoRun
  /\ UNCHANGED <<store, left, spent>>

\* The tier fails, or the run is killed, after the manifest: any number of
\* objects of the victims are gone.
CommitFails ==
  /\ pc = "copied" /\ RealHoles = {}
  /\ \/ bundles' = WithManifest(run.stamp)
     \/ \E t \in Victims(run.stamp), n \in 0..2 : bundles' = PrunedTo(t, n)
  /\ commits' = commits + 1
  /\ pc' = "idle"
  /\ run' = NoRun
  /\ UNCHANGED <<store, complete, left, spent>>

\* A fault of the cold tier, a hole that is real, a missing state file or a
\* kill before the manifest: the run cleans nothing up on the tier, where the
\* seal may have got as far as the first component.
Abort ==
  /\ pc # "idle"
  /\ \/ bundles' = bundles
     \/ pc = "listed" /\ \E st \in BOOLEAN :
          bundles' = [bundles EXCEPT ![run.stamp] = Parts(st)]
  /\ pc' = "idle"
  /\ run' = NoRun
  /\ UNCHANGED <<store, commits, complete, left, spent>>

-----------------------------------------------------------------------------
(* Disasters, and the two ways back.                                       *)

\* Rows lost, or the box with its database and its local disk.
LoseRows ==
  /\ faults < MaxFaults /\ pc = "idle"
  /\ live' = NoFile(live)
  /\ faults' = faults + 1
  /\ left' = left \union AllGens
  /\ UNCHANGED <<local, cold, made, retired, backup, requests, restores>>

LoseBox ==
  /\ faults < MaxFaults
  /\ live' = EmptyRows
  /\ local' = [v \in Versions |-> NoGen]
  /\ faults' = faults + 1
  /\ left' = left \union AllGens
  /\ pc' = "idle"
  /\ run' = NoRun
  /\ UNCHANGED <<cold, made, retired, bundles, commits, complete, requests, restores>>

\* On an empty server somebody else takes the owner's username.
Reregister ==
  /\ live.owner = "absent"
  /\ live' = [live EXCEPT !.owner = "taken"]
  /\ UNCHANGED <<local, cold, made, retired, backup, left, spent>>

\* plan and restore accept a stamp with a manifest and sealed components.
Restorable(s) == bundles[s].manifest /\ bundles[s].db /\ bundles[s].state

\* --db-mode replace (forced, over a live database).
Replace(s) ==
  /\ pc = "idle" /\ restores < MaxRestores
  /\ Restorable(s)
  /\ live' = bundles[s].rows
  /\ left' = left \union AllGens
  /\ restores' = restores + 1
  /\ UNCHANGED <<local, cold, made, retired, backup, requests, faults>>

\* plan_file_gate: what the owner destroyed stays away, unless the id lives
\* again; live's current_version wins over the bundle's.
SurvivesUngated(r, b) == b.exists
Survives(r, b) == b.exists /\ ~(r.tomb /\ ~r.exists)
Gated(r, b)    == IF r.exists THEN r.current ELSE b.current

\* merge_users, and the refusal when the owner's name is another's.
MergedOwner(r, b) == IF r.owner = "absent" THEN b.owner ELSE r.owner
Collision(r, b)   == Survives(r, b) /\ b.owner # MergedOwner(r, b)

\* Rows taken from the bundle; each insert is ON CONFLICT DO NOTHING.
FinalRowsOfCurrent(r, b) == b.final \intersect {Gated(r, b)}
FinalRows(r, b) == b.final \ Staged(r)

KeepAnyStream(cur, v) == v >= 1
KeepStream(cur, v) == v = cur

StreamRow(r, b, v) ==
  IF r.stream[v] = NoGen /\ v \in b.final /\ KeepStream(Gated(r, b), v)
  THEN b.stream[v] ELSE r.stream[v]

WrapRowsOfStagings(r, b) ==
  {w \in b.wraps : /\ w.v = Gated(r, b)
                   /\ <<w.v, w.u>> \notin r.revoked
                   /\ \A x \in r.wraps : ~(x.v = w.v /\ x.u = w.u)}
WrapRows(r, b) ==
  {w \in b.wraps : /\ w.v \in b.final
                   /\ w.v = Gated(r, b)
                   /\ <<w.v, w.u>> \notin r.revoked
                   /\ \A x \in r.wraps : ~(x.v = w.v /\ x.u = w.u)}

Subtree(r, b) ==
  IF ~Survives(r, b) THEN r
  ELSE [r EXCEPT !.exists = TRUE,
                 !.current = Gated(r, b),
                 !.final = @ \union FinalRows(r, b),
                 !.stream = [v \in Versions |-> StreamRow(r, b, v)],
                 !.wraps = @ \union WrapRows(r, b)]

GensOf(r) == {r.stream[v] : v \in Versions} \ {NoGen}

\* The bundle's own absence records, carried across last.  With them goes
\* what they stand for, except what the live rows hold to the contrary.
Absences(r, b) ==
  [r EXCEPT !.tomb = @ \/ b.tomb,
            !.revoked = @ \union b.revoked,
            !.denied = @ \union {d \in b.denied :
                          \A w \in r.wraps : <<w.g, w.u>> # d},
            !.buried = @ \union (b.buried \ GensOf(r))]

Merged(r, b) ==
  Absences([Subtree(r, b) EXCEPT !.owner = MergedOwner(r, b)], b)

\* One serializable transaction, refused while any other client (the server,
\* a backup run) is connected.
Merge(s) ==
  /\ pc = "idle" /\ restores < MaxRestores
  /\ Restorable(s)
  /\ ~Collision(live, bundles[s].rows)
  /\ live' = Merged(live, bundles[s].rows)
  /\ restores' = restores + 1
  /\ UNCHANGED <<local, cold, made, retired, backup, left, requests, faults>>

-----------------------------------------------------------------------------
Requests ==
  /\ requests < MaxRequests
  /\ requests' = requests + 1
  /\ \/ \E given \in SUBSET Users : Stage(given)
     \/ \E v \in Versions : Offload(v)
     \/ Finalize
     \/ DiscardStaged
     \/ Delete
     \/ \E u \in Users : AddWrap(u)
     \/ \E w \in live.wraps : DeleteWrap(w)

BackupRun ==
  \/ \E s \in Stamps : StartBackup(s)
  \/ Enumerate
  \/ SealAndCopy
  \/ Commit
  \/ CommitFails
  \/ Abort

Recovery ==
  \/ LoseRows
  \/ LoseBox
  \/ Reregister
  \/ \E s \in Stamps : Replace(s)
  \/ \E s \in Stamps : Merge(s)

Next == Requests \/ BackupRun \/ Recovery

Spec == Init /\ [][Next]_vars

-----------------------------------------------------------------------------
(* Properties.                                                             *)

\* Type correctness, bounds included: every row, bundle and run is well
\* formed through dumps, merges and replaces.
RunType == [stamp: 0..MaxStamp, dump: Rows, refs: SUBSET Versions,
            holes: SUBSET Versions]

TypeOK ==
  /\ live \in Rows
  /\ local \in [Versions -> 0..MaxGen]
  /\ cold \in [Versions -> 0..MaxGen]
  /\ made \in Seq(Versions) /\ Len(made) <= MaxGen
  /\ bundles \in [Stamps -> Bundle]
  /\ pc \in {"idle", "dumped", "listed", "copied"}
  /\ run \in RunType
  /\ (pc # "idle") => run.stamp \in Stamps
  /\ commits \in 0..MaxStamp
  /\ complete \in 0..MaxStamp
  /\ retired \subseteq Gens
  /\ left \subseteq Gens
  /\ requests \in 0..MaxRequests
  /\ faults \in 0..MaxFaults
  /\ restores \in 0..MaxRestores

\* A stamp that list_backups shows has both components, whatever aborted or
\* is half pruned: what an operator picks in an incident can be unsealed.
ListedIsWhole ==
  \A s \in Published : bundles[s].db /\ bundles[s].state

\* Once a run has printed "backup complete", some listed bundle is at least
\* as recent, though retention runs on stamps that the clock may misorder.
FreshBundleStays ==
  complete # 0 => \E s \in Published : bundles[s].seq >= complete

\* A generation whose ciphertext the code itself gave up: its name was purged,
\* or staged again since, or still holds an earlier staging's bytes.
GivenUp(g) ==
  \/ g \in retired
  \/ \E h \in AllGens : h > g /\ made[h] = made[g]
  \/ cold[made[g]] # NoGen /\ cold[made[g]] < g

\* The ciphertext of a listed bundle's current version is in the cold tier,
\* where it outlives the box: a version published between the dump and the listing
\* of the streams to copy leaves no dump whose ciphertext nobody copied.  GivenUp
\* exempts a bundle that the server overtook: its version superseded or deleted
\* since, or staged again between the dump and the copy or later.
BundleOpens ==
  \A s \in Published :
    \A v \in CurrentStreams(bundles[s].rows) :
      LET g == bundles[s].rows.stream[v] IN cold[v] = g \/ GivenUp(g)

\* What the live database serves can be read back from the tier: always if it was
\* staged since the last loss or replace, whatever was superseded, discarded, merged
\* and copied beside it, and after a restore unless the ciphertext had been given up
\* since the bundle's dump.  (A bundle older than a supersession or a deletion does
\* bring back a version whose chunks are purged; verify-restored-blobs lists those.)
ServedOpens ==
  \A v \in CurrentStreams(live) :
    LET g == live.stream[v] IN Read(v) = g \/ (g \in left /\ GivenUp(g))

\* A file its owner destroyed is never served again, from however old a
\* bundle, as far as the database's own history records it.
DeletedStaysDeleted == GensOf(live) \intersect live.buried = {}

\* No merge gives a revoked recipient the wrap back, and every wrap encloses
\* the DEK of the generation its version now has: none of a staging given up.
\* (A wrap of a generation from before a deletion, a loss or a replace may
\* come back under the same version number; its DEK opens nothing served.)
NoWrapComesBack ==
  \A w \in live.wraps :
    /\ <<w.g, w.u>> \notin live.denied
    /\ \/ w.g = live.stream[w.v]
       \/ w.g \in live.buried \union left

\* Streams and wraps exist only for the current version and for one staged
\* on top of it: a merge brings no row of a superseded version back, whose
\* chunks were purged when it was superseded.
SupersededStaysGone ==
  /\ \A v \in Versions : live.stream[v] # NoGen =>
       v = live.current \/ (v = live.current + 1 /\ v \notin live.final)
  /\ \A w \in live.wraps : live.stream[w.v] # NoGen

\* Every version up to the current one has its finalized row, the prior
\* manifests included, however the file came back.
HistoryKept == 1..live.current \subseteq live.final

=============================================================================
