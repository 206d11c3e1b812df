------------------------ MODULE BackupRestore_proofs ------------------------
(***************************************************************************)
(* Type correctness of BackupRestore, and the safety of what a bundle and  *)
(* a restored database hold, for all bounds.  The inductive invariant has  *)
(* three parts: the shape of any rows the code produces (Sound, of the     *)
(* live rows, the dump under way and every bundle alike), how dumped rows  *)
(* relate to the live ones (Past), and the bundles on the tier.            *)
(***************************************************************************)
EXTENDS BackupRestore, FiniteSetTheorems, TLAPS

LEMMA EmptyRowsType == EmptyRows \in Rows
BY Bounds DEF EmptyRows, Rows, Versions, NoGen

LEMMA NoFileType == ASSUME NEW r \in Rows PROVE NoFile(r) \in Rows
<1>1. [v \in Versions |-> NoGen] \in [Versions -> 0..MaxGen]
  BY Bounds DEF NoGen
<1>2. 0 \in 0..MaxVersion
  BY Bounds
<1>3. QED
  BY <1>1, <1>2 DEF NoFile, Rows

LEMMA AbsencesType ==
  ASSUME NEW r \in Rows, NEW b \in Rows
  PROVE  Absences(r, b) \in Rows
<1>1. (r.tomb \/ b.tomb) \in BOOLEAN
  OBVIOUS
<1>2. r.revoked \union b.revoked \subseteq Versions \X Users
  BY DEF Rows
<1>3. r.denied \union {d \in b.denied : \A w \in r.wraps : <<w.g, w.u>> # d}
        \subseteq Gens \X Users
  BY DEF Rows
<1>4. r.buried \union (b.buried \ GensOf(r)) \in SUBSET Gens
  BY DEF Rows
<1>5. QED
  BY <1>1, <1>2, <1>3, <1>4 DEF Absences, Rows

LEMMA MergedType ==
  ASSUME NEW r \in Rows, NEW b \in Rows
  PROVE  Merged(r, b) \in Rows
<1>1. Subtree(r, b) \in Rows
  BY Bounds DEF Subtree, Rows, Gated, FinalRows, StreamRow, WrapRows, Versions
<1>2. MergedOwner(r, b) \in {"present", "absent", "taken"}
  BY DEF MergedOwner, Rows
<1>3. [Subtree(r, b) EXCEPT !.owner = MergedOwner(r, b)] \in Rows
  BY <1>1, <1>2 DEF Rows
<1>4. QED
  BY <1>3, AbsencesType DEF Merged

\* A bundle's fields, one at a time.
LEMMA BundleType ==
  ASSUME NEW d \in BOOLEAN, NEW st \in BOOLEAN, NEW m \in BOOLEAN,
         NEW q \in 0..MaxStamp, NEW r \in Rows
  PROVE  [db |-> d, state |-> st, manifest |-> m, seq |-> q, rows |-> r] \in Bundle
BY DEF Bundle

LEMMA NoBundleType == NoBundle \in Bundle
BY EmptyRowsType, Bounds DEF NoBundle, Bundle

LEMMA PartsType == ASSUME NEW st \in BOOLEAN PROVE Parts(st) \in Bundle
BY NoBundleType DEF Parts, Bundle

LEMMA ShrunkType == ASSUME NEW b \in Bundle, NEW n PROVE Shrunk(b, n) \in Bundle
BY NoBundleType DEF Shrunk, Bundle

LEMMA NoRunType == NoRun \in RunType
BY EmptyRowsType, Bounds DEF NoRun, RunType, Stamps, Versions

\* The rows that publishing leaves: the run's own, whole, and the victims cut.
LEMMA PrunedType ==
  ASSUME TypeOK, pc # "idle", commits < MaxStamp, NEW t, NEW n
  PROVE  /\ WithManifest(run.stamp) \in [Stamps -> Bundle]
         /\ PrunedTo(t, n) \in [Stamps -> Bundle]
<1>1. run.stamp \in Stamps /\ run.dump \in Rows /\ commits + 1 \in 0..MaxStamp
  BY Bounds DEF TypeOK, RunType
<1>2. WithManifest(run.stamp) \in [Stamps -> Bundle]
  BY <1>1, BundleType DEF WithManifest, TypeOK
<1>3. QED
  BY <1>2, ShrunkType DEF PrunedTo, TypeOK

\* While a run is under way there is room for its bundle.
Room == pc # "idle" => commits < MaxStamp

\* Purging names leaves the stores and the given-up generations well typed.
LEMMA PurgeType ==
  ASSUME TypeOK, NEW vs, Purge(vs)
  PROVE  /\ local' \in [Versions -> 0..MaxGen] /\ cold' \in [Versions -> 0..MaxGen]
         /\ retired' \subseteq Gens /\ faults' \in 0..MaxFaults
<1>1. AllGens \subseteq Gens
  BY Bounds DEF AllGens, TypeOK, Gens, Versions
<1>2. retired' \subseteq Gens
  BY <1>1 DEF Purge, Named, TypeOK
<1>3. faults' \in 0..MaxFaults
  BY Bounds DEF Purge, TypeOK
<1>4. local' \in [Versions -> 0..MaxGen] /\ cold' \in [Versions -> 0..MaxGen]
  <2>0. local \in [Versions -> 0..MaxGen] /\ cold \in [Versions -> 0..MaxGen]
    BY DEF TypeOK
  <2>1. CASE /\ local' = [v \in Versions |-> IF v \in vs THEN NoGen ELSE local[v]]
             /\ cold' = [v \in Versions |-> IF v \in vs THEN NoGen ELSE cold[v]]
    BY <2>0, <2>1, Bounds DEF NoGen
  <2>2. CASE UNCHANGED <<local, cold>>
    BY <2>0, <2>2
  <2>3. QED
    BY <2>1, <2>2 DEF Purge
<1>5. QED
  BY <1>2, <1>3, <1>4

LEMMA StageType ==
  ASSUME TypeOK, NEW given \in SUBSET Users, Stage(given)
  PROVE  /\ live' \in Rows /\ local' \in [Versions -> 0..MaxGen]
         /\ made' \in Seq(Versions) /\ Len(made') <= MaxGen
         /\ Len(made') = Len(made) + 1
<1> DEFINE g == Len(made) + 1
           v == IF live.exists THEN live.current + 1 ELSE 1
           new == {[v |-> v, u |-> u, g |-> g] : u \in given}
<1>1. g \in Gens /\ v \in Versions /\ g \in 0..MaxGen
  BY Bounds DEF Stage, Gens
<1>2. new \subseteq Wrap
  BY <1>1 DEF Wrap
<1>3. live' = [live EXCEPT !.exists = TRUE, !.stream = [@ EXCEPT ![v] = g],
                           !.wraps = {w \in @ : w.v # v} \union new]
  BY DEF Stage
<1>4. live' \in Rows
  <2> HIDE DEF g, v, new
  <2> QED  BY <1>1, <1>2, <1>3 DEF TypeOK, Rows
<1>5. local' \in [Versions -> 0..MaxGen]
  BY <1>1 DEF Stage, TypeOK
<1>6. made' = Append(made, v)
  BY DEF Stage
<1>7. made' \in Seq(Versions) /\ Len(made') = Len(made) + 1
  <2> HIDE DEF v
  <2> QED  BY <1>1, <1>6 DEF TypeOK
<1>8. QED
  BY <1>1, <1>4, <1>5, <1>7 DEF Gens

LEMMA FinalizeType == ASSUME TypeOK, Finalize PROVE live' \in Rows
<1> DEFINE st == [u \in Versions |-> IF u = live.current THEN NoGen ELSE live.stream[u]]
           ws == {w \in live.wraps : w.v # live.current}
<1>1. /\ live.current + 1 \in Versions /\ live.current + 1 \in 0..MaxVersion
  BY Bounds DEF Finalize, Versions
<1>2. st \in [Versions -> 0..MaxGen] /\ ws \subseteq Wrap
  BY Bounds DEF TypeOK, Rows, NoGen
<1>3. live' = [live EXCEPT !.current = live.current + 1,
                           !.final = @ \union {live.current + 1},
                           !.stream = st, !.wraps = ws]
  BY DEF Finalize
<1>4. QED
  <2> HIDE DEF st, ws
  <2> QED  BY <1>1, <1>2, <1>3 DEF TypeOK, Rows

LEMMA DiscardType == ASSUME TypeOK, DiscardStaged PROVE live' \in Rows
<1> DEFINE st == [v \in Versions |-> IF v \in Staged(live) THEN NoGen ELSE live.stream[v]]
           ws == {w \in live.wraps : w.v \notin Staged(live)}
<1>1. st \in [Versions -> 0..MaxGen] /\ ws \subseteq Wrap
  BY Bounds DEF TypeOK, Rows, NoGen
<1>2. live' = [live EXCEPT !.stream = st, !.wraps = ws]
  BY DEF DiscardStaged
<1>3. QED
  <2> HIDE DEF st, ws
  <2> QED  BY <1>1, <1>2 DEF TypeOK, Rows

LEMMA DeleteType == ASSUME TypeOK, Delete PROVE live' \in Rows
<1>1. AllGens \subseteq Gens
  BY Bounds DEF AllGens, TypeOK, Gens, Versions
<1>2. NoFile(live) \in Rows
  BY NoFileType DEF TypeOK
<1>3. QED
  <2> DEFINE r == NoFile(live)
  <2>1. live' = [r EXCEPT !.tomb = TRUE, !.buried = @ \union AllGens] /\ r \in Rows
    BY <1>2 DEF Delete
  <2> HIDE DEF r
  <2> QED  BY <1>1, <2>1 DEF Rows

LEMMA AddWrapType == ASSUME TypeOK, NEW u \in Users, AddWrap(u) PROVE live' \in Rows
<1> DEFINE ws == {w \in live.wraps : ~(w.v = live.current /\ w.u = u)}
                 \union {[v |-> live.current, u |-> u, g |-> live.stream[live.current]]}
<1>1. live.current \in Versions /\ live.stream[live.current] \in Gens
  BY Bounds DEF AddWrap, TypeOK, Rows, Versions, Gens, NoGen
<1>2. ws \subseteq Wrap
  BY <1>1 DEF TypeOK, Rows, Wrap
<1>3. live' = [live EXCEPT !.wraps = ws,
                           !.denied = @ \ {<<live.stream[live.current], u>>}]
  BY DEF AddWrap
<1>4. QED
  <2> HIDE DEF ws
  <2> QED  BY <1>2, <1>3 DEF TypeOK, Rows

LEMMA DeleteWrapType ==
  ASSUME TypeOK, NEW w \in live.wraps, DeleteWrap(w) PROVE live' \in Rows
<1>1. w \in Wrap
  BY DEF TypeOK, Rows
<1>2. <<w.v, w.u>> \in Versions \X Users /\ <<w.g, w.u>> \in Gens \X Users
  BY <1>1 DEF Wrap
<1>3. QED
  BY <1>2 DEF DeleteWrap, TypeOK, Rows

-----------------------------------------------------------------------------
(* Type correctness.                                                       *)

\* What each action changes of the state, the rest being as it was.
LEMMA RequestType == ASSUME TypeOK, Requests PROVE TypeOK'
<1>1. requests' \in 0..MaxRequests
  BY Bounds DEF Requests, TypeOK
<1>2. ASSUME NEW given \in SUBSET Users, Stage(given) PROVE TypeOK'
  BY <1>1, <1>2, StageType DEF Stage, backup, TypeOK
<1>3. ASSUME NEW v \in Versions, Offload(v) PROVE TypeOK'
  <2>1. cold' \in [Versions -> 0..MaxGen] /\ local' \in [Versions -> 0..MaxGen]
    BY <1>3, Bounds DEF Offload, TypeOK, NoGen
  <2>2. QED
    BY <1>1, <1>3, <2>1 DEF Offload, backup, TypeOK
<1>4. ASSUME Finalize PROVE TypeOK'
  <2>1. Purge({live.current} \ {0}) /\ UNCHANGED <<made, backup, left, restores>>
    BY <1>4 DEF Finalize
  <2>2. QED
    BY <1>1, <1>4, <2>1, PurgeType, FinalizeType DEF backup, TypeOK
<1>5. ASSUME DiscardStaged PROVE TypeOK'
  <2>1. Purge(Staged(live)) /\ UNCHANGED <<made, backup, left, restores>>
    BY <1>5 DEF DiscardStaged
  <2>2. QED
    BY <1>1, <1>5, <2>1, PurgeType, DiscardType DEF backup, TypeOK
<1>6. ASSUME Delete PROVE TypeOK'
  <2>1. /\ Purge({v \in Versions : live.stream[v] # NoGen})
        /\ UNCHANGED <<made, backup, left, restores>>
    BY <1>6 DEF Delete
  <2>2. QED
    BY <1>1, <1>6, <2>1, PurgeType, DeleteType DEF backup, TypeOK
<1>7. ASSUME NEW u \in Users, AddWrap(u) PROVE TypeOK'
  BY <1>1, <1>7, AddWrapType DEF AddWrap, backup, TypeOK
<1>8. ASSUME NEW w \in live.wraps, DeleteWrap(w) PROVE TypeOK'
  BY <1>1, <1>8, DeleteWrapType DEF DeleteWrap, backup, TypeOK
<1>9. QED
  BY <1>2, <1>3, <1>4, <1>5, <1>6, <1>7, <1>8 DEF Requests

LEMMA BackupType == ASSUME TypeOK, Room, BackupRun PROVE TypeOK' /\ Room'
<1>0. NoRun \in RunType
  BY NoRunType
<1>1. ASSUME NEW s \in Stamps, StartBackup(s) PROVE TypeOK' /\ Room'
  <2>1. run' \in RunType /\ run'.stamp = s
    <3>1. s \in 0..MaxStamp /\ live \in Rows
      BY Bounds DEF TypeOK, Stamps
    <3>2. run' = [NoRun EXCEPT !.stamp = s, !.dump = live]
      BY <1>1 DEF StartBackup
    <3>3. QED
      BY <1>0, <3>1, <3>2 DEF RunType
  <2>2. QED
    BY <1>1, <2>1 DEF StartBackup, store, spent, TypeOK, Room
<1>2. ASSUME Enumerate PROVE TypeOK' /\ Room'
  <2>1. CurrentStreams(live) \subseteq Versions
    BY Bounds DEF CurrentStreams, TypeOK, Rows, Versions
  <2>2. run' \in RunType /\ run'.stamp = run.stamp
    BY <1>2, <2>1 DEF Enumerate, Listed, RunType, TypeOK
  <2>3. QED
    BY <1>2, <2>2 DEF Enumerate, store, spent, TypeOK, Room
<1>3. ASSUME SealAndCopy PROVE TypeOK' /\ Room'
  <2>1. bundles' \in [Stamps -> Bundle]
    BY <1>3, PartsType DEF SealAndCopy, TypeOK
  <2>2. cold' \in [Versions -> 0..MaxGen]
    BY <1>3 DEF SealAndCopy, TypeOK
  <2>3. run' \in RunType /\ run'.stamp = run.stamp
    BY <1>3 DEF SealAndCopy, RunType, TypeOK
  <2>4. QED
    BY <1>3, <2>1, <2>2, <2>3 DEF SealAndCopy, spent, TypeOK, Room
<1>4. ASSUME Commit PROVE TypeOK' /\ Room'
  <2>1. pc # "idle" /\ commits < MaxStamp
    BY <1>4 DEF Commit, Room
  <2>2. bundles' \in [Stamps -> Bundle]
    BY <1>4, <2>1, PrunedType DEF Commit
  <2>3. commits + 1 \in 0..MaxStamp
    BY <2>1, Bounds DEF TypeOK
  <2>4. QED
    BY <1>0, <1>4, <2>2, <2>3 DEF Commit, store, spent, TypeOK, Room
<1>5. ASSUME CommitFails PROVE TypeOK' /\ Room'
  <2>1. pc # "idle" /\ commits < MaxStamp
    BY <1>5 DEF CommitFails, Room
  <2>2. bundles' \in [Stamps -> Bundle]
    BY <1>5, <2>1, PrunedType DEF CommitFails
  <2>3. commits + 1 \in 0..MaxStamp
    BY <2>1, Bounds DEF TypeOK
  <2>4. QED
    BY <1>0, <1>5, <2>2, <2>3 DEF CommitFails, store, spent, TypeOK, Room
<1>6. ASSUME Abort PROVE TypeOK' /\ Room'
  <2>1. bundles' \in [Stamps -> Bundle]
    BY <1>6, PartsType DEF Abort, TypeOK
  <2>2. QED
    BY <1>0, <1>6, <2>1 DEF Abort, store, spent, TypeOK, Room
<1>7. QED
  BY <1>1, <1>2, <1>3, <1>4, <1>5, <1>6 DEF BackupRun

LEMMA RecoveryType == ASSUME TypeOK, Recovery PROVE TypeOK'
<1>0. AllGens \subseteq Gens
  BY Bounds DEF AllGens, TypeOK, Gens, Versions
<1>1. CASE LoseRows
  <2>1. live' \in Rows /\ faults' \in 0..MaxFaults
    BY <1>1, NoFileType, Bounds DEF LoseRows, TypeOK
  <2>2. QED
    BY <1>0, <1>1, <2>1 DEF LoseRows, backup, TypeOK
<1>2. CASE LoseBox
  <2>1. live' \in Rows /\ faults' \in 0..MaxFaults
    BY <1>2, EmptyRowsType, Bounds DEF LoseBox, TypeOK
  <2>2. local' \in [Versions -> 0..MaxGen]
    BY <1>2, Bounds DEF LoseBox, NoGen
  <2>3. QED
    BY <1>0, <1>2, <2>1, <2>2, NoRunType DEF LoseBox, TypeOK
<1>3. CASE Reregister
  <2>1. live' \in Rows
    BY <1>3 DEF Reregister, TypeOK, Rows
  <2>2. QED
    BY <1>3, <2>1 DEF Reregister, backup, spent, TypeOK
<1>4. ASSUME NEW s \in Stamps, Replace(s) PROVE TypeOK'
  <2>1. live' \in Rows /\ restores' \in 0..MaxRestores
    BY <1>4, Bounds DEF Replace, TypeOK, Bundle
  <2>2. QED
    BY <1>0, <1>4, <2>1 DEF Replace, backup, TypeOK
<1>5. ASSUME NEW s \in Stamps, Merge(s) PROVE TypeOK'
  <2>1. bundles[s].rows \in Rows
    BY DEF TypeOK, Bundle
  <2>2. live' \in Rows /\ restores' \in 0..MaxRestores
    BY <1>5, <2>1, MergedType, Bounds DEF Merge, TypeOK
  <2>3. QED
    BY <1>5, <2>2 DEF Merge, backup, TypeOK
<1>6. QED
  BY <1>1, <1>2, <1>3, <1>4, <1>5 DEF Recovery

LEMMA TypeInit == ASSUME Init PROVE TypeOK /\ Room
<1>1. PICK given \in SUBSET Users : live = InUse(given)
  BY DEF Init
<1>2. live \in Rows
  <2> DEFINE st == [[v \in Versions |-> NoGen] EXCEPT ![1] = 1]
             ws == {[v |-> 1, u |-> u, g |-> 1] : u \in given}
  <2>1. st \in [Versions -> 0..MaxGen] /\ ws \subseteq Wrap
    BY Bounds DEF Versions, NoGen, Wrap, Gens
  <2>2. live = [EmptyRows EXCEPT !.exists = TRUE, !.current = 1, !.final = {1},
                                 !.stream = st, !.wraps = ws, !.owner = "present"]
    BY <1>1 DEF InUse, EmptyRows
  <2>3. 1 \in 0..MaxVersion /\ {1} \subseteq Versions
    BY Bounds DEF Versions
  <2> HIDE DEF st, ws
  <2>4. QED
    BY <2>1, <2>2, <2>3, EmptyRowsType DEF Rows
<1>3. made \in Seq(Versions) /\ Len(made) <= MaxGen
  BY Bounds DEF Init, Versions
<1>4. local \in [Versions -> 0..MaxGen] /\ cold \in [Versions -> 0..MaxGen]
  BY Bounds DEF Init, NoGen
<1>5. bundles \in [Stamps -> Bundle] /\ run \in RunType
  BY NoBundleType, NoRunType DEF Init
<1>6. QED
  BY <1>2, <1>3, <1>4, <1>5, Bounds DEF Init, TypeOK, Room

LEMMA TypeStep == ASSUME TypeOK, Room, [Next]_vars PROVE TypeOK' /\ Room'
<1>1. CASE Requests
  <2>1. UNCHANGED <<pc, commits>>
    BY <1>1 DEF Requests, Stage, Offload, Finalize, DiscardStaged, Delete,
                AddWrap, DeleteWrap, backup
  <2>2. QED
    BY <1>1, <2>1, RequestType DEF Room
<1>2. CASE BackupRun
  BY <1>2, BackupType
<1>3. CASE Recovery
  <2>1. commits' = commits /\ (pc' = pc \/ pc' = "idle")
    BY <1>3 DEF Recovery, LoseRows, LoseBox, Reregister, Replace, Merge, backup
  <2>2. QED
    BY <1>3, <2>1, RecoveryType DEF Room
<1>4. CASE UNCHANGED vars
  BY <1>4 DEF vars, store, backup, spent, TypeOK, Room
<1>5. QED
  BY <1>1, <1>2, <1>3, <1>4 DEF Next

\* Every row, bundle and run is well formed through dumps, prunes, merges and
\* replaces, whatever the bounds (commit_bundle, merge, restore).
THEOREM TypeCorrect == Spec => []TypeOK
<1>1. Init => TypeOK /\ Room
  BY TypeInit
<1>2. TypeOK /\ Room /\ [Next]_vars => (TypeOK /\ Room)'
  BY TypeStep
<1>3. QED
  BY <1>1, <1>2, PTL DEF Spec
-----------------------------------------------------------------------------
(* The inductive invariant.                                                *)

\* What holds of any rows the code produces, of m the generations made: rows
\* of a file only while it exists, streams and wraps only where the current
\* or a staged version has them, the whole history; buried generations are
\* behind a tombstone and never served; whoever is denied a generation has a
\* revocation at its version, and no wrap.
Sound(r, m) ==
  /\ ~r.exists => /\ r.current = 0 /\ r.final = {} /\ r.wraps = {}
                  /\ \A v \in Versions : r.stream[v] = NoGen
  /\ r.exists /\ r.current >= 1 => r.stream[r.current] # NoGen
  /\ \A v \in Versions : r.stream[v] # NoGen =>
       /\ v = r.current \/ (v = r.current + 1 /\ v \notin r.final)
       /\ r.stream[v] \in DOMAIN m /\ m[r.stream[v]] = v
       /\ r.stream[v] \notin r.buried
  /\ 1..r.current \subseteq r.final
  /\ r.buried \subseteq DOMAIN m
  /\ r.buried # {} => r.tomb
  /\ \A d \in r.denied : d[1] \in DOMAIN m /\ <<m[d[1]], d[2]>> \in r.revoked
  /\ \A w \in r.wraps : /\ r.stream[w.v] # NoGen
                         /\ w.g \in DOMAIN m /\ m[w.g] = w.v
                         /\ <<w.g, w.u>> \notin r.denied

\* Every wrap of rows r is of the generation its version has, or of one
\* destroyed or left behind (l) since.
OwnWraps(r, l) ==
  \A w \in r.wraps : w.g = r.stream[w.v] \/ w.g \in r.buried \union l

\* Dumped rows b are a past of rows r: a wrap b could give back is of a
\* generation destroyed or left behind since, or of one that r still serves
\* or has superseded.
Past(b, r, l) ==
  \A w \in b.wraps :
    \/ w.v \notin b.final
    \/ w.g \in r.buried \union l
    \/ /\ r.exists
       /\ \/ r.current > w.v
          \/ r.current = w.v /\ r.stream[w.v] = w.g

RowsInv ==
  /\ Sound(live, made) /\ Sound(run.dump, made)
  /\ \A s \in Stamps : Sound(bundles[s].rows, made)

LineageInv ==
  /\ left \subseteq DOMAIN made
  /\ OwnWraps(live, left)
  /\ Past(run.dump, live, left)
  /\ \A s \in Stamps : Past(bundles[s].rows, live, left)

\* A run works under a stamp that no listed bundle has.
BundleInv ==
  /\ complete <= commits
  /\ pc # "idle" => ~bundles[run.stamp].manifest
  /\ ListedIsWhole
  /\ FreshBundleStays

IInv == TypeOK /\ Room /\ RowsInv /\ LineageInv /\ BundleInv

\* What a step that changes the live rows owes the invariant.
Keeps ==
  /\ Sound(live', made')
  /\ OwnWraps(live', left')
  /\ left' \subseteq DOMAIN made'
  /\ \A b \in Rows : Sound(b, made) /\ Past(b, live, left) => Past(b, live', left')

\* Generations are only ever added to those made.
LEMMA SoundAppend ==
  ASSUME NEW m \in Seq(Versions), NEW v \in Versions, NEW r \in Rows, Sound(r, m)
  PROVE  Sound(r, Append(m, v))
<1>1. DOMAIN m \subseteq DOMAIN Append(m, v)
  OBVIOUS
<1>2. \A g \in DOMAIN m : Append(m, v)[g] = m[g]
  OBVIOUS
<1>3. QED
  <2> DEFINE n == Append(m, v)
  <2>1. DOMAIN m \subseteq DOMAIN n /\ \A g \in DOMAIN m : n[g] = m[g]
    BY <1>1, <1>2
  <2> HIDE DEF n
  <2>2. \A w \in r.wraps : /\ r.stream[w.v] # NoGen
                            /\ w.g \in DOMAIN n /\ n[w.g] = w.v
                            /\ <<w.g, w.u>> \notin r.denied
    BY <2>1 DEF Sound
  <2>3. \A d \in r.denied : d[1] \in DOMAIN n /\ <<n[d[1]], d[2]>> \in r.revoked
    BY <2>1 DEF Sound
  <2>4. \A u \in Versions : r.stream[u] # NoGen =>
          /\ u = r.current \/ (u = r.current + 1 /\ u \notin r.final)
          /\ r.stream[u] \in DOMAIN n /\ n[r.stream[u]] = u
          /\ r.stream[u] \notin r.buried
    BY <2>1 DEF Sound
  <2>5. /\ ~r.exists => /\ r.current = 0 /\ r.final = {} /\ r.wraps = {}
                        /\ \A u \in Versions : r.stream[u] = NoGen
        /\ r.exists /\ r.current >= 1 => r.stream[r.current] # NoGen
        /\ 1..r.current \subseteq r.final
        /\ r.buried # {} => r.tomb
    BY DEF Sound
  <2>6. r.buried \subseteq DOMAIN n
    BY <2>1 DEF Sound
  <2>7. Sound(r, n)
    BY <2>2, <2>3, <2>4, <2>5, <2>6, Zenon DEF Sound
  <2>8. QED
    BY <2>7 DEF n

LEMMA SoundEmpty == ASSUME NEW m PROVE Sound(EmptyRows, m)
BY Bounds DEF Sound, EmptyRows, Versions, NoGen

LEMMA SoundNoFile ==
  ASSUME NEW r \in Rows, NEW m, Sound(r, m) PROVE Sound(NoFile(r), m)
BY Bounds DEF Sound, NoFile, Rows, Versions, NoGen

\* Rows without wraps are a past of any.
LEMMA PastEmpty == ASSUME NEW r, NEW l PROVE Past(EmptyRows, r, l)
BY DEF Past, EmptyRows

\* Live rows just dumped are a past of themselves.
LEMMA PastSelf ==
  ASSUME NEW r \in Rows, NEW m, NEW l, Sound(r, m), OwnWraps(r, l)
  PROVE  Past(r, r, l)
<1> SUFFICES ASSUME NEW w \in r.wraps, w.v \in r.final,
                    w.g \notin r.buried \union l
             PROVE  r.exists /\ r.current = w.v /\ r.stream[w.v] = w.g
  BY DEF Past
<1>1. w.v \in Versions
  BY DEF Rows, Wrap
<1>2. r.stream[w.v] # NoGen /\ r.stream[w.v] = w.g
  BY DEF Sound, OwnWraps
<1>3. r.exists
  BY DEF Sound
<1>4. w.v = r.current
  BY <1>1, <1>2 DEF Sound
<1>5. QED
  BY <1>2, <1>3, <1>4

\* The merge, plan_file_gate included, turns sound rows and a sound past of
\* theirs into sound rows of which every past is still one.
LEMMA MergedSound ==
  ASSUME NEW r \in Rows, NEW b \in Rows, NEW m, Sound(r, m), Sound(b, m)
  PROVE  Sound(Merged(r, b), m)
<1> DEFINE t == Subtree(r, b)
           q == Merged(r, b)
<1>1. q \in Rows
  BY MergedType
<1>2. /\ q.exists = t.exists /\ q.current = t.current /\ q.final = t.final
      /\ q.stream = t.stream /\ q.wraps = t.wraps
      /\ q.tomb = (r.tomb \/ b.tomb)
      /\ q.revoked = r.revoked \union b.revoked
      /\ q.buried = r.buried \union (b.buried \ GensOf(t))
      /\ q.denied = r.denied \union
                      {d \in b.denied : \A w \in t.wraps : <<w.g, w.u>> # d}
  BY DEF Merged, Absences, Subtree, Rows, GensOf
<1>3. \A v \in Versions : t.stream[v] # NoGen =>
        \/ t.stream[v] = r.stream[v]
        \/ ~r.exists /\ r.buried = {} /\ v = b.current /\ t.stream[v] = b.stream[v]
  <2> SUFFICES ASSUME NEW v \in Versions, t.stream[v] # NoGen,
                      t.stream[v] # r.stream[v]
               PROVE  /\ ~r.exists /\ r.buried = {}
                      /\ v = b.current /\ t.stream[v] = b.stream[v]
    OBVIOUS
  <2>1. /\ Survives(r, b) /\ t.stream[v] = StreamRow(r, b, v)
    BY DEF Subtree, Rows
  <2>2. /\ r.stream[v] = NoGen /\ v = Gated(r, b)
        /\ t.stream[v] = b.stream[v]
    BY <2>1 DEF StreamRow, KeepStream
  <2>3. ~r.exists
    BY <2>2, Bounds DEF Gated, Sound, Rows, Versions
  <2>4. r.buried = {}
    BY <2>1, <2>3 DEF Survives, Sound
  <2>5. QED
    BY <2>2, <2>3, <2>4 DEF Gated
<1>4. \A v \in Versions : r.stream[v] # NoGen => t.stream[v] = r.stream[v]
  BY DEF Subtree, StreamRow, Rows
<1>5. CASE ~Survives(r, b)
  <2>1. t = r
    BY <1>5 DEF Subtree
  <2>2. QED
    <3> HIDE DEF q
    <3> HIDE DEF t
    <3>1. \A v \in Versions : q.stream[v] # NoGen =>
            /\ v = q.current \/ (v = q.current + 1 /\ v \notin q.final)
            /\ q.stream[v] \in DOMAIN m /\ m[q.stream[v]] = v
            /\ q.stream[v] \notin q.buried
      BY <1>2, <2>1 DEF Sound, GensOf
    <3>2. /\ ~q.exists => /\ q.current = 0 /\ q.final = {} /\ q.wraps = {}
                          /\ \A u \in Versions : q.stream[u] = NoGen
          /\ q.exists /\ q.current >= 1 => q.stream[q.current] # NoGen
          /\ 1..q.current \subseteq q.final
      BY <1>2, <2>1 DEF Sound
    <3>3. \A w \in q.wraps : /\ q.stream[w.v] # NoGen
                              /\ w.g \in DOMAIN m /\ m[w.g] = w.v
                              /\ <<w.g, w.u>> \notin q.denied
      <4> SUFFICES ASSUME NEW w \in q.wraps
                   PROVE  /\ q.stream[w.v] # NoGen
                          /\ w.g \in DOMAIN m /\ m[w.g] = w.v
                          /\ <<w.g, w.u>> \notin q.denied
        OBVIOUS
      <4>1. w \in r.wraps /\ w \in t.wraps
        BY <1>2, <2>1
      <4>2. /\ q.stream[w.v] # NoGen
            /\ w.g \in DOMAIN m /\ m[w.g] = w.v
            /\ <<w.g, w.u>> \notin r.denied
        BY <1>2, <2>1, <4>1 DEF Sound
      <4>3. QED
        BY <1>2, <4>1, <4>2
    <3>4. /\ q.buried \subseteq DOMAIN m
          /\ q.buried # {} => q.tomb
          /\ \A d \in q.denied : d[1] \in DOMAIN m /\ <<m[d[1]], d[2]>> \in q.revoked
      BY <1>2, <2>1 DEF Sound
    <3>5. Sound(q, m)
      BY <3>1, <3>2, <3>3, <3>4, Zenon DEF Sound
    <3>6. QED
      BY <3>5 DEF q
<1>6. CASE Survives(r, b)
  <2>1. /\ t.exists = TRUE /\ t.current = Gated(r, b)
        /\ t.final = r.final \union FinalRows(r, b)
        /\ t.wraps = r.wraps \union WrapRows(r, b)
    BY <1>6 DEF Subtree, Rows
  <2> HIDE DEF t, q
  <2>2. b.exists
    BY <1>6 DEF Survives
  <2>3. q.current >= 1 => q.stream[q.current] # NoGen
    <3>1. CASE r.exists
      <4>1. q.current = r.current
        BY <1>2, <2>1, <3>1 DEF Gated
      <4> SUFFICES ASSUME r.current >= 1 PROVE q.stream[r.current] # NoGen
        BY <4>1
      <4>2. r.current \in Versions /\ r.stream[r.current] # NoGen
        BY <3>1, Bounds DEF Sound, Rows, Versions
      <4>3. QED
        BY <1>2, <1>4, <4>2
    <3>2. CASE ~r.exists /\ b.current >= 1
      <4>1. /\ b.current \in Versions /\ b.stream[b.current] # NoGen
            /\ b.current \in b.final /\ r.stream[b.current] = NoGen
        BY <2>2, <3>2, Bounds DEF Sound, Rows, Versions
      <4>2. t.stream[b.current] = b.stream[b.current]
        BY <1>6, <3>2, <4>1 DEF t, Subtree, StreamRow, KeepStream, Gated, Rows
      <4>3. QED
        BY <1>2, <2>1, <3>2, <4>1, <4>2 DEF Gated
    <3>3. CASE ~r.exists
      <4>1. q.current = b.current
        BY <1>2, <2>1, <3>3 DEF Gated
      <4> SUFFICES ASSUME q.current >= 1 PROVE q.stream[q.current] # NoGen
        OBVIOUS
      <4>2. b.current >= 1
        BY <4>1
      <4>3. QED
        BY <3>2, <3>3, <4>2
    <3>4. QED
      BY <3>1, <3>3, Zenon
  <2>4. ASSUME NEW v \in Versions, q.stream[v] # NoGen
        PROVE  /\ v = q.current \/ (v = q.current + 1 /\ v \notin q.final)
               /\ q.stream[v] \in DOMAIN m /\ m[q.stream[v]] = v
               /\ q.stream[v] \notin q.buried
    <3>1. q.stream[v] \in GensOf(t)
      BY <1>2, <2>4 DEF GensOf
    <3>2. CASE t.stream[v] = r.stream[v]
      <4>1. r.exists /\ q.current = r.current
        BY <1>2, <2>1, <2>4, <3>2 DEF Sound, Gated
      <4>2. v \notin r.final => v \in Staged(r)
        BY <1>2, <2>4, <3>2 DEF Staged
      <4>3. QED
        BY <1>2, <2>1, <2>4, <3>1, <3>2, <4>1, <4>2 DEF Sound, FinalRows
    <3>3. CASE ~r.exists /\ r.buried = {} /\ v = b.current /\ t.stream[v] = b.stream[v]
      BY <1>2, <2>1, <2>4, <3>1, <3>3 DEF Sound, Gated
    <3>4. QED
      BY <1>2, <1>3, <2>4, <3>2, <3>3
  <2>5. 1..q.current \subseteq q.final
    <3>1. CASE r.exists
      BY <1>2, <2>1, <3>1 DEF Sound, Gated
    <3>2. CASE ~r.exists
      <4>1. Staged(r) = {}
        BY <3>2 DEF Sound, Staged
      <4>2. QED
        BY <1>2, <2>1, <3>2, <4>1 DEF Sound, Gated, FinalRows
    <3>3. QED
      BY <3>1, <3>2
  <2>6. /\ q.buried \subseteq DOMAIN m
        /\ q.buried # {} => q.tomb
        /\ \A d \in q.denied : d[1] \in DOMAIN m /\ <<m[d[1]], d[2]>> \in q.revoked
    BY <1>2 DEF Sound
  <2>7. ASSUME NEW w \in q.wraps
        PROVE  /\ q.stream[w.v] # NoGen
               /\ w.g \in DOMAIN m /\ m[w.g] = w.v
               /\ <<w.g, w.u>> \notin q.denied
    <3>0. w \in t.wraps
      BY <1>2
    <3>1. CASE w \in r.wraps
      <4>1. w.v \in Versions
        BY <3>1 DEF Rows, Wrap
      <4>2. QED
        BY <1>2, <1>4, <3>0, <3>1, <4>1 DEF Sound
    <3>2. CASE w \in WrapRows(r, b)
      <4>1. /\ w \in b.wraps /\ w.v \in b.final /\ w.v = Gated(r, b)
            /\ <<w.v, w.u>> \notin r.revoked /\ w.v \in Versions
        BY <3>2 DEF WrapRows, Rows, Wrap
      <4>2. q.stream[w.v] # NoGen
        BY <1>2, <2>1, <2>3, <4>1, Bounds DEF Versions
      <4>3. w.g \in DOMAIN m /\ m[w.g] = w.v /\ <<w.g, w.u>> \notin b.denied
        BY <4>1 DEF Sound
      <4>4. <<w.g, w.u>> \notin r.denied
        <5> SUFFICES ASSUME <<w.g, w.u>> \in r.denied PROVE FALSE
          OBVIOUS
        <5>1. <<m[<<w.g, w.u>>[1]], <<w.g, w.u>>[2]>> \in r.revoked
          BY DEF Sound
        <5>2. QED
          BY <4>1, <4>3, <5>1
      <4>5. QED
        BY <1>2, <3>0, <4>2, <4>3, <4>4
    <3>3. QED
      BY <2>1, <3>0, <3>1, <3>2
  <2>8. q.exists = TRUE
    BY <1>2, <2>1
  <2>9. Sound(q, m)
    BY <2>3, <2>4, <2>5, <2>6, <2>7, <2>8 DEF Sound
  <2>10. QED
    BY <2>9 DEF q
<1>7. QED
  BY <1>5, <1>6

\* What a merge brings in, it brings from a past.
LEMMA MergedOwn ==
  ASSUME NEW r \in Rows, NEW b \in Rows, NEW m, NEW l, Sound(r, m), Sound(b, m),
         OwnWraps(r, l), Past(b, r, l)
  PROVE  OwnWraps(Merged(r, b), l)
<1> DEFINE t == Subtree(r, b)
           q == Merged(r, b)
<1>1. /\ q.stream = t.stream /\ q.wraps = t.wraps
      /\ r.buried \subseteq q.buried
  BY DEF Merged, Absences, Subtree, Rows
<1>2. \A v \in Versions : r.stream[v] # NoGen => t.stream[v] = r.stream[v]
  BY DEF Subtree, StreamRow, Rows
<1>3. t.wraps \subseteq r.wraps \union WrapRows(r, b)
  BY DEF Subtree, Rows
<1> HIDE DEF t, q
<1> SUFFICES ASSUME NEW w \in q.wraps, w.g \notin q.buried \union l
             PROVE  w.g = q.stream[w.v]
  BY DEF OwnWraps, q
<1>4. CASE w \in r.wraps
  <2>1. w.v \in Versions /\ r.stream[w.v] # NoGen
    BY <1>4 DEF Sound, Rows, Wrap
  <2>2. w.g = r.stream[w.v]
    BY <1>1, <1>4 DEF OwnWraps
  <2>3. QED
    BY <1>1, <1>2, <2>1, <2>2
<1>5. CASE w \in WrapRows(r, b) /\ w \notin r.wraps
  <2>1. /\ w \in b.wraps /\ w.v \in b.final /\ w.v = Gated(r, b)
        /\ w.v \in Versions
    BY <1>5 DEF WrapRows, Rows, Wrap
  <2>2. r.exists /\ (r.current > w.v \/ (r.current = w.v /\ r.stream[w.v] = w.g))
    BY <1>1, <2>1 DEF Past
  <2>3. r.stream[w.v] = w.g /\ r.current = w.v
    BY <2>1, <2>2, Bounds DEF Gated, Rows, Versions
  <2>4. r.stream[w.v] # NoGen
    BY <2>1, <2>2, <2>3, Bounds DEF Sound, Rows, Versions
  <2>5. QED
    BY <1>1, <1>2, <2>1, <2>3, <2>4
<1>6. QED
  BY <1>1, <1>3, <1>4, <1>5

LEMMA MergedPast ==
  ASSUME NEW r \in Rows, NEW b \in Rows, NEW l, NEW p \in Rows, Past(p, r, l),
         NEW m, Sound(r, m)
  PROVE  Past(p, Merged(r, b), l)
<1> DEFINE t == Subtree(r, b)
           q == Merged(r, b)
<1>1. /\ q.stream = t.stream /\ q.exists = t.exists /\ q.current = t.current
      /\ r.buried \subseteq q.buried
  BY DEF Merged, Absences, Subtree, Rows
<1>2. r.exists => t.exists /\ t.current = r.current
  BY DEF Subtree, Gated, Rows
<1>3. \A v \in Versions : r.stream[v] # NoGen => t.stream[v] = r.stream[v]
  BY DEF Subtree, StreamRow, Rows
<1> HIDE DEF t, q
<1> SUFFICES ASSUME NEW w \in p.wraps, w.v \in p.final,
                    w.g \notin q.buried \union l
             PROVE  q.exists /\ (q.current > w.v
                                 \/ (q.current = w.v /\ q.stream[w.v] = w.g))
  BY DEF Past, q
<1>4. w.v \in Versions /\ w.g # NoGen
  BY DEF Rows, Wrap, Gens, NoGen
<1>5. r.exists /\ (r.current > w.v \/ (r.current = w.v /\ r.stream[w.v] = w.g))
  BY <1>1 DEF Past
<1>6. QED
  BY <1>1, <1>2, <1>3, <1>4, <1>5

-----------------------------------------------------------------------------
(* The steps that change the live rows.                                    *)

LEMMA StageKeeps ==
  ASSUME TypeOK, RowsInv, LineageInv, NEW given \in SUBSET Users, Stage(given)
  PROVE  Keeps
<1> DEFINE g == Len(made) + 1
           v == IF live.exists THEN live.current + 1 ELSE 1
           new == {[v |-> v, u |-> u, g |-> g] : u \in given}
<1>0. live \in Rows /\ made \in Seq(Versions) /\ Sound(live, made)
  BY DEF TypeOK, RowsInv
<1>1. /\ v \in Versions /\ v \notin live.final /\ left' = left
      /\ v = live.current + 1
  BY <1>0 DEF Stage, Sound
<1>2. made' = Append(made, v)
  BY DEF Stage
<1>3. live' = [live EXCEPT !.exists = TRUE, !.stream = [@ EXCEPT ![v] = g],
                           !.wraps = {w \in @ : w.v # v} \union new]
  BY DEF Stage
<1>4. /\ g \in Nat /\ g # NoGen /\ g \notin DOMAIN made /\ g \in DOMAIN made'
      /\ DOMAIN made \subseteq DOMAIN made'
      /\ made'[g] = v /\ \A h \in DOMAIN made : made'[h] = made[h]
  BY <1>0, <1>1, <1>2 DEF NoGen
<1>5. \A w \in new : w.v = v /\ w.g = g
  OBVIOUS
<1> HIDE DEF g, v, new
<1>6. /\ live'.exists = TRUE /\ live'.current = live.current
      /\ live'.final = live.final /\ live'.tomb = live.tomb
      /\ live'.buried = live.buried /\ live'.revoked = live.revoked
      /\ live'.denied = live.denied
      /\ live'.stream = [live.stream EXCEPT ![v] = g]
      /\ live'.wraps = {w \in live.wraps : w.v # v} \union new
  BY <1>0, <1>3 DEF Rows
<1>7. live.stream \in [Versions -> 0..MaxGen] /\ live.current \in 0..MaxVersion
  BY <1>0 DEF Rows
<1>8. /\ live'.stream[v] = g
      /\ \A u \in Versions : u # v => live'.stream[u] = live.stream[u]
  BY <1>1, <1>6, <1>7
<1>9. Sound(live', made')
  <2>1. live'.exists /\ live'.current >= 1 => live'.stream[live'.current] # NoGen
    <3> SUFFICES ASSUME live.current >= 1 PROVE live'.stream[live.current] # NoGen
      BY <1>6
    <3>1. live.exists /\ live.current \in Versions
      BY <1>0, <1>7, Bounds DEF Sound, Versions
    <3>2. live.stream[live.current] # NoGen /\ live.current # v
      BY <1>0, <1>1, <1>7, <3>1 DEF Sound
    <3>3. QED
      BY <1>8, <3>1, <3>2
  <2>2. ASSUME NEW u \in Versions, live'.stream[u] # NoGen
        PROVE  /\ u = live'.current \/ (u = live'.current + 1 /\ u \notin live'.final)
               /\ live'.stream[u] \in DOMAIN made' /\ made'[live'.stream[u]] = u
               /\ live'.stream[u] \notin live'.buried
    <3>1. CASE u = v
      BY <1>0, <1>1, <1>4, <1>6, <1>8, <3>1 DEF Sound
    <3>2. CASE u # v
      BY <1>0, <1>4, <1>6, <1>8, <2>2, <3>2 DEF Sound
    <3>3. QED
      BY <3>1, <3>2
  <2>3. /\ 1..live'.current \subseteq live'.final
        /\ live'.buried \subseteq DOMAIN made'
        /\ live'.buried # {} => live'.tomb
    BY <1>0, <1>4, <1>6 DEF Sound
  <2>4. \A d \in live'.denied : d[1] \in DOMAIN made' /\ <<made'[d[1]], d[2]>> \in live'.revoked
    BY <1>0, <1>4, <1>6 DEF Sound
  <2>5. ASSUME NEW w \in live'.wraps
        PROVE  /\ live'.stream[w.v] # NoGen
               /\ w.g \in DOMAIN made' /\ made'[w.g] = w.v
               /\ <<w.g, w.u>> \notin live'.denied
    <3>1. CASE w \in new
      <4>1. w.v = v /\ w.g = g
        BY <1>5, <3>1
      <4>2. <<w.g, w.u>> \notin live.denied
        <5> SUFFICES ASSUME <<w.g, w.u>> \in live.denied PROVE FALSE
          OBVIOUS
        <5>1. <<w.g, w.u>>[1] \in DOMAIN made
          BY <1>0 DEF Sound
        <5>2. QED
          BY <1>4, <4>1, <5>1
      <4>3. QED
        BY <1>4, <1>6, <1>8, <4>1, <4>2
    <3>2. CASE w \in live.wraps /\ w.v # v
      <4>1. w.v \in Versions
        BY <1>0, <3>2 DEF Rows, Wrap
      <4>2. /\ live.stream[w.v] # NoGen /\ w.g \in DOMAIN made /\ made[w.g] = w.v
            /\ <<w.g, w.u>> \notin live.denied
        BY <1>0, <3>2 DEF Sound
      <4>3. QED
        BY <1>4, <1>6, <1>8, <3>2, <4>1, <4>2
    <3>3. QED
      BY <1>6, <2>5, <3>1, <3>2
  <2>6. live'.exists
    BY <1>6
  <2>7. QED
    BY <2>1, <2>2, <2>3, <2>4, <2>5, <2>6, Zenon DEF Sound
<1>10. OwnWraps(live', left')
  <2> SUFFICES ASSUME NEW w \in live'.wraps
               PROVE  w.g = live'.stream[w.v] \/ w.g \in live'.buried \union left'
    BY DEF OwnWraps
  <2>1. CASE w \in new
    BY <1>5, <1>8, <2>1
  <2>2. CASE w \in live.wraps /\ w.v # v
    <3>1. w.v \in Versions
      BY <1>0, <2>2 DEF Rows, Wrap
    <3>2. QED
      BY <1>1, <1>6, <1>8, <2>2, <3>1 DEF LineageInv, OwnWraps
  <2>3. QED
    BY <1>6, <2>1, <2>2
<1>11. ASSUME NEW b \in Rows, Past(b, live, left) PROVE Past(b, live', left')
  <2> SUFFICES ASSUME NEW w \in b.wraps, w.v \in b.final,
                      w.g \notin live.buried \union left
               PROVE  /\ live'.exists
                      /\ \/ live'.current > w.v
                         \/ live'.current = w.v /\ live'.stream[w.v] = w.g
    BY <1>1, <1>6 DEF Past
  <2>1. w.v \in Versions
    BY DEF Rows, Wrap
  <2>2. live.current > w.v \/ (live.current = w.v /\ live.stream[w.v] = w.g)
    BY <1>11 DEF Past
  <2>3. QED
    BY <1>1, <1>6, <1>7, <1>8, <2>1, <2>2
<1>12. left' \subseteq DOMAIN made'
  BY <1>1, <1>4 DEF LineageInv
<1>13. QED
  BY <1>9, <1>10, <1>11, <1>12 DEF Keeps

LEMMA FinalizeKeeps == ASSUME TypeOK, RowsInv, LineageInv, Finalize PROVE Keeps
<1> DEFINE v == live.current + 1
           st == [u \in Versions |-> IF u = live.current THEN NoGen ELSE live.stream[u]]
           ws == {w \in live.wraps : w.v # live.current}
<1>0. live \in Rows /\ Sound(live, made)
  BY DEF TypeOK, RowsInv
<1>1. live.stream \in [Versions -> 0..MaxGen] /\ live.current \in 0..MaxVersion
  BY <1>0 DEF Rows
<1>2. v \in Versions /\ live.stream[v] # NoGen /\ made' = made /\ left' = left
  BY DEF Finalize, InHand, Staged
<1>3. live' = [live EXCEPT !.current = v, !.final = @ \union {v},
                           !.stream = st, !.wraps = ws]
  BY DEF Finalize
<1>4. \A u \in Versions : st[u] = IF u = live.current THEN NoGen ELSE live.stream[u]
  OBVIOUS
<1> HIDE DEF st, ws
<1>5. /\ live'.exists = live.exists /\ live'.current = v
      /\ live'.final = live.final \union {v} /\ live'.tomb = live.tomb
      /\ live'.buried = live.buried /\ live'.revoked = live.revoked
      /\ live'.denied = live.denied /\ live'.stream = st /\ live'.wraps = ws
  BY <1>0, <1>3 DEF Rows
<1>6. live.exists
  BY <1>0, <1>2 DEF Sound
<1>7. \A u \in Versions : st[u] # NoGen => u = v /\ st[u] = live.stream[u]
  BY <1>0, <1>1, <1>4 DEF Sound
<1>8. st[v] = live.stream[v]
  BY <1>1, <1>2, <1>4
<1>9. \A w \in ws : w \in live.wraps /\ w.v \in Versions /\ w.v # live.current
                    /\ st[w.v] = live.stream[w.v] /\ st[w.v] # NoGen
  BY <1>0, <1>4 DEF ws, Sound, Rows, Wrap
<1> HIDE DEF v
<1>10. Sound(live', made')
  <2>1. \A u \in Versions : live'.stream[u] # NoGen =>
          /\ u = live'.current \/ (u = live'.current + 1 /\ u \notin live'.final)
          /\ live'.stream[u] \in DOMAIN made' /\ made'[live'.stream[u]] = u
          /\ live'.stream[u] \notin live'.buried
    BY <1>0, <1>2, <1>5, <1>7 DEF Sound
  <2>2. 1..live'.current \subseteq live'.final
    BY <1>0, <1>1, <1>5 DEF Sound, v
  <2>3. \A w \in live'.wraps : /\ live'.stream[w.v] # NoGen
                               /\ w.g \in DOMAIN made' /\ made'[w.g] = w.v
                               /\ <<w.g, w.u>> \notin live'.denied
    BY <1>0, <1>2, <1>5, <1>9 DEF Sound
  <2>4. /\ live'.buried \subseteq DOMAIN made'
        /\ live'.buried # {} => live'.tomb
        /\ \A d \in live'.denied : d[1] \in DOMAIN made' /\ <<made'[d[1]], d[2]>> \in live'.revoked
    BY <1>0, <1>2, <1>5 DEF Sound
  <2>5. live'.exists /\ live'.stream[live'.current] # NoGen
    BY <1>2, <1>5, <1>6, <1>8
  <2>6. QED
    BY <2>1, <2>2, <2>3, <2>4, <2>5, Zenon DEF Sound
<1>11. OwnWraps(live', left')
  BY <1>2, <1>5, <1>9 DEF OwnWraps, LineageInv
<1>12. ASSUME NEW b \in Rows, Past(b, live, left) PROVE Past(b, live', left')
  <2> SUFFICES ASSUME NEW w \in b.wraps, w.v \in b.final,
                      w.g \notin live.buried \union left
               PROVE  /\ live'.exists
                      /\ \/ live'.current > w.v
                         \/ live'.current = w.v /\ live'.stream[w.v] = w.g
    BY <1>2, <1>5 DEF Past
  <2>1. w.v \in Nat
    BY DEF Rows, Wrap, Versions
  <2>2. live.current > w.v \/ live.current = w.v
    BY <1>12 DEF Past
  <2>3. QED
    BY <1>1, <1>5, <1>6, <2>1, <2>2 DEF v
<1>13. left' \subseteq DOMAIN made'
  BY <1>2 DEF LineageInv
<1>14. QED
  BY <1>10, <1>11, <1>12, <1>13 DEF Keeps

LEMMA DiscardKeeps == ASSUME TypeOK, RowsInv, LineageInv, DiscardStaged PROVE Keeps
<1> DEFINE st == [u \in Versions |-> IF u \in Staged(live) THEN NoGen ELSE live.stream[u]]
           ws == {w \in live.wraps : w.v \notin Staged(live)}
<1>0. live \in Rows /\ Sound(live, made)
  BY DEF TypeOK, RowsInv
<1>1. live.current = 0 /\ live.exists /\ made' = made /\ left' = left
  BY DEF DiscardStaged
<1>2. live' = [live EXCEPT !.stream = st, !.wraps = ws]
  BY DEF DiscardStaged
<1>3. \A u \in Versions : st[u] = IF u \in Staged(live) THEN NoGen ELSE live.stream[u]
  OBVIOUS
<1> HIDE DEF st
<1>4. /\ live'.exists = live.exists /\ live'.current = 0
      /\ live'.final = live.final /\ live'.tomb = live.tomb
      /\ live'.buried = live.buried /\ live'.revoked = live.revoked
      /\ live'.denied = live.denied /\ live'.stream = st /\ live'.wraps = ws
  BY <1>0, <1>1, <1>2 DEF Rows
<1>5. \A u \in Versions : st[u] # NoGen => st[u] = live.stream[u]
  BY <1>3
<1>6. \A w \in ws : w \in live.wraps /\ st[w.v] = live.stream[w.v] /\ st[w.v] # NoGen
  BY <1>0, <1>3 DEF Sound, Rows, Wrap
<1> HIDE DEF ws
<1>7. Sound(live', made')
  <2>1. \A u \in Versions : live'.stream[u] # NoGen =>
          /\ u = live'.current \/ (u = live'.current + 1 /\ u \notin live'.final)
          /\ live'.stream[u] \in DOMAIN made' /\ made'[live'.stream[u]] = u
          /\ live'.stream[u] \notin live'.buried
    BY <1>0, <1>1, <1>4, <1>5 DEF Sound
  <2>2. 1..live'.current \subseteq live'.final
    BY <1>4
  <2>3. \A w \in live'.wraps : /\ live'.stream[w.v] # NoGen
                               /\ w.g \in DOMAIN made' /\ made'[w.g] = w.v
                               /\ <<w.g, w.u>> \notin live'.denied
    BY <1>0, <1>1, <1>4, <1>6 DEF Sound
  <2>4. /\ live'.buried \subseteq DOMAIN made'
        /\ live'.buried # {} => live'.tomb
        /\ \A d \in live'.denied : d[1] \in DOMAIN made' /\ <<made'[d[1]], d[2]>> \in live'.revoked
    BY <1>0, <1>1, <1>4 DEF Sound
  <2>5. live'.exists /\ ~(live'.current >= 1)
    BY <1>1, <1>4
  <2>6. QED
    BY <2>1, <2>2, <2>3, <2>4, <2>5, Zenon DEF Sound
<1>8. OwnWraps(live', left')
  BY <1>1, <1>4, <1>6 DEF OwnWraps, LineageInv
<1>9. ASSUME NEW b \in Rows, Past(b, live, left) PROVE Past(b, live', left')
  <2> SUFFICES ASSUME NEW w \in b.wraps, w.v \in b.final,
                      w.g \notin live.buried \union left
               PROVE  FALSE
    BY <1>1, <1>4 DEF Past
  <2>1. w.v \in Nat \ {0}
    BY DEF Rows, Wrap, Versions
  <2>2. live.current > w.v \/ live.current = w.v
    BY <1>9 DEF Past
  <2>3. QED
    BY <1>1, <2>1, <2>2
<1>10. left' \subseteq DOMAIN made'
  BY <1>1 DEF LineageInv
<1>11. QED
  BY <1>7, <1>8, <1>9, <1>10 DEF Keeps

\* Once every generation made is buried or left behind, all rows are a past.
LEMMA PastOfAll ==
  ASSUME NEW b \in Rows, NEW m, Sound(b, m), NEW r, NEW l,
         DOMAIN m \subseteq r.buried \union l
  PROVE  Past(b, r, l)
BY DEF Past, Sound

LEMMA DeleteKeeps == ASSUME TypeOK, RowsInv, LineageInv, Delete PROVE Keeps
<1> DEFINE r == NoFile(live)
<1>0. live \in Rows /\ Sound(live, made) /\ live.buried \subseteq DOMAIN made
  BY DEF TypeOK, RowsInv, Sound
<1>1. r \in Rows /\ Sound(r, made)
  BY <1>0, NoFileType, SoundNoFile
<1>2. /\ live' = [r EXCEPT !.tomb = TRUE, !.buried = @ \union DOMAIN made]
      /\ made' = made /\ left' = left
  BY DEF Delete, AllGens
<1>3. ~r.exists /\ r.wraps = {} /\ r.buried = live.buried
  BY <1>0 DEF NoFile, Rows
<1> HIDE DEF r
<1>4. /\ live'.exists = r.exists /\ live'.current = r.current
      /\ live'.final = r.final /\ live'.tomb = TRUE
      /\ live'.buried = r.buried \union DOMAIN made /\ live'.revoked = r.revoked
      /\ live'.denied = r.denied /\ live'.stream = r.stream /\ live'.wraps = {}
  BY <1>1, <1>2, <1>3 DEF Rows
<1>5. Sound(live', made')
  <2>1. /\ ~live'.exists /\ live'.tomb /\ live'.wraps = {} /\ live'.current = 0
        /\ live'.final = {} /\ \A u \in Versions : live'.stream[u] = NoGen
    BY <1>1, <1>3, <1>4 DEF Sound
  <2>2. 1..live'.current \subseteq live'.final
    BY <2>1
  <2>3. live'.buried \subseteq DOMAIN made'
    BY <1>0, <1>2, <1>3, <1>4
  <2>4. \A d \in live'.denied : d[1] \in DOMAIN made' /\ <<made'[d[1]], d[2]>> \in live'.revoked
    BY <1>1, <1>2, <1>4 DEF Sound
  <2>5. QED
    BY <2>1, <2>2, <2>3, <2>4, Zenon DEF Sound
<1>6. OwnWraps(live', left')
  BY <1>4 DEF OwnWraps
<1>7. ASSUME NEW b \in Rows, Sound(b, made) PROVE Past(b, live', left')
  <2>1. DOMAIN made \subseteq live'.buried \union left'
    BY <1>4
  <2>2. QED
    BY <1>7, <2>1, PastOfAll
<1>8. QED
  BY <1>2, <1>5, <1>6, <1>7 DEF Keeps, LineageInv

LEMMA AddWrapKeeps ==
  ASSUME TypeOK, RowsInv, LineageInv, NEW u \in Users, AddWrap(u) PROVE Keeps
<1> DEFINE g == live.stream[live.current]
           x == [v |-> live.current, u |-> u, g |-> g]
           ws == {w \in live.wraps : ~(w.v = live.current /\ w.u = u)} \union {x}
<1>0. live \in Rows /\ Sound(live, made)
  BY DEF TypeOK, RowsInv
<1>1. /\ live.current \in Versions /\ g # NoGen /\ live.exists
      /\ made' = made /\ left' = left
  BY <1>0, Bounds DEF AddWrap, Rows, Versions
<1>2. live' = [live EXCEPT !.wraps = ws, !.denied = @ \ {<<g, u>>}]
  BY DEF AddWrap
<1>3. x.v = live.current /\ x.u = u /\ x.g = g
  OBVIOUS
<1>4. \A w \in ws : w = x \/ (w \in live.wraps /\ ~(w.v = live.current /\ w.u = u))
  OBVIOUS
<1>5. g \in DOMAIN made /\ made[g] = live.current
  BY <1>0, <1>1 DEF Sound
<1> HIDE DEF g, x, ws
<1>6. /\ live'.exists = live.exists /\ live'.current = live.current
      /\ live'.final = live.final /\ live'.tomb = live.tomb
      /\ live'.buried = live.buried /\ live'.revoked = live.revoked
      /\ live'.denied = live.denied \ {<<g, u>>} /\ live'.stream = live.stream
      /\ live'.wraps = ws
  BY <1>0, <1>2 DEF Rows
<1>7. Sound(live', made')
  <2>1. /\ live'.exists
        /\ live'.exists /\ live'.current >= 1 => live'.stream[live'.current] # NoGen
        /\ 1..live'.current \subseteq live'.final
        /\ live'.buried \subseteq DOMAIN made'
        /\ live'.buried # {} => live'.tomb
    BY <1>0, <1>1, <1>6 DEF Sound
  <2>2. \A v \in Versions : live'.stream[v] # NoGen =>
          /\ v = live'.current \/ (v = live'.current + 1 /\ v \notin live'.final)
          /\ live'.stream[v] \in DOMAIN made' /\ made'[live'.stream[v]] = v
          /\ live'.stream[v] \notin live'.buried
    BY <1>0, <1>1, <1>6 DEF Sound
  <2>3. \A d \in live'.denied : d[1] \in DOMAIN made' /\ <<made'[d[1]], d[2]>> \in live'.revoked
    BY <1>0, <1>1, <1>6 DEF Sound
  <2>4. ASSUME NEW w \in live'.wraps
        PROVE  /\ live'.stream[w.v] # NoGen
               /\ w.g \in DOMAIN made' /\ made'[w.g] = w.v
               /\ <<w.g, w.u>> \notin live'.denied
    <3>1. CASE w = x
      BY <1>1, <1>3, <1>5, <1>6, <3>1 DEF g
    <3>2. CASE w \in live.wraps
      BY <1>0, <1>1, <1>6, <3>2 DEF Sound
    <3>3. QED
      BY <1>4, <1>6, <2>4, <3>1, <3>2
  <2>5. QED
    BY <2>1, <2>2, <2>3, <2>4, Zenon DEF Sound
<1>8. OwnWraps(live', left')
  BY <1>1, <1>3, <1>4, <1>6 DEF OwnWraps, LineageInv, g
<1>9. \A b \in Rows : Past(b, live, left) => Past(b, live', left')
  BY <1>1, <1>6 DEF Past
<1>10. QED
  BY <1>1, <1>7, <1>8, <1>9 DEF Keeps, LineageInv

LEMMA DeleteWrapKeeps ==
  ASSUME TypeOK, RowsInv, LineageInv, NEW w \in live.wraps, DeleteWrap(w) PROVE Keeps
<1>0. live \in Rows /\ Sound(live, made)
  BY DEF TypeOK, RowsInv
<1>1. /\ live' = [live EXCEPT !.wraps = @ \ {w},
                              !.revoked = @ \union {<<w.v, w.u>>},
                              !.denied = @ \union {<<w.g, w.u>>}]
      /\ w.v = live.current /\ made' = made /\ left' = left
  BY DEF DeleteWrap
<1>2. /\ live'.exists = live.exists /\ live'.current = live.current
      /\ live'.final = live.final /\ live'.tomb = live.tomb
      /\ live'.buried = live.buried
      /\ live'.revoked = live.revoked \union {<<w.v, w.u>>}
      /\ live'.denied = live.denied \union {<<w.g, w.u>>}
      /\ live'.stream = live.stream /\ live'.wraps = live.wraps \ {w}
  BY <1>0, <1>1 DEF Rows
<1>3. w.g \in DOMAIN made /\ made[w.g] = w.v /\ live.exists
  BY <1>0 DEF Sound
<1>4. Sound(live', made')
  <2>1. /\ live'.exists
        /\ live'.exists /\ live'.current >= 1 => live'.stream[live'.current] # NoGen
        /\ 1..live'.current \subseteq live'.final
        /\ live'.buried \subseteq DOMAIN made'
        /\ live'.buried # {} => live'.tomb
    BY <1>0, <1>1, <1>2, <1>3 DEF Sound
  <2>2. \A v \in Versions : live'.stream[v] # NoGen =>
          /\ v = live'.current \/ (v = live'.current + 1 /\ v \notin live'.final)
          /\ live'.stream[v] \in DOMAIN made' /\ made'[live'.stream[v]] = v
          /\ live'.stream[v] \notin live'.buried
    BY <1>0, <1>1, <1>2 DEF Sound
  <2>3. ASSUME NEW d \in live'.denied
        PROVE  d[1] \in DOMAIN made' /\ <<made'[d[1]], d[2]>> \in live'.revoked
    BY <1>0, <1>1, <1>2, <1>3 DEF Sound
  <2>4. ASSUME NEW y \in live'.wraps
        PROVE  /\ live'.stream[y.v] # NoGen
               /\ y.g \in DOMAIN made' /\ made'[y.g] = y.v
               /\ <<y.g, y.u>> \notin live'.denied
    <3>1. y \in live.wraps /\ y # w
      BY <1>2
    <3>2. /\ live.stream[y.v] # NoGen /\ y.g \in DOMAIN made /\ made[y.g] = y.v
          /\ <<y.g, y.u>> \notin live.denied
      BY <1>0, <3>1 DEF Sound
    <3>3. ASSUME <<y.g, y.u>> = <<w.g, w.u>> PROVE FALSE
      <4>1. y.v = w.v /\ y.u = w.u /\ y.g = w.g
        BY <1>3, <3>2, <3>3
      <4>2. y \in Wrap /\ w \in Wrap
        BY <1>0, <3>1 DEF Rows
      <4>3. QED
        BY <3>1, <4>1, <4>2 DEF Wrap
    <3>4. QED
      BY <1>1, <1>2, <3>2, <3>3
  <2>5. QED
    BY <2>1, <2>2, <2>3, <2>4, Zenon DEF Sound
<1>5. OwnWraps(live', left')
  BY <1>1, <1>2 DEF OwnWraps, LineageInv
<1>6. \A b \in Rows : Past(b, live, left) => Past(b, live', left')
  BY <1>1, <1>2 DEF Past
<1>7. QED
  BY <1>1, <1>4, <1>5, <1>6 DEF Keeps, LineageInv

LEMMA RecoveryKeeps == ASSUME TypeOK, RowsInv, LineageInv, Recovery PROVE Keeps
<1>0. live \in Rows /\ Sound(live, made) /\ made' = made
  BY DEF TypeOK, RowsInv, Recovery, LoseRows, LoseBox, Reregister, Replace, Merge
<1>1. ASSUME left' = left \union AllGens
      PROVE  /\ left' \subseteq DOMAIN made'
             /\ \A b \in Rows : Sound(b, made) => Past(b, live', left')
             /\ \A r \in Rows : Sound(r, made) => OwnWraps(r, left')
  <2>1. DOMAIN made \subseteq live'.buried \union left'
    BY <1>1 DEF AllGens
  <2>2. \A b \in Rows : Sound(b, made) => Past(b, live', left')
    BY <2>1, PastOfAll
  <2>3. \A r \in Rows : Sound(r, made) => OwnWraps(r, left')
    BY <1>1 DEF Sound, OwnWraps, AllGens
  <2>4. QED
    BY <1>0, <1>1, <2>2, <2>3 DEF LineageInv, AllGens
<1>2. CASE LoseRows
  <2>1. left' = left \union AllGens /\ live' = NoFile(live)
    BY <1>2 DEF LoseRows
  <2>2. live' \in Rows /\ Sound(live', made')
    BY <1>0, <2>1, NoFileType, SoundNoFile
  <2>3. QED
    BY <1>0, <1>1, <2>1, <2>2 DEF Keeps
<1>3. CASE LoseBox
  <2>1. left' = left \union AllGens /\ live' = EmptyRows
    BY <1>3 DEF LoseBox
  <2>2. live' \in Rows /\ Sound(live', made')
    BY <2>1, EmptyRowsType, SoundEmpty
  <2>3. QED
    BY <1>0, <1>1, <2>1, <2>2 DEF Keeps
<1>4. CASE Reregister
  <2>1. live' = [live EXCEPT !.owner = "taken"] /\ left' = left
    BY <1>4 DEF Reregister
  <2>2. /\ live'.exists = live.exists /\ live'.current = live.current
        /\ live'.final = live.final /\ live'.tomb = live.tomb
        /\ live'.buried = live.buried /\ live'.revoked = live.revoked
        /\ live'.denied = live.denied /\ live'.stream = live.stream
        /\ live'.wraps = live.wraps
    BY <1>0, <2>1 DEF Rows
  <2>3. Sound(live', made')
    BY <1>0, <2>2, Zenon DEF Sound
  <2>4. OwnWraps(live', left')
    BY <2>1, <2>2 DEF OwnWraps, LineageInv
  <2>5. \A b \in Rows : Past(b, live, left) => Past(b, live', left')
    BY <2>1, <2>2 DEF Past
  <2>6. QED
    BY <1>0, <2>1, <2>3, <2>4, <2>5 DEF Keeps, LineageInv
<1>5. ASSUME NEW s \in Stamps, Replace(s) PROVE Keeps
  <2>1. left' = left \union AllGens /\ live' = bundles[s].rows
    BY <1>5 DEF Replace
  <2>2. live' \in Rows /\ Sound(live', made')
    BY <1>0, <2>1 DEF TypeOK, RowsInv, Bundle
  <2>3. QED
    BY <1>0, <1>1, <2>1, <2>2 DEF Keeps
<1>6. ASSUME NEW s \in Stamps, Merge(s) PROVE Keeps
  <2> DEFINE b == bundles[s].rows
  <2>1. b \in Rows /\ Sound(b, made) /\ Past(b, live, left)
    BY DEF TypeOK, RowsInv, LineageInv, Bundle
  <2>2. left' = left /\ live' = Merged(live, b)
    BY <1>6 DEF Merge
  <2>3. OwnWraps(live, left) /\ left \subseteq DOMAIN made
    BY DEF LineageInv
  <2> HIDE DEF b
  <2>4. Sound(live', made') /\ OwnWraps(live', left')
    BY <1>0, <2>1, <2>2, <2>3, MergedSound, MergedOwn
  <2>5. \A p \in Rows : Past(p, live, left) => Past(p, live', left')
    BY <1>0, <2>1, <2>2, MergedPast
  <2>6. QED
    BY <1>0, <2>2, <2>3, <2>4, <2>5 DEF Keeps
<1>7. QED
  BY <1>2, <1>3, <1>4, <1>5, <1>6 DEF Recovery

\* What leaves the bundles and the dump alone keeps the whole of both.
LEMMA KeepsRows ==
  ASSUME TypeOK, RowsInv, LineageInv, Keeps, bundles' = bundles,
         run'.dump = run.dump \/ run'.dump = EmptyRows,
         made' = made \/ (\E v \in Versions : made' = Append(made, v))
  PROVE  RowsInv' /\ LineageInv'
<1>1. \A r \in Rows : Sound(r, made) => Sound(r, made')
  BY SoundAppend DEF TypeOK
<1>2. /\ run.dump \in Rows /\ Sound(run.dump, made) /\ Past(run.dump, live, left)
      /\ \A s \in Stamps : /\ bundles[s].rows \in Rows /\ Sound(bundles[s].rows, made)
                            /\ Past(bundles[s].rows, live, left)
  BY DEF TypeOK, RunType, Bundle, RowsInv, LineageInv
<1>3. /\ Sound(run.dump, made') /\ Past(run.dump, live', left')
      /\ \A s \in Stamps : /\ Sound(bundles[s].rows, made')
                            /\ Past(bundles[s].rows, live', left')
  BY <1>1, <1>2 DEF Keeps
<1>4. Sound(run'.dump, made') /\ Past(run'.dump, live', left')
  BY <1>3, SoundEmpty, PastEmpty
<1>5. QED
  BY <1>3, <1>4 DEF Keeps, RowsInv, LineageInv

\* A backup run changes no live row: what it writes is a dump or what it was.
LEMMA BackupRows ==
  ASSUME TypeOK, Room, RowsInv, LineageInv, BackupRun PROVE RowsInv' /\ LineageInv'
<1>0. /\ UNCHANGED <<live, made, left>> /\ live \in Rows
      /\ Sound(live, made) /\ OwnWraps(live, left) /\ left \subseteq DOMAIN made
  BY DEF TypeOK, RowsInv, LineageInv, BackupRun, StartBackup, Enumerate, SealAndCopy,
         Commit, CommitFails, Abort, store
<1> DEFINE Old(b) == Sound(b, made) /\ Past(b, live, left)
<1>1. /\ Old(run.dump) /\ Old(EmptyRows) /\ Old(live)
      /\ \A s \in Stamps : Old(bundles[s].rows)
  BY <1>0, SoundEmpty, PastEmpty, PastSelf DEF RowsInv, LineageInv
<1>2. NoRun.dump = EmptyRows /\ NoBundle.rows = EmptyRows
      /\ \A st \in BOOLEAN : Parts(st).rows = EmptyRows
      /\ \A b \in Bundle : \A n : Shrunk(b, n).rows \in {b.rows, EmptyRows}
  BY NoBundleType DEF NoRun, NoBundle, Parts, Shrunk, Bundle
<1>3. ASSUME pc # "idle", NEW t, NEW n
      PROVE  \A s \in Stamps : /\ Old(WithManifest(run.stamp)[s].rows)
                                /\ Old(PrunedTo(t, n)[s].rows)
  <2>1. \A s \in Stamps : Old(WithManifest(run.stamp)[s].rows)
    BY <1>1, <1>3 DEF WithManifest, TypeOK
  <2>2. \A s \in Stamps : bundles[s] \in Bundle
    BY DEF TypeOK
  <2>3. QED
    BY <1>1, <1>2, <2>1, <2>2 DEF PrunedTo
<1> HIDE DEF Old
<1>4. SUFFICES Old(run'.dump) /\ \A s \in Stamps : Old(bundles'[s].rows)
  BY <1>0 DEF Old, RowsInv, LineageInv
<1>5. ASSUME NEW s \in Stamps, StartBackup(s)
      PROVE  Old(run'.dump) /\ \A t \in Stamps : Old(bundles'[t].rows)
  <2>1. run'.dump = live
    BY <1>5 DEF StartBackup, NoRun
  <2>2. QED
    BY <1>1, <1>5, <2>1 DEF StartBackup
<1>6. CASE Enumerate
  <2>1. run'.dump = run.dump
    BY <1>6 DEF Enumerate, Listed, TypeOK, RunType
  <2>2. QED
    BY <1>1, <1>6, <2>1 DEF Enumerate
<1>7. CASE SealAndCopy
  <2>1. run'.dump = run.dump
    BY <1>7 DEF SealAndCopy, TypeOK, RunType
  <2>2. QED
    BY <1>1, <1>2, <1>7, <2>1 DEF SealAndCopy, TypeOK
<1>8. CASE Commit
  BY <1>1, <1>2, <1>3, <1>8 DEF Commit
<1>9. CASE CommitFails
  BY <1>1, <1>2, <1>3, <1>9 DEF CommitFails
<1>10. CASE Abort
  BY <1>1, <1>2, <1>10 DEF Abort, TypeOK
<1>11. QED
  BY <1>5, <1>6, <1>7, <1>8, <1>9, <1>10 DEF BackupRun

\* The rows of the invariant through any step.
LEMMA RowsStep ==
  ASSUME TypeOK, Room, RowsInv, LineageInv, [Next]_vars PROVE RowsInv' /\ LineageInv'
<1>1. CASE Requests
  <2>1. Keeps \/ (\E v \in Versions : Offload(v))
    BY <1>1, StageKeeps, FinalizeKeeps, DiscardKeeps, DeleteKeeps, AddWrapKeeps,
       DeleteWrapKeeps DEF Requests
  <2>2. UNCHANGED <<bundles, run>>
    BY <1>1 DEF Requests, Stage, Offload, Finalize, DiscardStaged, Delete, AddWrap,
                DeleteWrap, backup
  <2>3. made' = made \/ (\E v \in Versions : made' = Append(made, v))
    BY <1>1 DEF Requests, Stage, Offload, Finalize, DiscardStaged, Delete, AddWrap,
                DeleteWrap
  <2>4. CASE Keeps
    BY <2>2, <2>3, <2>4, KeepsRows
  <2>5. CASE \E v \in Versions : Offload(v)
    <3>1. UNCHANGED <<live, made, left, bundles, run>>
      BY <2>5 DEF Offload, backup
    <3>2. QED
      BY <3>1 DEF RowsInv, LineageInv
  <2>6. QED
    BY <2>1, <2>4, <2>5
<1>2. CASE BackupRun
  BY <1>2, BackupRows
<1>3. CASE Recovery
  <2>1. made' = made /\ bundles' = bundles /\ (run' = run \/ run' = NoRun)
    BY <1>3 DEF Recovery, LoseRows, LoseBox, Reregister, Replace, Merge, backup
  <2>2. run'.dump = run.dump \/ run'.dump = EmptyRows
    BY <2>1 DEF NoRun
  <2>3. Keeps
    BY <1>3, RecoveryKeeps
  <2>4. QED
    BY <2>1, <2>2, <2>3, KeepsRows
<1>4. CASE UNCHANGED vars
  <2>1. UNCHANGED <<live, made, left, bundles, run>>
    BY <1>4 DEF vars, store, backup
  <2>2. QED
    BY <2>1 DEF RowsInv, LineageInv
<1>5. QED
  BY <1>1, <1>2, <1>3, <1>4 DEF Next

-----------------------------------------------------------------------------
(* The bundles on the tier.                                                *)

\* Publishing under a stamp, with any part of the pruning done, leaves that
\* bundle listed and whole, and cuts no other without taking it off the list.
LEMMA PublishKeeps ==
  ASSUME TypeOK, Room, BundleInv, pc # "idle",
         \/ bundles' = WithManifest(run.stamp)
         \/ \E t, n : bundles' = PrunedTo(t, n),
         commits' = commits + 1, complete' \in {complete, commits + 1}
  PROVE  complete' <= commits' /\ ListedIsWhole' /\ FreshBundleStays'
<1>1. run.stamp \in Stamps /\ commits \in Nat /\ complete \in Nat /\ complete <= commits
  BY Bounds DEF TypeOK, BundleInv
<1>2. \A s \in Stamps : bundles[s] \in Bundle
  BY DEF TypeOK
<1>3. run.stamp \notin Victims(run.stamp)
  BY DEF Victims
<1>4. WithManifest(run.stamp)[run.stamp] =
        [db |-> TRUE, state |-> TRUE, manifest |-> TRUE,
         seq |-> commits + 1, rows |-> run.dump]
  BY <1>1 DEF WithManifest, TypeOK
<1>5. \A s \in Stamps : s # run.stamp => WithManifest(run.stamp)[s] = bundles[s]
  BY DEF WithManifest, TypeOK
<1>6. bundles'[run.stamp] = WithManifest(run.stamp)[run.stamp]
  BY <1>1, <1>3 DEF PrunedTo
<1>7. \A b \in Bundle : \A n : Shrunk(b, n) = b \/ Shrunk(b, n).manifest = FALSE
  BY DEF Shrunk, NoBundle
<1>8. \A s \in Stamps : s # run.stamp =>
        bundles'[s] = bundles[s] \/ bundles'[s].manifest = FALSE
  BY <1>2, <1>5, <1>7 DEF PrunedTo
<1>9. ListedIsWhole'
  <2> SUFFICES ASSUME NEW s \in Stamps, bundles'[s].manifest
               PROVE  bundles'[s].db /\ bundles'[s].state
    BY DEF ListedIsWhole, Published
  <2>1. CASE s = run.stamp
    BY <1>4, <1>6, <2>1
  <2>2. CASE s # run.stamp
    BY <1>8, <2>2 DEF BundleInv, ListedIsWhole, Published
  <2>3. QED
    BY <2>1, <2>2
<1>10. bundles'[run.stamp].manifest /\ bundles'[run.stamp].seq = commits + 1
  BY <1>4, <1>6
<1>11. FreshBundleStays'
  BY <1>1, <1>10 DEF FreshBundleStays, Published
<1>12. QED
  BY <1>1, <1>9, <1>11

LEMMA BundleStep ==
  ASSUME TypeOK, Room, BundleInv, [Next]_vars PROVE BundleInv'
<1>0. \A st \in BOOLEAN : Parts(st).manifest = FALSE
  BY DEF Parts, NoBundle
\* Steps that touch no bundle, and give the run at most an end.
<1>1. ASSUME UNCHANGED <<bundles, commits, complete>>,
             pc' = "idle" \/ (pc # "idle" /\ run'.stamp = run.stamp)
      PROVE  BundleInv'
  BY <1>1 DEF BundleInv, ListedIsWhole, FreshBundleStays, Published
\* Sealing: the stamp is not listed before or after.
<1>2. ASSUME pc # "idle", UNCHANGED <<commits, complete>>,
             pc' = "idle" \/ run'.stamp = run.stamp,
             NEW st \in BOOLEAN, bundles' = [bundles EXCEPT ![run.stamp] = Parts(st)]
      PROVE  BundleInv'
  <2>1. run.stamp \in Stamps /\ ~bundles[run.stamp].manifest
    BY <1>2 DEF BundleInv, TypeOK
  <2>2. /\ bundles'[run.stamp].manifest = FALSE
        /\ \A s \in Stamps : s # run.stamp => bundles'[s] = bundles[s]
    BY <1>0, <1>2, <2>1 DEF TypeOK
  <2>3. Published' = Published
    BY <2>1, <2>2 DEF Published
  <2>4. \A s \in Published : bundles'[s] = bundles[s]
    BY <2>1, <2>2 DEF Published
  <2>5. QED
    BY <1>2, <2>2, <2>3, <2>4 DEF BundleInv, ListedIsWhole, FreshBundleStays
<1>3. CASE Requests
  <2>1. UNCHANGED <<bundles, commits, complete, pc, run>>
    BY <1>3 DEF Requests, Stage, Offload, Finalize, DiscardStaged, Delete, AddWrap,
                DeleteWrap, backup
  <2>2. QED
    BY <2>1 DEF BundleInv, ListedIsWhole, FreshBundleStays, Published
<1>4. ASSUME NEW s \in Stamps, StartBackup(s) PROVE BundleInv'
  <2>1. run'.stamp = s /\ UNCHANGED <<bundles, commits, complete>>
    BY <1>4 DEF StartBackup, NoRun
  <2>2. ~bundles[s].manifest
    BY <1>4 DEF StartBackup, NoBundle
  <2>3. QED
    BY <2>1, <2>2 DEF BundleInv, ListedIsWhole, FreshBundleStays, Published
<1>5. CASE Enumerate
  <2>1. pc # "idle" /\ run'.stamp = run.stamp /\ UNCHANGED <<bundles, commits, complete>>
    BY <1>5 DEF Enumerate, Listed, TypeOK, RunType
  <2>2. QED
    BY <1>1, <2>1
<1>6. CASE SealAndCopy
  <2>1. pc # "idle" /\ run'.stamp = run.stamp /\ UNCHANGED <<commits, complete>>
    BY <1>6 DEF SealAndCopy, TypeOK, RunType
  <2>2. QED
    BY <1>2, <1>6, <2>1 DEF SealAndCopy
<1>7. CASE Commit
  <2>1. /\ pc # "idle" /\ bundles' = PrunedTo(MaxStamp + 1, 0) /\ pc' = "idle"
        /\ commits' = commits + 1 /\ complete' = commits + 1
    BY <1>7 DEF Commit
  <2>2. QED
    BY <2>1, PublishKeeps DEF BundleInv
<1>8. CASE CommitFails
  <2>1. /\ pc # "idle" /\ pc' = "idle"
        /\ bundles' = WithManifest(run.stamp) \/ \E t, n : bundles' = PrunedTo(t, n)
        /\ commits' = commits + 1 /\ complete' = complete
    BY <1>8 DEF CommitFails
  <2>2. QED
    BY <2>1, PublishKeeps DEF BundleInv
<1>9. CASE Abort
  <2>1. pc # "idle" /\ pc' = "idle" /\ UNCHANGED <<commits, complete>>
    BY <1>9 DEF Abort
  <2>2. bundles' = bundles \/ \E st \in BOOLEAN :
          bundles' = [bundles EXCEPT ![run.stamp] = Parts(st)]
    BY <1>9 DEF Abort
  <2>3. QED
    BY <1>1, <1>2, <2>1, <2>2
<1>10. CASE Recovery
  <2>1. /\ UNCHANGED <<bundles, commits, complete>>
        /\ UNCHANGED <<pc, run>> \/ pc' = "idle"
    BY <1>10 DEF Recovery, LoseRows, LoseBox, Reregister, Replace, Merge, backup
  <2>2. QED
    BY <2>1 DEF BundleInv, ListedIsWhole, FreshBundleStays, Published
<1>11. CASE UNCHANGED vars
  <2>1. UNCHANGED <<bundles, commits, complete, pc, run>>
    BY <1>11 DEF vars, backup
  <2>2. QED
    BY <2>1 DEF BundleInv, ListedIsWhole, FreshBundleStays, Published
<1>12. QED
  BY <1>3, <1>4, <1>5, <1>6, <1>7, <1>8, <1>9, <1>10, <1>11 DEF Next, BackupRun

-----------------------------------------------------------------------------
(* The theorems.                                                           *)

LEMMA InvInit == ASSUME Init PROVE IInv
<1>1. PICK given \in SUBSET Users : live = InUse(given)
  BY DEF Init
<1>2. TypeOK /\ Room
  BY TypeInit
<1>3. /\ live.exists = TRUE /\ live.current = 1 /\ live.final = {1}
      /\ live.stream = [[v \in Versions |-> NoGen] EXCEPT ![1] = 1]
      /\ live.wraps = {[v |-> 1, u |-> u, g |-> 1] : u \in given}
      /\ live.denied = {} /\ live.buried = {}
  BY <1>1 DEF InUse, EmptyRows
<1>4. made = <<1>> /\ run = NoRun /\ left = {}
      /\ \A s \in Stamps : bundles[s] = NoBundle
  BY DEF Init
<1>5. 1 \in DOMAIN made /\ made[1] = 1 /\ 1 \in Versions
      /\ live.stream[1] = 1 /\ \A v \in Versions : v # 1 => live.stream[v] = NoGen
  BY <1>3, <1>4, Bounds DEF Versions
<1>6. \A w \in live.wraps : w.v = 1 /\ w.g = 1
  BY <1>3
<1>7. Sound(live, made)
  BY <1>3, <1>5, <1>6 DEF Sound, NoGen
<1>8. OwnWraps(live, left)
  BY <1>5, <1>6 DEF OwnWraps
<1>9. run.dump = EmptyRows /\ \A s \in Stamps : bundles[s].rows = EmptyRows
  BY <1>4 DEF NoRun, NoBundle
<1>10. RowsInv /\ LineageInv
  BY <1>4, <1>7, <1>8, <1>9, SoundEmpty, PastEmpty DEF RowsInv, LineageInv
<1>11. BundleInv
  BY <1>4 DEF Init, BundleInv, ListedIsWhole, FreshBundleStays, Published, NoBundle
<1>12. QED
  BY <1>2, <1>10, <1>11 DEF IInv

\* The inductive invariant holds throughout.
THEOREM Invariance == Spec => []IInv
<1>1. Init => IInv
  BY InvInit
<1>2. IInv /\ [Next]_vars => IInv'
  BY TypeStep, RowsStep, BundleStep DEF IInv
<1>3. QED
  BY <1>1, <1>2, PTL DEF Spec

\* What list_backups shows is whole, however runs abort and prunes fail.
THEOREM ListedIsWholeAlways == Spec => []ListedIsWhole
<1>1. IInv => ListedIsWhole
  BY DEF IInv, BundleInv
<1>2. QED
  BY <1>1, Invariance, PTL

\* Retention (prune_protecting) never deletes the bundle just completed, in
\* whatever order the clock gave the stamps.
THEOREM FreshBundleAlways == Spec => []FreshBundleStays
<1>1. IInv => FreshBundleStays
  BY DEF IInv, BundleInv
<1>2. QED
  BY <1>1, Invariance, PTL

\* plan_file_gate: no merge serves what the owner destroyed.
THEOREM DeletedAlways == Spec => []DeletedStaysDeleted
<1>1. IInv => DeletedStaysDeleted
  BY DEF IInv, RowsInv, Sound, DeletedStaysDeleted, GensOf
<1>2. QED
  BY <1>1, Invariance, PTL

\* merge_file_key_wraps: no merge gives a revoked recipient the wrap back, and
\* none brings a staging's.
THEOREM NoWrapComesBackAlways == Spec => []NoWrapComesBack
<1>1. IInv => NoWrapComesBack
  BY DEF IInv, RowsInv, LineageInv, Sound, OwnWraps, NoWrapComesBack
<1>2. QED
  BY <1>1, Invariance, PTL

\* merge_file_streams: rows of superseded versions do not come back.
THEOREM SupersededAlways == Spec => []SupersededStaysGone
<1>1. IInv => SupersededStaysGone
  BY DEF IInv, RowsInv, Sound, SupersededStaysGone
<1>2. QED
  BY <1>1, Invariance, PTL

\* merge_file_versions: the finalized history comes back whole.
THEOREM HistoryAlways == Spec => []HistoryKept
<1>1. IInv => HistoryKept
  BY DEF IInv, RowsInv, Sound, HistoryKept
<1>2. QED
  BY <1>1, Invariance, PTL
=============================================================================
