---------------------- MODULE BackupRestoreTier_proofs ----------------------
(***************************************************************************)
(* The tier under BackupRestore: the ciphertext of a listed bundle, and of *)
(* what the live database serves, is there or was given up.                *)
(***************************************************************************)
EXTENDS BackupRestore_proofs

\* GivenUp and Read of given stores: m the generations made, x those retired,
\* l and c the local disk and the cold tier.
Gone(g, m, x, c) ==
  \/ g \in x
  \/ \E h \in DOMAIN m : h > g /\ m[h] = m[g]
  \/ c[m[g]] # NoGen /\ c[m[g]] < g

ReadOf(v, l, c) == IF l[v] # NoGen THEN l[v] ELSE c[v]

\* A tier holds a generation under its own name only; the local disk, where
\* every staging is written, the latest of that name.
Names(m, x, l, c) ==
  /\ x \subseteq DOMAIN m
  /\ \A v \in Versions : l[v] # NoGen =>
       /\ l[v] \in DOMAIN m /\ m[l[v]] = v
       /\ \A h \in DOMAIN m : m[h] = v => h <= l[v]
  /\ \A v \in Versions : c[v] # NoGen => c[v] \in DOMAIN m /\ m[c[v]] = v

\* What the run under way will publish: the dump's current version is still
\* the live one until the streams are listed, and can be read until it has its
\* copy; or its ciphertext was given up.
DumpOpens ==
  \A v \in CurrentStreams(run.dump) :
    \/ Gone(run.dump.stream[v], made, retired, cold)
    \/ cold[v] = run.dump.stream[v]
    \/ pc = "idle"
    \/ /\ pc = "dumped"
       /\ live.exists /\ live.current = v /\ live.stream[v] = run.dump.stream[v]
    \/ /\ pc = "listed"
       /\ v \in run.refs /\ ReadOf(v, local, cold) = run.dump.stream[v]

Served(r, m, x, l, c) ==
  \A v \in CurrentStreams(r) :
    ReadOf(v, l, c) = r.stream[v] \/ Gone(r.stream[v], m, x, c)

Held(r, m, x, c) ==
  \A v \in CurrentStreams(r) : c[v] = r.stream[v] \/ Gone(r.stream[v], m, x, c)

TierInv ==
  /\ Names(made, retired, local, cold)
  /\ Served(live, made, retired, local, cold)
  /\ \A s \in Published : Held(bundles[s].rows, made, retired, cold)
  /\ DumpOpens

\* What a step owes every generation on the tier: copies stay, or the
\* generation is given up; what was given up stays so, or is copied at last.
KeepsCold ==
  /\ Names(made', retired', local', cold')
  /\ \A g \in DOMAIN made :
       \/ Gone(g, made', retired', cold')
       \/ cold'[made[g]] = g
       \/ ~Gone(g, made, retired, cold) /\ cold[made[g]] # g

KeepsRead ==
  \A g \in DOMAIN made :
    ReadOf(made[g], local, cold) = g =>
      \/ Gone(g, made', retired', cold')
      \/ ReadOf(made[g], local', cold') = g

\* The current stream of sound rows.
LEMMA CurrentOf ==
  ASSUME NEW r \in Rows, NEW m, Sound(r, m), NEW v \in CurrentStreams(r)
  PROVE  /\ r.exists /\ v = r.current /\ v \in Versions
         /\ r.stream[v] \in DOMAIN m /\ m[r.stream[v]] = v
<1>1. r.exists /\ v = r.current /\ v >= 1 /\ r.stream[v] # NoGen
  BY DEF CurrentStreams
<1>2. v \in Versions
  BY <1>1 DEF Rows, Versions
<1>3. QED
  BY <1>1, <1>2 DEF Sound

\* Under a local copy of a later generation, a cold one is given up.
LEMMA ColdReads ==
  ASSUME NEW m \in Seq(Versions), NEW x, NEW l, NEW c, Names(m, x, l, c),
         NEW g \in DOMAIN m, c[m[g]] = g
  PROVE  ReadOf(m[g], l, c) = g \/ Gone(g, m, x, c)
<1>1. m[g] \in Versions /\ g \in Nat
  OBVIOUS
<1>2. CASE l[m[g]] = NoGen
  BY <1>2 DEF ReadOf
<1>3. CASE l[m[g]] # NoGen
  <2>1. /\ l[m[g]] \in DOMAIN m /\ m[l[m[g]]] = m[g] /\ g <= l[m[g]]
    BY <1>1, <1>3 DEF Names
  <2>2. CASE l[m[g]] = g
    BY <1>3, <2>2 DEF ReadOf
  <2>3. CASE l[m[g]] # g
    <3>1. l[m[g]] > g
      BY <1>1, <2>1, <2>3
    <3>2. QED
      BY <2>1, <3>1 DEF Gone
  <2>4. QED
    BY <2>2, <2>3
<1>4. QED
  BY <1>2, <1>3

-----------------------------------------------------------------------------
(* What each step does to the tiers.                                       *)

LEMMA StageTier ==
  ASSUME TypeOK, RowsInv, TierInv, NEW given \in SUBSET Users, Stage(given)
  PROVE  KeepsCold /\ KeepsRead
<1> DEFINE n == Len(made) + 1
           v == IF live.exists THEN live.current + 1 ELSE 1
<1>1. /\ v \in Versions /\ made' = Append(made, v) /\ local' = [local EXCEPT ![v] = n]
      /\ UNCHANGED <<cold, retired>>
  BY DEF Stage
<1>2. made \in Seq(Versions) /\ local \in [Versions -> 0..MaxGen]
      /\ Names(made, retired, local, cold)
  BY DEF TypeOK, TierInv
<1> HIDE DEF v
<1>3. /\ n \in Nat /\ n # NoGen /\ n \in DOMAIN made' /\ made'[n] = v
      /\ DOMAIN made' = DOMAIN made \union {n}
      /\ \A g \in DOMAIN made : made'[g] = made[g] /\ g < n /\ g \in Nat
  BY <1>1, <1>2 DEF NoGen
<1>4. /\ local'[v] = n
      /\ \A u \in Versions : u # v => local'[u] = local[u]
  BY <1>1, <1>2
<1> HIDE DEF n
<1>5. Names(made', retired', local', cold')
  <2>1. retired' \subseteq DOMAIN made'
    BY <1>1, <1>2, <1>3 DEF Names
  <2>2. ASSUME NEW u \in Versions, local'[u] # NoGen
        PROVE  /\ local'[u] \in DOMAIN made' /\ made'[local'[u]] = u
               /\ \A h \in DOMAIN made' : made'[h] = u => h <= local'[u]
    <3>1. CASE u = v
      BY <1>3, <1>4, <3>1
    <3>2. CASE u # v
      BY <1>2, <1>3, <1>4, <2>2, <3>2 DEF Names
    <3>3. QED
      BY <3>1, <3>2
  <2>3. \A u \in Versions : cold'[u] # NoGen => cold'[u] \in DOMAIN made' /\ made'[cold'[u]] = u
    BY <1>1, <1>2, <1>3 DEF Names
  <2>4. QED
    BY <2>1, <2>2, <2>3 DEF Names
<1>6. ASSUME NEW g \in DOMAIN made, Gone(g, made, retired, cold)
      PROVE  Gone(g, made', retired', cold')
  BY <1>1, <1>3, <1>6 DEF Gone
<1>7. KeepsCold
  BY <1>1, <1>5, <1>6 DEF KeepsCold
<1>8. ASSUME NEW g \in DOMAIN made, ReadOf(made[g], local, cold) = g
      PROVE  Gone(g, made', retired', cold') \/ ReadOf(made[g], local', cold') = g
  <2>0. made[g] \in Versions
    BY <1>2
  <2>1. CASE made[g] = v
    BY <1>3, <2>1 DEF Gone
  <2>2. CASE made[g] # v
    BY <1>1, <1>4, <1>8, <2>0, <2>2 DEF ReadOf
  <2>3. QED
    BY <2>1, <2>2
<1>9. QED
  BY <1>7, <1>8 DEF KeepsRead

LEMMA OffloadTier ==
  ASSUME TypeOK, TierInv, NEW v \in Versions, Offload(v)
  PROVE  KeepsCold /\ KeepsRead
<1>1. /\ local[v] # NoGen /\ made' = made /\ retired' = retired
      /\ cold' = [cold EXCEPT ![v] = local[v]] /\ local' = [local EXCEPT ![v] = NoGen]
  BY DEF Offload
<1>2. /\ made \in Seq(Versions) /\ local \in [Versions -> 0..MaxGen]
      /\ cold \in [Versions -> 0..MaxGen] /\ Names(made, retired, local, cold)
  BY DEF TypeOK, TierInv
<1>3. /\ cold'[v] = local[v] /\ local'[v] = NoGen
      /\ \A u \in Versions : u # v => cold'[u] = cold[u] /\ local'[u] = local[u]
  BY <1>1, <1>2
<1>4. local[v] \in DOMAIN made /\ made[local[v]] = v
      /\ \A h \in DOMAIN made : made[h] = v => h <= local[v]
  BY <1>1, <1>2 DEF Names
<1>5. Names(made', retired', local', cold')
  BY <1>1, <1>2, <1>3, <1>4 DEF Names
<1>6. ASSUME NEW g \in DOMAIN made
      PROVE  /\ \/ Gone(g, made', retired', cold')
                \/ cold'[made[g]] = g
                \/ ~Gone(g, made, retired, cold) /\ cold[made[g]] # g
             /\ ReadOf(made[g], local, cold) = g =>
                  \/ Gone(g, made', retired', cold')
                  \/ ReadOf(made[g], local', cold') = g
  <2>0. made[g] \in Versions /\ g \in Nat
    BY <1>2
  <2>1. CASE made[g] = v
    <3>1. CASE g = local[v]
      BY <1>3, <2>1, <3>1 DEF ReadOf
    <3>2. CASE g # local[v]
      <4>1. g <= local[v] /\ local[v] \in Nat
        BY <1>2, <1>4, <2>1
      <4>2. local[v] > g
        BY <2>0, <3>2, <4>1
      <4>3. QED
        BY <1>1, <1>4, <2>1, <4>2 DEF Gone
    <3>3. QED
      BY <3>1, <3>2
  <2>2. CASE made[g] # v
    BY <1>1, <1>3, <2>0, <2>2 DEF Gone, ReadOf
  <2>3. QED
    BY <2>1, <2>2
<1>7. QED
  BY <1>5, <1>6 DEF KeepsCold, KeepsRead

LEMMA PurgeTier ==
  ASSUME TypeOK, TierInv, NEW vs \in SUBSET Versions, Purge(vs), made' = made
  PROVE  /\ KeepsCold /\ KeepsRead
         /\ \A g \in DOMAIN made : made[g] \in vs => Gone(g, made', retired', cold')
<1>1. retired' = retired \union {g \in DOMAIN made : made[g] \in vs}
  BY DEF Purge, Named, AllGens
<1>2. \A v \in Versions :
        /\ local'[v] = local[v] \/ (v \in vs /\ local'[v] = NoGen)
        /\ cold'[v] = cold[v] \/ (v \in vs /\ cold'[v] = NoGen)
  BY DEF Purge
<1>3. /\ made \in Seq(Versions) /\ Names(made, retired, local, cold)
  BY DEF TypeOK, TierInv
<1>4. \A v \in Versions : v \notin vs => local'[v] = local[v] /\ cold'[v] = cold[v]
  BY <1>2
<1>5. \A g \in DOMAIN made : made[g] \in vs => Gone(g, made', retired', cold')
  BY <1>1 DEF Gone
<1>6. Names(made', retired', local', cold')
  BY <1>1, <1>2, <1>3 DEF Names
<1>7. ASSUME NEW g \in DOMAIN made, made[g] \notin vs
      PROVE  /\ Gone(g, made, retired, cold) => Gone(g, made', retired', cold')
             /\ cold'[made[g]] = cold[made[g]]
             /\ ReadOf(made[g], local', cold') = ReadOf(made[g], local, cold)
  <2>1. made[g] \in Versions
    BY <1>3
  <2>2. cold'[made[g]] = cold[made[g]] /\ local'[made[g]] = local[made[g]]
    BY <1>4, <1>7, <2>1
  <2>3. QED
    BY <1>1, <2>2 DEF Gone, ReadOf
<1>8. QED
  BY <1>5, <1>6, <1>7 DEF KeepsCold, KeepsRead

LEMMA SameTier ==
  ASSUME TierInv, UNCHANGED <<local, cold, made, retired>>
  PROVE  KeepsCold /\ KeepsRead
BY DEF TierInv, KeepsCold, KeepsRead

LEMMA BoxTier == ASSUME TypeOK, TierInv, LoseBox PROVE KeepsCold
<1>1. UNCHANGED <<cold, made, retired>> /\ \A v \in Versions : local'[v] = NoGen
  BY DEF LoseBox
<1>2. Names(made', retired', local', cold')
  BY <1>1 DEF TierInv, Names
<1>3. QED
  BY <1>1, <1>2 DEF KeepsCold

\* The copy to cold never overwrites, and what it copies was readable.
LEMMA CopyTier ==
  ASSUME TypeOK, TierInv, SealAndCopy
  PROVE  /\ KeepsCold /\ KeepsRead
         /\ \A v \in run.refs, g \in DOMAIN made :
              made[g] = v /\ ReadOf(v, local, cold) = g =>
                \/ Gone(g, made', retired', cold')
                \/ cold'[v] = g
<1>1. /\ UNCHANGED <<local, made, retired>>
      /\ \A v \in Versions :
           cold'[v] = IF v \in run.refs /\ cold[v] = NoGen THEN local[v] ELSE cold[v]
  BY DEF SealAndCopy, AlreadyCold
<1>2. /\ made \in Seq(Versions) /\ Names(made, retired, local, cold)
      /\ run.refs \subseteq Versions /\ local \in [Versions -> 0..MaxGen]
      /\ cold \in [Versions -> 0..MaxGen]
  BY DEF TypeOK, TierInv, RunType
<1>3. Names(made', retired', local', cold')
  BY <1>1, <1>2 DEF Names
<1>4. ASSUME NEW g \in DOMAIN made
      PROVE  /\ \/ Gone(g, made', retired', cold')
                \/ cold'[made[g]] = g
                \/ ~Gone(g, made, retired, cold) /\ cold[made[g]] # g
             /\ ReadOf(made[g], local, cold) = g =>
                  \/ Gone(g, made', retired', cold')
                  \/ /\ ReadOf(made[g], local', cold') = g
                     /\ made[g] \in run.refs => cold'[made[g]] = g
  <2>0. made[g] \in Versions /\ g \in Nat
    BY <1>2
  <2>1. CASE cold'[made[g]] = cold[made[g]]
    <3>1. Gone(g, made, retired, cold) => Gone(g, made', retired', cold')
      BY <1>1, <2>1 DEF Gone
    <3>2. ReadOf(made[g], local', cold') = ReadOf(made[g], local, cold)
      BY <1>1, <2>1 DEF ReadOf
    <3>3. ASSUME ReadOf(made[g], local, cold) = g, made[g] \in run.refs, cold[made[g]] # g
          PROVE  Gone(g, made', retired', cold')
      <4>1. CASE cold[made[g]] = NoGen
        <5>1. cold'[made[g]] = local[made[g]] /\ local[made[g]] = NoGen
          BY <1>1, <2>0, <2>1, <3>3, <4>1
        <5>2. g = NoGen
          BY <3>3, <4>1, <5>1 DEF ReadOf
        <5>3. QED
          BY <1>2, <5>2 DEF NoGen
      <4>2. CASE cold[made[g]] # NoGen
        <5>1. /\ cold[made[g]] \in DOMAIN made /\ made[cold[made[g]]] = made[g]
              /\ cold[made[g]] \in Nat
          BY <1>2, <2>0, <4>2 DEF Names
        <5>2. cold[made[g]] > g \/ cold[made[g]] < g
          BY <2>0, <3>3, <5>1
        <5>3. QED
          BY <1>1, <2>1, <4>2, <5>1, <5>2 DEF Gone
      <4>3. QED
        BY <4>1, <4>2
    <3>4. QED
      BY <2>1, <3>1, <3>2, <3>3
  <2>2. CASE cold'[made[g]] # cold[made[g]]
    <3>1. /\ cold[made[g]] = NoGen /\ cold'[made[g]] = local[made[g]]
          /\ local[made[g]] # NoGen
      BY <1>1, <2>0, <2>2
    <3>2. /\ local[made[g]] \in DOMAIN made /\ made[local[made[g]]] = made[g]
          /\ g <= local[made[g]] /\ local[made[g]] \in Nat
      BY <1>2, <2>0, <3>1 DEF Names
    <3>3. CASE local[made[g]] = g
      BY <1>1, <3>1, <3>3 DEF ReadOf
    <3>4. CASE local[made[g]] # g
      <4>1. local[made[g]] > g
        BY <2>0, <3>2, <3>4
      <4>2. QED
        BY <1>1, <3>2, <4>1 DEF Gone
    <3>5. QED
      BY <3>3, <3>4
  <2>3. QED
    BY <2>1, <2>2
<1>5. QED
  BY <1>3, <1>4 DEF KeepsCold, KeepsRead

-----------------------------------------------------------------------------
(* The invariant through any step.                                         *)

\* The same current stream is served after a step that kept the tiers.
LEMMA ServedOn ==
  ASSUME TypeOK', NEW r \in Rows, Sound(r, made), DOMAIN made \subseteq DOMAIN made',
         \A g \in DOMAIN made : made'[g] = made[g],
         Served(r, made, retired, local, cold), KeepsCold, KeepsRead
  PROVE  Served(r, made', retired', local', cold')
<1> SUFFICES ASSUME NEW v \in CurrentStreams(r)
             PROVE  \/ ReadOf(v, local', cold') = r.stream[v]
                    \/ Gone(r.stream[v], made', retired', cold')
  BY DEF Served
<1> DEFINE g == r.stream[v]
<1>1. g \in DOMAIN made /\ made[g] = v
  BY CurrentOf
<1>2. made' \in Seq(Versions) /\ Names(made', retired', local', cold')
  BY DEF TypeOK, KeepsCold
<1>3. ReadOf(made[g], local, cold) = g \/ Gone(g, made, retired, cold)
  BY <1>1 DEF Served
<1> HIDE DEF g
<1>4. \/ Gone(g, made', retired', cold')
      \/ ReadOf(made[g], local', cold') = g
      \/ cold'[made[g]] = g
  BY <1>1, <1>3 DEF KeepsRead, KeepsCold
<1>5. cold'[made[g]] = g => \/ ReadOf(made[g], local', cold') = g
                            \/ Gone(g, made', retired', cold')
  <2>1. g \in DOMAIN made' /\ made'[g] = made[g]
    BY <1>1
  <2>2. QED
    BY <1>2, <2>1, ColdReads
<1>6. QED
  BY <1>1, <1>4, <1>5 DEF g

LEMMA HeldOn ==
  ASSUME NEW r \in Rows, Sound(r, made), Held(r, made, retired, cold), KeepsCold
  PROVE  Held(r, made', retired', cold')
<1> SUFFICES ASSUME NEW v \in CurrentStreams(r)
             PROVE  \/ cold'[v] = r.stream[v]
                    \/ Gone(r.stream[v], made', retired', cold')
  BY DEF Held
<1>1. r.stream[v] \in DOMAIN made /\ made[r.stream[v]] = v
  BY CurrentOf
<1>2. cold[v] = r.stream[v] \/ Gone(r.stream[v], made, retired, cold)
  BY DEF Held
<1>3. QED
  BY <1>1, <1>2 DEF KeepsCold

\* What cold holds for a bundle, a restored database serves.
LEMMA HeldServes ==
  ASSUME NEW m \in Seq(Versions), NEW x, NEW l, NEW c, Names(m, x, l, c),
         NEW r \in Rows, Sound(r, m), Held(r, m, x, c)
  PROVE  Served(r, m, x, l, c)
<1> SUFFICES ASSUME NEW v \in CurrentStreams(r)
             PROVE  ReadOf(v, l, c) = r.stream[v] \/ Gone(r.stream[v], m, x, c)
  BY DEF Served
<1>1. r.stream[v] \in DOMAIN m /\ m[r.stream[v]] = v
  BY CurrentOf
<1>2. c[v] = r.stream[v] \/ Gone(r.stream[v], m, x, c)
  BY DEF Held
<1>3. QED
  BY <1>1, <1>2, ColdReads

\* The current stream after a merge is live's own, or the bundle's.
LEMMA MergedCurrent ==
  ASSUME NEW r \in Rows, NEW b \in Rows, NEW m, Sound(r, m),
         NEW v \in CurrentStreams(Merged(r, b))
  PROVE  \/ v \in CurrentStreams(r) /\ Merged(r, b).stream[v] = r.stream[v]
         \/ v \in CurrentStreams(b) /\ Merged(r, b).stream[v] = b.stream[v]
<1> DEFINE t == Subtree(r, b)
           q == Merged(r, b)
<1>1. q.stream = t.stream /\ q.exists = t.exists /\ q.current = t.current
  BY DEF Merged, Absences, Subtree, Rows
<1>2. t.exists /\ v = t.current /\ v >= 1 /\ t.stream[v] # NoGen
  BY <1>1 DEF CurrentStreams
<1>3. v \in Versions
  BY <1>2, MergedType, <1>1 DEF Rows, Versions
<1>4. CASE ~Survives(r, b)
  BY <1>1, <1>2, <1>4 DEF Subtree, CurrentStreams
<1>5. CASE Survives(r, b)
  <2>1. b.exists /\ v = Gated(r, b) /\ t.stream[v] = StreamRow(r, b, v)
    BY <1>2, <1>3, <1>5 DEF Survives, Subtree, Rows
  <2>2. CASE r.exists
    <3>1. v = r.current /\ r.stream[v] # NoGen
      BY <1>2, <2>1, <2>2 DEF Gated, Sound
    <3>2. t.stream[v] = r.stream[v]
      BY <2>1, <3>1 DEF StreamRow
    <3>3. QED
      BY <1>1, <1>2, <2>2, <3>1, <3>2 DEF CurrentStreams
  <2>3. CASE ~r.exists
    <3>1. v = b.current /\ r.stream[v] = NoGen
      BY <1>3, <2>1, <2>3 DEF Gated, Sound
    <3>2. t.stream[v] = b.stream[v]
      BY <1>2, <2>1, <3>1 DEF StreamRow
    <3>3. QED
      BY <1>1, <1>2, <2>1, <3>1, <3>2 DEF CurrentStreams
  <2>4. QED
    BY <2>2, <2>3
<1>6. QED
  BY <1>4, <1>5

\* Rows whose current stream is a given row's, or none, are served as it is.
LEMMA ServedSub ==
  ASSUME NEW r, NEW q, NEW m, NEW x, NEW l, NEW c, Served(r, m, x, l, c),
         \A v \in CurrentStreams(q) : v \in CurrentStreams(r) /\ q.stream[v] = r.stream[v]
  PROVE  Served(q, m, x, l, c)
BY DEF Served

\* The generation live serves is served on, or given up.
LiveKept ==
  \A g \in DOMAIN made :
    live.exists /\ live.current = made[g] /\ live.stream[made[g]] = g =>
      \/ Gone(g, made', retired', cold')
      \/ live'.exists /\ live'.current = made[g] /\ live'.stream[made[g]] = g

\* A step of the server, or a disaster that a run survives.
LEMMA ServerStep ==
  ASSUME TypeOK, RowsInv, TierInv, KeepsCold, KeepsRead, LiveKept,
         UNCHANGED <<bundles, run, pc>>,
         Served(live', made', retired', local', cold')
  PROVE  TierInv'
<1>1. \A s \in Published' : Held(bundles'[s].rows, made', retired', cold')
  <2> SUFFICES ASSUME NEW s \in Published
               PROVE  Held(bundles[s].rows, made', retired', cold')
    BY DEF Published
  <2>1. bundles[s].rows \in Rows /\ Sound(bundles[s].rows, made)
    BY DEF TypeOK, Bundle, RowsInv, Published
  <2>2. Held(bundles[s].rows, made, retired, cold)
    BY DEF TierInv
  <2>3. QED
    BY <2>1, <2>2, HeldOn
<1>2. DumpOpens'
  <2> SUFFICES ASSUME NEW v \in CurrentStreams(run.dump)
               PROVE  \/ Gone(run.dump.stream[v], made', retired', cold')
                      \/ cold'[v] = run.dump.stream[v]
                      \/ pc = "idle"
                      \/ /\ pc = "dumped"
                         /\ live'.exists /\ live'.current = v
                         /\ live'.stream[v] = run.dump.stream[v]
                      \/ /\ pc = "listed"
                         /\ v \in run.refs /\ ReadOf(v, local', cold') = run.dump.stream[v]
    BY DEF DumpOpens
  <2>1. run.dump \in Rows /\ Sound(run.dump, made)
    BY DEF TypeOK, RunType, RowsInv
  <2>2. run.dump.stream[v] \in DOMAIN made /\ made[run.dump.stream[v]] = v
    BY <2>1, CurrentOf
  <2>3. \/ Gone(run.dump.stream[v], made, retired, cold)
        \/ cold[v] = run.dump.stream[v]
        \/ pc = "idle"
        \/ /\ pc = "dumped"
           /\ live.exists /\ live.current = v /\ live.stream[v] = run.dump.stream[v]
        \/ /\ pc = "listed"
           /\ v \in run.refs /\ ReadOf(v, local, cold) = run.dump.stream[v]
    BY DEF TierInv, DumpOpens
  <2>4. CASE \/ Gone(run.dump.stream[v], made, retired, cold)
             \/ cold[v] = run.dump.stream[v]
    BY <2>2, <2>4 DEF KeepsCold
  <2>5. CASE /\ pc = "dumped"
             /\ live.exists /\ live.current = v /\ live.stream[v] = run.dump.stream[v]
    BY <2>2, <2>5 DEF LiveKept
  <2>6. CASE /\ pc = "listed"
             /\ v \in run.refs /\ ReadOf(v, local, cold) = run.dump.stream[v]
    BY <2>2, <2>6 DEF KeepsRead
  <2>7. QED
    BY <2>3, <2>4, <2>5, <2>6
<1>3. QED
  BY <1>1, <1>2 DEF TierInv, KeepsCold

LEMMA RequestTier ==
  ASSUME TypeOK, TypeOK', RowsInv, TierInv, Requests PROVE TierInv'
<1>0. /\ live \in Rows /\ Sound(live, made) /\ made \in Seq(Versions)
      /\ Served(live, made, retired, local, cold)
  BY DEF TypeOK, RowsInv, TierInv
<1>1. UNCHANGED <<bundles, run, pc>>
  BY DEF Requests, Stage, Offload, Finalize, DiscardStaged, Delete, AddWrap,
         DeleteWrap, backup
<1>2. made' = made \/ (\E v \in Versions : made' = Append(made, v))
  BY DEF Requests, Stage, Offload, Finalize, DiscardStaged, Delete, AddWrap, DeleteWrap
<1>3. DOMAIN made \subseteq DOMAIN made' /\ \A g \in DOMAIN made : made'[g] = made[g]
  BY <1>0, <1>2
\* A request that leaves the current stream as it is, or takes it away.
<1>4. ASSUME KeepsCold, KeepsRead, LiveKept,
             \A v \in CurrentStreams(live') :
               v \in CurrentStreams(live) /\ live'.stream[v] = live.stream[v]
      PROVE  TierInv'
  <2>1. Served(live, made', retired', local', cold')
    BY <1>0, <1>3, <1>4, ServedOn
  <2>2. Served(live', made', retired', local', cold')
    BY <1>4, <2>1, ServedSub
  <2>3. QED
    BY <1>1, <1>4, <2>2, ServerStep
<1>5. ASSUME /\ live'.exists = live.exists /\ live'.current = live.current
             /\ live'.stream = live.stream
      PROVE  /\ LiveKept
             /\ \A v \in CurrentStreams(live') :
                  v \in CurrentStreams(live) /\ live'.stream[v] = live.stream[v]
  BY <1>5 DEF LiveKept, CurrentStreams
<1>6. ASSUME NEW given \in SUBSET Users, Stage(given) PROVE TierInv'
  <2>1. KeepsCold /\ KeepsRead
    BY <1>6, StageTier
  <2> DEFINE v == live.current + 1
             w == {x \in live.wraps : x.v # v}
                  \union {[v |-> v, u |-> u, g |-> Len(made) + 1] : u \in given}
  <2>2. v = (IF live.exists THEN live.current + 1 ELSE 1) /\ v \in Versions
    BY <1>0, <1>6 DEF Stage, Sound
  <2>3. live' = [live EXCEPT !.exists = TRUE,
                             !.stream = [@ EXCEPT ![v] = Len(made) + 1], !.wraps = w]
    BY <1>6, <2>2 DEF Stage
  <2> HIDE DEF w
  <2>4. /\ live'.exists = TRUE /\ live'.current = live.current
        /\ live'.stream = [live.stream EXCEPT ![v] = Len(made) + 1]
    BY <1>0, <2>3 DEF Rows
  <2>5. live.current # v /\ live.current \in 0..MaxVersion
        /\ live.stream \in [Versions -> 0..MaxGen]
    BY <1>0 DEF Rows
  <2> HIDE DEF v
  <2>6. \A u \in Versions : u # v => live'.stream[u] = live.stream[u]
    BY <2>4, <2>5
  <2>7. live.current >= 1 => live.exists /\ live.current \in Versions
    BY <1>0, <2>5 DEF Sound, Versions
  <2>8. \A u \in CurrentStreams(live') :
          u \in CurrentStreams(live) /\ live'.stream[u] = live.stream[u]
    BY <2>4, <2>5, <2>6, <2>7 DEF CurrentStreams
  <2>9. LiveKept
    BY <1>0, <2>4, <2>5, <2>6 DEF LiveKept
  <2>10. QED
    BY <1>4, <2>1, <2>8, <2>9
<1>7. ASSUME NEW v \in Versions, Offload(v) PROVE TierInv'
  <2>1. KeepsCold /\ KeepsRead /\ live' = live
    BY <1>7, OffloadTier DEF Offload
  <2>2. QED
    BY <1>4, <1>5, <2>1
<1>8. ASSUME Finalize PROVE TierInv'
  <2> DEFINE v == live.current + 1
             st == [u \in Versions |-> IF u = live.current THEN NoGen ELSE live.stream[u]]
             ws == {w \in live.wraps : w.v # live.current}
  <2>1. /\ Purge({live.current} \ {0}) /\ made' = made
        /\ {live.current} \ {0} \in SUBSET Versions
    BY <1>0, <1>8 DEF Finalize, Rows, Versions
  <2>2. /\ KeepsCold /\ KeepsRead
        /\ \A g \in DOMAIN made : made[g] \in {live.current} \ {0} =>
             Gone(g, made', retired', cold')
    BY <2>1, PurgeTier
  <2>3. LiveKept
    <3>0. \A g \in DOMAIN made : made[g] \in Versions
      BY <1>0
    <3>1. \A g \in DOMAIN made : made[g] # 0
      BY <3>0 DEF Versions
    <3>2. QED
      BY <2>2, <3>1 DEF LiveKept
  <2>4. live' = [live EXCEPT !.current = v, !.final = @ \union {v},
                             !.stream = st, !.wraps = ws]
    BY <1>8 DEF Finalize
  <2>5. /\ v \in Versions /\ live.stream[v] = Len(made) /\ live.stream[v] # NoGen
        /\ Read(v) # NoGen
    BY <1>8 DEF Finalize, InHand, Staged
  <2>6. st[v] = live.stream[v]
    BY <1>0, <2>5 DEF Rows
  <2> HIDE DEF st, ws
  <2>7. live'.current = v /\ live'.stream = st
    BY <1>0, <2>4 DEF Rows
  <2>8. live.stream[v] \in DOMAIN made /\ made[live.stream[v]] = v
    BY <1>0, <2>5 DEF Sound
  <2>9. ReadOf(v, local, cold) = live.stream[v] \/ Gone(live.stream[v], made, retired, cold)
    <3>0. Names(made, retired, local, cold) /\ live.stream[v] \in Nat
      BY <1>0, <2>8 DEF TierInv
    <3>1. CASE local[v] # NoGen
      <4>1. local[v] \in 1..Len(made) /\ live.stream[v] <= local[v]
        BY <1>0, <2>5, <2>8, <3>0, <3>1 DEF Names
      <4>2. local[v] = live.stream[v]
        BY <1>0, <2>5, <4>1
      <4>3. QED
        BY <3>1, <4>2 DEF ReadOf
    <3>2. CASE local[v] = NoGen
      <4>1. cold[v] # NoGen
        BY <2>5, <3>2 DEF Read
      <4>2. cold[v] \in 1..Len(made)
        BY <1>0, <2>5, <3>0, <4>1 DEF Names
      <4>3. cold[v] = live.stream[v] \/ cold[v] < live.stream[v]
        BY <1>0, <2>5, <4>2
      <4>4. QED
        BY <2>8, <3>2, <4>1, <4>3 DEF ReadOf, Gone
    <3>3. QED
      BY <3>1, <3>2
  <2>10. \/ Gone(live.stream[v], made', retired', cold')
         \/ ReadOf(v, local', cold') = live.stream[v]
         \/ cold'[v] = live.stream[v]
    BY <2>2, <2>8, <2>9 DEF KeepsRead, KeepsCold
  <2>11. cold'[v] = live.stream[v] =>
           \/ ReadOf(v, local', cold') = live.stream[v]
           \/ Gone(live.stream[v], made', retired', cold')
    <3>1. Names(made', retired', local', cold') /\ made' \in Seq(Versions)
      BY <1>0, <2>1, <2>2 DEF KeepsCold
    <3>2. QED
      BY <2>1, <2>8, <3>1, ColdReads
  <2>12. Served(live', made', retired', local', cold')
    <3>1. \A u \in CurrentStreams(live') : u = v
      BY <2>7 DEF CurrentStreams
    <3>2. live'.stream[v] = live.stream[v]
      BY <2>6, <2>7
    <3>3. QED
      BY <2>10, <2>11, <3>1, <3>2 DEF Served
  <2>13. QED
    BY <1>1, <2>2, <2>3, <2>12, ServerStep
<1>9. ASSUME DiscardStaged PROVE TierInv'
  <2>1. /\ Purge(Staged(live)) /\ made' = made /\ Staged(live) \in SUBSET Versions
        /\ live.current = 0 /\ live'.current = 0
    BY <1>0, <1>9 DEF DiscardStaged, Staged, Rows
  <2>2. KeepsCold /\ KeepsRead
    BY <2>1, PurgeTier
  <2>3. CurrentStreams(live') = {} /\ LiveKept
    <3>0. \A g \in DOMAIN made : made[g] \in Versions
      BY <1>0
    <3>1. \A g \in DOMAIN made : made[g] # 0
      BY <3>0 DEF Versions
    <3>2. QED
      BY <2>1, <3>1 DEF CurrentStreams, LiveKept
  <2>4. QED
    BY <1>4, <2>2, <2>3
<1>10. ASSUME Delete PROVE TierInv'
  <2> DEFINE vs == {v \in Versions : live.stream[v] # NoGen}
  <2>1. Purge(vs) /\ made' = made /\ vs \in SUBSET Versions
    BY <1>10 DEF Delete
  <2>2. live'.exists = FALSE
    <3>1. NoFile(live) \in Rows /\ NoFile(live).exists = FALSE
      BY <1>0, NoFileType DEF NoFile, Rows
    <3>2. QED
      BY <1>10, <3>1 DEF Delete, Rows
  <2> HIDE DEF vs
  <2>3. /\ KeepsCold /\ KeepsRead
        /\ \A g \in DOMAIN made : made[g] \in vs => Gone(g, made', retired', cold')
    BY <2>1, PurgeTier
  <2>4. LiveKept
    <3>1. \A g \in DOMAIN made : made[g] \in Versions /\ g # NoGen
      BY <1>0 DEF NoGen
    <3>2. QED
      BY <2>3, <3>1 DEF LiveKept, vs
  <2>5. CurrentStreams(live') = {}
    BY <2>2 DEF CurrentStreams
  <2>6. QED
    BY <1>4, <2>3, <2>4, <2>5
<1>11. ASSUME NEW u \in Users, AddWrap(u) PROVE TierInv'
  <2>1. /\ live'.exists = live.exists /\ live'.current = live.current
        /\ live'.stream = live.stream
    BY <1>0, <1>11 DEF AddWrap, Rows
  <2>2. KeepsCold /\ KeepsRead
    BY <1>11, SameTier DEF AddWrap
  <2>3. QED
    BY <1>4, <1>5, <2>1, <2>2
<1>12. ASSUME NEW w \in live.wraps, DeleteWrap(w) PROVE TierInv'
  <2>1. /\ live'.exists = live.exists /\ live'.current = live.current
        /\ live'.stream = live.stream
    BY <1>0, <1>12 DEF DeleteWrap, Rows
  <2>2. KeepsCold /\ KeepsRead
    BY <1>12, SameTier DEF DeleteWrap
  <2>3. QED
    BY <1>4, <1>5, <2>1, <2>2
<1>13. QED
  BY <1>6, <1>7, <1>8, <1>9, <1>10, <1>11, <1>12 DEF Requests

LEMMA RecoveryTier ==
  ASSUME TypeOK, TypeOK', RowsInv, RowsInv', TierInv, Recovery PROVE TierInv'
<1>0. /\ live \in Rows /\ Sound(live, made) /\ made \in Seq(Versions)
      /\ made' = made /\ bundles' = bundles
      /\ Names(made, retired, local, cold)
      /\ Served(live, made, retired, local, cold)
  BY DEF TypeOK, RowsInv, TierInv, Recovery, LoseRows, LoseBox, Reregister, Replace,
         Merge, backup
\* All but the loss of the box leave the tiers alone, and come between runs
\* or leave the rows that the run dumped.
<1>1. ASSUME UNCHANGED <<local, cold, made, retired, run, pc>>,
             pc = "idle" \/ LiveKept,
             Served(live', made, retired, local, cold)
      PROVE  TierInv'
  <2>1. \A s \in Published : Held(bundles[s].rows, made, retired, cold)
    BY DEF TierInv
  <2>2. Published' = Published
    BY <1>0 DEF Published
  <2>3. DumpOpens'
    <3>1. CASE pc = "idle"
      BY <1>1, <3>1 DEF DumpOpens
    <3>2. CASE LiveKept
      <4> SUFFICES ASSUME NEW v \in CurrentStreams(run.dump)
                   PROVE  \/ Gone(run.dump.stream[v], made, retired, cold)
                          \/ cold[v] = run.dump.stream[v]
                          \/ pc = "idle"
                          \/ /\ pc = "dumped"
                             /\ live'.exists /\ live'.current = v
                             /\ live'.stream[v] = run.dump.stream[v]
                          \/ /\ pc = "listed"
                             /\ v \in run.refs
                             /\ ReadOf(v, local, cold) = run.dump.stream[v]
        BY <1>1 DEF DumpOpens
      <4>1. run.dump.stream[v] \in DOMAIN made /\ made[run.dump.stream[v]] = v
        BY CurrentOf DEF TypeOK, RunType, RowsInv
      <4>2. QED
        BY <1>1, <3>2, <4>1 DEF TierInv, DumpOpens, LiveKept
    <3>3. QED
      BY <1>1, <3>1, <3>2
  <2>4. QED
    BY <1>0, <1>1, <2>1, <2>2, <2>3 DEF TierInv
<1>2. CASE LoseRows
  <2>1. live'.exists = FALSE
    BY <1>0, <1>2, NoFileType DEF LoseRows, NoFile, Rows
  <2>2. Served(live', made, retired, local, cold)
    BY <2>1 DEF Served, CurrentStreams
  <2>3. QED
    BY <1>1, <1>2, <2>2 DEF LoseRows, backup
<1>3. CASE LoseBox
  <2>1. KeepsCold /\ pc' = "idle"
    BY <1>3, BoxTier DEF LoseBox
  <2>2. live'.exists = FALSE
    BY <1>3 DEF LoseBox, EmptyRows
  <2>3. Served(live', made', retired', local', cold')
    BY <2>2 DEF Served, CurrentStreams
  <2>4. \A s \in Published : Held(bundles[s].rows, made', retired', cold')
    <3> SUFFICES ASSUME NEW s \in Published
                 PROVE  Held(bundles[s].rows, made', retired', cold')
      OBVIOUS
    <3>1. bundles[s].rows \in Rows /\ Sound(bundles[s].rows, made)
      BY DEF TypeOK, Bundle, RowsInv, Published
    <3>2. QED
      BY <2>1, <3>1, HeldOn DEF TierInv
  <2>5. Published' = Published /\ DumpOpens'
    BY <1>0, <2>1 DEF Published, DumpOpens
  <2>6. QED
    BY <1>0, <2>1, <2>3, <2>4, <2>5 DEF TierInv, KeepsCold
<1>4. CASE Reregister
  <2>1. /\ live'.exists = live.exists /\ live'.current = live.current
        /\ live'.stream = live.stream
        /\ UNCHANGED <<local, cold, made, retired, run, pc>>
    BY <1>0, <1>4 DEF Reregister, Rows, backup
  <2>2. LiveKept
    BY <2>1 DEF LiveKept
  <2>3. Served(live', made, retired, local, cold)
    BY <1>0, <2>1 DEF Served, CurrentStreams
  <2>4. QED
    BY <1>1, <2>1, <2>2, <2>3
<1>5. ASSUME NEW s \in Stamps, bundles[s].manifest
      PROVE  /\ bundles[s].rows \in Rows /\ Sound(bundles[s].rows, made)
             /\ Served(bundles[s].rows, made, retired, local, cold)
  <2>1. bundles[s].rows \in Rows /\ Sound(bundles[s].rows, made)
    BY DEF TypeOK, Bundle, RowsInv
  <2>2. Held(bundles[s].rows, made, retired, cold)
    BY <1>5 DEF TierInv, Published
  <2>3. QED
    BY <1>0, <2>1, <2>2, HeldServes
<1>6. ASSUME NEW s \in Stamps, Replace(s) PROVE TierInv'
  <2>1. /\ live' = bundles[s].rows /\ bundles[s].manifest /\ pc = "idle"
        /\ UNCHANGED <<local, cold, made, retired, run, pc>>
    BY <1>6 DEF Replace, Restorable, backup
  <2>2. QED
    BY <1>1, <1>5, <2>1
<1>7. ASSUME NEW s \in Stamps, Merge(s) PROVE TierInv'
  <2> DEFINE b == bundles[s].rows
  <2>1. /\ live' = Merged(live, b) /\ bundles[s].manifest /\ pc = "idle"
        /\ UNCHANGED <<local, cold, made, retired, run, pc>>
    BY <1>7 DEF Merge, Restorable, backup
  <2>2. b \in Rows /\ Served(b, made, retired, local, cold)
    BY <1>5, <2>1
  <2> HIDE DEF b
  <2>3. \A v \in CurrentStreams(live') :
          \/ v \in CurrentStreams(live) /\ live'.stream[v] = live.stream[v]
          \/ v \in CurrentStreams(b) /\ live'.stream[v] = b.stream[v]
    BY <1>0, <2>1, <2>2, MergedCurrent
  <2>4. Served(live', made, retired, local, cold)
    BY <1>0, <2>2, <2>3 DEF Served
  <2>5. QED
    BY <1>1, <2>1, <2>4
<1>8. QED
  BY <1>2, <1>3, <1>4, <1>6, <1>7 DEF Recovery

LEMMA BackupTier ==
  ASSUME TypeOK, TypeOK', RowsInv, TierInv, BackupRun PROVE TierInv'
<1>0. /\ live \in Rows /\ Sound(live, made) /\ made \in Seq(Versions)
      /\ UNCHANGED <<live, local, made, retired>>
      /\ Names(made, retired, local, cold)
      /\ Served(live, made, retired, local, cold)
      /\ \A s \in Published : /\ bundles[s].rows \in Rows
                               /\ Sound(bundles[s].rows, made)
                               /\ Held(bundles[s].rows, made, retired, cold)
      /\ run.dump \in Rows /\ Sound(run.dump, made)
  BY DEF TypeOK, RunType, Bundle, RowsInv, TierInv, Published, BackupRun, StartBackup,
         Enumerate, SealAndCopy, Commit, CommitFails, Abort, store
\* Each step but the copy leaves the tiers alone.
<1>1. ASSUME cold' = cold, DumpOpens',
             \A s \in Published' :
               \/ s \in Published /\ bundles'[s].rows = bundles[s].rows
               \/ Held(bundles'[s].rows, made, retired, cold)
      PROVE  TierInv'
  BY <1>0, <1>1 DEF TierInv
<1>2. ASSUME NEW s \in Stamps, StartBackup(s) PROVE TierInv'
  <2>1. /\ run'.dump = live /\ pc' = "dumped" /\ bundles' = bundles /\ cold' = cold
    BY <1>2 DEF StartBackup, NoRun, store
  <2>2. DumpOpens'
    BY <1>0, <2>1 DEF DumpOpens, CurrentStreams
  <2>3. QED
    BY <1>1, <2>1, <2>2 DEF Published
<1>3. CASE Enumerate
  <2>1. /\ pc = "dumped" /\ pc' = "listed" /\ bundles' = bundles /\ cold' = cold
        /\ run'.dump = run.dump /\ run'.refs = CurrentStreams(live)
    BY <1>3 DEF Enumerate, Listed, TypeOK, RunType, store
  <2>2. DumpOpens'
    <3> SUFFICES ASSUME NEW v \in CurrentStreams(run.dump)
                 PROVE  \/ Gone(run.dump.stream[v], made, retired, cold)
                        \/ cold[v] = run.dump.stream[v]
                        \/ /\ v \in CurrentStreams(live)
                           /\ ReadOf(v, local, cold) = run.dump.stream[v]
      BY <1>0, <2>1 DEF DumpOpens
    <3>1. CASE live.exists /\ live.current = v /\ live.stream[v] = run.dump.stream[v]
      <4>1. v \in CurrentStreams(live)
        BY <1>0, <3>1 DEF CurrentStreams
      <4>2. QED
        BY <1>0, <3>1, <4>1 DEF Served
    <3>2. QED
      BY <2>1, <3>1 DEF TierInv, DumpOpens
  <2>3. QED
    BY <1>1, <2>1, <2>2 DEF Published
<1>4. CASE SealAndCopy
  <2>1. /\ pc = "listed" /\ pc' = "copied" /\ run'.dump = run.dump
        /\ bundles' = [bundles EXCEPT ![run.stamp] = Parts(TRUE)]
    BY <1>4 DEF SealAndCopy, TypeOK, RunType
  <2>2. /\ KeepsCold /\ KeepsRead
        /\ \A v \in run.refs, g \in DOMAIN made :
             made[g] = v /\ ReadOf(v, local, cold) = g =>
               Gone(g, made', retired', cold') \/ cold'[v] = g
    BY <1>4, CopyTier
  <2>3. Served(live', made', retired', local', cold')
    BY <1>0, <2>2, ServedOn
  <2>4. ASSUME NEW s \in Published'
        PROVE  Held(bundles'[s].rows, made', retired', cold')
    <3>1. Parts(TRUE).manifest = FALSE
      BY DEF Parts, NoBundle
    <3>2. s # run.stamp /\ bundles'[s] = bundles[s] /\ s \in Published
      BY <2>1, <2>4, <3>1 DEF Published, TypeOK
    <3>3. QED
      BY <1>0, <2>2, <3>2, HeldOn
  <2>5. DumpOpens'
    <3> SUFFICES ASSUME NEW v \in CurrentStreams(run.dump)
                 PROVE  \/ Gone(run.dump.stream[v], made', retired', cold')
                        \/ cold'[v] = run.dump.stream[v]
      BY <2>1 DEF DumpOpens
    <3>1. run.dump.stream[v] \in DOMAIN made /\ made[run.dump.stream[v]] = v
      BY <1>0, CurrentOf
    <3>2. \/ Gone(run.dump.stream[v], made, retired, cold)
          \/ cold[v] = run.dump.stream[v]
          \/ v \in run.refs /\ ReadOf(v, local, cold) = run.dump.stream[v]
      BY <2>1 DEF TierInv, DumpOpens
    <3>3. QED
      BY <2>2, <3>1, <3>2 DEF KeepsCold
  <2>6. QED
    BY <2>2, <2>3, <2>4, <2>5 DEF TierInv, KeepsCold
<1>5. ASSUME pc = "copied", pc' = "idle", cold' = cold,
             \/ bundles' = WithManifest(run.stamp)
             \/ \E t, n : bundles' = PrunedTo(t, n)
      PROVE  TierInv'
  <2>1. Held(run.dump, made, retired, cold)
    BY <1>5 DEF TierInv, DumpOpens, Held
  <2>2. \A b \in Bundle : \A n : Shrunk(b, n) = b \/ Shrunk(b, n).manifest = FALSE
    BY DEF Shrunk, NoBundle
  <2>3. \A s \in Stamps : /\ bundles[s] \in Bundle
                           /\ \/ WithManifest(run.stamp)[s].rows = run.dump
                              \/ WithManifest(run.stamp)[s] = bundles[s]
    BY DEF TypeOK, WithManifest
  <2>4. ASSUME NEW s \in Published'
        PROVE  \/ s \in Published /\ bundles'[s].rows = bundles[s].rows
               \/ Held(bundles'[s].rows, made, retired, cold)
    <3>1. s \in Stamps /\ bundles'[s].manifest
      BY <2>4 DEF Published
    <3>2. bundles'[s].rows = run.dump \/ bundles'[s] = bundles[s]
      <4>1. CASE bundles' = WithManifest(run.stamp)
        BY <2>3, <3>1, <4>1
      <4>2. ASSUME NEW t, NEW n, bundles' = PrunedTo(t, n)
            PROVE  bundles'[s].rows = run.dump \/ bundles'[s] = bundles[s]
        <5> DEFINE k == IF s < t THEN 3 ELSE IF s = t THEN n ELSE 0
        <5>1. CASE s \in Victims(run.stamp)
          <6>1. bundles'[s] = Shrunk(bundles[s], k)
            BY <3>1, <4>2, <5>1 DEF PrunedTo
          <6>2. Shrunk(bundles[s], k) = bundles[s] \/ Shrunk(bundles[s], k).manifest = FALSE
            BY <2>2, <2>3, <3>1, Zenon
          <6>3. bundles'[s] = bundles[s] \/ bundles'[s].manifest = FALSE
            BY <6>1, <6>2
          <6>4. QED
            BY <3>1, <6>3
        <5>2. CASE s \notin Victims(run.stamp)
          <6>1. bundles'[s] = WithManifest(run.stamp)[s]
            BY <3>1, <4>2, <5>2 DEF PrunedTo
          <6>2. QED
            BY <2>3, <3>1, <6>1
        <5>3. QED
          BY <5>1, <5>2
      <4>3. QED
        BY <1>5, <4>1, <4>2
    <3>3. QED
      BY <2>1, <3>1, <3>2 DEF Published
  <2>5. DumpOpens'
    BY <1>5 DEF DumpOpens
  <2>6. QED
    BY <1>1, <1>5, <2>4, <2>5
<1>6. CASE Commit
  <2>1. /\ pc = "copied" /\ pc' = "idle" /\ cold' = cold
        /\ bundles' = PrunedTo(MaxStamp + 1, 0)
    BY <1>6 DEF Commit, store
  <2>2. QED
    BY <1>5, <2>1
<1>7. CASE CommitFails
  <2>1. /\ pc = "copied" /\ pc' = "idle" /\ cold' = cold
        /\ bundles' = WithManifest(run.stamp) \/ \E t, n : bundles' = PrunedTo(t, n)
    BY <1>7 DEF CommitFails, store
  <2>2. QED
    BY <1>5, <2>1
<1>8. CASE Abort
  <2>1. /\ pc' = "idle" /\ cold' = cold
        /\ \/ bundles' = bundles
           \/ \E st \in BOOLEAN : bundles' = [bundles EXCEPT ![run.stamp] = Parts(st)]
    BY <1>8 DEF Abort, store
  <2>2. \A st \in BOOLEAN : Parts(st).manifest = FALSE
    BY DEF Parts, NoBundle
  <2>3. \A s \in Published' : s \in Published /\ bundles'[s].rows = bundles[s].rows
    BY <2>1, <2>2 DEF Published, TypeOK
  <2>4. DumpOpens'
    BY <2>1 DEF DumpOpens
  <2>5. QED
    BY <1>1, <2>1, <2>3, <2>4
<1>9. QED
  BY <1>2, <1>3, <1>4, <1>6, <1>7, <1>8 DEF BackupRun

-----------------------------------------------------------------------------
(* The theorems.                                                           *)

LEMMA TierInit == ASSUME Init PROVE TierInv
<1>1. /\ made = <<1>> /\ retired = {} /\ run = NoRun /\ pc = "idle"
      /\ \A v \in Versions : local[v] = (IF v = 1 THEN 1 ELSE NoGen) /\ cold[v] = NoGen
      /\ \A s \in Stamps : bundles[s] = NoBundle
  BY DEF Init
<1>2. Names(made, retired, local, cold)
  BY <1>1 DEF Names, NoGen
<1>3. PICK given \in SUBSET Users : live = InUse(given)
  BY DEF Init
<1>4. /\ live.current = 1 /\ live.stream = [[v \in Versions |-> NoGen] EXCEPT ![1] = 1]
      /\ 1 \in Versions
  BY <1>3, Bounds DEF InUse, EmptyRows, Versions
<1>5. Served(live, made, retired, local, cold)
  BY <1>1, <1>4 DEF Served, CurrentStreams, ReadOf, NoGen
<1>6. Published = {} /\ DumpOpens
  BY <1>1 DEF Published, DumpOpens, NoBundle
<1>7. QED
  BY <1>2, <1>5, <1>6 DEF TierInv

\* The tier's invariant, beside that of the rows, holds throughout.
THEOREM TierInvariance == Spec => []TierInv
<1>1. Init => TierInv
  BY TierInit
<1>2. IInv /\ IInv' /\ TierInv /\ [Next]_vars => TierInv'
  <2> SUFFICES ASSUME IInv, IInv', TierInv, [Next]_vars PROVE TierInv'
    OBVIOUS
  <2>1. TypeOK /\ TypeOK' /\ RowsInv /\ RowsInv'
    BY DEF IInv
  <2>2. CASE Requests
    BY <2>1, <2>2, RequestTier
  <2>3. CASE BackupRun
    BY <2>1, <2>3, BackupTier
  <2>4. CASE Recovery
    BY <2>1, <2>4, RecoveryTier
  <2>5. CASE UNCHANGED vars
    <3>1. UNCHANGED <<live, local, cold, made, retired, bundles, pc, run>>
      BY <2>5 DEF vars, store, backup
    <3>2. QED
      BY <3>1 DEF TierInv, DumpOpens, Published
  <2>6. QED
    BY <2>2, <2>3, <2>4, <2>5 DEF Next
<1>3. QED
  BY <1>1, <1>2, Invariance, PTL DEF Spec

-----------------------------------------------------------------------------
(* What no restore has brought back.                                       *)

\* A version staged since the last loss or replace can be read; rows that are gone
\* without a tombstone were lost, with every generation there was.
NewInv ==
  /\ ~live.exists /\ ~live.tomb => DOMAIN made \subseteq left
  /\ \A v \in Versions : live.stream[v] # NoGen /\ live.stream[v] \notin left =>
       ReadOf(v, local, cold) = live.stream[v]

\* A step that brings no stream and keeps what is read of those it keeps.
LEMMA NewOn ==
  ASSUME NewInv, UNCHANGED <<made, left>>,
         ~live'.exists /\ ~live'.tomb => ~live.exists /\ ~live.tomb,
         \A v \in Versions : live'.stream[v] # NoGen =>
           /\ live'.stream[v] = live.stream[v]
           /\ ReadOf(v, local', cold') = ReadOf(v, local, cold)
  PROVE  NewInv'
BY DEF NewInv

LEMMA NewRequest ==
  ASSUME TypeOK, RowsInv, LineageInv, NewInv, Requests PROVE NewInv'
<1>0. /\ live \in Rows /\ Sound(live, made) /\ made \in Seq(Versions)
      /\ left \subseteq DOMAIN made /\ left' = left
      /\ local \in [Versions -> 0..MaxGen] /\ cold \in [Versions -> 0..MaxGen]
  BY DEF TypeOK, RowsInv, LineageInv, Requests, Stage, Offload, Finalize, DiscardStaged,
         Delete, AddWrap, DeleteWrap
\* A purge leaves the other names alone.
<1>p. ASSUME NEW vs, Purge(vs), NEW v \in Versions, v \notin vs
      PROVE  ReadOf(v, local', cold') = ReadOf(v, local, cold)
  BY <1>0, <1>p DEF Purge, ReadOf
<1>1. ASSUME NEW given \in SUBSET Users, Stage(given) PROVE NewInv'
  <2> DEFINE v == IF live.exists THEN live.current + 1 ELSE 1
             g == Len(made) + 1
             ws == {w \in live.wraps : w.v # v}
                   \union {[v |-> v, u |-> u, g |-> g] : u \in given}
  <2>1. /\ v \in Versions /\ local' = [local EXCEPT ![v] = g] /\ cold' = cold
        /\ live' = [live EXCEPT !.exists = TRUE, !.stream = [@ EXCEPT ![v] = g],
                                !.wraps = ws]
    BY <1>1 DEF Stage
  <2> HIDE DEF v, ws
  <2>2. live'.exists = TRUE /\ live'.stream = [live.stream EXCEPT ![v] = g]
    BY <1>0, <2>1 DEF Rows
  <2>3. ASSUME NEW u \in Versions, live'.stream[u] # NoGen, live'.stream[u] \notin left
        PROVE  ReadOf(u, local', cold') = live'.stream[u]
    <3>1. CASE u = v
      <4>1. live'.stream[u] = g /\ local'[u] = g
        BY <1>0, <2>1, <2>2, <3>1 DEF Rows
      <4>2. QED
        BY <2>3, <4>1 DEF ReadOf
    <3>2. CASE u # v
      <4>1. live'.stream[u] = live.stream[u] /\ local'[u] = local[u]
        BY <1>0, <2>1, <2>2, <3>2 DEF Rows
      <4>2. QED
        BY <2>1, <2>3, <4>1 DEF NewInv, ReadOf
    <3>3. QED
      BY <3>1, <3>2
  <2>4. QED
    BY <1>0, <2>2, <2>3 DEF NewInv
<1>2. ASSUME NEW v \in Versions, Offload(v) PROVE NewInv'
  <2>1. live' = live /\ made' = made
    BY <1>2 DEF Offload
  <2>2. \A u \in Versions : ReadOf(u, local', cold') = ReadOf(u, local, cold)
    BY <1>0, <1>2 DEF Offload, ReadOf
  <2>3. QED
    BY <1>0, <2>1, <2>2, NewOn
<1>3. CASE Finalize
  <2> DEFINE v == live.current + 1
             st == [u \in Versions |-> IF u = live.current THEN NoGen ELSE live.stream[u]]
             ws == {w \in live.wraps : w.v # live.current}
  <2>1. /\ Purge({live.current} \ {0}) /\ made' = made
        /\ live' = [live EXCEPT !.current = v, !.final = @ \union {v},
                                !.stream = st, !.wraps = ws]
        /\ v \in Versions /\ live.stream[v] # NoGen
    BY <1>3 DEF Finalize, InHand, Staged
  <2> HIDE DEF v, st, ws
  <2>2. live'.stream = st /\ live'.exists = live.exists /\ live'.tomb = live.tomb
    BY <1>0, <2>1 DEF Rows
  <2>3. \A u \in Versions : live'.stream[u] # NoGen =>
          u # live.current /\ live'.stream[u] = live.stream[u]
    BY <2>2 DEF st
  <2>4. QED
    BY <1>0, <1>p, <2>1, <2>2, <2>3, NewOn
<1>4. CASE DiscardStaged
  <2> DEFINE st == [u \in Versions |-> IF u \in Staged(live) THEN NoGen ELSE live.stream[u]]
             ws == {w \in live.wraps : w.v \notin Staged(live)}
  <2>1. /\ Purge(Staged(live)) /\ made' = made
        /\ live' = [live EXCEPT !.stream = st, !.wraps = ws]
    BY <1>4 DEF DiscardStaged
  <2> HIDE DEF st, ws
  <2>2. live'.stream = st /\ live'.exists = live.exists /\ live'.tomb = live.tomb
    BY <1>0, <2>1 DEF Rows
  <2>3. \A u \in Versions : live'.stream[u] # NoGen =>
          u \notin Staged(live) /\ live'.stream[u] = live.stream[u]
    BY <2>2 DEF st
  <2>4. QED
    BY <1>0, <1>p, <2>1, <2>2, <2>3, NewOn
<1>5. CASE Delete
  <2>1. made' = made
        /\ live' = [NoFile(live) EXCEPT !.tomb = TRUE, !.buried = @ \union AllGens]
    BY <1>5 DEF Delete
  <2>2. NoFile(live) \in Rows /\ NoFile(live).stream = [v \in Versions |-> NoGen]
    BY <1>0, NoFileType DEF NoFile, Rows
  <2>3. live'.tomb = TRUE /\ live'.stream = [v \in Versions |-> NoGen]
    BY <2>1, <2>2 DEF Rows
  <2>4. QED
    BY <2>3 DEF NewInv
<1>6. ASSUME UNCHANGED <<local, cold, made>>, live'.stream = live.stream,
             live'.exists = live.exists, live'.tomb = live.tomb
      PROVE  NewInv'
  BY <1>0, <1>6, NewOn
<1>7. ASSUME NEW u \in Users, AddWrap(u) PROVE NewInv'
  <2>1. /\ live'.stream = live.stream /\ live'.exists = live.exists
        /\ live'.tomb = live.tomb
    BY <1>0, <1>7 DEF AddWrap, Rows
  <2>2. QED
    BY <1>6, <1>7, <2>1 DEF AddWrap
<1>8. ASSUME NEW w \in live.wraps, DeleteWrap(w) PROVE NewInv'
  <2>1. /\ live'.stream = live.stream /\ live'.exists = live.exists
        /\ live'.tomb = live.tomb
    BY <1>0, <1>8 DEF DeleteWrap, Rows
  <2>2. QED
    BY <1>6, <1>8, <2>1 DEF DeleteWrap
<1>9. QED
  BY <1>1, <1>2, <1>3, <1>4, <1>5, <1>7, <1>8 DEF Requests

\* A merge brings streams to a file that is not there only: one that was lost.
LEMMA MergedNew ==
  ASSUME NEW r \in Rows, NEW b \in Rows, NEW m, Sound(r, m), Sound(b, m),
         NEW v \in Versions, Merged(r, b).stream[v] # NoGen
  PROVE  \/ Merged(r, b).stream[v] = r.stream[v]
         \/ ~r.exists /\ ~r.tomb /\ Merged(r, b).stream[v] \in DOMAIN m
<1>1. Merged(r, b).stream = Subtree(r, b).stream
  BY DEF Merged, Absences, Subtree, Rows
<1>2. CASE ~Survives(r, b)
  BY <1>1, <1>2 DEF Subtree
<1>3. CASE Survives(r, b)
  <2>1. Merged(r, b).stream[v] = StreamRow(r, b, v)
    BY <1>1, <1>3 DEF Subtree, Rows
  <2>2. CASE r.exists
    <3>1. v = r.current => r.stream[v] # NoGen
      BY <2>2 DEF Sound, Versions
    <3>2. QED
      BY <2>1, <2>2, <3>1 DEF StreamRow, KeepStream, Gated
  <2>3. CASE ~r.exists
    BY <1>3, <2>1, <2>3 DEF StreamRow, Survives, Sound
  <2>4. QED
    BY <2>2, <2>3
<1>4. QED
  BY <1>2, <1>3

LEMMA NewRecovery ==
  ASSUME TypeOK, RowsInv, LineageInv, NewInv, Recovery PROVE NewInv'
<1>0. /\ live \in Rows /\ Sound(live, made) /\ made \in Seq(Versions) /\ made' = made
      /\ left \subseteq DOMAIN made
  BY DEF TypeOK, RowsInv, LineageInv, Recovery, LoseRows, LoseBox, Reregister, Replace,
         Merge
<1>1. CASE LoseRows
  <2>1. left' = left \union DOMAIN made /\ live' = NoFile(live)
    BY <1>1 DEF LoseRows, AllGens
  <2>2. \A v \in Versions : live'.stream[v] = NoGen
    BY <1>0, <2>1 DEF NoFile, Rows
  <2>3. QED
    BY <1>0, <2>1, <2>2 DEF NewInv
<1>2. CASE LoseBox
  <2>1. left' = left \union DOMAIN made /\ live' = EmptyRows
    BY <1>2 DEF LoseBox, AllGens
  <2>2. \A v \in Versions : live'.stream[v] = NoGen
    BY <2>1 DEF EmptyRows
  <2>3. QED
    BY <1>0, <2>1, <2>2 DEF NewInv
<1>3. CASE Reregister
  <2>1. /\ live'.stream = live.stream /\ live'.exists = live.exists
        /\ live'.tomb = live.tomb
    BY <1>0, <1>3 DEF Reregister, Rows
  <2>2. QED
    BY <1>3, <2>1, NewOn DEF Reregister
<1>4. ASSUME NEW s \in Stamps, Replace(s) PROVE NewInv'
  <2>1. /\ left' = left \union DOMAIN made /\ live' = bundles[s].rows
        /\ Sound(bundles[s].rows, made)
    BY <1>4 DEF Replace, AllGens, RowsInv
  <2>2. QED
    BY <1>0, <2>1 DEF NewInv, Sound
<1>5. ASSUME NEW s \in Stamps, Merge(s) PROVE NewInv'
  <2> DEFINE b == bundles[s].rows
  <2>1. /\ live' = Merged(live, b) /\ UNCHANGED <<local, cold, left>>
        /\ b \in Rows /\ Sound(b, made)
    BY <1>5 DEF Merge, RowsInv, TypeOK, Bundle
  <2> HIDE DEF b
  <2>2. ~live'.exists /\ ~live'.tomb => ~live.exists /\ ~live.tomb
    <3>1. live'.exists = Subtree(live, b).exists /\ (live.tomb => live'.tomb)
      BY <1>0, <2>1 DEF Merged, Absences, Subtree, Rows
    <3>2. live.exists => Subtree(live, b).exists
      BY <1>0 DEF Subtree, Rows
    <3>3. QED
      BY <1>0, <2>1, <3>1, <3>2 DEF Rows
  <2>3. ASSUME NEW v \in Versions, live'.stream[v] # NoGen, live'.stream[v] \notin left
        PROVE  ReadOf(v, local', cold') = live'.stream[v]
    <3>1. live'.stream[v] = live.stream[v]
      BY <1>0, <2>1, <2>3, MergedNew DEF NewInv
    <3>2. QED
      BY <2>1, <2>3, <3>1 DEF NewInv
  <2>4. QED
    BY <1>0, <2>1, <2>2, <2>3 DEF NewInv
<1>6. QED
  BY <1>1, <1>2, <1>3, <1>4, <1>5 DEF Recovery

\* What was staged since the last loss or replace, and has rows, can be read.
THEOREM NewIsRead == Spec => []NewInv
<1>1. Init => NewInv
  <2> SUFFICES ASSUME Init PROVE NewInv
    OBVIOUS
  <2>1. PICK given \in SUBSET Users : live = InUse(given)
    BY DEF Init
  <2>2. /\ live.exists /\ live.stream = [[v \in Versions |-> NoGen] EXCEPT ![1] = 1]
        /\ \A v \in Versions : local[v] = IF v = 1 THEN 1 ELSE NoGen
    BY <2>1 DEF InUse, EmptyRows, Init
  <2>3. QED
    BY <2>2, Bounds DEF NewInv, ReadOf, NoGen, Versions
<1>2. IInv /\ NewInv /\ [Next]_vars => NewInv'
  <2> SUFFICES ASSUME IInv, NewInv, [Next]_vars PROVE NewInv'
    OBVIOUS
  <2>1. TypeOK /\ RowsInv /\ LineageInv
    BY DEF IInv
  <2>2. CASE Requests
    BY <2>1, <2>2, NewRequest
  <2>3. CASE BackupRun
    <3>1. UNCHANGED <<live, made, left, local>>
      BY <2>3 DEF BackupRun, StartBackup, Enumerate, SealAndCopy, Commit, CommitFails,
                  Abort, store
    <3>2. \/ cold' = cold
          \/ cold' = [v \in Versions |-> IF v \in run.refs /\ ~AlreadyCold(v)
                                         THEN local[v] ELSE cold[v]]
      BY <2>3 DEF BackupRun, StartBackup, Enumerate, SealAndCopy, Commit, CommitFails,
                  Abort, store
    <3>3. \A v \in Versions : ReadOf(v, local', cold') = ReadOf(v, local, cold)
      BY <3>1, <3>2 DEF ReadOf, AlreadyCold
    <3>4. QED
      BY <3>1, <3>3, NewOn
  <2>4. CASE Recovery
    BY <2>1, <2>4, NewRecovery
  <2>5. CASE UNCHANGED vars
    BY <2>5 DEF vars, store, NewInv
  <2>6. QED
    BY <2>2, <2>3, <2>4, <2>5 DEF Next
<1>3. QED
  BY <1>1, <1>2, Invariance, PTL DEF Spec

-----------------------------------------------------------------------------
(* What can be read.                                                       *)

\* backup_copy_refs: the ciphertext of a listed bundle's current version is in
\* the cold tier, unless the code itself gave it up.
THEOREM BundleOpensAlways == Spec => []BundleOpens
<1>1. TierInv => BundleOpens
  BY DEF TierInv, Held, BundleOpens, GivenUp, Gone, AllGens
<1>2. QED
  BY <1>1, TierInvariance, PTL

\* What the live database serves can be read back from the tier: a version staged since
\* the last loss or replace always, one that a bundle brought back unless the code had
\* given its ciphertext up, by a supersession, a deletion or a staging since the dump.
THEOREM ServedOpensAlways == Spec => []ServedOpens
<1>1. IInv /\ TierInv /\ NewInv => ServedOpens
  <2> SUFFICES ASSUME IInv, TierInv, NewInv, NEW v \in CurrentStreams(live)
               PROVE  \/ ReadOf(v, local, cold) = live.stream[v]
                      \/ live.stream[v] \in left /\ Gone(live.stream[v], made, retired, cold)
    BY DEF ServedOpens, GivenUp, Gone, AllGens, ReadOf, Read
  <2>1. v \in Versions /\ live.stream[v] # NoGen
    BY DEF IInv, TypeOK, CurrentStreams, Rows, Versions
  <2>2. QED
    BY <2>1 DEF NewInv, TierInv, Served
<1>2. QED
  BY <1>1, Invariance, TierInvariance, NewIsRead, PTL
=============================================================================
