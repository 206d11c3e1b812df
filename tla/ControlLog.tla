----------------------------- MODULE ControlLog -----------------------------
(***************************************************************************)
(* The control log: revocations, reinstatements and key-compromise cutoffs *)
(* in one hash chain, from the admin who issues a record                   *)
(* (crates/admin-core/src/control.rs) through the server's table           *)
(* (crates/server/src/pg.rs, http.rs) to the append-only sink              *)
(* (crates/sink-server/src/chain.rs, position.rs) and to the client that   *)
(* verifies the served log against the sink's head before it re-shares a   *)
(* file (crates/client-core/src/revocation.rs, reshare.rs).                *)
(*                                                                         *)
(* Abstractions.  head = SHA-256(record) and a record holds its prev_head, *)
(* so a head names the whole history behind it: a head is modelled as the  *)
(* sequence of the record bodies it commits to, GENESIS_HEAD as <<>>.      *)
(* Signatures verify and directory bindings resolve; who may sign what is  *)
(* modelled.  from_version is one, so a per-file record covers every       *)
(* version.  The chain is short enough for GET /v1/revocations to be one   *)
(* read.                                                                   *)
(***************************************************************************)
EXTENDS Naturals, Sequences, FiniteSets

CONSTANTS
  Admin,        \* users whose directory binding has the admin role
  Ceremony,     \* ceremonies; one admin may have several under way
  AdminOf,      \* AdminOf[a]: the admin who holds ceremony a
  User,         \* users a record may name, admins included
  Recipient,    \* users a batch may wrap to
  File,         \* files
  AccountWide,  \* the scope "*"
  Client,       \* clients that re-share
  NoAdmin,      \* no co-signer
  NoRow,        \* a chain_seq without a committed row
  Unpinned,     \* no sink pinned
  Order,        \* Order[a]: what ceremony a may want to issue
  MaxRows,      \* bound: values of chain_seq
  MaxRestores   \* bound: restores of the database

Scope == {AccountWide} \cup File

Body ==
  [kind: {"revoke"}, user: User, scope: Scope, cap: {"access", "admin"},
   epoch: Nat, by: Admin, co: Admin \cup {NoAdmin}]
  \cup [kind: {"reinstate"}, user: User, scope: Scope, supersedes: Nat,
        epoch: Nat, by: Admin, co: Admin]
  \cup [kind: {"compromise"}, user: User, by: Admin, co: Admin]

ChainHead == Seq(Body)
Genesis == << >>
Record == [prev: ChainHead, body: Body]
HeadOf(r) == Append(r.prev, r.body)

ASSUME ControlAssumption ==
  /\ Admin \subseteq User /\ Recipient \subseteq User
  /\ AccountWide \notin File
  /\ NoAdmin \notin Admin
  /\ NoRow \notin Record
  /\ Unpinned \notin ChainHead
  /\ MaxRows \in Nat /\ MaxRestores \in Nat
  /\ AdminOf \in [Ceremony -> Admin]
  /\ Order \in [Ceremony -> SUBSET
       ([kind: {"revoke"}, user: User, scope: Scope, cap: {"access", "admin"}]
        \cup [kind: {"reinstate"}, user: User, scope: Scope]
        \cup [kind: {"compromise"}, user: User])]

VARIABLES
  log,        \* control_log by chain_seq: the committed record, or NoRow
  restores,   \* restores of the database so far
  issuer,     \* issuer[a]: ceremony a, or the server's handler of the record it
              \* has posted, which runs on if its connection is lost
  sink,       \* the sink's head, and with it its records
  reader,     \* reader[c]: the re-share client c is in
  confirmed   \* history: the head confirm_anchored accepted last

vars == <<log, restores, issuer, sink, reader, confirmed>>

\* The epoch counters of a ControlChain.
Epochs == [{"revoke", "reinstate"} \X Scope -> Nat]
NoEpochs == [s \in {"revoke", "reinstate"} \X Scope |-> 0]

\* While a record is under way the ceremony's chain head is the record's.
Away == [pc |-> "away"]
Issuer ==
  {Away}
  \cup [pc: {"ceremony"}, head: ChainHead, epochs: Epochs]
  \cup [pc: {"checked", "committed", "confirming"}, rec: Record, epochs: Epochs]
  \cup [pc: {"guarded"}, rec: Record, epochs: Epochs, slot: 1..MaxRows]

\* anchor: the pinned sink's head; must: what was confirmed when the batch
\* fetched it (history); wrapped: the <<recipient, file>> pairs wrapped so far.
Idle == [pc |-> "idle"]
Reader ==
  {Idle}
  \cup [pc: {"fetched"}, anchor: ChainHead \cup {Unpinned}, must: ChainHead]
  \cup [pc: {"verified"}, anchor: ChainHead \cup {Unpinned}, must: ChainHead,
        seen: ChainHead, wrapped: SUBSET (Recipient \X File)]

\* Type correctness: the table, the ceremonies, the sink and the readers.
TypeOK ==
  /\ log \in Seq(Record \cup {NoRow}) /\ Len(log) <= MaxRows
  /\ restores \in 0..MaxRestores
  /\ issuer \in [Ceremony -> Issuer]
  /\ \A a \in Ceremony : issuer[a].pc = "guarded" => issuer[a].slot <= Len(log)
  /\ sink \in ChainHead
  /\ reader \in [Client -> Reader]
  /\ confirmed \in ChainHead

Init ==
  /\ log = << >>
  /\ restores = 0
  /\ issuer = [a \in Ceremony |-> Away]
  /\ sink = Genesis
  /\ reader = [c \in Client |-> Idle]
  /\ confirmed = Genesis

-----------------------------------------------------------------------------
(* Reading the table.  A reader sees the committed rows in chain_seq order. *)

Committed(i) == i \in 1..Len(log) /\ log[i] # NoRow

\* Row i, or the empty table for 0, is the last committed one below bound j.
IsLastBelow(i, j) ==
  /\ i = 0 \/ Committed(i)
  /\ i < j
  /\ \A k \in i+1..j-1 : ~Committed(k)

HeadAt(i) == IF i = 0 THEN Genesis ELSE HeadOf(log[i])

\* The one head a SELECT ... ORDER BY chain_seq DESC LIMIT 1 finds.
ServedHeads == {HeadAt(i) : i \in {k \in 0..Len(log) : IsLastBelow(k, Len(log) + 1)}}

\* Every served record links to the one served before it.
Linked ==
  \A j \in 1..Len(log) : Committed(j) =>
    \E i \in 0..j-1 : IsLastBelow(i, j) /\ log[j].prev = HeadAt(i)

-----------------------------------------------------------------------------
(* What a chain says. *)

\* An AND over explicit references, wherever the reinstatement stands in the
\* chain: the two epoch counters are never compared.
Lifts(b, r) ==
  /\ b.kind = "reinstate"
  /\ b.scope = r.scope /\ b.user = r.user /\ b.supersedes = r.epoch

IsSuperseded(h, r) == \E i \in 1..Len(h) : Lifts(h[i], r)

ActiveRevocation(h, i, cap) ==
  h[i].kind = "revoke" /\ h[i].cap = cap /\ ~IsSuperseded(h, h[i])

ScopeMatchesFile(s, f) == s = AccountWide \/ s = f

\* is_account_revoked or is_revoked, the two tests of build_reshare.
IsRevoked(h, u, f) ==
  \E i \in 1..Len(h) :
    ActiveRevocation(h, i, "access") /\ h[i].user = u /\ ScopeMatchesFile(h[i].scope, f)

\* The admin role in effect: the directory's ceiling minus active narrowings.
IsAdminByCeiling(h, a) == a \in Admin
IsAdmin(h, a) ==
  a \in Admin /\ ~\E i \in 1..Len(h) : ActiveRevocation(h, i, "admin") /\ h[i].user = a

RequiresDualControl(b) == b.kind = "revoke" => b.scope = AccountWide

\* Every record's issuer, and co-signer where two are needed, was an admin as
\* of the records before it.
Authentic(h) ==
  \A i \in 1..Len(h) :
    LET prefix == SubSeq(h, 1, i - 1)
    IN  /\ IsAdmin(prefix, h[i].by)
        /\ RequiresDualControl(h[i]) =>
             h[i].co \notin {NoAdmin, h[i].by} /\ IsAdmin(prefix, h[i].co)

-----------------------------------------------------------------------------
(* The ceremony. *)

\* A ceremony continues from the served head, or from the anchored one; its
\* epoch counters start empty.  Where one lost its connection, its admin resumes in
\* another ceremony while the handler is still at work.
Resume(a) ==
  /\ issuer[a].pc \in {"away", "ceremony", "confirming"}
  /\ \E h \in ServedHeads \cup {sink} :
       issuer' = [issuer EXCEPT ![a] = [pc |-> "ceremony", head |-> h, epochs |-> NoEpochs]]
  /\ UNCHANGED <<log, restores, sink, reader, confirmed>>

\* The next epoch of the record's family and scope.
NextEpoch(epochs, o) == epochs[<<o.kind, o.scope>>] + 1

\* The bodies that carry out order o in ceremony a.  A mass revoke without a
\* co-signer is refused; a reinstatement names a revocation of the chain.
Bodies(a, o) ==
  LET head == issuer[a].head
      epochs == issuer[a].epochs
  IN CASE o.kind = "revoke" ->
         {[kind |-> "revoke", user |-> o.user, scope |-> o.scope, cap |-> o.cap,
           epoch |-> NextEpoch(epochs, o), by |-> AdminOf[a],
           co |-> co] :
            co \in IF o.scope = AccountWide THEN Admin \ {AdminOf[a]} ELSE {NoAdmin}}
    [] o.kind = "reinstate" ->
         {[kind |-> "reinstate", user |-> o.user, scope |-> o.scope,
           supersedes |-> head[i].epoch, epoch |-> NextEpoch(epochs, o),
           by |-> AdminOf[a], co |-> co] :
            i \in {j \in 1..Len(head) : /\ head[j].kind = "revoke"
                                        /\ head[j].user = o.user
                                        /\ head[j].scope = o.scope},
            co \in Admin \ {AdminOf[a]}}
    [] o.kind = "compromise" ->
         {[kind |-> "compromise", user |-> o.user, by |-> AdminOf[a], co |-> co] :
            co \in Admin \ {AdminOf[a]}}

-----------------------------------------------------------------------------
(* post_control and append_control.  The head is read twice, by the         *)
(* pre-check and by the insert's trigger; a row is seen once it commits, in *)
(* the place its chain_seq gave it.                                         *)

\* The handler of a's record goes on to its next await.
Goto(a, to) ==
  issuer' = [issuer EXCEPT ![a] =
    [pc |-> to, rec |-> issuer[a].rec, epochs |-> issuer[a].epochs]]

\* The record is refused, and with it the ceremony's chain.
GiveUp(a) == issuer' = [issuer EXCEPT ![a] = Away]

\* ControlChain::revoke, reinstate or key_compromise, then the POST and its
\* pre-check: a record that does not extend the head is a 409.  The ceremony
\* acts on its own state only, so the two are one step.
Issue(a, o) ==
  LET p == issuer[a]
  IN  /\ p.pc = "ceremony"
      /\ Len(log) < MaxRows
      /\ \E b \in Bodies(a, o) :
           IF p.head \in ServedHeads
           THEN issuer' = [issuer EXCEPT ![a] =
                  [pc |-> "checked", rec |-> [prev |-> p.head, body |-> b],
                   epochs |-> IF o.kind = "compromise" THEN p.epochs
                              ELSE [p.epochs EXCEPT ![<<o.kind, o.scope>>] = b.epoch]]]
           ELSE GiveUp(a)
      /\ UNCHANGED <<log, restores, sink, reader, confirmed>>

\* The INSERT takes the next chain_seq and control_log_append_guard reads the
\* last committed head, without a lock; a mismatch is a 409.
InsertGuard(a) ==
  /\ issuer[a].pc = "checked"
  /\ Len(log) < MaxRows
  /\ IF issuer[a].rec.prev \in ServedHeads
     THEN /\ log' = Append(log, NoRow)
          /\ issuer' = [issuer EXCEPT ![a] =
               [pc |-> "guarded", rec |-> issuer[a].rec,
                epochs |-> issuer[a].epochs, slot |-> Len(log) + 1]]
     ELSE GiveUp(a) /\ UNCHANGED log
  /\ UNCHANGED <<restores, sink, reader, confirmed>>

\* The unique indexes: a head once, and an epoch once per family and scope.
CollidesOnHeadOnly(r, q) == r = q
Collides(r, q) ==
  \/ r = q
  \/ /\ r.body.kind = q.body.kind /\ r.body.kind # "compromise"
     /\ r.body.scope = q.body.scope /\ r.body.epoch = q.body.epoch

Duplicate(r) == \E i \in 1..Len(log) : Committed(i) /\ Collides(r, log[i])

\* The statement commits and the row is seen, or a unique index refuses it (500).
Commit(a) ==
  /\ issuer[a].pc = "guarded"
  /\ IF Duplicate(issuer[a].rec)
     THEN GiveUp(a) /\ UNCHANGED log
     ELSE /\ log' = [log EXCEPT ![issuer[a].slot] = issuer[a].rec]
          /\ Goto(a, "committed")
  /\ UNCHANGED <<restores, sink, reader, confirmed>>

\* The sink's append-only rule.
ExtendsSink(r) == r.prev = sink

\* publish_control_record reaches the sink, which admits a record that extends
\* its head and refuses any other.
Publish(a) ==
  /\ issuer[a].pc = "committed"
  /\ IF ExtendsSink(issuer[a].rec)
     THEN sink' = HeadOf(issuer[a].rec)
     ELSE UNCHANGED sink
  /\ Goto(a, "confirming")
  /\ UNCHANGED <<log, restores, reader, confirmed>>

\* The sink cannot be reached: the failure is swallowed and never retried.
LosePublication(a) ==
  /\ issuer[a].pc = "committed"
  /\ Goto(a, "confirming")
  /\ UNCHANGED <<log, restores, sink, reader, confirmed>>

\* confirm_anchored: done only if the sink's head is the record's head.
Confirm(a) ==
  LET p == issuer[a]
  IN  /\ p.pc = "confirming"
      /\ IF sink = HeadOf(p.rec)
         THEN /\ confirmed' = HeadOf(p.rec)
              /\ issuer' = [issuer EXCEPT ![a] =
                   [pc |-> "ceremony", head |-> HeadOf(p.rec), epochs |-> p.epochs]]
         ELSE GiveUp(a) /\ UNCHANGED confirmed
      /\ UNCHANGED <<log, restores, sink, reader>>

StillRunning == issuer
Stopped == [a \in Ceremony |-> Away]

\* The database is restored from a bundle written when it had fewer rows; the
\* server was stopped for it, so no request is in flight.
Restore ==
  /\ restores < MaxRestores
  /\ restores' = restores + 1
  /\ \E n \in 0..Len(log) : log' = SubSeq(log, 1, n)
  /\ issuer' = Stopped
  /\ UNCHANGED <<sink, reader, confirmed>>

-----------------------------------------------------------------------------
(* Re-sharing: reshare_inner, build_tombstones and build_reshare. *)

\* With a sink pinned, its head is fetched before the served records are.
FetchAnchor(c) ==
  /\ reader[c].pc = "idle"
  /\ \E anchor \in {sink, Unpinned} :
       reader' = [reader EXCEPT ![c] =
         [pc |-> "fetched", anchor |-> anchor, must |-> confirmed]]
  /\ UNCHANGED <<log, restores, issuer, sink, confirmed>>

\* The head the served records verify to: linked, authentic, and with a pinned
\* sink exactly the anchored one.
VerifiesToServed(anchor, h) == h \in ServedHeads /\ Linked /\ Authentic(h)
VerifiesTo(anchor, h) ==
  /\ h \in ServedHeads
  /\ Linked
  /\ Authentic(h)
  /\ anchor \in {h, Unpinned}

\* The records are fetched and verified; anything amiss ends the re-share.
FetchRecords(c) ==
  LET q == reader[c]
  IN  /\ q.pc = "fetched"
      /\ \/ \E h \in ServedHeads :
              /\ VerifiesTo(q.anchor, h)
              /\ reader' = [reader EXCEPT ![c] =
                   [pc |-> "verified", anchor |-> q.anchor, must |-> q.must,
                    seen |-> h, wrapped |-> {}]]
         \/ /\ ~\E h \in ServedHeads : VerifiesTo(q.anchor, h)
            /\ reader' = [reader EXCEPT ![c] = Idle]
      /\ UNCHANGED <<log, restores, issuer, sink, confirmed>>

\* One recipient of the batch: a wrap is built and posted unless the verified
\* set revokes them.
Wrap(c, u, f) ==
  LET q == reader[c]
  IN  /\ q.pc = "verified"
      /\ <<u, f>> \notin q.wrapped
      /\ ~IsRevoked(q.seen, u, f)
      /\ reader' = [reader EXCEPT ![c] =
           [pc |-> "verified", anchor |-> q.anchor, must |-> q.must,
            seen |-> q.seen, wrapped |-> q.wrapped \cup {<<u, f>>}]]
      /\ UNCHANGED <<log, restores, issuer, sink, confirmed>>

EndBatch(c) ==
  /\ reader[c].pc = "verified"
  /\ reader' = [reader EXCEPT ![c] = Idle]
  /\ UNCHANGED <<log, restores, issuer, sink, confirmed>>

CeremonyStep(a) ==
  \/ Resume(a)
  \/ \E o \in Order[a] : Issue(a, o)
  \/ InsertGuard(a) \/ Commit(a)
  \/ Publish(a) \/ LosePublication(a) \/ Confirm(a)

ClientStep(c) ==
  \/ FetchAnchor(c) \/ FetchRecords(c) \/ EndBatch(c)
  \/ \E u \in Recipient, f \in File : Wrap(c, u, f)

Next ==
  \/ \E a \in Ceremony : CeremonyStep(a)
  \/ \E c \in Client : ClientStep(c)
  \/ Restore

Spec == Init /\ [][Next]_vars

-----------------------------------------------------------------------------
(* Properties. *)

Prefix(g, h) == Len(g) <= Len(h) /\ \A i \in 1..Len(g) : g[i] = h[i]

Anchored(c) == reader[c].pc = "verified" /\ reader[c].anchor # Unpinned

\* What an anchored client accepts is all the sink held when the re-share
\* began: nothing confirmed before it is missing (D22: no gap, no rollback),
\* and nothing in it is unknown to the sink.
AcceptedSetIsWhole ==
  \A c \in Client : Anchored(c) =>
    Prefix(reader[c].must, reader[c].seen) /\ Prefix(reader[c].seen, sink)

\* A batch that an anchored client began after an issuer's confirm_anchored
\* said a revocation is done wraps to the revoked user only if a reinstatement
\* issued after that revocation lifts it.  It holds whatever was lost between
\* server and sink, whatever the server's table was restored to, and however
\* often an admin's ceremony restarted its epoch counters; it takes the sink's
\* append-only rule, the unique epochs, the issuer's confirmation and the
\* client's gap check together.
ConfirmedRevocationHolds ==
  \A c \in Client : Anchored(c) =>
    LET q == reader[c]
    IN  \A w \in q.wrapped : \A i \in 1..Len(q.must) :
          LET r == q.must[i]
          IN  (/\ r.kind = "revoke" /\ r.cap = "access"
               /\ r.user = w[1] /\ ScopeMatchesFile(r.scope, w[2]))
              => \E j \in i+1..Len(q.seen) : Lifts(q.seen[j], r)

\* An admin whose role a confirmed record narrowed has no say afterwards: the
\* set a later anchored re-share accepts has no record that admin issued, or
\* co-signed where two admins are needed, after the narrowing and before its
\* reinstatement.  The server's own gate does not look at the narrowing.
ConfirmedNarrowingHolds ==
  \A c \in Client : Anchored(c) =>
    LET q == reader[c]
    IN  \A i \in 1..Len(q.must) :
          LET r == q.must[i]
          IN  r.kind = "revoke" /\ r.cap = "admin" =>
              \A j \in i+1..Len(q.seen) :
                \/ /\ q.seen[j].by # r.user
                   /\ RequiresDualControl(q.seen[j]) => q.seen[j].co # r.user
                \/ \E k \in i+1..j-1 : Lifts(q.seen[k], r)

\* The committed rows, in chain_seq order, are one chain from GENESIS_HEAD:
\* "each new row's prev_head must equal the prior row's head", "gap/fork
\* rejected" (0001_baseline.sql).
LogUnforked == Linked
=============================================================================
