-------------------------- MODULE ControlLog_proofs --------------------------
(***************************************************************************)
(* Theorems about ControlLog, for every set of admins, users, files and    *)
(* clients, every set of orders and every bound: the state is well typed;  *)
(* what an anchored client accepts is whole; a confirmed revocation holds  *)
(* until a later record lifts it; an admin whose role was narrowed has no  *)
(* say.  The log forks only if two appends race.                           *)
(*                                                                         *)
(* The argument follows the heads.  The unique indexes keep the epochs of  *)
(* one family and scope apart in the committed rows, and every head a row  *)
(* builds on consists of bodies of committed rows, so an epoch names one   *)
(* revocation in any served head, whatever epochs the ceremonies count.    *)
(* The sink only takes heads of committed rows that extend its own, and an *)
(* anchored client accepts exactly the head the sink had: so what was      *)
(* confirmed before is a prefix of what the client sees, and a record that *)
(* lifts a revocation stands after it.                                     *)
(***************************************************************************)
EXTENDS ControlLog, SequenceTheorems, TLAPS

USE ControlAssumption

-----------------------------------------------------------------------------
(* Types. *)

\* A record's head is a chain head, one longer than the one it extends.
LEMMA HeadOfType ==
  ASSUME NEW r \in Record
  PROVE  /\ HeadOf(r) \in ChainHead /\ r.prev \in ChainHead /\ r.body \in Body
         /\ Len(HeadOf(r)) = Len(r.prev) + 1
         /\ \A i \in 1..Len(r.prev) : HeadOf(r)[i] = r.prev[i]
         /\ HeadOf(r)[Len(r.prev) + 1] = r.body
<1>1. r.prev \in ChainHead /\ r.body \in Body
  BY DEF Record
<1>2. r.prev \in Seq(Body)
  BY <1>1 DEF ChainHead
<1>3. QED
  BY <1>1, <1>2 DEF HeadOf, ChainHead

\* A committed row holds a record.
LEMMA CommittedType ==
  ASSUME TypeOK, NEW i, Committed(i)
  PROVE  i \in 1..Len(log) /\ log[i] \in Record /\ log[i] # NoRow
<1>1. i \in 1..Len(log) /\ log[i] # NoRow
  BY DEF Committed
<1>2. log[i] \in Record \cup {NoRow}
  BY <1>1, ElementOfSeq DEF TypeOK
<1>3. QED
  BY <1>1, <1>2

\* What the table serves as its head is a chain head: the empty one, or that
\* of a committed row.
LEMMA ServedHeadIs ==
  ASSUME TypeOK, NEW h \in ServedHeads
  PROVE  /\ h \in ChainHead
         /\ \/ h = << >>
            \/ \E i \in 1..Len(log) : Committed(i) /\ h = HeadOf(log[i])
<1>1. PICK i \in 0..Len(log) : IsLastBelow(i, Len(log) + 1) /\ h = HeadAt(i)
  BY DEF ServedHeads
<1>2. CASE i = 0
  BY <1>1, <1>2 DEF HeadAt, Genesis, ChainHead
<1>3. CASE i # 0
  <2>1. Committed(i)
    BY <1>1, <1>3 DEF IsLastBelow
  <2>2. h = HeadOf(log[i]) /\ i \in 1..Len(log)
    BY <1>1, <1>3, <2>1 DEF HeadAt, Committed
  <2>3. QED
    BY <2>1, <2>2, CommittedType, HeadOfType
<1>4. QED
  BY <1>2, <1>3

\* A ceremony issues well-formed records.
LEMMA BodiesType ==
  ASSUME NEW a \in Ceremony, NEW o \in Order[a], NEW b \in Bodies(a, o),
         issuer[a].head \in ChainHead, issuer[a].epochs \in Epochs
  PROVE  /\ b \in Body
         /\ b.kind = o.kind
         /\ o.kind # "compromise" =>
              <<o.kind, o.scope>> \in {"revoke", "reinstate"} \X Scope /\ b.epoch \in Nat
<1> DEFINE RevokeOrder == [kind: {"revoke"}, user: User, scope: Scope, cap: {"access", "admin"}]
           ReinstateOrder == [kind: {"reinstate"}, user: User, scope: Scope]
           CompromiseOrder == [kind: {"compromise"}, user: User]
<1>1. o \in RevokeOrder \cup ReinstateOrder \cup CompromiseOrder /\ AdminOf[a] \in Admin
  BY ControlAssumption DEF ControlAssumption
<1>2. CASE o \in RevokeOrder
  <2>1. o.kind = "revoke" /\ o.user \in User /\ o.scope \in Scope /\ o.cap \in {"access", "admin"}
    BY <1>2
  <2>2. PICK co \in IF o.scope = AccountWide THEN Admin \ {AdminOf[a]} ELSE {NoAdmin} :
          b = [kind |-> "revoke", user |-> o.user, scope |-> o.scope, cap |-> o.cap,
               epoch |-> NextEpoch(issuer[a].epochs, o), by |-> AdminOf[a], co |-> co]
    BY <2>1 DEF Bodies
  <2>3. NextEpoch(issuer[a].epochs, o) \in Nat
    BY <2>1 DEF NextEpoch, Epochs
  <2>4. QED
    BY <1>1, <2>1, <2>2, <2>3 DEF Body
<1>3. CASE o \in ReinstateOrder
  <2>1. o.kind = "reinstate" /\ o.user \in User /\ o.scope \in Scope
    BY <1>3
  <2>2. PICK i \in {j \in 1..Len(issuer[a].head) :
                      /\ issuer[a].head[j].kind = "revoke"
                      /\ issuer[a].head[j].user = o.user
                      /\ issuer[a].head[j].scope = o.scope},
             co \in Admin \ {AdminOf[a]} :
          b = [kind |-> "reinstate", user |-> o.user, scope |-> o.scope,
               supersedes |-> issuer[a].head[i].epoch,
               epoch |-> NextEpoch(issuer[a].epochs, o), by |-> AdminOf[a], co |-> co]
    BY <2>1 DEF Bodies
  <2>3. NextEpoch(issuer[a].epochs, o) \in Nat
    BY <2>1 DEF NextEpoch, Epochs
  <2>4. issuer[a].head[i] \in Body /\ issuer[a].head[i].kind = "revoke"
    BY <2>2, ElementOfSeq DEF ChainHead
  <2>5. issuer[a].head[i].epoch \in Nat
    BY <2>4 DEF Body
  <2>6. QED
    BY <1>1, <2>1, <2>2, <2>3, <2>5 DEF Body
<1>4. CASE o \in CompromiseOrder
  <2>1. o.kind = "compromise" /\ o.user \in User
    BY <1>4
  <2>2. PICK co \in Admin \ {AdminOf[a]} :
          b = [kind |-> "compromise", user |-> o.user, by |-> AdminOf[a], co |-> co]
    BY <2>1 DEF Bodies
  <2>3. QED
    BY <1>1, <2>1, <2>2 DEF Body
<1>5. QED
  BY <1>1, <1>2, <1>3, <1>4

\* A handler's steps keep the issuers well typed.
LEMMA IssuerGoes ==
  ASSUME TypeOK, NEW a \in Ceremony, NEW st \in Issuer, issuer' = [issuer EXCEPT ![a] = st]
  PROVE  issuer' \in [Ceremony -> Issuer] /\ issuer'[a] = st
           /\ \A b \in Ceremony \ {a} : issuer'[b] = issuer[b]
BY DEF TypeOK

\* A client's steps keep the readers well typed.
LEMMA ReaderGoes ==
  ASSUME TypeOK, NEW c \in Client, NEW st \in Reader, reader' = [reader EXCEPT ![c] = st]
  PROVE  reader' \in [Client -> Reader] /\ reader'[c] = st
           /\ \A d \in Client \ {c} : reader'[d] = reader[d]
BY DEF TypeOK

\* What an issuer holds in each of its states.
LEMMA IssuerHolds ==
  ASSUME TypeOK, NEW a \in Ceremony
  PROVE  /\ issuer[a] \in Issuer
         /\ issuer[a].pc \in {"away", "ceremony", "checked", "guarded", "committed", "confirming"}
         /\ issuer[a].pc = "ceremony" =>
              issuer[a].head \in ChainHead /\ issuer[a].epochs \in Epochs
         /\ issuer[a].pc \in {"checked", "guarded", "committed", "confirming"} =>
              issuer[a].rec \in Record /\ issuer[a].epochs \in Epochs
         /\ issuer[a].pc = "guarded" => issuer[a].slot \in 1..MaxRows /\ issuer[a].slot <= Len(log)
<1>1. issuer[a] \in Issuer
  BY DEF TypeOK
<1>2. QED
  BY <1>1 DEF TypeOK, Issuer, Away

\* What a reader holds in each of its states.
LEMMA ReaderHolds ==
  ASSUME TypeOK, NEW c \in Client
  PROVE  /\ reader[c] \in Reader
         /\ reader[c].pc \in {"idle", "fetched", "verified"}
         /\ reader[c].pc \in {"fetched", "verified"} =>
              reader[c].anchor \in ChainHead \cup {Unpinned} /\ reader[c].must \in ChainHead
         /\ reader[c].pc = "verified" =>
              reader[c].seen \in ChainHead /\ reader[c].wrapped \in SUBSET (Recipient \X File)
<1>1. reader[c] \in Reader
  BY DEF TypeOK
<1>2. QED
  BY <1>1 DEF Reader, Idle

\* The states the handlers and the clients reach are well typed.
LEMMA IssuerStates ==
  /\ Away \in Issuer /\ Away.pc # "guarded"
  /\ \A h \in ChainHead, e \in Epochs :
       /\ [pc |-> "ceremony", head |-> h, epochs |-> e] \in Issuer
       /\ [pc |-> "ceremony", head |-> h, epochs |-> e].pc # "guarded"
  /\ \A to \in {"checked", "committed", "confirming"}, r \in Record, e \in Epochs :
       /\ [pc |-> to, rec |-> r, epochs |-> e] \in Issuer
       /\ [pc |-> to, rec |-> r, epochs |-> e].pc # "guarded"
  /\ \A r \in Record, e \in Epochs, s \in 1..MaxRows :
       [pc |-> "guarded", rec |-> r, epochs |-> e, slot |-> s] \in Issuer
BY DEF Issuer, Away

\* The states a re-share goes through are well typed.
LEMMA ReaderStates ==
  /\ Idle \in Reader
  /\ \A x \in ChainHead \cup {Unpinned}, m \in ChainHead :
       [pc |-> "fetched", anchor |-> x, must |-> m] \in Reader
  /\ \A x \in ChainHead \cup {Unpinned}, m \in ChainHead, h \in ChainHead,
        w \in SUBSET (Recipient \X File) :
       [pc |-> "verified", anchor |-> x, must |-> m, seen |-> h, wrapped |-> w] \in Reader
BY DEF Reader

LEMMA NoEpochsType == NoEpochs \in Epochs
BY DEF NoEpochs, Epochs

-----------------------------------------------------------------------------
(* Type correctness. *)

\* The initial state is well typed.
LEMMA InitTypeOK == Init => TypeOK
<1> SUFFICES ASSUME Init PROVE TypeOK
  OBVIOUS
<1>1. log \in Seq(Record \cup {NoRow}) /\ Len(log) <= MaxRows
  BY DEF Init
<1>2. sink \in ChainHead /\ confirmed \in ChainHead
  BY DEF Init, Genesis, ChainHead
<1>3. issuer \in [Ceremony -> Issuer] /\ \A a \in Ceremony : issuer[a].pc # "guarded"
  BY DEF Init, Away, Issuer
<1>4. reader \in [Client -> Reader]
  BY ReaderStates DEF Init
<1>5. restores \in 0..MaxRestores
  BY DEF Init
<1>6. QED
  BY <1>1, <1>2, <1>3, <1>4, <1>5 DEF TypeOK

\* An admin's step of a ceremony or of a handler, the table's length apart.
LEMMA IssuerStepTyped ==
  ASSUME TypeOK, NEW a \in Ceremony, NEW st \in Issuer, issuer' = [issuer EXCEPT ![a] = st],
         log' \in Seq(Record \cup {NoRow}), Len(log') <= MaxRows, Len(log') >= Len(log),
         st.pc = "guarded" => st.slot <= Len(log'),
         sink' \in ChainHead, confirmed' \in ChainHead, UNCHANGED <<restores, reader>>
  PROVE  TypeOK'
<1>1. issuer' \in [Ceremony -> Issuer] /\ issuer'[a] = st
        /\ \A b \in Ceremony \ {a} : issuer'[b] = issuer[b]
  BY IssuerGoes
<1>2. ASSUME NEW b \in Ceremony, issuer'[b].pc = "guarded"
      PROVE  issuer'[b].slot <= Len(log')
  <2>1. CASE b = a
    BY <1>1, <1>2, <2>1
  <2>2. CASE b # a
    <3>1. issuer[b].pc = "guarded" /\ issuer'[b].slot = issuer[b].slot
      BY <1>1, <1>2, <2>2
    <3>2. issuer[b].slot \in Nat /\ issuer[b].slot <= Len(log)
      BY <3>1, IssuerHolds
    <3>3. QED
      BY <3>1, <3>2, LenProperties DEF TypeOK
  <2>3. QED
    BY <2>1, <2>2
<1>3. QED
  BY <1>1, <1>2 DEF TypeOK

\* An admin's step that leaves the table alone.
LEMMA IssuerGoesOn ==
  ASSUME TypeOK, NEW a \in Ceremony, NEW st \in Issuer, issuer' = [issuer EXCEPT ![a] = st],
         st.pc # "guarded", sink' \in ChainHead, confirmed' \in ChainHead,
         UNCHANGED <<log, restores, reader>>
  PROVE  TypeOK'
<1>1. log' \in Seq(Record \cup {NoRow}) /\ Len(log') <= MaxRows /\ Len(log') >= Len(log)
  BY LenProperties DEF TypeOK
<1>2. QED
  BY <1>1, IssuerStepTyped

\* A client's step.
LEMMA ReaderStepTyped ==
  ASSUME TypeOK, NEW c \in Client, NEW st \in Reader, reader' = [reader EXCEPT ![c] = st],
         UNCHANGED <<log, restores, issuer, sink, confirmed>>
  PROVE  TypeOK'
BY ReaderGoes DEF TypeOK

\* Every step keeps the state well typed.
LEMMA NextTypeOK == TypeOK /\ [Next]_vars => TypeOK'
<1> SUFFICES ASSUME TypeOK, [Next]_vars PROVE TypeOK'
  OBVIOUS
<1>0. log \in Seq(Record \cup {NoRow}) /\ Len(log) \in Nat /\ Len(log) <= MaxRows
        /\ sink \in ChainHead /\ confirmed \in ChainHead
  BY LenProperties DEF TypeOK
<1>1. ASSUME NEW a \in Ceremony, Resume(a) PROVE TypeOK'
  <2>1. PICK h \in ServedHeads \cup {sink} :
          issuer' = [issuer EXCEPT ![a] = [pc |-> "ceremony", head |-> h, epochs |-> NoEpochs]]
    BY <1>1 DEF Resume
  <2>2. h \in ChainHead
    BY <1>0, ServedHeadIs
  <2>3. [pc |-> "ceremony", head |-> h, epochs |-> NoEpochs] \in Issuer
    BY <2>2, NoEpochsType, IssuerStates
  <2>4. QED
    BY <1>0, <1>1, <2>1, <2>2, <2>3, NoEpochsType, IssuerStates, IssuerGoesOn DEF Resume
<1>2. ASSUME NEW a \in Ceremony, NEW o \in Order[a], Issue(a, o) PROVE TypeOK'
  <2>1. PICK b \in Bodies(a, o) :
          IF issuer[a].head \in ServedHeads
          THEN issuer' = [issuer EXCEPT ![a] =
                 [pc |-> "checked", rec |-> [prev |-> issuer[a].head, body |-> b],
                  epochs |-> IF o.kind = "compromise" THEN issuer[a].epochs
                             ELSE [issuer[a].epochs EXCEPT ![<<o.kind, o.scope>>] = b.epoch]]]
          ELSE GiveUp(a)
    BY <1>2 DEF Issue
  <2> DEFINE e == IF o.kind = "compromise" THEN issuer[a].epochs
                  ELSE [issuer[a].epochs EXCEPT ![<<o.kind, o.scope>>] = b.epoch]
             r == [prev |-> issuer[a].head, body |-> b]
  <2>2. issuer[a].head \in ChainHead /\ issuer[a].epochs \in Epochs
    BY <1>2, IssuerHolds DEF Issue
  <2>3. b \in Body
    BY <2>2, BodiesType
  <2>4. r \in Record
    BY <2>2, <2>3 DEF Record
  <2>5. e \in Epochs
    <3>1. CASE o.kind = "compromise"
      BY <2>2, <3>1
    <3>2. CASE o.kind # "compromise"
      <4>1. b.epoch \in Nat
        BY <2>2, <3>2, BodiesType
      <4>2. [issuer[a].epochs EXCEPT ![<<o.kind, o.scope>>] = b.epoch] \in Epochs
        BY <2>2, <4>1 DEF Epochs
      <4>3. QED
        BY <3>2, <4>2
    <3>3. QED
      BY <3>1, <3>2
  <2>6. [pc |-> "checked", rec |-> r, epochs |-> e] \in Issuer
    <3> HIDE DEF r, e
    <3>1. QED
      BY <2>4, <2>5, IssuerStates
  <2>7. UNCHANGED <<log, restores, sink, reader, confirmed>>
    BY <1>2 DEF Issue
  <2>8. CASE issuer[a].head \in ServedHeads
    <3>1. issuer' = [issuer EXCEPT ![a] = [pc |-> "checked", rec |-> r, epochs |-> e]]
      BY <2>1, <2>8
    <3> HIDE DEF r, e
    <3>2. [pc |-> "checked", rec |-> r, epochs |-> e].pc # "guarded"
      OBVIOUS
    <3>3. QED
      BY <1>0, <2>6, <2>7, <3>1, <3>2, IssuerGoesOn
  <2>9. CASE issuer[a].head \notin ServedHeads
    BY <1>0, <2>1, <2>7, <2>9, IssuerStates, IssuerGoesOn DEF GiveUp
  <2>10. QED
    BY <2>8, <2>9
<1>3. ASSUME NEW a \in Ceremony, InsertGuard(a) PROVE TypeOK'
  <2>1. issuer[a].rec \in Record /\ issuer[a].epochs \in Epochs
    BY <1>3, IssuerHolds DEF InsertGuard
  <2>2. CASE issuer[a].rec.prev \in ServedHeads
    <3>1. log' = Append(log, NoRow) /\ Len(log) < MaxRows
            /\ issuer' = [issuer EXCEPT ![a] =
                 [pc |-> "guarded", rec |-> issuer[a].rec,
                  epochs |-> issuer[a].epochs, slot |-> Len(log) + 1]]
      BY <1>3, <2>2 DEF InsertGuard
    <3>2. log' \in Seq(Record \cup {NoRow}) /\ Len(log') = Len(log) + 1
      BY <1>0, <3>1
    <3>3. Len(log) + 1 \in 1..MaxRows
      BY <1>0, <3>1
    <3>4. [pc |-> "guarded", rec |-> issuer[a].rec, epochs |-> issuer[a].epochs,
           slot |-> Len(log) + 1] \in Issuer
      BY <2>1, <3>3, IssuerStates
    <3>5. UNCHANGED <<restores, sink, reader, confirmed>>
      BY <1>3 DEF InsertGuard
    <3>6. Len(log') <= MaxRows /\ Len(log') >= Len(log)
      BY <1>0, <3>1, <3>2
    <3>7. [pc |-> "guarded", rec |-> issuer[a].rec, epochs |-> issuer[a].epochs,
           slot |-> Len(log) + 1].slot <= Len(log')
      BY <1>0, <3>2
    <3>8. QED
      BY <1>0, <3>1, <3>2, <3>4, <3>5, <3>6, <3>7, IssuerStepTyped
  <2>3. CASE issuer[a].rec.prev \notin ServedHeads
    BY <1>0, <1>3, <2>3, IssuerStates, IssuerGoesOn DEF InsertGuard, GiveUp
  <2>4. QED
    BY <2>2, <2>3
<1>4. ASSUME NEW a \in Ceremony, Commit(a) PROVE TypeOK'
  <2>1. issuer[a].rec \in Record /\ issuer[a].epochs \in Epochs
          /\ issuer[a].slot \in 1..MaxRows /\ issuer[a].slot <= Len(log)
    BY <1>4, IssuerHolds DEF Commit
  <2>2. CASE Duplicate(issuer[a].rec)
    BY <1>0, <1>4, <2>2, IssuerStates, IssuerGoesOn DEF Commit, GiveUp
  <2>3. CASE ~Duplicate(issuer[a].rec)
    <3>1. log' = [log EXCEPT ![issuer[a].slot] = issuer[a].rec] /\ Goto(a, "committed")
            /\ UNCHANGED <<restores, sink, reader, confirmed>>
      BY <1>4, <2>3 DEF Commit
    <3>2. log' \in Seq(Record \cup {NoRow}) /\ Len(log') = Len(log)
      BY <1>0, <2>1, <3>1, ExceptSeq
    <3>3. issuer' = [issuer EXCEPT ![a] =
            [pc |-> "committed", rec |-> issuer[a].rec, epochs |-> issuer[a].epochs]]
      BY <3>1 DEF Goto
    <3>4. /\ [pc |-> "committed", rec |-> issuer[a].rec, epochs |-> issuer[a].epochs] \in Issuer
          /\ [pc |-> "committed", rec |-> issuer[a].rec, epochs |-> issuer[a].epochs].pc # "guarded"
      BY <2>1, IssuerStates
    <3>5. Len(log') <= MaxRows /\ Len(log') >= Len(log)
      BY <1>0, <3>2
    <3>6. QED
      BY <1>0, <3>1, <3>2, <3>3, <3>4, <3>5, IssuerStepTyped
  <2>4. QED
    BY <2>2, <2>3
<1>5. ASSUME NEW a \in Ceremony, Publish(a) \/ LosePublication(a) PROVE TypeOK'
  <2>1. issuer[a].rec \in Record /\ issuer[a].epochs \in Epochs
    BY <1>5, IssuerHolds DEF Publish, LosePublication
  <2>2. sink' \in ChainHead
    BY <1>0, <1>5, <2>1, HeadOfType DEF Publish, LosePublication
  <2>3. Goto(a, "confirming") /\ UNCHANGED <<log, restores, reader, confirmed>>
    BY <1>5 DEF Publish, LosePublication
  <2>4. issuer' = [issuer EXCEPT ![a] =
          [pc |-> "confirming", rec |-> issuer[a].rec, epochs |-> issuer[a].epochs]]
    BY <2>3 DEF Goto
  <2>5. /\ [pc |-> "confirming", rec |-> issuer[a].rec, epochs |-> issuer[a].epochs] \in Issuer
        /\ [pc |-> "confirming", rec |-> issuer[a].rec, epochs |-> issuer[a].epochs].pc # "guarded"
    BY <2>1, IssuerStates
  <2>6. QED
    BY <1>0, <2>2, <2>3, <2>4, <2>5, IssuerGoesOn
<1>6. ASSUME NEW a \in Ceremony, Confirm(a) PROVE TypeOK'
  <2>1. issuer[a].rec \in Record /\ issuer[a].epochs \in Epochs
    BY <1>6, IssuerHolds DEF Confirm
  <2>2. HeadOf(issuer[a].rec) \in ChainHead
    BY <2>1, HeadOfType
  <2>3. CASE sink = HeadOf(issuer[a].rec)
    BY <1>0, <1>6, <2>1, <2>2, <2>3, IssuerStates, IssuerGoesOn DEF Confirm
  <2>4. CASE sink # HeadOf(issuer[a].rec)
    BY <1>0, <1>6, <2>4, IssuerStates, IssuerGoesOn DEF Confirm, GiveUp
  <2>5. QED
    BY <2>3, <2>4
<1>7. ASSUME NEW c \in Client, FetchAnchor(c) PROVE TypeOK'
  BY <1>0, <1>7, ReaderStates, ReaderStepTyped DEF FetchAnchor
<1>8. ASSUME NEW c \in Client, FetchRecords(c) PROVE TypeOK'
  <2>1. reader[c].anchor \in ChainHead \cup {Unpinned} /\ reader[c].must \in ChainHead
    BY <1>8, ReaderHolds DEF FetchRecords
  <2>2. UNCHANGED <<log, restores, issuer, sink, confirmed>>
    BY <1>8 DEF FetchRecords
  <2>3. CASE \E h \in ServedHeads :
              reader' = [reader EXCEPT ![c] =
                [pc |-> "verified", anchor |-> reader[c].anchor, must |-> reader[c].must,
                 seen |-> h, wrapped |-> {}]]
    BY <2>1, <2>2, <2>3, ServedHeadIs, ReaderStates, ReaderStepTyped
  <2>4. CASE reader' = [reader EXCEPT ![c] = Idle]
    BY <2>2, <2>4, ReaderStates, ReaderStepTyped
  <2>5. QED
    BY <1>8, <2>3, <2>4 DEF FetchRecords
<1>9. ASSUME NEW c \in Client, NEW u \in Recipient, NEW f \in File, Wrap(c, u, f) PROVE TypeOK'
  <2>1. /\ reader[c].anchor \in ChainHead \cup {Unpinned} /\ reader[c].must \in ChainHead
        /\ reader[c].seen \in ChainHead /\ reader[c].wrapped \in SUBSET (Recipient \X File)
    BY <1>9, ReaderHolds DEF Wrap
  <2>2. reader[c].wrapped \cup {<<u, f>>} \in SUBSET (Recipient \X File)
    BY <2>1
  <2>3. QED
    BY <1>9, <2>1, <2>2, ReaderStates, ReaderStepTyped DEF Wrap
<1>10. ASSUME NEW c \in Client, EndBatch(c) PROVE TypeOK'
  BY <1>10, ReaderStates, ReaderStepTyped DEF EndBatch
<1>11. ASSUME Restore PROVE TypeOK'
  <2>1. PICK n \in 0..Len(log) : log' = SubSeq(log, 1, n)
    BY <1>11 DEF Restore
  <2>2. log' \in Seq(Record \cup {NoRow}) /\ Len(log') = n
    BY <1>0, <2>1
  <2>3. Len(log') <= MaxRows
    BY <1>0, <2>1, <2>2
  <2>4. issuer' \in [Ceremony -> Issuer] /\ \A a \in Ceremony : issuer'[a].pc # "guarded"
    BY <1>11, IssuerStates DEF Restore, Stopped, Away
  <2>5. restores' \in 0..MaxRestores
    BY <1>11 DEF Restore, TypeOK
  <2>6. QED
    BY <1>11, <2>2, <2>3, <2>4, <2>5 DEF Restore, TypeOK
<1>12. CASE UNCHANGED vars
  BY <1>12 DEF vars, TypeOK
<1>13. QED
  BY <1>1, <1>2, <1>3, <1>4, <1>5, <1>6, <1>7, <1>8, <1>9, <1>10, <1>11, <1>12
    DEF Next, CeremonyStep, ClientStep

\* The state is always well typed.
THEOREM TypeCorrect == Spec => []TypeOK
BY InitTypeOK, NextTypeOK, PTL DEF Spec

-----------------------------------------------------------------------------
(* The inductive invariant. *)

SameEpoch(b, c) ==
  b.kind = c.kind /\ b.kind # "compromise" /\ b.scope = c.scope /\ b.epoch = c.epoch

\* An epoch names one record of its family and scope.
Unique(h) == \A i, j \in 1..Len(h) : i < j => ~SameEpoch(h[i], h[j])

\* A reinstatement names a revocation before it.
Justified(h) ==
  \A j \in 1..Len(h) : h[j].kind = "reinstate" =>
    \E k \in 1..j-1 :
      /\ h[k].kind = "revoke" /\ h[k].user = h[j].user
      /\ h[k].scope = h[j].scope /\ h[k].epoch = h[j].supersedes

Sound(h) == Unique(h) /\ Justified(h)

\* Every body of h is that of a row of table l below slot s.
CoveredBy(l, h, s) ==
  \A p \in 1..Len(h) : \E k \in 1..s-1 :
    k <= Len(l) /\ l[k] # NoRow /\ l[k].body = h[p]

RowsInv(l) ==
  \A i \in 1..Len(l) : l[i] # NoRow =>
    Sound(HeadOf(l[i])) /\ CoveredBy(l, l[i].prev, i)

\* The record p carries will leave the table and the sink sound.
IssuerInv(l, p) ==
  /\ p.pc \in {"checked", "guarded"} => Justified(HeadOf(p.rec))
  /\ p.pc = "guarded" =>
       /\ Unique(p.rec.prev) /\ CoveredBy(l, p.rec.prev, p.slot)
       /\ l[p.slot] = NoRow
  /\ p.pc = "committed" => Sound(HeadOf(p.rec))

\* Each statement under way has its own chain_seq.
SlotsApart ==
  \A a, b \in Ceremony :
    issuer[a].pc = "guarded" /\ issuer[b].pc = "guarded" /\ a # b
      => issuer[a].slot # issuer[b].slot

LogInv == RowsInv(log) /\ (\A a \in Ceremony : IssuerInv(log, issuer[a])) /\ SlotsApart

SinkInv == Sound(sink) /\ Prefix(confirmed, sink)

\* An anchored client's head, and what it does with it.
ReaderInv ==
  \A c \in Client :
    LET q == reader[c]
    IN  /\ q.pc # "idle" /\ q.anchor # Unpinned =>
             Sound(q.anchor) /\ Prefix(q.must, q.anchor) /\ Prefix(q.anchor, sink)
        /\ q.pc = "verified" =>
             /\ q.anchor # Unpinned => q.seen = q.anchor
             /\ Authentic(q.seen)
             /\ \A w \in q.wrapped : ~IsRevoked(q.seen, w[1], w[2])

IInv == TypeOK /\ LogInv /\ SinkInv /\ ReaderInv

-----------------------------------------------------------------------------
(* Heads. *)

\* A sound head followed by a body with a new epoch is sound, if a
\* reinstatement names a revocation before it.
LEMMA SoundExtends ==
  ASSUME NEW r \in Record, Unique(r.prev), Justified(HeadOf(r)),
         \A p \in 1..Len(r.prev) : ~SameEpoch(r.prev[p], r.body)
  PROVE  Sound(HeadOf(r))
<1> DEFINE h == HeadOf(r)
           n == Len(r.prev)
<1>1. n \in Nat /\ Len(h) = n + 1
        /\ (\A i \in 1..n : h[i] = r.prev[i]) /\ h[n + 1] = r.body
  BY HeadOfType, LenProperties DEF ChainHead
<1>2. ASSUME NEW i \in 1..Len(h), NEW j \in 1..Len(h), i < j
      PROVE  ~SameEpoch(h[i], h[j])
  <2>1. i \in 1..n /\ h[i] = r.prev[i]
    BY <1>1, <1>2
  <2>2. CASE j = n + 1
    BY <1>1, <2>1, <2>2
  <2>3. CASE j # n + 1
    <3>1. j \in 1..n /\ h[j] = r.prev[j]
      BY <1>1, <2>3
    <3>2. QED
      BY <1>2, <2>1, <3>1 DEF Unique
  <2>4. QED
    BY <2>2, <2>3
<1>3. Unique(h)
  BY <1>2 DEF Unique
<1>4. QED
  BY <1>3 DEF Sound

\* What a ceremony issues on a head whose reinstatements are justified is so too.
LEMMA IssueJustified ==
  ASSUME NEW a \in Ceremony, NEW o \in Order[a], NEW b \in Bodies(a, o), NEW r \in Record,
         r.prev = issuer[a].head, r.body = b, Justified(issuer[a].head),
         issuer[a].epochs \in Epochs
  PROVE  Justified(HeadOf(r))
<1> DEFINE h == HeadOf(r)
           n == Len(r.prev)
<1>1. n \in Nat /\ Len(h) = n + 1
        /\ (\A i \in 1..n : h[i] = r.prev[i]) /\ h[n + 1] = b
  BY HeadOfType, LenProperties DEF ChainHead
<1> SUFFICES ASSUME NEW j \in 1..Len(h), h[j].kind = "reinstate"
             PROVE  \E k \in 1..j-1 :
                      /\ h[k].kind = "revoke" /\ h[k].user = h[j].user
                      /\ h[k].scope = h[j].scope /\ h[k].epoch = h[j].supersedes
  BY DEF Justified
<1>2. CASE j = n + 1
  <2>0. h[j] = b /\ issuer[a].head \in ChainHead
    BY <1>1, <1>2, HeadOfType
  <2>1. o.kind = "reinstate"
    BY <2>0, BodiesType
  <2>2. PICK i \in 1..n :
          /\ r.prev[i].kind = "revoke" /\ r.prev[i].user = o.user
          /\ r.prev[i].scope = o.scope
          /\ b.user = o.user /\ b.scope = o.scope /\ b.supersedes = r.prev[i].epoch
    BY <2>1 DEF Bodies
  <2>3. i \in 1..j-1 /\ h[i] = r.prev[i]
    BY <1>1, <1>2
  <2>4. QED
    BY <2>0, <2>2, <2>3
<1>3. CASE j # n + 1
  <2>1. j \in 1..n /\ h[j] = r.prev[j]
    BY <1>1, <1>3
  <2>2. PICK k \in 1..j-1 :
          /\ r.prev[k].kind = "revoke" /\ r.prev[k].user = r.prev[j].user
          /\ r.prev[k].scope = r.prev[j].scope /\ r.prev[k].epoch = r.prev[j].supersedes
    BY <2>1 DEF Justified
  <2>3. h[k] = r.prev[k]
    BY <1>1, <2>1
  <2>4. QED
    BY <2>1, <2>2, <2>3
<1>4. QED
  BY <1>2, <1>3

\* Whatever head the table serves is sound and made of the table's bodies.
LEMMA ServedHeadSound ==
  ASSUME TypeOK, RowsInv(log), NEW h \in ServedHeads
  PROVE  Sound(h) /\ CoveredBy(log, h, Len(log) + 1)
<1>1. CASE h = << >>
  BY <1>1 DEF Sound, Unique, Justified, CoveredBy
<1>2. CASE \E i \in 1..Len(log) : Committed(i) /\ h = HeadOf(log[i])
  <2>1. PICK i \in 1..Len(log) : Committed(i) /\ h = HeadOf(log[i])
    BY <1>2
  <2> DEFINE n == Len(log[i].prev)
  <2>2. log[i] \in Record /\ log[i] # NoRow
    BY <2>1, CommittedType
  <2>3. Sound(h) /\ CoveredBy(log, log[i].prev, i)
    BY <2>1, <2>2 DEF RowsInv
  <2>4. n \in Nat /\ Len(h) = n + 1
          /\ (\A p \in 1..n : h[p] = log[i].prev[p]) /\ h[n + 1] = log[i].body
    BY <2>1, <2>2, HeadOfType, LenProperties DEF ChainHead
  <2>5. Len(log) \in Nat
    BY LenProperties DEF TypeOK
  <2>6. ASSUME NEW p \in 1..Len(h)
        PROVE  \E k \in 1..(Len(log) + 1) - 1 :
                 k <= Len(log) /\ log[k] # NoRow /\ log[k].body = h[p]
    <3>1. CASE p = n + 1
      BY <2>2, <2>4, <2>5, <3>1
    <3>2. CASE p # n + 1
      <4>1. p \in 1..n /\ h[p] = log[i].prev[p]
        BY <2>4, <3>2
      <4>2. PICK k \in 1..i-1 : k <= Len(log) /\ log[k] # NoRow /\ log[k].body = log[i].prev[p]
        BY <2>3, <4>1 DEF CoveredBy
      <4>3. QED
        BY <2>5, <4>1, <4>2
    <3>3. QED
      BY <3>1, <3>2
  <2>7. QED
    BY <2>3, <2>6 DEF CoveredBy
<1>3. QED
  BY <1>1, <1>2, ServedHeadIs

\* A table that keeps its rows still covers what it covered.
LEMMA CoveredStays ==
  ASSUME NEW l, NEW m, NEW h, NEW s, CoveredBy(l, h, s),
         \A k \in 1..s-1 : k <= Len(l) /\ l[k] # NoRow => k <= Len(m) /\ m[k] = l[k]
  PROVE  CoveredBy(m, h, s)
BY DEF CoveredBy

\* A reinstatement that lifts a revocation of a sound head stands after it.
LEMMA LiftsLater ==
  ASSUME NEW h \in ChainHead, Sound(h), NEW i \in 1..Len(h), NEW j \in 1..Len(h),
         h[i].kind = "revoke", Lifts(h[j], h[i])
  PROVE  i < j
<1>1. h[j].kind = "reinstate" /\ h[j].scope = h[i].scope /\ h[j].supersedes = h[i].epoch
  BY DEF Lifts
<1>2. PICK k \in 1..j-1 :
        h[k].kind = "revoke" /\ h[k].scope = h[j].scope /\ h[k].epoch = h[j].supersedes
  BY <1>1 DEF Sound, Justified
<1>3. k \in 1..Len(h) /\ k < j /\ Len(h) \in Nat
  BY <1>2, LenProperties DEF ChainHead
<1>4. SameEpoch(h[k], h[i]) /\ SameEpoch(h[i], h[k])
  BY <1>1, <1>2 DEF SameEpoch
<1>5. k = i
  BY <1>3, <1>4 DEF Sound, Unique
<1>6. QED
  BY <1>3, <1>5

-----------------------------------------------------------------------------
(* The table. *)

\* Resting states carry nothing the table depends on.
LEMMA IssuerRests ==
  ASSUME NEW l, NEW st, st.pc \in {"away", "ceremony", "confirming"}
  PROVE  IssuerInv(l, st)
BY DEF IssuerInv

\* A step that leaves the table alone, and the statements under way.
LEMMA TableUntouched ==
  ASSUME TypeOK, LogInv, NEW a \in Ceremony, NEW st \in Issuer,
         issuer' = [issuer EXCEPT ![a] = st], log' = log,
         st.pc # "guarded", IssuerInv(log, st)
  PROVE  LogInv'
<1>1. issuer' \in [Ceremony -> Issuer] /\ issuer'[a] = st
        /\ \A b \in Ceremony \ {a} : issuer'[b] = issuer[b]
  BY IssuerGoes
<1>2. RowsInv(log')
  BY DEF LogInv
<1>3. \A b \in Ceremony : IssuerInv(log', issuer'[b])
  BY <1>1 DEF LogInv
<1>4. SlotsApart'
  BY <1>1 DEF LogInv, SlotsApart
<1>5. QED
  BY <1>2, <1>3, <1>4 DEF LogInv

\* A record that passes the trigger gets a slot of its own, and extends a
\* sound head of committed bodies.
LEMMA GuardKeepsTable ==
  ASSUME TypeOK, LogInv, NEW a \in Ceremony, InsertGuard(a)
  PROVE  LogInv'
<1>1. issuer[a].rec \in Record /\ issuer[a].epochs \in Epochs /\ issuer[a].pc = "checked"
        /\ Len(log) \in Nat /\ log \in Seq(Record \cup {NoRow})
  BY IssuerHolds, LenProperties DEF InsertGuard, TypeOK
<1>2. CASE issuer[a].rec.prev \notin ServedHeads
  BY <1>2, IssuerStates, IssuerRests, TableUntouched DEF InsertGuard, GiveUp, Away
<1>3. CASE issuer[a].rec.prev \in ServedHeads
  <2> DEFINE st == [pc |-> "guarded", rec |-> issuer[a].rec,
                    epochs |-> issuer[a].epochs, slot |-> Len(log) + 1]
  <2>1. log' = Append(log, NoRow) /\ Len(log) < MaxRows /\ issuer' = [issuer EXCEPT ![a] = st]
    BY <1>3 DEF InsertGuard
  <2>2. Len(log') = Len(log) + 1 /\ log'[Len(log) + 1] = NoRow
          /\ \A i \in 1..Len(log) : log'[i] = log[i]
    BY <1>1, <2>1
  <2>3. Len(log) + 1 \in 1..MaxRows
    BY <1>1, <2>1
  <2>4. st \in Issuer
    BY <1>1, <2>3, IssuerStates
  <2>5. st.pc = "guarded" /\ st.rec = issuer[a].rec /\ st.slot = Len(log) + 1
    OBVIOUS
  <2> HIDE DEF st
  <2>6. issuer'[a] = st /\ \A b \in Ceremony \ {a} : issuer'[b] = issuer[b]
    BY <2>1, <2>4, IssuerGoes
  <2>7. Sound(issuer[a].rec.prev) /\ CoveredBy(log, issuer[a].rec.prev, Len(log) + 1)
    BY <1>3, ServedHeadSound DEF LogInv
  <2>8. RowsInv(log')
    <3> SUFFICES ASSUME NEW i \in 1..Len(log'), log'[i] # NoRow
                 PROVE  Sound(HeadOf(log'[i])) /\ CoveredBy(log', log'[i].prev, i)
      BY DEF RowsInv
    <3>1. i \in 1..Len(log) /\ log'[i] = log[i]
      BY <1>1, <2>2
    <3>2. Sound(HeadOf(log[i])) /\ CoveredBy(log, log[i].prev, i)
      BY <3>1 DEF LogInv, RowsInv
    <3>3. \A k \in 1..i-1 : k <= Len(log) /\ log[k] # NoRow => k <= Len(log') /\ log'[k] = log[k]
      BY <1>1, <2>2, <3>1
    <3>4. QED
      BY <3>1, <3>2, <3>3, CoveredStays
  <2>9. ASSUME NEW b \in Ceremony PROVE IssuerInv(log', issuer'[b])
    <3>1. CASE b = a
      <4>1. \A k \in 1..(Len(log) + 1)-1 : k <= Len(log) /\ log[k] # NoRow
              => k <= Len(log') /\ log'[k] = log[k]
        BY <1>1, <2>2
      <4>2. CoveredBy(log', issuer[a].rec.prev, Len(log) + 1)
        BY <2>7, <4>1, CoveredStays
      <4>3. Justified(HeadOf(issuer[a].rec))
        BY <1>1 DEF LogInv, IssuerInv
      <4>4. QED
        BY <2>2, <2>5, <2>6, <2>7, <3>1, <4>2, <4>3 DEF IssuerInv, Sound
    <3>2. CASE b # a
      <4>1. issuer'[b] = issuer[b] /\ IssuerInv(log, issuer[b])
        BY <2>6, <3>2 DEF LogInv
      <4>2. CASE issuer[b].pc = "guarded"
        <5>1. issuer[b].slot \in 1..Len(log)
          BY <1>1, <4>2, IssuerHolds
        <5>2. \A k \in 1..issuer[b].slot-1 : k <= Len(log) /\ log[k] # NoRow
                => k <= Len(log') /\ log'[k] = log[k]
          BY <1>1, <2>2, <5>1
        <5>3. CoveredBy(log', issuer[b].rec.prev, issuer[b].slot)
          BY <4>1, <4>2, <5>2, CoveredStays DEF IssuerInv
        <5>4. log'[issuer[b].slot] = NoRow
          BY <2>2, <4>1, <4>2, <5>1 DEF IssuerInv
        <5>5. QED
          BY <4>1, <4>2, <5>3, <5>4 DEF IssuerInv
      <4>3. CASE issuer[b].pc # "guarded"
        BY <4>1, <4>3 DEF IssuerInv
      <4>4. QED
        BY <4>2, <4>3
    <3>3. QED
      BY <3>1, <3>2
  <2>10. SlotsApart'
    <3>1. \A b \in Ceremony : issuer[b].pc = "guarded" => issuer[b].slot \in 1..Len(log)
      BY <1>1, IssuerHolds
    <3>2. \A b \in Ceremony \ {a} : issuer[b].pc = "guarded" => issuer[b].slot # Len(log) + 1
      BY <1>1, <3>1
    <3>3. QED
      BY <2>5, <2>6, <3>2 DEF LogInv, SlotsApart
  <2>11. QED
    BY <2>8, <2>9, <2>10 DEF LogInv
<1>4. QED
  BY <1>2, <1>3

\* The row that commits has an epoch no committed row has, so its head is sound.
LEMMA CommitKeepsTable ==
  ASSUME TypeOK, LogInv, NEW a \in Ceremony, Commit(a)
  PROVE  LogInv'
<1> DEFINE rec == issuer[a].rec
           slot == issuer[a].slot
<1>1. rec \in Record /\ issuer[a].epochs \in Epochs /\ issuer[a].pc = "guarded"
        /\ slot \in 1..Len(log) /\ Len(log) \in Nat /\ log \in Seq(Record \cup {NoRow})
  BY IssuerHolds, LenProperties DEF Commit, TypeOK
<1>2. CASE Duplicate(rec)
  BY <1>2, IssuerStates, IssuerRests, TableUntouched DEF Commit, GiveUp, Away
<1>3. CASE ~Duplicate(rec)
  <2> DEFINE st == [pc |-> "committed", rec |-> issuer[a].rec, epochs |-> issuer[a].epochs]
  <2>1. log' = [log EXCEPT ![slot] = rec] /\ issuer' = [issuer EXCEPT ![a] = st]
    BY <1>3 DEF Commit, Goto
  <2>2. Len(log') = Len(log) /\ log'[slot] = rec
          /\ \A i \in 1..Len(log) : i # slot => log'[i] = log[i]
    BY <1>1, <2>1
  <2>3. st \in Issuer /\ st.pc = "committed" /\ st.rec = rec
    BY <1>1, IssuerStates
  <2> HIDE DEF st
  <2>4. issuer'[a] = st /\ \A b \in Ceremony \ {a} : issuer'[b] = issuer[b]
    BY <2>1, <2>3, IssuerGoes
  <2>5. Justified(HeadOf(rec)) /\ Unique(rec.prev) /\ CoveredBy(log, rec.prev, slot)
          /\ log[slot] = NoRow
    BY <1>1 DEF LogInv, IssuerInv
  <2>6. ASSUME NEW p \in 1..Len(rec.prev) PROVE ~SameEpoch(rec.prev[p], rec.body)
    <3>1. PICK k \in 1..slot-1 : k <= Len(log) /\ log[k] # NoRow /\ log[k].body = rec.prev[p]
      BY <2>5 DEF CoveredBy
    <3>2. k \in 1..Len(log) /\ Committed(k)
      BY <1>1, <3>1 DEF Committed
    <3>3. ~Collides(rec, log[k])
      BY <1>3, <3>2 DEF Duplicate
    <3>4. QED
      BY <3>1, <3>3 DEF Collides, SameEpoch
  <2>7. Sound(HeadOf(rec))
    BY <1>1, <2>5, <2>6, SoundExtends
  <2>8. \A s \in 1..Len(log) : \A k \in 1..s-1 :
          k <= Len(log) /\ log[k] # NoRow => k <= Len(log') /\ log'[k] = log[k]
    BY <1>1, <2>2, <2>5
  <2>9. RowsInv(log')
    <3> SUFFICES ASSUME NEW i \in 1..Len(log'), log'[i] # NoRow
                 PROVE  Sound(HeadOf(log'[i])) /\ CoveredBy(log', log'[i].prev, i)
      BY DEF RowsInv
    <3>1. CASE i = slot
      BY <1>1, <2>2, <2>5, <2>7, <2>8, <3>1, CoveredStays
    <3>2. CASE i # slot
      <4>1. i \in 1..Len(log) /\ log'[i] = log[i]
        BY <2>2, <3>2
      <4>2. Sound(HeadOf(log[i])) /\ CoveredBy(log, log[i].prev, i)
        BY <4>1 DEF LogInv, RowsInv
      <4>3. QED
        BY <2>8, <4>1, <4>2, CoveredStays
    <3>3. QED
      BY <3>1, <3>2
  <2>10. ASSUME NEW b \in Ceremony PROVE IssuerInv(log', issuer'[b])
    <3>1. CASE b = a
      BY <2>3, <2>4, <2>7, <3>1 DEF IssuerInv
    <3>2. CASE b # a
      <4>1. issuer'[b] = issuer[b] /\ IssuerInv(log, issuer[b])
        BY <2>4, <3>2 DEF LogInv
      <4>2. CASE issuer[b].pc = "guarded"
        <5>1. issuer[b].slot \in 1..Len(log) /\ issuer[b].slot # slot
          BY <1>1, <3>2, <4>2, IssuerHolds DEF LogInv, SlotsApart
        <5>2. CoveredBy(log', issuer[b].rec.prev, issuer[b].slot)
          BY <2>8, <4>1, <4>2, <5>1, CoveredStays DEF IssuerInv
        <5>3. log'[issuer[b].slot] = NoRow
          BY <2>2, <4>1, <4>2, <5>1 DEF IssuerInv
        <5>4. QED
          BY <4>1, <4>2, <5>2, <5>3 DEF IssuerInv
      <4>3. CASE issuer[b].pc # "guarded"
        BY <4>1, <4>3 DEF IssuerInv
      <4>4. QED
        BY <4>2, <4>3
    <3>3. QED
      BY <3>1, <3>2
  <2>11. SlotsApart'
    BY <2>3, <2>4 DEF LogInv, SlotsApart
  <2>12. QED
    BY <2>9, <2>10, <2>11 DEF LogInv
<1>4. QED
  BY <1>2, <1>3

\* A restored table is an earlier stretch of rows, which covers itself.
LEMMA RestoreKeepsTable ==
  ASSUME TypeOK, LogInv, Restore
  PROVE  LogInv'
<1>1. PICK n \in 0..Len(log) : log' = SubSeq(log, 1, n)
  BY DEF Restore
<1>2. log \in Seq(Record \cup {NoRow}) /\ Len(log) \in Nat
  BY LenProperties DEF TypeOK
<1>3. Len(log') = n /\ \A i \in 1..n : log'[i] = log[i]
  BY <1>1, <1>2
<1>4. RowsInv(log')
  <2> SUFFICES ASSUME NEW i \in 1..Len(log'), log'[i] # NoRow
               PROVE  Sound(HeadOf(log'[i])) /\ CoveredBy(log', log'[i].prev, i)
    BY DEF RowsInv
  <2>1. i \in 1..Len(log) /\ log'[i] = log[i]
    BY <1>2, <1>3
  <2>2. Sound(HeadOf(log[i])) /\ CoveredBy(log, log[i].prev, i)
    BY <2>1 DEF LogInv, RowsInv
  <2>3. \A k \in 1..i-1 : k <= Len(log) /\ log[k] # NoRow => k <= Len(log') /\ log'[k] = log[k]
    BY <1>2, <1>3, <2>1
  <2>4. QED
    BY <2>1, <2>2, <2>3, CoveredStays
<1>5. \A a \in Ceremony : issuer'[a] = Away
  BY DEF Restore, Stopped
<1>6. Away.pc = "away"
  BY DEF Away
<1>7. QED
  BY <1>4, <1>5, <1>6, IssuerRests DEF LogInv, SlotsApart

\* Every step keeps the table sound.
LEMMA NextLogInv == TypeOK /\ LogInv /\ [Next]_vars => LogInv'
<1> SUFFICES ASSUME TypeOK, LogInv, [Next]_vars PROVE LogInv'
  OBVIOUS
<1>1. ASSUME NEW a \in Ceremony, Resume(a) PROVE LogInv'
  <2>1. PICK h \in ServedHeads \cup {sink} :
          issuer' = [issuer EXCEPT ![a] = [pc |-> "ceremony", head |-> h, epochs |-> NoEpochs]]
    BY <1>1 DEF Resume
  <2>2. h \in ChainHead
    BY ServedHeadIs DEF TypeOK
  <2>3. [pc |-> "ceremony", head |-> h, epochs |-> NoEpochs] \in Issuer
    BY <2>2, NoEpochsType, IssuerStates
  <2>4. [pc |-> "ceremony", head |-> h, epochs |-> NoEpochs].pc = "ceremony"
    OBVIOUS
  <2>5. IssuerInv(log, [pc |-> "ceremony", head |-> h, epochs |-> NoEpochs])
    BY <2>4, IssuerRests
  <2>6. log' = log
    BY <1>1 DEF Resume
  <2>7. QED
    BY <2>1, <2>3, <2>4, <2>5, <2>6, TableUntouched
<1>2. ASSUME NEW a \in Ceremony, NEW o \in Order[a], Issue(a, o) PROVE LogInv'
  <2>1. PICK b \in Bodies(a, o) :
          IF issuer[a].head \in ServedHeads
          THEN issuer' = [issuer EXCEPT ![a] =
                 [pc |-> "checked", rec |-> [prev |-> issuer[a].head, body |-> b],
                  epochs |-> IF o.kind = "compromise" THEN issuer[a].epochs
                             ELSE [issuer[a].epochs EXCEPT ![<<o.kind, o.scope>>] = b.epoch]]]
          ELSE GiveUp(a)
    BY <1>2 DEF Issue
  <2> DEFINE e == IF o.kind = "compromise" THEN issuer[a].epochs
                  ELSE [issuer[a].epochs EXCEPT ![<<o.kind, o.scope>>] = b.epoch]
             r == [prev |-> issuer[a].head, body |-> b]
             st == [pc |-> "checked", rec |-> r, epochs |-> e]
  <2>2. issuer[a].head \in ChainHead /\ issuer[a].epochs \in Epochs /\ log' = log
    BY <1>2, IssuerHolds DEF Issue
  <2>3. CASE issuer[a].head \in ServedHeads
    <3>1. b \in Body
      BY <2>2, BodiesType
    <3>2. r \in Record /\ r.prev = issuer[a].head /\ r.body = b
      BY <2>2, <3>1 DEF Record
    <3>3. e \in Epochs
      <4>1. CASE o.kind = "compromise"
        BY <2>2, <4>1
      <4>2. CASE o.kind # "compromise"
        <5>1. b.epoch \in Nat
          BY <2>2, <4>2, BodiesType
        <5>2. [issuer[a].epochs EXCEPT ![<<o.kind, o.scope>>] = b.epoch] \in Epochs
          BY <2>2, <5>1 DEF Epochs
        <5>3. QED
          BY <4>2, <5>2
      <4>3. QED
        BY <4>1, <4>2
    <3>4. issuer' = [issuer EXCEPT ![a] = st]
      BY <2>1, <2>3
    <3> HIDE DEF r, e
    <3>5. st \in Issuer /\ st.pc = "checked" /\ st.rec = r
      BY <3>2, <3>3, IssuerStates
    <3> HIDE DEF st
    <3>6. Justified(issuer[a].head)
      BY <2>3, ServedHeadSound DEF LogInv, Sound
    <3>7. Justified(HeadOf(r))
      BY <2>2, <3>2, <3>6, IssueJustified
    <3>8. IssuerInv(log, st)
      BY <3>5, <3>7 DEF IssuerInv
    <3>9. QED
      BY <2>2, <3>4, <3>5, <3>8, TableUntouched
  <2>4. CASE issuer[a].head \notin ServedHeads
    BY <2>1, <2>2, <2>4, IssuerStates, IssuerRests, TableUntouched DEF GiveUp, Away
  <2>5. QED
    BY <2>3, <2>4
<1>3. ASSUME NEW a \in Ceremony, Publish(a) \/ LosePublication(a) PROVE LogInv'
  <2> DEFINE st == [pc |-> "confirming", rec |-> issuer[a].rec, epochs |-> issuer[a].epochs]
  <2>1. issuer[a].rec \in Record /\ issuer[a].epochs \in Epochs
    BY <1>3, IssuerHolds DEF Publish, LosePublication
  <2>2. issuer' = [issuer EXCEPT ![a] = st] /\ log' = log
    BY <1>3 DEF Publish, LosePublication, Goto
  <2>3. st \in Issuer /\ st.pc = "confirming"
    BY <2>1, IssuerStates
  <2> HIDE DEF st
  <2>4. IssuerInv(log, st) /\ st.pc # "guarded"
    BY <2>3, IssuerRests
  <2>5. QED
    BY <2>2, <2>3, <2>4, TableUntouched
<1>4. ASSUME NEW a \in Ceremony, Confirm(a) PROVE LogInv'
  <2>1. issuer[a].rec \in Record /\ issuer[a].epochs \in Epochs /\ log' = log
    BY <1>4, IssuerHolds DEF Confirm
  <2>2. CASE sink = HeadOf(issuer[a].rec)
    <3> DEFINE st == [pc |-> "ceremony", head |-> HeadOf(issuer[a].rec), epochs |-> issuer[a].epochs]
    <3>1. st \in Issuer /\ st.pc = "ceremony"
      BY <2>1, HeadOfType, IssuerStates
    <3>2. issuer' = [issuer EXCEPT ![a] = st]
      BY <1>4, <2>2 DEF Confirm
    <3> HIDE DEF st
    <3>3. IssuerInv(log, st) /\ st.pc # "guarded"
      BY <3>1, IssuerRests
    <3>4. QED
      BY <2>1, <3>1, <3>2, <3>3, TableUntouched
  <2>3. CASE sink # HeadOf(issuer[a].rec)
    BY <1>4, <2>1, <2>3, IssuerStates, IssuerRests, TableUntouched DEF Confirm, GiveUp, Away
  <2>4. QED
    BY <2>2, <2>3
<1>5. ASSUME UNCHANGED <<log, issuer>> PROVE LogInv'
  BY <1>5 DEF LogInv, SlotsApart
<1>6. ASSUME NEW c \in Client, ClientStep(c) PROVE LogInv'
  BY <1>5, <1>6 DEF ClientStep, FetchAnchor, FetchRecords, Wrap, EndBatch
<1>7. CASE UNCHANGED vars
  BY <1>5, <1>7 DEF vars
<1>8. QED
  BY <1>1, <1>2, <1>3, <1>4, <1>6, <1>7, GuardKeepsTable, CommitKeepsTable, RestoreKeepsTable
    DEF Next, CeremonyStep

-----------------------------------------------------------------------------
(* The sink. *)

\* Prefixes of chain heads.
LEMMA PrefixReflexive == \A h \in ChainHead : Prefix(h, h)
BY LenProperties DEF Prefix, ChainHead

LEMMA PrefixTransitive ==
  ASSUME NEW f \in ChainHead, NEW g \in ChainHead, NEW h \in ChainHead,
         Prefix(f, g), Prefix(g, h)
  PROVE  Prefix(f, h)
BY LenProperties DEF Prefix, ChainHead

LEMMA PrefixOfExtension ==
  ASSUME NEW r \in Record
  PROVE  Prefix(r.prev, HeadOf(r))
BY HeadOfType, LenProperties DEF Prefix, ChainHead

\* The sink only ever extends its chain, whoever publishes and in whatever
\* order (chain.rs: no rewrite, no reorder, no fork).
LEMMA SinkExtends == TypeOK /\ [Next]_vars => Prefix(sink, sink')
<1> SUFFICES ASSUME TypeOK, [Next]_vars PROVE Prefix(sink, sink')
  OBVIOUS
<1>1. sink \in ChainHead /\ Prefix(sink, sink)
  BY PrefixReflexive DEF TypeOK
<1>2. ASSUME NEW a \in Ceremony, Publish(a) PROVE Prefix(sink, sink')
  <2>1. issuer[a].rec \in Record
    BY <1>2, IssuerHolds DEF Publish
  <2>2. CASE issuer[a].rec.prev = sink
    BY <1>2, <2>1, <2>2, PrefixOfExtension DEF Publish, ExtendsSink
  <2>3. CASE issuer[a].rec.prev # sink
    BY <1>1, <1>2, <2>3 DEF Publish, ExtendsSink
  <2>4. QED
    BY <2>2, <2>3
<1>3. CASE sink' = sink
  BY <1>1, <1>3
<1>4. QED
  BY <1>2, <1>3 DEF Next, CeremonyStep, ClientStep, Resume, Issue, InsertGuard, Commit,
    LosePublication, Confirm, FetchAnchor, FetchRecords, Wrap, EndBatch, Restore, vars

\* The sink's chain stays sound, and what was confirmed stays in it.
LEMMA NextSinkInv == TypeOK /\ LogInv /\ SinkInv /\ [Next]_vars => SinkInv'
<1> SUFFICES ASSUME TypeOK, LogInv, SinkInv, [Next]_vars PROVE SinkInv'
  OBVIOUS
<1>1. TypeOK' /\ Prefix(sink, sink')
  BY NextTypeOK, SinkExtends
<1>2. sink \in ChainHead /\ confirmed \in ChainHead /\ sink' \in ChainHead
  BY <1>1 DEF TypeOK
<1>3. Prefix(confirmed, sink')
  BY <1>1, <1>2, PrefixTransitive DEF SinkInv
<1>4. ASSUME NEW a \in Ceremony, Publish(a) PROVE SinkInv'
  <2>1. Sound(HeadOf(issuer[a].rec)) /\ confirmed' = confirmed
    BY <1>4 DEF Publish, LogInv, IssuerInv
  <2>2. sink' = sink \/ sink' = HeadOf(issuer[a].rec)
    BY <1>4 DEF Publish
  <2>3. QED
    BY <1>3, <2>1, <2>2 DEF SinkInv
<1>5. ASSUME NEW a \in Ceremony, Confirm(a) PROVE SinkInv'
  <2>1. sink' = sink /\ (confirmed' = confirmed \/ confirmed' = sink)
    BY <1>5 DEF Confirm
  <2>2. Prefix(confirmed', sink')
    BY <1>2, <1>3, <2>1, PrefixReflexive
  <2>3. QED
    BY <2>1, <2>2 DEF SinkInv
<1>6. CASE UNCHANGED <<sink, confirmed>>
  BY <1>6 DEF SinkInv
<1>7. QED
  BY <1>4, <1>5, <1>6 DEF Next, CeremonyStep, ClientStep, Resume, Issue, InsertGuard, Commit,
    LosePublication, FetchAnchor, FetchRecords, Wrap, EndBatch, Restore, vars

-----------------------------------------------------------------------------
(* The clients. *)

\* What ReaderInv says of one client's state q, with the sink at head h.
Accepts(q, h) ==
  /\ q.pc # "idle" /\ q.anchor # Unpinned =>
       Sound(q.anchor) /\ Prefix(q.must, q.anchor) /\ Prefix(q.anchor, h)
  /\ q.pc = "verified" =>
       /\ q.anchor # Unpinned => q.seen = q.anchor
       /\ Authentic(q.seen)
       /\ \A w \in q.wrapped : ~IsRevoked(q.seen, w[1], w[2])

LEMMA ReaderInvIs == ReaderInv <=> \A c \in Client : Accepts(reader[c], sink)
BY DEF ReaderInv, Accepts

\* A client's step concerns that client only.
LEMMA ReaderSteps ==
  ASSUME TypeOK, ReaderInv, NEW c \in Client, NEW st \in Reader,
         reader' = [reader EXCEPT ![c] = st], sink' = sink, Accepts(st, sink)
  PROVE  ReaderInv'
<1>1. reader'[c] = st /\ \A d \in Client \ {c} : reader'[d] = reader[d]
  BY ReaderGoes
<1>2. \A d \in Client : Accepts(reader'[d], sink')
  BY <1>1, ReaderInvIs
<1>3. QED
  BY <1>2 DEF ReaderInv, Accepts

\* Whatever admins and the sink do, a client's accepted head stays a prefix of
\* the sink's.
LEMMA ReaderStays ==
  ASSUME TypeOK, ReaderInv, reader' = reader, sink' \in ChainHead, Prefix(sink, sink')
  PROVE  ReaderInv'
<1> SUFFICES ASSUME NEW c \in Client PROVE Accepts(reader'[c], sink')
  BY DEF ReaderInv, Accepts
<1>1. Accepts(reader[c], sink)
  BY ReaderInvIs
<1>2. CASE reader[c].pc # "idle" /\ reader[c].anchor # Unpinned
  <2>1. reader[c].anchor \in ChainHead /\ sink \in ChainHead
    BY <1>2, ReaderHolds DEF TypeOK
  <2>2. Prefix(reader[c].anchor, sink')
    BY <1>1, <1>2, <2>1, PrefixTransitive DEF Accepts
  <2>3. QED
    BY <1>1, <1>2, <2>2 DEF Accepts
<1>3. CASE ~(reader[c].pc # "idle" /\ reader[c].anchor # Unpinned)
  BY <1>1, <1>3 DEF Accepts
<1>4. QED
  BY <1>2, <1>3

\* Every step keeps what the clients have accepted.
LEMMA NextReaderInv == TypeOK /\ SinkInv /\ ReaderInv /\ [Next]_vars => ReaderInv'
<1> SUFFICES ASSUME TypeOK, SinkInv, ReaderInv, [Next]_vars PROVE ReaderInv'
  OBVIOUS
<1>0. sink \in ChainHead /\ sink' \in ChainHead /\ confirmed \in ChainHead /\ Prefix(sink, sink')
  BY NextTypeOK, SinkExtends DEF TypeOK
<1>1. ASSUME NEW c \in Client, FetchAnchor(c) PROVE ReaderInv'
  <2>1. PICK x \in {sink, Unpinned} :
          reader' = [reader EXCEPT ![c] = [pc |-> "fetched", anchor |-> x, must |-> confirmed]]
    BY <1>1 DEF FetchAnchor
  <2> DEFINE st == [pc |-> "fetched", anchor |-> x, must |-> confirmed]
  <2>2. st \in Reader /\ st.pc = "fetched" /\ st.anchor = x /\ st.must = confirmed
    BY <1>0, ReaderStates
  <2>3. sink' = sink /\ reader' = [reader EXCEPT ![c] = st]
    BY <1>1, <2>1 DEF FetchAnchor
  <2> HIDE DEF st
  <2>4. Accepts(st, sink)
    BY <1>0, <2>1, <2>2, PrefixReflexive DEF Accepts, SinkInv
  <2>5. QED
    BY <2>2, <2>3, <2>4, ReaderSteps
<1>2. ASSUME NEW c \in Client, FetchRecords(c) PROVE ReaderInv'
  <2>1. /\ reader[c].anchor \in ChainHead \cup {Unpinned} /\ reader[c].must \in ChainHead
        /\ reader[c].pc = "fetched" /\ sink' = sink
    BY <1>2, ReaderHolds DEF FetchRecords
  <2>2. Accepts(reader[c], sink)
    BY ReaderInvIs
  <2>3. ASSUME NEW h \in ServedHeads, VerifiesTo(reader[c].anchor, h),
               reader' = [reader EXCEPT ![c] =
                 [pc |-> "verified", anchor |-> reader[c].anchor, must |-> reader[c].must,
                  seen |-> h, wrapped |-> {}]]
        PROVE  ReaderInv'
    <3> DEFINE st == [pc |-> "verified", anchor |-> reader[c].anchor, must |-> reader[c].must,
                      seen |-> h, wrapped |-> {}]
    <3>1. st \in Reader
      BY <2>1, ServedHeadIs, ReaderStates
    <3>2. /\ st.pc = "verified" /\ st.anchor = reader[c].anchor /\ st.must = reader[c].must
          /\ st.seen = h /\ st.wrapped = {}
      OBVIOUS
    <3>3. reader' = [reader EXCEPT ![c] = st]
      BY <2>3
    <3> HIDE DEF st
    <3>4. Accepts(st, sink)
      BY <2>1, <2>2, <2>3, <3>2 DEF Accepts, VerifiesTo
    <3>5. QED
      BY <2>1, <3>1, <3>3, <3>4, ReaderSteps
  <2>4. CASE reader' = [reader EXCEPT ![c] = Idle]
    <3>1. Idle \in Reader /\ Accepts(Idle, sink)
      BY ReaderStates DEF Idle, Accepts
    <3>2. QED
      BY <2>1, <2>4, <3>1, ReaderSteps
  <2>5. QED
    BY <1>2, <2>3, <2>4 DEF FetchRecords
<1>3. ASSUME NEW c \in Client, NEW u \in Recipient, NEW f \in File, Wrap(c, u, f)
      PROVE  ReaderInv'
  <2>1. /\ reader[c].anchor \in ChainHead \cup {Unpinned} /\ reader[c].must \in ChainHead
        /\ reader[c].seen \in ChainHead /\ reader[c].wrapped \in SUBSET (Recipient \X File)
        /\ reader[c].pc = "verified" /\ ~IsRevoked(reader[c].seen, u, f) /\ sink' = sink
    BY <1>3, ReaderHolds DEF Wrap
  <2>2. Accepts(reader[c], sink)
    BY ReaderInvIs
  <2> DEFINE st == [pc |-> "verified", anchor |-> reader[c].anchor, must |-> reader[c].must,
                    seen |-> reader[c].seen, wrapped |-> reader[c].wrapped \cup {<<u, f>>}]
  <2>3. reader[c].wrapped \cup {<<u, f>>} \in SUBSET (Recipient \X File)
    BY <2>1
  <2>4. st \in Reader
    BY <2>1, <2>3, ReaderStates
  <2>5. /\ st.pc = "verified" /\ st.anchor = reader[c].anchor /\ st.must = reader[c].must
        /\ st.seen = reader[c].seen /\ st.wrapped = reader[c].wrapped \cup {<<u, f>>}
    OBVIOUS
  <2>6. reader' = [reader EXCEPT ![c] = st]
    BY <1>3 DEF Wrap
  <2> HIDE DEF st
  <2>7. \A w \in st.wrapped : ~IsRevoked(st.seen, w[1], w[2])
    <3> SUFFICES ASSUME NEW w \in st.wrapped PROVE ~IsRevoked(st.seen, w[1], w[2])
      OBVIOUS
    <3>1. CASE w \in reader[c].wrapped
      BY <2>1, <2>2, <2>5, <3>1 DEF Accepts
    <3>2. CASE w = <<u, f>>
      <4>1. w[1] = u /\ w[2] = f
        BY <3>2
      <4>2. QED
        BY <2>1, <2>5, <4>1
    <3>3. QED
      BY <2>5, <3>1, <3>2
  <2>8. Accepts(st, sink)
    BY <2>1, <2>2, <2>5, <2>7 DEF Accepts
  <2>9. QED
    BY <2>1, <2>4, <2>6, <2>8, ReaderSteps
<1>4. ASSUME NEW c \in Client, EndBatch(c) PROVE ReaderInv'
  <2>1. Idle \in Reader /\ Accepts(Idle, sink)
    BY ReaderStates DEF Idle, Accepts
  <2>2. QED
    BY <1>4, <2>1, ReaderSteps DEF EndBatch
<1>5. CASE reader' = reader
  BY <1>0, <1>5, ReaderStays
<1>6. QED
  BY <1>1, <1>2, <1>3, <1>4, <1>5 DEF Next, CeremonyStep, ClientStep, Resume, Issue, InsertGuard,
    Commit, Publish, LosePublication, Confirm, Goto, GiveUp, Restore, vars

-----------------------------------------------------------------------------
(* The invariant and the theorems. *)

\* The initial state satisfies the invariant.
LEMMA InitIInv == Init => IInv
<1> SUFFICES ASSUME Init PROVE IInv
  OBVIOUS
<1>1. TypeOK
  BY InitTypeOK
<1>2. LogInv
  BY DEF Init, LogInv, RowsInv, IssuerInv, SlotsApart, Away
<1>3. SinkInv
  BY DEF Init, SinkInv, Sound, Unique, Justified, Prefix, Genesis
<1>4. ReaderInv
  BY DEF Init, ReaderInv, Idle
<1>5. QED
  BY <1>1, <1>2, <1>3, <1>4 DEF IInv

\* IInv is inductive.
LEMMA Invariance == Spec => []IInv
<1>1. IInv /\ [Next]_vars => IInv'
  BY NextTypeOK, NextLogInv, NextSinkInv, NextReaderInv DEF IInv
<1>2. QED
  BY <1>1, InitIInv, PTL DEF Spec

\* What an anchored client accepts is all the sink held when its re-share
\* began and nothing the sink does not hold: publications lost or late and a
\* restored database can only make it refuse.
THEOREM AcceptedIsWhole == Spec => []AcceptedSetIsWhole
<1>1. IInv => AcceptedSetIsWhole
  BY DEF IInv, ReaderInv, AcceptedSetIsWhole, Anchored
<1>2. QED
  BY <1>1, Invariance, PTL

\* What an anchored client that has verified its set knows.
LEMMA AnchoredKnows ==
  ASSUME IInv, NEW c \in Client, Anchored(c)
  PROVE  LET q == reader[c]
         IN  /\ q.seen \in ChainHead /\ q.must \in ChainHead
             /\ Sound(q.seen) /\ Prefix(q.must, q.seen) /\ Authentic(q.seen)
             /\ \A w \in q.wrapped : ~IsRevoked(q.seen, w[1], w[2])
BY ReaderHolds DEF IInv, ReaderInv, Anchored

\* A confirmed revocation holds in every batch begun after it, until a record
\* issued after it lifts it: no batch of an anchored client wraps to the
\* revoked user otherwise.
THEOREM ConfirmedRevocationStands == Spec => []ConfirmedRevocationHolds
<1>1. ASSUME IInv PROVE ConfirmedRevocationHolds
  <2> SUFFICES ASSUME NEW c \in Client, Anchored(c), NEW w \in reader[c].wrapped,
                      NEW i \in 1..Len(reader[c].must),
                      /\ reader[c].must[i].kind = "revoke" /\ reader[c].must[i].cap = "access"
                      /\ reader[c].must[i].user = w[1]
                      /\ ScopeMatchesFile(reader[c].must[i].scope, w[2])
               PROVE  \E j \in i+1..Len(reader[c].seen) :
                        Lifts(reader[c].seen[j], reader[c].must[i])
    BY DEF ConfirmedRevocationHolds
  <2> DEFINE h == reader[c].seen
  <2>1. /\ h \in ChainHead /\ Sound(h) /\ Prefix(reader[c].must, h)
        /\ reader[c].must \in ChainHead /\ ~IsRevoked(h, w[1], w[2])
    BY <1>1, AnchoredKnows
  <2>2. i \in 1..Len(h) /\ reader[c].must[i] = h[i] /\ Len(h) \in Nat
    BY <2>1, LenProperties DEF Prefix, ChainHead
  <2> HIDE DEF h
  <2>3. IsSuperseded(h, h[i])
    BY <2>1, <2>2 DEF IsRevoked, ActiveRevocation
  <2>4. PICK j \in 1..Len(h) : Lifts(h[j], h[i])
    BY <2>3 DEF IsSuperseded
  <2>5. i < j
    BY <2>1, <2>2, <2>4, LiftsLater
  <2>6. j \in i+1..Len(h)
    BY <2>2, <2>5
  <2>7. QED
    BY <2>2, <2>4, <2>6 DEF h
<1>2. QED
  BY <1>1, Invariance, PTL

\* An admin the chain narrowed at i is an admin again for record j of a sound
\* head only if a record between them lifts the narrowing.
LEMMA NarrowedIsNoAdmin ==
  ASSUME NEW h \in ChainHead, Sound(h), NEW i \in 1..Len(h), NEW j \in i+1..Len(h),
         h[i].kind = "revoke", h[i].cap = "admin",
         IsAdmin(SubSeq(h, 1, j - 1), h[i].user)
  PROVE  \E k \in i+1..j-1 : Lifts(h[k], h[i])
<1> DEFINE g == SubSeq(h, 1, j - 1)
<1>1. Len(h) \in Nat /\ h \in Seq(Body)
  BY LenProperties DEF ChainHead
<1>2. Len(g) = j - 1 /\ \A k \in 1..j-1 : g[k] = h[k]
  BY <1>1
<1>3. i \in 1..Len(g) /\ g[i] = h[i]
  BY <1>1, <1>2
<1> HIDE DEF g
<1>4. IsAdmin(g, h[i].user)
  BY DEF g
<1>5. IsSuperseded(g, h[i])
  BY <1>3, <1>4 DEF IsAdmin, ActiveRevocation
<1>6. PICK k \in 1..j-1 : Lifts(h[k], h[i])
  BY <1>2, <1>5 DEF IsSuperseded
<1>7. k \in 1..Len(h)
  BY <1>1
<1>8. i < k
  BY <1>6, <1>7, LiftsLater
<1>9. k \in i+1..j-1
  BY <1>1, <1>8
<1>10. QED
  BY <1>6, <1>9

\* An admin whose role a confirmed record narrowed has no say in a set a later
\* anchored re-share accepts, until a reinstatement.
THEOREM ConfirmedNarrowingStands == Spec => []ConfirmedNarrowingHolds
<1>1. ASSUME IInv PROVE ConfirmedNarrowingHolds
  <2> SUFFICES ASSUME NEW c \in Client, Anchored(c), NEW i \in 1..Len(reader[c].must),
                      reader[c].must[i].kind = "revoke", reader[c].must[i].cap = "admin",
                      NEW j \in i+1..Len(reader[c].seen),
                      ~\E k \in i+1..j-1 : Lifts(reader[c].seen[k], reader[c].must[i])
               PROVE  /\ reader[c].seen[j].by # reader[c].must[i].user
                      /\ RequiresDualControl(reader[c].seen[j])
                           => reader[c].seen[j].co # reader[c].must[i].user
    BY DEF ConfirmedNarrowingHolds
  <2> DEFINE h == reader[c].seen
  <2>1. /\ h \in ChainHead /\ Sound(h) /\ Prefix(reader[c].must, h)
        /\ reader[c].must \in ChainHead /\ Authentic(h)
    BY <1>1, AnchoredKnows
  <2>2. i \in 1..Len(h) /\ reader[c].must[i] = h[i] /\ Len(h) \in Nat /\ j \in 1..Len(h)
    BY <2>1, LenProperties DEF Prefix, ChainHead
  <2> HIDE DEF h
  <2>3. IsAdmin(SubSeq(h, 1, j - 1), h[j].by)
          /\ (RequiresDualControl(h[j]) => IsAdmin(SubSeq(h, 1, j - 1), h[j].co))
    BY <2>1, <2>2 DEF Authentic
  <2>4. j \in i+1..Len(h) /\ h[i].kind = "revoke" /\ h[i].cap = "admin"
          /\ ~\E k \in i+1..j-1 : Lifts(h[k], h[i])
    BY <2>2 DEF h
  <2>5. ~IsAdmin(SubSeq(h, 1, j - 1), h[i].user)
    BY <2>1, <2>2, <2>4, NarrowedIsNoAdmin
  <2>6. h[j].by # h[i].user /\ (RequiresDualControl(h[j]) => h[j].co # h[i].user)
    BY <2>3, <2>5
  <2>7. QED
    BY <2>2, <2>6 DEF h
<1>2. QED
  BY <1>1, Invariance, PTL
-----------------------------------------------------------------------------
(* One append at a time. *)

\* At most one statement is between the trigger's read of the head and its commit.
OneGuarded ==
  \A a, b \in Ceremony : issuer[a].pc = "guarded" /\ issuer[b].pc = "guarded" => a = b

\* The rows are linked, and the statement under way has the last place and extends the
\* head that is served.
LinkInv ==
  /\ Linked
  /\ \A a \in Ceremony : issuer[a].pc = "guarded" =>
       issuer[a].slot = Len(log) /\ issuer[a].rec.prev \in ServedHeads

\* Of a table with the same rows up to n and none after, the same is served.
LEMMA SameRowsBelow ==
  ASSUME Len(log) \in Nat, Len(log') \in Nat,
         NEW n \in Nat, n <= Len(log), n <= Len(log'),
         \A i \in 1..n : log'[i] = log[i]
  PROVE  /\ \A i \in 1..n : Committed(i)' <=> Committed(i)
         /\ \A i \in 0..n : HeadAt(i)' = HeadAt(i)
         /\ \A j \in 0..n+1 : \A i \in 0..n : i < j => (IsLastBelow(i, j)' <=> IsLastBelow(i, j))
<1>1. \A i \in 1..n : Committed(i)' <=> Committed(i)
  BY DEF Committed
<1>2. \A i \in 0..n : HeadAt(i)' = HeadAt(i)
  BY DEF HeadAt
<1>3. ASSUME NEW j \in 0..n+1, NEW i \in 0..n, i < j
      PROVE  IsLastBelow(i, j)' <=> IsLastBelow(i, j)
  <2>1. \A k \in i+1..j-1 : k \in 1..n
    BY <1>3
  <2>2. i = 0 \/ i \in 1..n
    BY <1>3
  <2> QED
    BY <1>1, <2>1, <2>2 DEF IsLastBelow
<1> QED
  BY <1>1, <1>2, <1>3

\* An earlier stretch of a linked table is linked.
LEMMA LinkedBelow ==
  ASSUME Len(log) \in Nat, Len(log') \in Nat, Linked,
         NEW n \in Nat, n <= Len(log), n <= Len(log'),
         \A i \in 1..n : log'[i] = log[i],
         NEW j \in 1..n, Committed(j)'
  PROVE  \E i \in 0..j-1 : IsLastBelow(i, j)' /\ log'[j].prev = HeadAt(i)'
<1>1. Committed(j) /\ log'[j] = log[j] /\ j \in 1..Len(log)
  BY SameRowsBelow
<1>2. PICK i \in 0..j-1 : IsLastBelow(i, j) /\ log[j].prev = HeadAt(i)
  BY <1>1 DEF Linked
<1>3. i \in 0..n /\ i < j /\ j \in 0..n+1
  OBVIOUS
<1> QED
  BY <1>1, <1>2, <1>3, SameRowsBelow

\* A step that leaves the table alone and begins no statement.
LEMMA LinksStay ==
  ASSUME LinkInv, log' = log, \A b \in Ceremony : issuer'[b].pc = "guarded" => issuer'[b] = issuer[b]
  PROVE  LinkInv'
<1>1. \A i : (Committed(i)' <=> Committed(i)) /\ HeadAt(i)' = HeadAt(i)
  BY DEF Committed, HeadAt
<1>2. \A i, j : IsLastBelow(i, j)' <=> IsLastBelow(i, j)
  BY <1>1 DEF IsLastBelow
<1>3. ServedHeads' = ServedHeads /\ Linked'
  BY <1>1, <1>2 DEF ServedHeads, LinkInv, Linked
<1> QED
  BY <1>3 DEF LinkInv

\* The insert of a record that passes the trigger leaves the served head as it was.
LEMMA GuardKeepsLinks ==
  ASSUME TypeOK, LinkInv, OneGuarded', NEW a \in Ceremony, InsertGuard(a)
  PROVE  LinkInv'
<1>1. issuer[a].rec \in Record /\ issuer[a].epochs \in Epochs
        /\ Len(log) \in Nat /\ log \in Seq(Record \cup {NoRow})
  BY IssuerHolds, LenProperties DEF InsertGuard, TypeOK
<1>2. CASE issuer[a].rec.prev \notin ServedHeads
  <2>1. log' = log /\ issuer' = [issuer EXCEPT ![a] = Away]
    BY <1>2 DEF InsertGuard, GiveUp
  <2>2. \A b \in Ceremony : issuer'[b].pc = "guarded" => issuer'[b] = issuer[b]
    BY <2>1, IssuerGoes, IssuerStates
  <2> QED
    BY <2>1, <2>2, LinksStay
<1>3. CASE issuer[a].rec.prev \in ServedHeads
  <2> DEFINE st == [pc |-> "guarded", rec |-> issuer[a].rec,
                    epochs |-> issuer[a].epochs, slot |-> Len(log) + 1]
  <2>0. PICK n \in Nat : n = Len(log)
    BY <1>1
  <2>1. log' = Append(log, NoRow) /\ n < MaxRows /\ issuer' = [issuer EXCEPT ![a] = st]
    BY <1>3, <2>0 DEF InsertGuard
  <2>2. Len(log') = n + 1 /\ log'[n + 1] = NoRow /\ \A i \in 1..n : log'[i] = log[i]
    BY <1>1, <2>0, <2>1
  <2>3. n + 1 \in 1..MaxRows
    BY <1>1, <2>0, <2>1
  <2>4. st \in Issuer
    BY <1>1, <2>0, <2>3, IssuerStates
  <2>5. st.pc = "guarded" /\ st.rec = issuer[a].rec /\ st.slot = n + 1
    BY <2>0
  <2> HIDE DEF st
  <2>6. issuer'[a] = st
    BY <2>1, <2>4, IssuerGoes
  <2>7. \A b \in Ceremony : issuer'[b].pc = "guarded" => b = a
    BY <2>5, <2>6 DEF OneGuarded
  <2>8. ~Committed(n + 1)'
    BY <2>2 DEF Committed
  <2>9. Linked'
    <3> SUFFICES ASSUME NEW j \in 1..Len(log'), Committed(j)'
                 PROVE  \E i \in 0..j-1 : IsLastBelow(i, j)' /\ log'[j].prev = HeadAt(i)'
      BY DEF Linked
    <3>1. j \in 1..n
      BY <1>1, <2>2, <2>8 DEF Committed
    <3> QED
      BY <1>1, <2>0, <2>2, <3>1, LinkedBelow DEF LinkInv
  <2>10. issuer[a].rec.prev \in ServedHeads'
    <3>1. PICK i \in 0..n : IsLastBelow(i, n + 1) /\ issuer[a].rec.prev = HeadAt(i)
      BY <1>3, <2>0 DEF ServedHeads
    <3>2. IsLastBelow(i, n + 1)' /\ HeadAt(i)' = HeadAt(i)
      BY <1>1, <2>0, <2>2, <3>1, SameRowsBelow
    <3>3. IsLastBelow(i, n + 2)'
      BY <1>1, <2>8, <3>1, <3>2 DEF IsLastBelow
    <3> QED
      BY <1>1, <2>2, <3>1, <3>2, <3>3 DEF ServedHeads
  <2> QED
    BY <2>2, <2>5, <2>6, <2>7, <2>9, <2>10 DEF LinkInv
<1> QED
  BY <1>2, <1>3

\* The row commits in the last place, on the head that was served when it was inserted:
\* no other row has committed since.
LEMMA CommitKeepsLinks ==
  ASSUME TypeOK, LogInv, LinkInv, OneGuarded, NEW a \in Ceremony, Commit(a)
  PROVE  LinkInv'
<1>0. PICK n : n = Len(log)
  OBVIOUS
<1>1. issuer[a].rec \in Record /\ issuer[a].epochs \in Epochs /\ issuer[a].pc = "guarded"
        /\ n \in Nat /\ log \in Seq(Record \cup {NoRow})
        /\ issuer[a].slot \in 1..n
  BY <1>0, IssuerHolds, LenProperties DEF Commit, TypeOK
<1>2. issuer[a].slot = n /\ issuer[a].rec.prev \in ServedHeads /\ log[n] = NoRow
  BY <1>0, <1>1 DEF LinkInv, LogInv, IssuerInv
<1>3. CASE Duplicate(issuer[a].rec)
  <2>1. log' = log /\ issuer' = [issuer EXCEPT ![a] = Away]
    BY <1>3 DEF Commit, GiveUp
  <2>2. \A b \in Ceremony : issuer'[b].pc = "guarded" => issuer'[b] = issuer[b]
    BY <2>1, IssuerGoes, IssuerStates
  <2> QED
    BY <2>1, <2>2, LinksStay
<1>4. CASE ~Duplicate(issuer[a].rec)
  <2> DEFINE st == [pc |-> "committed", rec |-> issuer[a].rec, epochs |-> issuer[a].epochs]
  <2>1. log' = [log EXCEPT ![n] = issuer[a].rec] /\ issuer' = [issuer EXCEPT ![a] = st]
    BY <1>2, <1>4 DEF Commit, Goto
  <2>2. Len(log') = n /\ log'[n] = issuer[a].rec /\ \A i \in 1..n : i # n => log'[i] = log[i]
    BY <1>0, <1>1, <2>1
  <2>3. st \in Issuer /\ st.pc = "committed"
    BY <1>1, IssuerStates
  <2> HIDE DEF st
  <2>4. \A b \in Ceremony : issuer'[b].pc # "guarded"
    BY <1>1, <2>1, <2>3, IssuerGoes DEF OneGuarded
  <2>5. n - 1 \in Nat /\ n - 1 <= n /\ \A i \in 1..n-1 : log'[i] = log[i]
    BY <1>1, <2>2
  <2>6. ~Committed(n)
    BY <1>2 DEF Committed
  <2>7. ASSUME NEW j \in 1..n, Committed(j)'
        PROVE  \E i \in 0..j-1 : IsLastBelow(i, j)' /\ log'[j].prev = HeadAt(i)'
    <3>1. CASE j \in 1..n-1
      BY <1>0, <1>1, <2>2, <2>5, <2>7, <3>1, LinkedBelow DEF LinkInv
    <3>2. CASE j = n
      <4>1. PICK i \in 0..n : IsLastBelow(i, n + 1) /\ issuer[a].rec.prev = HeadAt(i)
        BY <1>0, <1>2 DEF ServedHeads
      <4>2. i \in 0..n-1 /\ i < n
        BY <1>1, <2>6, <4>1 DEF IsLastBelow
      <4>3. IsLastBelow(i, n)
        BY <1>1, <4>1, <4>2 DEF IsLastBelow
      <4>4. IsLastBelow(i, n)' /\ HeadAt(i)' = HeadAt(i)
        <5>0. Len(log) = n /\ Len(log') = n /\ n \in Nat /\ n - 1 \in Nat
          BY <1>0, <1>1, <2>2, <2>5
        <5>1. PICK m \in Nat : n = m + 1 /\ m <= Len(log) /\ m <= Len(log')
                                /\ i \in 0..m /\ n \in 0..m+1
          <6>1. n = (n - 1) + 1 /\ n - 1 <= n /\ i \in 0..n-1 /\ n \in 0..(n-1)+1
            BY <4>2, <5>0
          <6> QED
            BY <5>0, <6>1
        <5>2. \A k \in 1..m : log'[k] = log[k]
          BY <2>5, <5>1
        <5>3. Len(log) \in Nat /\ Len(log') \in Nat
          BY <1>0, <1>1, <2>2
        <5> QED
          BY <4>2, <4>3, <5>1, <5>2, <5>3, SameRowsBelow
      <4> QED
        BY <2>2, <3>2, <4>1, <4>2, <4>4
    <3> QED
      BY <1>1, <3>1, <3>2
  <2> QED
    BY <2>2, <2>4, <2>7 DEF LinkInv, Linked
<1> QED
  BY <1>3, <1>4

\* The restored table is an earlier stretch of rows, with no statement under way.
LEMMA RestoreKeepsLinks ==
  ASSUME TypeOK, LinkInv, Restore
  PROVE  LinkInv'
<1>1. PICK n \in 0..Len(log) : log' = SubSeq(log, 1, n)
  BY DEF Restore
<1>2. log \in Seq(Record \cup {NoRow}) /\ Len(log) \in Nat
  BY LenProperties DEF TypeOK
<1>3. Len(log') = n /\ n <= Len(log) /\ n \in Nat /\ \A i \in 1..n : log'[i] = log[i]
  BY <1>1, <1>2
<1>4. Linked'
  BY <1>2, <1>3, LinkedBelow DEF LinkInv, Linked
<1>5. \A a \in Ceremony : issuer'[a].pc # "guarded"
  BY IssuerStates DEF Restore, Stopped
<1> QED
  BY <1>4, <1>5 DEF LinkInv

\* Every other step leaves the table alone and begins no statement.
LEMMA OthersKeepLinks ==
  ASSUME TypeOK, LinkInv, [Next]_vars,
         ~Restore, \A a \in Ceremony : ~InsertGuard(a) /\ ~Commit(a)
  PROVE  LinkInv'
<1>1. ASSUME NEW a \in Ceremony, CeremonyStep(a)
      PROVE  log' = log /\ \A b \in Ceremony : issuer'[b].pc = "guarded" => issuer'[b] = issuer[b]
  <2>1. CASE Resume(a)
    BY <2>1 DEF Resume, TypeOK
  <2>2. ASSUME NEW o \in Order[a], Issue(a, o)
        PROVE  log' = log /\ \A b \in Ceremony : issuer'[b].pc = "guarded" => issuer'[b] = issuer[b]
    <3>1. log' = log /\ \E st : st.pc # "guarded" /\ issuer' = [issuer EXCEPT ![a] = st]
      BY <2>2, IssuerStates DEF Issue, GiveUp
    <3> QED
      BY <3>1 DEF TypeOK
  <2>3. CASE Publish(a) \/ LosePublication(a)
    BY <2>3 DEF Publish, LosePublication, Goto, TypeOK
  <2>4. CASE Confirm(a)
    BY <2>4, IssuerStates DEF Confirm, GiveUp, TypeOK
  <2> QED
    BY <1>1, <2>1, <2>2, <2>3, <2>4 DEF CeremonyStep
<1>2. log' = log /\ \A b \in Ceremony : issuer'[b].pc = "guarded" => issuer'[b] = issuer[b]
  BY <1>1 DEF Next, ClientStep, FetchAnchor, FetchRecords, Wrap, EndBatch, vars
<1> QED
  BY <1>2, LinksStay

\* As long as appends come one at a time, the committed rows are one chain from
\* GENESIS_HEAD, through every refusal and every restore of the database: all the fork of
\* run control_fork takes is a second insert before the first commits, and a lock the
\* trigger held to the end of its statement would rule that out.
THEOREM LinkedWhileOneAppends == Spec /\ []OneGuarded => []LogUnforked
<1>1. Init => LinkInv
  <2> SUFFICES ASSUME Init PROVE LinkInv
    OBVIOUS
  <2>1. log = << >> /\ \A a \in Ceremony : issuer[a].pc # "guarded"
    BY IssuerStates DEF Init
  <2> QED
    BY <2>1 DEF LinkInv, Linked
<1>2. IInv /\ LinkInv /\ OneGuarded /\ OneGuarded' /\ [Next]_vars => LinkInv'
  BY GuardKeepsLinks, CommitKeepsLinks, RestoreKeepsLinks, OthersKeepLinks DEF IInv
<1>3. LinkInv => LogUnforked
  BY DEF LinkInv, LogUnforked
<1> QED
  BY Invariance, <1>1, <1>2, <1>3, PTL DEF Spec
=============================================================================
