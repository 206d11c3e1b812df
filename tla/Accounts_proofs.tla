--------------------------- MODULE Accounts_proofs ---------------------------
(***************************************************************************)
(* Proofs about delegation and accounts, for any number of tasks, names,   *)
(* keys, nonces, roots and faults.                                         *)
(*                                                                         *)
(* IInv is inductive: the types; FilesInv, what a ceremony has written at  *)
(* each of its steps and that memory and files agree; LocksInv, that the   *)
(* rows an enrollment has locked are its own and as it found them;         *)
(* RowsInv, how the tables belong together; and LocalsInv, what a handler  *)
(* suspended between two queries still knows.  With RegistryInv, on what   *)
(* an enrollment rests, the server implements the Registry.                *)
(***************************************************************************)
EXTENDS Accounts, TLAPS

USE DelegationAssumption, AccountsAssumption

FilesInv ==
  /\ awaiting <=> installed = NoDelegation
  /\ awaiting => disk.token
  /\ installed # NoDelegation => installed = [pub |-> disk.pub, cert |-> disk.cert]
  /\ ceremony # NoCeremony =>
       /\ installed = NoDelegation
       /\ SignedBy[ceremony.cert] = ceremony.pub
       /\ ceremony.pub \in tried
  /\ ceremony.pc \in {"cert", "burn"} => disk.pub = ceremony.pub
  /\ ceremony.pc = "burn" => disk.cert = ceremony.cert
  /\ disk.pub # NoRoot => disk.pub \in tried
  /\ disk.cert # NoCert => disk.pub # NoRoot /\ SignedBy[disk.cert] \in tried

Founder(m) == [name |-> m, v |-> 1, pair |-> 1, admin |-> TRUE, by |-> "operational"]

LocksInv ==
  /\ \A t, u \in Task : t # u =>
       /\ \A k \in Key : ~(HoldsKey(t, k) /\ HoldsKey(u, k))
       /\ \A n \in Name : ~(HoldsName(t, n) /\ HoldsName(u, n))
       /\ ~(HoldsClaim(t) /\ HoldsClaim(u))
  /\ \A t \in Task :
       /\ \A k \in Key : HoldsKey(t, k) => keys[k] = "issued"
       /\ \A n \in Name : HoldsName(t, n) => ~Enrolled(n)
       /\ op[t].pc = "claimed" => (op[t].admin <=> ~claim)

RowsInv ==
  /\ FirstAdminOnce
  /\ KeyOpensOneAccount
  /\ \A b \in bindings : b.by = "operational" => b.v = 1 /\ b.pair = 1 /\ Enrolled(b.name)
  /\ \A k \in Key :
       /\ minter[k] # NoOne => keys[k] # "none"
       /\ minter[k] \in {NoOne, Recovery} \/ (Founder(minter[k]) \in bindings /\ account[minter[k]] # k)

LocalsInv ==
  \A t \in Task :
    /\ op[t].pc = "minting" => op[t].who = Recovery \/ Founder(op[t].who) \in bindings
    /\ op[t].pc \in {"known", "verified", "consumed"} =>
         (op[t].late => nonces[op[t].nonce].state = "closed")
    /\ op[t].pc \in {"verified", "consumed"} => ~op[t].late

IInv == TypeOK /\ FilesInv /\ LocksInv /\ RowsInv /\ LocalsInv

-----------------------------------------------------------------------------
(* Types. *)

\* What a suspended handler carries, by where it is.
LEMMA OpFields ==
  ASSUME NEW o \in Op
  PROVE  /\ o.pc \in {"admitted", "keyed", "named", "claimed"} =>
              o.name \in Name /\ o.key \in Key
         /\ o.pc \in {"admitted", "keyed", "named"} =>
              o = [pc |-> o.pc, name |-> o.name, key |-> o.key]
         /\ o.pc = "claimed" => o.admin \in BOOLEAN
         /\ o.pc = "minting" => o.who \in Principal
         /\ o.pc = "publishing" => o.name \in Name /\ o.pair \in Pair
         /\ o.pc \in {"known", "verified", "consumed"} =>
              /\ o.who \in Principal /\ o.nonce \in Nonce /\ o.late \in BOOLEAN
              /\ o = [pc |-> o.pc, who |-> o.who, nonce |-> o.nonce, late |-> o.late]
  BY DEF Op, Idle

LEMMA TypeInit == Init => TypeOK
<1> SUFFICES ASSUME Init
             PROVE  TypeOK
  OBVIOUS
<1>1. DelegationTypeOK
  BY DEF Init, DelegationInit, DelegationTypeOK, Ceremony, Installed
<1>2. NoNonce \in NonceRow /\ Idle \in Op
  BY DEF NoNonce, NonceRow, Op
<1>3. recovery \in BOOLEAN /\ claim \in BOOLEAN
  BY DEF Init
<1>4. /\ keys \in [Key -> {"none", "issued", "used"}]
      /\ account \in [Name -> Key \cup {NoKey}]
      /\ mirror \in [Name -> 0..KeyPairs]
      /\ minter \in [Key -> Principal \cup {NoOne}]
      /\ nonces \in [Nonce -> NonceRow]
      /\ op \in [Task -> Op]
  BY <1>2 DEF Init
<1>5. bindings \subseteq Binding /\ sessions \subseteq Principal
  BY DEF Init
<1>6. QED
  BY <1>1, <1>3, <1>4, <1>5 DEF TypeOK

\* The delegation's own steps.
LEMMA DelegationTypeStep ==
  ASSUME DelegationTypeOK,
         DelegationNext \/ Reboot \/ (\E c \in Cert : Renew(c)) \/ UNCHANGED delegation
  PROVE  DelegationTypeOK'
<1>1. CASE \E d \in Root, c \in Cert : InstallBegin(d, c)
  BY <1>1 DEF InstallBegin, DelegationTypeOK, Ceremony
<1>2. CASE PersistPub
  BY <1>2 DEF PersistPub, DelegationTypeOK, Ceremony, NoCeremony
<1>3. CASE PersistCert
  BY <1>3 DEF PersistCert, DelegationTypeOK, Ceremony, NoCeremony
<1>4. CASE BurnAndFlip
  <2>1. ceremony.pub \in Root /\ ceremony.cert \in Cert
    BY <1>4 DEF BurnAndFlip, DelegationTypeOK, Ceremony, NoCeremony
  <2>2. disk' \in [pub: Root \cup {NoRoot}, cert: Cert \cup {NoCert}, token: BOOLEAN]
    BY <1>4 DEF BurnAndFlip, DelegationTypeOK
  <2>3. QED
    BY <1>4, <2>1, <2>2 DEF BurnAndFlip, DelegationTypeOK, Ceremony, Installed
<1>5. CASE PersistFails
  BY <1>5 DEF PersistFails, DelegationTypeOK, Ceremony
<1>6. CASE \E c \in Cert : Expire(c)
  BY <1>6 DEF Expire, DelegationTypeOK
<1>7. CASE \E c \in Cert : Renew(c)
  BY <1>7 DEF Renew, DelegationTypeOK, Installed
<1>8. CASE Reboot
  <2>1. Loaded(disk) \in Installed /\ Loaded(disk).pub \in Root \cup {NoRoot}
    BY DEF DelegationTypeOK, Loaded, Installed, NoDelegation
  <2>2. (Loaded(disk) = NoDelegation) \in BOOLEAN
    OBVIOUS
  <2>3. disk' \in [pub: Root \cup {NoRoot}, cert: Cert \cup {NoCert}, token: BOOLEAN]
    BY <1>8, <2>2 DEF Reboot, DelegationTypeOK
  <2>4. awaiting' \in BOOLEAN
    BY <1>8, <2>2 DEF Reboot
  <2>5. faults' \in 0..MaxFaults
    BY <1>8 DEF Reboot, DelegationTypeOK
  <2>6. QED
    BY <1>8, <2>1, <2>3, <2>4, <2>5 DEF Reboot, DelegationTypeOK, Ceremony
<1>9. CASE UNCHANGED delegation
  BY <1>9 DEF DelegationTypeOK, delegation
<1>10. QED
  BY <1>1, <1>2, <1>3, <1>4, <1>5, <1>6, <1>7, <1>8, <1>9 DEF DelegationNext

LEMMA TypeStep == TypeOK /\ [Next]_vars => TypeOK'
<1> SUFFICES ASSUME TypeOK, [Next]_vars
             PROVE  TypeOK'
  OBVIOUS
<1> USE DEF TypeOK, Goto, Principal
<1>1. DelegationTypeOK'
  BY DelegationTypeStep
     DEF Next, vars, Session, Request, EnrollStep, Restart, RegisterRecovery, Challenge,
         NonceExpires, Prune, SessionEnds, RenewDelegation, ProveKnown, ProveVerify,
         ProveConsume, ProveMint, MintBegin, MintKey, Register, ConsumeKey, CreateUser,
         ClaimFirst, EnrollCommit, PutBinding, SyncMirror, Drop
<1>2. CASE UNCHANGED <<tables, op>>
  BY <1>1, <1>2 DEF tables
<1>3. CASE Session
  <2>1. CASE RegisterRecovery
    BY <1>1, <2>1 DEF RegisterRecovery
  <2>2. CASE \E p \in Principal, x \in Nonce : Challenge(p, x)
    BY <1>1, <2>2 DEF Challenge, NonceRow
  <2>3. CASE \E x \in Nonce : NonceExpires(x)
    BY <1>1, <2>3 DEF NonceExpires, NonceRow
  <2>4. CASE \E x \in Nonce : Prune(x)
    BY <1>1, <2>4 DEF Prune, NonceRow, NoNonce
  <2>5. CASE \E p \in Principal : SessionEnds(p)
    BY <1>1, <2>5 DEF SessionEnds
  <2>6. CASE \E p \in Principal, c \in Cert : RenewDelegation(p, c)
    BY <1>1, <2>6 DEF RenewDelegation, tables
  <2>7. QED
    BY <1>3, <2>1, <2>2, <2>3, <2>4, <2>5, <2>6 DEF Session
<1>4. ASSUME NEW t \in Task, Request(t)
      PROVE  TypeOK'
  <2>0. op[t] \in Op /\ Idle \in Op
    BY DEF Op
  <2>1. CASE \E p \in Principal, x \in Nonce : ProveKnown(t, p, x)
    BY <1>1, <2>1 DEF ProveKnown, tables, Op
  <2>2. CASE ProveVerify(t)
    <3>1. [op[t] EXCEPT !.pc = "verified"] \in Op
      BY <2>0, <2>2, OpFields DEF ProveVerify, Op
    <3>2. op' \in [Task -> Op]
      BY <2>2, <2>0, <3>1 DEF ProveVerify
    <3>3. QED
      BY <1>1, <2>2, <3>2 DEF ProveVerify, tables
  <2>3. CASE ProveConsume(t)
    <3>1. [op[t] EXCEPT !.pc = "consumed"] \in Op /\ op[t].nonce \in Nonce
      BY <2>0, <2>3, OpFields DEF ProveConsume, Op
    <3>2. QED
      BY <1>1, <2>3, <3>1 DEF ProveConsume, NonceRow
  <2>4. CASE ProveMint(t)
    BY <1>1, <2>0, <2>4, OpFields DEF ProveMint, Op
  <2>5. CASE \E p \in Principal : MintBegin(t, p)
    BY <1>1, <2>5 DEF MintBegin, tables, Op
  <2>6. CASE \E k \in Key : MintKey(t, k)
    BY <1>1, <2>0, <2>6, OpFields DEF MintKey, Op
  <2>7. CASE \E n \in Name, k \in Key : Register(t, n, k)
    BY <1>1, <2>7 DEF Register, tables, Op
  <2>8. CASE ConsumeKey(t)
    <3>1. [op[t] EXCEPT !.pc = "keyed"] \in Op
      BY <2>0, <2>8, OpFields DEF ConsumeKey, Op
    <3>2. op' \in [Task -> Op]
      BY <2>8, <2>0, <3>1 DEF ConsumeKey
    <3>3. QED
      BY <1>1, <2>8, <3>2 DEF ConsumeKey, tables
  <2>9. CASE CreateUser(t)
    <3>1. [op[t] EXCEPT !.pc = "named"] \in Op
      BY <2>0, <2>9, OpFields DEF CreateUser, Op
    <3>2. op' \in [Task -> Op]
      BY <2>9, <2>0, <3>1 DEF CreateUser
    <3>3. QED
      BY <1>1, <2>9, <3>2 DEF CreateUser, tables
  <2>10. CASE ClaimFirst(t)
    BY <1>1, <2>0, <2>10, OpFields DEF ClaimFirst, tables, Op
  <2>11. CASE EnrollCommit(t)
    <3>1. /\ op[t].name \in Name /\ op[t].key \in Key /\ op[t].admin \in BOOLEAN
          /\ 1 \in Version /\ 1 \in Pair
      BY <2>0, <2>11, OpFields DEF EnrollCommit, Version, Pair
    <3>2. [name |-> op[t].name, v |-> 1, pair |-> 1, admin |-> op[t].admin, by |-> "operational"] \in Binding
      BY <3>1 DEF Binding
    <3>3. QED
      BY <1>1, <2>11, <3>1, <3>2 DEF EnrollCommit, Op, Pair
  <2>12. CASE \E n \in Name, v \in Version, k \in Pair : PutBinding(t, n, v, k)
    <3>1. PICK n \in Name, v \in Version, k \in Pair : PutBinding(t, n, v, k)
      BY <2>12
    <3>2. [name |-> n, v |-> v, pair |-> k, admin |-> n \in Promoted, by |-> "root"] \in Binding
      <4>1. (n \in Promoted) \in BOOLEAN
        OBVIOUS
      <4>2. QED
        BY <4>1 DEF Binding
    <3>3. bindings' \subseteq Binding
      BY <3>1, <3>2 DEF PutBinding
    <3>4. [pc |-> "publishing", name |-> n, pair |-> k] \in Op
      BY DEF Op
    <3>5. QED
      BY <1>1, <3>1, <3>3, <3>4 DEF PutBinding
  <2>13. CASE SyncMirror(t)
    BY <1>1, <2>0, <2>13, OpFields DEF SyncMirror, Op, Pair
  <2>14. CASE Drop(t)
    BY <1>1, <2>14 DEF Drop, tables, Op
  <2>15. QED
    BY <1>4, <2>1, <2>2, <2>3, <2>4, <2>5, <2>6, <2>7, <2>8, <2>9, <2>10, <2>11, <2>12,
       <2>13, <2>14 DEF Request, EnrollStep
<1>5. CASE Restart
  BY <1>1, <1>5 DEF Restart, tables, Op
<1>6. QED
  BY <1>2, <1>3, <1>4, <1>5 DEF Next, vars

THEOREM TypeCorrect == Spec => []TypeOK
  BY TypeInit, TypeStep, PTL DEF Spec

-----------------------------------------------------------------------------
(* The delegation's files. *)

LEMMA FilesInit == Init => FilesInv
  BY DEF Init, DelegationInit, FilesInv, NoCeremony, NoDelegation

LEMMA FilesStep ==
  ASSUME DelegationTypeOK, FilesInv,
         DelegationNext \/ Reboot \/ (\E c \in Cert : Renew(c)) \/ UNCHANGED delegation
  PROVE  FilesInv'
<1> USE DEF FilesInv, NoCeremony
<1>1. CASE \E d \in Root, c \in Cert : InstallBegin(d, c)
  BY <1>1 DEF InstallBegin, Verifies
<1>2. CASE PersistPub
  <2>1. ceremony.pub \in Root /\ ceremony.pub # NoRoot /\ ceremony \in [pc: {"pub", "cert", "burn"}, pub: Root, cert: Cert]
    BY <1>2 DEF PersistPub, DelegationTypeOK, Ceremony
  <2>2. /\ ceremony'.pub = ceremony.pub /\ ceremony'.cert = ceremony.cert
        /\ ceremony'.pc = "cert" /\ ceremony' # NoCeremony
        /\ disk'.pub = ceremony.pub /\ disk'.cert = disk.cert /\ disk'.token = disk.token
    BY <1>2, <2>1 DEF PersistPub, DelegationTypeOK
  <2>3. QED
    BY <1>2, <2>1, <2>2 DEF PersistPub
<1>3. CASE PersistCert
  <2>1. ceremony.pub # NoRoot /\ ceremony \in [pc: {"pub", "cert", "burn"}, pub: Root, cert: Cert]
    BY <1>3 DEF PersistCert, DelegationTypeOK, Ceremony
  <2>2. /\ ceremony'.pub = ceremony.pub /\ ceremony'.cert = ceremony.cert
        /\ ceremony'.pc = "burn" /\ ceremony' # NoCeremony
        /\ disk'.pub = disk.pub /\ disk'.cert = ceremony.cert /\ disk'.token = disk.token
    BY <1>3, <2>1 DEF PersistCert, DelegationTypeOK
  <2>3. QED
    BY <1>3, <2>1, <2>2 DEF PersistCert
<1>4. CASE BurnAndFlip
  <2>1. ceremony.pub # NoRoot /\ ceremony.cert # NoCert /\ ceremony # NoCeremony
    BY <1>4 DEF BurnAndFlip, DelegationTypeOK, Ceremony
  <2>2. /\ disk'.pub = ceremony.pub /\ disk'.cert = ceremony.cert
        /\ SignedBy[ceremony.cert] = ceremony.pub
        /\ installed' = [pub |-> ceremony.pub, cert |-> ceremony.cert]
    BY <1>4, <2>1 DEF BurnAndFlip, DelegationTypeOK
  <2>3. installed' # NoDelegation /\ awaiting' = FALSE /\ ceremony' = NoCeremony
    BY <1>4, <2>1 DEF BurnAndFlip, NoDelegation
  <2>4. QED
    BY <1>4, <2>1, <2>2, <2>3 DEF BurnAndFlip
<1>5. CASE PersistFails
  BY <1>5 DEF PersistFails
<1>6. CASE \E c \in Cert : Expire(c)
  BY <1>6 DEF Expire
<1>7. CASE \E c \in Cert : Renew(c)
  <2>1. PICK c \in Cert : Renew(c)
    BY <1>7
  <2>2. /\ installed.pub = disk.pub /\ installed.cert = disk.cert
        /\ installed.pub # NoRoot /\ c # NoCert /\ SignedBy[c] = installed.pub
    BY <2>1 DEF Renew, Verifies, DelegationTypeOK, Installed
  <2>3. /\ disk'.pub = disk.pub /\ disk'.cert = c /\ disk'.token = disk.token
        /\ installed' = [pub |-> disk.pub, cert |-> c]
    BY <2>1, <2>2 DEF Renew, DelegationTypeOK, Installed
  <2>4. installed' # NoDelegation
    BY <2>2, <2>3 DEF NoDelegation
  <2>5. QED
    BY <2>1, <2>2, <2>3, <2>4 DEF Renew
<1>8. CASE Reboot
  <2>1. /\ disk'.pub = disk.pub /\ disk'.cert = disk.cert
        /\ disk'.token <=> Loaded(disk) = NoDelegation
    BY <1>8 DEF Reboot, DelegationTypeOK
  <2>2. Loaded(disk) # NoDelegation => Loaded(disk) = [pub |-> disk.pub, cert |-> disk.cert]
    BY DEF Loaded
  <2>3. QED
    BY <1>8, <2>1, <2>2 DEF Reboot
<1>9. CASE UNCHANGED delegation
  BY <1>9 DEF delegation
<1>10. QED
  BY <1>1, <1>2, <1>3, <1>4, <1>5, <1>6, <1>7, <1>8, <1>9 DEF DelegationNext

\* Every step of the whole is one of the delegation's, or leaves it alone.
LEMMA DelegationSteps ==
  [Next]_vars =>
    DelegationNext \/ Reboot \/ (\E c \in Cert : Renew(c)) \/ UNCHANGED delegation
  BY DEF Next, vars, Session, Request, EnrollStep, Restart, RegisterRecovery, Challenge,
         NonceExpires, Prune, SessionEnds, RenewDelegation, ProveKnown, ProveVerify,
         ProveConsume, ProveMint, MintBegin, MintKey, Register, ConsumeKey, CreateUser,
         ClaimFirst, EnrollCommit, PutBinding, SyncMirror, Drop

LEMMA FilesHold == Spec => [](TypeOK /\ FilesInv)
<1>1. TypeOK /\ FilesInv /\ [Next]_vars => (TypeOK /\ FilesInv)'
  BY TypeStep, FilesStep, DelegationSteps DEF TypeOK
<1>2. QED
  BY <1>1, TypeInit, FilesInit, PTL DEF Spec

\* However ceremonies of one root fail, overlap with crashes or are repeated, the
\* server awaits one with its token on the disk or serves a certificate of its root.
\* Once ceremonies of two roots have written their files that is not so.
THEOREM NeverStrandedHolds == Spec => []NeverStranded
<1>1. TypeOK /\ FilesInv => NeverStranded
  <2> SUFFICES ASSUME TypeOK, FilesInv, \A d, e \in tried : d = e,
                      installed # NoDelegation
               PROVE  SignedBy[installed.cert] = installed.pub
    BY DEF NeverStranded, FilesInv
  <2>1. /\ installed.pub = disk.pub /\ installed.cert = disk.cert
        /\ disk.pub # NoRoot /\ disk.cert # NoCert
    BY DEF FilesInv, TypeOK, DelegationTypeOK, Installed
  <2>2. QED
    BY <2>1 DEF FilesInv
<1>2. QED
  BY <1>1, FilesHold, PTL

\* No step takes a served root back or puts another in its place.
THEOREM RootStaysHolds == Spec => RootStays
<1>1. ASSUME TypeOK, FilesInv, [Next]_vars, installed # NoDelegation
      PROVE  installed'.pub = installed.pub
  <2>1. /\ installed.pub = disk.pub /\ ceremony = NoCeremony /\ ceremony.pc = "none"
        /\ disk.pub # NoRoot /\ disk.cert # NoCert
    BY <1>1 DEF FilesInv, TypeOK, DelegationTypeOK, Installed, NoCeremony
  <2>2. CASE DelegationNext
    BY <1>1, <2>1, <2>2 DEF DelegationNext, InstallBegin, PersistPub, PersistCert,
                            BurnAndFlip, PersistFails, Expire
  <2>3. CASE \E c \in Cert : Renew(c)
    BY <1>1, <2>3 DEF Renew, TypeOK, DelegationTypeOK, Installed
  <2>4. CASE Reboot
    BY <2>1, <2>4 DEF Reboot, Loaded
  <2>5. CASE UNCHANGED delegation
    BY <2>5 DEF delegation
  <2>6. QED
    BY <1>1, <2>2, <2>3, <2>4, <2>5, DelegationSteps
<1>2. TypeOK /\ FilesInv /\ [Next]_vars =>
        [installed # NoDelegation => installed'.pub = installed.pub]_delegation
  BY <1>1
<1>3. QED
  BY <1>2, FilesHold, PTL DEF Spec, RootStays

-----------------------------------------------------------------------------
(* Rows and locks. *)

LEMMA AccountsInit == Init => LocksInv /\ RowsInv /\ LocalsInv
  BY DEF Init, LocksInv, RowsInv, LocalsInv, FirstAdminOnce, KeyOpensOneAccount,
         Enrolled, HoldsKey, HoldsName, HoldsClaim, Idle

LEMMA AccountsStep ==
  TypeOK /\ LocksInv /\ RowsInv /\ LocalsInv /\ [Next]_vars =>
    (LocksInv /\ RowsInv /\ LocalsInv)'
<1> SUFFICES ASSUME TypeOK, LocksInv, RowsInv, LocalsInv, [Next]_vars
             PROVE  LocksInv' /\ RowsInv' /\ LocalsInv'
  OBVIOUS
<1> DEFINE Rows == <<keys, account, claim, bindings, minter>>
<1>1. ASSUME UNCHANGED Rows
      PROVE  RowsInv'
  BY <1>1 DEF RowsInv, FirstAdminOnce, KeyOpensOneAccount, Enrolled
<1>2. CASE UNCHANGED <<Rows, op, nonces>>
  BY <1>1, <1>2 DEF LocksInv, LocalsInv, HoldsKey, HoldsName, HoldsClaim, Enrolled
<1>3. CASE Session
  <2>1. CASE \E p \in Principal, x \in Nonce : Challenge(p, x)
    <3>1. PICK p \in Principal, x \in Nonce : Challenge(p, x)
      BY <2>1
    <3>2. \A y \in Nonce : nonces[y].state = "closed" => nonces'[y].state = "closed"
      BY <3>1 DEF Challenge, TypeOK, NoNonce
    <3>3. LocalsInv'
      BY <3>1, <3>2, OpFields DEF Challenge, LocalsInv, TypeOK
    <3>4. QED
      BY <1>1, <3>1, <3>3 DEF Challenge, LocksInv, HoldsKey, HoldsName, HoldsClaim, Enrolled
  <2>2. CASE \E x \in Nonce : NonceExpires(x)
    <3>1. PICK x \in Nonce : NonceExpires(x)
      BY <2>2
    <3>2. \A y \in Nonce : nonces[y].state = "closed" => nonces'[y].state = "closed"
      BY <3>1 DEF NonceExpires, TypeOK, NonceRow
    <3>3. LocalsInv'
      BY <3>1, <3>2, OpFields DEF NonceExpires, LocalsInv, TypeOK
    <3>4. QED
      BY <1>1, <3>1, <3>3 DEF NonceExpires, LocksInv, HoldsKey, HoldsName, HoldsClaim, Enrolled
  <2>3. CASE \E x \in Nonce : Prune(x)
    <3>1. PICK x \in Nonce : Prune(x)
      BY <2>3
    <3>2. \A y \in Nonce : y # x => nonces'[y] = nonces[y]
      BY <3>1 DEF Prune, TypeOK
    <3>3. LocalsInv'
      BY <3>1, <3>2, OpFields DEF Prune, LocalsInv, TypeOK
    <3>4. QED
      BY <1>1, <3>1, <3>3 DEF Prune, LocksInv, HoldsKey, HoldsName, HoldsClaim, Enrolled
  <2>4. CASE \/ RegisterRecovery
             \/ \E p \in Principal : SessionEnds(p)
             \/ \E p \in Principal, c \in Cert : RenewDelegation(p, c)
    BY <1>2, <2>4 DEF RegisterRecovery, SessionEnds, RenewDelegation, tables
  <2>5. QED
    BY <1>3, <2>1, <2>2, <2>3, <2>4 DEF Session
<1>4. ASSUME NEW t \in Task, Request(t)
      PROVE  LocksInv' /\ RowsInv' /\ LocalsInv'
  <2>0. op[t] \in Op /\ op \in [Task -> Op]
    BY DEF TypeOK
  <2>1. ASSUME NEW o, o.pc \notin {"keyed", "named", "claimed"}, Goto(t, o), UNCHANGED Rows
        PROVE  LocksInv'
    <3>1. \A u \in Task : op'[u] = IF u = t THEN o ELSE op[u]
      BY <2>0, <2>1 DEF Goto
    <3>2. QED
      BY <2>1, <3>1 DEF LocksInv, HoldsKey, HoldsName, HoldsClaim, Enrolled
  <2>2. ASSUME NEW o, Goto(t, o), UNCHANGED <<bindings, nonces>>,
               o.pc = "minting" => o.who = Recovery \/ Founder(o.who) \in bindings,
               o.pc \in {"known", "verified", "consumed"} =>
                 (o.late => nonces[o.nonce].state = "closed"),
               o.pc \in {"verified", "consumed"} => ~o.late
        PROVE  LocalsInv'
    <3>1. \A u \in Task : op'[u] = IF u = t THEN o ELSE op[u]
      BY <2>0, <2>2 DEF Goto
    <3>2. QED
      BY <2>2, <3>1 DEF LocalsInv
  <2>3. Idle.pc = "idle"
    BY DEF Idle
  <2>4. CASE \E p \in Principal, x \in Nonce : ProveKnown(t, p, x)
    <3>1. PICK p \in Principal, x \in Nonce : ProveKnown(t, p, x)
      BY <2>4
    <3> DEFINE o == [pc |-> "known", who |-> p, nonce |-> x, late |-> nonces[x].state = "closed"]
    <3>2. /\ Goto(t, o) /\ UNCHANGED Rows /\ UNCHANGED <<bindings, nonces>>
          /\ o.pc = "known" /\ o.nonce = x
      BY <3>1 DEF ProveKnown, tables
    <3>3. o.late <=> nonces[x].state = "closed"
      OBVIOUS
    <3> HIDE DEF o
    <3>4. QED
      BY <1>1, <2>1, <2>2, <3>2, <3>3
  <2>5. CASE ProveVerify(t)
    <3>1. UNCHANGED Rows /\ UNCHANGED <<bindings, nonces>> /\ op[t].pc = "known"
      BY <2>5 DEF ProveVerify, tables
    <3>2. CASE Goto(t, Idle)
      BY <1>1, <2>1, <2>2, <2>3, <3>1, <3>2
    <3>3. CASE Goto(t, [op[t] EXCEPT !.pc = "verified"]) /\ Outstanding(op[t].nonce)
      <4> DEFINE o == [op[t] EXCEPT !.pc = "verified"]
      <4>1. o.pc = "verified" /\ o.nonce = op[t].nonce /\ o.late = op[t].late
        BY <2>0, <3>1, OpFields
      <4>2. ~op[t].late
        BY <3>1, <3>3 DEF Outstanding, LocalsInv
      <4> HIDE DEF o
      <4>3. QED
        BY <1>1, <2>1, <2>2, <3>1, <3>3, <4>1, <4>2 DEF o
    <3>4. QED
      BY <2>5, <3>2, <3>3 DEF ProveVerify
  <2>6. CASE ProveConsume(t)
    <3> DEFINE o == [op[t] EXCEPT !.pc = "consumed"]
    <3>1. /\ o.pc = "consumed" /\ o.nonce = op[t].nonce /\ o.late = op[t].late
          /\ op[t].nonce \in Nonce /\ UNCHANGED Rows /\ Goto(t, o) /\ ~op[t].late
      BY <2>0, <2>6, OpFields DEF ProveConsume, LocalsInv
    <3>2. \A y \in Nonce : nonces[y].state = "closed" => nonces'[y].state = "closed"
      BY <2>6, <3>1 DEF ProveConsume, TypeOK, NonceRow
    <3> HIDE DEF o
    <3>3. \A u \in Task : op'[u] = IF u = t THEN o ELSE op[u]
      BY <2>0, <3>1 DEF Goto
    <3>4. LocalsInv'
      BY <2>0, <3>1, <3>2, <3>3, OpFields DEF LocalsInv
    <3>5. QED
      BY <1>1, <2>1, <3>1, <3>4
  <2>7. CASE ProveMint(t)
    BY <1>1, <2>1, <2>2, <2>3, <2>7 DEF ProveMint
  <2>8. CASE \E p \in Principal : MintBegin(t, p)
    <3>1. PICK p \in Principal : MintBegin(t, p)
      BY <2>8
    <3>2. p = Recovery \/ Founder(p) \in bindings
      <4>1. ASSUME NEW b \in bindings, b.name = p, b.by = "operational", b.admin
            PROVE  Founder(p) \in bindings
        <5>1. b \in Binding /\ b.v = 1 /\ b.pair = 1
          BY <4>1 DEF TypeOK, RowsInv
        <5>2. b = Founder(p)
          BY <4>1, <5>1 DEF Binding, Founder
        <5>3. QED
          BY <5>2
      <4>2. QED
        BY <3>1, <4>1 DEF MintBegin, AdminSession, IsAdmin
    <3> DEFINE o == [pc |-> "minting", who |-> p]
    <3>3. /\ Goto(t, o) /\ UNCHANGED Rows /\ UNCHANGED <<bindings, nonces>>
          /\ o.pc = "minting" /\ o.who = p
      BY <3>1 DEF MintBegin, tables
    <3> HIDE DEF o
    <3>4. QED
      BY <1>1, <2>1, <2>2, <3>2, <3>3
  <2>9. CASE \E k \in Key : MintKey(t, k)
    <3>1. PICK k \in Key : MintKey(t, k)
      BY <2>9
    <3>2. /\ keys[k] = "none" /\ op[t].who \in Principal
          /\ op[t].who = Recovery \/ Founder(op[t].who) \in bindings
          /\ \A j \in Key : keys'[j] = IF j = k THEN "issued" ELSE keys[j]
          /\ \A j \in Key : minter'[j] = IF j = k THEN op[t].who ELSE minter[j]
          /\ \A u \in Task : op'[u] = IF u = t THEN Idle ELSE op[u]
          /\ UNCHANGED <<account, claim, bindings, mirror, nonces>>
      BY <2>0, <3>1, OpFields DEF MintKey, TypeOK, LocalsInv, Goto
    <3>3. \A n \in Name : account[n] # k
      BY <3>2 DEF RowsInv, KeyOpensOneAccount, Enrolled
    <3>4. LocksInv'
      BY <2>3, <3>2 DEF LocksInv, HoldsKey, HoldsName, HoldsClaim, Enrolled
    <3>5. LocalsInv'
      BY <2>3, <3>2 DEF LocalsInv
    <3>6. RowsInv'
      <4>1. KeyOpensOneAccount'
        BY <3>2, <3>3 DEF RowsInv, KeyOpensOneAccount, Enrolled
      <4>2. FirstAdminOnce'
        BY <3>2 DEF RowsInv, FirstAdminOnce
      <4>3. op[t].who # Recovery => account[op[t].who] # k
        BY <3>2, <3>3 DEF Principal
      <4>4. QED
        BY <3>2, <4>1, <4>2, <4>3 DEF RowsInv, Enrolled
    <3>7. QED
      BY <3>4, <3>5, <3>6
  <2>10. CASE \E n \in Name, k \in Key : Register(t, n, k)
    <3>1. PICK n \in Name, k \in Key : Register(t, n, k)
      BY <2>10
    <3> DEFINE o == [pc |-> "admitted", name |-> n, key |-> k]
    <3>2. /\ Goto(t, o) /\ UNCHANGED Rows /\ UNCHANGED <<bindings, nonces>>
          /\ o.pc = "admitted"
      BY <3>1 DEF Register, tables
    <3> HIDE DEF o
    <3>3. QED
      BY <1>1, <2>1, <2>2, <3>2
  <2>11. CASE ConsumeKey(t)
    <3>1. UNCHANGED Rows /\ UNCHANGED <<bindings, nonces>> /\ op[t].pc = "admitted" /\ ~Waits(t)
      BY <2>11 DEF ConsumeKey, tables
    <3>2. CASE Goto(t, Idle)
      BY <1>1, <2>1, <2>2, <2>3, <3>1, <3>2
    <3>3. CASE Goto(t, [op[t] EXCEPT !.pc = "keyed"]) /\ keys[op[t].key] = "issued"
      <4> DEFINE o == [op[t] EXCEPT !.pc = "keyed"]
      <4>1. o.pc = "keyed" /\ o.key = op[t].key
        BY <2>0, <3>1, OpFields
      <4>2. \A u \in Task : u # t => ~HoldsKey(u, op[t].key)
        BY <3>1 DEF Waits, WaitsFor
      <4>3. Goto(t, o)
        BY <3>3
      <4> HIDE DEF o
      <4>4. \A u \in Task : op'[u] = IF u = t THEN o ELSE op[u]
        BY <2>0, <4>3 DEF Goto
      <4>5. LocksInv'
        BY <3>1, <3>3, <4>1, <4>2, <4>4 DEF LocksInv, HoldsKey, HoldsName, HoldsClaim, Enrolled
      <4>6. QED
        BY <1>1, <2>2, <3>1, <4>1, <4>3, <4>5
    <3>4. QED
      BY <2>11, <3>2, <3>3 DEF ConsumeKey
  <2>12. CASE CreateUser(t)
    <3>1. UNCHANGED Rows /\ UNCHANGED <<bindings, nonces>> /\ op[t].pc = "keyed" /\ ~Waits(t)
      BY <2>12 DEF CreateUser, tables
    <3>2. CASE Goto(t, Idle)
      BY <1>1, <2>1, <2>2, <2>3, <3>1, <3>2
    <3>3. CASE Goto(t, [op[t] EXCEPT !.pc = "named"]) /\ ~Enrolled(op[t].name)
      <4> DEFINE o == [op[t] EXCEPT !.pc = "named"]
      <4>1. o.pc = "named" /\ o.key = op[t].key /\ o.name = op[t].name
        BY <2>0, <3>1, OpFields
      <4>2. \A u \in Task : u # t => ~HoldsName(u, op[t].name)
        BY <3>1 DEF Waits, WaitsFor
      <4>3. Goto(t, o)
        BY <3>3
      <4> HIDE DEF o
      <4>4. \A u \in Task : op'[u] = IF u = t THEN o ELSE op[u]
        BY <2>0, <4>3 DEF Goto
      <4>5. LocksInv'
        BY <3>1, <3>3, <4>1, <4>2, <4>4 DEF LocksInv, HoldsKey, HoldsName, HoldsClaim, Enrolled
      <4>6. QED
        BY <1>1, <2>2, <3>1, <4>1, <4>3, <4>5
    <3>4. QED
      BY <2>12, <3>2, <3>3 DEF CreateUser
  <2>13. CASE ClaimFirst(t)
    <3> DEFINE o == [pc |-> "claimed", name |-> op[t].name, key |-> op[t].key, admin |-> ~claim]
    <3>1. /\ UNCHANGED Rows /\ UNCHANGED <<bindings, nonces>> /\ op[t].pc = "named" /\ ~Waits(t)
          /\ Goto(t, o)
      BY <2>13 DEF ClaimFirst, tables
    <3>2. o.pc = "claimed" /\ o.key = op[t].key /\ o.name = op[t].name
      OBVIOUS
    <3>3. o.admin <=> ~claim
      OBVIOUS
    <3>4. \A u \in Task : u # t => ~HoldsClaim(u)
      BY <3>1 DEF Waits, WaitsFor
    <3> HIDE DEF o
    <3>5. \A u \in Task : op'[u] = IF u = t THEN o ELSE op[u]
      BY <2>0, <3>1 DEF Goto
    <3>6. LocksInv'
      BY <3>1, <3>2, <3>3, <3>4, <3>5 DEF LocksInv, HoldsKey, HoldsName, HoldsClaim, Enrolled
    <3>7. QED
      BY <1>1, <2>2, <3>1, <3>2, <3>6
  <2>14. CASE EnrollCommit(t)
    <3> DEFINE n == op[t].name
               k == op[t].key
               new == [name |-> n, v |-> 1, pair |-> 1, admin |-> op[t].admin, by |-> "operational"]
    <3>1. /\ n \in Name /\ k \in Key /\ k # NoKey /\ op[t].admin \in BOOLEAN
          /\ op[t].pc = "claimed"
      BY <2>0, <2>14, OpFields DEF EnrollCommit
    <3>2. /\ HoldsKey(t, k) /\ HoldsName(t, n) /\ keys[k] = "issued" /\ account[n] = NoKey
          /\ op[t].admin <=> ~claim
      BY <3>1 DEF HoldsKey, HoldsName, LocksInv, Enrolled
    <3>3. /\ \A j \in Key : keys'[j] = IF j = k THEN "used" ELSE keys[j]
          /\ \A m \in Name : account'[m] = IF m = n THEN k ELSE account[m]
          /\ \A m \in Name : mirror'[m] = IF m = n THEN 1 ELSE mirror[m]
          /\ \A u \in Task : op'[u] = IF u = t THEN Idle ELSE op[u]
          /\ bindings' = bindings \cup {new}
          /\ UNCHANGED <<nonces, minter>>
      BY <2>14, <3>1 DEF EnrollCommit, TypeOK, Goto
    <3>4. claim'
      BY <2>14, <3>2 DEF EnrollCommit
    <3>5. \A m \in Name : account[m] # k
      BY <3>1, <3>2 DEF RowsInv, KeyOpensOneAccount, Enrolled
    <3>6. new.name = n /\ new.v = 1 /\ new.pair = 1 /\ new.by = "operational"
      OBVIOUS
    <3>7. new.admin <=> ~claim
      BY <3>2
    <3> HIDE DEF n, k, new
    <3>8. LocksInv'
      <4>1. ASSUME NEW u \in Task, u # t
            PROVE  /\ ~HoldsKey(u, k) /\ ~HoldsName(u, n)
                   /\ op[u].pc = "claimed" => ~op[u].admin
        <5>1. ~HoldsKey(u, k) /\ ~HoldsName(u, n)
          BY <3>1, <3>2, <4>1 DEF LocksInv
        <5>2. op[u].pc = "claimed" => ~op[u].admin
          <6>1. CASE claim
            BY <6>1 DEF LocksInv
          <6>2. CASE ~claim
            BY <3>1, <3>2, <4>1, <6>2 DEF LocksInv, HoldsClaim
          <6>3. QED
            BY <6>1, <6>2
        <5>3. QED
          BY <5>1, <5>2
      <4>2. \A u, w \in Task : u # w =>
              /\ \A j \in Key : ~(HoldsKey(u, j)' /\ HoldsKey(w, j)')
              /\ \A m \in Name : ~(HoldsName(u, m)' /\ HoldsName(w, m)')
              /\ ~(HoldsClaim(u)' /\ HoldsClaim(w)')
        BY <2>3, <3>3 DEF LocksInv, HoldsKey, HoldsName, HoldsClaim
      <4>3. \A u \in Task :
              /\ \A j \in Key : HoldsKey(u, j)' => keys'[j] = "issued"
              /\ \A m \in Name : HoldsName(u, m)' => ~Enrolled(m)'
        BY <2>3, <3>1, <3>3, <4>1 DEF LocksInv, HoldsKey, HoldsName, Enrolled
      <4>4. \A u \in Task : op'[u].pc = "claimed" => (op'[u].admin <=> ~claim')
        BY <2>3, <3>3, <3>4, <4>1
      <4>5. QED
        BY <4>2, <4>3, <4>4 DEF LocksInv
    <3>9. LocalsInv'
      BY <2>3, <3>3 DEF LocalsInv
    <3>10. FirstAdminOnce'
      <4>1. CASE claim
        <5>1. {b \in bindings' : b.by = "operational" /\ b.admin}
                = {b \in bindings : b.by = "operational" /\ b.admin}
          BY <3>3, <3>7, <4>1
        <5>2. QED
          BY <3>4, <4>1, <5>1 DEF RowsInv, FirstAdminOnce
      <4>2. CASE ~claim
        <5>1. {b \in bindings : b.by = "operational" /\ b.admin} = {}
          BY <4>2 DEF RowsInv, FirstAdminOnce
        <5>2. {b \in bindings' : b.by = "operational" /\ b.admin} = {new}
          BY <3>3, <3>6, <3>7, <4>2, <5>1
        <5>3. QED
          BY <3>4, <5>2 DEF FirstAdminOnce
      <4>3. QED
        BY <4>1, <4>2
    <3>11. KeyOpensOneAccount'
      BY <3>1, <3>2, <3>3, <3>5 DEF RowsInv, KeyOpensOneAccount, Enrolled
    <3>13. \A b \in bindings' : b.by = "operational" => b.v = 1 /\ b.pair = 1 /\ Enrolled(b.name)'
      <4>1. \A b \in bindings : b.name \in Name
        BY DEF TypeOK, Binding
      <4>2. QED
        BY <3>1, <3>3, <3>6, <4>1 DEF RowsInv, Enrolled
    <3>14. ASSUME NEW j \in Key
           PROVE  /\ minter'[j] # NoOne => keys'[j] # "none"
                  /\ minter'[j] \in {NoOne, Recovery}
                       \/ (Founder(minter'[j]) \in bindings' /\ account'[minter'[j]] # j)
      <4>1. minter'[j] = minter[j] /\ (minter[j] # NoOne => keys'[j] # "none")
        BY <3>3 DEF RowsInv
      <4>2. CASE minter[j] \notin {NoOne, Recovery}
        <5>1. Founder(minter[j]) \in bindings /\ account[minter[j]] # j
          BY <4>2 DEF RowsInv
        <5>2. Enrolled(minter[j]) /\ minter[j] \in Name
          BY <5>1 DEF RowsInv, Founder, TypeOK, Binding
        <5>3. minter[j] # n
          BY <3>2, <5>2 DEF Enrolled
        <5>4. QED
          BY <3>3, <4>1, <5>1, <5>2, <5>3
      <4>3. QED
        BY <4>1, <4>2
    <3>15. QED
      BY <3>8, <3>9, <3>10, <3>11, <3>13, <3>14 DEF RowsInv
  <2>15. CASE \E n \in Name, v \in Version, k \in Pair : PutBinding(t, n, v, k)
    <3>1. PICK n \in Name, v \in Version, k \in Pair : PutBinding(t, n, v, k)
      BY <2>15
    <3> DEFINE o == [pc |-> "publishing", name |-> n, pair |-> k]
               new == [name |-> n, v |-> v, pair |-> k, admin |-> n \in Promoted, by |-> "root"]
    <3>2. /\ Goto(t, o) /\ o.pc = "publishing"
          /\ UNCHANGED <<keys, account, claim, minter, nonces>>
      BY <3>1 DEF PutBinding
    <3>3. bindings \subseteq bindings' /\ bindings' \subseteq bindings \cup {new}
      BY <3>1 DEF PutBinding
    <3>4. new.by = "root"
      OBVIOUS
    <3> HIDE DEF o, new
    <3>5. \A u \in Task : op'[u] = IF u = t THEN o ELSE op[u]
      BY <2>0, <3>2 DEF Goto
    <3>6. LocksInv'
      BY <3>2, <3>5 DEF LocksInv, HoldsKey, HoldsName, HoldsClaim, Enrolled
    <3>7. LocalsInv'
      BY <3>2, <3>3, <3>5 DEF LocalsInv
    <3>8. {b \in bindings' : b.by = "operational" /\ b.admin}
            = {b \in bindings : b.by = "operational" /\ b.admin}
      BY <3>3, <3>4
    <3>9. FirstAdminOnce' /\ KeyOpensOneAccount'
      BY <3>2, <3>3, <3>8
         DEF RowsInv, FirstAdminOnce, KeyOpensOneAccount, Enrolled
    <3>10. QED
      BY <3>2, <3>3, <3>4, <3>6, <3>7, <3>9 DEF RowsInv, Enrolled
  <2>16. CASE SyncMirror(t)
    <3>1. Goto(t, Idle) /\ UNCHANGED <<Rows, nonces>>
      BY <2>16 DEF SyncMirror
    <3>2. \A u \in Task : op'[u] = IF u = t THEN Idle ELSE op[u]
      BY <2>0, <3>1 DEF Goto
    <3>3. LocksInv' /\ LocalsInv'
      BY <2>3, <3>1, <3>2 DEF LocksInv, LocalsInv, HoldsKey, HoldsName, HoldsClaim, Enrolled
    <3>4. QED
      BY <1>1, <3>1, <3>3
  <2>17. CASE Drop(t)
    BY <1>1, <2>1, <2>2, <2>3, <2>17 DEF Drop, tables
  <2>18. QED
    BY <1>4, <2>4, <2>5, <2>6, <2>7, <2>8, <2>9, <2>10, <2>11, <2>12, <2>13, <2>14, <2>15,
       <2>16, <2>17 DEF Request, EnrollStep
<1>5. CASE Restart
  <2>1. /\ UNCHANGED <<Rows, nonces>>
        /\ \A u \in Task : op'[u].pc = "idle"
    BY <1>5 DEF Restart, tables, Idle
  <2>2. QED
    BY <1>1, <2>1 DEF LocksInv, LocalsInv, HoldsKey, HoldsName, HoldsClaim
<1>6. CASE DelegationNext /\ UNCHANGED <<tables, op>>
  BY <1>2, <1>6 DEF tables
<1>7. CASE UNCHANGED vars
  BY <1>2, <1>7 DEF vars, tables
<1>8. QED
  BY <1>3, <1>4, <1>5, <1>6, <1>7 DEF Next

LEMMA InvHolds == Spec => []IInv
<1>1. Init => IInv
  BY TypeInit, FilesInit, AccountsInit DEF IInv
<1>2. IInv /\ [Next]_vars => IInv'
  BY TypeStep, FilesStep, DelegationSteps, AccountsStep DEF IInv, TypeOK
<1>3. QED
  BY <1>1, <1>2, PTL DEF Spec

\* One enrollment, the first to commit, makes an admin.
THEOREM FirstAdminOnceHolds == Spec => []FirstAdminOnce
<1>1. IInv => FirstAdminOnce
  BY DEF IInv, RowsInv
<1>2. QED
  BY <1>1, InvHolds, PTL

\* A registration key opens one account and is spent with it.
THEOREM KeyOpensOneAccountHolds == Spec => []KeyOpensOneAccount
<1>1. IInv => KeyOpensOneAccount
  BY DEF IInv, RowsInv
<1>2. QED
  BY <1>1, InvHolds, PTL

\* Whoever invites is the recovery principal or the server's own admin.
THEOREM OnlyAdminsInviteHolds == Spec => []OnlyAdminsInvite
<1>1. IInv => OnlyAdminsInvite
  BY DEF IInv, RowsInv, OnlyAdminsInvite, Founder
<1>2. QED
  BY <1>1, InvHolds, PTL

\* A proof that came late mints no session.
THEOREM NoLateReplayHolds == Spec => []NoLateReplay
<1>1. IInv => NoLateReplay
  BY DEF IInv, LocalsInv, NoLateReplay
<1>2. QED
  BY <1>1, InvHolds, PTL

\* What the root would have to keep to: a version that is bound is published
\* again with the key pair it has.
OneKeyPerVersion ==
  \A t \in Task, n \in Name, v \in Version, k \in Pair :
    PutBinding(t, n, v, k) => \A b \in bindings : b.name = n /\ b.v = v => b.pair = k

\* A publication under way has bound the key pair that the mirror moves to.
KeysInv ==
  /\ LoginKeyIsBound
  /\ \A t \in Task : op[t].pc = "publishing" =>
       \E b \in bindings : b.name = op[t].name /\ b.pair = op[t].pair

LEMMA KeysStep ==
  ASSUME TypeOK, KeysInv, [OneKeyPerVersion]_vars, [Next]_vars
  PROVE  KeysInv'
<1>0. op \in [Task -> Op] /\ \A t \in Task : op[t] \in Op
  BY DEF TypeOK
<1>1. ASSUME bindings \subseteq bindings', UNCHANGED mirror,
             \A t \in Task : op'[t].pc = "publishing" => op'[t] = op[t]
      PROVE  KeysInv'
  BY <1>1 DEF KeysInv, LoginKeyIsBound
<1>2. ASSUME NEW t \in Task, NEW n \in Name, NEW v \in Version, NEW k \in Pair,
             PutBinding(t, n, v, k)
      PROVE  KeysInv'
  <2> DEFINE o == [pc |-> "publishing", name |-> n, pair |-> k]
             new == [name |-> n, v |-> v, pair |-> k, admin |-> n \in Promoted, by |-> "root"]
  <2>1. /\ Goto(t, o) /\ UNCHANGED mirror
        /\ o.name = n /\ o.pair = k /\ new.name = n /\ new.pair = k
        /\ \/ bindings' = bindings /\ \E b \in bindings : b.name = n /\ b.v = v
           \/ bindings' = bindings \cup {new}
    BY <1>2 DEF PutBinding
  <2>2. op # op'
    <3>1. op[t] = Idle /\ Idle.pc # "publishing" /\ op'[t].pc = "publishing"
      BY <1>0, <1>2 DEF PutBinding, Goto, Idle
    <3> QED
      BY <3>1
  <2>3. \A b \in bindings : b.name = n /\ b.v = v => b.pair = k
    BY <1>2, <2>2 DEF OneKeyPerVersion, vars
  <2> HIDE DEF o, new
  <2>4. bindings \subseteq bindings' /\ \E b \in bindings' : b.name = n /\ b.pair = k
    BY <2>1, <2>3
  <2>5. \A u \in Task : op'[u] = IF u = t THEN o ELSE op[u]
    BY <1>0, <2>1 DEF Goto
  <2> QED
    BY <2>1, <2>4, <2>5 DEF KeysInv, LoginKeyIsBound
<1>3. ASSUME NEW t \in Task, SyncMirror(t)
      PROVE  KeysInv'
  <2>1. /\ \A n \in Name : mirror'[n] = IF n = op[t].name THEN op[t].pair ELSE mirror[n]
        /\ \A u \in Task : op'[u] = IF u = t THEN Idle ELSE op[u]
        /\ op[t].pc = "publishing" /\ UNCHANGED bindings
    BY <1>0, <1>3 DEF SyncMirror, Goto, TypeOK
  <2> QED
    BY <2>1 DEF KeysInv, LoginKeyIsBound, Idle
<1>4. ASSUME NEW t \in Task, EnrollCommit(t)
      PROVE  KeysInv'
  <2> DEFINE new == [name |-> op[t].name, v |-> 1, pair |-> 1, admin |-> op[t].admin,
                     by |-> "operational"]
  <2>1. /\ \A n \in Name : mirror'[n] = IF n = op[t].name THEN 1 ELSE mirror[n]
        /\ \A u \in Task : op'[u] = IF u = t THEN Idle ELSE op[u]
        /\ bindings' = bindings \cup {new} /\ new.name = op[t].name /\ new.pair = 1
    BY <1>0, <1>4 DEF EnrollCommit, Goto, TypeOK
  <2> HIDE DEF new
  <2> QED
    BY <2>1 DEF KeysInv, LoginKeyIsBound, Idle
<1>5. ASSUME NEW t \in Task, UNCHANGED <<bindings, mirror>>,
             \E o : Goto(t, o) /\ o.pc # "publishing"
      PROVE  KeysInv'
  BY <1>0, <1>1, <1>5 DEF Goto
<1>6. ASSUME NEW t \in Task, Request(t)
      PROVE  KeysInv'
  <2>1. CASE \E p \in Principal, x \in Nonce : ProveKnown(t, p, x)
    BY <1>5, <2>1 DEF ProveKnown, tables
  <2>2. CASE ProveVerify(t) \/ ProveConsume(t)
    <3>1. [op[t] EXCEPT !.pc = "verified"].pc # "publishing"
            /\ [op[t] EXCEPT !.pc = "consumed"].pc # "publishing" /\ Idle.pc # "publishing"
      BY <1>0, <2>2, OpFields DEF ProveVerify, ProveConsume, Idle
    <3> QED
      BY <1>5, <2>2, <3>1 DEF ProveVerify, ProveConsume, tables
  <2>3. CASE Goto(t, Idle) /\ UNCHANGED <<bindings, mirror>>
    BY <1>5, <2>3 DEF Idle
  <2>4. CASE \E p \in Principal : MintBegin(t, p)
    BY <1>5, <2>4 DEF MintBegin, tables
  <2>5. CASE \E n \in Name, k \in Key : Register(t, n, k)
    BY <1>5, <2>5 DEF Register, tables
  <2>6. CASE ConsumeKey(t) \/ CreateUser(t) \/ ClaimFirst(t)
    <3>1. [op[t] EXCEPT !.pc = "keyed"].pc # "publishing"
            /\ [op[t] EXCEPT !.pc = "named"].pc # "publishing" /\ Idle.pc # "publishing"
      BY <1>0, <2>6, OpFields DEF ConsumeKey, CreateUser, ClaimFirst, Idle
    <3> QED
      BY <1>5, <2>6, <3>1 DEF ConsumeKey, CreateUser, ClaimFirst, tables
  <2> QED
    BY <1>2, <1>3, <1>4, <1>6, <2>1, <2>2, <2>3, <2>4, <2>5, <2>6
    DEF Request, EnrollStep, ProveMint, MintKey, Drop, tables
<1>7. CASE UNCHANGED <<bindings, mirror, op>>
  BY <1>1, <1>7
<1>8. CASE Restart
  BY <1>1, <1>8 DEF Restart, tables, Idle
<1> QED
  BY <1>6, <1>7, <1>8 DEF Next, vars, tables, Session, RegisterRecovery, Challenge,
     NonceExpires, Prune, SessionEnds, RenewDelegation

\* As long as the root publishes a bound version again with the keys it has, and never
\* with others, the key a user logs in with is in the directory, wherever handlers are
\* cut short.  The server does not see to it.
THEOREM LoginKeyIsBoundHolds == Spec /\ [][OneKeyPerVersion]_vars => []LoginKeyIsBound
<1>1. Init => KeysInv
  BY DEF Init, KeysInv, LoginKeyIsBound, Idle
<1>2. IInv => TypeOK
  BY DEF IInv
<1>3. TypeOK /\ KeysInv /\ [OneKeyPerVersion]_vars /\ [Next]_vars => KeysInv'
  BY KeysStep
<1>4. KeysInv => LoginKeyIsBound
  BY DEF KeysInv
<1> QED
  BY <1>1, <1>2, <1>3, <1>4, InvHolds, PTL DEF Spec

\* Enrollments take their locks in one order, so some enrollment of any set
\* waits for none of that set.
THEOREM NoWaitCycleHolds == Spec => []NoWaitCycle
<1>1. NoWaitCycle
  <2> SUFFICES ASSUME NEW S \in SUBSET Task, S # {}
               PROVE  \E t \in S : \A u \in S : ~WaitsFor(t, u)
    BY DEF NoWaitCycle
  <2>1. CASE \E t \in S : op[t].pc = "claimed"
    BY <2>1 DEF WaitsFor
  <2>2. CASE ~(\E t \in S : op[t].pc = "claimed") /\ \E t \in S : op[t].pc = "named"
    BY <2>2 DEF WaitsFor, HoldsClaim
  <2>3. CASE ~(\E t \in S : op[t].pc \in {"claimed", "named"}) /\ \E t \in S : op[t].pc = "keyed"
    BY <2>3 DEF WaitsFor, HoldsName
  <2>4. CASE ~(\E t \in S : op[t].pc \in {"claimed", "named", "keyed"})
    BY <2>4 DEF WaitsFor, HoldsKey
  <2>5. QED
    BY <2>1, <2>2, <2>3, <2>4
<1>2. QED
  BY <1>1, PTL

-----------------------------------------------------------------------------
(* The server is a registry. *)

Enrolling == {"admitted", "keyed", "named", "claimed"}

\* What the refinement needs besides: the root that publishes is the one served, nobody
\* enrolls before one is, a key that is out has an inviter, and the first to enroll takes
\* the claim.
RegistryInv ==
  /\ pinned \in {NoRoot, installed.pub}
  /\ \A t \in Task : op[t].pc \in Enrolling => installed.pub # NoRoot
  /\ \A k \in Key : keys[k] # "none" => minter[k] # NoOne
  /\ (\E n \in Name : Enrolled(n)) => claim

LEMMA RootServed ==
  ASSUME TypeOK
  PROVE  /\ installed = NoDelegation <=> installed.pub = NoRoot
         /\ installed.pub \in Root \cup {NoRoot}
  BY DEF TypeOK, DelegationTypeOK, Installed, NoDelegation

\* A root comes once and stays; the root pinned is the one that was loaded.
LEMMA RootOnce ==
  ASSUME TypeOK, FilesInv, [Next]_vars
  PROVE  /\ installed'.pub = installed.pub \/ (installed.pub = NoRoot /\ installed'.pub \in Root)
         /\ pinned' \in {pinned, installed'.pub}
<1>1. CASE UNCHANGED delegation
  BY <1>1 DEF delegation
<1>2. CASE \E c \in Cert : Renew(c)
  BY <1>2 DEF Renew, TypeOK, DelegationTypeOK, Installed
<1>3. CASE DelegationNext
  <2>1. CASE BurnAndFlip
    <3>1. installed = NoDelegation /\ ceremony.pub \in Root
      BY <2>1 DEF BurnAndFlip, FilesInv, NoCeremony, TypeOK, DelegationTypeOK, Ceremony
    <3> QED
      BY <2>1, <3>1 DEF BurnAndFlip, NoDelegation
  <2> QED
    BY <1>3, <2>1 DEF DelegationNext, InstallBegin, PersistPub, PersistCert, PersistFails, Expire
<1>4. CASE Reboot
  <2>1. installed' = Loaded(disk) /\ pinned' = installed'.pub
    BY <1>4 DEF Reboot
  <2>2. installed.pub # NoRoot => Loaded(disk) = installed
    BY RootServed DEF FilesInv, Loaded, TypeOK, DelegationTypeOK, Installed
  <2>3. Loaded(disk).pub \in Root \cup {NoRoot}
    BY DEF Loaded, TypeOK, DelegationTypeOK, NoDelegation
  <2> QED
    BY <2>1, <2>2, <2>3, RootServed
<1> QED
  BY <1>1, <1>2, <1>3, <1>4, DelegationSteps

LEMMA RegistryInit == Init => RegistryInv
  BY DEF Init, DelegationInit, RegistryInv, Enrolling, Idle, NoDelegation, Enrolled

LEMMA RegistryInvStep ==
  ASSUME IInv, RegistryInv, [Next]_vars
  PROVE  RegistryInv'
<1>0. TypeOK /\ FilesInv /\ LocksInv /\ op \in [Task -> Op]
  BY DEF IInv, TypeOK
<1>1. pinned' \in {NoRoot, installed'.pub}
  BY <1>0, RootOnce, RootServed DEF RegistryInv
<1>2. installed.pub # NoRoot => installed'.pub # NoRoot
  BY <1>0, RootOnce
<1>3. ASSUME NEW t \in Task, \A u \in Task : u # t => op'[u] = op[u],
             op'[t].pc \in Enrolling => op[t].pc \in Enrolling \/ EnrollmentOpen
      PROVE  \A u \in Task : op'[u].pc \in Enrolling => installed'.pub # NoRoot
  BY <1>0, <1>2, <1>3, RootServed DEF RegistryInv, EnrollmentOpen
<1>4. ASSUME UNCHANGED <<keys, account, claim, minter>>,
             \A u \in Task : op'[u].pc \in Enrolling => installed'.pub # NoRoot
      PROVE  RegistryInv'
  BY <1>1, <1>4 DEF RegistryInv, Enrolled
<1>5. ASSUME NEW t \in Task, Request(t)
      PROVE  RegistryInv'
  <2>1. /\ \A u \in Task : u # t => op'[u] = op[u]
        /\ op'[t].pc \in Enrolling => op[t].pc \in Enrolling \/ EnrollmentOpen
    <3>1. ASSUME NEW o, Goto(t, o),
                 o.pc \in Enrolling => op[t].pc \in Enrolling \/ EnrollmentOpen
          PROVE  /\ \A u \in Task : u # t => op'[u] = op[u]
                 /\ op'[t].pc \in Enrolling => op[t].pc \in Enrolling \/ EnrollmentOpen
      BY <1>0, <3>1 DEF Goto
    <3>2. Idle.pc \notin Enrolling
      BY DEF Idle, Enrolling
    <3>3. CASE \E p \in Principal, x \in Nonce : ProveKnown(t, p, x)
      BY <3>1, <3>3 DEF ProveKnown, Enrolling
    <3>4. CASE ProveVerify(t)
      BY <1>0, <3>1, <3>2, <3>4, OpFields DEF ProveVerify, Enrolling
    <3>5. CASE ProveConsume(t)
      BY <1>0, <3>1, <3>5, OpFields DEF ProveConsume, Enrolling
    <3>6. CASE \E p \in Principal : MintBegin(t, p)
      BY <3>1, <3>6 DEF MintBegin, Enrolling
    <3>7. CASE \E n \in Name, k \in Key : Register(t, n, k)
      BY <3>1, <3>7 DEF Register
    <3>8. CASE ConsumeKey(t) \/ CreateUser(t) \/ ClaimFirst(t)
      <4>1. op[t].pc \in Enrolling /\ \E o : Goto(t, o)
        BY <3>8 DEF ConsumeKey, CreateUser, ClaimFirst, Enrolling
      <4> QED
        BY <3>1, <4>1
    <3>9. CASE \E n \in Name, v \in Version, k \in Pair : PutBinding(t, n, v, k)
      BY <3>1, <3>9 DEF PutBinding, Enrolling
    <3>10. CASE Goto(t, Idle)
      BY <3>1, <3>2, <3>10
    <3> QED
      BY <1>5, <3>3, <3>4, <3>5, <3>6, <3>7, <3>8, <3>9, <3>10
      DEF Request, EnrollStep, ProveMint, MintKey, EnrollCommit, SyncMirror, Drop
  <2>2. CASE \E k \in Key : MintKey(t, k)
    <3>1. PICK k \in Key : MintKey(t, k)
      BY <2>2
    <3>2. /\ op[t].who \in Principal
          /\ \A j \in Key : keys'[j] = IF j = k THEN "issued" ELSE keys[j]
          /\ \A j \in Key : minter'[j] = IF j = k THEN op[t].who ELSE minter[j]
          /\ UNCHANGED <<account, claim>>
      BY <1>0, <3>1, OpFields DEF MintKey, TypeOK
    <3> QED
      BY <1>1, <1>3, <2>1, <3>2 DEF RegistryInv, Enrolled, Principal
  <2>3. CASE EnrollCommit(t)
    <3>1. /\ op[t].key \in Key /\ keys[op[t].key] = "issued"
          /\ op[t].admin <=> ~claim
      BY <1>0, <2>3, OpFields DEF EnrollCommit, LocksInv, HoldsKey
    <3>2. /\ \A j \in Key : keys'[j] = IF j = op[t].key THEN "used" ELSE keys[j]
          /\ claim' /\ UNCHANGED minter
      BY <1>0, <2>3, <3>1 DEF EnrollCommit, TypeOK
    <3> QED
      BY <1>1, <1>3, <2>1, <3>1, <3>2 DEF RegistryInv
  <2> QED
    BY <1>3, <1>4, <1>5, <2>1, <2>2, <2>3
    DEF Request, EnrollStep, ProveKnown, ProveVerify, ProveConsume, ProveMint, MintBegin,
        Register, ConsumeKey, CreateUser, ClaimFirst, PutBinding, SyncMirror, Drop, tables
<1>6. CASE Restart
  <2>1. \A u \in Task : op'[u].pc \notin Enrolling
    BY <1>6 DEF Restart, Idle, Enrolling
  <2> QED
    BY <1>4, <1>6, <2>1 DEF Restart, tables
<1>7. ASSUME UNCHANGED <<keys, account, claim, minter, op>>
      PROVE  RegistryInv'
  BY <1>2, <1>4, <1>7 DEF RegistryInv
<1> QED
  BY <1>5, <1>6, <1>7 DEF Next, vars, tables, Session, RegisterRecovery, Challenge,
     NonceExpires, Prune, SessionEnds, RenewDelegation

\* A step of the server is a step of the registry, or shows nothing.
LEMMA RegistryStep ==
  ASSUME IInv, RegistryInv, [Next]_vars
  PROVE  [Promise!Next]_<<installed.pub, minter, account, bindings>>
<1>0. TypeOK /\ FilesInv /\ LocksInv /\ RowsInv /\ LocalsInv /\ op \in [Task -> Op]
  BY DEF IInv, TypeOK
<1>1. ASSUME UNCHANGED <<minter, account, bindings>>
      PROVE  Promise!Request \/ UNCHANGED <<installed.pub, minter, account, bindings>>
  BY <1>0, <1>1, RootOnce DEF Promise!Request, Promise!Serve
<1>2. ASSUME NEW t \in Task, NEW k \in Key, MintKey(t, k)
      PROVE  Promise!Request
  <2>1. /\ op[t].who \in Name \cup {Recovery} /\ UNCHANGED installed
        /\ op[t].who = Recovery \/ Founder(op[t].who) \in bindings
        /\ minter[k] = NoOne
    BY <1>0, <1>2, OpFields DEF MintKey, LocalsInv, RowsInv, Principal, delegation
  <2>2. Promise!Invite(op[t].who, k)
    BY <1>2, <2>1 DEF MintKey, Promise!Invite, Promise!IsFounder, Founder
  <2> QED
    BY <2>1, <2>2 DEF Promise!Request
<1>3. ASSUME NEW t \in Task, EnrollCommit(t)
      PROVE  Promise!Request
  <2> DEFINE n == op[t].name
             k == op[t].key
  <2>1. /\ n \in Name /\ k \in Key /\ op[t].pc = "claimed" /\ op[t].admin \in BOOLEAN
        /\ UNCHANGED <<installed, minter>>
    BY <1>0, <1>3, OpFields DEF EnrollCommit, delegation
  <2>2. keys[k] = "issued" /\ account[n] = NoKey
    BY <1>0, <2>1 DEF LocksInv, HoldsKey, HoldsName, Enrolled
  <2>3. minter[k] # NoOne /\ \A m \in Name : account[m] # k
    BY <1>0, <2>1, <2>2 DEF RegistryInv, RowsInv, KeyOpensOneAccount
  <2>4. installed.pub # NoRoot
    BY <2>1 DEF RegistryInv, Enrolling
  <2>5. claim <=> \E m \in Name : account[m] # NoKey
    <3>1. ASSUME claim PROVE \E m \in Name : account[m] # NoKey
      <4>1. PICK b \in bindings : b.by = "operational"
        BY <1>0, <3>1 DEF RowsInv, FirstAdminOnce
      <4> QED
        BY <1>0, <4>1 DEF RowsInv, Enrolled, TypeOK, Binding
    <3> QED
      BY <3>1 DEF RegistryInv, Enrolled
  <2>6. op[t].admin = (\A m \in Name : account[m] = NoKey)
    BY <1>0, <2>1, <2>5 DEF LocksInv
  <2>7. Promise!Enroll(n, k)
    BY <1>3, <2>1, <2>2, <2>3, <2>4, <2>6 DEF EnrollCommit, Promise!Enroll
  <2> QED
    BY <2>1, <2>7 DEF Promise!Request
<1>4. ASSUME NEW t \in Task, NEW n \in Name, NEW v \in Version, NEW k \in Pair,
             PutBinding(t, n, v, k), bindings' # bindings
      PROVE  Promise!Request
  <2>1. /\ installed.pub # NoRoot /\ account[n] # NoKey
        /\ UNCHANGED <<installed, minter, account>>
    BY <1>4 DEF PutBinding, RegistryInv, Enrolled, delegation
  <2>2. PICK a \in BOOLEAN : a <=> n \in Promoted
    BY Zenon
  <2>3. Promise!Publish(n, v, k, a)
    BY <1>4, <2>1, <2>2 DEF PutBinding, Promise!Publish
  <2> QED
    BY <2>3 DEF Promise!Request
<1>6. ASSUME NEW t \in Task, Request(t)
      PROVE  \/ Promise!Request
             \/ UNCHANGED <<minter, account, bindings>>
  <2>1. ASSUME NEW n \in Name, NEW v \in Version, NEW k \in Pair, PutBinding(t, n, v, k)
        PROVE  Promise!Request \/ UNCHANGED <<minter, account, bindings>>
    BY <1>4, <2>1 DEF PutBinding
  <2> QED
    BY <1>2, <1>3, <1>6, <2>1
    DEF Request, EnrollStep, ProveKnown, ProveVerify, ProveConsume, ProveMint, MintBegin,
        Register, ConsumeKey, CreateUser, ClaimFirst, SyncMirror, Drop, tables
<1>7. Promise!Request \/ UNCHANGED <<installed.pub, minter, account, bindings>>
  BY <1>1, <1>6 DEF Next, vars, tables, Restart, Session, RegisterRecovery, Challenge,
     NonceExpires, Prune, SessionEnds, RenewDelegation
<1> QED
  BY <1>7 DEF Promise!Next, Promise!registryVars

\* However the queries of logins, invitations, enrollments and publications interleave,
\* fail and are rolled back, the server refines the registry that does each at once.
THEOREM AccountsAreRegistry == Spec => ImplementsRegistry
<1>1. Init => Promise!Init
  BY DEF Init, DelegationInit, NoDelegation, Promise!Init
<1>2. Spec => []RegistryInv
  BY InvHolds, RegistryInit, RegistryInvStep, PTL DEF Spec
<1>3. IInv /\ RegistryInv /\ [Next]_vars
        => [Promise!Next]_<<installed.pub, minter, account, bindings>>
  BY RegistryStep
<1> QED
  BY <1>1, <1>2, <1>3, InvHolds, PTL
  DEF Spec, ImplementsRegistry, Promise!Spec, Promise!registryVars
=============================================================================
