------------------------------ MODULE Accounts ------------------------------
(***************************************************************************)
(* Accounts of a production server: the recovery account and its login,    *)
(* registration keys, enrollment, the directory of bindings, login and     *)
(* sessions (crates/server/src/auth.rs, recovery.rs, http.rs, pg.rs), on   *)
(* top of the delegation that opens enrollment.                            *)
(*                                                                         *)
(* op[t] is what request task t is suspended in: a handler between two     *)
(* queries.  enroll is one transaction; it is taken apart at the           *)
(* statements where it may wait for another's row lock, and its locks      *)
(* follow from where it is.  Everything else queries outside transactions. *)
(*                                                                         *)
(* A name stands for the account and its user_id, a key for its hash, a    *)
(* session for the rows of one principal (a token answers on the           *)
(* connection that minted it only; one that has expired answers no more,   *)
(* so its pruning is not seen).  Requests refused before they changed      *)
(* anything are left out.                                                  *)
(***************************************************************************)
EXTENDS Delegation

CONSTANTS
  Task,         \* request tasks
  Name,         \* usernames
  Recovery,     \* the recovery principal
  Key,          \* registration keys
  Nonce,        \* challenge nonces
  KeyVersions,  \* bound: a user's key versions are 1..KeyVersions
  KeyPairs,     \* bound: a user's key pairs are 1..KeyPairs
  Promoted,     \* names that the root's own bindings make admins
  NoOne,        \* no principal
  NoKey         \* no account, in the column of its key

ASSUME AccountsAssumption ==
  /\ Recovery \notin Name
  /\ NoOne \notin Name \cup {Recovery}
  /\ NoKey \notin Key
  /\ KeyVersions \in Nat \ {0} /\ KeyPairs \in Nat \ {0}
  /\ Promoted \subseteq Name

Principal == Name \cup {Recovery}
Version == 1..KeyVersions
Pair == 1..KeyPairs

VARIABLES
  recovery,   \* the recovery_account row is there
  keys,       \* registration_keys: not there, issued or used
  account,    \* users: the key each name was enrolled with, or NoKey
  claim,      \* the first_admin_claim row is there
  bindings,   \* directory_bindings
  mirror,     \* users.sig_pub, the key pair one logs in with; 0 without a row
  nonces,     \* auth_nonces
  sessions,   \* principals with a live session
  minter,     \* history: who minted a key
  op

tables == <<recovery, keys, account, claim, bindings, mirror, nonces, sessions, minter>>
vars == <<delegation, tables, op>>

\* A binding of a key pair to a user's version is signed by the operational key
\* at enrollment, and by the root when it is published.
Binding == [name: Name, v: Version, pair: Pair, admin: BOOLEAN, by: {"operational", "root"}]

NonceRow == [who: Principal \cup {NoOne}, state: {"none", "open", "closed"}]
NoNonce == [who |-> NoOne, state |-> "none"]

Idle == [pc |-> "idle"]
Op ==
  {Idle}
  \cup [pc: {"admitted", "keyed", "named"}, name: Name, key: Key]
  \cup [pc: {"claimed"}, name: Name, key: Key, admin: BOOLEAN]
  \cup [pc: {"minting"}, who: Principal]
  \cup [pc: {"publishing"}, name: Name, pair: Pair]
  \cup [pc: {"known", "verified", "consumed"}, who: Principal, nonce: Nonce, late: BOOLEAN]

\* Type correctness: each row, each handler's locals, and the delegation's.
TypeOK ==
  /\ DelegationTypeOK
  /\ recovery \in BOOLEAN
  /\ keys \in [Key -> {"none", "issued", "used"}]
  /\ account \in [Name -> Key \cup {NoKey}]
  /\ claim \in BOOLEAN
  /\ bindings \subseteq Binding
  /\ mirror \in [Name -> 0..KeyPairs]
  /\ nonces \in [Nonce -> NonceRow]
  /\ sessions \subseteq Principal
  /\ minter \in [Key -> Principal \cup {NoOne}]
  /\ op \in [Task -> Op]

Init ==
  /\ DelegationInit
  /\ recovery = FALSE
  /\ keys = [k \in Key |-> "none"]
  /\ account = [n \in Name |-> NoKey]
  /\ claim = FALSE
  /\ bindings = {}
  /\ mirror = [n \in Name |-> 0]
  /\ nonces = [x \in Nonce |-> NoNonce]
  /\ sessions = {}
  /\ minter = [k \in Key |-> NoOne]
  /\ op = [t \in Task |-> Idle]

Goto(t, o) == op' = [op EXCEPT ![t] = o]
Enrolled(n) == account[n] # NoKey

-----------------------------------------------------------------------------
(* Login.                                                                  *)

\* recovery_register: once.
RegisterRecovery ==
  /\ ~recovery
  /\ recovery' = TRUE
  /\ UNCHANGED <<delegation, keys, account, claim, bindings, mirror, nonces, sessions, minter, op>>

\* challenge and recovery_challenge: a fresh nonce, for unknown names too.
Challenge(p, x) ==
  /\ nonces[x] = NoNonce
  /\ p = Recovery => recovery
  /\ nonces' = [nonces EXCEPT ![x] = [who |-> p, state |-> "open"]]
  /\ UNCHANGED <<delegation, recovery, keys, account, claim, bindings, mirror, sessions, minter, op>>

\* A nonce's minute is over.
NonceExpires(x) ==
  /\ nonces[x].state = "open"
  /\ nonces' = [nonces EXCEPT ![x].state = "closed"]
  /\ UNCHANGED <<delegation, recovery, keys, account, claim, bindings, mirror, sessions, minter, op>>

\* prune_expired_auth_rows: a week past its minute, when no proof made for it
\* can still be on its way; the value stands for a fresh nonce from here on.
Prune(x) ==
  /\ nonces[x].state = "closed"
  /\ \A t \in Task : op[t].pc \in {"known", "verified", "consumed"} => op[t].nonce # x
  /\ nonces' = [nonces EXCEPT ![x] = NoNonce]
  /\ UNCHANGED <<delegation, recovery, keys, account, claim, bindings, mirror, sessions, minter, op>>

\* prove and recovery_verify: the login key is read first.  The proof is made
\* for nonce x with that key (any other proof fails).
ProveKnown(t, p, x) ==
  /\ op[t] = Idle
  /\ IF p = Recovery THEN recovery ELSE Enrolled(p)
  /\ nonces[x].who = p
  /\ Goto(t, [pc |-> "known", who |-> p, nonce |-> x, late |-> nonces[x].state = "closed"])
  /\ UNCHANGED <<delegation, tables>>

\* outstanding_nonces: those neither used nor expired.
OutstandingEver(x) == nonces[x].state # "none"
Outstanding(x) == nonces[x].state = "open"

ProveVerify(t) ==
  /\ op[t].pc = "known"
  /\ IF Outstanding(op[t].nonce)
     THEN Goto(t, [op[t] EXCEPT !.pc = "verified"])
     ELSE Goto(t, Idle)
  /\ UNCHANGED <<delegation, tables>>

\* consume_nonce: whether the row was still unused is not looked at.
ProveConsume(t) ==
  /\ op[t].pc = "verified"
  /\ nonces' = [nonces EXCEPT ![op[t].nonce].state = "closed"]
  /\ Goto(t, [op[t] EXCEPT !.pc = "consumed"])
  /\ UNCHANGED <<delegation, recovery, keys, account, claim, bindings, mirror, sessions, minter>>

ProveMint(t) ==
  /\ op[t].pc = "consumed"
  /\ sessions' = sessions \cup {op[t].who}
  /\ Goto(t, Idle)
  /\ UNCHANGED <<delegation, recovery, keys, account, claim, bindings, mirror, nonces, minter>>

\* logout, or the session expires.
SessionEnds(p) ==
  /\ p \in sessions
  /\ sessions' = sessions \ {p}
  /\ UNCHANGED <<delegation, recovery, keys, account, claim, bindings, mirror, nonces, minter, op>>

-----------------------------------------------------------------------------
(* Admin actions.                                                          *)

Newest(b) == \A c \in bindings : c.name = b.name => c.v <= b.v

\* AdminSession: the recovery principal, or a user whose newest binding was
\* signed by the operational key and carries the role.
IsAdminByRole(p) ==
  p = Recovery \/ \E b \in bindings : b.name = p /\ Newest(b) /\ b.admin
IsAdmin(p) ==
  p = Recovery \/ \E b \in bindings :
                    b.name = p /\ Newest(b) /\ b.by = "operational" /\ b.admin

AdminSession(p) == p \in sessions /\ IsAdmin(p)

\* mint_registration_key: admitted by the extractor, then one INSERT of a
\* fresh key.
MintBegin(t, p) ==
  /\ op[t] = Idle
  /\ AdminSession(p)
  /\ Goto(t, [pc |-> "minting", who |-> p])
  /\ UNCHANGED <<delegation, tables>>

MintKey(t, k) ==
  /\ op[t].pc = "minting"
  /\ keys[k] = "none"
  /\ keys' = [keys EXCEPT ![k] = "issued"]
  /\ minter' = [minter EXCEPT ![k] = op[t].who]
  /\ Goto(t, Idle)
  /\ UNCHANGED <<delegation, recovery, account, claim, bindings, mirror, nonces, sessions>>

\* post_admin_delegation.
RenewDelegation(p, c) ==
  /\ AdminSession(p)
  /\ Renew(c)
  /\ UNCHANGED <<tables, op>>

-----------------------------------------------------------------------------
(* Enrollment.                                                             *)

\* A transaction holds the rows it has changed and the unique values it has
\* inserted until it ends; a statement that needs one of them waits.
HoldsKeyShared(u, k) == op[u].pc \in {"admitted", "keyed", "named", "claimed"} /\ op[u].key = k
HoldsKey(u, k) == op[u].pc \in {"keyed", "named", "claimed"} /\ op[u].key = k
HoldsName(u, n) == op[u].pc \in {"named", "claimed"} /\ op[u].name = n
HoldsClaim(u) == op[u].pc = "claimed" /\ op[u].admin

WaitsFor(t, u) ==
  /\ t # u
  /\ \/ op[t].pc = "admitted" /\ HoldsKey(u, op[t].key)
     \/ op[t].pc = "keyed" /\ HoldsName(u, op[t].name)
     \/ op[t].pc = "named" /\ HoldsClaim(u)

Waits(t) == \E u \in Task : WaitsFor(t, u)

\* register, up to the transaction: enrollment must be open.
Register(t, n, k) ==
  /\ op[t] = Idle
  /\ EnrollmentOpen
  /\ Goto(t, [pc |-> "admitted", name |-> n, key |-> k])
  /\ UNCHANGED <<delegation, tables>>

\* The UPDATE of the key; none updated is KeyInvalid.
ConsumeKeyUnlocked(t) ==
  /\ op[t].pc = "admitted"
  /\ IF keys[op[t].key] = "issued"
     THEN Goto(t, [op[t] EXCEPT !.pc = "keyed"])
     ELSE Goto(t, Idle)
  /\ UNCHANGED <<delegation, tables>>
ConsumeKey(t) ==
  /\ op[t].pc = "admitted"
  /\ ~Waits(t)
  /\ IF keys[op[t].key] = "issued"
     THEN Goto(t, [op[t] EXCEPT !.pc = "keyed"])
     ELSE Goto(t, Idle)
  /\ UNCHANGED <<delegation, tables>>

\* The INSERT of the user; a unique violation rolls the whole back.
CreateUser(t) ==
  /\ op[t].pc = "keyed"
  /\ ~Waits(t)
  /\ IF Enrolled(op[t].name)
     THEN Goto(t, Idle)
     ELSE Goto(t, [op[t] EXCEPT !.pc = "named"])
  /\ UNCHANGED <<delegation, tables>>

\* INSERT INTO first_admin_claim ... ON CONFLICT DO NOTHING.
ClaimFirstUnlocked(t) ==
  /\ op[t].pc = "named"
  /\ Goto(t, [pc |-> "claimed", name |-> op[t].name, key |-> op[t].key, admin |-> ~claim])
  /\ UNCHANGED <<delegation, tables>>
ClaimFirst(t) ==
  /\ op[t].pc = "named"
  /\ ~Waits(t)
  /\ Goto(t, [pc |-> "claimed", name |-> op[t].name, key |-> op[t].key, admin |-> ~claim])
  /\ UNCHANGED <<delegation, tables>>

\* The binding that matches, the mirror, and the commit.  A user enrolls with
\* their first key pair.
EnrollCommit(t) ==
  LET n == op[t].name IN
  /\ op[t].pc = "claimed"
  /\ keys' = [keys EXCEPT ![op[t].key] = "used"]
  /\ account' = [account EXCEPT ![n] = op[t].key]
  /\ claim' = (claim \/ op[t].admin)
  /\ bindings' = bindings \cup
       {[name |-> n, v |-> 1, pair |-> 1, admin |-> op[t].admin, by |-> "operational"]}
  /\ mirror' = [mirror EXCEPT ![n] = 1]
  /\ Goto(t, Idle)
  /\ UNCHANGED <<delegation, recovery, nonces, sessions, minter>>

EnrollStep(t) == ConsumeKey(t) \/ CreateUser(t) \/ ClaimFirst(t) \/ EnrollCommit(t)

-----------------------------------------------------------------------------
(* The directory.                                                          *)

\* publish_binding: signed by the root that was pinned when the server started,
\* and nothing else is looked at.  put_binding inserts into the history, where
\* a version that is there already stays as it is, ...
PutBinding(t, n, v, k) ==
  /\ op[t] = Idle
  /\ pinned # NoRoot
  /\ Enrolled(n)
  /\ bindings' =
       IF \E b \in bindings : b.name = n /\ b.v = v THEN bindings
       ELSE bindings \cup
         {[name |-> n, v |-> v, pair |-> k, admin |-> n \in Promoted, by |-> "root"]}
  /\ Goto(t, [pc |-> "publishing", name |-> n, pair |-> k])
  /\ UNCHANGED <<delegation, recovery, keys, account, claim, mirror, nonces, sessions, minter>>

\* ... and then, in a query of its own, moves the mirror to the posted keys.
SyncMirror(t) ==
  /\ op[t].pc = "publishing"
  /\ mirror' = [mirror EXCEPT ![op[t].name] = op[t].pair]
  /\ Goto(t, Idle)
  /\ UNCHANGED <<delegation, recovery, keys, account, claim, bindings, nonces, sessions, minter>>

-----------------------------------------------------------------------------
\* The connection closes, or the database fails: what the handler had not
\* committed is rolled back.
Drop(t) ==
  /\ op[t] # Idle
  /\ Goto(t, Idle)
  /\ UNCHANGED <<delegation, tables>>

Restart ==
  /\ Reboot
  /\ op' = [t \in Task |-> Idle]
  /\ UNCHANGED tables

Session ==
  \/ RegisterRecovery
  \/ \E p \in Principal, x \in Nonce : Challenge(p, x)
  \/ \E x \in Nonce : NonceExpires(x) \/ Prune(x)
  \/ \E p \in Principal : SessionEnds(p)
  \/ \E p \in Principal, c \in Cert : RenewDelegation(p, c)

Request(t) ==
  \/ \E p \in Principal, x \in Nonce : ProveKnown(t, p, x)
  \/ ProveVerify(t) \/ ProveConsume(t) \/ ProveMint(t)
  \/ \E p \in Principal : MintBegin(t, p)
  \/ \E k \in Key : MintKey(t, k)
  \/ \E n \in Name, k \in Key : Register(t, n, k)
  \/ EnrollStep(t)
  \/ \E n \in Name, v \in Version, k \in Pair : PutBinding(t, n, v, k)
  \/ SyncMirror(t)
  \/ Drop(t)

Next ==
  \/ DelegationNext /\ UNCHANGED <<tables, op>>
  \/ Session
  \/ \E t \in Task : Request(t)
  \/ Restart

Spec == Init /\ [][Next]_vars

-----------------------------------------------------------------------------
(* Properties.                                                             *)

\* The first registrant, and nobody after, is an admin by enrollment: the slot
\* is claimed exactly if one account holds an admin binding of the server's,
\* whatever transactions overlap or are rolled back.
FirstAdminOnce ==
  LET admins == {b \in bindings : b.by = "operational" /\ b.admin} IN
  /\ claim <=> admins # {}
  /\ \A b, c \in admins : b = c

\* A registration key opens one account, and is spent only if it has opened
\* one: a refused, dropped or failed enrollment leaves the key good.
KeyOpensOneAccount ==
  /\ \A m, n \in Name : Enrolled(m) /\ account[m] = account[n] => m = n
  /\ \A k \in Key : keys[k] = "used" <=> \E n \in Name : account[n] = k

\* Only the recovery principal and the one admin of the server's making mint
\* registration keys, though sessions outlive bindings and the root may publish
\* admin bindings for others; and that admin's own key was not minted by itself.
OnlyAdminsInvite ==
  \A k \in Key : LET m == minter[k] IN
    m \in {NoOne, Recovery} \/
      /\ [name |-> m, v |-> 1, pair |-> 1, admin |-> TRUE, by |-> "operational"] \in bindings
      /\ account[m] # k

\* A proof that arrives after its nonce was consumed or has expired mints no
\* session.  Two that both arrive before either consumes it both mint one, since
\* consume_nonce does not look: those are exempt.
NoLateReplay ==
  \A t \in Task : op[t].pc \in {"verified", "consumed"} => ~op[t].late

\* The key that logs a user in is one the directory has a binding of, wherever a
\* handler was dropped: the users row mirrors the directory, whose latest row is
\* "the authoritative copy".  It takes a root that publishes a bound version again
\* with the same keys only, which the server does not see to.
LoginKeyIsBound ==
  \A n \in Name :
    mirror[n] # 0 => \E b \in bindings : b.name = n /\ b.pair = mirror[n]

\* No deadlock: among enrollments that overlap, one waits for none of them.
NoWaitCycle ==
  \A S \in SUBSET Task :
    S # {} => \E t \in S : \A u \in S : ~WaitsFor(t, u)

\* However its handlers' queries interleave and are cut short, to its users the
\* server is the registry that does each request at once: an enrollment is its
\* commit, and what is read before it is still so when it commits.
Promise == INSTANCE Registry WITH
  root <- installed.pub, inviter <- minter
ImplementsRegistry == Promise!Spec
=============================================================================
