------------------------------ MODULE Registry ------------------------------
(***************************************************************************)
(* What the server promises of its accounts, were each request to happen   *)
(* at once: one directory root for good; an invitation opens one account;  *)
(* the first to enroll, and nobody after, is an admin by it; invitations   *)
(* come from that admin and the recovery principal; and a binding is never *)
(* replaced.                                                               *)
(***************************************************************************)
EXTENDS Naturals

CONSTANTS
  Root, NoRoot,
  Name, Key,
  Version,     \* key versions
  Pair,        \* a user's key pairs
  Recovery,    \* the recovery principal, who is no account
  NoOne,       \* the inviter of a key that is not out
  NoKey        \* the key of a name without an account

VARIABLES
  root,        \* the directory root that is served
  inviter,     \* who gave each key away
  account,     \* the key each name enrolled with
  bindings     \* the directory's history

registryVars == <<root, inviter, account, bindings>>

Init ==
  /\ root = NoRoot
  /\ inviter = [k \in Key |-> NoOne]
  /\ account = [n \in Name |-> NoKey]
  /\ bindings = {}

IsFounder(n) == \E b \in bindings : b.name = n /\ b.admin /\ b.by = "operational"

Serve(d) ==
  /\ root = NoRoot
  /\ root' = d
  /\ UNCHANGED <<inviter, account, bindings>>

Invite(p, k) ==
  /\ inviter[k] = NoOne
  /\ p = Recovery \/ IsFounder(p)
  /\ inviter' = [inviter EXCEPT ![k] = p]
  /\ UNCHANGED <<root, account, bindings>>

\* Everything an enrollment does, in one step.
Enroll(n, k) ==
  /\ root # NoRoot
  /\ account[n] = NoKey
  /\ inviter[k] # NoOne /\ \A m \in Name : account[m] # k
  /\ account' = [account EXCEPT ![n] = k]
  /\ bindings' = bindings \cup
       {[name |-> n, v |-> 1, pair |-> 1,
         admin |-> \A m \in Name : account[m] = NoKey, by |-> "operational"]}
  /\ UNCHANGED <<root, inviter>>

\* The root binds a version that is not bound.
Publish(n, v, k, admin) ==
  /\ root # NoRoot
  /\ account[n] # NoKey
  /\ ~\E b \in bindings : b.name = n /\ b.v = v
  /\ bindings' = bindings \cup
       {[name |-> n, v |-> v, pair |-> k, admin |-> admin, by |-> "root"]}
  /\ UNCHANGED <<root, inviter, account>>

Request ==
  \/ \E d \in Root : Serve(d)
  \/ \E k \in Key, p \in Name \cup {Recovery} : Invite(p, k)
  \/ \E n \in Name, k \in Key : Enroll(n, k)
  \/ \E n \in Name, v \in Version, k \in Pair, admin \in BOOLEAN : Publish(n, v, k, admin)

\* A request that changes something: the first conjunct spares TLC the second for all that
\* the server does unseen.
Next == registryVars' # registryVars /\ Request

Spec == Init /\ [][Next]_registryVars
=============================================================================
