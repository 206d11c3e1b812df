----------------------------- MODULE Delegation -----------------------------
(***************************************************************************)
(* How a production server comes by its directory authority.  It signs     *)
(* enrollment bindings with an operational key of its own, and that key    *)
(* speaks for a directory root (D5) it never holds: an administrator posts *)
(* the root's public key and a certificate under it, once, with a token    *)
(* printed at installation.  crates/server/src/delegation.rs keeps the     *)
(* installed pair in memory, crates/portable-server/src/delegation_setup.rs*)
(* keeps it in three files.                                                *)
(*                                                                         *)
(* Certificates are over this server's operational key and of a sane       *)
(* length; one that is not, or that fails to verify, is refused with       *)
(* nothing changed.  So is a post with a wrong token.                      *)
(***************************************************************************)
EXTENDS Naturals

CONSTANTS
  Root,       \* directory roots somebody may post
  Cert,       \* delegation certificates
  SignedBy,   \* SignedBy[c]: the root whose key signed c
  NoRoot,
  NoCert,
  MaxFaults   \* bound: disk errors and crashes

ASSUME DelegationAssumption ==
  /\ SignedBy \in [Cert -> Root]
  /\ NoRoot \notin Root
  /\ NoCert \notin Cert
  /\ MaxFaults \in Nat

VARIABLES
  disk,       \* d5_pub, d5_delegation and whether the token file is there
  installed,  \* Installed: the pair served and checked against
  awaiting,   \* bootstrap_token_hash is Some
  pinned,     \* directory_pub as it was at start-up
  ceremony,   \* where install_bootstrap is; it never awaits
  expired,    \* certificates past their window
  tried,      \* history: roots begun to be installed, up to the one that was
  faults

delegation == <<disk, installed, awaiting, pinned, ceremony, expired, tried, faults>>

NoDelegation == [pub |-> NoRoot, cert |-> NoCert]
Installed == {NoDelegation} \cup [pub: Root, cert: Cert]

NoCeremony == [pc |-> "none"]
Ceremony == {NoCeremony} \cup [pc: {"pub", "cert", "burn"}, pub: Root, cert: Cert]

DelegationTypeOK ==
  /\ disk \in [pub: Root \cup {NoRoot}, cert: Cert \cup {NoCert}, token: BOOLEAN]
  /\ installed \in Installed
  /\ awaiting \in BOOLEAN
  /\ pinned \in Root \cup {NoRoot}
  /\ ceremony \in Ceremony
  /\ expired \subseteq Cert
  /\ tried \subseteq Root
  /\ faults \in 0..MaxFaults

DelegationInit ==
  /\ disk = [pub |-> NoRoot, cert |-> NoCert, token |-> TRUE]
  /\ installed = NoDelegation
  /\ awaiting = TRUE
  /\ pinned = NoRoot
  /\ ceremony = NoCeremony
  /\ expired = {}
  /\ tried = {}
  /\ faults = 0

-----------------------------------------------------------------------------
\* verify_delegation: the signature, then the window.
VerifiesUnsigned(d, c) == c \notin expired
Verifies(d, c) == SignedBy[c] = d /\ c \notin expired

\* enrollment_open, checked for every request.
EnrollmentOpen ==
  installed # NoDelegation /\ Verifies(installed.pub, installed.cert)

\* install_bootstrap up to its first write.  The lock on the token's hash is
\* held from here to the end, so ceremonies do not overlap.
InstallBeginFlipped(d, c) ==
  /\ ceremony = NoCeremony
  /\ installed = NoDelegation /\ awaiting
  /\ Verifies(d, c)
  /\ ceremony' = [pc |-> "pub", pub |-> d, cert |-> c]
  /\ tried' = tried \cup {d}
  /\ installed' = [pub |-> d, cert |-> c]
  /\ UNCHANGED <<disk, awaiting, pinned, expired, faults>>
InstallBegin(d, c) ==
  /\ ceremony = NoCeremony
  /\ installed = NoDelegation /\ awaiting
  /\ Verifies(d, c)
  /\ ceremony' = [pc |-> "pub", pub |-> d, cert |-> c]
  /\ tried' = tried \cup {d}
  /\ UNCHANGED <<disk, installed, awaiting, pinned, expired, faults>>

\* persist_directory_pub and persist_delegation: a file is replaced as a whole.
PersistPub ==
  /\ ceremony.pc = "pub"
  /\ disk' = [disk EXCEPT !.pub = ceremony.pub]
  /\ ceremony' = [ceremony EXCEPT !.pc = "cert"]
  /\ UNCHANGED <<installed, awaiting, pinned, expired, tried, faults>>

PersistCert ==
  /\ ceremony.pc = "cert"
  /\ disk' = [disk EXCEPT !.cert = ceremony.cert]
  /\ ceremony' = [ceremony EXCEPT !.pc = "burn"]
  /\ UNCHANGED <<installed, awaiting, pinned, expired, tried, faults>>

\* burn_token, then the memory is flipped.  Nothing can fail in between, and
\* a crash in between leaves what a crash right after leaves.
BurnAndFlip ==
  /\ ceremony.pc = "burn"
  /\ disk' = [disk EXCEPT !.token = FALSE]
  /\ installed' = [pub |-> ceremony.pub, cert |-> ceremony.cert]
  /\ awaiting' = FALSE
  /\ ceremony' = NoCeremony
  /\ tried' = {ceremony.pub}
  /\ UNCHANGED <<pinned, expired, faults>>

\* A write or the removal fails: the files written so far stay, and the
\* server goes on awaiting.
PersistFails ==
  /\ ceremony # NoCeremony
  /\ faults < MaxFaults
  /\ faults' = faults + 1
  /\ ceremony' = NoCeremony
  /\ UNCHANGED <<disk, installed, awaiting, pinned, expired, tried>>

\* install_renewal: a certificate under the root already installed replaces
\* the file, then the one in memory.
Renew(c) ==
  /\ installed # NoDelegation
  /\ Verifies(installed.pub, c)
  /\ disk' = [disk EXCEPT !.cert = c]
  /\ installed' = [installed EXCEPT !.cert = c]
  /\ UNCHANGED <<awaiting, pinned, ceremony, expired, tried, faults>>

\* The installed certificate's window ends.  (That of another matters once it
\* is installed.)
Expire(c) ==
  /\ c = installed.cert /\ c \notin expired
  /\ expired' = expired \cup {c}
  /\ UNCHANGED <<disk, installed, awaiting, pinned, ceremony, tried, faults>>

\* load_installed: both files or nothing; neither is checked against the other.
Loaded(d) ==
  IF d.pub # NoRoot /\ d.cert # NoCert
  THEN [pub |-> d.pub, cert |-> d.cert] ELSE NoDelegation

\* A crash or a restart: build_prod loads the pair and removes the token, or
\* makes sure of a token and awaits.
Reboot ==
  LET pair == Loaded(disk) IN
  /\ faults < MaxFaults
  /\ faults' = faults + 1
  /\ installed' = pair
  /\ pinned' = pair.pub
  /\ awaiting' = (pair = NoDelegation)
  /\ disk' = [disk EXCEPT !.token = (pair = NoDelegation)]
  /\ ceremony' = NoCeremony
  /\ UNCHANGED <<expired, tried>>

DelegationNext ==
  \/ \E d \in Root, c \in Cert : InstallBegin(d, c)
  \/ PersistPub
  \/ PersistCert
  \/ BurnAndFlip
  \/ PersistFails
  \/ \E c \in Cert : Expire(c)

-----------------------------------------------------------------------------
\* A root that has been served, and that clients have pinned, is the one served
\* ever after: no disk error, crash, second ceremony or renewal takes it back.
RootStays ==
  [][installed # NoDelegation => installed'.pub = installed.pub]_delegation

\* The server can always be brought to enroll: it awaits a ceremony and the
\* token for it is on the disk, or what it has installed is a certificate of
\* its root, which the root can renew.  Two ceremonies of different roots that
\* are both cut short leave the one's key beside the other's certificate, and
\* are the exception.
NeverStranded ==
  (\A d, e \in tried : d = e) =>
    IF installed = NoDelegation
    THEN awaiting /\ disk.token
    ELSE SignedBy[installed.cert] = installed.pub
=============================================================================
