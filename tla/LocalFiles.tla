----------------------------- MODULE LocalFiles -----------------------------
(***************************************************************************)
(* What the processes of one user share on the local machine: the account  *)
(* configuration file, the OS keyring, and the two SQLite stores that every *)
(* process opens, and migrates if they are old, when it starts             *)
(* (KirjeRuntime::local_with_paths).                                       *)
(*                                                                         *)
(* create loads the file, and replaces it later if the destination still   *)
(* has the inode that was loaded.  The replacement is written to a          *)
(* temporary file, under an advisory lock, and renamed.  Processes may      *)
(* crash between any two steps, and the machine may lose power.            *)
(***************************************************************************)
EXTENDS Integers, FiniteSets

CONSTANTS
    Processes,
    Ids,            \* account ids
    Servers,        \* what a configured account connects to
    Inodes,         \* inode numbers of the file system
    NoInode,        \* of a file that does not exist
    MaxAccounts,    \* MAX_ACCOUNTS
    Plans,          \* the send plans of a legacy outbox
    StartVersions,  \* user_version of the outbox that is found
    IndexVersions   \* user_version of the index that is found

SchemaVersion == 2
IndexSchemaVersion == 1

ASSUME LocalFilesAssumption ==
    /\ NoInode \notin Inodes
    /\ MaxAccounts \in Nat
    /\ StartVersions \subseteq Nat
    /\ IndexVersions \subseteq Nat

VARIABLES
    file,      \* the configuration file as processes see it
    disk,      \* the configuration file as it survives a power loss
    orphans,   \* inodes of temporary files nobody removes
    lock,      \* the holders of the replace lock
    secrets,   \* the keyring: for each id the server its secret was set for
    index,     \* index: user_version
    version,   \* outbox: user_version
    legacy,    \* outbox: rows of send_plans
    ops,       \* outbox: status of the operations made from send plans
    events,    \* outbox: number of "migrated" events of each plan
    worked,    \* history: plans that were worked on after the migration
    proc,      \* where each process stands
    acked,     \* history: accounts whose creation was reported
    reused,    \* history: an inode that a process still expects was reused
    reverted   \* history: a power loss took back a visible file

config == <<file, disk, orphans, lock, acked, reused, reverted>>
outbox == <<version, legacy, ops, events, worked>>
vars == <<config, secrets, index, outbox, proc>>

Empty == [a \in {} |-> 0]
Missing == [inode |-> NoInode, accounts |-> Empty]

\* f with a bound to v.
Bind(f, a, v) == [x \in DOMAIN f \cup {a} |-> IF x = a THEN v ELSE f[x]]
Unbind(f, a) == [x \in DOMAIN f \ {a} |-> f[x]]

Down == [pc |-> "down", version |-> 0, wants |-> Empty, loaded |-> Missing, temp |-> NoInode]
Ready == [Down EXCEPT !.pc = "ready"]

Init ==
    /\ file = Missing
    /\ disk = Missing
    /\ orphans = {}
    /\ lock = {}
    /\ secrets = Empty
    /\ index \in IndexVersions
    /\ version \in StartVersions
    /\ legacy \in SUBSET Plans
    /\ legacy # {} => version = 1
    /\ ops = Empty
    /\ events = [p \in Plans |-> 0]
    /\ worked = {}
    /\ proc = [p \in Processes |-> Down]
    /\ acked = Empty
    /\ reused = FALSE
    /\ reverted = FALSE

At(p, pc) == proc[p].pc = pc
Goes(p, r) == proc' = [proc EXCEPT ![p] = r]
Moves(p, pc) == Goes(p, [proc[p] EXCEPT !.pc = pc])

-----------------------------------------------------------------------------
(* Start: both stores are opened.  The schema version is read before the     *)
(* transaction that migrates; a migration that fails changes nothing and     *)
(* ends the process.                                                         *)

\* An index that is newer than this program is refused: the process ends.
ReadIndexVersion(p) ==
    /\ At(p, "down")
    /\ index <= IndexSchemaVersion
    /\ Moves(p, IF index = IndexSchemaVersion THEN "index_open" ELSE "index_old")
    /\ UNCHANGED <<config, secrets, index, outbox>>

\* CREATE TABLE fails on tables that another process created meanwhile.
MigrateIndex(p) ==
    /\ At(p, "index_old")
    /\ Moves(p, IF index = IndexSchemaVersion THEN "down" ELSE "index_open")
    /\ index' = IndexSchemaVersion
    /\ UNCHANGED <<config, secrets, outbox>>

ReadOutboxVersion(p) ==
    /\ At(p, "index_open")
    /\ Goes(p, CASE version > SchemaVersion -> Down
                 [] version = SchemaVersion -> Ready
                 [] OTHER -> [proc[p] EXCEPT !.pc = "outbox_old", !.version = version])
    /\ UNCHANGED <<config, secrets, index, outbox>>

\* Mutant: the plans that are there already are replaced.
NeverConflicts == FALSE

\* INSERT INTO operations fails if one of the plans has its operation.
PlansConflict == legacy \cap DOMAIN ops # {}

\* All of it is one transaction, run on the version that was read before.
MigrateOutbox(p) ==
    /\ At(p, "outbox_old")
    /\ proc[p].version <= 1
    /\ \/ /\ PlansConflict
          /\ Goes(p, Down)
          /\ UNCHANGED outbox
       \/ /\ ~PlansConflict
          /\ ops' = [o \in DOMAIN ops \cup legacy |->
                         IF o \in legacy THEN "migrated" ELSE ops[o]]
          /\ events' = [o \in Plans |-> events[o] + IF o \in legacy THEN 1 ELSE 0]
          /\ version' = SchemaVersion
          /\ Goes(p, Ready)
          /\ UNCHANGED <<legacy, worked>>
    /\ UNCHANGED <<config, secrets, index>>

\* A migrated plan is worked on: one of the steps that Ledger models.
Advance(p, o) ==
    /\ At(p, "ready")
    /\ ops[o] = "migrated"
    /\ ops' = [ops EXCEPT ![o] = "advanced"]
    /\ worked' = worked \cup {o}
    /\ UNCHANGED <<config, secrets, index, version, legacy, events, proc>>

-----------------------------------------------------------------------------
(* create: load, then replace_private.                                       *)

\* Mutant: an id that is configured is configured again.
AlwaysFree(a) == TRUE

IdIsFree(a) == a \notin DOMAIN file.accounts

MayCreate(a) == IdIsFree(a) /\ Cardinality(DOMAIN file.accounts) < MaxAccounts

\* load_with_identity, then the checks of create; on an error nothing happens.
BeginCreate(p, a, server) ==
    /\ At(p, "ready")
    /\ MayCreate(a)
    /\ Goes(p, [proc[p] EXCEPT !.pc = "loaded", !.loaded = file,
                               !.wants = Bind(Empty, a, server)])
    /\ UNCHANGED <<config, secrets, index, outbox>>

Lock(p) ==
    /\ At(p, "loaded")
    /\ lock = {}
    /\ lock' = {p}
    /\ Moves(p, "locked")
    /\ UNCHANGED <<file, disk, orphans, acked, reused, reverted, secrets, index, outbox>>

InUse ==
    {file.inode, disk.inode} \cup orphans \cup {proc[p].temp : p \in Processes}

\* Mutant: the identity of the destination is not compared.
ExpectNothing(p) == TRUE

VerifyExpectation(p) == file.inode = proc[p].loaded.inode

\* The destination is verified, then the temporary file created, written and
\* synchronised.  The file system gives it any inode number that is free.
WriteTemporary(p, i) ==
    /\ At(p, "locked")
    /\ VerifyExpectation(p)
    /\ Goes(p, [proc[p] EXCEPT !.pc = "written", !.temp = i])
    /\ UNCHANGED <<config, secrets, index, outbox>>

\* Mutant: the name of the temporary file outlives the rename.
RenamedWithTemp(r) == [r EXCEPT !.pc = "renamed", !.loaded = Missing]

Renamed(r) == [r EXCEPT !.pc = "renamed", !.loaded = Missing, !.temp = NoInode]

\* Verified again and renamed over the destination, which frees its inode.
Rename(p) ==
    LET r == proc[p]
        a == CHOOSE x \in DOMAIN r.wants : TRUE
    IN  /\ At(p, "written")
        /\ VerifyExpectation(p)
        /\ file' = [inode |-> r.temp, accounts |-> Bind(r.loaded.accounts, a, r.wants[a])]
        /\ reused' = (reused \/ \E q \in Processes \ {p} :
                                    At(q, "loaded") /\ proc[q].loaded.inode = r.temp)
        /\ Goes(p, Renamed(r))
        /\ UNCHANGED <<disk, orphans, lock, acked, reverted, secrets, index, outbox>>

\* What is on the disk once the directory was synchronised.
SyncParent == file

\* Success is reported only after the directory was synchronised.
FinishCreate(p) ==
    LET a == CHOOSE x \in DOMAIN proc[p].wants : TRUE
    IN  /\ At(p, "renamed")
        /\ disk' = SyncParent
        /\ acked' = Bind(acked, a, proc[p].wants[a])
        /\ lock' = lock \ {p}
        /\ Goes(p, Ready)
        /\ UNCHANGED <<file, orphans, reused, reverted, secrets, index, outbox>>

\* A conflict, or an error of the file system: the temporary file is removed,
\* the lock released and the error returned.  An error after the rename does
\* not take the new file back.
FailCreate(p) ==
    /\ proc[p].pc \in {"loaded", "locked", "written", "renamed"}
    /\ lock' = lock \ {p}
    /\ Goes(p, Ready)
    /\ UNCHANGED <<file, disk, orphans, acked, reused, reverted, secrets, index, outbox>>

-----------------------------------------------------------------------------
(* Credentials: the account is looked up, then the keyring is called.        *)

BeginSecret(p, a) ==
    /\ At(p, "ready")
    /\ a \in DOMAIN file.accounts
    /\ Goes(p, [proc[p] EXCEPT !.pc = "looked_up",
                               !.wants = Bind(Empty, a, file.accounts[a])])
    /\ UNCHANGED <<config, secrets, index, outbox>>

SetSecret(p) ==
    LET a == CHOOSE x \in DOMAIN proc[p].wants : TRUE
    IN  /\ At(p, "looked_up")
        /\ secrets' = Bind(secrets, a, proc[p].wants[a])
        /\ Goes(p, Ready)
        /\ UNCHANGED <<config, index, outbox>>

\* Without an entry the keyring answers that the secret is missing.
DeleteSecret(p) ==
    LET a == CHOOSE x \in DOMAIN proc[p].wants : TRUE
    IN  /\ At(p, "looked_up")
        /\ secrets' = Unbind(secrets, a)
        /\ Goes(p, Ready)
        /\ UNCHANGED <<config, index, outbox>>

-----------------------------------------------------------------------------
(* Faults.                                                                   *)

\* The process ends: the system releases its lock, its temporary file stays.
Crash(p) ==
    /\ ~At(p, "down")
    /\ lock' = lock \ {p}
    /\ orphans' = orphans \cup ({proc[p].temp} \ {NoInode})
    /\ Goes(p, Down)
    /\ UNCHANGED <<file, disk, acked, reused, reverted, secrets, index, outbox>>

\* The system writes the directory back by itself.
WriteBack ==
    /\ disk # file
    /\ disk' = file
    /\ UNCHANGED <<file, orphans, lock, acked, reused, reverted, secrets, index, outbox, proc>>

\* Committed SQLite transactions and the keyring survive.
PowerLoss ==
    /\ file' = disk
    /\ reverted' = (reverted \/ file # disk)
    /\ orphans' = (orphans \cup {proc[p].temp : p \in Processes} \cup {file.inode})
                    \ {NoInode, disk.inode}
    /\ lock' = {}
    /\ proc' = [p \in Processes |-> Down]
    /\ UNCHANGED <<disk, acked, reused, secrets, index, outbox>>

-----------------------------------------------------------------------------
LocalStep(p) ==
    \/ ReadIndexVersion(p)
    \/ MigrateIndex(p)
    \/ ReadOutboxVersion(p)
    \/ MigrateOutbox(p)
    \/ \E o \in DOMAIN ops : Advance(p, o)
    \/ \E a \in Ids, server \in Servers : BeginCreate(p, a, server)
    \/ Lock(p)
    \/ \E i \in Inodes \ InUse : WriteTemporary(p, i)
    \/ Rename(p)
    \/ FinishCreate(p)
    \/ FailCreate(p)
    \/ \E a \in Ids : BeginSecret(p, a)
    \/ SetSecret(p)
    \/ DeleteSecret(p)

Next ==
    \/ \E p \in Processes : LocalStep(p) \/ Crash(p)
    \/ WriteBack
    \/ PowerLoss

Spec == Init /\ [][Next]_vars

-----------------------------------------------------------------------------
(* Properties.                                                               *)

Accounts == UNION {[S -> Servers] : S \in SUBSET Ids}
Files == {Missing} \cup [inode : Inodes, accounts : Accounts]
Points == {"down", "index_old", "index_open", "outbox_old", "ready", "loaded",
           "locked", "written", "renamed", "looked_up"}

\* Files, stores, keyring and processes have their types, the file never
\* holds more than MAX_ACCOUNTS accounts, and its inode is no orphan.
TypeOK ==
    /\ file \in Files /\ disk \in Files
    /\ Cardinality(DOMAIN file.accounts) <= MaxAccounts
    /\ orphans \subseteq Inodes \ {file.inode}
    /\ lock \subseteq Processes
    /\ secrets \in Accounts /\ acked \in Accounts
    /\ index \in IndexVersions \cup {IndexSchemaVersion}
    /\ version \in StartVersions \cup {SchemaVersion}
    /\ legacy \subseteq Plans
    /\ DOMAIN ops \subseteq Plans
    /\ \A o \in DOMAIN ops : ops[o] \in {"migrated", "advanced"}
    /\ events \in [Plans -> Nat]
    /\ worked \subseteq Plans
    /\ proc \in [Processes -> [pc : Points, version : Nat, wants : Accounts,
                              loaded : Files, temp : Inodes \cup {NoInode}]]
    /\ {reused, reverted} \subseteq BOOLEAN

\* An account whose creation was reported stays as it was configured, also
\* after concurrent creations, crashes and power losses, unless the file
\* system gave an inode number that a creation still expects to a newer file.
AcknowledgedStay ==
    ~reused => \A a \in DOMAIN acked :
                   /\ a \in DOMAIN disk.accounts /\ disk.accounts[a] = acked[a]
                   /\ a \in DOMAIN file.accounts /\ file.accounts[a] = acked[a]

\* A secret in the keyring belongs to a configured account and was set for the
\* server this account has now, so that it is never shown to another server.
\* The exceptions are a reused inode, and a power loss that took back a file
\* which the rename had made visible before it was durable.
SecretReachesItsServer ==
    ~reused /\ ~reverted =>
        \A a \in DOMAIN secrets :
            a \in DOMAIN file.accounts /\ file.accounts[a] = secrets[a]

\* Every send plan of a legacy outbox gets one operation and one event, with
\* any number of processes opening it at the same time, and a late migration
\* does not take an operation that was worked on back to its legacy status.
MigratedOnce ==
    /\ DOMAIN ops = IF version = SchemaVersion THEN legacy ELSE {}
    /\ \A o \in Plans : events[o] = IF o \in DOMAIN ops THEN 1 ELSE 0
    /\ \A o \in worked : ops[o] = "advanced"

=============================================================================
