-------------------------- MODULE LocalFilesProofs --------------------------
(***************************************************************************)
(* Safety of what the local processes share, for any number of processes,  *)
(* accounts, servers, inodes and legacy plans, with crashes and power      *)
(* losses at any point.                                                    *)
(***************************************************************************)
EXTENDS LocalFiles, FiniteSetTheorems, TLAPS

-----------------------------------------------------------------------------
(* Migration of the outbox.                                                  *)

\* Only operations that exist were worked on.
OutboxInv ==
    /\ MigratedOnce
    /\ worked \subseteq DOMAIN ops
    /\ legacy \subseteq Plans
    /\ events \in [Plans -> Nat]

\* Whatever outbox is found has no operations from send plans yet.
LEMMA OutboxInit == Init => OutboxInv
  BY DEF Init, OutboxInv, MigratedOnce, Empty, SchemaVersion

\* A second migration finds the operations of the first and changes nothing.
LEMMA OutboxStep == OutboxInv /\ [Next]_vars => OutboxInv'
  <1> SUFFICES ASSUME OutboxInv, [Next]_vars PROVE OutboxInv'
    OBVIOUS
  <1>1. CASE UNCHANGED outbox
    BY <1>1 DEF outbox, OutboxInv, MigratedOnce
  <1>2. ASSUME NEW p \in Processes, MigrateOutbox(p) PROVE OutboxInv'
    <2>1. CASE UNCHANGED outbox
      BY <1>1, <2>1
    <2>2. CASE ~UNCHANGED outbox
      <3>1. /\ legacy \cap DOMAIN ops = {}
            /\ ops' = [o \in DOMAIN ops \cup legacy |->
                           IF o \in legacy THEN "migrated" ELSE ops[o]]
            /\ events' = [o \in Plans |-> events[o] + IF o \in legacy THEN 1 ELSE 0]
            /\ version' = SchemaVersion
            /\ UNCHANGED <<legacy, worked>>
        BY <1>2, <2>2 DEF MigrateOutbox, PlansConflict
      <3>2. DOMAIN ops = {}
        BY <3>1 DEF OutboxInv, MigratedOnce
      <3>3. DOMAIN ops' = legacy /\ worked = {}
        BY <3>1, <3>2 DEF OutboxInv
      <3>4. \A o \in Plans : events'[o] = IF o \in legacy THEN 1 ELSE 0
        BY <3>1, <3>2 DEF OutboxInv, MigratedOnce
      <3>5. events' \in [Plans -> Nat]
        BY <3>1 DEF OutboxInv
      <3> QED BY <3>1, <3>3, <3>4, <3>5 DEF OutboxInv, MigratedOnce
    <2> QED BY <2>1, <2>2
  <1>3. ASSUME NEW p \in Processes, NEW o \in DOMAIN ops, Advance(p, o) PROVE OutboxInv'
    BY <1>3 DEF Advance, OutboxInv, MigratedOnce
  <1>4. ASSUME NEW p \in Processes, LocalStep(p) PROVE OutboxInv'
    <2>1. CASE MigrateOutbox(p)
      BY <1>2, <2>1
    <2>2. CASE \E o \in DOMAIN ops : Advance(p, o)
      BY <1>3, <2>2
    <2>3. CASE \/ ReadIndexVersion(p) \/ MigrateIndex(p) \/ ReadOutboxVersion(p)
               \/ \E a \in Ids, server \in Servers : BeginCreate(p, a, server)
               \/ Lock(p)
               \/ \E i \in Inodes \ InUse : WriteTemporary(p, i)
               \/ Rename(p) \/ FinishCreate(p) \/ FailCreate(p)
               \/ \E a \in Ids : BeginSecret(p, a)
               \/ SetSecret(p) \/ DeleteSecret(p)
      <3>1. UNCHANGED outbox
        BY <2>3 DEF ReadIndexVersion, MigrateIndex, ReadOutboxVersion, BeginCreate, Lock,
                    WriteTemporary, Rename, FinishCreate, FailCreate, BeginSecret, SetSecret,
                    DeleteSecret
      <3> QED BY <1>1, <3>1
    <2> QED BY <1>4, <2>1, <2>2, <2>3 DEF LocalStep
  <1>5. CASE (\E p \in Processes : Crash(p)) \/ WriteBack \/ PowerLoss \/ UNCHANGED vars
    <2>1. UNCHANGED outbox
      BY <1>5 DEF Crash, WriteBack, PowerLoss, vars
    <2> QED BY <1>1, <2>1
  <1> QED BY <1>4, <1>5 DEF Next

\* Every legacy plan becomes one operation with one event, and a late
\* migration takes nothing back, however many processes open the outbox.
THEOREM MigratedOnceHolds == Spec => []MigratedOnce
  <1>1. OutboxInv => MigratedOnce
    BY DEF OutboxInv
  <1> QED BY <1>1, OutboxInit, OutboxStep, PTL DEF Spec

-----------------------------------------------------------------------------
(* Account maps.                                                             *)

\* f agrees with g wherever g is defined.
Holds(f, g) == DOMAIN g \subseteq DOMAIN f /\ \A a \in DOMAIN g : f[a] = g[a]

\* Membership in Accounts.
LEMMA AccountsAre ==
    ASSUME NEW f
    PROVE  f \in Accounts <=> \E S \in SUBSET Ids : f \in [S -> Servers]
  BY DEF Accounts

\* What binding one more id gives.
LEMMA BindIs ==
    ASSUME NEW f \in Accounts, NEW a \in Ids, NEW v \in Servers
    PROVE  /\ Bind(f, a, v) \in Accounts
           /\ DOMAIN Bind(f, a, v) = DOMAIN f \cup {a}
           /\ Bind(f, a, v)[a] = v
           /\ \A x \in DOMAIN f : x # a => Bind(f, a, v)[x] = f[x]
  <1>1. PICK S \in SUBSET Ids : f \in [S -> Servers]
    BY AccountsAre
  <1>2. Bind(f, a, v) \in [S \cup {a} -> Servers]
    BY <1>1 DEF Bind
  <1>3. Bind(f, a, v) \in Accounts
    BY <1>1, <1>2, AccountsAre
  <1> QED BY <1>1, <1>3 DEF Bind

\* What removing an id gives.
LEMMA UnbindIs ==
    ASSUME NEW f \in Accounts, NEW a
    PROVE  /\ Unbind(f, a) \in Accounts
           /\ DOMAIN Unbind(f, a) = DOMAIN f \ {a}
           /\ \A x \in DOMAIN f \ {a} : Unbind(f, a)[x] = f[x]
  <1>1. PICK S \in SUBSET Ids : f \in [S -> Servers]
    BY AccountsAre
  <1>2. Unbind(f, a) \in [S \ {a} -> Servers]
    BY <1>1 DEF Unbind
  <1>3. Unbind(f, a) \in Accounts
    BY <1>1, <1>2, AccountsAre
  <1> QED BY <1>1, <1>3 DEF Unbind

\* The map without ids.
LEMMA EmptyIs == Empty \in Accounts /\ DOMAIN Empty = {}
  <1>1. Empty \in [{} -> Servers] /\ DOMAIN Empty = {}
    BY DEF Empty
  <1> QED BY <1>1, AccountsAre

\* What a call that is about to write one account holds.
Single(w) == \E a \in Ids, v \in Servers : w = Bind(Empty, a, v)

\* A map of one id.
LEMMA OneBinding ==
    ASSUME NEW a \in Ids, NEW v \in Servers, NEW w, w = Bind(Empty, a, v)
    PROVE  w \in Accounts /\ DOMAIN w = {a} /\ w[a] = v /\ Single(w)
  <1>1. w \in Accounts /\ DOMAIN w = {a} /\ w[a] = v
    <2>1. PICK e \in Accounts : e = Empty /\ DOMAIN e = {}
      BY EmptyIs, Zenon
    <2>2. w \in Accounts /\ DOMAIN w = DOMAIN e \cup {a} /\ w[a] = v
      BY <2>1, BindIs
    <2> QED BY <2>1, <2>2
  <1>2. Single(w)
    BY Zenon DEF Single
  <1> QED BY <1>1, <1>2

\* The id it chooses is the one it was given.
LEMMA SingleIs ==
    ASSUME NEW w, Single(w), NEW a, a = CHOOSE x \in DOMAIN w : TRUE
    PROVE  a \in Ids /\ w \in Accounts /\ DOMAIN w = {a} /\ w[a] \in Servers
  <1>1. PICK b \in Ids, v \in Servers : w = Bind(Empty, b, v)
    BY DEF Single
  <1>2. w \in Accounts /\ DOMAIN w = {b} /\ w[b] = v
    BY <1>1, BindIs, EmptyIs
  <1>3. a = b
    BY <1>2
  <1> QED BY <1>2, <1>3

-----------------------------------------------------------------------------
(* The inductive invariant of the configuration file and the keyring.        *)

\* A creation that has not replaced the file yet.
Creating == {"loaded", "locked", "written"}

ProcRecords == [pc : Points, version : Nat, wants : Accounts, loaded : Files,
                temp : Inodes \cup {NoInode}]

\* The types of the file, the keyring and the processes ...
ConfigOK ==
    /\ file \in Files /\ disk \in Files
    /\ Cardinality(DOMAIN file.accounts) <= MaxAccounts
    /\ orphans \subseteq Inodes \ {file.inode}
    /\ lock \subseteq Processes
    /\ secrets \in Accounts /\ acked \in Accounts
    /\ proc \in [Processes -> ProcRecords]
    /\ {reused, reverted} \subseteq BOOLEAN

\* ... and of the two stores.
StoresOK ==
    /\ index \in IndexVersions \cup {IndexSchemaVersion}
    /\ version \in StartVersions \cup {SchemaVersion}
    /\ legacy \subseteq Plans
    /\ DOMAIN ops \subseteq Plans
    /\ \A o \in DOMAIN ops : ops[o] \in {"migrated", "advanced"}
    /\ events \in [Plans -> Nat]
    /\ worked \subseteq Plans

\* The replacement of the file is exclusive, and a temporary file belongs to
\* the one process that is about to rename it.
LockOk(p) ==
    /\ proc[p].pc \in {"locked", "written", "renamed"} => lock = {p}
    /\ proc[p].pc = "written" <=> proc[p].temp # NoInode
    /\ proc[p].temp # NoInode => proc[p].temp \notin orphans \cup {file.inode, disk.inode}

\* A creation works on one account, which the file it loaded did not have and
\* had room for; a call to the keyring works on one account.
WantsOk(p) ==
    /\ proc[p].pc \in Creating \cup {"renamed", "looked_up"} => Single(proc[p].wants)
    /\ proc[p].pc \in Creating =>
          /\ DOMAIN proc[p].wants \cap DOMAIN proc[p].loaded.accounts = {}
          /\ IsFiniteSet(DOMAIN proc[p].loaded.accounts)
          /\ Cardinality(DOMAIN proc[p].loaded.accounts) < MaxAccounts

\* Unless an inode number was reused, a creation whose expectation still holds
\* loaded the accounts the file has now, and what it renamed is in the file.
\* Unless a power loss took the file back, so is what the keyring is called for.
ExpectationOk(p) ==
    /\ ~reused /\ proc[p].pc \in Creating /\ proc[p].loaded.inode = file.inode
          => proc[p].loaded.accounts = file.accounts
    /\ ~reused /\ proc[p].pc = "renamed" => Holds(file.accounts, proc[p].wants)
    /\ ~reused /\ ~reverted /\ proc[p].pc = "looked_up" => Holds(file.accounts, proc[p].wants)

\* Both files are within the limit and their inodes are no orphans.  Unless an
\* inode number was reused the file only grows: it has what is on the disk,
\* which has what was acknowledged.  Unless a power loss took it back, it has
\* the accounts of all secrets.
FilesInv ==
    /\ IsFiniteSet(DOMAIN file.accounts) /\ IsFiniteSet(DOMAIN disk.accounts)
    /\ Cardinality(DOMAIN disk.accounts) <= MaxAccounts
    /\ disk.inode \notin orphans
    /\ ~reused => Holds(file.accounts, disk.accounts) /\ Holds(disk.accounts, acked)
    /\ ~reused /\ ~reverted => Holds(file.accounts, secrets)

ProcOk(p) == LockOk(p) /\ WantsOk(p) /\ ExpectationOk(p)

ConfigInv == ConfigOK /\ FilesInv /\ \A p \in Processes : ProcOk(p)

\* The type invariant is the conjunction of its two halves.
LEMMA TypeHalves == TypeOK <=> ConfigOK /\ StoresOK
  BY DEF TypeOK, ConfigOK, StoresOK, ProcRecords

\* Files and process records, field by field.
LEMMA FilesAre ==
    /\ Missing \in Files /\ Missing.inode = NoInode /\ Missing.accounts = Empty
    /\ \A f \in Files : f.accounts \in Accounts /\ f.inode \in Inodes \cup {NoInode}
    /\ \A i \in Inodes, m \in Accounts : [inode |-> i, accounts |-> m] \in Files
    /\ \A f \in Files : f = [inode |-> f.inode, accounts |-> f.accounts]
  BY EmptyIs DEF Files, Missing

\* The records of processes that do nothing.
LEMMA DownIs ==
    /\ Down \in ProcRecords /\ Down.pc = "down" /\ Down.temp = NoInode
    /\ Ready \in ProcRecords /\ Ready.pc = "ready" /\ Ready.temp = NoInode
  BY FilesAre, EmptyIs DEF Down, Ready, ProcRecords, Points

\* Holds is a preorder.
LEMMA HoldsTransitive ==
    ASSUME NEW f, NEW g, NEW h, Holds(f, g), Holds(g, h)
    PROVE  Holds(f, h) /\ Holds(f, f)
  BY DEF Holds

\* Without files, secrets and processes at work.
LEMMA ConfigInit == Init => ConfigInv
  <1> SUFFICES ASSUME Init PROVE ConfigInv
    OBVIOUS
  <1>1. DOMAIN Missing.accounts = {} /\ Cardinality({}) = 0 /\ IsFiniteSet({})
    BY FilesAre, EmptyIs, FS_EmptySet
  <1>2. ConfigOK
    <2>1. proc \in [Processes -> ProcRecords]
      BY DownIs DEF Init
    <2>2. Cardinality(DOMAIN file.accounts) <= MaxAccounts
      BY <1>1, LocalFilesAssumption DEF Init
    <2>3. file \in Files /\ disk \in Files /\ secrets \in Accounts /\ acked \in Accounts
      BY FilesAre, EmptyIs DEF Init
    <2> QED BY <2>1, <2>2, <2>3 DEF Init, ConfigOK
  <1>3. Holds(Empty, Empty)
    BY DEF Holds
  <1>4. FilesInv
    BY <1>1, <1>3, FilesAre, LocalFilesAssumption DEF Init, FilesInv
  <1>5. ASSUME NEW p \in Processes PROVE ProcOk(p)
    BY DownIs DEF Init, ProcOk, LockOk, WantsOk, ExpectationOk, Creating
  <1> QED BY <1>2, <1>4, <1>5 DEF ConfigInv

\* A process that is about to rename is the only one with a temporary file.
LEMMA OneTemporary ==
    ASSUME ConfigInv, NEW p \in Processes, NEW q \in Processes, p # q,
           proc[p].temp # NoInode \/ proc[p].pc \in {"locked", "renamed"}
    PROVE  proc[q].temp = NoInode /\ proc[q].pc \notin {"locked", "written", "renamed"}
  <1>1. lock = {p}
    BY DEF ConfigInv, ProcOk, LockOk
  <1>2. proc[q].pc \notin {"locked", "written", "renamed"}
    BY <1>1 DEF ConfigInv, ProcOk, LockOk
  <1> QED BY <1>2 DEF ConfigInv, ProcOk, LockOk

\* A process that another one's step does not concern.
LEMMA OtherKeeps ==
    ASSUME ConfigInv, NEW p \in Processes, NEW q \in Processes, q # p, proc'[q] = proc[q],
           UNCHANGED <<file, disk, reused, reverted>>,
           orphans' \subseteq orphans \cup {proc[p].temp},
           lock' = lock \/ lock' = lock \ {p} \/ (lock = {} /\ lock' = {p})
    PROVE  ProcOk(q)'
  <1>1. ProcOk(q)
    BY DEF ConfigInv
  <1>2. LockOk(q)'
    <2>1. proc'[q].pc \in {"locked", "written", "renamed"} => lock' = {q}
      BY <1>1 DEF ProcOk, LockOk
    <2>2. proc'[q].pc = "written" <=> proc'[q].temp # NoInode
      BY <1>1 DEF ProcOk, LockOk
    <2>3. ASSUME proc'[q].temp # NoInode
          PROVE  proc'[q].temp \notin orphans' \cup {file'.inode, disk'.inode}
      <3>1. proc[p].temp = NoInode
        BY <2>3, OneTemporary
      <3>2. proc[q].temp \notin orphans \cup {file.inode, disk.inode}
        BY <1>1, <2>3 DEF ProcOk, LockOk
      <3> QED BY <2>3, <3>1, <3>2
    <2> QED BY <2>1, <2>2, <2>3 DEF LockOk
  <1>3. WantsOk(q)'
    BY <1>1 DEF ProcOk, WantsOk
  <1>4. ExpectationOk(q)'
    BY <1>1 DEF ProcOk, ExpectationOk
  <1> QED BY <1>2, <1>3, <1>4 DEF ProcOk

\* A process that stops, fails or only reads: nothing but its own record, its
\* lock and its temporary file changes.
LEMMA QuietKeeps ==
    ASSUME ConfigInv, NEW p \in Processes, NEW r \in ProcRecords,
           r.pc \notin Creating \cup {"renamed", "looked_up"}, r.temp = NoInode,
           proc' = [proc EXCEPT ![p] = r],
           lock' = lock \/ lock' = lock \ {p},
           orphans' = orphans \/ orphans' = orphans \cup ({proc[p].temp} \ {NoInode}),
           UNCHANGED <<file, disk, acked, reused, reverted, secrets>>
    PROVE  ConfigInv'
  <1>1. /\ proc'[p] = r /\ proc' \in [Processes -> ProcRecords]
        /\ \A q \in Processes : q # p => proc'[q] = proc[q]
    BY DEF ConfigInv, ConfigOK
  <1>2. proc[p] \in ProcRecords /\ ProcOk(p)
    BY DEF ConfigInv, ConfigOK
  <1>3. /\ {proc[p].temp} \ {NoInode} \subseteq Inodes
        /\ proc[p].temp # NoInode => proc[p].temp # file.inode /\ proc[p].temp # disk.inode
    BY <1>2 DEF ProcRecords, ProcOk, LockOk
  <1>4. ConfigOK'
    BY <1>1, <1>3 DEF ConfigInv, ConfigOK
  <1>5. FilesInv'
    <2>1. disk'.inode \notin orphans'
      BY <1>3 DEF ConfigInv, FilesInv
    <2> QED BY <2>1 DEF ConfigInv, FilesInv
  <1>6. ProcOk(p)'
    BY <1>1 DEF ProcOk, LockOk, WantsOk, ExpectationOk, Creating
  <1>7. ASSUME NEW q \in Processes, q # p PROVE ProcOk(q)'
    BY <1>1, <1>7, OtherKeeps
  <1> QED BY <1>4, <1>5, <1>6, <1>7 DEF ConfigInv

\* The first half of create: the file is loaded, the id free, the limit kept.
LEMMA BeginCreateKeeps ==
    ASSUME ConfigInv, NEW p \in Processes, NEW a \in Ids, NEW server \in Servers,
           BeginCreate(p, a, server)
    PROVE  ConfigInv'
  <1>1. PICK r : r = [proc[p] EXCEPT !.pc = "loaded", !.loaded = file,
                                     !.wants = Bind(Empty, a, server)]
    OBVIOUS
  <1>2. /\ Bind(Empty, a, server) \in Accounts /\ DOMAIN Bind(Empty, a, server) = {a}
        /\ Single(Bind(Empty, a, server))
    BY OneBinding
  <1>3. proc[p] \in ProcRecords /\ proc[p].pc = "ready" /\ ProcOk(p)
    BY DEF ConfigInv, ConfigOK, BeginCreate, At
  <1>4. /\ r \in ProcRecords /\ r.pc = "loaded" /\ r.loaded = file
        /\ r.wants = Bind(Empty, a, server) /\ r.temp = proc[p].temp
    BY <1>1, <1>2, <1>3 DEF ProcRecords, Points, ConfigInv, ConfigOK
  <1>5. r.temp = NoInode
    BY <1>3, <1>4 DEF ProcOk, LockOk
  <1>6. proc' = [proc EXCEPT ![p] = r]
        /\ UNCHANGED <<file, disk, orphans, lock, acked, reused, reverted, secrets>>
    BY <1>1 DEF BeginCreate, Goes, config
  <1>7. /\ proc'[p] = r /\ proc' \in [Processes -> ProcRecords]
        /\ \A q \in Processes : q # p => proc'[q] = proc[q]
    BY <1>4, <1>6 DEF ConfigInv, ConfigOK
  <1>8. ConfigOK'
    BY <1>6, <1>7 DEF ConfigInv, ConfigOK
  <1>9. FilesInv'
    BY <1>6 DEF ConfigInv, FilesInv
  <1>10. /\ a \notin DOMAIN file.accounts /\ IsFiniteSet(DOMAIN file.accounts)
         /\ Cardinality(DOMAIN file.accounts) < MaxAccounts
    BY DEF BeginCreate, MayCreate, IdIsFree, ConfigInv, FilesInv
  <1>11. ProcOk(p)'
    <2>1. LockOk(p)'
      BY <1>4, <1>5, <1>7 DEF LockOk
    <2>2. WantsOk(p)'
      BY <1>2, <1>4, <1>7, <1>10 DEF WantsOk, Creating
    <2>3. ExpectationOk(p)'
      BY <1>4, <1>6, <1>7 DEF ExpectationOk
    <2> QED BY <2>1, <2>2, <2>3 DEF ProcOk
  <1>12. ASSUME NEW q \in Processes, q # p PROVE ProcOk(q)'
    BY <1>6, <1>7, <1>12, OtherKeeps
  <1> QED BY <1>8, <1>9, <1>11, <1>12 DEF ConfigInv

\* The lock is taken, or the temporary file written under it.
LEMMA CreatingMoves ==
    ASSUME ConfigInv, NEW p \in Processes, NEW r \in ProcRecords,
           proc[p].pc \in Creating, r.pc \in Creating,
           r.loaded = proc[p].loaded, r.wants = proc[p].wants,
           proc' = [proc EXCEPT ![p] = r],
           lock' = lock \/ lock' = lock \ {p} \/ (lock = {} /\ lock' = {p}),
           r.pc \in {"locked", "written"} => lock' = {p},
           r.pc = "written" <=> r.temp # NoInode,
           r.temp # NoInode => r.temp \notin orphans \cup {file.inode, disk.inode},
           UNCHANGED <<file, disk, orphans, acked, reused, reverted, secrets>>
    PROVE  ConfigInv'
  <1>1. /\ proc'[p] = r /\ proc' \in [Processes -> ProcRecords]
        /\ \A q \in Processes : q # p => proc'[q] = proc[q]
    BY DEF ConfigInv, ConfigOK
  <1>2. ConfigOK'
    BY <1>1 DEF ConfigInv, ConfigOK
  <1>3. FilesInv'
    BY DEF ConfigInv, FilesInv
  <1>4. ProcOk(p)'
    <2>1. LockOk(p)'
      BY <1>1 DEF LockOk, Creating
    <2>2. WantsOk(p)'
      BY <1>1 DEF ConfigInv, ProcOk, WantsOk, Creating
    <2>3. ExpectationOk(p)'
      BY <1>1 DEF ConfigInv, ProcOk, ExpectationOk, Creating
    <2> QED BY <2>1, <2>2, <2>3 DEF ProcOk
  <1>5. ASSUME NEW q \in Processes, q # p PROVE ProcOk(q)'
    BY <1>1, <1>5, OtherKeeps
  <1> QED BY <1>2, <1>3, <1>4, <1>5 DEF ConfigInv

\* The lock file is locked, exclusively.
LEMMA LockKeeps ==
    ASSUME ConfigInv, NEW p \in Processes, Lock(p)
    PROVE  ConfigInv'
  <1>1. PICK r : r = [proc[p] EXCEPT !.pc = "locked"]
    OBVIOUS
  <1>2. proc[p] \in ProcRecords /\ proc[p].pc = "loaded" /\ ProcOk(p)
    BY DEF ConfigInv, ConfigOK, Lock, At
  <1>3. /\ r \in ProcRecords /\ r.pc = "locked" /\ r.loaded = proc[p].loaded
        /\ r.wants = proc[p].wants /\ r.temp = NoInode
    BY <1>1, <1>2 DEF ProcRecords, Points, ProcOk, LockOk
  <1>4. /\ proc' = [proc EXCEPT ![p] = r] /\ lock = {} /\ lock' = {p}
        /\ UNCHANGED <<file, disk, orphans, acked, reused, reverted, secrets>>
    BY <1>1 DEF Lock, Moves, Goes
  <1> QED BY <1>2, <1>3, <1>4, CreatingMoves DEF Creating

\* The temporary file gets an inode that nothing uses.
LEMMA WriteTemporaryKeeps ==
    ASSUME ConfigInv, NEW p \in Processes, NEW i \in Inodes \ InUse, WriteTemporary(p, i)
    PROVE  ConfigInv'
  <1>1. PICK r : r = [proc[p] EXCEPT !.pc = "written", !.temp = i]
    OBVIOUS
  <1>2. proc[p] \in ProcRecords /\ proc[p].pc = "locked" /\ ProcOk(p) /\ lock = {p}
    BY DEF ConfigInv, ConfigOK, WriteTemporary, At, ProcOk, LockOk
  <1>3. /\ r \in ProcRecords /\ r.pc = "written" /\ r.loaded = proc[p].loaded
        /\ r.wants = proc[p].wants /\ r.temp = i
    BY <1>1, <1>2 DEF ProcRecords, Points
  <1>4. /\ i # NoInode /\ i \notin orphans \cup {file.inode, disk.inode}
    BY LocalFilesAssumption DEF InUse
  <1>5. /\ proc' = [proc EXCEPT ![p] = r]
        /\ UNCHANGED <<file, disk, orphans, lock, acked, reused, reverted, secrets>>
    BY <1>1 DEF WriteTemporary, Goes, config
  <1> QED BY <1>2, <1>3, <1>4, <1>5, CreatingMoves DEF Creating

\* The rename: the destination was verified, so that the new file has all the
\* accounts of the old one unless an inode number was reused.
LEMMA RenameKeeps ==
    ASSUME ConfigInv, NEW p \in Processes, Rename(p)
    PROVE  ConfigInv'
  <1>1. PICK a : a = CHOOSE x \in DOMAIN proc[p].wants : TRUE
    OBVIOUS
  <1>2. PICK l : l = proc[p].loaded.accounts
    OBVIOUS
  <1>3. PICK v : v = proc[p].wants[a]
    OBVIOUS
  <1>4. /\ proc[p] \in ProcRecords /\ ProcOk(p) /\ proc[p].pc = "written"
        /\ file.inode = proc[p].loaded.inode
    BY DEF ConfigInv, ConfigOK, Rename, At, VerifyExpectation
  <1>5. /\ a \in Ids /\ DOMAIN proc[p].wants = {a} /\ v \in Servers
        /\ proc[p].wants \in Accounts
    BY <1>1, <1>3, <1>4, SingleIs DEF ProcOk, WantsOk, Creating
  <1>6. /\ l \in Accounts /\ a \notin DOMAIN l /\ IsFiniteSet(DOMAIN l)
        /\ Cardinality(DOMAIN l) < MaxAccounts
    BY <1>2, <1>4, <1>5, FilesAre DEF ProcOk, WantsOk, Creating, ProcRecords
  <1>7. PICK m : m = Bind(l, a, v)
    OBVIOUS
  <1>8. /\ m \in Accounts /\ DOMAIN m = DOMAIN l \cup {a} /\ m[a] = v
        /\ \A x \in DOMAIN l : m[x] = l[x]
    <2>1. /\ m \in Accounts /\ DOMAIN m = DOMAIN l \cup {a} /\ m[a] = v
          /\ \A x \in DOMAIN l : x # a => m[x] = l[x]
      BY <1>5, <1>6, <1>7, BindIs
    <2> QED BY <1>6, <2>1
  <1>9. Holds(m, l) /\ Holds(m, proc[p].wants)
    BY <1>3, <1>5, <1>8 DEF Holds
  <1>10. /\ IsFiniteSet(DOMAIN m) /\ Cardinality(DOMAIN m) <= MaxAccounts
    <2>1. IsFiniteSet(DOMAIN l \cup {a}) /\ Cardinality(DOMAIN l \cup {a}) = Cardinality(DOMAIN l) + 1
      BY <1>6, FS_AddElement
    <2>2. Cardinality(DOMAIN l) \in Nat
      BY <1>6, FS_CardinalityType
    <2> QED BY <1>6, <1>8, <2>1, <2>2, LocalFilesAssumption
  <1>11. PICK t : t = proc[p].temp
    OBVIOUS
  <1>12. /\ t \in Inodes /\ t \notin orphans /\ t # file.inode /\ t # disk.inode
    BY <1>4, <1>11 DEF ProcOk, LockOk, ProcRecords
  <1>13. PICK r : r = Renamed(proc[p])
    OBVIOUS
  <1>14. /\ r \in ProcRecords /\ r.pc = "renamed" /\ r.temp = NoInode /\ r.wants = proc[p].wants
    BY <1>4, <1>13, FilesAre DEF Renamed, ProcRecords, Points
  <1>15. /\ file' = [inode |-> t, accounts |-> m]
         /\ reused' = (reused \/ \E q \in Processes \ {p} :
                                    At(q, "loaded") /\ proc[q].loaded.inode = t)
         /\ proc' = [proc EXCEPT ![p] = r]
         /\ UNCHANGED <<disk, orphans, lock, acked, reverted, secrets>>
    BY <1>1, <1>2, <1>3, <1>7, <1>11, <1>13 DEF Rename, Goes
  <1>16. /\ proc'[p] = r /\ proc' \in [Processes -> ProcRecords]
         /\ \A q \in Processes : q # p => proc'[q] = proc[q]
    BY <1>14, <1>15 DEF ConfigInv, ConfigOK
  <1>17. file'.inode = t /\ file'.accounts = m /\ file' \in Files
    BY <1>8, <1>12, <1>15, FilesAre
  <1>18. reused' \in BOOLEAN /\ (~reused' => ~reused)
    BY <1>15 DEF ConfigInv, ConfigOK
  <1>19. ~reused => l = file.accounts
    BY <1>2, <1>4 DEF ProcOk, ExpectationOk, Creating
  <1>20. ~reused => Holds(file'.accounts, file.accounts)
    BY <1>9, <1>17, <1>19
  <1>21. ConfigOK'
    BY <1>10, <1>12, <1>15, <1>16, <1>17, <1>18 DEF ConfigInv, ConfigOK
  <1>22. FilesInv'
    <2>1. ~reused' => Holds(file'.accounts, disk'.accounts) /\ Holds(disk'.accounts, acked')
      BY <1>15, <1>18, <1>20, HoldsTransitive DEF ConfigInv, FilesInv
    <2>2. ~reused' /\ ~reverted' => Holds(file'.accounts, secrets')
      BY <1>15, <1>18, <1>20, HoldsTransitive DEF ConfigInv, FilesInv
    <2> QED BY <1>10, <1>15, <1>17, <2>1, <2>2 DEF ConfigInv, FilesInv
  <1>23. ProcOk(p)'
    <2>1. lock = {p}
      BY <1>4 DEF ProcOk, LockOk
    <2>2. LockOk(p)'
      BY <1>14, <1>15, <1>16, <2>1 DEF LockOk
    <2>3. WantsOk(p)'
      BY <1>4, <1>14, <1>16 DEF ProcOk, WantsOk, Creating
    <2>4. ExpectationOk(p)'
      BY <1>9, <1>14, <1>16, <1>17 DEF ExpectationOk, Creating
    <2> QED BY <2>2, <2>3, <2>4 DEF ProcOk
  <1>24. ASSUME NEW q \in Processes, q # p PROVE ProcOk(q)'
    <2>1. /\ proc[q].temp = NoInode /\ proc[q].pc \notin {"locked", "written", "renamed"}
          /\ ProcOk(q)
      BY <1>4, <1>24, OneTemporary DEF ProcOk, LockOk, ConfigInv
    <2>2. LockOk(q)'
      BY <1>16, <1>24, <2>1 DEF LockOk
    <2>3. WantsOk(q)'
      BY <1>16, <1>24, <2>1 DEF ProcOk, WantsOk
    <2>4. ExpectationOk(q)'
      <3>1. ~reused' => ~(proc[q].pc = "loaded" /\ proc[q].loaded.inode = t)
        BY <1>15, <1>24 DEF At
      <3>2. ~reused' /\ ~reverted' /\ proc[q].pc = "looked_up"
               => Holds(file'.accounts, proc[q].wants)
        BY <1>15, <1>18, <1>20, <2>1, HoldsTransitive DEF ProcOk, ExpectationOk
      <3> QED BY <1>16, <1>17, <1>24, <2>1, <3>1, <3>2 DEF ExpectationOk, Creating
    <2> QED BY <2>2, <2>3, <2>4 DEF ProcOk
  <1> QED BY <1>21, <1>22, <1>23, <1>24 DEF ConfigInv

\* The directory reaches the disk and the creation is acknowledged.
LEMMA FinishCreateKeeps ==
    ASSUME ConfigInv, NEW p \in Processes, FinishCreate(p)
    PROVE  ConfigInv'
  <1>1. PICK a : a = CHOOSE x \in DOMAIN proc[p].wants : TRUE
    OBVIOUS
  <1>2. PICK v : v = proc[p].wants[a]
    OBVIOUS
  <1>3. proc[p] \in ProcRecords /\ ProcOk(p) /\ proc[p].pc = "renamed" /\ proc[p].temp = NoInode
    BY DEF ConfigInv, ConfigOK, FinishCreate, At, ProcOk, LockOk
  <1>4. a \in Ids /\ DOMAIN proc[p].wants = {a} /\ v \in Servers
    BY <1>1, <1>2, <1>3, SingleIs DEF ProcOk, WantsOk
  <1>5. /\ disk' = file /\ acked' = Bind(acked, a, v) /\ lock' = lock \ {p}
        /\ proc' = [proc EXCEPT ![p] = Ready]
        /\ UNCHANGED <<file, orphans, reused, reverted, secrets>>
    BY <1>1, <1>2 DEF FinishCreate, SyncParent, Goes
  <1>6. acked \in Accounts
    BY DEF ConfigInv, ConfigOK
  <1>7. /\ acked' \in Accounts /\ DOMAIN acked' = DOMAIN acked \cup {a} /\ acked'[a] = v
        /\ \A x \in DOMAIN acked : x # a => acked'[x] = acked[x]
    BY <1>4, <1>5, <1>6, BindIs
  <1>8. /\ proc'[p] = Ready /\ proc' \in [Processes -> ProcRecords]
        /\ \A q \in Processes : q # p => proc'[q] = proc[q]
    BY <1>5, DownIs DEF ConfigInv, ConfigOK
  <1>9. ConfigOK'
    BY <1>5, <1>7, <1>8 DEF ConfigInv, ConfigOK
  <1>10. ~reused => Holds(file.accounts, acked')
    <2>1. ASSUME ~reused PROVE Holds(file.accounts, acked) /\ a \in DOMAIN file.accounts
                               /\ file.accounts[a] = v
      BY <1>2, <1>3, <1>4, <2>1, HoldsTransitive DEF ConfigInv, FilesInv, ProcOk, ExpectationOk, Holds
    <2> QED BY <1>7, <2>1 DEF Holds
  <1>11. FilesInv'
    <2>1. Holds(file.accounts, file.accounts)
      BY DEF Holds
    <2> QED BY <1>5, <1>10, <2>1 DEF ConfigInv, ConfigOK, FilesInv
  <1>12. ProcOk(p)'
    BY <1>8, DownIs DEF ProcOk, LockOk, WantsOk, ExpectationOk, Creating
  <1>13. ASSUME NEW q \in Processes, q # p PROVE ProcOk(q)'
    <2>1. /\ proc[q].temp = NoInode /\ proc[q].pc \notin {"locked", "written", "renamed"}
          /\ ProcOk(q)
      BY <1>3, <1>13, OneTemporary DEF ConfigInv
    <2>2. LockOk(q)'
      BY <1>8, <1>13, <2>1 DEF LockOk
    <2>3. WantsOk(q)' /\ ExpectationOk(q)'
      BY <1>5, <1>8, <1>13, <2>1 DEF ProcOk, WantsOk, ExpectationOk
    <2> QED BY <2>2, <2>3 DEF ProcOk
  <1> QED BY <1>9, <1>11, <1>12, <1>13 DEF ConfigInv

\* The account is looked up before the keyring is called.
LEMMA BeginSecretKeeps ==
    ASSUME ConfigInv, NEW p \in Processes, NEW a \in Ids, BeginSecret(p, a)
    PROVE  ConfigInv'
  <1>1. PICK v : v = file.accounts[a]
    OBVIOUS
  <1>2. file.accounts \in Accounts /\ a \in DOMAIN file.accounts
    BY FilesAre DEF ConfigInv, ConfigOK, BeginSecret
  <1>3. v \in Servers
    BY <1>1, <1>2, AccountsAre
  <1>4. PICK w : w = Bind(Empty, a, v)
    OBVIOUS
  <1>5. w \in Accounts /\ DOMAIN w = {a} /\ w[a] = v
    BY <1>3, <1>4, OneBinding
  <1>6. Single(w)
    BY <1>3, <1>4, OneBinding
  <1>7. PICK r : r = [proc[p] EXCEPT !.pc = "looked_up", !.wants = w]
    OBVIOUS
  <1>8. proc[p] \in ProcRecords /\ proc[p].pc = "ready" /\ ProcOk(p)
    BY DEF ConfigInv, ConfigOK, BeginSecret, At
  <1>9. /\ r \in ProcRecords /\ r.pc = "looked_up" /\ r.wants = w /\ r.temp = NoInode
    BY <1>5, <1>7, <1>8 DEF ProcRecords, Points, ProcOk, LockOk
  <1>10. /\ proc' = [proc EXCEPT ![p] = r]
         /\ UNCHANGED <<file, disk, orphans, lock, acked, reused, reverted, secrets>>
    BY <1>1, <1>4, <1>7 DEF BeginSecret, Goes, config
  <1>11. /\ proc'[p] = r /\ proc' \in [Processes -> ProcRecords]
         /\ \A q \in Processes : q # p => proc'[q] = proc[q]
    BY <1>9, <1>10 DEF ConfigInv, ConfigOK
  <1>12. ConfigOK' /\ FilesInv'
    BY <1>10, <1>11 DEF ConfigInv, ConfigOK, FilesInv
  <1>13. ProcOk(p)'
    <2>1. Holds(file.accounts, w)
      BY <1>1, <1>2, <1>5 DEF Holds
    <2>2. LockOk(p)'
      BY <1>9, <1>11 DEF LockOk
    <2>3. WantsOk(p)'
      BY <1>6, <1>9, <1>11 DEF WantsOk, Creating
    <2>4. ExpectationOk(p)'
      BY <1>9, <1>10, <1>11, <2>1 DEF ExpectationOk, Creating
    <2> QED BY <2>2, <2>3, <2>4 DEF ProcOk
  <1>14. ASSUME NEW q \in Processes, q # p PROVE ProcOk(q)'
    BY <1>10, <1>11, <1>14, OtherKeeps
  <1> QED BY <1>12, <1>13, <1>14 DEF ConfigInv

\* The keyring gets or loses the secret of the account that was looked up.
LEMMA SecretKeeps ==
    ASSUME ConfigInv, NEW p \in Processes, SetSecret(p) \/ DeleteSecret(p)
    PROVE  ConfigInv'
  <1>1. PICK a : a = CHOOSE x \in DOMAIN proc[p].wants : TRUE
    OBVIOUS
  <1>2. PICK v : v = proc[p].wants[a]
    OBVIOUS
  <1>3. proc[p] \in ProcRecords /\ ProcOk(p) /\ proc[p].pc = "looked_up" /\ secrets \in Accounts
    BY DEF ConfigInv, ConfigOK, SetSecret, DeleteSecret, At
  <1>4. a \in Ids /\ DOMAIN proc[p].wants = {a} /\ v \in Servers
    BY <1>1, <1>2, <1>3, SingleIs DEF ProcOk, WantsOk
  <1>5. /\ secrets' = Bind(secrets, a, v) \/ secrets' = Unbind(secrets, a)
        /\ proc' = [proc EXCEPT ![p] = Ready]
        /\ UNCHANGED <<file, disk, orphans, lock, acked, reused, reverted>>
    BY <1>1, <1>2 DEF SetSecret, DeleteSecret, Goes, config
  <1>6. /\ secrets' \in Accounts /\ DOMAIN secrets' \subseteq DOMAIN secrets \cup {a}
        /\ \A x \in DOMAIN secrets' : IF x = a THEN secrets'[x] = v ELSE secrets'[x] = secrets[x]
    <2>1. CASE secrets' = Bind(secrets, a, v)
      <3>1. /\ secrets' \in Accounts /\ DOMAIN secrets' = DOMAIN secrets \cup {a} /\ secrets'[a] = v
            /\ \A x \in DOMAIN secrets : x # a => secrets'[x] = secrets[x]
        BY <1>3, <1>4, <2>1, BindIs
      <3> QED BY <3>1
    <2>2. CASE secrets' = Unbind(secrets, a)
      BY <1>3, <2>2, UnbindIs
    <2> QED BY <1>5, <2>1, <2>2
  <1>7. /\ proc'[p] = Ready /\ proc' \in [Processes -> ProcRecords]
        /\ \A q \in Processes : q # p => proc'[q] = proc[q]
    BY <1>5, DownIs DEF ConfigInv, ConfigOK
  <1>8. ConfigOK'
    BY <1>5, <1>6, <1>7 DEF ConfigInv, ConfigOK
  <1>9. FilesInv'
    <2>1. ASSUME ~reused, ~reverted PROVE Holds(file.accounts, secrets')
      <3>1. Holds(file.accounts, secrets) /\ Holds(file.accounts, proc[p].wants)
        BY <1>3, <2>1 DEF ConfigInv, FilesInv, ProcOk, ExpectationOk
      <3>2. a \in DOMAIN file.accounts /\ file.accounts[a] = v
        BY <1>2, <1>4, <3>1 DEF Holds
      <3> QED BY <1>6, <3>1, <3>2 DEF Holds
    <2> QED BY <1>5, <2>1 DEF ConfigInv, FilesInv
  <1>10. ProcOk(p)'
    BY <1>7, DownIs DEF ProcOk, LockOk, WantsOk, ExpectationOk, Creating
  <1>11. ASSUME NEW q \in Processes, q # p PROVE ProcOk(q)'
    BY <1>5, <1>7, <1>11, OtherKeeps
  <1> QED BY <1>8, <1>9, <1>10, <1>11 DEF ConfigInv

\* The system writes the directory back, or loses what was not written.
LEMMA DiskKeeps ==
    ASSUME ConfigInv, WriteBack \/ PowerLoss
    PROVE  ConfigInv'
  <1>1. CASE WriteBack
    <2>1. disk' = file /\ UNCHANGED <<file, orphans, lock, acked, reused, reverted, secrets, proc>>
      BY <1>1 DEF WriteBack
    <2>2. ConfigOK'
      BY <2>1 DEF ConfigInv, ConfigOK
    <2>3. FilesInv'
      <3>1. Holds(file.accounts, file.accounts)
        BY DEF Holds
      <3>2. ~reused => Holds(file.accounts, acked)
        BY HoldsTransitive DEF ConfigInv, FilesInv
      <3> QED BY <2>1, <3>1, <3>2 DEF ConfigInv, ConfigOK, FilesInv
    <2>4. ASSUME NEW q \in Processes PROVE ProcOk(q)'
      BY <2>1 DEF ConfigInv, ProcOk, LockOk, WantsOk, ExpectationOk
    <2> QED BY <2>2, <2>3, <2>4 DEF ConfigInv
  <1>2. CASE PowerLoss
    <2>1. /\ file' = disk /\ reverted' = (reverted \/ file # disk) /\ lock' = {}
          /\ orphans' = (orphans \cup {proc[p].temp : p \in Processes} \cup {file.inode})
                           \ {NoInode, disk.inode}
          /\ proc' = [p \in Processes |-> Down]
          /\ UNCHANGED <<disk, acked, reused, secrets>>
      BY <1>2 DEF PowerLoss
    <2>2. proc' \in [Processes -> ProcRecords] /\ \A q \in Processes : proc'[q] = Down
      BY <2>1, DownIs
    <2>3. /\ \A p \in Processes : proc[p].temp \in Inodes \cup {NoInode}
          /\ file.inode \in Inodes \cup {NoInode}
      BY FilesAre DEF ConfigInv, ConfigOK, ProcRecords
    <2>4. orphans' \subseteq Inodes \ {disk.inode}
      BY <2>1, <2>3 DEF ConfigInv, ConfigOK
    <2>5. ConfigOK'
      BY <2>1, <2>2, <2>4 DEF ConfigInv, ConfigOK, FilesInv
    <2>6. FilesInv'
      <3>1. Holds(disk.accounts, disk.accounts)
        BY DEF Holds
      <3>2. ~reused' /\ ~reverted' => Holds(file'.accounts, secrets')
        BY <2>1 DEF ConfigInv, FilesInv
      <3> QED BY <2>1, <2>4, <3>1, <3>2 DEF ConfigInv, ConfigOK, FilesInv
    <2>7. ASSUME NEW q \in Processes PROVE ProcOk(q)'
      BY <2>2, DownIs DEF ProcOk, LockOk, WantsOk, ExpectationOk, Creating
    <2> QED BY <2>5, <2>6, <2>7 DEF ConfigInv
  <1> QED BY <1>1, <1>2

\* Every step keeps the invariant.
LEMMA ConfigStep == StoresOK /\ ConfigInv /\ [Next]_vars => ConfigInv'
  <1> SUFFICES ASSUME StoresOK, ConfigInv, [Next]_vars PROVE ConfigInv'
    OBVIOUS
  <1>1. ASSUME NEW p \in Processes, LocalStep(p) PROVE ConfigInv'
    <2>0. proc[p] \in ProcRecords /\ ProcOk(p)
      BY DEF ConfigInv, ConfigOK
    <2>1. ASSUME NEW x \in {"down", "index_old", "index_open"}, Moves(p, x),
                 proc[p].pc # "written",
                 UNCHANGED <<config, secrets>>
          PROVE  ConfigInv'
      <3>1. PICK r : r = [proc[p] EXCEPT !.pc = x]
        OBVIOUS
      <3>2. r \in ProcRecords /\ r.pc = x /\ r.temp = NoInode
        BY <2>0, <2>1, <3>1 DEF ProcRecords, Points, ProcOk, LockOk
      <3>3. proc' = [proc EXCEPT ![p] = r] /\ UNCHANGED <<file, disk, orphans, lock, acked, reused, reverted, secrets>>
        BY <2>1, <3>1 DEF Moves, Goes, config
      <3> QED BY <2>1, <3>2, <3>3, QuietKeeps DEF Creating
    <2>2. CASE ReadIndexVersion(p)
      BY <2>1, <2>2 DEF ReadIndexVersion, At
    <2>3. CASE MigrateIndex(p)
      BY <2>1, <2>3 DEF MigrateIndex, At
    <2>4. ASSUME NEW r \in {Down, Ready}, Goes(p, r), UNCHANGED <<config, secrets>>
          PROVE  ConfigInv'
      <3>1. proc' = [proc EXCEPT ![p] = r] /\ UNCHANGED <<file, disk, orphans, lock, acked, reused, reverted, secrets>>
        BY <2>4 DEF Goes, config
      <3> QED BY <2>4, <3>1, QuietKeeps, DownIs DEF Creating
    <2>5. CASE ReadOutboxVersion(p)
      <3>1. CASE Goes(p, Down) \/ Goes(p, Ready)
        BY <2>4, <2>5, <3>1 DEF ReadOutboxVersion
      <3>2. CASE Goes(p, [proc[p] EXCEPT !.pc = "outbox_old", !.version = version])
        <4>1. PICK r : r = [proc[p] EXCEPT !.pc = "outbox_old", !.version = version]
          OBVIOUS
        <4>2. version \in Nat
          BY LocalFilesAssumption DEF StoresOK, SchemaVersion
        <4>3. r \in ProcRecords /\ r.pc = "outbox_old" /\ r.temp = NoInode
          BY <2>0, <2>5, <4>1, <4>2 DEF ReadOutboxVersion, At, ProcRecords, Points, ProcOk, LockOk
        <4>4. proc' = [proc EXCEPT ![p] = r] /\ UNCHANGED <<file, disk, orphans, lock, acked, reused, reverted, secrets>>
          BY <2>5, <3>2, <4>1 DEF ReadOutboxVersion, Goes, config
        <4> QED BY <4>3, <4>4, QuietKeeps DEF Creating
      <3> QED BY <2>5, <3>1, <3>2 DEF ReadOutboxVersion
    <2>6. CASE MigrateOutbox(p)
      BY <2>4, <2>6 DEF MigrateOutbox
    <2>7. CASE \E o \in DOMAIN ops : Advance(p, o)
      <3>1. UNCHANGED <<file, disk, orphans, lock, acked, reused, reverted, secrets, proc>>
        BY <2>7 DEF Advance, config
      <3> QED BY <3>1 DEF ConfigInv, ConfigOK, FilesInv, ProcOk, LockOk, WantsOk, ExpectationOk
    <2>8. CASE \E a \in Ids, server \in Servers : BeginCreate(p, a, server)
      BY <2>8, BeginCreateKeeps
    <2>9. CASE Lock(p)
      BY <2>9, LockKeeps
    <2>10. CASE \E i \in Inodes \ InUse : WriteTemporary(p, i)
      BY <2>10, WriteTemporaryKeeps
    <2>11. CASE Rename(p)
      BY <2>11, RenameKeeps
    <2>12. CASE FinishCreate(p)
      BY <2>12, FinishCreateKeeps
    <2>13. CASE FailCreate(p)
      BY <2>13, QuietKeeps, DownIs DEF FailCreate, Goes, Creating
    <2>14. CASE \E a \in Ids : BeginSecret(p, a)
      BY <2>14, BeginSecretKeeps
    <2>15. CASE SetSecret(p) \/ DeleteSecret(p)
      BY <2>15, SecretKeeps
    <2> QED BY <1>1, <2>2, <2>3, <2>5, <2>6, <2>7, <2>8, <2>9, <2>10, <2>11, <2>12, <2>13,
               <2>14, <2>15 DEF LocalStep
  <1>2. ASSUME NEW p \in Processes, Crash(p) PROVE ConfigInv'
    BY <1>2, QuietKeeps, DownIs DEF Crash, Goes, Creating
  <1>3. CASE WriteBack \/ PowerLoss
    BY <1>3, DiskKeeps
  <1>4. CASE UNCHANGED vars
    <2>1. UNCHANGED <<file, disk, orphans, lock, acked, reused, reverted, secrets, proc>>
      BY <1>4 DEF vars, config
    <2> QED BY <2>1 DEF ConfigInv, ConfigOK, FilesInv, ProcOk, LockOk, WantsOk, ExpectationOk
  <1> QED BY <1>1, <1>2, <1>3, <1>4 DEF Next

\* Migrations keep the types of the stores.
LEMMA StoresStep == StoresOK /\ [Next]_vars => StoresOK'
  <1> SUFFICES ASSUME StoresOK, [Next]_vars PROVE StoresOK'
    OBVIOUS
  <1>1. CASE UNCHANGED <<index, outbox>>
    BY <1>1 DEF outbox, StoresOK
  <1>2. ASSUME NEW p \in Processes, MigrateIndex(p) PROVE StoresOK'
    BY <1>2 DEF MigrateIndex, outbox, StoresOK
  <1>3. ASSUME NEW p \in Processes, MigrateOutbox(p) PROVE StoresOK'
    <2>1. CASE UNCHANGED outbox
      BY <1>1, <1>3, <2>1 DEF MigrateOutbox
    <2>2. CASE ~UNCHANGED outbox
      <3>1. /\ ops' = [o \in DOMAIN ops \cup legacy |->
                           IF o \in legacy THEN "migrated" ELSE ops[o]]
            /\ events' = [o \in Plans |-> events[o] + IF o \in legacy THEN 1 ELSE 0]
            /\ version' = SchemaVersion
            /\ UNCHANGED <<legacy, worked, index>>
        BY <1>3, <2>2 DEF MigrateOutbox
      <3>2. events' \in [Plans -> Nat]
        BY <3>1 DEF StoresOK
      <3> QED BY <3>1, <3>2 DEF StoresOK
    <2> QED BY <2>1, <2>2
  <1>4. ASSUME NEW p \in Processes, NEW o \in DOMAIN ops, Advance(p, o) PROVE StoresOK'
    BY <1>4 DEF Advance, StoresOK
  <1>5. ASSUME NEW p \in Processes, LocalStep(p) PROVE StoresOK'
    <2>1. CASE \/ ReadIndexVersion(p) \/ ReadOutboxVersion(p)
               \/ \E a \in Ids, server \in Servers : BeginCreate(p, a, server)
               \/ Lock(p)
               \/ \E i \in Inodes \ InUse : WriteTemporary(p, i)
               \/ Rename(p) \/ FinishCreate(p) \/ FailCreate(p)
               \/ \E a \in Ids : BeginSecret(p, a)
               \/ SetSecret(p) \/ DeleteSecret(p)
      <3>1. UNCHANGED <<index, outbox>>
        BY <2>1 DEF ReadIndexVersion, ReadOutboxVersion, BeginCreate, Lock,
                    WriteTemporary, Rename, FinishCreate, FailCreate, BeginSecret, SetSecret,
                    DeleteSecret
      <3> QED BY <1>1, <3>1
    <2> QED BY <1>2, <1>3, <1>4, <1>5, <2>1 DEF LocalStep
  <1>6. CASE (\E p \in Processes : Crash(p)) \/ WriteBack \/ PowerLoss \/ UNCHANGED vars
    <2>1. UNCHANGED <<index, outbox>>
      BY <1>6 DEF Crash, WriteBack, PowerLoss, vars
    <2> QED BY <1>1, <2>1
  <1> QED BY <1>5, <1>6 DEF Next

\* Everything together, in every reachable state.
LEMMA Invariance == Spec => [](OutboxInv /\ StoresOK /\ ConfigInv)
  <1>1. Init => StoresOK
    <2> SUFFICES ASSUME Init PROVE StoresOK
      OBVIOUS
    <2>1. events \in [Plans -> Nat]
      BY DEF Init
    <2>2. DOMAIN ops = {}
      BY EmptyIs DEF Init
    <2> QED BY <2>1, <2>2 DEF Init, StoresOK
  <1> QED BY <1>1, OutboxInit, OutboxStep, StoresStep, ConfigInit, ConfigStep, PTL DEF Spec

\* Files, stores, keyring and processes keep their types; the file never holds
\* more accounts than MAX_ACCOUNTS, and no orphan shares its inode.
THEOREM TypeCorrect == Spec => []TypeOK
  <1>1. StoresOK /\ ConfigInv => TypeOK
    BY TypeHalves DEF ConfigInv
  <1> QED BY <1>1, Invariance, PTL

\* An acknowledged account stays configured as it was, whatever creations race
\* and wherever crashes and power losses fall, unless an inode was reused.
THEOREM AcknowledgedStayHolds == Spec => []AcknowledgedStay
  <1>1. ConfigInv => AcknowledgedStay
    BY DEF ConfigInv, FilesInv, Holds, AcknowledgedStay
  <1> QED BY <1>1, Invariance, PTL

\* A secret belongs to a configured account and to the server it has now,
\* unless an inode was reused or a power loss took back a visible file.
THEOREM SecretReachesItsServerHolds == Spec => []SecretReachesItsServer
  <1>1. ConfigInv => SecretReachesItsServer
    BY DEF ConfigInv, FilesInv, Holds, SecretReachesItsServer
  <1> QED BY <1>1, Invariance, PTL

=============================================================================
