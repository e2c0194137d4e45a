# A verification project for kirje

kirje is a mail client for people and agents: a command line and an MCP server
over one runtime, with several kinds of state that must not go wrong.  The *outbox*
(`crates/kirje-store/src/outbox.rs`) records every change to a mailbox as an
operation that a human approves and that is applied at most once.  The
*authority journal* (`crates/kirje-store/src/authority.rs`) records what the
owner of the installation has signed and which stores, accounts and credentials
follow from it.  Beside them stand the *message index*, a local copy of what
mailboxes hold, and the *local files* that all processes of a user share: the
account configuration, the keyring and the SQLite files themselves.  This
directory holds TLA+ models of these, TLC runs on small instances and TLAPS
proofs.  `PROJECT.json` lists components, runs, mutants,
the map from definitions to source lines, findings, hazards and theorems.

## 1. Inventory

| Component | State | Operations | Hard behaviour | What makes it correct |
|---|---|---|---|---|
| Mutation ledger, `outbox.rs`, `operation.rs`, `send.rs` | SQLite `operations`, `operation_events` | plan, approve, claim, finish, read; approvals, claims and reads start with a sweep that expires and reconciles | concurrent processes, dead processes, late finishers, clocks read before the lock | one invocation per operation; a status never claims more than is known; the event trail replays to the row |
| Governed apply, `kirje-runtime`, `smtp.rs`, `imap.rs` | none beyond the call | `apply_send`, `apply_mail_operation` and the provider commands | a command that is sent and not answered; a move that is a COPY and a STORE | as above, across the calls |
| Draft store, `outbox.rs`, runtime | rows of kind draft | create, list, update, discard, plan from a draft | every call reads in one transaction and writes in another | the audit trail has every version; a plan holds an active version; a discard is final and the limit holds (neither does, see section 4) |
| Authorization and enrollment, `authority.rs` | challenges, receipts, nonce and grant uses, registered stores, one event journal | `create_challenge`, `verify_proof`, `enroll_store` | crash after commit, clocks that run back, racing grants, a validator that refuses unknown histories for good | answers and expiry are final, one enrollment per identity, no lockout |
| Account transitions and cleanup, `authority.rs`, `kirje-credential` | store, account, transition, version and cleanup rows, the keyring | prepare, mark committed, finalize, abort, recovery, claim, delete | crash between file and database, keyring delete inside a transaction, aborts, stale observers, a shared journal | one change in flight, aborts restore, erasures spare live credentials, one cleanup per keyring entry, no lockout |
| Authority bootstrap, `authority.rs` | the database file, its meta row and first events, the anchor kept elsewhere, the handles of callers | `open`, `prepare_bootstrap` and its exact retry, `confirm_anchor`, the check of every ready call | several callers with different keys, handles of any age, a crash between the file, the transaction and the anchor, lagging clocks | one realm, every crash can be resumed, the authority becomes ready |
| Message index, `kirje-store/src/lib.rs`, `imap.rs`, runtime | cursor row, envelope rows | `sync_mailbox`, `apply_sync`, local search, reading a reference | concurrent syncs whose batches are applied in any order, a UIDVALIDITY change at any moment, `n:*` and the largest UID | rows and cursor agree; a complete index has no gaps; a reference never reads or becomes another message; the cursor catches up |
| Configuration file and keyring, runtime, `kirje-local-io` | a TOML file, keyring entries | load, `create` by compare and rename, set and delete a secret | lost updates, inode reuse, crash and power loss around the rename | reported accounts stay, a secret stays with the server it was set for |
| Schema migration, `outbox.rs`, `lib.rs` | `user_version`, legacy `send_plans` | migrate on open | the version is read before the transaction that upgrades | each legacy plan is migrated once and never taken back |
| Manifests, mail types, CLI, MCP, other local I/O | none | parsing, rendering, dispatch | | not modelled, see section 7 |

The CLI and the MCP server call the runtime; the runtime calls the outbox, the
index, the configuration file and the protocol clients.  Processes share nothing
but the SQLite files, the configuration file and the keyring.  Every outbox
transaction is immediate, except that creating an operation and migrating the
schema are deferred ones; draft calls take two.  Every authority call holds an exclusive
file lock and one immediate transaction, and begins by validating the complete
history.  At this commit the runtime does not call the authority yet: it is a
library that its tests drive.

## 2. Modules

| Module | Models |
|---|---|
| `Ledger` | the operations table, the apply calls of concurrent processes (`pc`, `target`) and the provider (`begins`, `need`, `issued`, `done`) |
| `GovernedOperation` | abstract specification: what the ledger promises per operation, without tables, clocks or workers |
| `LedgerRefinement` | the mapping under which `Ledger` implements `GovernedOperation` |
| `LedgerProofs` | theorems about `Ledger` |
| `Drafts` | draft rows and the two-transaction calls on them |
| `Authorization` | challenges, receipts, enrollment, and the validation of their history |
| `AccountTransitions` | account and credential transitions of one store, cleanup and keyring, and the validation of their history |
| `MessageIndex` | a mailbox on the server, the index, and the sync calls between them |
| `AuthorityBootstrap` | opening, creating and confirming the authority, up to its first ready call |
| `LocalFiles` | configuration file, keyring, and the migration of both SQLite files on start |
| `DraftsProofs`, `AuthorizationProofs`, `AccountTransitionsProofs`, `MessageIndexProofs`, `AuthorityBootstrapProofs`, `LocalFilesProofs` | theorems about these six |
| `AccountHistoryProofs` | proof that only an abort can make the validation of `AccountTransitions` refuse its history |
| `MC...` | instances of these for TLC |

**Ledger.**  One action is one transaction (`Plan`, `Approve`, `ClaimSend`,
`PeekMail`, `ClaimMail`, `Finish`, `StatusRead`) or one step of an apply call
between transactions (`Credentials`, `PreflightFails`, `Begin`, `Respond`,
`RespondError`, `Abandon`).  The sweep is part of the transactions of reads, approvals
and claims and is rolled back with them; `Plan` and `Finish` do not sweep.  `Now` lets a transaction use a clock value up to `Lag` old,
because `Utc::now()` is read before waiting for the lock.  A worker may stop
between any two steps (`Abandon`), and the provider executes issued commands at
any later time (`Execute`).

**Drafts.**  `call` holds what a session read in its first transaction; the
second transaction uses it without a comparison where the code makes none.

**Authorization.**  Each committing path of a call is an action: the success
path, the exact retry, and the paths that record or report an expiry.
`ValidHistory` is a conjunct of `Next`, as `load_snapshot` precedes every call.
Identifiers that the code draws at random (challenge, nonce, receipt) are named
by the grant.

**AccountTransitions.**  The configuration pair seen by an observation is an
arbitrary input, since the file belongs to the caller.  The permit of a cleanup
holds the apply lock, so while `permit` is set no other call runs.  Timestamps,
expiry and the signatures behind a prepare are the subject of `Authorization`
and left out here, which makes the validation of this model weaker than the
code's: a history refused here is refused by the code.  Credentials, grants and
receipts are named by the transition that introduced them, and bindings by the
credential.

**MessageIndex.**  The server delivers, expunges and renews the mailbox at any
time.  A sync call reads the cursor (`Begin`), searches (`SearchUids`), fetches
(`Fetch`) and applies (`ApplySync`), and may fail in between; `seen` is the
UIDVALIDITY that EXAMINE returned.  EXAMINE and UID SEARCH are one step: between
them only a renewal would matter, and then the call fails.  Messages are named
by the order of their delivery, which tells a UID used again from its first
use.  `skewed` is a history variable, see the runs.

**AuthorityBootstrap.**  A handle keeps the anchor its caller had read and the
state `open` found; every call compares both with the database again.
`database` has the class that `classify_database` tells apart, the identities
and times of the meta row, and the first two events, so that `LoadsSnapshot`
refuses what `load_snapshot` would refuse.  Creating the file
(`CreateDatabase`) and the transaction that fills it are separate, since a crash
can come between.  The caller's own part, keeping the anchor, is external.

**LocalFiles.**  The configuration file is an inode and the accounts in it, once
as processes see it (`file`) and once as it would survive a power loss
(`disk`).  `replace_private` is its steps: lock, first identity check and
temporary file, second check and rename, directory sync.  A process that starts
opens both stores, reading each version before the transaction that migrates
it, and refuses a store that is newer than it knows; a migrated plan may be worked on (`Advance`) as soon as one process is
ready, while another still holds the old version number.

## 3. Runs

| Run | Instance | Result |
|---|---|---|
| `ledger` | 2 operations, 2 workers, lag 1, crashes, times 0..3 | all safety properties and the refinement hold, and every plan that is no draft becomes final |
| `ledger_claim` | 1 operation, 1 worker | violated: a send applied with the id of a non-send operation is claimed and left applying |
| `drafts` | 3 drafts, 2 sessions, limit 1 | audit and plan properties hold |
| `drafts_discard` | 1 draft, 2 sessions | violated: an update that read before a discard revives the draft |
| `drafts_limit` | 4 drafts, 1 session, limit 2 | violated: after a discard one caller alone exceeds the limit |
| `authorization` | 3 grants, 2 stores at 1 location, 2 genuine proofs and a forged one, times 0..3 | all properties hold |
| `transitions` | 3 transitions, 2 accounts with 1 display id, 1 foreign call | all properties hold |
| `transitions_retry` | 3 transitions, 1 account | violated: preparing again after an abort shuts the journal |
| `transitions_abort` | 1 transition, 1 foreign call | violated: a foreign call between prepare and abort shuts the journal |
| `index` | 2 sync calls with batches of 1, 3 messages, UIDs up to 3, 1 expunge, 1 renewal | all properties hold, and the cursor catches up |
| `local_files` | 2 processes, 3 account ids, 2 servers, 3 inodes, an index that is absent or newer, an outbox that is absent, legacy with 1 plan, or newer | all properties hold |
| `bootstrap` | 3 callers, 2 pairs of keys, 2 realms, times 0..2 with tolerance 1 | all properties hold, and the authority becomes ready |

*Bounds.*  Two workers suffice for a claim to be contended while its holder is
alive, dead or swept; two operations let a sweep move one while another is
claimed.  The clock runs past expiry and the stale limit of whatever is planned
up to `Horizon`.  `MCLedger` explores one of the two orders of operations with
different kinds or expiries (`PlannedInOrder`).  Three drafts let two calls race
on one while others fill the page; `drafts_limit` has a limit of two, the least
with a discarded row on the page and an active draft outside it.  Three grants
allow a context to have an expired, an authorized and a pending challenge.  Three transitions are
the least with a committed account, an aborted change and another change, and
the least in which a cleaned-up credential is followed by a further update.  Two
contents suffice: with the generation they make before, after and third pairs.
Batches of one message leave a backlog after every call, three messages reach
the largest UID, and one renewal is enough for a call, the index and the server
to disagree.  Three callers let one create, one hold an old handle and one
arrive in between.  Two processes with three inodes let a file be replaced while
its predecessor is still expected; `MCLocalFiles` explores a legacy outbox
before the first account exists (`Bound`), as the two share no state, and stops
at a reused inode, after which nothing is claimed.

*Exceptions stated in the properties.*  Each names something the code does not
prevent; without the exception TLC finds the first two properties violated.
`CoverageHonest` excludes `skewed` histories, in which a batch was applied to a
cursor other than the one it was asked for, or a first window with a backlog was
merged into an index that existed already: `apply_sync` compares neither, and the flag of the initial window then promises too much
(`lib.rs:189`).  This takes no second caller: a sync of an empty mailbox marks
the index complete and stores no highest UID; if more messages than the batch
limit arrive before the next sync, that one takes the newest window and moves
the cursor over the others, the flag stays, and no incremental sync asks for
them again.
`AcknowledgedStay` and `SecretReachesItsServer` exclude a reused inode (`reused`):
the compare of `verify_expectation` is on device and inode numbers, so a stale
replacement succeeds when the file system gave the number to a newer file.
`SecretReachesItsServer` also excludes a power loss that takes back a file
already renamed and seen (`reverted`).

*Deadlock* is checked in all runs but those of drafts and transitions.  A draft
instance may use up its bounded events.  A transition instance stops when its transitions
are used up, when a store is frozen, and in the histories of the two findings,
which is what those findings are about.

*Fairness.*  `FairSpec` of `Ledger`: time passes, and somebody keeps reading the
ledger, because every CLI or MCP command that shows an operation sweeps first.
Nothing is assumed of apply calls, which may hang or die.  `FairSpec` of
`MessageIndex`: one caller, the keeper, keeps syncing, as a scheduled or repeated
`sync` does; its calls end, because the connection answers or breaks or the user
stops the call (the code sets no IMAP timeout of its own, so this is an
assumption about the connection), and a step it can do again and again does not
fail every time.  Nothing is assumed of what happens to the mailbox or of the
other calls.  `FairSpec` of `AuthorityBootstrap`: a call lets go of the
apply lock, or its process ends and the system does; one caller keeps opening,
preparing, publishing and confirming, without errors for ever.  It needs strong
fairness because others may hold the lock again and again.

*Mutants.*  Every property of a passing run has a mutant, an altered form of one
definition (marked `Mutant:` in the modules) under which TLC finds the property
violated.

## 4. Findings

1. `apply_send` claims any approved operation and checks its kind afterwards, so
   the error leaves the row `applying` although failures before the invocation
   are documented as recorded.
2. A draft discarded between the read and the write of an update becomes active
   again.
3. After an aborted mutation, a second transition of the same account starts
   from the same generation; the validator does not count it as a successor,
   compares the aborted transition with the row the new one holds, and refuses
   the journal from then on (`authority.rs:7942`).
4. The validator wants the abort event directly after the prepare event, in a
   journal shared by all stores; any other call in between makes it refuse the
   journal from then on (`authority.rs:8641`).
5. `create_draft` counts the active drafts on a page of the newest `MAX_DRAFTS`
   rows, from which discarded ones are removed afterwards: each discarded row on
   the page admits one more draft than its error message allows, without any race
   (`outbox.rs:451`).  The count and the insertion are also two transactions, so
   racing creations exceed the limit too (`outbox.rs:414`).

`LockedOutOnlyAfterAbort` shows the extent of 3 and 4: without an abort, every
history is accepted (section 5: for any number of transitions and foreign calls).

## 5. Proofs

Every invariant and action property that a passing run checks is also a theorem
for all values of the constants; the liveness properties listed at the end of
this section are not.
A theorem `Spec => []P` follows from an inductive invariant that is named below.  The
proofs are laid out alike: a lemma per action that says what the action does to
each row, a lemma that the action keeps each part of the invariant, and one
`PTL` step at the end.

### Ledger

For any sets of operations and workers, any time limits and lag
(`LedgerAssumption`):

| Theorem | States |
|---|---|
| `TypeCorrect` | `Spec => []TypeOK` |
| `LedgerInvHolds` | who holds a claim, and what each point and status says of the provider |
| `AtMostOnceHolds` | one invocation per operation, no command twice |
| `InvocationAccountedHolds` | failed and expired operations never reached the provider |
| `SucceededMeansAppliedHolds` | succeeded operations are carried out in full |
| `AuditReplaysHolds` | the event trail replays to the row and counts its attempts |
| `InvokedOnlyIfApprovedHolds` | what reached the provider was planned, approved and claimed, in this order |
| `FinalsStayHolds` | final statuses are never rewritten; claims precede expiry |
| `LedgerRefinesGoverned` | `Ledger` implements `GovernedOperation` |

`AtMostOnce` is not inductive: the claim is safe because a row leaves `approved`
only once, and the invocation because the claim stays exclusive even after a
sweep took the row away.  `LedgerInv` says this in three parts.  `ClaimInv`: a
worker that holds a claim sees its row applying or ambiguous, and no two workers
hold one row.  `AttemptInv`: what each point of the apply call has done to the
provider.  `ProviderInv`: what each status says about the provider.
`FinalsStay` needs in addition that a planned row has an expiry (`ExpiryInv`).
A trail can be as long as the history, but the lifecycle has no cycle:
`TrailInv` lists, per status, the few trails that a row in this status can have,
which makes both trail properties inductive.  The refinement theorem uses
`LedgerInv` and shows for each operation that every step of the ledger is one
edge of `GovernedOperation` or leaves it alone, which is why the abstract `Next`
lets all operations move in one step: a sweep moves many.

### Drafts

For any sets of drafts and texts, any number of concurrent calls and any limit
(`DraftsAssumption`):

| Theorem | States |
|---|---|
| `TypeCorrect` | `Spec => []TypeOK` |
| `AuditMatchesRowHolds` | first and last event of a draft agree with its row |
| `PlansAreActiveVersionsHolds` | a plan holds the text of an active version |

`DraftsInv` says what a call that has read and not yet written relies on
(`CallInv`): the draft it creates is stamped, the draft it read has a row, and
the text it plans stands in an event that nothing overwrites, because rows and
events only grow (`Grows`).

### Authorization

For any sets of grants, manifests, stores and proofs, any lifetime, tolerance
and clock bound (`AuthorizationAssumption`):

| Theorem | States |
|---|---|
| `TypeCorrect` | `Spec => []TypeOK` |
| `NeverLockedOutHolds` | the validation of the next call accepts every history |
| `ExpiryIsFinalHolds` | a grant reported as expired is never used |
| `OneEnrollmentPerIdentityHolds` | each store, location and grant is enrolled once |
| `AnswersAgreeHolds` | all callers see one receipt and one enrollment |

`ValidHistory` is a conjunct of `Next`, but that does not make it an invariant:
what is to be shown is that no committed call leaves a history that it refuses.
`TablesInv` restates the validation so that one more event can be appended to
it: instead of counting the events of an entity it says at which position the
one event stands (`GraphOk`, `GrantOk`, `StoreOk`), that an earlier challenge of
a context was closed before the next one was created (`InOrder`), and that uses
and enrollments are equally many (`CountsOk`).  `InvIsValid` leads back from it
to `ValidHistory`.  `ExpiryIsFinal` needs that whoever was told of an expiry was
told so by the row or by a clock reading that the journal kept (`ToldOk`): a
recovered receipt writes the clock it compared with, so no lagging caller gets
back behind it.

### Account transitions

For any sets of accounts and contents, finitely many transitions and any number
of foreign calls (`TransitionsAssumption`; identifiers are of fixed size, so
there are finitely many transitions, and a transition is not itself the
identifier of a cleanup):

| Theorem | States |
|---|---|
| `TypeCorrect` | `Spec => []TypeOK` |
| `OneChangeInFlightHolds` | one open or frozen transition, which alone holds its account |
| `PairFollowsCommitsHolds` | the pair counts the commits and carries the content of one |
| `ActiveAccountIsCommittedHolds` | an active account is what was last finalized, aborts included |
| `DeletedMeansErasedHolds` | deleted cleanups were erased, erased ones were claimed |
| `ErasureSparesCredentialsHolds` | no cleanup erases a credential in use or to be restored |
| `EndsStayHolds` | an ended transition keeps its row |
| `OneCleanupPerLocatorHolds` | no keyring entry is reserved for two cleanups |
| `LockedOutOnlyAfterAbortHolds` | without an abort, the validation of the next call accepts every history |

`RowsInv` holds what the properties need of the rows besides themselves.  That
an abort restores the right version rests on `OneVersionEach` (a generation of
an account has one version row) and on `HeldOk` (a transition in flight holds
its account, whose earlier snapshot is a finalized version that no other is
ahead of).  That an erasure spares live credentials rests on `EndOk` (a
finalized update leaves an account that is done with the credential it had, a
removal no account) and on `Known` (a credential is never that of a transition
still to come).  `OneCleanupPerLocator` is inductive together with `RowsInv`: the
locator of a reservation is read off a transition row that nothing rewrites
(`LocatorsKept`), and a prepare reserves only what no row of any age names.

`LockedOutOnlyAfterAbort` compares the rows with a journal as long as the
history, so `HistoryInv` restates the validation, as `TablesInv` does for
`Authorization`, in a form that survives one more call.  It has three parts.
`JournalInv`: each event belongs to a row that has reached it, each store event
may follow the one before it, and the last one is that of the open transition.
`EventsInv`: the events of a transition and of its cleanups are in the journal
once, at positions in the order of the lifecycle, and the end of a transition is
next to its store event; foreign calls only add later positions
(`OldOrNew`).  `ChainInv`: transitions are one generation apart and start from
the pair the store had, the row of an account is what its last transition left,
and the versions are those that were committed.  `HistoryInv` is an implication
from `NoAbort`.  It is inductive only in this form, because an abort is what
breaks it (findings 3 and 4), and an aborted transition stays one, so a step that
ends without an abort began without one (`EndsStay`).

### Message index

For any sets of calls and limits and any bounds on messages, UIDs and renewals
(`MessageIndexAssumption`):

| Theorem | States |
|---|---|
| `IndexTypes` | `Spec => []TypeOK` |
| `IndexStaysConsistent` | rows and cursor agree and are of one UIDVALIDITY |
| `IndexReadsWhatWasIndexed` | a reference reads the message that was indexed, or nothing |
| `ReferencesStayHolds` | no batch puts another message under an indexed reference |
| `CoverageHonestHolds` | a complete index misses nothing up to its cursor, unless `skewed` |

None of these is inductive, because a batch is applied long after it was
fetched.  `IndexInv` adds that a batch on its way is of the UIDVALIDITY its call
saw (`BatchesConsistent`, `CallsInOrder`), and that rows and batches of the
current UIDVALIDITY have UIDs below the server's next one and name the message
that still has that UID, if any (`EverythingFaithful`): a delivery cannot then
take a UID that is already named, and a renewal makes every row an old one.
`ReferencesStay` speaks of old rows too, about which the server no longer says
anything: `ReferencesAgree` adds that all rows and all batches on their way agree
on the message of a reference, whatever its UIDVALIDITY.  A fetch brings only
what the server holds now, which agrees with the rest by `EverythingFaithful`.
`CoverageInv` adds that a batch leaves no gap (`NoGap`): it holds every message
above the cursor its call went on from, up to the highest one it reaches.  An
incremental search has this from taking the oldest UIDs (`OldestLeaveNoGap`), a
window only if nothing was left over (`WindowTakesAll`), which is why
`apply_sync` may call only such a window complete.

### Bootstrap

For any sets of callers, keys and realms, any tolerance and any times
(`BootstrapAssumption`):

| Theorem | States |
|---|---|
| `BootstrapTypes` | `Spec => []TypeOK` |
| `BootstrapOneRealm` | all callers are told of one realm, with the keys they asked for |
| `BootstrapResumable` | `open` never requires a recovery; a ready authority has its anchor |

`BootstrapInv` adds to `OneRealm` that a handle is never ahead of the database
and the anchor (`HandlesLag`), that a database without a realm has no snapshot
and one with a realm passes `load_snapshot` (`DatabaseIsSound`, which needs the
clock never to run back), and `ReadyHasAnchor`.

### Local files

For any sets of processes, accounts, servers, inodes and legacy plans
(`LocalFilesAssumption`):

| Theorem | States |
|---|---|
| `TypeCorrect` | `Spec => []TypeOK` |
| `MigratedOnceHolds` | each legacy plan is migrated once and never taken back |
| `AcknowledgedStayHolds` | a reported account stays, unless an inode was reused |
| `SecretReachesItsServerHolds` | a secret belongs to the server its account has, with the two exceptions stated |

`OutboxInv` adds to `MigratedOnce` that only existing operations were worked on.
The other two rest on `ConfigInv`: the replacement is exclusive and a temporary
inode belongs to one process (`LockOk`); a creation adds one account that the
file it loaded did not have (`WantsOk`); a creation whose expectation still holds
has loaded the accounts that the file has now (`ExpectationOk`), which is where a
reused inode breaks the argument; and the file holds what is on the disk, which
holds what was acknowledged (`FilesInv`).

### Only model-checked

The liveness properties `EventuallyFinal`, `CursorCatchesUp` and
`EventuallyReady`: liveness under fairness and ENABLED are outside the prover's
reach.  The properties of the five findings are violated, and nothing is proved
about them.

## 6. Plan

Done: all modules of section 2, and the proofs of section 5.  Next, in this
order:

1. An abstract mailbox that `MessageIndex` implements up to its cursor, and the
   refinement.
2. A composition of `LocalFiles` and `AccountTransitions`, in which the observed
   pair is what the file holds, once the runtime calls the authority.

## 7. Not modelled

Canonical encoding and parsing of manifests (`kirje-core/src/authorization.rs`)
are pure functions on bytes; the models take the manifests they accept as
inputs, and a prepare reads its manifest off the rows.  A prepare or a cleanup
claim whose receipt has expired records the expiry as `enroll_store` does, which
`Authorization` models.  SMTP and IMAP wire formats, login and mailbox reading
have no state of their own.  The CLI and the MCP server parse, dispatch and
render.  Bounded reads, symbolic links, permissions and path rules of the local
files are operating-system I/O.  SQLite's transactions, the file lock and the
keyring are trusted to do what they promise; the keyring may fail.  Owner and
recovery key rotation have manifests but no state-changing call yet.
