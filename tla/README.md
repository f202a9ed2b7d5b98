# Engine: specifications and proofs

TLA+ models of the Engine's concurrent and crash-prone parts (the Python code under
`src/.engine/tools`), TLC runs on small instances, and proofs checked by TLAPS for every value of
the constants. Paths below are relative to `src/.engine/tools` unless they begin with `src/`.

To repeat the results, in this directory:

    tlc -config MCPlanLibrary.cfg MCPlanLibrary.tla
    tlapm PlanLibrary_proofs.tla

## 1. The system

The Engine is a set of command-line tools and session hooks through which coding sessions plan,
build and file work in a repository. Nothing runs as a server: every call is a short-lived process,
several sessions run at once on several worktrees of one clone, and what they share are files under
the clone, one Git ref and the GitHub API. So the hard parts are alike everywhere: two processes
between a read and a write, a process that dies between two durable writes, a network answer that
never comes, and a retry that meets its own earlier effect.

| Component | State it keeps | Operations | How it meets the others |
|---|---|---|---|
| Build ownership (`build_state_store.py`, `build_coordinator_core.py`) | in each sealed plan's record a lease: generation, current claim, ended claims; beside it snapshots, archives, locators | reserve, finish a binding, mutate, retire, adopt | per-plan file lock; the coordinator's verbs call it; plan closure reads the lease |
| Plan closure (`project_manager.py`) | the record's closure | `close_plan_record`, `cmd_reopen` (not for sealed plans) | must not close a plan that owns a Build |
| Issue submission (`issue_recovery.py`, `issue_triage.py`) | nothing of its own: calls over the journal | submit, recover, reconcile, supersede | GitHub REST; the journal |
| Issue journal (`issue_recovery_store.py`) | a Git ref: one commit per revision | load, compare-and-swap, chain check | every producer of issues |
| Memory capture (`memory/capture.py`) | cursor file, capture journal, status | capture a session's delta, roll a journal forward | the ledger, the index; called at each stop and by the drain |
| Memory ledger (`memory/ledger.py`, `forget.py`, `compact.py`, `erasure_observer.py`) | the ledger, generation and epoch sidecars | append, withhold, restore, enact an erasure, compact | one store lock (`mutation_authority.py`) |
| Memory index and recall (`memory/index.py`, `recall.py`) | a SQLite file with its stamps | rebuild, extend, search, repair | derived from the ledger |
| Memory restore and backup (`restore_vault.py`, `backup_vault.py`) | a restore transaction, a remote vault | back up, restore in phases, reconcile | replaces ledger, sidecar and index |
| Plan library (`plan_store.py`) | revision chain, head, redaction intents | append a revision, record a gate, redact, recover the head | the lease lives in its record |
| Build coordinator and work graph (`build_coordinator*.py`) | the Build's snapshot | claims, attempts, results, reviews, gates | writes through Build ownership |
| Integration queue (`integration_queue*.py`) | a label on pull requests | admit, release, surface the next | GitHub labels, without a lock |
| Plan programs, transactions, telemetry, module manager, release cut, boot, checks | various | mostly sequential | use the parts above |

What makes each of them correct, and where it is hard:

- **Build ownership.** One plan owns a Build at a time and one Build a plan; a writer that was
  overtaken is fenced by generation, state and revision; whatever a caller was told is saved is found
  again after any crash; a journalled retirement or transfer can be finished by anyone. Hard: up to
  seven durable writes over two plan records, each of which may be the last one the process makes.
- **Issue submission.** An issue is POSTed at most once, although GitHub has no create-if-absent and an
  answer may be lost while the request still lands later. A recurrence waits until what came before it
  is settled.
- **Memory.** What was said is in the ledger once: not lost when a capture is cut, not doubled when it
  is rolled forward. What was withheld stays out of searches. An index that searches trust answers
  what a scan of the ledger would.
- **Memory restore.** Three files are exchanged for three others: whatever dies in between, an open store is
  the old set or the new one, and an index that a search trusts is never of another ledger. Hard: the stamps of a
  backup may equal those of the store it replaces, and searches do not honour the marker.
- **Plan library.** Revisions form a chain nobody can fork; a cut redaction reads truthfully; approval, review,
  adjudication and seal are about one another though each verb judged a record it read before the lock.
- **Work graph.** Exclusive resources are never handed out twice, a late result of a superseded attempt is never
  integrated, evidence does not outlive the plan it is of, and a Build always has a move. Hard: corrections of the plan and
  rewrites of the branch come between the steps of an attempt.
- **Integration queue.** Advisory by its own account: it states no guarantee under failed or delayed reads.

`PROJECT.json` lists every component with its status and the hazards at their lines.

## 2. Modules

| Module | Models | Relation |
|---|---|---|
| `BuildLease` | reservation, binding, writes, retirement, closure, crashes | the base |
| `BuildAdoption` | adoption of a Build by a successor plan | extends `BuildLease`, composes with all its operations |
| `BuildOwnership` | what the store promises, without files, journals or locks | implemented by `BuildAdoption` (`INSTANCE ... WITH`) |
| `IssueRecovery` | submission, recovery, supersession, the ref, GitHub and the wire | independent |
| `MemoryLedger` | capture, markers, compaction, the index | independent |
| `MemoryRestore` | replacing the store's files by a backup, and its rollback | has `MemoryLedger`'s writers as single steps |
| `PlanLibrary` | one plan's record, revisions, gates and redactions | closing a plan that owns a Build is `BuildLease`'s |
| `WorkGraph` | the work of one Build, rewrites and plan corrections | its snapshot is what `BuildLease` keeps |
| `WorkAdmission` | which nodes a session may claim next | extends `WorkGraph` |
| `*_proofs` | theorems | extend their module and `TLAPS` |
| `MC*` | symmetry sets and instances for TLC | extend the module they run |

### BuildLease and the code

Each durable write is an action. `Reserve` is `reserve_build`. `FinishSnapshot`, `FinishLocator` and
`FinishActivate` are the writes of `finish_binding`, `Mutate` is `RevisionedStore.mutate` behind
`_check_write`, and `RetireJournal`, `RetireArchive`, `RetireMove`, `RetireRelease` are those of
`retire_build`. `RetireRefused` is the retry at revision 0 that is refused after it has rewritten the journal.
`ClosePlan` is `close_plan_record`. `Crash` ends a transaction between two writes and frees its lock,
which `flock` does when a process dies. A write that becomes visible though its directory flush raised is
the second alternative of `Acknowledge`: the caller was not told, the file is there. The ghost `acked`
remembers what some caller *was* told.

Abstractions: a claim's history is a set, ordered by its generations. The decision and the close state of
a retirement are one value, and "retired" and "abandoned" closures one. A retry that rewrites an
unchanged record is a stutter. The two plan locks of an adoption are taken in one step (the code takes them
in plan-id order, then the snapshot locks in path order). A closure is final: `cmd_reopen` does not reach a sealed plan. A mutation that names no expected
revision is the transition of one that names the present revision.

### BuildAdoption and the code

`adopt_build` is a journal on the predecessor, a reservation and a snapshot on the successor, the archive and the rename
on the predecessor, its release, and the successor's activation, each an action. `AdoptRestore`
is the path that makes a predecessor writable again when the successor has since bound another Build.
`Lineage` says which plan names which as its predecessor. The call's identity and revision (`ask`)
are inputs that may have been read long before. The refinement maps a Build's owner to the plan
whose claim is current, and its status to where that claim is; under it every file operation
is one step of `BuildOwnership` or none.

### IssueRecovery and the code

A call of `submit` or `recover` is a sequence of steps of one session (`Recheck`, `Prepare`, `Match`,
`Claim`, `Post`, `Answered`, `Verify`, `Confirm`, `Hold`), interleaved with those of other sessions and
with GitHub (`Land`, `CloseOrReopen`) and an operator (`Supersede`). `Save` is the compare-and-swap: `unmoved` are
the sessions whose call loaded the commit the ref still points at, and `Advance` moves the ref and so takes all others
out of it; its alternative is that the ref moved and the answer was lost. A session may be interrupted at every step. `wire` holds POSTs sent and not yet processed, whether or not their
sender is still there, so an issue may land long after. A search may miss an issue at `Match`.

Abstractions: a submission is a source and a generation, which is what its id is made from. An issue is
absent, open, closed or several. What requests contain, size limits, the integrity check of the commit
chain and the adoption of issues filed by older versions are left out. A manual source files once; the run's instance
has only an automatic one, the proofs cover both.

### MemoryLedger and the code

Qualified writers, a search that repairs the index among them, hold one store lock from their
outermost guarded call to its return (`mutation_authority.mutation_scope`). So there is one `job`, and the model's
freedom is where it dies. A capture is `CaptureBegin`, `Prepare` (the journal), `AppendTurn` for each record,
`AdvanceCursor`, `ApplyIndex` or `ExtendFaults`, `ClearJournal`. When a journal is left over,
whichever session captures next rolls it forward first (`replay`) and rebuilds the index rather than extend it.
`ControlBegin` and `ControlAppend` are the two writes of a withhold or a restore, `EnactErasure` the marker of a
merged erasure request, `CompactBegin`, `Swap`, `Reindex` a compaction, `Heal` a search that finds a stale
index.

Abstractions: a message is its session and its place there; capture's dropping of noise and splitting of long
messages are left out. A line is stamped with its place in the ledger's order. The index is the set of lines it answers
with and its stamps. Not modelled: torn and malformed lines, the migration window, the backup gate of
compaction, pins, the roll-up markers of older stores, a lost or damaged cursor file (the code then captures
again rather than lose), a second fault while a first is being handled, and machines without FTS5 (there is no
index then).

### MemoryRestore and the code

The ledger, its sidecar ("meta") and the index are each a file with a content and an identity, which is what
`restore_vault.py` compares (inode, size, times). `Stage` keeps the prior three in the staging directory, as hard links or as
copies. `Journal` writes the marker. `Unindex`, `PublishLedger`, `PublishMeta` and `PublishIndex` exchange the files,
`Complete`, `Unmark`, `Settle` and `Clean` retire the marker and the staging (`_apply_restore`,
`_complete_restore_transaction`). `Fault` turns to the rollback at once, `Reconcile` at the next start, which first verifies
the recovery set; `Restage`, `RemoveIndex`, `RestoreLedger`, `RestoreMeta`, `RestoreIndex` and `RolledBack` are
`_restore_prior_set`. `Heal` is a search that rebuilds a stale index: it takes the store lock, but takes no notice of the
marker. `Crash` keeps what was written, `PowerLoss` keeps what was synced (`disk`).

Assumptions: renames reach the disk in their order, a directory sync does what it says, and the staged links left behind by a
job that died before its marker are not followed when the ledger is appended to in place. Ordinary writers are single
steps here; `MemoryLedger` has their cuts. Left out: the backup side, encryption, the network, the offer to restore, and
malformed markers.

### PlanLibrary and the code

A verb of `project_manager.py` reads the record without a lock, is refused or not by what it read (its door), and then writes
through `update_record` or `append_revision`, which judge the record again under the plan's lock. So `Read` is an
action of its own, and each verb's guard has two parts: what it asks of `Seen(s)` and what it asks of `record`. Any number of
other verbs fall between. Validation of the record before it is written counts as the second part (an amendment may not bring an
id that came to the review meanwhile). `ValidateSeal` and `Seal` are the two readings of `cmd_seal`. `Revise` and `ReviseRecord` write
the snapshot and the record of a revision; `Redact`, `RedactUnlink`, `RedactMark` and `RedactClear` the intent, the removal, the
mark and the clearing of a redaction, which the next redaction of the same revision takes up after a `Crash`.

Abstractions: a revision's number stands for its digest; a finding is its id, one of two texts and a disposition. Left out:
what documents contain, supplemental reviews, contract renewals, `recover_head`, clone and import, the projection and the
veto of a plan program.

### WorkGraph, WorkAdmission and the code

A node's state is derived from its claim, last result, last failure and integration, as `_node_state` does. Each
verb reads the snapshot and writes it by the compare-and-swap of `RevisionedStore.mutate`, so it is one step: `Approve`, `WorkClaim`,
`WorkResult`, `WorkReject`, `WorkAbandon`, `WorkRetry`, `WorkIntegrate`, `WorkRecover`; `PrepareRewrite`,
`CancelPreparation` and `ApplyRewrite` are the reconcile of an unreviewed Build; `Adopt` and `Revise` correct the plan;
`HandoffRestore` marks the claims whose worker a cold session cannot know of. Git enters by what a verb observes of it:
an integration is refused or not, and `MoveHead` makes HEAD another commit than the last rewrite's, or that one again. Attempt ids
are random in the code and a counter here: never handed out twice. `WorkAdmission` is the pure part of the scheduler, `admission_plan`,
from the ranking by critical path to the nodes one pass admits.

Left out: attach, packets, routes and executors (a claim is dispatched or blocked), receipts and their cost, reviews and the
other gates, and the reconcile of a Build that was reviewed.

## 3. Runs

| Run | Instance | States | Properties |
|---|---|---|---|
| `build` | a plan and its successor, 2 Builds, 1 locator, 2 processes, 2 generations, 2 revisions | 184 807 | `TypeOK`, `GenerationsAreUnique`, `ClaimHasItsEvidence`, `EvidenceReachable`, `ClosedPlansOwnNothing`, `OneOwner`, `IdentityNamesOnePlan`, `LocatorMovesForward`, `SnapshotNeverRewound`, `EndedStaysEnded` |
| `adoption` | 3 plans, a chain with a competing successor, 1 Build, 3 generations, 3 revisions | 14 796 | `TransferDecided`, `RetirementCompletes`, `ImplementsOwnership` |
| `issue` | an automatic source, 2 observations, 2 submissions, 2 sessions | 206 044 | `TypeOK`, `AtMostOnePost`, `EarlierIsSettled`, `JournalMovesForward`, `LandedIsConfirmed` |
| `memory` | 2 sessions, 2 messages, a marker, a compaction | 335 086 | `TypeOK`, `NothingLost`, `CapturedOnce`, `RecallIsWhole`, `OnlyRestoreReveals`, `EverythingCaptured` |
| `restore` | 3 changes, a withhold, 2 generations, with and without links | 442 198 | `TypeOK`, `TrustedIndexMatches`, `OpenStoreIsWhole`, `PriorIsKept` |
| `plan` | 2 sessions, 2 depths, 2 findings, 2 revisions | 1 005 137 | `TypeOK`, `ChainReadsTruthfully`, `ReviewIsOfTheApproval`, `PresentedIsDecided`, `JudgmentsStand` |
| `work` | 3 nodes, 2 plans, 2 attempts, a rewrite | 442 184 | `TypeOK`, `DependenciesIntegrated`, `HoldersCompatible`, `AttemptedForThisPlan`, `NeverStuck`, `IntegratesTheClaim`, `AdmittedStayClaimable` |
| `lease_retry` | 1 plan, 1 process | violated | `RecordedInputsRetry` (finding 1) |
| `memory_erased` | 1 session, 1 message, 2 compactions | violated | `ErasedStaysErased` (finding 2) |
| `work_laundered` | as `work` | violated | `EvidenceIsOfThisPlan` (finding 3) |
| `plan_sealed` | as `plan`, no findings | violated | `SealedIsTheHead` (finding 4) |
| `restore_stuck` | as `restore`, links only | violated | `RecoverySetVerifies` (finding 5) |

**Bounds.** Two generations are what it takes for a stale identity to meet a newer claim, two revisions for a
stale snapshot, two Builds for a competing binding; three plans with three generations let a Build be
adopted twice, so that a receipt meets an outgoing transfer. Two submissions of one source are the least in which a
recurrence can overtake its predecessor, two sessions the least that race for a claim. In memory, two messages
leave a journal for the other session to replay; one marker and one
compaction let a marker outlive its turn. In a restore, three changes are a write before it, the restore and a write after it or a
second restore; a second generation lets a backup's stamps differ from the store's or equal them, and six identities (`Ids`)
suffice because one of a file no longer anywhere is taken again. Two sessions are the least that judge different readings of one
plan, two findings let one be decided while another is not, two revisions make an approval stale. In the work graph three
nodes have a dependency and a collision that only one of the two plans has, two slots there and one here; two attempts make a late
result, and one rewrite takes integrations back. A third attempt or a second rewrite is left to the proofs. Every
bound is a constant in a guard (`MaxGen`, `MaxRev`, `MaxSaid`, `MaxMarks`, `MaxEpoch`, `MaxChange`, `MaxAttempts`,
`MaxRewrites`), and the proofs do without them. A build, issue or memory run may stop, since a bound is reached or a plan is
closed, so deadlock is not checked there: no process of this system waits for another except for a lock.

**Symmetry.** Builds, sessions and findings are interchangeable in `build`, `plan` and `plan_sealed`; no run of a liveness
property uses symmetry, and none uses a view.

**Fairness.** A process that is inside its transaction runs on (weak fairness of its steps): its lock is
its own. Crashes end some day: without this no retry would ever finish. And the retry itself is strongly fair, since
others take the lock in between. Each retry is one the code asks for: a refused
or cut retirement or adoption tells the caller to retry with the recorded inputs; a retained submission is looked
for by every later pass of its producer; a session's transcript is captured at each stop and, once it is no
longer live, by the drain of a later session. `EverythingCaptured` so assumes that sessions go on
being started and that transcripts are not deleted meanwhile. The `adoption` instance has no locator: an
adoption whose locator another Build holds is refused until it is freed, which the code means to do.

## 4. What the checks show

Beyond the properties that hold, five disagreements between the code and what the repository says of it:

1. **`RecordedInputsRetry`** (`build_state_store.py:663`). A retirement was cut after its evidence was renamed. A
   retry that names revision 0 overwrites the journalled revision before it is refused, so the inputs that
   `state where` prints for a retry (`build_coordinator.py:1783`) are refused from then on, against "Every cut is
   retryable." (`build_state_store.py:588`). A retry that names the true revision still succeeds.
2. **`ErasedStaysErased`** (`memory/capture.py:502`). `drain.py:224-229` argues that erased content and drainable
   content are "disjoint by construction". A journal left by a cut capture is outside that argument: rolled forward
   after a compaction removed its record, it appends the erased record again. The marker is kept, so the
   next compaction removes it once more.
3. **`EvidenceIsOfThisPlan`** (`build_coordinator.py:6046`). A rewrite's record of what was integrated is used without asking under which
   plan it was made. A node that an adoption reset because its item changed is integrated again with the receipt of the
   item as it was, which `_unchanged_nodes` calls "exactly the laundering a mid-Build revision must not
   perform" (`build_coordinator.py:1947`). What an attempt integrates is of this plan (`AttemptedForThisPlan`, proved).
4. **`SealedIsTheHead`** (`project_manager.py:1961`). A seal mints no revision and `append_revision` compares only the head
   (`plan_store.py:664-666`), so a revision begun before the seal is appended after it, against "nothing
   changes after it" (`project_manager.py:1594`). Such a plan can be neither bound nor reopened.
   Likewise the refusals of a seal are collected over one reading and only a second one is compared (`project_manager.py:1602`):
   in the model a review with an undecided finding, recorded between the two, is sealed over.
5. **`RecoverySetVerifies`** (`memory/restore_vault.py:840`). A rollback moves the index back before it completes the marker. Cut in
   between, with a search that rebuilds that index (or, without hard links, by its own retry), the recovery set no longer
   verifies at any later start and memory stays closed, against "Restart the Engine session once; it will
   retry recovery" (`memory/restore_vault.py:500-502`). Nothing is lost meanwhile (`PriorIsKept`).

## 5. Proofs

All theorems hold for any sets of plans, Builds, sessions, sources or conversations and any bounds, under
the named assumptions of the modules only: bounds are natural numbers, `None` is none of the records (in `MemoryRestore`:
no file, identity, marker or name of a phase), and sessions are not records. TLC evaluates these assumptions in every run. Each proof module is built
alike: lemmas on operators, one lemma per conjunct of the invariant with one step per action (in the two proof modules of `BuildAdoption` one
lemma per action), the theorem that the invariant is inductive (`Invariance`), and from it the theorems of the properties.

**`BuildLease_proofs`**: `TypeCorrect`, `GenerationsUnique`, `EvidenceInPlace`, `EvidenceKept`,
`ClosedOwnNothing`, `NeverRewound`, `EndedIsFinal`, `LocatorsMoveForward`. That evidence is reachable is
not inductive: it depends on where a transaction is (`Flights`: what it has written is still there), on there being
one per plan (`Exclusive`), on which decision was journalled when (`Lifecycle`, `Retirements`), on
generations that only rise (`Ages`), on a Build's identity never being minted twice (`IdentityOnce`) and on files
that belong to a claim (`SnapshotsBelong`, `ArchivesBelong`). `Ages` is also why a late call is harmless (`EndedNotObeyed`): after a
retirement and a new binding, a retry of the old retirement or a write with the old identity meets a newer generation.

**`BuildAdoption_proofs`**: `OneOwnerAlways`, `IdentitiesApart`, `ClosedOwnNothingAdopting`, for any lineage of plans. Every step
changes the records in one of four ways: a claim is restated under its identity, a claim is granted, a claim ends, or nothing
changes (`Restated`, `Granted`, `EndedClaim`, `SameRecords`); each keeps what the records are (`Records`). That a grant is newer than
everything ended of its Build (`Newest`), and that what was handed over was granted (`Delivered`), is what forbids a second hand-over
of one journal. What a transaction in flight read of two plans (`Flying`) still holds because steps of others are on other plans
(`Apart`, `Elsewhere`), and a crash only ever removes a transaction.

**`BuildEvidence_proofs`**: the same system, its files. `TypeCorrectAdopting`, `GenerationsUniqueAdopting`,
`EvidenceInPlaceAdopting`, `EvidenceKeptAdopting`, `NeverRewoundAdopting`, `EndedIsFinalAdopting`,
`LocatorsMoveForwardAdopting` and the refinement, `OwnershipImplemented`. The invariant `FInv` is that of the records with
`Files` (a snapshot is its plan's current claim's and no older than anything acknowledged or archived of its Build; an archive is
named by an ended or ending claim; what was acknowledged is in one or the other) and `Carrying` (what a transaction in flight has
written is still there, between each pair of writes). A Build in transfer has two claims and up to three files, so the
hand-over needs their order: the predecessor is archived at the journalled revision only when the successor's copy stands at the
next one. Every step
changes files and claims in one of seven ways (restated, granted, ended; written, archived, moved away; nothing), each with its
lemma. In the refinement a Build's owner is the plan that holds it, the transferring one while two do, and its evidence the
newest revision kept anywhere. One write of each transaction is the abstract step: `Reserve` is `Bind`, the new
snapshot of `FinishSnapshot` is `FirstEvidence`, the activations and `AdoptRestore` are `GoLive`, `Mutate` is `Write`,
`RetireJournal` is `BeginEnd`, `RetireRelease` is `End`, `AdoptJournal` is `BeginMove`, the new snapshot of `AdoptSnapshot` is `Copy`,
`AdoptRelease` is `HandOver`; archives, renames, locators, repeated writes and crashes are none.

**`IssueRecovery_proofs`**: `TypeCorrect`, `JournalForward`, `PostedOnce`, `SettledFirst`. The argument for
one POST: a call that may still send holds a record its own acknowledged save has claimed, two such calls cannot hold the same
one (`OneSender`), a record once claimed never becomes unclaimed again (`PostsClaimed`, from the transition
check of the journal), and a successor exists only once its predecessors are over (`Succession`).

**`MemoryLedger_proofs`**: `TypeCorrect`, `NothingIsLost`, `CapturedAtMostOnce`, `RecallWhole`,
`RestoreReveals`. A line above its session's cursor can only be the journal's (`AboveCursor`), and the journal holds
every message above the cursor once (`JournalExact`): hence a roll-forward appends no second line and the cursor passes
no message without one. An index is stale from the first write of a withhold, a restore or a compaction on (`JobUnderWay`,
`Stamped`), and a current one was built under the present withholds and lacks at most what the journal still brings
(`IndexSound`).

**`MemoryRestore_proofs`**: `TypeCorrect`, `TrustedIsOfTheLedger`, `OpenIsWhole`, `PriorSurvives`. The prior set is known to
the code by the identities of its files alone, so the argument begins with them: a new file takes an identity no file has
(`Fresh`, which exists because there are more identities than places), hence a file with a prior identity is the
prior file. `Progress` says, phase by phase, which of the three files are exchanged, forward and back; the disk has the active
marker exactly while the namespace has it, so that after a loss of power a half of an exchange is always one to recover from.

**`PlanLibrary_proofs`**: `TypeCorrect`, `TruthfulChain`, `ReviewedIsApproved`, `ShownIsDecided`, `JudgmentsAreFinal`. A cut
chain reads truthfully because each step of a transaction finds what the ones before it wrote (`TransactionStands`) and every
revision is readable, marked or intended for removal, the head never (`RevisionsStand`). A gate may rely on a reading however old
because no verb removes an approval or a review (`ReadingsAreOfThePast`), and a judgement under the lock does the rest.

**`WorkGraph_proofs`**: `TypeCorrect`, `DependenciesFirst`, `ExclusiveHolders`, `EvidenceOfAttempts`,
`LateResultsStayOut`, `NeverOutOfMoves`. A claim is on an open node, under a plan that has the node as the present one has it, and a
result beside it is its own (`ClaimsAreCurrent`); nothing is claimed between a preparation and its rewrite
(`PreparationIsQuiet`), or a rewrite could take from a claimed node what it depends on. The key lemma is `UnchangedComposes`: what a
second correction leaves unchanged of what a first left unchanged is unchanged from the first plan. `NeverOutOfMoves` takes a
minimal unfinished node, which exists because plans are acyclic; that is an assumption (`PlansAreAcyclic`), since
`validate_dag` refuses any other plan.

`IInv` of each module (`AInv`, `FInv`) was checked by TLC on the instance of its run before it was proved.

**Only model-checked.** Liveness (`RetirementCompletes`, `TransferDecided`, `LandedIsConfirmed`,
`EverythingCaptured`): the provers used here handle neither fairness nor `ENABLED`.
`AdmittedStayClaimable`, which is about a fold over a sorted sequence. Every other property of a passing run is a theorem.

## 6. Not modelled, and why

- `mutation_authority.py` and `mutation_contract.py`: who may write at all. Their effect, one writer at a time, is an
  assumption of `MemoryLedger` and `MemoryRestore`.
- Legacy migration and cutover of Build snapshots, `restore_handoff`, the lockless `resolve_*` reads; a loss of power that
  undoes an unflushed directory entry of a Build's files (`MemoryRestore` has such a disk, `BuildLease` has not).
- The integration queue: it is advisory, and neither its code nor its documentation says what should hold when a read of
  the labels fails or is late.
- Plan programs, transactions, telemetry, module manager and release cut are sequential programs with a person in the
  loop; boot and the checks have no state of their own. Together they are most of the lines of the repository, and little of
  what can go wrong between two processes.
- The coordinator's reviews, findings, validation and pull-request contract; GitHub's labels and triage beyond the
  issue itself.

## 7. What could follow

1. The coordinator's reviews and validation over the snapshot, beside `WorkGraph`; supplemental reviews and contract renewals in
   `PlanLibrary`.
2. Plan programs, and the cutover of legacy Builds.
3. `AdmittedStayClaimable` for every plan, from an order-free characterization of the nodes one pass admits.
