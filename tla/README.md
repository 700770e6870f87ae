# Workspace Janitor in TLA+

Workspace Janitor keeps one machine's disks in order: it scans work
directories, plans actions on what it found, moves approved objects to a
quarantine it can restore from, deletes them once a retention window is over,
archives and removes scratch entries, trims caches when space is short, watches
for new directories, and once a day may ask a language model for advice.  It is
a set of short-lived commands and one long-lived watcher that share a SQLite
store, some lock files, a policy file and the file system.  Nothing coordinates
them but those, and any of them may die between two steps.

This directory holds TLA+ modules of the parts where that matters, TLC
configurations that check them, and TLAPS proofs of most of the safety that the
runs check, for every value of the constants.
`PROJECT.json` lists components, runs, mutants, findings, hazards and theorems,
and maps every definition to the lines it stands for.

    tlc -workers 2 -config CleanupFaults.cfg MCCleanup    # one run
    tlapm CleanupEngineProofs.tla                         # the proofs of one module


## 1. Inventory

### How the parts interact

| shared thing | who | discipline |
|---|---|---|
| `apply.lock` | apply, restore, expiry, category archives, scratch | try once and give up (`apply_lock_linux.go:24`); freed by the kernel when the holder dies |
| `scan.lock` | scan, watch, cycle | blocking, polled every 100 ms (`apply_lock_linux.go:31`); a cycle keeps it from its scan through recovery and quarantine |
| cache trim lock | cycle, watch, trim by hand | try once |
| SQLite store | everybody | one connection, `BEGIN IMMEDIATE`: a transaction is one atomic step, writers are serial |
| policy file | everybody | read at the start; some parts read it again later, and must |
| file system | everybody and the owner | no lock; the owner acts between any two steps |

A cycle (`cli/cycle.go`) runs: policy, category archives, scratch, scan lock,
policy again, scan, deep clock, capacity sample, disk alert, cache recovery,
automatic quarantine, release of the lock, cache trims, expiry, completion
record, report.  The completion record is what later authorises the daily
advisory.

### The components

| component | state it keeps | operations | what is hard | what makes it correct |
|---|---|---|---|---|
| cleanup engine (`action`) | objects at original paths and in receipt directories, manifests, deletion markers, Git worktree records | prepare, reconcile, quarantine, restore, delete | death between a rename and its journal row; the owner swapping, editing, reusing inodes; partial deletion | nothing in quarantine is forgotten; only the checked object is moved; nothing is overwritten; deletion only after the whole retention |
| cleanup journal (`store`) | `cleanup_items` and events | insert, compare-and-set transition | two batches over one source; resumption | one active row per source; one batch per plan |
| confirmed commands (`cli/apply.go`) | the apply lock | `apply --quarantine`, `restore`, `apply --expire`, `--prune` | a second process; a batch stopped halfway | a stopped batch can be resumed and restored |
| daily advisory (`cli/advisory.go`, `store/advisory.go`, `jev`) | `completed_cycles`, `advisory_runs`, `advisory_attempts` | claim, reserve, send, retry, breaker, report | two launches, midnight, a newer scan or a death between any two steps | one session a day, never beyond its caps, only on the completed inventory of the day |
| capacity and recovery (`core/capacity.go`, `cli/recovery.go`) | the shared sample, `cache_recovery_attempts` | sample, hysteresis, claim, run a provider | samples committed out of order; a hanging sampler; two passes; edited approvals | a hold ends only at the recovery level; no unclaimed provider; budgets; cooldown |
| watcher (`cli/watch*.go`) | the kernel queue, bursts, pending changes, timers, known identities | read events, scan, revisit, re-arm, reconcile | overflow, events during a scan, churn of protected paths, restarts | no change is forgotten; new paths are reported; scans are paced |
| scans and history (`store/records.go`, `history.go`) | scans, plans, completed cycles, deep clock | persist, trim, compare, bind | clock steps, text order of times, trims against references | a cycle applies the plan of its own scan; a trim keeps what is referred to |
| daily cycle (`cli/cycle.go`) | none of its own | the order above | errors joined and kept to the end; the lock held across steps | completion recorded only for what was done |
| scratch cleanup (`cli/scratch.go`, `workspacearchive/scratch_linux.go`) | `scratch_runs`, `scratch_deletions`, archives | due check, select, archive, recheck, delete, restore | entry, policy and users change at every step; death between archive and receipt | only archived or regenerable contents are deleted; what was archived is listed |
| category archives, stale report (`cli/archive_categories.go`, `cli/stale_report.go`) | archive receipts, withdrawals, replies | select, copy, publish, record, derive expiry authority, reply, restore | replies, keeps and restores that land between the authority and its use; writes during a copy; death between archive and receipt | what expiry deletes was archived whole, was not brought back and is not kept |
| workspace archives, evidence exports | archive files and bindings | create, publish, bind, restore | death between publish and receipt | a published archive is complete |
| planning rules (`plan`) | none | classify, propose, decide, clamp advice, resolve collisions, bind | interaction of rules; order of the policy file | nothing that speaks for an object is overruled by something riskier |
| safety checks (`safety`, `action/retention.go`) | none | collect again around a target, revalidate, refuse | races with the owner; evidence that is missing | what is in use, protected or changed is not moved |
| collectors (`collect`) | none | walk, ask Git, processes, agents, services, ledgers; merge | deadlines, truncation, sources that vanish, overlapping roots | unknown is never "unused" |
| cache trims (`cli/cache_trim.go`) | a try-only lock | resolve, measure, look for users, run the official command | a link turned or a build started meanwhile; a watcher stopped | at most one trim, on the checked path, not under a user it could see; what was deleted is told |
| capacity activity history | one row per operation | start, finish | death in between | authorises nothing |
| disk alerts | one claim per filesystem | claim, report | failure after the claim | at most one alert per interval, and it is told |
| store and migrations (`store/store.go`, `store/migrations.go`) | the schema | open, migrate, transact | several releases opening together | every migration once, nobody on an older schema |
| configuration, projection, command line | none | parse, redact, print | | |

### Hard behaviour, by line

`PROJECT.json` "hazards" names the places this project works from, each with the
properties that would catch it going wrong.


## 2. Modules

| module | models | variables and actions |
|---|---|---|
| `CleanupEngine` | `internal/action`, `cleanup_items`, the three confirmed commands | one action per file-system, Git or journal step of `Engine` (`Prepare`, `Open`, `Revalidate`, `RenameSource`, `JournalMove`, `RenameBack`, `deleteAnchored`, ...), one per start of a command, `Fail` for an I/O error at any step, `Crash`, and the owner's events.  `src`, `dst`, `away` say where every object is; `jstate`, `movedAt`, `qver` are the columns of the row; `pc`, `cur`, `mem`, `handle` are the process |
| `Custody` | what the engine promises, with none of its steps | receipts open, take one object, give it back or destroy it after its retention, and close empty |
| `DailyAdvisory` | cycles that complete, launches that read, claim, reserve, send, retry and report | `completed`, `runs`, `reserved` are the three tables; `adv` the launches |
| `SpendGate` | what the advisory promises | one session per day, only it spends, never beyond the cap |
| `Capacity` | samplers of cycles and watchers, recovery passes | `snapshot`, `attempts` are the two tables; `watch`, `cyc` the processes |
| `Watch` | the loop of `janitor watch`, its queue and scans, a cycle beside it | `queue`, the burst, the pending changes, the timers and `job`, the scan in progress |
| `ScanHistory` | who stores scans, what they are compared with, trims, binding of a plan, the deep clock | `scans`, `plans`, `cycles` are the tables; `pc`, `cur` the processes |
| `ScratchCleanup` | sweeps, regenerable passes and restores of one directory | `saved`, `runs`, `receipts` are what is stored; `sel`, `unsaved`, `todo`, `cur` the run |
| `CategoryArchives` | category archives, replies to the stale report, the expiry they authorise | `tree`, `used`, `policy`, `replies` are the owner's; `archives`, `away` the archive directory with its receipts and the quarantine; one action per step of `archiveCategories` (`ReadReplies`, `Observe`, `Inspect`, `Copy`, `Recheck`, `Publish`, `Manifest`, `Record`), of the cycle (`Load`, `Revalidate`, `Move`, `FinishMove`, `Resume`, `Expire`) and of the ways back (`Withdraw`, `Extract`, `Undo`) |
| `StoreOpen` | opening and migrating one database by several releases | `user_version`, `applied`, and the handle of each process |
| `DailyCycle` | the order of a cycle's steps and which of their errors end it, the disk alert, the trims of cycles and watchers; EXTENDS `StoreOpen` | `pc` is the step; `scanLock`, `trimLock`; `deepAt`, `alertAt` the rows; `kept` the error that keeps a cycle from being recorded, `ok` the enabled steps that succeeded, `did` what only the report of a process tells, `lost` what no report will tell |
| `Planning` | `internal/plan`, `internal/safety`: how entries become decisions | operators only: `Fires` (the guards), `Classify`, `Proposals`, `Winner`, `Evaluate`, `ApplyAdvice`, `ResolveDestinationCollisions`, `VerifyBinding` |
| `Inventory` | collectors, `janitor scan`, `janitor plan`, and the collection and revalidation before a move; EXTENDS `Planning` | `machine`, `version`, `work`, `at`, `file` are the world; `obs` the collection under way, `inv` and `plan` what is stored |
| `MC*` | instances for TLC | values of the constants and symmetry sets |
| `CleanupEngineProofs` | theorems about `CleanupEngine`, and that it implements `Custody` | |
| `DailyCycleProofs` | theorems about `StoreOpen` and `DailyCycle` | |
| `DailyAdvisoryProofs` | theorems about `DailyAdvisory`, and that it implements `SpendGate` | |
| `CategoryArchivesProofs` | theorems about `CategoryArchives` | |
| `ScanHistoryProofs` | theorems about `ScanHistory` | |
| `ScratchCleanupProofs` | theorems about `ScratchCleanup` | |
| `WatchProofs` | theorems about `Watch` and, beside it, `Capacity` | |
| `InventoryProofs` | theorems about `Planning` and `Inventory` | |

Two modules compose others by EXTENDS: every step of `DailyCycle` that needs the
store goes through the handle `StoreOpen` gives it, and every plan and
revalidation of `Inventory` is computed by `Planning`.  Two are abstract:
`CleanupEngine` implements `Custody` and `DailyAdvisory` implements `SpendGate`,
by INSTANCE with a refinement mapping.  The others meet through what they share
in the code: the scan lock and binding of a cycle are in `ScanHistory`, its
authority for expiry in `CategoryArchives`, the moves themselves in
`CleanupEngine`, its recovery in `Capacity`, and the completion record that
`DailyCycle` writes starts `DailyAdvisory`.

The properties stand at the end of each module.  Definitions named `Mut_...` are
changed forms of the definition that follows them; they are used by nothing and
show that a property can fail.

### What the models leave out of the code they cover

* `CleanupEngine`.  A fingerprint is the inode, whether the object is a linked
  worktree, and a metadata version; an inode may be reused by a later object
  (`Ino`).  The safety checks are one answer, which may always be a refusal; what
  they answer is `Inventory`.  Event rows
  are written by triggers inside the transaction and left out, as are previews
  and `--prune`.  The set `Outside` of an instance says what the owner and the
  machine may do, so that a run can study one group of disturbances.
  Nothing in it exchanges the object inside a receipt directory, so the branch of
  `Restore` that investigates an object found changed after `Reconcile` matched
  it (`engine.go:351`) cannot happen and is left out.
  `git worktree move` is a look of the janitor's own (`GitMove`, `GitMoveBack`), git's
  rename (`GitRun`, `GitRunBack`, `GitEnters`) and its record (`GitRegister`,
  `GitRegisterBack`), with the owner between them.  Git refuses what it finds at the
  target, moves into it where it is a directory, or, its rename being no
  `RENAME_NOREPLACE`, takes the place of an empty directory that came after its
  own look.  A worktree that moved into such a directory is `away` for the
  janitor: its receipt stays open and is investigated.  A git that is killed half
  way leaves the rename without the record.  A deletion marker is not taken back
  by a restore (`retention.go:231`), so `marker` says that a deletion of this receipt
  had begun once.
* `DailyAdvisory`.  A request is a size in four dimensions, answered or not.
  The scans are ordered as they are stored (the order of their names is a
  question of `ScanHistory`).  `Dies` stands for a crash, for a cancellation and
  for a report that cannot be written.
* `Capacity`.  A volume has the key of its filesystem, or of its root where no sample
  could tell the filesystem; targets move between filesystems.  What a filesystem measures, how large a store is and how a
  provider ends are free at every look.  One tick is `capacity_interval`, and a
  timer that is due fires before the clock goes on.  The clock is read before
  the writer transaction begins, as in the code, so samples can be committed in
  another order than they were timed.  Approvals are edited; targets are not.
* `Watch`.  A scan reads all paths at one instant.  Opening a watch and taking
  the snapshot of identities is one step.  The capacity sampler that runs beside
  the loop is in `Capacity`.
* `ScanHistory`.  A scan is its start and its end, its depth and outcome, and what it
  was compared with; a scan by hand may ask for no comparison (`--no-compare`).  A
  time is a fraction of a second, and `TextBefore` orders two times as their texts are,
  where a whole second comes after its fractions.  The clock
  does not step back.  Whether a cycle ends on the day of the one before, and so
  takes the place of its row, is left open.  Of what refers to scans, plans and
  completed cycles are there; the rows of the advisory and of model requests,
  which keep more of them, are not.
* `ScratchCleanup`.  Every change of an entry gets a later change time than any
  time at which the entry was found idle, so the newest change identifies its
  contents; inode numbers are assumed reused at once, which is the worst case for
  the checks.  Which candidates the byte and receipt bounds put off is left
  open.  The readbacks of a copy are part of `Publish`.  `--restore-to`,
  previews and a moved archive directory are left out.
* `CategoryArchives`.  A tree is its contents and the time of its newest member.
  The owner may give new contents old times, which is the worst case for
  `Unchanged`.  Secret screens, the tar format, Git bundles and limits are
  reasons for `Fails`.  A move is its rename and its journal update, and a process may
  end between them; whoever comes next reconciles the row, which then has a
  `moved_at` or has not.  A restore and a deletion are one step each; `CleanupEngine`
  has their parts.  A cycle is shorter than the quarantine retention (whole days):
  `Tick` assumes it, so what a cycle moves is expired by a later one, on an
  authority derived anew.  Attribution of an item to a session is left out.
* `StoreOpen`.  A migration is a number.  A step of it is one immediate
  transaction with its bookkeeping row, as in the code.
* `DailyCycle`.  Steps that another module has succeed or fail.  There is one
  filesystem for alerts (rows are independent) and one cache to trim.  A build
  that begins after the trim looked for users cannot be seen by the code, so
  `TrimIsSafe` speaks of those that ran before.  A trim command that outlives the
  janitor which started it, killed in between, is not modelled.
* `Planning`.  Names are members of the pattern lists or not.  Explanations,
  evidence strings and confidence are left out.  `Policy` and `Entry` say which
  records may be in the files: the collectors are shown to make no other entry,
  and TLC checks that the layouts of the run have no other policy.  Two of the twelve guards are
  left out: durable_evidence never fires on an entry as a scan produces it, since
  the class it tests is set by the planner, and job_ownership is never given jobs
  by the command line.  The layouts of a root that is itself a store are left out: no
  walk lists its own root.
* `Inventory`.  What a path is used by is a holder with a place.  A collector that
  lists and then reads does so in two steps, with the world going on between
  them.  The root of a walk itself can always be read.  Sizes, fingerprints, the
  proof that a worktree has nothing of its own, and what cron, PM2 and unit files
  say are inputs.  Mounts, directories that cannot be listed and the recovery paths that a
  ledger still owes are there.  Left out are the limit on all entries of a scan
  (`filesystem.go:117`), the guard against loops of links, how the paths of ledger
  rows are resolved (`gitmoot.go:148-175`) and the mapping of recovery paths to the
  worktrees they came from.  `apply` has one approved action at a time; batches are in
  `CleanupEngine`.


## 3. Runs

Every passing run explores its whole state space.  `CHECK_DEADLOCK FALSE` stands
in the configurations of systems that really stop: their commands end and their
clocks are bounded.  Between them the runs take every action of every module.

| run | instance | question and answer |
|---|---|---|
| cleanup_faults | two processes, two plans one after the other over one path, a reused inode, retention 1, clock 1; create, remove, failures, crashes | Nothing in quarantine is without an active row (`NoOrphan`), a row says deleted only after its own deletion had begun (`DeletedWasMarked`), nothing is deleted early (`RetentionHonoured`), and the engine is a `Custody` (`ImplementsCustody`). |
| cleanup_restore | one receipt of a linked worktree, three objects, two with one inode; the owner creates, removes, moves, touches and replaces, everything fails or dies, Git is repaired, then calm | What a row says is quarantined is the object that passed revalidation (`MovedWasChecked`), no rename of the janitor replaces anything, and that of `git worktree move` only what came after the path was found free and is no worktree (`NeverOverwrites`), and what can be restored is restored in the end (`RestorableIsRestored`). |
| advisory_day | two launches, two days, two scans, one retry, breaker at two, two requests that exceed the cap if retried | One session a day, caps kept (`ImplementsSpendGate`), at most one request a day that goes out after a newer scan was stored (`OneLateRequest`), a run reported complete is complete (`CompleteIsComplete`), and what is sent on a day is of that day's cycle (`SentFromTodaysCycle`). |
| capacity_recovery | two cycles, a watcher that samples beside them, one store that grows, two filesystems, one approval edit, samples that fail, hang and come late, clock 2 | Never more than `max_bytes` charged (`BudgetRespected`), a cooldown between claims (`CooldownKept`), and a hold ends only at the recovery level or by a measurement on another filesystem than the one held (`HoldReleasedAtRecovery`). |
| watch_loop | a plain and a protected path, a queue of one, all timers, a failure, cycles | No change is forgotten (`ChangeIsOwed`); what a scan of the watcher stores is reported (`NewIsReported`). |
| watch_live | one protected path of three kinds, a queue of one, a failure, fair loop | Every change is read by a scan (`ChangesAreScanned`); revisits of one path are a gap apart (`RevisitsSpaced`). |
| scan_cycle | a cycle, scans by hand that may be asked to compare with nothing, three scans within a second and across two, a recent limit of one, deep scans that may be partial, a failure | No scan comes between a cycle's scan and its binding check (`CycleStaysBound`), the baseline of a scan that compares is the one stored before it, or one of the same second (`ComparedWithPredecessor`), trims keep what is referred to (`AuditIsKept`) and the last two deep scans (`DeepPairKept`). |
| scratch_both | a cycle, a watcher and a restore, one entry, one act of the owner, idle time 2, clock 3 | Only archived or still regenerable contents are deleted (`SavedOrRegenerable`), never within the idle time of a change or a restore (`IdleHonoured`), both but for what is written after the last look at the entry, under the policy read last (`LatestPolicyObeyed`), and what was archived and deleted is listed in a recorded run (`RestorableByReceipt`). |
| category_run | two versions of one product, of which one is kept as newest; a cycle and a restore; two acts of the owner or failures, moves interrupted before their journal update, two archives, clock 2 | What expiry deletes is whole in a recorded archive (`DeletedIsArchived`) made after it was last brought back from its archive, or from a quarantine whose move was recorded (`RestoredIsNotDeleted`), and not held by a keep the cycle could know (`KeepIsHonoured`); no archive is published under a superseded release (`SupersededIsNotArchived`). |
| daily_cycle | a cycle and a watcher of one release, a command of the next, a fresh or a once initialised database, three migrations, one build, a link that turns, two failures or deaths, nothing enabled or everything | Each migration runs once (`SchemaIsWhole`), trims are alone, on the checked path and without a user (`TrimIsSafe`), what a trim deleted is told unless the completion record fails, and an alert by every end after the inventory but that (`OnRecord`), a cycle is recorded as complete only when the recovery, quarantine and expiry its policy enables have succeeded (`CompletionIsEarned`). |
| inventory_plan | nine kinds of machine, each with one difficulty (see `MCInventory`), seven kinds of holder, up to three events, two scans, one advised entry | What a plan changes, nothing it knows of opposes (`MutationIsUnopposed`), destinations are free (`DestinationsAreFree`), protections survive overlapping roots (`ReportOnlyEntryIsKept`), what was in use or dirty throughout an apply is not moved (`HeldThroughoutIsKept`), and archive_only roots lose only what was sealed (`ArchiveOnlyIsUntouched`). |

### Disagreements between the code and its text

One run checks a sentence of the repository and finds a behaviour of the code that
contradicts it.  The quotations are in `PROJECT.json` "findings".

| run | what the text says | what the code does |
|---|---|---|
| report_only | no mutations under a report_only root (`policy-reference.md:11`; property `ReportOnlyIsUntouched`) | what lies under it but deeper than its own walk goes is planned and moved through an outer root that contains it |

Modelling showed more of them.  No run checks these now; the properties above are
stated so as not to depend on them.

| where | what the text says | what the code does |
|---|---|---|
| `action/engine.go:266` | a prepared receipt that never moved can be cancelled by restore (`README.md:293`) | one whose source is gone goes to `investigate` and is refused for ever (`:344`) |
| `action/engine.go:301` | restore never overwrites an occupied original path; no restored source is overwritten (`README.md:292`) | a linked worktree goes back by `git worktree move` (`git.go:51`) after a look at the path (`:43`): an empty directory that comes in between may be replaced by git's rename, and one that git sees is entered |
| `store/records.go:105` | the most recent scan (`:98`), newest first (`:70`) | times are compared as text, and that of a whole second sorts after its fractions: within one second an earlier scan may pass for the latest |
| `action/retention.go:231` | `absentDeleted` means gone | a marker that outlives a restore lets a later expiry record a live object as deleted |
| `action/retention.go:191` | a partial deletion is never retried blindly | one that stopped below the top passes `Eligible` again |
| `action/engine.go:142` | the handle was opened when the action was planned | apply opens it, so an object with a reused inode and equal metadata may be moved |
| `cli/cycle.go:195` | a completion is recorded only when every action of the cycle succeeded (`store/advisory.go:43`) | the errors of category archives, scratch runs and trims are returned after it is recorded |
| `cli/cycle.go:193,207` | a trim that deleted bytes must not lose its only record (`cache_trim.go:22-24`, of the watcher) | a cycle whose completion record cannot be written returns without the report that tells of its trims |
| `cli/capacity.go:71-82,124` | unknown observations hold, and positive margins keep the hold to the recovery level (`policy-reference.md:50-51`) | a hold from samples that never could measure a target is stored under the key of its root and not carried over to the filesystem that is measured at last |
| `cli/capacity.go:46` | the watcher ends as stale when the newest sample is past its validity (`watch.go:392`) | a sample timed earlier and committed later makes it end beside a fresh one |
| `store/cache_recovery.go:25` | a provider is never retried under the same approval (`:11`) | a cycle with an older policy overwrites the row that remembers it |
| `cli/watch.go:376` | a real change triggers an immediate full scan (`README.md:342`) | the gap holds it back |
| `cli/watch.go:233` | no scan stores new paths without reporting them (`:220`) | one that runs before a queued overflow is read does |
| `cli/watch.go:502` | events queued during reconciliation expose new protected paths (`:195`) | a directory moved away and back around a scan is suppressed |
| `cli/watch.go:253` | newly created directories are revisited (`README.md:330`) | one whose event an overflow lost is not |
| `store/history.go:40` | metadata scans must not hide the last sizes (`inventory_measurements.go:36`) | they trim a deep scan that was partial |
| `cli/scratch.go:404` | what is deleted was archived or regenerable, and idle | what is written below the top of an entry between this check and the removal (`:416`) goes with it |
| `cli/scratch.go:376` | each entry is checked again just before deletion to be unused (`policy-reference.md:776`) | the processes are read once for all entries |
| `cli/scratch.go:592` | a cycle runs a directory once `every` has passed since its last run (`policy-reference.md:733`) | a run between the due check and the lock is followed by another at once |
| `plan/rules.go:125` | an entry of a canonical root's class found elsewhere is never a deletion candidate (`config/policy.go:216`) | true of primary projects only: for another class nothing is proposed, and an entry that contains the canonical root of its class may be quarantined with it |
| `cli/scan.go:263` | protection follows containment, never the root a walk started from (`config/policy.go:299`) | `janitor scan <path>` takes the flags of the first root of the policy that contains the path, not of the innermost |
| `cli/archive_categories.go:502` | a later change of the item invalidates the reply (`store/report_replies.go:24`) | the reply is compared when items are selected; before the publication only its sequence is (`stale_report.go:334`), so a change between the two is archived under it, as it then is |
| `cli/cli.go:127` | a restored tree is never quarantined or expired again on a withdrawn receipt (`store/category_archives.go:113`) | a cycle loads the receipts once, before its scan: the quarantine does not see a withdrawal or a keep that lands during the scan; its expiry comes in a later cycle, with an authority of its own |
| `store/migrations.go:391` | a database newer than the build is refused | an older release that has passed this test may find the newer schema when its own step takes the lock, and goes on with it |
| `cli/cycle.go:189` | the cycle tells what it did | an error of the store after quarantine, trims and expiry ends it without its report |
| `cli/disk_alert.go:165` | an alert is given once per interval | one claimed by a cycle that returns without its report (`cycle.go:124,133,193,207`) is never given, and the claim keeps the next silent |
| `cli/cycle.go:182` | category errors are returned once the cycle has finished (`:60`) | the error of the sample after expiry is returned in their place |

### Bounds

Every bound is a constant of its module and a guard of the actions it limits.

* `MaxTime` of `CleanupEngine` (1): retention is 1, so "before" and "after" the
  window both occur; the boundary is `MaxTime = Retention`.  It is 0 in the runs
  whose question is not about retention.
* `MaxVer` (0 or 1): one change of metadata is enough to make any two
  fingerprints differ; where it is 0 the run has no `"touch"`.
* Two plans over one path are how receipts of different batches meet; receipts of
  different paths share nothing but the lock and the batch, and an instance with
  two of them under one plan is too large to be explored beside the faults.
  Three objects, two with one inode,
  are the planned one, one that impersonates it, and one that does not.
* `MaxDay` (2), `MaxScan` (2): one midnight, one inventory superseded.  Two
  requests of one entry each under a cap of three attempts and two entries: one
  retry exhausts the entries.
* `MaxClock` of `Capacity` (2 intervals): a claim, its cooldown and the claim
  after it; a sample and two that supersede it.  `MaxApproval` (1): one edit.  A
  store may measure one more than the budget of a pass (`MaxSize`).  Two
  filesystems (`Device`), so that a root may be measured on another one.  One root;
  roots with different thresholds on one filesystem are not in an instance.
* `MaxScans` (3) with a recent limit of 1: a baseline, its successor, and one
  that pushes both out; `MaxClock` (3) with `PerSecond` (2): the time of
  a fraction, the next whole second and a fraction of that.
* `MaxClock` (3), an idle time of 2 and `MaxEvents` (1) of `ScratchCleanup`: an entry
  is observed, changes at any step, the deletion itself included, and grows idle
  again.
* `Watch` bounds neither time nor the number of changes; it bounds the queue,
  because what its limit does is the question, and the failures.
* `CategoryArchives`: `MaxEvents` (2) acts of the owner or failures, `MaxArchives`
  (2), `MaxClock` (2), `MaxItems` (1 per run): an archive, a way back or a keep,
  and a second archive, with quarantine and expiry one tick apart.
* `DailyCycle`: `MaxEvents` (2), `MaxClock` (1), `MaxSchema` (3): each pair of
  disturbances, at every step; a step that another release has run, one that it
  has not, and one that only it knows.
* `Inventory`: `events` and `scans` of a machine, at most 3 and 2: a holder that
  comes, one that goes and a deadline; an inventory that is superseded.
  `MaxDirEntries` (3) is below the four entries of one machine; `MaxAdvised` (1),
  since advice on one entry does not touch another.
* `DeletedWasMarked` and `RetentionHonoured` are checked without the owner's `"replace"`: an owner who exchanges receipt
  directories by hand moves objects and manifests himself.

### Fairness

* `CleanupEngine`, cleanup_restore: `WF` on `Work(p)`, a running process goes on
  (it waits for nothing: the apply lock is tried once), and `SF` on starting a
  restore of each batch, an operator who keeps asking until he gets the lock.
  The property only speaks of calm states, after faults and the owner stop.
* `Watch`, watch_live: `WF` on time and on each step of the
  loop, because the loop waits on timers and the queue only; `WF` on a cycle
  giving up the scan lock; `SF` on the reconciliation that needs that lock, which
  is polled every 100 ms and free between any two cycles.


## 4. Proofs

Each theorem is `Spec => []Inv` or `Spec => [][A]_v` for every value of the
constants that the assumptions of the module allow: any number of processes,
paths, objects, requests and policies, and any bounds.  None of the properties
is inductive.  Each proof goes through an invariant that says what every process
may rely on at each of its steps; that invariant was checked by TLC on the run
of the module first, and has one lemma per action or per part.

### The cleanup engine (`CleanupEngineProofs`)

* `TypeCorrect` (`TypeOK`), and `NothingForgotten` (`NoOrphan`): no crash,
  failure, second process or act of the owner leaves an object in a receipt
  directory whose row is not active.
* `NothingIsOverwritten` (`NeverOverwrites`): an object dies only where its name
  becomes empty, or where git, giving a worktree back, replaces what came to the
  path after it was looked at.  `LateInv` carries that exception: what is at the
  path while git runs is nothing or came late, since a process starts git only
  where it saw nothing (`GitRunBackArrival`).
* `WindowIsKept` (`RetentionHonoured`): nothing is expired early.
* `QuarantinedWasChecked` (`MovedWasChecked`): what is quarantined is the object
  that passed revalidation.
* `AbsenceIsNoDeletion` (`DeletedWasMarked`): a row says deleted only of what
  expiry marked.
* `EngineImplementsCustody` (`ImplementsCustody`).

`NoOrphan` is not inductive: a step that journals `restored` or `deleted` must
know that the directory is empty, which an earlier step saw to.  The inductive
invariant is

    NoOrphanInv == LockHeld /\ (\A p \in Proc : Knows(p)) /\ NoOrphan

`LockHeld` says that a process with a command holds the apply lock, so that at
most one is between two steps.  `Knows(p)` says what a process may rely on at
each label: `MemLabels`, its copy of the row is what the row says; `MoveLabels`,
that copy says prepared; `EmptyLabels`, the steps that are about to close the
row, the receipt directory is empty.  The owner never fills an empty receipt
directory, another process takes no step at all (by `LockHeld`), and what the
process did is its own previous step.  One lemma per action shows this.

The others build on it.  `OneName`: an object is in one place.  `RetentionInv`:
an object came no later than its row says (`TookInv`), and what a process is
about to delete has expired by that row and is marked (`ExpiryKnows`).
`CheckedInv`: two objects in use never share an inode, what matches the row is
what was checked, and a process knows of its open handle what it last looked
at.  The refinement is shown effect by effect: a step of the engine changes a
row, or one object, or neither, and each of these is a step of `Custody` or
stutters.

What an owner expects of the contract then follows from the contract alone, and
holds of the engine through the refinement, without looking at its steps again:
`EngineIsCustodian` (no two open receipts claim one source, no two receipts hold
one object, what a receipt holds exists, a closed receipt holds nothing) and
`EngineOutlivesWindow` (what is destroyed in custody had been there for its whole
retention, whose beginning nothing moves, and a closed receipt stays closed).

`AbsenceIsNoDeletion` has a hypothesis, `"replace" \notin Outside`: an owner who
exchanges a whole receipt directory takes the marker of the deletion along with
it.  The other theorems hold with and without.

### Opening, migrating and trimming (`DailyCycleProofs`)

* `EachMigrationOnce` (`SchemaIsWhole`).  It needs the inductive
  `SchemaInv`, which adds to `SchemaIsWhole` what a process between two steps of
  a migration knows: `current[p]` is behind its own release and not ahead of the
  database, so that the step it takes next is either the next one of the database
  or has been run.  That `user_version` never decreases carries the handles that
  are open.
* `TrimsAreSafe` (`TrimIsSafe`).  The inductive `TrimInv` says that the
  trim lock is held exactly in the phases of a trim, which makes the trims
  exclusive; that the target of a process past `Resolve` is the one it checked;
  that `seen` only holds builds that are running; and that it is empty when the
  command runs, because the look for users found nobody and what comes later is
  not in it.
* `CompletedCyclesAreWhole` (`CompletionIsEarned`), from `EndInv`: at each step of a cycle
  the enabled steps behind it have succeeded, or the error of the quarantine is
  kept (`Earned`), whatever the policy was exchanged for on the way.
* `TrimsAreTold` (`OnRecord`), from the same invariant: where a process has done what
  only its report tells, it is on the way to that report or to one of the named
  returns without it, and a watcher that has trimmed has an outcome worth telling
  (`Tells`).
* `TypeCorrect` (`TypeOK`), which says of both locks who has them: the scan lock
  exactly the one cycle between its scan and its quarantine, the trim lock exactly
  the one process in the phases of a trim.  `ScanLockInv` carries the first, by
  a lemma for the steps of the cycle (`CycleLocks`) and one for all others.

### The advisory (`DailyAdvisoryProofs`)

* `OneLateRequestOnly` (`OneLateRequest`), `CompleteReportsAreComplete` (`CompleteIsComplete`),
  `SendsTodaysCycle` (`SentFromTodaysCycle`), `AdvisoryImplementsGate` (`ImplementsSpendGate`).

`AdvisoryInv` relates the tables to the launches.  Every launch past its claim
has the running row of its day, which no other has; what it has answered and
what is left of its list are what was offered; and what it is about to send is
reserved (`Sound`).  Every day has sent no more than it reserved and reserved no
more than the cap, and a late request belongs to a scan that is no longer the
newest (`DaySound`).  A day that is over never has a launch again, so the
sessions of `SpendGate` are read from the rows.

From the refinement follow `AdvisoryIsGated` (no day spends beyond its cap or
without its session, and no session is ahead of its day) and `SpentStaysSpent`
(nothing is unspent, a day that is over or closed spends no more, and a session
opens on its own day only).  `TypeCorrect` (`TypeOK`) needs `BoundInv`: what a
launch has left to send is the rest of one offer (`TailOfOffer`), and its day,
its scan and its retries are within their bounds.

### Category archives (`CategoryArchivesProofs`)

* `TypeCorrect`, `NothingIsLost` (`DeletedIsArchived`), `ReturnIsRespected`
  (`RestoredIsNotDeleted`), `KeepIsRespected` (`KeepIsHonoured`),
  `ReleaseIsCurrent` (`SupersededIsNotArchived`).

Authority to delete must rest on a recorded receipt (`OnReceipts`), be newer
than any return of the tree it covers that the journal knows of (`SinceReturned`, which needs `InWindow`,
that a cycle ends before what it moves can expire, and `Returned`), and have
been derived after every keep the cycle has heard of (`NoKeep`).  What is about
to be moved is covered by such authority (`OnAuthority`).  `NotSuperseded` says
what the comparison of `Recheck` leaves open: the reply of an item that goes to
publication is the one it was released by, or came after its copy ended.

### Scans (`ScanHistoryProofs`)

* `TrimKeepsReferenced` (`AuditIsKept`), `DeepPairOutlives` (`DeepPairKept`), `CycleIsBound`
  (`CycleStaysBound`), `PriorIsPredecessor` (`ComparedWithPredecessor`).

`HistoryInv`: whoever scans holds the lock (`HoldsLock`), the scan stored last is
there and has the latest start (`NewestIsStored`), and what the holder has read
or recorded is still that scan, or one of its second (`HolderKnows`).  Nothing is
assumed of the order of times: two texts are ordered as their times where their
seconds differ, and what the last two theorems say within one second is what
`store/records.go:105` leaves of it.

`TypeCorrect` (`TypeOK`) and `ReferencesResolve`: a scan
is stored under a start that no stored scan has (`OneEach`), so that starts and
scans are equally many (`StartsCount`); and what a stored plan or a completed
cycle refers to is stored (`BoundAreStored`), since a trim takes the plans of
what it discards along and discards nothing a cycle refers to.

### Scratch (`ScratchCleanupProofs`)

* `DeletedIsListed` (`RestorableByReceipt`), `DeletionIsSaved` (`SavedOrRegenerable`),
  `DeletionIsIdle` (`IdleHonoured`), `DeletionObeysPolicy` (`LatestPolicyObeyed`),
  `TypeCorrect` (`TypeOK`).

`RunSound(p)` follows the contents a run works on from their selection through
the copy, the record and the checks to the deletion; one process sweeps
at a time; and `Numbered` tells the edits of the policy apart, so that a policy
that was read is the one in force or an earlier one.  What is written while an entry
is being deleted is no earlier than its last check (`checked`); it is the exception
that `SavedOrRegenerable` and `IdleHonoured` make.

### The watcher and the capacity beside it (`WatchProofs`)

* `TypeCorrect`, `NoChangeIsForgotten` (`ChangeIsOwed`), `NewPathsAreNamed`
  (`NewIsReported`), `RevisitsKeepTheGap` (`RevisitsSpaced`).

`Modes` says what of a burst is left at each step of the loop, and that the scan
carries it.  `QueuedWhenDone`: what changes after the scan has read the tree is
in the queue when it is done.  `NewIsStored` and `NewIsFound` follow a new path
until it is reported: a stored one has an event ahead of every overflow or is
with the burst; one that is not stored will be named by the scan that stores it.

* `PassesKeepTheBudget` (`BudgetRespected`), `ClaimsKeepTheCooldown`
  (`CooldownKept`), `HoldsEndAtRecovery` (`HoldReleasedAtRecovery`), and
  `CapacityTypeCorrect`.

`CapacityInv` has the types and two parts.  `SoundPass`: from the claim of a store
to the end of its attempt its estimate is within what is left of `max_bytes`; a
pass without the first half would be free to start a provider it cannot charge.
`SoundSnapshot`: a stored volume that is settled is not held, which is why the
state it is compared with next (`PriorIs`) tells whether there was a hold.  A
snapshot that replaces another keeps every hold that was not released at the
recovery level or by a measurement on another filesystem (`SnapshotIsKept`), whether it comes from a cycle, a watcher or a
sample that was overtaken.  The cooldown is the guard of the claim; the proof is
that no other step of any process makes an attempt start (`AttemptsAre`).

### Planning, collecting and moving (`InventoryProofs`)

* `PlannedIsUnopposed` (`MutationIsUnopposed`), `RelocationsAreFree`
  (`DestinationsAreFree`), `ReportedIsKept` (`ReportOnlyEntryIsKept`),
  `HeldIsNotMoved` (`HeldThroughoutIsKept`), `ArchiveOnlyIsKept`
  (`ArchiveOnlyIsUntouched`).

First the operators of `Planning`, for every entry and policy: the proposals are
finitely many, `Beats` is a strict order, so that there is a winner, it is of the
lowest tier, and none of that tier is safer (`OneIsUnbeaten`, `WinnerIs`); what
opposes a change proposes something in a tier that goes first (`RulesPropose`,
`ProtectionIsProposed`); advice and collisions only make a decision safer.

Then the collection.  A source only adds to what is said of an entry (`Grown`), so
what bars an entry once bars it to the end (`GrownIsBarred`).  `Steady` says that
the holders noted when apply began are where they were; `Gathered`, that a
source which has come to the kind of such a holder has it unread, has told of
it, or is a gap; `HeldIsBarred`, that past its source what it refers to is
barred, or the source is a gap.  Since a gap ends the command and a refusal does, what is
moved is held by none.  The end of a collection takes nothing away but the
protection of an archive_only root, for the tree that was sealed (`BindDoes`),
and the merge of overlapping roots loses none (`MergeDoes`, which needs that one
of the roots is the longest).  An inventory keeps that (`Inventoried`), and a
newer one leaves older plans behind (`PlanIsSound`).

`TypeCorrect` (`TypeOK`) adds that what a command is about to move is a path of
the machine (`TargetIsPath`), which apply takes from the plan and the plan from
the inventory, and that the events stay within their bound.

To prove `MutationIsUnopposed` its statement about canonical roots had to be
made what the code does: see `plan/rules.go:125` in section 3.

### Assumptions

The constants must be what their comments say: functions have their domains, the
elements that stand for none are not members, kinds of process are disjoint,
releases are within the schema bound.  Beyond that: `CategoryArchives` has a
finite, nonempty set of paths, `ScratchCleanup` a name, `ScanHistory` a time
after the first, the overflow of `Watch` is no path, the targets of `Capacity`
are finitely many and its clock has a tick, and the layouts of
`Inventory` have entries, policies and Git repositories (directories only) of
the types in `Planning`.  TLC evaluates all of these in the runs.

### Model-checked only

* Liveness: `RestorableIsRestored`, `ChangesAreScanned`.  It is out of the
  provers' reach, like `ENABLED`.


## 5. Not modelled

* Configuration, request bodies, reports, service files and the command line:
  they keep no state; what they may return is an input of the models.
* Member walks, the tar format, secret screens and Git bundles of archives, the
  parsing of unit, cron and PM2 files, deep sizing: functions of file contents.
* Evidence exports: the copy, verification and publication of `CategoryArchives`
  for one kind of file, without a deletion; their rule in a plan is that of a
  released workspace.
* The capacity activity history: it authorises nothing.
* The SQL of the single migrations, the busy timeout and backups.
* `--prune`, previews, `--restore-to` of scratch, changes of the archive
  directory, edits of capacity targets.
* The root of a walk that cannot be read at all, and several approved actions in
  one apply (`CleanupEngine` has batches, with the checks as one answer).


## 6. Plan

Done: all components with control of their own, and the proofs of section 4.
What is left to model is listed in section 5; of it, edits of capacity targets
and scratch `--restore-to` keep state.

Every invariant and action property that a passing run checks is proved, and
every module's type invariant.  What is left to prove are liveness properties,
which need a prover of `ENABLED`, and refinements of contracts that are yet to be
stated: of a trim of the scans, and of the one authority for expiry.
