# mdbase connect in TLA+

mdbase connect keeps a collection of Markdown records in step across devices. Its current
runtime (`runtime/`) is built around one idea: a **blind shared log** per collection. A
replica on each device seals encrypted, signed items and appends them, conditionally on
the chain hash of the head it has seen; the log service (`runtime/crates/log-service`)
orders them, enforces the collection's transport policy without holding a key, keeps
snapshots and blobs, compacts, and pushes heads to subscribers. Everything else rests on
what that service promises (`runtime/docs/contracts/log-service-api.md`, invariants I1 to
I13). This project models that service, its backup and deletion, the replica that is its
client, and the file store that keeps the replica's records as files a user edits.

## 1. Inventory

| Part | State | Operations | Interacts with | What is hard | What makes it correct |
|---|---|---|---|---|---|
| Policy gate (`log-service/src/policy.rs`, `check_item`) | members, device ACL, epoch, `rekey_required`, frozen, root, key revocations | 11 policy ops, rekey, gate per item kind | called by append, on a working copy | sequences of ops inside one item, and items inside one batch | a revoked device can sign nothing and is given no later key; an owner remains; removed members leave no active device |
| Append and reads (`service.rs`) | items, head, chain, tokens, storage accounting | `append`, `create_log`, `read`, `head`, `set_quota` | backend transaction; hub notice | lost answers, retries, stale and pipelined requests, crash before commit | one hash chain of whole batches; durable and repeatable receipts; token used once |
| Snapshots and compaction | snapshots, endorsements, `retained_from`, archive | `put_snapshot`, `endorse_snapshot`, `compact` | deletes entries, prunes tokens | failed archive writes, boundaries, clock readings older than the lock | nothing young, unarchived or non-entry is deleted; reads have no hole |
| State rebuild | none of its own | `rebuild_state` | stored control items | compaction between control items | gives the live state back |
| Objects and gc | bytes in an object store, rows in the backend, staging keys | `put_object`, `commit_object`, `get_object`, `gc` | references from items and snapshots | no transaction spans store and rows | a row has its bytes and describes them; referenced objects stay |
| Subscriptions and pushes (`hub.rs`, `outbox.rs`, `session.rs`, `log-server/src/lib.rs`) | subscriber table, bounded queue per connection | `subscribe`, `unsubscribe`, `on_commit`, `close_devices`, `push`, `pop` | commit notices, from the committing task | commit, revocation and overflow racing a subscribe | the latest head reaches every subscriber; revoked devices are closed |
| Backup, restore, deletion (`deploy/cloudflare-do`, `service.rs`, `restore_plan.rs`) | a frozen cut, import progress, auxiliary rows; deletion floor, closing and destination denial in an independent registry | `backup_begin/page/finish/abort`, `import`, `import_object`, `import_snapshot`, `restore_aux_*`, `delete_log` | the control plane, the live log | writes between two pages, lost replies, calls repeated and out of order, a deletion while a commit waits for the registry | the archive is one cut; what goes live is that cut; nothing is published after a denial |
| Credentials, rate limits | 30 s cache, token buckets | `check_credentials`, `rate_check` | every request | cache against revocation in flight | a revocation is never forgotten |
| Ephemeral streams | members per stream | `join`, `leave`, `send`, `expire` | hub, outbox | limits, idle expiry | nothing persisted; bounded |
| Replica (`crates/replica`) | applied chain, captured writes, the batch in flight, retained tail, the repair in progress | `submit`, `pump`, `on_reply`, `on_push`, `tick`, session start and end, lost-tail repair, rollback | append, read, subscribe of the service | unanswered appends executed late, stale answers, a service that lost its tail, two replicas repairing it | a write is published once, its receipt is true, and it settles |
| File store (`crates/store-file`, `platform-native`) | journal of intents, known revisions, retained and evidence rows; private files | `publish`, `recover`, `settle`, `check_path`, `ack` | editors, through the file system only | an editor, an error or a crash between any two system calls | no byte a user wrote is lost, and each reaches the replica |
| Core, wire, noise, trust; daemon, hosts, hosted worker | parsing, merging, codecs, cryptography; IPC and composition | — | the parts above | — | — |
| Legacy Connect (`crates/`, `services/`, `packages/`, `apps/`) | — | — | — | — | — |

The full list, with what is not modelled and why, is under `components` in
`PROJECT.json`; the places where the code is hard to test are under `hazards`.

## 2. Modules

| Module | Models | Proofs |
|---|---|---|
| `LogPolicy` | pure operators on the transport state: each policy op as `<Op>Ok` (its early returns) and `<Op>` (its assignments), item header and end, the gate per item kind | `LogPolicyProofs` |
| `LogService` (extends `LogPolicy`) | one collection's serialized actor: append, create, snapshots, compaction, quotas, reads | `LogServiceProofs`, `LogRetentionProofs` |
| `SharedLog` | the abstract promise: a chain that grows by whole requests, receipts that describe it | refinement in `LogServiceProofs` |
| `LogRecovery` (extends `LogService`) | `rebuild_state`, a recursive function over the stored control items | `LogRetentionProofs` |
| `LogObjects` | uploads, rows, references, gc | `LogObjectsProofs` |
| `LogPush` | subscribe, hub, outbox, gateway tasks | `LogPushProofs` |
| `LogBackup` | the backup of a log that is written, the strict restore of the archive, the deletion that races it | `LogBackupProofs` |
| `Replica` | replicas of a collection composed with the service's log and its sessions | `ReplicaProofs` |
| `ClientWrites` | the abstract promise to a client that writes: published once, in capture order, with a true receipt | refinement in `ReplicaProofs` (rollbacks off), by TLC with rollbacks |
| `FileStore` | one file, its publishes, their recovery, and the editors that write it | `FileStoreProofs` |
| `MC*` | small instances | |

`LogService` shows that the service is a `SharedLog`; `Replica` starts from there. Its `log` is
that chain, its `Refuse` and `Accept` are the answers of a conditional append, and what it adds
is what `SharedLog` does not promise: sessions, and a tail lost by a failover.

### How state and actions correspond to the code

**LogService.** `st` is `CollectionMeta`'s policy part with the ACL; `log` is every item
ever committed and `kept` the positions still stored, so that properties can speak of
compacted items; `tokens`, `snaps`, `retained_from`, `used_bytes` are the rows of the same
names. An append is split where the code can fail: `AppendBegin` (authorization, replay,
quota and head check), `CheckDeviceItem`, `CheckPolicyHeader`, `ApplyPolicyOp` and
`FinishPolicy` on the working copy `tx.ws`, then `AppendCommit`. The write transaction is
exclusive (`Mode::Write` takes the collection's lock in the memory backend, a row lock in
Postgres), so no other handler runs between them, but `Abort` may end it after any step: an
error return, a cancelled future or a crash. Answers that change nothing (`head-moved`,
`quota_exceeded`, `duplicate`) are the disabled action or `Abort`.

*Clients.* `net` holds every request ever sealed. A request may be processed any number of
times, in any order, or never. A client seals after the head it has read, or (with
`Pipelining`) after a request whose fate it does not know, which produces requests with
the right position and the wrong chain hash.

*Hashes.* An item's bytes contain the hash of the item before it, so a chain hash stands
for a whole prefix; it is modelled by the item's identity `<<request, index>>`. Signatures
are ideal. An item has size 1.

*Time.* Handlers are given `now` when the request arrives, before they wait for the lock:
`Recent` is every clock reading at most `MaxWait` old.

**LogObjects.** Every `await` of an upload is a step: backend transactions and object-store
operations are atomic, nothing holds between them. `PutNew`, `ReadExisting`,
`RecordObject`, `Cleanup` are the steps of `finalize` and `commit_object`; `Finish` is the
reply, an error or a crash at any of them. `GcCommit` is gc's transaction with its archive
copies, `GcDelete` each delete after it, `GcStop` a failure or crash between them. A device
has one staging key at a time. References come and go as `Reference` and `Release`, with
the code's guard that a referenced address is committed. The quota `storage_bytes` is chosen by
`Init`; that it changes is in `LogService`.

**LogPush.** A request commits (`Commit`, `Delete`) and, later and in its own task, takes the
hub's lock (`Notify`) and then the outboxes' (`Deliver`). `Authorize`, `Register`, `ReadHead`
and `Reply` are the steps of `subscribe`. `ordered`, chosen by `Init` from `Hosts`, is the host:
`TRUE` runs one task from commit to delivery (the Durable Object), `FALSE` is the native
gateway. What the client believes (`view`, `known`) is external: it takes every head as a lower
bound, and a `closed` frame ends its subscription.

**LogBackup.** A log is a record of its counters and a function from the five sections of a
backup to sets of rows. The source's actions are the service's operations as `BackupGuard` lets
them run; `BackupBegin`, `BackupPage`, `BackupPageAgain`, `BackupFinish`, `BackupAbort` are the
handlers of `backup.rs`, with `received = FALSE` for a lost reply. The page chain is the sequence
of pages it commits to and an inventory digest the set of rows it binds (collision-free
hashes). Every write of the target is split at the registry call of `DoTxn::commit`: the handler
puts what it would publish in `writer`, `Commit` asks again under the lock and publishes,
`Cancel` is an error, a cancelled request or a crash. `uploads` holds an `import_object` between
its check of the status and its row. The registry's handlers (`RecordCollectionDeletion`,
`BeginCollectionClosing`, `DestinationClose`) and `DeleteLog` run at any time after the restore
has begun.

**Replica.** A replica is a record and its handlers are operators from records to records, in the
order of the code: `Pump`, `RequestRead`, `OnAppend`, `OnRead`, `OnSubscribed`, `OnLostTail`,
`ProbeResult`, `TryRollback` and so on keep its names. One action is one entry of the host
(`Submit`, `Deliver` of a reply, `Push`, `Tick`, `Connect`, `Cut`, `Crash`) or one step of the
service (`Subscribe`, `Read`, `Refuse`, `Accept`, `Busy`, `SendReply`). A session's calls form a
queue because `conn_loop` answers them in order; a reply the code ignores, by its call id or its
repair generation, belongs to a call with `cur = FALSE`. When a session ends, an append nobody
answered goes to `late`, where the service may execute it at any later time (`LateAppend`) or
never. `LoseTail` cuts the log: the failover that `lost_tail.rs` is written for. A chain hash is
the prefix it stands for; two sealings of one write differ by a salt. Merging is the function
`Contended`: at a contended capture number the second author's write is rejected. `Parallel`
lets other sessions commit between the end of a handler and the moment its reply is queued, as
on the native gateway.

**ClientWrites.** Three actions: some writes are `Publish`ed together, the log may `Lose` its end,
one author's receipts `Settle`. The refinement mapping forgets salts, sessions and repairs:
`published` is the log, `receipt` what `receipt_state` would answer. Its freedom after a loss is
deliberate and small: a lost write may be published again, and a confirmed receipt may become
pending again only for a write that was lost.

**FileStore.** `dir` and `data` are directory entries and inodes, so that an exchange, a rename and
an unlink are what they are, and an editor's open file descriptor keeps its inode. Every platform
call of `publish.rs` and `recover.rs` is one step of `op.pc`; `SaveByRename`, `OpenToWrite`,
`WriteAndClose`, `UserDelete` and `Crash` come between any two. `Fail` is a platform error (the
intent stays), `WriteCutShort` a torn temporary. `Settle` looks at a retained file and decides,
`Release` removes it, and an editor may write in between. `OtherHolders` is the answer `Settle` goes
on with: `None` when nobody has the file open and, if `HoldersUnknown`, `Unknown` when somebody has
(macOS always, Linux where no lease can be taken: NFS, FUSE). Where the platform can tell, a held
file waits, so with `HoldersUnknown = TRUE` the model has every behaviour of both platforms.
`SameSize` is the set of saves that have the size of a published version. `db` is `DiskDb`.
`owed` is history: what users wrote and neither replaced nor handed over. The replica is an
environment that publishes on anything it has published or been handed.

## 3. Runs

| Run | Checks | Shows |
|---|---|---|
| `policy` | `ChainIntact`, `AcksDurable`, `EpochSeparation`, `RevocationIsFinal`, `ImplementsSharedLog`, `TypeOK`, `OwnerRemains`, `ActiveDevicesAreMembers`, `FrozenExcludesContent`, `RebuildMatches` | five requests on current, stale and unanswered heads while a device or its member is removed and the epoch is rekeyed; or four out of every policy op and item kind, with user, recovery, hosted and escrow devices |
| `retention` | `ReceiptsAgree`, `TokenOnce`, `RetentionExact`, `YoungEntriesKept`, `DeletedEntriesArchived`, `ReadsNeverSkip`, `StorageExact` | time, snapshots, endorsements, compaction, failing archives, tokens that expire, a quota that is cut |
| `objects` | `CommittedHasBytes`, `ChecksumDescribesBytes`, `RefsCommitted`, `UsedExact`, `DeletedBytesArchived` | two devices, two contents, two addresses and a quota with room for both or for one, so that `record_object` refuses an upload that passed the advisory check; gc rounds that stop half-way; no upload of an address a round is deleting |
| `push` | `LatestHeadOnItsWay`, `RevokedIsClosed`, `BelieversAreServed`, `SubscribersCatchUp`, `RevokedLearns` | a connection that subscribes, unsubscribes and reconnects while commits, revocations and a deletion race it and its queue overflows, on both hosts |
| `backup_restore` | `ArchiveIsCut`, `RestoredIsCut`, `DenialIsFinal` | a collection backed up while it is written; its restore by calls in any order, while it is deleted or its destination closed |
| `replica_repair` | `NoHarmWithoutLoss`, `AckedKept`, `ImplementsClientWrites` | two replicas that compete for the head and repair a lost tail, by appending again or by rolling back |
| `replica_settles` | `ReplicaTypeOK`, `NoFalseAlarm`, `SettlesUnlessBusy` | sessions cut, a restart, a call answered busy, appends executed late: nobody is alarmed, and every write settles |
| `files` | `NothingLost`, `NoOrphans`, `KnownUpToSize`, `UserEditsCaptured` | two editors, two publishes and two faults around one file, holders known and unknown |

Four runs show a disagreement between the code and what it, or its contract, says
(`findings` in `PROJECT.json` quotes both):

- `gc_deletes_reupload`: gc deletes bytes after its commit; a re-upload in between is
  committed on bytes that are then deleted, against I10.
- `replica_stall`: a read answered `unavailable` or `rate_limited` is not retried
  (`on_read_reply`, `Err(_) => {}`). If a push has applied the moved head in the meantime, the
  replica is not caught up, has nothing to read, and its write waits for another device's commit
  or for the session to end. `SettlesUnlessBusy` shows that nothing else stalls it.
- `file_late_write_lost`: where `other_holders` answers `Unknown`, `settle` releases a retained file
  whoever has it open (`stash.rs:55`), and a save through a descriptor opened before the swap is
  lost, against `stash.rs:1` and the comment of `other_holders`. `ack` has the same gap on every
  platform: it removes an evidence file without asking for its holders (`store.rs:2751`), so a
  file that recovery preserved while an editor had it open takes the editor's later save with
  it. With `HoldersUnknown = FALSE`, two saves and one fault TLC violates `NothingLost` that way.
- `file_same_size`: `record_published_async` takes the file at the path for its own when the size
  agrees (`store.rs:1041`), so a save of the same size between the exchange and the stat is
  remembered as published and is not read until it changes again, against the comment at
  `store.rs:1027`. `KnownUpToSize` is what remains true.

`files` has `CountLate = FALSE`: what is written into a file after the store's last look at it,
before it is removed on acknowledgement or, with its holders unknown, by `Release`, is not owed.
Those are the two cases of `file_late_write_lost` and nothing else: a write into a retained file
that `settle` knows to be open, or that it could still read, is owed. `UserEditsCaptured` names
the save of the same size as an exception, since the code leaves it at the path unread;
`NothingLost` has none.

Other disagreements met while modelling, which no run states:

- a `hosted` or `escrow` device can be enrolled in an `e2e` collection, and a recovery device's
  entries pass the gate (`LogPolicy`);
- a second `cp-key-revoke` replaces the first one's time;
- on the native gateway two commit notices can overtake each other, and coalescing then keeps
  the older head: `LatestHeadOnItsWay` and `SubscribersCatchUp` are stated for ordered hosts;
- with `Parallel = TRUE` a head read before a replica's own append can arrive after it and look
  like a lost tail. The repair that starts finds nothing to do: `NoHarmWithoutLoss` holds where
  `NoFalseAlarm` does not;
- a probe of the lost-tail search that is not answered is not asked again. The code says
  "Unknown answer: retry the same probe on the next pump." (`lost_tail.rs:499`), but it forgets
  the call (`clear_probe_call`) and `repair_step` asks at `next_probe(floor, lo, hi)`, another
  position. The first probe is at the service's head; if that lies at or below the floor of the
  retained window there is no other position, and the replica is held for good. With the stale
  head of the item above this happens though nothing was lost: four writes, `Parallel = TRUE`,
  `MinTail = 1` and one busy answer or one cut suffice for TLC to violate `NoHarmWithoutLoss`.
  It holds in `replica_repair`, where every position is retained and every probe answered. Real
  windows keep 2 000 to 10 000 positions, so the stale head would have to be that far behind;
- a temporary torn by a crash during a replace is preserved as if a user had written it.

### Bounds

- `policy` has two families of requests and never mixes them (`OneFamilyNext`, whose steps are
  steps of `Next`): mixed, they are out of reach.
- `MaxRequests` (3 to 5) and `MaxOps`: a race needs two requests on one head and a third
  that repeats or builds on one of them; a revocation race needs genesis, revocation,
  rekey and content, before and after.
- `MaxClock`, `MinAge`, `TokenRetention`, `SelfEndorseAge`, `GraceEntries`: one to three
  units, in the order relation of the code's constants that matters to each rule, so that
  a token expires before and after its entry is compacted.
- `MaxWait` is 1 in `retention`: a request that waited across a tick. `TokenOnce` and
  `YoungEntriesKept` hold up to this skew, and no better.
- `Publishers`, `Endorsers`: one of each suffices, since who publishes only matters for
  "not one's own snapshot".
- `QueueBytes` 2 with items of size 2: the queue overflows after one frame. One session is
  enough, since sessions share only the committed state; the second device makes a revocation
  that is not this connection's.
- `Overlap`: `FALSE` excludes the race of `gc_deletes_reupload`, so that the other
  properties of objects are checked beside it.
- `StorageQuotas` is `{1, 2}` in `objects`, for two addresses of size 1: with 2 both are stored and
  one round collects both, with 1 their uploads compete.
- `MaxDuration` bounds how long an upload is in progress, in ticks.
- `LogBackup`: the source starts with a genesis, an object, an entry that names it, a control
  item and a snapshot, endorsed or not, so that every section has a row; two writes (`MaxOps`) put one
  before and one after the cut or two between pages; `PageRows = 1` puts a page boundary
  everywhere; two sessions (`MaxSessions`) let a second backup follow an abandoned one.
- `Replica`: `replica_repair` has three writes of two replicas, two of which compete, and one lost
  tail of any length; `MinTail = 3` retains everything. `replica_settles` has one write each and
  two faults among a cut, a restart and a busy answer. `BatchItems` and `BackoffAfter` are 2, so
  that a batch can hold one write and can be refused below and at the threshold.
- `FileStore`: `MaxWork` 3 of two saves, two publishes and a deletion, with two crashes or errors:
  a crash during a publish and another during its recovery, with an edit before, between or
  after. `SameSize = {1}`: the first save has the size of a
  published version and the second has not, so that both meet every step. `RestoreRounds` is 2: a restore that displaces a second unexpected version tries
  again once, and then holds.

`CHECK_DEADLOCK FALSE` in the `MCLogService` and `MCLogBackup` runs: once the bounds on requests
and time are used up, or the collection is deleted, the model stops. Symmetry is used in `MCLogObjects` only, for safety.

### Fairness

`LogPush`: weak fairness of `Notify` and `Deliver` (a request's task, once committed, runs to its
end; there is no await between the two locks), of the steps of a `subscribe` in progress, and of
each connection's writer (`conn_loop` loops until the queue is empty). Nothing makes clients
commit, subscribe or disconnect. A gateway that crashes drops its connections, which the model
has as `Disconnect`.

`Replica` (`FairSpec`): the service answers the calls of a live session and its frames arrive, in
order (one connection, one task); the host reconnects a lost session and keeps calling `tick`
(the daemon's loop sleeps until the replica's next deadline). `Arrive` is fairness on the queue
of frames alone, so that a delivery that changes nothing else still counts. Nothing makes a
fault happen, and nothing makes the service execute an append of an ended session.

`FileStore` (`FairSpec`): the store's task runs each publish, recovery, scan, delivery and
settling it has begun or is due, the replica commits and acknowledges what it is handed, and an
editor that has a file open eventually writes and closes it.

## 4. Proofs

All theorems hold for every value of the constants allowed by the named assumptions
(`PolicyAssumption`, `ServiceAssumption`, `ObjectsAssumption`, `PushAssumption`,
`BackupAssumption`, `FileStoreAssumption`, `ReplicaAssumption`), which the passing runs evaluate. They bound types,
with one relation: `MaxWait <= TokenRetention`, a request does not wait for the lock longer than
tokens are kept (180 days). Where a theorem needs more it says so, and the reason is given below.
34 theorems are listed in `PROJECT.json`. Of the safety properties the passing runs check, only
`NoFalseAlarm` and `NoHarmWithoutLoss` have none; both refinements are proved.

Each argument has the same shape: a typing invariant that is inductive by itself, and layers
that are inductive relative to it and to the layers before.

**LogPolicyProofs** has the lemmas on the policy operators that the others rest on: what each op
preserves of types, revocations, owners and memberships.

**LogServiceProofs.** `IndType`: `TypeOK`, the sealed requests are well formed, `kept` lies in
the log, and an open transaction is for the current head (`TxOk`: the head check of step 5 stays
true until the commit, because the transaction is exclusive). It gives `TypeCorrect` and, with
the chain hash of the head, `ChainAlways`. On it rest

- `IndPolicy`: owners and memberships in the live state *and* in the working copy, where the
  copy may be ownerless only before its genesis op. Gives `OwnerAlways`, `MembersAlways`.
- `IndRevoke`: `Settled(s, r)` says of a revocation that the device is revoked and that either
  a rekey is pending or the epoch has moved on. It holds of the live state for committed
  revocations and of the working copy for those plus the ones the batch has made so far, and
  every item already checked is safe with respect to them. Gives `EpochsSeparated` and
  `RevocationsFinal`; neither is inductive alone, since the log says nothing of
  `rekey_required`.
- `IndAcks`: every receipt is the receipt the log would give now. Gives `AcksAlways` and
  `ReceiptsAlwaysAgree`.
- `Refinement`: `Spec => SL!Spec`. A commit is `SL!Commit`, a replay `SL!Acknowledge`, sealing
  `SL!Seal`, every other step a stutter.

**LogRetentionProofs**, on `IndType`:

- `IndRetention` adds to `RetentionExact`, `DeletedEntriesArchived` and `StorageExact` only that
  `retained_from` lies in the log. A compaction that fails half-way has archived some segments
  and deleted nothing, so the retry is an ordinary step.
- `IndClock`: the times of the log are in order up to `MaxWait`, since a handler's reading of
  the clock is at most that old. `last_seq_at_or_before` searches these times as if they were
  sorted; the skew is what `YoungAlwaysKept` loses.
- `IndSnaps`: once something is deleted, a registered snapshot reaches the first retained entry,
  and the newest one is never dropped. Gives `ReadsAlwaysFollow`.
- `IndTokens`: a token missing from the index was last used `TokenRetention` ago *by the clock*,
  and one that is there expires no earlier than that after *every* use. `TokenOnce` alone
  forgets the entries whose index row was pruned. `MaxWait <= TokenRetention` keeps the expiry
  of a re-used token above the older one's.
- `IndFrozen`: if the state is not frozen, every freeze in the log has a later thaw, and if an
  item is content, every freeze before it has a thaw between. The same is stated of the working
  copy, op by op (`TxFreezes`), because a batch may freeze, thaw and write.
- `IndRebuild`: running the checks of `check_item` over the control items of the log succeeds
  and leads to the live state; over those and the part of its batch an open append has checked,
  to its working copy, down to the op (`Checked`). `RetentionExact` says that the stored control
  items are all of them, which gives `RebuildAlwaysMatches`. The rebuild is a recursive function:
  one more item extends a run of it (`ReachNext`), a run over equal items is the same run
  (`ReachSame`), and two runs agree by their least difference (`AgreeAt`), which needs no
  induction rule.

**LogObjectsProofs.** `IndObjects`: an upload about to be recorded has its content under its
address; what a round is about to delete has no row and is not being uploaded; every row has
the bytes it describes. The middle part is where `Overlap = FALSE` is needed, and
`gc_deletes_reupload` shows that it is; `BytesArchivedFirst` adds `DeadArchived` under the same
proviso. `RefsAlwaysCommitted` and `UsedAlwaysExact` need no proviso: they speak of rows, which
only transactions change.

**LogPushProofs.** One invariant per place a frame can be.

- `RevokedAlwaysClosed`: a notice that covers the session, or a `subscribe` whose second
  authorization will fail, is there for each revoked subscriber.
- `IndServed`: `Consistent(s)` relates the hub's table, the request in progress, the queue and
  the client. The parts that matter: a `closed` is queued only for a session that can never
  register again, and a request that was given the head is registered or will be told. It holds
  for both hosts, and gives `BelieversAlwaysServed`.
- `IndHead`, relative to it: no head is announced before it is committed (`HeadsBounded`), and
  on an ordered host a stale notice has the latest one behind it and at most one batch is
  undelivered (`OrderKept`). Gives `LatestAlwaysOnItsWay`; on a parallel host the second part is
  false, as section 3 says.

**LogBackupProofs.**

- `IndDenied`: the deletion takes the target's lock, so it finds no transaction that waits for
  the registry and leaves none. Gives `DenialAlwaysFinal`, an action property.
- `IndBackup`: what the source writes lies after the cut's head, and objects of a valid cut are
  not deleted (`CutHolds`), so what `backup_page` would select is still the log the backup began
  with, and what was sent of each section is a prefix of it by key (`CutMatches`). The control
  plane asks for a page when it has all those sent before, or for the last one again, so its pages
  are those sent when it finishes. Gives `ArchiveAlwaysCut`, for any page size.
- `IndLinked`: `RestorePlan::verify` compares items, objects, snapshots and the references of
  snapshots, not those of items. They follow from the items (`RefsLinked`), at the source, in the
  cut and at the target, so they need no comparison.
- `IndRestore`, relative to both: `Target(d)` holds of the target and of what waits to be
  published, so `Commit` and `Cancel` may come at any time. Once an auxiliary page was applied the
  accounting is that of the plan; from then on `restore_aux_guard` refuses items and snapshots and
  the plan's bytes refuse objects, so the pages applied before keep their times (`TimesRight`),
  and after the last one every row has its archived time (`TimesAll`). Going live adds what
  `Verify` compared (`GoLive`). Gives `RestoredAlwaysCut`.

**FileStoreProofs**, one case per value of `op.pc`:

- `IndNames` (`StoreTypeOK`, `NamesOK`, `OpFits`, `NoOrphans`): `NoOrphans` is not inductive,
  because finishing an intent removes its row. `OpFits` says which private names the call in
  progress may find in use (`Holding`), so that what it records covers them; numbers are taken
  from the counter once, and recovery works through a subset of the journal. Gives
  `PrivateFilesCovered`.
- `IndKnown`, relative to it: the bytes at the path, at the moment the call takes them for its
  own, are its own or a user's, and a user's have the size the code compared. Gives
  `KnownAlwaysUpToSize`, for every set `SameSize`; the stronger `KnownIsTrue` is what
  `file_same_size` refutes.
- `IndOwed`, relative to `IndNames`: what is owed is in a linked file (`OwedDisk`); every
  revision the store may remove a file for is `Safe`, owed to nobody and no later save
  (`OwedRows`, `OwedOp`); a temporary that was never at the path is `Pristine`, with no user's
  bytes and no open descriptor; what `Settle` saw in a file about to be released is `Safe`, and
  where holders are known nobody has the file open and it still holds that. Gives
  `NothingEverLost`, for both values of `HoldersUnknown`. It assumes `CountLate = FALSE`, which
  leaves out exactly the writes of `file_late_write_lost`, for which it is false.

**ReplicaProofs.** The handlers are operators from records to records, so the argument has two
levels.

- What an operator preserves, for any family of chains closed under prefixes (`Family`): if what a
  replica holds, was told and offers is of that family (`Fit`), so is what it holds and offers
  afterwards, and its receipts stay `Truthful`: a write it confirms is in the chain it has
  applied. One lemma per handler, in the order the handlers call each other.
- `ReplicaInv` takes for the family `Chains(log, lost, rep)`. Where rollbacks are off these are
  the chains that may have been the log: each author's writes in capture order and each captured,
  no pending write of the same author passed over, no two that compete, all of them in the log
  still or lost, and a prefix of the log as long as nothing was lost. With rollbacks only the
  salts are bounded. The invariant adds that the replies on their way match the calls, in order,
  and that a late append is still an offer its author could make (`Offer`). It is inductive with
  every fault, for any number of replicas, writes and losses (`ReplicaInvariant`), and gives
  `ReplicaTypes`, rollbacks included.
- `AcknowledgedKept` and `WritesImplemented` are for `~Rollback`, which is what ships
  (`ROLLBACK_ENABLED` is false outside test builds). With rollbacks both depend on the retained
  window: a rollback past it can forget a write (section 5), so TLC checks them where the window
  holds everything. The refinement goes step by step: `Accept` and `LateAppend` are
  `CW!Publish`, `LoseTail` is `CW!Lose`, a step of a replica is `CW!Settle` or changes nothing.
  That a published batch has none of the log's writes comes from the invariant: it is accepted
  only on the chain it was sealed on, and is a plan of writes that chain lacks or continues it as
  a chain of the family does (bytes appended again after a loss), where no write is there twice.

**Only model-checked:**

- liveness, which is outside the prover's reach: `SubscribersCatchUp`, `RevokedLearns`,
  `SettlesUnlessBusy`, `UserEditsCaptured`;
- `NoFalseAlarm`, and `AckedKept` and `ImplementsClientWrites` with rollbacks on;
- `NoHarmWithoutLoss`, which is false for short windows (section 3), so that it cannot be a
  theorem without a bound on how far a head may be behind.

## 5. Not modelled

- *Log service:* rate limits, quotas in bytes per second, `file_bytes`, ref indices, regions,
  control-only reads and page byte limits; ephemeral streams; credentials and their cache;
  authentication and encoding; the Postgres backend's SQL.
- *Backup and restore:* nonces (section 6 of a backup, which a restore does not use), the legacy
  import without a plan, policy checks of imported items (they are `LogPolicy`'s), placement,
  operations of the target after it is live, mixing two archives, object bytes (fetched before
  the backup is finished). The source falls silent once its archive is complete, and deletion is
  explored from the first call of the restore on.
- *Replica:* planning and merging of records, keys and stalls, hosted mode, policy replay and
  missing references, snapshots (installing one, falling behind the retained log), control items
  and their latch, attachments, retention of the tail by bytes or age, the terminal answers
  (frozen, quota, gone, forbidden, too large), and `request_head`, which the daemon never calls.
  `Rollback` is compiled in test builds only (`ROLLBACK_ENABLED`); with `MinTail` below the number
  of writes that can be lost, a rollback can forget an acknowledged write, which is what the
  retention is for.
- *File store:* the Windows and vault strategies, durability fences and power loss, moves between
  paths, batches, already-held names, deferral, the schedule of retention, attachments. An
  evidence row whose file was already removed by an interrupted acknowledgement stays; it is
  harmless.
- *Everything else:* `core`, `wire`, `noise` and `trust` are parsers, merges, codecs and
  cryptography; `daemon`, the hosts and the hosted worker compose the crates above and do I/O;
  the legacy product beside `runtime/` is another system of the same size.

The repository has some 390 000 lines, most of them applications, SDKs, tests, codecs and the
legacy product. The modules cover the protocol core: the parts where order, failure and
concurrency decide whether data survives.

## 6. Plan

1. `Replica`: `NoFalseAlarm` for `Parallel = FALSE`, which needs the order of the heads in a
   session's frames; `AckedKept` with rollbacks, for a window that holds all that can be lost.
2. Models: `LogAdmission` (the credential cache against revocation, the rate bucket), ephemeral
   streams in `LogPush`, snapshots in `Replica`.
