# octra-sqlite: specifications, model checking and proofs

octra-sqlite runs SQLite inside an Octra *Circle*, a WebAssembly program with a
key-value storage of its own, and gives its owner a command line and a client
library to query, write, back up, restore and upgrade the database. This
directory holds TLA+ modules translated from that code, the TLC configurations
that check them on small instances, and TLAPS proofs for every instance.

All paths below are relative to the repository.

## 1. Inventory

| Component | Code | State | Operations |
|---|---|---|---|
| Page store | `circle/source/octra_sqlite_circle.c` 679-1180, 1859-1882 | metadata key, page keys, manifest keys; per call: dirty buffer, file size, page generations, pending sequence | open, read, write, truncate, flush, garbage collection, reset |
| Exec and authorization | same file 1375-1499, 1740-1799, 2075-2248 | the owner key and database id in the binary; the owner sequence in the metadata | verify a signed intent, run SQL in one transaction, commit, flush, answer |
| Queries, codecs, backup chunks | same file 1500-1738, 1801-1857, 2001-2073 | none (views) | query, schema, storage_info, auth_info, backup_chunk |
| SQLite, TweetNaCl | `vendor/`, `circle/crypto/` | third party | |
| Owner-write client | `src/client/write.rs`, `rpc.rs`, `transport.rs`, `results.rs`, `database.rs` | the prepared intent, the nonce, the receipt | prepare, sign, submit, poll the receipt, poll the transaction |
| Backup, restore, import | `src/cli/portability.rs` | the file being assembled, the batches still to run | backup (up to 3 tries), restore and import in batches |
| Upgrade and rollback | `src/cli/upgrade.rs` | the rollback manifest and the saved program on disk | snapshot, guard, apply, rollback |
| Deployment, onboarding, databases | `src/cli/deployment.rs`, `onboarding.rs`, `databases.rs` | the config file, the program of a Circle | new, deploy, setup, database set, default, remove |
| Private files | `src/private_file.rs` | a temporary and a final file | creation, atomic replacement |
| Configuration, wallets, sessions | `src/client/config.rs`, `wallet.rs`, `session.rs` | the config file, the wallet files | load, write, store a key, find a wallet |
| Reading: sql, status, verify | `src/cli/sql.rs`, `inspection.rs`, `src/client/rpc.rs`, `transport.rs`, `src/protocol/osr1.rs` | the views asked for, the attempts, what has been recorded | query, choose the surface, retry, judge |
| Catalog, printing, shell | `src/cli/*.rs` (the rest) | none of their own | |
| Wire codecs | `src/protocol/*.rs` | none | encode, decode |

Interaction. The client and the command line reach the Circle only through RPC:
views (a query sees the storage as it is at that moment) and submitted
transactions, which the chain applies one at a time, in nonce order, some time
after they were submitted or never. Inside the Circle one update call runs at a
time and starts from the storage alone; it reads and writes the storage by
single puts, gets and deletes.

What is hard here:

* the page store promotes a whole new file by the last of many puts, any of
  which may be refused or never come (`docs/octra-questions.md` asks whether the
  host rolls back, and the code relies on no answer);
* four storage formats are readable and only one is written;
* generations that a failed flush has used are used again;
* the owner sequence and the file must move together;
* views of one client interleave with transactions of another (backup, upgrade);
* answers get lost while the transaction they are about is applied;
* a script is many transactions, any of which may be late or lost, and its
  statements have to be found in a text with quotes, comments and triggers;
* commands share one config file, which nothing locks, and one of them works for
  minutes between reading and writing it;
* one judgement (ready, verified) is put together from views of different
  versions and programs.

What makes each component correct:

* page store: a reader at any instant finds one whole committed file; a commit
  is exactly the file SQLite committed; leftovers are harmless; storage does not
  grow without bound;
* authorization: a signed intent takes effect at most once, and a failed one not
  at all;
* client write: what it reports of a transaction is so; a repeated submission
  does not apply a write twice;
* backup: the file assembled is one committed file;
* restore: after a failure the operator knows which batches were applied;
* reading: the rows shown are those of one version, a retry never becomes a
  second write, and "ready" was answered by the Circle;
* deploy: the owner's key is not taken from a program by mistake;
* upgrade: the saved program is the one that was replaced, and rollback never
  overwrites a third program;
* config and wallet files: a crash leaves the old or the new content, and a
  stored key is not lost.

## 2. Modules

| Module | Contents |
|---|---|
| `AtomicDatabase` | what the page store promises: a file and a sequence that transactions change whole or not at all |
| `PageVfs` | the page store and the part of exec and reset that decides what is stored |
| `PageVfsRefinement` | the mapping from `PageVfs` to `AtomicDatabase` |
| `Backup` | a client that backs up the file while `PageVfs` works; extends `PageVfs` and runs its steps between its own |
| `AtMostOnce` | what execute promises: a write takes effect at most once, and what the caller is told for good is true |
| `OwnerWrite` | calls of execute by the clients of one owner, the chain, and the sequence check of the Circle |
| `Upgrade` | upgrade and rollback commands, the bundle on disk, late program updates, other writers |
| `ScriptText` | how a text is cut into the statements of a script or the rows of a CSV file, and what is made of a statement |
| `Script` | a script, CSV file, set of initializers or write smoke as a sequence of owner writes; extends `OwnerWrite` and `ScriptText` |
| `Workspace` | concurrent commands over the config file, the wallet files and the program of a Circle |
| `Query` | the read path of sql, status, verify and new, from the text to the answer of the Circle |
| `MCPageVfs`, `MCBackup`, `MCOwnerWrite`, `MCScript`, `MCUpgrade`, `MCWorkspace`, `MCQuery` | the models TLC runs; constants are in the `.cfg` files |
| `PageVfs_proofs`, `PageVfsRefinement_proofs`, `Backup_proofs`, `OwnerWrite_proofs`, `Upgrade_proofs`, `Script_proofs`, `Workspace_proofs`, `Query_proofs` | theorems |

`Backup` composes the client with the page store. `OwnerWrite` and `Upgrade`
take from the page store only what its properties establish: one write commits
whole or not at all, and takes one generation and one sequence
(`ImplementsAtomicDatabase`, `PromotionsAdvance`).
`Script` composes a command with `OwnerWrite`: batch b is writer b, and every step
of a script is a step of `OwnerWrite` or leaves it alone
(`ScriptImplementsOwnerWrite`). `Query` and `Workspace` end where `Script` begins:
a text that is a script, and the first write of a bootstrap.

Definitions whose comment begins with "Mutant" are variants of the definition
that follows, each with a plausible bug; the specifications do not use them. Each
makes one property fail in its run.

### How PageVfs corresponds to the code

Storage. `meta` is the value under `octra.sqlite.vfs.v1.meta` (format, file
size, generation, owner sequence), `pageKv[g][p]` the value under the key of
page p of generation g (generation 0: the key without a generation), and
`manifestKv[g]` the manifest of generation g.

The call in progress. `loaded` is what `load_meta` read (`current_generation`,
`committed_file_size`, `current_owner_sequence`, `meta_version`), `gens` is
`page_generations`, `fileSize` is `main_file_size`, `dirty` the dirty buffer,
`pending` is `pending_owner_sequence`, `todo` the pages a loop has still to
visit. `phase` is the program counter: `sql` until SQLite has committed,
`putPages` and `putMeta` in `flush_dirty_pages`, `gc` in `gc_replaced_pages`,
`resetPages` and `resetMeta` in `reset_storage`. `reply` is what the caller was
told. Every host put and delete is a step of its own.

History. `holes` are pages the file has grown over in this transaction and SQLite
has not written yet: SQLite writes every page of the file it commits (with
`secure_delete`, freed pages too), which is an assumption about SQLite, not
something the VFS enforces. `torn` says that a reset has begun to delete and has
not ended.

| Action | Code |
|---|---|
| `BeginExec`, `RefuseReplay`, `OpenFails` | `octra_update`, `verify_signed_exec_params`, `open_db`, `begin immediate` |
| `WritePage`, `Truncate`, `SqlFails` | `main_write`, `octra_truncate`, the rollback of `run_sqlite_exec` |
| `SkipFlush`, `RefuseFlush`, `BeginFlush` | the head of `flush_dirty_pages` |
| `PutPage`, `PutManifest`, `PutMeta`, `PutFails` | its puts and their error returns |
| `CollectPage`, `CollectManifest` | `gc_replaced_pages` |
| `BeginReset`, `ResetPage`, `ResetManifest`, `ResetMeta`, `ResetFails` | `reset_storage` |
| `CutOff` | the host stops the call (external) |

Abstractions. A page is one value, so `zero_tail_after_file_size` has no partial
page to clear. SQLite is any sequence of page writes and truncations; without
auto-vacuum (the default, and user SQL may not run pragmas) it truncates only
what the same transaction added. Initial storage is any storage that this
release or an earlier one leaves behind: each format version, any mixture of
page generations, v2 and v3 files up to `MAX_VFS_PAGES`, larger than a flush of
this release accepts.

### Faults

`Faults` says what the host may do besides its work: refuse a put, refuse a
delete, cut the call off. Nothing in the model undoes the earlier puts of a call
that failed. If the host does roll back, the behaviours are those in which the
fault comes before the first put.

There is no fairness and no liveness property in `PageVfs`: the host may always
stop.

### How Backup corresponds to the code

`stage` and `tries` are the loop over attempts of `cmd_backup`, `pin` the
generation and page count of the `storage_info` answer, `copied` the temporary
file. `snapshot` is history: the file that was committed when `storage_info` ran.

| Action | Code (`src/cli/portability.rs`, `run_backup_chunk` of the Circle) |
|---|---|
| `StartTry` | `storage_info` and the temporary file of the attempt |
| `CopyChunk` | one `backup_chunk` view, its checks and the client's `ensure_backup_chunk_matches` |
| `GenerationChanged` | the program's `backup_generation_changed`; another attempt or the end |
| `BackupFails` | any other error: of a request, of the local file, or an answer that does not match |
| `FinishBackup` | the temporary file replaces the target |

Whether a view may see the storage between two puts of an update is the host's
choice; the constant `ViewsDuringCalls` allows both. The SHA-256 over the bytes
copied is left out.

### How OwnerWrite corresponds to the code

A writer is one call of `execute` (or `execute_no_wait`) and the one transaction
it signs. `pc` is where the call is, `nonce` what it has signed, as account nonce
and as owner sequence; `polls` and `pollError` belong to the present wait.
`account`, `status` and `receipt` are the chain; `ownerSequence` is the sequence
in the Circle's metadata. `applied` is history.

| Action | Code |
|---|---|
| `Prepare`, `PrepareFails` | `prepare_write*`, `next_nonce*`, `sign_write` |
| `Submit`, `SubmitFails` | `submit_signed_write_with`, `submit_tx_with`; an error answer does not say whether the node has the transaction |
| `SubmitAgain`, `Follow` | `submit_signed_write*` and `wait` of `Database`, with a signed write or a hash the caller kept |
| `ReceiptFound`, `Poll`, `Lookup` | `wait_for_receipt_with_policy`, `ensure_receipt_success`, `terminal_transaction_error` |
| `Execute`, `ExecuteAgain`, `Reject`, `Drop` | the chain (external); `Exec` and `Commit` inside are `octra_update` and the promotion |

`ChainMay` says what the chain may do besides executing nonces in order: drop a
staged transaction, skip nonces, run an intent once more. `HostRollsBack` says
whether a call that traps after its metadata was put leaves that put in place.
The retries inside the transport are part of the answer or error a request ends
with; `octra_submit` is not among the retried methods.

`AtMostOnce` knows requests, what was told of each (`told`) and which took effect
(`committed`). Under the mapping in `OwnerWrite` a request is a writer, `committed` is
`applied`, and told is what the caller knows for good (`AnswerTo`): "ok", or "failed"
after an SQL error, a transaction that failed, or one that was never sent. The other
results leave the request open, because the caller can wait or submit again.

### How Upgrade corresponds to the code

The operator runs one command at a time. `pc` is its step, `snap` the snapshots
it has taken, `viewed` how many of the views of the present one are answered:
`upgrade_snapshot` is four requests (program info, storage info, auth info,
version), so writes and late updates fall between them. A bundle is the directory an
upgrade writes: the replaced program (`wasm`), the backup, and the manifest
(`status`, `to`, the counters `guard` it compares with, `clean`). `smoked` is
history: the upgrade itself has written.

| Action | Code (`src/cli/upgrade.rs`) |
|---|---|
| `StartUpgrade`, `Plan`, `SaveWasm`, `TakeBackup` | `cmd_upgrade_apply` up to the second snapshot |
| `CheckGuard`, `Prepare` | `ensure_upgrade_guard_unchanged`, the prepared manifest |
| `Submit`, `Confirm`, `CheckInfo` | `submit_program_update`, `wait_for_transaction`, `wait_for_program_info` |
| `RecordApplied`, `SaveMetadata`, `RecordComplete` | the manifests after the update, `save_database_metadata` |
| `WriteSmoke`, `RecordSmoke` | the write smoke, and the manifest rewritten after it |
| `StartRollback`, `Review`, `Recheck` | `cmd_upgrade_rollback`, `submit_rollback_if_unchanged` |
| `End` | the command returns, fails, is declined or is killed, at any step |
| `ApplyUpdate`, `DropUpdate`, `Write` | the chain and the other clients (external) |

`Confirm` needs no executed update: a transaction that is only "accepted" ends
the wait, and without a transaction hash there is no wait at all.
One counter, `writes`, stands for generation and owner sequence.
Engines of earlier releases report the owner sequence in `storage_info`, in
`auth_info` or nowhere (`OldSequenceIn`). `paused`, chosen once, says whether
other clients stop writing while a command runs, which the repository's
`README.md` asks of the operator. A smoke write that arrives after its command
has ended is not told apart from the write of another client.

### How Script corresponds to the code

`input` is a command with the statements, or the rows, its scripts or CSV files
were written from; the command gets them as one text each (`TextOf`, `CsvOf`) and
has to find them again. What the planner makes of a statement, executed, skipped
(the `BEGIN` and `COMMIT` of a dump) or refused, is read off its text. `plans`
holds what planning yields for each script, a function of its text alone;
`batches` is the plan so far, `at` the batch that is executed, `part` the number
of scripts planned (the initializers of `new` are planned one after the other).
The write smoke of `verify` is three statements, each a write of its own. `Other`
is a writer of another process that uses the same wallet.

| Action | Code |
|---|---|
| `Plan`, `Refuse` | `plan_sql_script`, `planned_statements`, `script_batches`; for a CSV file the grouping inside `import_csv_with_ou` |
| `RefuseBatch`, `ExecBatch` | `ensure_exec_payload_size`; the write, with or without wait |
| `NextBatch`, `OwnerUnverified` | the loop of `execute_sql_script_*`; a failing `auth_info` after the first batch of a bootstrap |
| `InsertFails` | `run_verify_write_smoke` goes on to its cleanup |
| `Stop`, `Complete` | the error with its batch and statements; the summary |

A `check` plans its script and stops (`cmd_check`).

Texts. A text is a sequence of words and marks; blanks are left out, and each word
and mark counts as one byte. `Read` is one step of a reader that knows whether it
is in a quote, a bracket or a comment. The code has two such readers of the same
rules, and the module has `Read` for both:

| Operator | Code (`src/cli/portability.rs`) |
|---|---|
| `SplitSql` | `split_sql_statements` |
| `Tokens`, `CreatesTrigger`, `TriggerEnds` | `scan_sql_tokens` and the questions the splitter asks of a trigger |
| `IsWrapper`, `IsTransactionControl` | `should_skip_import_wrapper`, `ensure_supported_restore_statement` |
| `ParseCsv`, `InsertOf` | `parse_csv_records`; the statement `import_csv_with_ou` makes of a row |

The readers differ in one point. `scan_sql_tokens` looks for the end of a block
comment from its opening `/*` on, so it takes `/*/` for a whole comment, which
neither the splitter nor SQLite does. A trigger whose body holds such a comment
may be joined with the statements that follow it, and one that follows such a
comment may be cut inside its body. `AsSql` has this difference (its
parameter `splitting`); the texts of the run hold no such comment, and of
those triggers `StatementsInOrder` is false.

### How Workspace corresponds to the code

`config` is the file as `load_config` reads it, `wallets` the wallet files,
`program` what a Circle runs. Every command is a process `p` with `copy[p]`, the
config it has loaded and changed; it writes the whole copy back. `overlap[p]` is
history: the file has been replaced since `p` loaded it. The Circle that `p`
creates and the key it stores are both called `p`.

| Action | Code |
|---|---|
| `SetDatabase`, `SetDefault`, `RemoveDatabase` | `cmd_database` |
| `StartSetup`, `FinishSetup`, `AttachWallet`, `StartImport` | `cmd_setup`, `configure_setup_wallet`, `prompt_wallet_onboarding`, `cmd_wallet_attach`, `cmd_wallet_import` |
| `CreateWallet`, `FillWallet`, `ReplaceWallet` | `write_new` in its two steps; `atomic_replace` with `--force` |
| `StartNew`, `SubmitDeploy`, `ConfirmDeploy`, `SaveName`, `FinishNew` | `cmd_new`, `create_circle`, `save_new_database_name` |
| `StartDeploy`, `SubmitUpdate`, `ConfirmUpdate`, `SaveMetadata` | `cmd_deploy`, `save_database_metadata` |
| `ResolveBootstrap`, `WriteFirst` | `resolve_bootstrap_owner_mode` and the first batch of the restore it allows |
| `WriteTemporary`, `Rename` | `write_config` through `atomic_replace` |
| `Stop` | the process is killed, at any step |
| `ExecuteDeploy`, `ExecuteUpdate` | the chain (external) |

A program is `personalized` or `raw`: whether it asks for the owner's key. An
`upgrade` appears only by the metadata it saves; the rest is module `Upgrade`.

### How Query corresponds to the code

`input` is the command with its text, flags, wallet and target mode; `todo` the
views still to ask for, `ask` the one asked, `attempt` the attempts of the
present request. `version` and `program` are the Circle, which other clients
change between any two steps. `served` is history, `readiness` the report.

| Action | Code |
|---|---|
| `OpenSession`, `ReadText` | `build_session_for_target`; the head of `run_one_sql_to` |
| `AskNext`, `Receive`, `Retry`, `GiveUp` | `view_with`, `program_info_with`, `HttpTransport::call` |
| `Served`, `RunQuery`, `Refusals` | `octra_view`, `run_sqlite_query_typed`, `respond_typed_result` |
| `ShowRows`, `Exec` | the rest of `run_one_sql_to`, `run_exec_sql_to` |
| `Judge`, `Verify`, `Record`, `Conclude` | `check_live_target`, `verify` and `verify_json`, `new_readiness_json`, `finish_with_ready` |

A result is the lengths of its pieces, so that the output buffer, the size of
the encoded text and the row limit can each be the one that is met. Several
limits may be exceeded at once; which one the code reports first is left open.
Statements are tokens: a text is a sequence of statements, semicolons and
comments. `select 1;;` is taken for a script although the Circle would accept it
as a query; `SubmitsOnlyWrites` says exactly which texts are. Dot commands enter
as parsed. Left out: the size check of the text before it is sent, the local
checks of status (config, wallet, bundled files), and the one more query of
verify without `--json`.

## 3. Runs

| Run | Instance | What it shows |
|---|---|---|
| `page_vfs_owner` | owner key, all faults; 2 pages, generations 1 and 2, sequences up to 2 | `TypeOK`, `IInv`, `CommittedReadable`, `NoKeyBeyondNextGeneration`, `RepliesAreTrue`, `PromotionsAdvance`, `ImplementsAtomicDatabase` |
| `page_vfs_reset` | no owner key, all faults, resets; the file may shrink, one dirty page, flush limit below the VFS limit | `ImplementsAtomicDatabase` |
| `page_vfs_orphans` | owner key, refused puts | `SteadyStateBounded` is violated (section 5) |
| `backup_owner` | owner key, no faults; chunks of one page of two, 2 attempts, views between puts | `BackupTypeOK`, `BackupIsOneFile`, `BackupEnds`, and of the storage `NothingButLive` |
| `backup_aba` | no owner key, resets, views between calls only | `BackupIsOneFile` is violated (section 5) |
| `owner_write_calls` | 2 calls, nonces up to 3, 2 polls; drops, skipped nonces, replays, and a host that keeps the puts of a trapped call | `WriteInv`, `AppliedOnce`, `OkIsApplied`, `ImplementsAtMostOnce`, `CallsReturn` |
| `script` | up to 3 batches and one other writer, nonces up to 4, 1 poll; drops and skipped nonces, a chain that runs an intent once; and 2800 texts that are planned only | `ScriptTypeOK`, `ScriptInv`, `FailedIsNotApplied`, `AppliedIsPrefix`, `SmokeCleansUp`, `StatementsInOrder`, `RefusedForAStatement`, `ScriptEnds` |
| `workspace` | 3 commands, 2 names, 2 wallet paths, a protected and an unprotected Circle; 50 choices of commands | `WorkspaceInv`, `LostOnlyByOverlap`, `KeysAreKept`, `ProtectionIsKept`, `CommandsEnd` |
| `query` | 8 texts, all commands, 3 versions, 2 attempts | `QueryInv`, `AnswerIsWhole`, `SubmitsOnlyWrites`, `ReadyIsTrue`, `QueryEnds` |
| `query_verify` | the same | `VerifyExpectsBundled` is violated (section 5) |
| `upgrade` | 3 commands, 1 write, the old engine reports its sequence in `auth_info` | `TypeOK`, `IInv`, `RecoverableUpdate`, `BackupIsCurrent`, `PausedRollbackIsClean` |
| `upgrade_smoke` | 2 commands, 2 writes | `SmokeNeedsForce` is violated (section 5) |

### Bounds

*Page store.* Two pages tell a rewritten page from an untouched one, and a grown
file from the old one. Storage of every format and two commits give manifests
that mix a migrated page, pages of generation 1 and pages of generation 2. With
two generations a failed flush is followed by a successful one under the same
generation and by another one after it. Two page contents distinguish
the zero page from data. The last generation and the last sequence are reached
in every run, so the refusal at the end of the counters is exercised.

`page_vfs_reset` turns auto-vacuum on although the program does not: it is the
only way for the file to become smaller, and the code has a branch for it. With
auto-vacuum a shrink of a v1 file leaves the cut pages' keys behind (their old
and new generation are both 0, so `gc_replaced_pages` sees no difference), so
`NothingButLive` is checked without it, in `backup_owner`, where the page store runs
beside a backup. `NothingButLive` also needs a host without faults; what faults leave
behind is bounded by `NoKeyBeyondNextGeneration`. What a reset leaves is checked
through the refinement.

*Backup.* Two chunks are the least that can come from two files, and two
attempts the least that tell a retry from the end. No faults: a fault only makes
an update stop early, and `BackupSound` covers it.

*Owner writes.* Two calls can sign the same nonce and two consecutive ones; in
`script` up to four calls do. Two polls tell
the error of the last poll from an earlier one. `MaxNonce` bounds the nonces that
are signed.

*Scripts.* With a target of 14 bytes and a limit of 24, the scripts of `MCScript`
that are executed hold a batch that is closed just below the target, a statement
that reaches it alone, one at the limit, one beyond it, one whose semicolon and
newline count, and, for CSV files, a row that is fit while its batch is not. Three
batches are a first, a middle and a last one. The texts that are only planned pair
two statements: each is put together from two of twelve pieces, which hold every
kind of quote and comment with a semicolon, a doubled closing mark or another
opening mark in it, or is a trigger with a `case ... end` and with comments and
quotes at the places where its end is looked for; the second one may lack its
semicolon. `FailedIsNotApplied` needs a chain that runs an
intent once, so `script` has no replays; on every chain the prefix property
rests on the theorem.

*Workspace.* Three commands give every overlap of two and a third that sets the
name they are about. The choices pair the commands that choose a wallet or a name
with commands that store or remove one, and every deployment with a bootstrap, an
upgrade, a removal and a deployment that may run a raw program.

*Query.* `OutBytes` = 21 and `TextBytes` = 26 leave room for 15 bytes and cut
results of one, two and three pieces; the work budget grants two callbacks, and
the statement `work` takes the steps just below, at and above it on three
versions. Two attempts are a first and a last one.

*Upgrade.* Three commands are an upgrade that stopped, a second command that its
late update interferes with, and a rollback of either. One write is enough for
every invariant here (each compares a state with the same state one write
later); the finding needs a second one for the smoke. `CHECK_DEADLOCK FALSE` in
the runs of `OwnerWrite`, `Script`, `Workspace` and `Upgrade`: when all calls
have returned, or the commands and writes of the bounds are used up, nothing is
left to do.

### Fairness

`PageVfs` and `Upgrade` have none, and no liveness property: the host may stop
any call, the operator and the chain need not do anything.

`BackupSpec` has weak fairness of the client's next step: every view is
answered and the client asks the next one. Errors (`BackupFails`) may come
at any time and are not relied upon. Updates have
no fairness; the backup has to end however many commits it meets.

`FairSpec` of `OwnerWrite` has weak fairness of each call's own steps: the
client process runs, and a request ends with an answer or with the timeout of
the transport. The chain has none: a call has to return also if its transaction
is never executed.

`ScriptSpec` has weak fairness of the command's step, `Spec` of `Query` of the
client's, `Spec` of `Workspace` of each command's: the process runs, a prompt is
answered, a request ends with an answer, an error or the timeout of the
transport, and every wait in the code is bounded. In `Workspace` a command may
still be stopped at any point. Commits, program updates and the chain have no
fairness: every command has to end whatever they do.

## 4. Proofs

Every theorem holds for all values of the constants that satisfy the assumptions
stated in the modules (sizes are positive, marker values are not data).

### Page store

`PageVfs_proofs`, for every number of pages, generations, sequences and
page contents, either mode and every set of faults:

* `InvariantHolds`: `Spec => []IInv`
* `TypeCorrect`, `CommittedAlwaysReadable`, `NeverBeyondNextGeneration`
* `RepliesAlwaysTrue`, `PromotionsAlwaysAdvance`: the two action properties

`CommittedReadable` alone is not inductive: the metadata put may
commit a manifest only because of what the earlier steps of the flush have
established, and garbage collection may delete only because of what the new
manifest says. `IInv` records this: a call works on the storage it loaded
(`LoadedIsCurrent`), a flush has a generation left (`GenerationLeft`), the pages
already visited are stored under the next generation (`PutSoFar`), the manifest
is stored before the metadata (`ManifestBeforeMeta`), and during garbage
collection the metadata and manifest are the new ones and every page still to be
deleted differs in generation from the one they name (`Promoted`). `GensLoaded`
makes a put to the next generation harmless to committed pages. `PendingFresh`
and `OwnerHasNoReset` carry the sequence argument.

`PageVfsRefinement_proofs` proves `Refinement`, `Spec =>
ImplementsAtomicDatabase`: under the mapping of `PageVfsRefinement` the initial
states are initial, and every step is a step of `AtomicDatabase` or a stutter.
The metadata put is the commit; puts before it and deletes after it are
stutters. Besides `IInv` the argument needs that a call starts from an empty
buffer (`FreshCall`), that SQLite has written every page it grew the file by
(`HolesFilled`), and that only a reset leaves the file torn (`OnlyResetTears`);
together they are `RefInv`.

`NothingLeftBehind` (in `PageVfs_proofs`): `NothingButLive` with `Faults = {}` and
`~AutoVacuum`. Both hypotheses are needed: a put or delete that fails leaves a
version that no later collection visits, and a file that shrinks leaves the pages
beyond its end (the run `page_vfs_orphans` is about the first). The invariant
`StorageAccounted` gives every stored version a reason to be there in the middle of
a call, too: the metadata names it, the flush has put it for the next manifest, or
the collection or the reset in progress has yet to reach it (`VersionsAccounted`,
`ManifestsAccounted`).

### Backup

`Backup_proofs` proves `BackupSound`: with an owner key (`ASSUME Configured`) a
backup that succeeds is the file that was committed when it began, for every
chunk size, number of attempts and set of faults, with views between puts.
It rests on the refinement: the committed file changes only together with the
metadata. The invariant says that while the pinned generation is current its
file is the snapshot, that afterwards the generation is past it for good
(`PromotionsAdvance`), and that what is copied is a prefix of the snapshot.
Without an owner key it is false (`backup_aba`).
`BackupTyped` is `BackupTypeOK` (it needs `TriesLeft`: what bounds the attempts is
where an attempt is given up). `NothingLeftBehindDuringBackup` carries
`NothingLeftBehind` over, since a backup only reads.

### Owner writes

`OwnerWrite_proofs` proves for any set of calls, nonces and polls:

* `AlwaysWriteInv`: the inductive invariant
* `WriteTyped`, `NoSequenceTwice` and `OkMeansApplied`, on every chain and host
* `FailedMeansNotApplied`, under `RunOnce`: the chain runs an intent once, and
  the host undoes a call that traps
* `AtMostOnceImplemented`: `Spec => ImplementsAtMostOnce`. A step of a call stutters or
  tells the caller (`CallStepTells`), a step of the chain stutters or commits
  (`ChainStepCommits`), and a caller that takes a call up again was told nothing for good
  (`CallerStepStutters`). `FailureIsFinal` of `AtMostOnce` is `RunOnce`, so the
  refinement holds on every chain and host and promises more where `RunOnce` holds.
  The run `owner_write_calls` checks it where it does not; that a failure is final is
  checked by `FailedIsNotApplied` in the run `script`. By `ScriptImplementsOwnerWrite`
  it holds for the batches of a script too.

`RunOnce` is needed. The sequence of an intent that failed is not used up, so
running it again may commit it after its failure was reported; and a call whose
fuel ends during garbage collection has put its metadata already, so on a host
that keeps those puts a failure receipt stands for applied SQL.
The invariant says that the owner sequence is the watermark of what was applied
(`BelowWatermark`), receipts are those of executed transactions, results those
of receipts (`ResultsFromReceipts`).

### Upgrade

`Upgrade_proofs` proves for any number of commands and writes and each
`OldSequenceIn`:

* `InvariantHolds`, `TypeCorrect`
* `AlwaysRecoverable`, `BackupAlwaysCurrent`
* `PausedRollbackClean`: the action property

`IInv` lists what each step may rely on: the order in which the bundle is
written (`BundleSoFar`), that everything read lies in the past (`ReadBefore`),
that the backup lies between two snapshots that were found equal
(`BackupBetween`), and that a rollback goes on from the state its bundle names
(`Reviewed`). `Paused` carries `PausedRollbackIsClean`: while writers pause, the
counter cannot move under a command, so for every recorded bundle either the
program it names was installed at or after its counters were read, or another
program runs. An unforced rollback has found the counters equal and the program
live, so nothing was written since that program was installed.

The property is about the moment of submission. A rollback that the chain
applies later may meet writes made in between; the repository's `README.md` names this
race and asks for a pause, which outlasts the command then.

### Scripts

`Script_proofs`, for any inputs, limits and chain:

* `ScriptInvHolds`: the inductive invariant
* `ScriptImplementsOwnerWrite`: a script is a behaviour of `OwnerWrite`, so
  `NoSequenceTwice`, `OkMeansApplied` and `FailedMeansNotApplied` hold of it
* `AppliedAlwaysPrefix`: a command that waits leaves a prefix of its batches
  applied, in order
* `SmokeAlwaysCleansUp` and `NoTableAfterCleanup`: a write smoke that has created its
  table returns from trying to drop it, and once that is confirmed the table is gone
* `StatementsAlwaysInOrder`, `AlwaysRefusedForAStatement`, `ScriptTyped`: for a CSV
  file, and for a script that is read back from its text (`ReadsBack`), the plan holds
  the statements given, the statements applied are a prefix of them, and a refusal
  comes before any signature
* `SplitReadsBack`, `CompleteReadsBack`, `CsvReadsBack`: a script of complete
  statements is cut into exactly these; a CSV file is read as the rows it was written
  from

`ScriptInv` adds to `WriteInv` that the batches before the one at hand have
returned and those after it have not begun (`BatchBefore`, `BatchAfter`), and
that an applied batch comes after every one that had returned Ok
(`AppliedAfterOk`): a batch signs a sequence above the watermark it finds, and
one that returned Ok has moved the watermark. Without it a late or repeated
transaction could come in between.

`StatementsInOrder` says what batching computes for every script, and the order in
which batches run. The first part is `PlanIsGood`: the plan of a script, a
CSV file or the write smoke holds a prefix of what is given, all of it when the plan
is whole, and no batch beyond the limit when no statement is. It is proved by
induction over the items of a script. The induction principles of the library are not
within the provers' reach, but induction over a given set of numbers is
(`SetInduction`): it follows from the well-foundedness of finite sets, without an
operator as parameter. On it rest `RecursiveFunction` (a recursive function is what
its equations say), `SequenceInduction`, and the lemmas about `FlattenSeq`
(`FlattenAppend`, `FlattenConcat`, `FlattenPrefix`), `BatchesUpTo` and `Label`.
The second part is `PlanInv`: what is applied is what the batches up to the one at
hand contain, that one included once it is applied (`AppliedUpToHere`).

`ReadsBack` says that the splitter finds again the statements a script was written
from. `SplitReadsBack` takes it down to the single statement: if each, read by itself,
is cut at its last character only (`IsComplete`: the first semicolon outside quotes and
comments that ends no part of a trigger), and the last one there or nowhere
(`IsUnended`), the script is cut into exactly these. The proof follows
the reader: what it makes of a character depends on that one, the next one and the
mode, so within a text a statement is read as it is read alone (`ReadAlone`,
`StatementIsRead`). A semicolon at its end, and the line end after it, leave the reader
where it began (`StatementIsCut`); a statement that nothing ends is what is left over,
without the line end (`UnendedIsKept`). `CompleteReadsBack` puts this together for the
scripts of a command. What is left as a hypothesis is false of the triggers described
in section 2. For CSV files there is no hypothesis: `CsvReadsBack`
follows the reader through a plain field, a quoted one with its doubled quotes, a row
and a file (`Leads`). The write smoke has no text to read.
`Characters` is the set of words and marks a text is
made of; the assumption says that the marks the readers look for are among them, that
the target of a batch lies below the limit, and that the three statements of
the write smoke are below it.

### Workspace

`Workspace_proofs`, for any number of commands, names, Circles and wallet files:

* `WorkspaceInvHolds`: the inductive invariant
* `LostOnlyByOverlapHolds`, `KeysAlwaysKept`, `ProtectionAlwaysKept`: the action
  properties

What is wanted of the file (`DefaultIsSaved`, `WalletIsThere`, `NamesExist`) is
asked of every copy too, since any copy may become the file; it lasts because a
Circle that exists and a whole wallet file stay (`SoundStays`). `FillsItsOwn` says
that two commands never fill the same wallet file. For the unasked first write of
a restore the invariant adds where metadata comes from (`MetadataIsEarned`), and
what an update that is still to be executed was told and had learnt
(`UpdatesAsLearnt`): a personalized program stays so unless
`--allow-unconfigured` was given. Most steps only move a command on with a
sound copy; `QuietStep` covers them.

`LostOnlyByOverlap` needs `OwnCopies`: without an overlap the copy of a command is
the file, until it differs from it by the entries the command is about, and the
name of a `new` is still free.

### Reading

`Query_proofs`, for any statements, versions, limits and inputs:

* `QueryInvHolds`: the inductive invariant
* `AnswersAreWhole`, `OnlyWritesAreSubmitted`, `ReadinessIsTrue`

The invariant keeps for a request that is under way the version at which it was
first sent (`AnswerIsOfAVersion`): an answer that comes after a retry is of some
version since. `MayStillSubmit` says that a command that may reach `exec` has not
submitted, `RecordIsTrue` that what is recorded was served and what is not is
still to come.

### Only model-checked

* `BackupEnds`, `CallsReturn`, `ScriptEnds`, `CommandsEnd`, `QueryEnds`: liveness.
* The violations of section 5. Each needs a particular instance to exhibit.

## 5. Findings

Each is a statement of the repository that a run refutes.

`page_vfs_orphans`. `docs/storage-model.md` (Write Path) says that steady-state
storage stays bounded to one live value per page plus one manifest. The code
reaches another state: a flush puts page 2 of generation N+1, the next put is
refused, the call fails and keeps what it has put; the next exec, again of
generation N+1, commits without writing page 2. The page version stays: garbage
collection looks only at versions the manifest named. It is harmless to readers
(`CommittedReadable`, `ImplementsAtomicDatabase`) and lies under the next
generation only when it is made (`NoKeyBeyondNextGeneration`), but nothing
deletes it unless a later flush of the same generation overwrites the key. The
divergence exists only if the host keeps the puts of a failed call.

`backup_aba`. `CHANGELOG.md` says that backup chunks are pinned to a generation,
so that backups fail if storage changes mid-stream. The program compares nothing
but the number. A program without an owner key can be reset, a reset deletes the
metadata, and the next flush takes generation 1 again: a backup that pinned
generation 1 goes on with the chunks of the other file. With an owner key there
is no reset, and `BackupSound` holds.

`upgrade_smoke`. The repository's `README.md`, the prompt of the command and `CHANGELOG.md`
say that a write smoke makes the rollback require `--force-after-writes`.
`cmd_upgrade_apply` reads the state after the smoke and rewrites the manifest
with those counters as the ones to compare with; `cmd_upgrade_rollback` finds
them equal, never looks at `rollback.clean`, and needs neither the flag nor the
forced backup.

`query_verify`. The help of `verify --expected-hash` (`src/cli/mod.rs`:485) says
that the hash defaults to that of the bundled release. `verify_json` does so;
`verify` without `--json` and `.verify` compare the hash only where one is
given, and succeed on a program of an earlier release. `ReadyIsTrue` says what
verify does show.

## 6. Not modelled

| Part | Why |
|---|---|
| SQLite, TweetNaCl | third party; SQLite appears as page writes and truncations, signatures as always valid |
| OSR1, OSW1, base58, JSON bodies as bytes | pure encodings; the limits on their sizes are in `Query` |
| The untyped query and the text of schema results | the same statements under the same limits, formatted otherwise |
| Parameter framing of `octra_update` and `octra_view` | decides between an error and a call that is modelled |
| Errors of host reads | the host's get is taken to work; `load_meta` marks the metadata as loaded before it is read (`octra_sqlite_circle.c`:810) |
| The work budget of an exec | decides only whether a statement fails, which is left open anyway; that of a query is in `Query` |
| Blanks and `\r` in scripts and CSV files, a CSV quote that is never closed, the `skip` of `.import` | they decide where a word ends and whether a row is left out, or end the command before anything is planned |
| How an upgrade finds the replaced program in the chain's history, dry runs, the forced backup of a rollback | they decide only whether the command goes on, which is left open |
| Programs of third parties in `Upgrade` | in `Query` and `Workspace` only |
| Name resolution by environment and flags, key derivation, raw calls | functions of their inputs without shared state |
| Which errors are retried, traces of requests | `Retry` may take any error; traces are output |
| The receipt command, the shell's loop, the catalog, printing | no state of their own; a repeated wait is `Follow` of `OwnerWrite` |
| Build and release scripts | not part of the running system |

## 7. Plan

In this order:

1. `Upgrade` with the sources a replaced program is recovered from, the forced
   backup of a rollback, and programs of third parties.
2. `OwnerWrite` over `AtomicDatabase`, so that one behaviour reaches from the
   signed intent to the committed file; host read errors in `PageVfs`.
3. Which errors of the transport are retried, with their delays.

Theorems wanted beside those: `Backup` implementing a read of the whole file in one
step, over `AtomicDatabase`; `Query` implementing one read of one version.
