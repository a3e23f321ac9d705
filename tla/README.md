# A verification project for hybridencrypt

TLA+ models of `src/spy/`, the Python package behind `spy-cli` and `spy-gui`: a
hybrid file-encryption tool with user accounts, classified containers, a key
registry and a hash-chained audit log. The modules are checked with TLC on small
instances, and what matters most is proved with TLAPS for instances of any size.
Paths and line numbers refer to `src/`.

The first half of this document describes the system and what can go wrong in it;
the second half the modules, the runs, the proofs, and what they leave out.

## 1. The system

The program has no threads. What makes it concurrent is that any number of
single-threaded processes (command lines, a GUI, library callers) work on the same
files: the user store, the key directory, the audit log and the workspace. Only the
user store has a lock. Everything else relies on `os.replace` and on the order in
which files are written.

| Part | State | Operations | Works with |
|---|---|---|---|
| User store, `auth.py`, `user_model.py` | `users.json` under an HMAC; `users.lock`; the `User` object of a session | authenticate, create, reset, enable, disable, delete, change role or clearance, list | audit log |
| Audit log, `audit_logger.py` | `audit.log` and its backups; each process's stream | log_event, rotation, recovery of a damaged tail, check_chain, read, export | everyone logs through it |
| Key registry and rotation, `key_registry.py`, `rsa_engine.py`, `ecc_engine.py`, `setup_keys.py` | `key_registry.json`; private, public and fingerprint file of each key; the registry object in memory | load, register, set_status, save; rotate encryption and signing keys; setup | audit log, command line |
| Key provider, `key_provider.py` | a registry snapshot | active keys, keys by id, status and fingerprint checks | engines |
| File engine, `file_crypto_engine.py` | containers, decrypted outputs, temporary files | encrypt, decrypt, rewrap | provider, containers, policy, authorization, audit log |
| Containers, `container_writer.py`, `container_reader.py`, `crypto_container.py` | an open file | write header, chunks and trailer; verify header and body; decrypt chunks | file engine |
| Signatures, `signature_engine.py` | `.sig` files | sign, verify (of the command line and of the window) | provider, audit log |
| Policy and authorization, `policy_engine.py`, `governance_rules.py`, `auth_engine.py` | none | choose a method, classify, authorize | engines, pipeline |
| Governance pipeline, `governance_pipeline.py`, `agents/` | its provider's registry snapshot | run a request through policy, authorization and engine | all of the above |
| Text encryption, `hybrid_engine.py`, `crypto_engine.py` | none | encrypt and decrypt a string | pipeline |
| Clients, `cli.py`, `gui.py`, `dashboard.py`, `demo.py` | the logged-in `User` | commands | all of the above |
| Workspace, `workspace.py` | none | resolve and refuse paths | clients, file engine |

What makes each part correct, and what is hard about it:

- **User store.** Login verifies a password with Argon2 *outside* the lock, against
  a record that may change meanwhile; it compares the record again under the lock
  and starts over if it changed. It must not admit on a stale verdict, must not lose
  a failed attempt, and must end. Administrators act on one another from sessions
  that outlive their accounts; one of them must remain.
- **Audit log.** Reading the last hash and appending are separate steps; processes
  write through streams opened before somebody else rotated the file; Python's
  `logging` swallows write errors and keeps the entry in a buffer. The chain must
  verify, removals must show, and what was reported as logged must be there.
- **Keys.** A rotation writes three files and then a registry it loaded earlier. It
  can fail or die in between, and two can run at once. Whatever was encrypted must
  remain readable, and there must always be a key to encrypt with.
- **File engine.** An encryption truncates and writes its output in place, while
  others may be verifying, decrypting or rewrapping it. Only authentic and complete
  plaintext may be released, to somebody cleared for it, and no document may be lost.
- **Signatures.** A document is hashed while others may edit it, its `.sig` file is
  truncated and then written, and the signing key may be rotated between any two
  steps of making and of checking a signature. No genuine signature may raise an
  alarm, and what a command answers must be what the log says.
- **Policy, pipeline.** The decision must follow the role, the clearance and the
  class in the signed header. A pipeline works on a copy of the registry that may be
  older than a rotation, and takes a package in parts that need not belong together;
  every request must be accounted for.

`PROJECT.json` lists each of these hazards at its line, with the properties that
would notice it going wrong. A few have none, because the code does go wrong there and
a property can only except it; their notes say so, and section 5 describes them.

## 2. The modules

| Module | Models | Extends or instantiates |
|---|---|---|
| `Accounts` | account records, lockout arithmetic, guards of the administrative operations; no state | |
| `AccountStore` | what `auth.py` promises: every login and operation is one step | `Accounts` |
| `UserStore` | `auth.py` with its lock, snapshots, retries, failures and crashes | `Accounts`; `AccountStore` as `Promise` |
| `UserStoreProofs` | its proofs | `UserStore` |
| `AuditTrail` | what `audit_logger.py` promises to readers: one trail that grows at its end | |
| `AuditLog` | `log_event` of `audit_logger.py` and the `logging` handler under it | `AuditTrail` as `Readable` |
| `AuditLogProofs` | its proofs | `AuditLog` |
| `AuditReport` | `verify_chain`, file by file, while the log is written | `AuditLog` |
| `AuditReportProofs` | its proofs | `AuditReport`, `AuditLogProofs` |
| `Keys` | key ids, the life of a key, what rotation does to a registry object; no state | |
| `KeyDirectory` | what the key directory promises to readers: a rotation is one step | `Keys` |
| `KeyRotation` | registry, rotation, setup, and what encryption asks of the provider | `Keys`; `KeyDirectory` as `Directory` |
| `KeyRotationProofs` | its proofs | `KeyRotation` |
| `Access` | `auth_engine.py`, classification, no write-down; no state | |
| `FileCrypto` | `file_crypto_engine.py` with container writer and reader | `Access` |
| `FileCryptoProofs` | its proofs | `FileCrypto` |
| `FileOperationProofs` | proofs about its audit events, and about one writer | `FileCryptoProofs` |
| `Container` | the header of a container byte by byte, versions 1 to 4; no state | |
| `ContainerProofs` | its proofs | `Container` |
| `Signatures` | sign and verify of `cli.py` and `gui.py`, `signature_engine.py`, signing keys | `KeyDirectory`, `Access` |
| `Policy` | `policy_engine.py` and `governance_rules.py`; no state | |
| `Pipeline` | `governance_pipeline.py`, its agents, encryption of text | `KeyDirectory`, `Access`, `Policy` |
| `Artifacts` | signers, agents and rotations on one key directory | `KeyDirectory`; `Signatures` as `S`, `Pipeline` as `P` |
| `ArtifactsProofs` | its proofs | `Artifacts` |
| `MC...` | constants of the instances TLC checks | the module of that name |

An action is one step between two points where another process can act on shared files
and where that can matter: mostly from one system call on a shared file to the next,
sometimes, as in the renames of `doRollover`, a few of them (section 6 lists those).
Failures are constants (`Faults`), so that a run says which of them it allows. A line of
an operator marked `Bug:` is a plausible mistake that is *not* in the code; it is used
to test that a property notices it, never by a specification.

### UserStore

`store` is `users.json` (a function from names to records, or `NoStore`), `lock` the
holder of the `flock`, `session[p]` the `User` object of process `p`. An operation
goes through `pc[p]`: `snapshot` and `verify` (login, without the lock), `wait`,
`load` and `apply` (the body of `_store_transaction`), `deny`. `Acquire`, `Load` and
the commits are separate actions, so that other processes act between them, and
`StoreFailure` and `Crash` end an operation at any of them. Loading and saving are
atomic because the code reads whole files and saves with `os.replace`. Argon2 is a
pair of password and salt: two hashes of one password differ, as the snapshot
comparison needs. A record may lack the lockout fields, or have half of them, as
`_lockout_state` expects.

`AccountStore` says the same without lock, retries or failures: a login reads and
clears the lockout of an account *as it is then*, an administrative operation is one
step by somebody who is an active admin *then*. `Atomic` says that `UserStore`
implements it under the identity mapping of `store`, `session` and `clock`.

### AuditLog, AuditTrail, AuditReport

`content` holds every file ever created and `names` those that still have a name, the
last being the log; `stream[p]` is the file a process has open, whatever its name has
become. A line is an entry with its own hash and the previous one. A hash is a number
used once: it covers a timestamp and the previous hash. `log_event` is `ReadTail`, then,
if the file has room (`Fits`), `Emit`, or else `ReadForRotation`, `RemoveOldest` if all
backups are taken, `Rollover`, `WriteSentinel`, `WriteRechained`; where it returns, its
local variables are gone (`Leave`). The handler of the library asks for the size again
before it writes; if another process has filled the file in between (`Outgrown`), it
rotates it by itself, without a sentinel (`RolloverUnmarked`). Removing the oldest
backup and renaming the others are two steps; the renames are one. The `logging` module
is not part of `src/`; its operators (`Put`, `Flushed`, `ShouldRollover`, ...) are
marked external in the map and model what `StreamHandler` and `RotatingFileHandler` do
with a stream: flushing on seek, keeping unwritten bytes in a buffer, reporting failed
writes on stderr. `acked` is a history variable: the events whose `log_event` returned.

`AuditTrail` is the log as a reader sees it: one sequence of entries. A step adds an
entry at the end, tied to the one before it unless it openly starts again, or drops a
part at the beginning. `OneTrail` says that `AuditLog` with one process implements
it, with `trail <- Trail`, the concatenation of the files that can be found by name.
Steps between two appends, such as the rename, map to stutters.

`AuditReport` adds a reader to `AuditLog`. `verify_chain` looks for each file by name
(`Look`, one step a name), then reads the first entry of a file (`ReadFirst`) and all
of it (`ReadFile`), again by name, so that a rotation can come between any two of
these. A file that is gone by then is an error. `report.rotated` and `report.asked`
are history: whether a rotation was under way at any time (`UnderWay`), and what had
been acknowledged when the verification began.

### Keys, KeyDirectory, KeyRotation

`KeyRotation`: `registry` is the file, `mem[p]` a process's object, loaded when the
command starts and saved at the end of each method's rotation. A failing save ends that
method's rotation and the command goes on with the next (`SaveFails`), unless it is the
temporary file that cannot be made, which ends the command (`SaveAborts`). The three
files of a key hold the number of the key pair they belong to, or are missing or torn. A
container is the ids in its header with the material that really sealed it, so that
`Verifies` and `Unwraps` can say whether it still opens.

`KeyDirectory` says the same without files, memory or failures: a rotation puts new
keys in force and demotes the ones they replace, in one step. `RotationsAtomic` says
that `KeyRotation` with one rotating process implements it, with its failures and
crashes. The modules of those who use keys are built on `KeyDirectory`, so that they
need not know how a rotation works.

### FileCrypto

`path[c]` names the container in the directory of class `c`, `file` has the contents of
every file ever made, `fd[p]` is the file a process has open. Overwriting changes a file
under those who read it; `os.replace` gives the name another file. A container is
`header, chunk 1 .. n, trailer`, written one piece at a time with `Put` at the writer's
own offset, so that two writers of one file can mix and leave holes. The reader looks
whether the file begins like a container, opens it once more by name (`OpenInput`,
`OpenOldContainer`), verifies the whole of it and then reads it *again* to decrypt. That
last gap is what `PublishedAuthentic` is about. Signatures and authenticated encryption
are what they promise: a trailer verifies only over the body it was made for, and a
chunk decrypts only under its own data key at its own index. `tmp[p]` is the temporary
file of a decryption or a rewrap; `events[p]` are the audit events of the current call,
each of which may be lost by an `AuditLogError` (`Kept`).

### Container

`Region` is what `build_signed_region` writes and `Parsed` what
`read_and_verify_header` makes of the bytes in a file, version by version: which
fields there are, their length prefixes of one or two bytes, their limits. `AtNonce`,
`AtKeyId` and the rest are what is left of the file when the reader gets there. The
module has no state and no run; its theorems are about byte sequences of any length,
which no run could enumerate.

### Signatures, Pipeline, Policy, Artifacts

`Signatures`: `doc` is the document, chunk by chunk the number of the edit that wrote
it, and `sig` its `.sig` file, which may be cut short, of format 1 or of format 2. A
signature carries its history: the key pair that made it, the text it was made for, and
how many edits there had been (`Genuine` compares that with the edits there are now). An
answer says whether the signature it is about was genuine, of which format, and whether
the document could be read to its end. A command hashes chunk by chunk, truncates,
writes, and records its event; each is a step, and each may fail or be the last
(`SignFaults`); a command killed between its event and its answer has left the event
(`Interrupted`). The window goes through the same steps with its own guards and without
events, and writes the id without version (`IdWritten`).

`Pipeline`: a package is the key it is wrapped with; a decryption is asked for with
method, key, wrapped key, sender, associated data and message, each from any package
(`Request`). `provider[p]` is the registry copy a pipeline was made with. A call
computes its outcome (`Encrypt`, `Decrypt`), keeps it in `call[p]`, then writes its
event and returns (`LogCall`), unless it is killed in between (`Killed`). `Policy` has
the scoring of methods, with the weights of `policy_engine.py`.

`Artifacts` composes both with `KeyDirectory`: its only step of its own is a rotation,
and every other step is one of `Signatures` or of `Pipeline` and leaves the registry
alone. `site` says who is present, so that a run can have signers or agents in one
specification without multiplying their states.

## 3. What TLC checks

| Run | Instance | Shows |
|---|---|---|
| `UserStoreAdmins` | 2 processes, 2 names, 1 password, 3 hashes (two bootstraps can race); bootstrap, login and every administrative operation except reset; from no store, two admins, or two admins one of them disabled | `LockInv`, `NoLostUpdate`, `ActiveAdminRemains`, `OnlyCurrentAdminMutates`, `Atomic` |
| `UserStoreLogins` | 2 processes, 2 names, 2 passwords; login, reset, disable; a clock of two instants; lockout after 2 failures, counter capped at 3; an account from before the lockout fields and one with half of them, which a reset makes whole; an account whose counter is at the cap | `IInv`, `LoginSound`, `LoginWritesOnlyLockout`, `FailuresCounted`, `Atomic` |
| `UserStoreLive` | 2 processes, 1 name, under fairness | `LockReleased`, `OperationsReturn` |
| `AuditKill` | 1 process, killed anywhere; 8 events, 2 lines to a file, 2 backups; 1 verification | `TypeOK`, `ChainSound`, `RemovalDetected`, `OneTrail`, `AlarmOnlyIfRotated`, `ReportComplete`, `HistoryLossReported` |
| `AuditTwo` | 2 processes, 4 events, 2 lines to a file, 1 backup; writes that fail or are cut short during the first two events | `NothingForgotten`, `NoDanglingLink` |
| `KeysOne` | 1 process that sets up and rotates both methods, 1 that encrypts; crashes, failures of save and audit; 4 key pairs | `ContainersOpen`, `RotationsAtomic`, `FilesPermanent` |
| `KeysTwo` | 2 rotating processes, both methods, every fault; 3 key pairs | `OneActive`, `EncKeysWhole`, `IInv` |
| `Files` | 1 process that encrypts and rewraps, 1 that decrypts, on behalf of a high admin and a low analyst; documents of 1 and 2 chunks, 2 encryptions, 2 keys, every fault | `TypeOK`, `PublishedAuthentic`, `TemporaryAuthentic`, `Accounted`, `SealedBeforeDeleted`, `RewrapKeepsDocument` |
| `Artifacts` | rotations of both methods up to 2 keys of a type; beside them either a command and a window that sign with RSA and verify a document of 2 chunks that is edited once, or an agent that encrypts and one that decrypts, 2 packages, 5 callers, 3 contexts; kills, I/O errors, lost audit entries | `TypeOK`, `NoFalseAlarm`, `SignaturesResolve`, `SignaturesAccounted`, `PackagesOpen`, `DecryptExact`, `CallsAccounted` |

Three more runs show a place where the code does not do what it says. Their
properties are *expected* to fail, and `PROJECT.json` quotes the line in question:

- `GuiSignature`: ids without version are said to stand for version 1, "because before
  versioned signing there was exactly one key per type". The window still writes them,
  for signatures of whatever key is active; after a rotation, its own signature of an
  unchanged document is invalid. `NoFalseAlarm` leaves that case out, and three more: a
  read error, which is reported as an invalid signature, and signatures of format 1,
  which the command line does not take, and which the window checks with the active
  key, whatever key made them (section 5, *Alarms*, *Old formats*). It says that there
  is no other.
- `KeysLost`: rotation is said not to break existing artifacts; the later of two
  rotations saves a registry that does not know the earlier one's key.
- `FilesCleanup`: a failing encryption is said to clean up *its* partial output, and
  removes whatever has that name. Of two encryptions of one file with
  `delete_original`, the second finds the file gone and removes the first's
  finished container.

**Why these bounds.** Interference in this code is between two parties: the one that
read and the one that wrote in between. Two processes give every such pair, and a third
would only repeat it; the proofs cover the rest. Two names give a caller and a target, a
last admin and a second to last. Two hashes are the old and the new password, two
instants are locked and unlocked, a threshold of two and a cap of three reach the second
lockout; that the cap is not passed shows in the store that begins there. Three hashes
let two processes bootstrap at once. A file of two lines holds the sentinel of a
rotation and the entry that set it off, so that the next event rotates again: eight
events fill, rotate and prune two backups, with restarts in between, and four do so with
one backup and two writers. `AuditTwo` leaves out what comes after a line that is
garbled for good (`Legible`; its properties say nothing then) and writes that fail after
the second event (`EarlyFailures`; a buffer filled later meets the same steps). Three
and four key pairs allow a key to be replaced and its successor replaced. In
`Artifacts`, two keys of a type are the one that signed or sealed and the one that
replaced it; version 1 is also the one that ids without version mean. One edit of a
document of two chunks can fall before, between and after the chunks that are hashed.
Two packages are what it takes to mix the parts of two. Signers and agents share nothing
but the registry, which neither writes; hence one or the other at a time. An RSA and an
ECC signing key differ in nothing the model has, so that one method signs. Two
encryptions are what it takes to overwrite, and a document of two chunks has a chunk
that is not the last. Two rewraps in a row need three keys and are covered by the proofs
only. `MaxClock`, `MaxSalt`, `MaxEvents`, `MaxReports`, `MaxKeys`, `MaxDeks`, `MaxEdits`
and `MaxPackages` bound what would grow for ever; `MaxRetries` is 2 instead of 3. The
bounds are guards of the actions that would exceed them.

**Deadlock** is not checked: every process may be idle with its bounds used up, and
nothing obliges a user to start an operation.

**Fairness** is only assumed in `UserStoreLive` (`FairSpec`). A process that is
running an operation goes on (`WF` on `Work`: the code has no other waits), and a
process that waits for the lock gets it eventually (`SF` on `Acquire`: the code calls
a blocking `flock`, and the kernel hands a free lock to a waiter; that it never
passes one over for ever is an assumption about the kernel). Starting operations,
failing, crashing and the passing of time are not fair.

**Mutants.** For every property of a run that should hold, `PROJECT.json` names a
`Bug:` operator that breaks it: a guard dropped, an order swapped, a reset forgotten.

## 4. What is proved

All theorems hold for every value of the constants that meets the assumptions
(`AccountsAssumption`, `UserStoreAssumption`, `AuditLogAssumption`,
`NoLineAssumption`, `KeyRotationAssumption`, `AccessAssumption`,
`FileCryptoAssumption`, `ArtifactsAssumption` with those of `Signatures` and
`Pipeline`): any number of processes, names, keys, events, documents, packages, any
lockout schedule, any size and number of log files and, except where a theorem about
the audit log says otherwise, any mix of faults. The assumptions say little more
than which sets the constants are members of, that a threshold, a schedule and a
document are not empty, and that a store found at the start has an active admin.
`Container` and `Policy` assume nothing, and no proof needs `AuditReportAssumption`.

Some properties hold for one writing process only, because the code has no lock there;
`KeysLost` and `FilesCleanup` show what two can do. Their theorems say so in a
hypothesis (`OneRotator`, `OneWriter`), and leave the number of processes that encrypt
with the keys, or decrypt the files, open.

**UserStoreProofs.** `Invariance` proves `IInv`, `AnAdminRemains` and `Serialized` the
safety parts of it, `WellTyped` and `Excluded` its typing and its mutual exclusion.
`ActiveAdminRemains` is not inductive alone. An administrative
commit checks the *copy* loaded under the lock, so one needs that the copy is the
store (`NoLostUpdate`), hence that only the holder of the lock is inside
(`LockInv`); a demotion counts on the caller being another active admin
(`OthersInv`: the target is not the caller, who stays logged in). A login acts on a
verdict it reached earlier, on a snapshot: `VerdictInv` says that the snapshot was
active and not locked, which time cannot undo. From `IInv` follow four properties of
steps: `AdminsOnly`, `Logins`, `FailuresAreCounted` and `LoginsWriteLockout`: what a
login writes is the lockout of the account it names, which is active and not locked out
when it is written.

`Implementation` proves `Spec => Atomic`: every behaviour of `UserStore` is one of
`AccountStore`. The initial states agree; a commit that saves is the abstract
operation (`LoginRefines`, `FailedLoginRefines`, `AdminRefines`, by `IInv`, since
the copy is the store and an unchanged snapshot makes the old verdict a current
one); a crash is the end of a session; every other step leaves `store`, `session` and
`clock` alone (`QuietSteps`).

**AuditLogProofs.** Theorems about logs of any length, each under the faults its
property can stand, which are its hypotheses.

- `TypeCorrect`, any processes and any faults. The sentinel and the re-chained entry
  need a file that is open (`Open`), which a rollover sees to.
- `LinksKept`, any processes, no line cut short: `NoDanglingLink`. Its invariant
  `LinkInv` says of every place a line can be, in a file (`FilesSound`), in a buffer
  (`BufSound`), about to be formatted (`LocalSound`), that its predecessor is in some
  file. Hashes read by `log_event` remain those of a written line, because lines are
  never removed from the files ever made, only the names of files are.
- `EventsKept`, any processes, no line cut short, and no process both fails to write
  and is killed: `NothingForgotten`. A write that fails leaves its line in the buffer,
  and a buffer with a line in it is written before another is accepted. With a kill the
  buffer goes; hence the hypothesis. (With lines cut short, the last disjunct of the
  property is needed, which is model-checked.)
- `OneChain` and `RemovalShown`, one process that can be killed at any step: `ChainSound`
  and `RemovalDetected`. Their invariant `ChainInv` adds that the files ever made are one
  sequence of linked lines in which only the newest can be empty (`ChainLines`), that
  the names are those of the newest files (`NamesInv`), that no hash occurs twice
  (`HashesUnique`), and that what the process is about to write continues the log
  (`PlaceInv`). Then a removed entry leaves a successor whose predecessor is missing,
  in its own file or as the first of the next file with content.
- `TrailIsOne`, the same process: it implements `AuditTrail` (`OneTrail`). To `ChainInv`
  comes that the file before the log has a name as long as there is one (`TrailInv`),
  so that an empty log does not hide the end of the trail (`TrailEnd`). An append
  makes the concatenation of the files one entry longer (`FlattenAppend`), which is `Add`;
  removing the oldest backup (`FlattenRest`) is `Prune`; a rollover adds an empty file
  (`FlattenEmpty`), a stutter. The recursive function behind the concatenation
  is unfolded by a least counterexample (`UpTo`), since the induction theorems of the
  library cannot be used.

**AuditReportProofs.** `verify_chain` looks for the files and reads them, by name, at
different times, while one process logs and is killed. `NoAlarm`, `OkIsComplete` and
`LossIsReported` prove `AlarmOnlyIfRotated`, `ReportComplete` and `HistoryLossReported`.
`ReportInv` is `TrailInv` with what the reader knows, as long as nobody has rotated
(`Reading`): which names it has found (all of them, but for a log that was empty), where
the next file must join the chain (`PlaceInChain`), what of the files it is past has
been verified (`Verified`), and that a chain not reported as truncated begins at GENESIS
(`BeginningInv`). These are statements about a reader and a sequence of files, so that
each step of the reader is a lemma without the log (`LookReading`, `FirstReading`,
`FileReading`). What the log adds is that without a rotation the files only grow at the
end of the last (`LogStepGrows`), by lines whose hash is new (`AckedInFile`), and that
this disturbs none of it (`GrowReading`): an entry that arrives after the file was read
is none of those asked for.

**KeyRotationProofs.** `OneKey` says that no interleaving leaves a registry `load`
refuses, `KeysWhole` that a registered encryption key has its three files, from one key
pair, also after crashes and torn writes. The invariant adds what makes this inductive:
an id drawn at random is known to nobody (`FreshInv`), the files of a key being written
belong to one process and to no registry (`WritingInv`), and what any registry knows, on
disk or in memory, is whole (`KnownWhole`). `KeysTyped` is its typing part.

Signing keys are named by a version, which a process takes from its own object, so
that the rest needs one rotating process (`OneRotator`). `OneInv` says that its object is
never behind the file: what the file knows, the object knows; that the files of
every key known to either, signing keys included, are sound; that the key it is
writing is known to neither; and that each container was sealed with the pair its
key files still hold. `SealedOpens` (`ContainersOpen`) and `RegisteredStays`
(`FilesPermanent`) follow. `RotationsAreAtomic` proves that this process, with its files,
its failed saves and its crashes, implements `KeyDirectory`. The difficulty is a save
that failed: the object is ahead of the file, and the next save publishes all
of it at once. `AheadInv` says what the object is then: the file plus keys of its own,
at most one of a type, each in force and its predecessor demoted, and none of a type
still to be done. The last part needs that a command names a type once
(`TypesOnce`), as each command of `setup_keys.py` and `cli.py` does.

**FileCryptoProofs.** `Published` and `Temporary` say that decryption releases, and
writes to its temporary file, only a document sealed at that class (or the beginning
of one), for a caller cleared for it, whatever other processes do to the container
in between. The invariant has two parts. `FilesGood`: every piece in every file tells
the truth about the data key it names. It holds although files are mixed, torn and
copied, because encryption makes pieces and rewrap only copies them. `ProcInv`: what
a process has read and has in its hands stays so. Then the verification before the
decryption turns out not to matter for authenticity: the header in memory names a
data key, the chunks decrypt only under that key and in order, and the last one says
that it is the last. `FilesTyped` is the typing part.

**FileOperationProofs.** `OperationsAccounted` proves `Accounted`: an operation that
returns has logged one success for its caller and nothing else, and an encryption or
decryption that raises has logged none, whatever else fails and whichever events are
lost. The invariant (`EventsInv`) is added to that of the containers: an operation has
logged nothing before its last step, except that a rewrap has logged its success when it
comes to `os.replace`.

With one process that encrypts and rewraps (`OneWriter`), `SealedFirst` proves
`SealedBeforeDeleted`, and `RewrapsKeep` proves `RewrapKeepsDocument`. `OneInv` says that
every file is then the beginning of *one* container (`FileShaped`), which no two
writers have mixed, and that the writer has open the file its name leads to, written
exactly as far as its place in the operation says (`WriterInv`). An original is
deleted after the trailer, when that beginning is the whole.

**ContainerProofs.** `RoundTrip`: every header the writer accepts, within the reader's
limits, is read back as it was, whatever follows it in the file. `OneHeader`: no two
headers have the same signed region, nor is one region the beginning of another, so
that the signature over it vouches for one header. `VerifiedIsRead`: of any file that
parses, whoever made it, the region that the reader builds again from what it parsed,
and over which it verifies the signature, is what is in the file. The proofs go field
by field. One lemma says what a field with its length prefix reads as at the start of
whatever follows it, another that writing again what was read gives the bytes read;
the fields are put together by the associativity of `\o`.

**ArtifactsProofs.** Two invariants over one fact, that a rotation demotes keys and
never removes one (`PublishKeeps`). `PipelineInv`: every package is wrapped with a key
the registry knows; a pipeline's copy is a registry there once was, so that its keys are
known still (`GoodCopy`); and a call whose outcome is computed is sound already
(`GoodCall`), since its event is written in a later step, when the registry may have
moved on. `PackagesStayOpen`, `DecryptsExactly` and `CallsStayAccounted` follow.
`SignInv` says of every whole signature, in the `.sig` file or in the hands of a process
making or checking one, which key pair made it and that the text in it is one the
document had (`KeySound`, `TextSound`), and of every process what it has done by its
place in the operation (`GoodJob`). Between hashing and the answer the document may be
edited, the `.sig` file truncated and the key rotated; what an answer says (`Truthful`)
is therefore about the edits there had been, not the ones there are. `NeverFalseAlarm`,
`SignaturesAlwaysResolve` and `SignaturesStayAccounted` follow, and `ArtifactsTyped`
from both.

`SelectionMonotone`, about `Policy`: a signal that asks for smaller keys (a mobile or
embedded device, a narrower band, more need for speed, no legacy peer) never turns the
choice of ECC into RSA, whatever the other signals are, and the level of compliance
does not matter. The weights of the scores are what could break this.

**Only model-checked.** The liveness properties: liveness under fairness and `ENABLED` are
out of the prover's reach, as are the induction theorems of the library. And the audit
log with lines cut short: `LinksKept` and `EventsKept` exclude them.

## 5. Observations

Things met while modelling, beyond the three runs above. Some are disagreements with
a comment, some only worth knowing. No run checks them.

Accounts:

- *Reused names.* `_require_current_admin` looks an account up by name
  (`auth.py:157`), so that the session of a deleted admin is accepted again once the
  name is given to a new admin; the comment at `auth.py:143-145` says deleted admins
  can no longer mutate the store.
- *Sessions are snapshots.* The engines go by the `User` object of the login; a
  demotion shows there at the next login. The interactive menu calls the file engine
  on behalf of no user (`cli.py:532-533`).
- *Clock.* Lockouts are compared with the wall clock: setting it back lengthens them.

Audit log:

- *Swallowed writes.* `log_event` returns normally when the handler could not write,
  since `logging` reports that on stderr; the class comment (`audit_logger.py:556-558`)
  says it fails closed. What is left is `NothingForgotten`: the entry is in the buffer.
  A failure of the sentinel raises, but an `OSError` (`audit_logger.py:534`), where
  callers expect `AuditLogError`.
- *Forked chain.* Two processes that read the same last hash both append. Nothing
  dangles (`NoDanglingLink`), but `check_chain` fails from then on; `ChainSound` is
  checked and proved for one process. If one of them has
  part of a line in its buffer, the line can be garbled for good.
- *Rotated away.* A process that keeps its stream while another rotates goes on
  writing to the backup.
- *Rotated without a sentinel.* If another process fills the log between the two checks
  of its size, the library's handler rotates it, and the entry that set off the
  rotation becomes the first of the new file. It follows the last hash its process
  read.
- *Verification and rotation.* `verify_chain` during somebody else's rotation can
  report a broken chain, or skip a file and report success: hence the conditions of
  `AlarmOnlyIfRotated` and `ReportComplete`. The command line prints the former at its
  start, the window refuses to start, `export_logs` refuses to export.
- *Epochs.* A kill between rename and sentinel leaves an empty log, and the next
  entry starts at GENESIS. `check_chain` accepts that as it accepts a quarantine, so
  that `RemovalDetected` speaks of logs without such epochs. Once what came before an
  epoch has been pruned, the report shows neither an epoch nor truncated history
  (`HistoryLossReported` excepts this), though a restart "cannot pass unnoticed"
  (`audit_logger.py:248`).
- *Recovery.* After a line cut short the recovery entry is appended to that line and
  is unreadable with it. When the recovery entry is what sets off the rotation, it is
  hashed again by the handler, while `_write_recovery_event` returns the first hash
  (`audit_logger.py:494-503`): the event that follows points to no entry, although
  re-chaining is there to prevent a fork. No property covers the first, since
  `AuditTwo` stops at a garbled line, nor the second, which `NoDanglingLink` excepts.
- *A corrupt tail is a failed chain.* `verify_chain` fails on a line that does not
  parse. The start of the command line then prints "*** AUDIT CHAIN VERIFICATION FAILED
  ***", which "is NOT the same as a corrupt tail entry" (`cli.py:1402-1405`), and its
  branch for that case (`cli.py:1422-1427`) is not reached, though the comment above
  says the two must not share a message. The window does not start and no log is
  exported, though `audit-repair` says "operations are not blocked" (`cli.py:865`).
  When there is nothing corrupt it says "chain is intact" (`cli.py:855`), having looked
  at the lines of the active file only, and not at their links.
- *Exports.* `export_logs` verifies all files and copies the active one.

Keys and signatures:

- *Signing files.* Versions of signing keys come from the registry in memory, so two
  rotations at once write the same files, and a registered key may end up with files of
  two pairs.
- *Half-done rotation.* A rotation whose save or audit fails is reported as failed. In
  the second case it is in force without an event; in the first, the registry object
  keeps the new key and the next method's save puts it in force.
- *Old formats.* A `.sig` file of format 1 is refused by the command line and verified
  with the active key by the window, and containers of versions 1 and 2 with the active
  signing key (`file_crypto_engine.py:779`): both fail after a rotation. Containers of
  version 1 cannot be decrypted, and rewrapping keeps them so.
- *Interrupted signing.* A signing that dies after truncating the `.sig` file leaves it
  cut short; an earlier signature in it is gone.
- *Hashing while edited.* A signature made during edits is of a mix of chunks that the
  document may never have been.
- *Alarms.* An I/O error while hashing is reported, and logged, as an invalid signature.
- *The window* signs and verifies without an event, and refuses only auditors, where the
  command line wants an admin.

Pipeline:

- *Events.* The comment at the top of `governance_pipeline.py` has actions KEY_ACCESS and
  POLICY_DECISION and records "all outcomes"; the code logs ACCESS_DENIED for those, and
  nothing for callers who are not authenticated, not admins, or give no key id.
- *Old pipelines.* A pipeline made before a rotation goes on wrapping with the demoted
  key. Its packages open (`PackagesOpen`).
- *Classification.* What a decryption is authorized for is the level its caller names;
  a package has none.
- *Key sizes.* `encrypt_hybrid` passes only the sender's key to `enforce_all`
  (`hybrid_engine.py:65`), so that the size of an RSA key is checked at decryption only.

Files:

- *Rewrap against overwrite.* A rewrap that began before an encryption overwrote the
  container ends by putting the old document back. If that encryption then deletes
  its original, the new document is gone. Hence the condition on
  `SealedBeforeDeleted`.
- *Two events for one denial.* A denied decryption logs "denied" for the user, then
  "error" for the system (`file_crypto_engine.py:418-433` and the handler at 455),
  where `CHANGELOG.md:111-113` speaks of exactly one event, always attributed to the
  user.
- *Rewrap's event.* It is written before `os.replace` (`file_crypto_engine.py:716`,
  `727`), which may fail; other I/O errors are not logged at all. Line 543 speaks of
  exactly one event per attempt.
- *Decryption's event.* It is written after the plaintext is in place; if it fails,
  the operation does, and the plaintext stays.
- *Temporary files.* A killed decryption leaves its temporary plaintext.
- *Two decryptions* without overwrite can both find the output free, and both publish.
- *Limits.* The writer accepts chunks of up to 64 MiB, key ids and public keys of up to
  65535 bytes; the reader accepts 2 MiB, 256 and 200 bytes. `WithinLimits` in
  `RoundTrip` is this difference; the ids and keys the package makes are far below.

## 6. What is not modelled, and the plan

Cryptography and parsing of JSON are assumed, here and later: a signature verifies or
not. So is the file system below `os.replace`: no reordering of writes after a power
failure. The input document of an encryption is assumed not to change between sealing
and deletion. Time does not go backwards.

Steps that are coarser than the system calls, and what they hide:

- The renames and the opening of the new file in `doRollover` are one step (`Rename`). A
  kill between two renames leaves a gap among the names, which `_discover_log_files`
  passes over and the next rotation fills, and two processes that rotate at once can mix
  their renames. Neither is modelled. A reader that comes in between is excused like one
  that sees the whole rotation (`UnderWay`).
- Looking whether a name is taken and starting an operation on it are one step where
  nothing was read yet (`StartEncrypt`, `StartDecrypt`, `StartRewrap`).
- Loading and saving the user store and the registry are one step each: they are read in
  one go and replaced with `os.replace`.

Some properties hold for, and are checked with, one writing process only:
`ChainSound`, `RemovalDetected`, `OneTrail` and the properties of `AuditReport` (one
process logs); `ContainersOpen`, `RotationsAtomic`, `FilesPermanent` (one rotates);
`SealedBeforeDeleted`, `RewrapKeepsDocument` (one encrypts and rewraps). What several
writers do there is in section 5 and in the runs `KeysLost` and `FilesCleanup`.

Not modelled, and not planned:

- The workspace's path checks, argument parsing, printing, widgets, dashboard, demo,
  benchmarks: no state that anybody shares.
- The JSON container and the SENV envelope of `crypto_container.py`, and `save_keys` and
  its variants: only tests and benchmarks call them.
- `scan_audit_chain`, `read_logs`, `export_logs`: readers of one pass over one file.
- The bytes of chunks and trailer: each is a length and a tag, checked by the
  authenticated encryption that `FileCrypto` assumes.

Plan, the most important first:

1. `AuditLog` with lines cut short: `NothingForgotten` and `NoDanglingLink` for every
   mix of faults, with an invariant that says where the rest of each torn line is.
2. `FileCrypto`: rewrap to another output, containers of older versions.
