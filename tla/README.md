# canvas-fuse: a verification development

TLA+ models of `canvas-fuse`, the FUSE client of a Canvas hub, checked with TLC
and, where it says so, proved with TLAPS for every value of the constants. Two
halves: the **mirror**, the engine that keeps a Home folder on this device in
step with the hub, offline included, which is where the program can lose a
user's bytes; and the **live views**, the mounts that show a server's contexts
and workspaces and write through to it.

Paths below are relative to the repository. Line numbers of every definition are in
`PROJECT.json` under `map`.

## 1. Inventory

| part | code | state | operations |
|---|---|---|---|
| three-way decision | `src/mirror/reconcile.rs` | none | `decide(L, B, R)` |
| ledger and job queue | `src/mirror/store.rs` | entries, base ledger, conflicts, trash, jobs, meta, cursor, directories, blocked actions (redb, one transaction per call) | put/remove/rekey, enqueue with dedupe, update, remove_jobs_for |
| local folder | `src/mirror/local.rs` | the backing files, `.part` files, trash, conflict snapshots | stat, hash, snapshot, fetch-and-land, trash, rename |
| engine | `src/mirror/sync.rs` | `Runtime` (skipped, recheck, protected jobs), open writes, `directory_epoch`, the `directory_moves` lock | session handlers, scan, change feed, listing, jobs, housekeeping |
| hub client | `src/mirror/hub.rs` | none | conditional PUT/DELETE, rename, list, changes, HEAD, GET, retries |
| recovery, protected mode | `recovery.rs`, `protection.rs` | blocked actions | operator-driven push and pull |
| directory moves | `sync.rs`, `store.rs` | a `RenameDir` job with inode and receipt id | intent, rename(2), bulk re-key, hub rename |
| watcher | `watch.rs` | watch table, own moves, pending paths | inotify to paths, overflow to rescan |
| identity | `identity.rs` | marker in the folder, claim, database binding | prepare, commit, verify |
| control socket, startup | `control.rs`, `startup.rs` | none that survives | CLI requests, progress lines |
| view tree, names | `src/state.rs`, `names.rs` | inodes, nodes, tombstones, persistent names | refresh diff, adopt, rename |
| write path | `src/writes.rs` | open handles, overlay of pending creates | open, create, write, flush, release, unlink, rename |
| FUSE operations | `src/fsimpl.rs` | none of its own | kernel requests to the above |
| blob cache | `src/blobs.rs` | LRU cache, in-flight table | read, fetch, evict |
| refresh worker | `src/worker.rs` | job channel | debounce, fetch, apply under the refresh lock |
| nudge thread | `src/nudge.rs` | poke channel | touch, real unlink of tombstones, marker files |
| event subscription | `src/events.rs` | client, confirmed channels | connect, subscribe, confirm, reconnect |
| REST client, rendering, daemon files, configuration | `api.rs`, `render.rs`, `runtime.rs`, `config.rs`, `main.rs`, … | none that outlives a call | pure I/O and formatting |

**How the parts meet.** Kernel requests come in on the FUSE session thread and
reach the write path, which calls the engine's session handlers. Those take the
`directory_moves` lock, change the folder and the ledger, and queue jobs. The
engine thread runs cycles: local events, jobs, listing or change feed, deferred
keys, jobs. It takes the same lock for every local decision and gives it up
before it reads a file or talks to the hub. The hub is shared with other
devices. The refresh worker, the event thread, the fetch pool and the nudge
thread serve the live (not mirrored) views.

**What is hard.** A session operation between any two steps of the engine; a
peer's write between any two requests; a crash between any two durable writes;
a request or reply lost, or a 5xx after the effect; a rename while a request of
either name is out; a queue that outlives the intents it was made for. The list
with its lines is under `hazards` in `PROJECT.json`.

**What makes each part correct.** Mirror: no save lost, no unseen version
overwritten, nothing trashed that nobody deleted, and everything in step in the
end. Decision: preconditions name what the hub holds; deletes touch only agreed
bytes. Queue: a job never overtakes an earlier one on a shared key. Directory
moves: exactly once, on the same inode. Write path: no deadlock, a flush error
keeps the data. View tree: a refresh never removes what a write just made.
Blob cache: every read answered once. Subscription: a channel the server did
not confirm is asked for again. Identity: a crash never binds a foreign folder.

## 2. Modules

| module | what it is |
|---|---|
| `Reconcile` | `decide()` as an operator, any digests |
| `Ledger` | a device's durable state as one record; every store operation and every handler shared by session and engine as the sequence of devices its writes pass through |
| `MirrorSync` | the engine, the session, the hub, the peers, crashes; the properties |
| `MCMirrorSync` | the instance for TLC (key symmetry) |
| `MirrorSyncProofs` | what the decision table promises for all digests; that each sequence of `Ledger` stays inside the versions the device already knows; the theorems about `MirrorSync`: types, versions, no blind overwrite |
| `MirrorSaveProofs` | the theorems about `MirrorSync`: no save is lost or taken for synced |
| `ProtectedSync` | extends `MirrorSync`: the guards of a protected mount, recovery push and pull, the remount |
| `ProtectedSyncProofs` | the theorems about `ProtectedSync`: types, what protection holds still |
| `ProtectedSaveProofs` | the theorems about `ProtectedSync`: recoveries and the remount lose no save |
| `DirMove` | directory moves: folder, ledger, queue and hub with jobs of the same names in every order |
| `MoveRelay` | what a directory move promises; `DirMove` implements it |
| `MoveRelayProofs` | theorems about `MoveRelay` |
| `DirMoveProofs` | theorems about `DirMove`: types, and that it implements `MoveRelay` |
| `ViewTree` | the in-memory tree of a live mount: nodes, names, tombstones, the naming of documents |
| `ContextView` | extends `ViewTree`: a mount of contexts with its session, worker, nudge and event threads and the server |
| `WorkspaceView` | extends `ViewTree`: a mount of a workspace, its trees of folders and its trash |
| `ContextViewProofs` | the theorems about `ContextView`: a save reported as done is stored; the tables of the tree agree |
| `MCWorkspaceView` | the folders of the TLC instance |
| `WorkspaceViewProofs` | the theorem about `WorkspaceView`: no operation loses a document |

### The mirror: state

`dev` is what a crash leaves: `file` (the folder), `entry`, `base`, `pending`
(`upload-pending:<key>`), `conflict`, `trash`, `snaps` (`conflicts/<sha>`),
`jobs`. `mem` is what it takes: `open` (`open_writes`), `unflushed`
(`OpenWrite.dirty`), `recheck`, `skipped`, `listing`, and `eng`, the engine thread's place and
local variables. `hub` is its objects and the keys with a change the cursor has
not passed. `ghost` is history that no action reads.

A version is the bytes of one save and all that identifies them (digest, size,
mtime, fingerprint). `None` is "no bytes"; `Unhashed` is the empty digest that
`commit_local_file` leaves for the engine to fill in, which the code does
compare with other digests.

### The mirror: actions

One action is what a thread does **while it holds `directory_moves`**; each
place where the code lets it go is a boundary (`eng.pc`). So `pull_key` is
`PullStart`, `PullGet`, `PullLand`; `run_push` is `StartPush`, `PushSend`,
`HubPut`, `PushReply`; `run_conflict` is five steps, two of which the code takes
without any lock. A handler that makes several durable writes is a sequence of
devices, and `Commit` lets a crash leave any prefix of it.

Abstractions, and why they lose nothing the properties tell apart:

- Job priority, backoff and the drain budget: any job with no earlier job on a
  shared key and no open handle may run next. The code picks one of those.
- A job's `after` holds the earlier jobs it shares a key with: all that the drain
  loop reads of the order.
- The feed is a set: the engine asks the hub for each key anyway
  (`apply_change`). A crash or an error fetches the page again (`feed' = Keys`).
- A listing is one page. `NextListed` takes its keys in any order.
- `ScanKey` may come at any time the engine is free: an inotify event, the hourly
  scan, `sync now`. Its two locks (before and after hashing) are one step: if
  anything moved in between the code leaves the key for the next scan.
  `RecordConflict` is one step for the same reason.
- The conflict upload (inbox, or a copy under a name that no other key
  collides with) is outside `Keys`: an uploaded record is an absent one.
- A trash record and its bytes are one value.
- A crash is the end of the process, not a power loss: what was renamed or
  committed stays.

### Protected mounts and recovery (`ProtectedSync`)

Device, session, engine and hub are `MirrorSync`'s. `Choose` and `Continue` are
its cycle with what `protect_job`, `reconcile_key`, `pull_key` and `run_push`
refuse taken out: a blocked job is one that is never selected, a blocked action
a step that leaves what it found (the audit it writes is read by nobody). `rec`
is a recovery: one file after the other, each from the stamp (`Take`) over the
HEAD or GET (`RecHead`, `RecGet`) and the PUT (`RecPut`) to the check and the
ledger writes under the lock (`RecCommit`, `RecLand`). `cycle_gate` keeps the
engine's cycle out; users and peers go on. `Resume` is the remount without the
option: memory is gone, the startup scan comes first.

Abstractions: the HEAD and the check after it are one step (what changes between
them is found again at the commit); a pull walks the listing in any order; an
unreachable hub ends the recovery, a 5xx after the effect sends the PUT again;
`upload_snapshot` is the stamp. The dry run, ignored files, symlinks and
directories are left out.

### Directory moves (`DirMove`, `MoveRelay`)

One file per directory, flat names: what a move re-keys, and which jobs overlap
it, does not depend on how many files there are. `disk` is the folder, `store`
the ledger by key, `jobs` the queue, `eng` the engine's request,
`session` the handler that holds `directory_moves`: `Intend` (the durable
`RenameDir`), `Syscall` or `SyscallFails`, `Commit` (the one transaction of
`apply_directory_rename`). `Crash` leaves folder, ledger, queue and hub;
`Restart` is the startup scan and `recover_directory_moves`. `Start`, `HubAnswers`,
`Lost` and `Reply` are one job each way; `RecoverJob` is `recover_jobs`, which queues
again what a dirty file or a tombstone has no job for. `Refused` is `reconcile_key` in one
step, and the engine asks the hub nothing on its own (no listing, no peers):
`MirrorSync` has those.

The queue is a set of jobs with a number each, as in the store's table. The store
draws the numbers from one counter; here a job is numbered behind those it shares a name
with, which is all the drain loop and the re-key read of the order, and keeps apart no
two states that behave alike.

`MoveRelay` is the promise: the device hands its moves to the hub in a set
`queue`; the hub performs each once, and those that share a name in the device's
order, into `done`. `DirMove` maps `queue` to the unperformed `RenameDir` jobs
that are to reach the hub, `done` to the hub's log of renames, and `lapsed` to
the one case in which the code forgets a move (section 5); the refinement is the
property `MovesAreRelayed`.

### Live views (`ViewTree`, `ContextView`, `WorkspaceView`)

`view` is `Tree` of `state.rs` with its tables (`ctx_inos`, `doc_inos` and the
sticky names; or the trees, `path_inos` and `file_docs`), `open` is
`WriteStore.states` with the overlay of pending creates, `fs` the handler the
session thread is in while it asks the server, `work` the refresh worker's
place. `ContextView` adds the nudge thread's queue and batch, the event socket
and the worker's job queue.

The worker holds the `sync` mutex from the fetch of a listing to its
application; a handler that asks the server holds it for the whole of its
requests. So a request at the server, what the mount makes of the answer, a
fetch and its application are each a step; whoever does not take the mutex (the
collection of a tombstone, `apply_contexts`, opens and writes) and other clients
come in between. One file operation of a workspace is up to three requests
(link, name, unfile; or replace, refile, supersede), and the tables change after
the last.

Abstractions: an inode is taken from a pool instead of counted, since only
identity matters; a name is a base with or without an id suffix; a document's
content is a number. The bootstrap refresh before the mount is part of `Init`.
A resync fires when the worker is idle (one that fires earlier is drained as if
it had), acknowledgement and subscription are one step, the server's refusal of
a new document stands for the end of the pool of documents. In `WorkspaceView`
the refresh takes the trees in one fixed order (their names differ), a rename's
target is a plain name, documents and folders never share a name, and others
leave alone what is filed nowhere. Metadata files, `.by-schema` and a live
mount's Home folder are left out.

## 3. What is checked

| run | instance | shows |
|---|---|---|
| `MirrorOneKey` | 1 key, 3 saves, edits around the mount, 1 fault | `TypeOK`, `NoSaveLost`, `SavesAreTracked`, `TrashOnlyRemoved`, `NoBlindOverwrite` (3.0 M states) |
| `MirrorTwoKeys` | 2 keys, 2 saves, 1 rename | `NoSaveLost`, `SavesAreTracked`, `HubKeepsSynced` (3.9 M states, key symmetry) |
| `MirrorConverges` | 1 key, 2 saves, 1 fault, fair | `KnownVersions`, `Converges` |
| `ProtectedSync` | 2 keys, one of them synced, 2 user or peer operations, 1 rename, 1 fault | `ProtectedTypeOK`, `NoSaveLost`, `SavesAreTracked`, `FolderHeld`, `HubHeld`, `UnionReached`, `UnionSurvives`, `NothingElseTrashed` (2.2 M states) |
| `DirMove` | 3 names, 2 moves, 1 save, 2 removals, 1 fault, fair | `LedgerMatchesFolder`, `SyncedIsCarried`, `QueueEmptyMeansSame`, `MovesAreRelayed`, `Drains` (1.7 M states) |
| `ContextView` | 1 context, 3 documents, 2 names, 2 events, 1 retried save, fair | `TreeConsistent`, `SavesAreStored`, `RefreshKeepsCurrent`, `ViewConverges`, `EventuallySubscribed` (0.4 M states) |
| `WorkspaceView` | 4 folders of a directory tree, a context tree, the trash, 2 documents, 2 operations, 1 change by others or failure, fair | `PathsIndexed`, `MovesKeepDocuments`, `WorkspaceConverges` (0.35 M states) |
| `ConflictWindow`, `AdoptedTombstone`, `DroppedRename`, `CrashedPull`, `ResumeKeepsUnion` | smallest instance that reaches each | the findings of section 5 |

**Mirror.** `NoSaveLost` — until the hub has a save, the folder, the trash or a
conflict snapshot does, through every race, refusal and crash. `SavesAreTracked`
— a save the hub does not have is never taken for synced. `TrashOnlyRemoved` —
only bytes a peer removed go to the trash. `NoBlindOverwrite` — the mirror
replaces on the hub only what its folder has held. `HubKeepsSynced` — a stale
delete or rename never removes what the ledger holds as synced. `KnownVersions`
— peers' versions enter the ledger by a download only. `Converges` — when the
users stop, the folder and the hub become equal and the queue empties.

**Protected.** `FolderHeld`, `HubHeld` — while the mount is protected nothing
but its users replaces or removes a file, and nothing but a recovery push, which
replaces only what its HEAD showed, an object of the hub. `UnionReached` — a
push and then a pull, undisturbed, leave the same files on both sides and a
ledger that says so. `UnionSurvives` — after the remount ordinary sync leaves
alone what is equal. `NothingElseTrashed` — recovery and remount trash only what
a peer removed.

**Directory moves.** `LedgerMatchesFolder` — whenever no handler is at work, a
file has an entry and a synced entry a file. `SyncedIsCarried` — what the ledger
calls synced is at the name where the queued moves will have carried the hub's copy.
`QueueEmptyMeansSame` — an empty queue means folder and hub agree. `Drains` —
the queue runs empty.

**Views.** `TreeConsistent`, `PathsIndexed` — the tree and the tables that
translate inodes agree. `SavesAreStored` — a save reported as done is at the
server, whatever failed and was tried again. `RefreshKeepsCurrent` — a listing
applied late takes nothing away that is current. `MovesKeepDocuments` — no
operation of the mount leaves a document filed nowhere that its user did not
remove. `ViewConverges`, `WorkspaceConverges`, `EventuallySubscribed` — after
the last change the mount shows the server and is subscribed.

**Bounds.** `MaxVersion` (saves by anyone, together), `MaxFaults` (crashes, lost
requests, lost replies), `MaxRenames`; a peer deletes a version once. Three
versions of one key are a base, an edit here and an edit there (a conflict), or
a save on top of one in flight; two keys and a rename are a name taken, left, or
replaced. Every handler of a rename is in `MirrorTwoKeys`; every crash point is
in `MirrorOneKey`. In `ProtectedSync` (`Synced`, `MaxActs`) two operations are
enough for each of the queued jobs a recovery meets (delete, push, rename,
conflict) and an edit during it; users and peers act while the mount is
protected, a file is opened only before the last of these, faults happen while a recovery runs (`MirrorSync` has the others),
and `Resume` comes without handles and after no fault. In `DirMove` two moves are a
chain, a swap's half or a return, with a save, a removal or a new directory in
between; after a crash nobody uses the mount before the restart. `MaxOthers` and
`MaxEvents` of the views count other clients' changes, failures and the user's
operations; `MaxOpen` is 1. A rename with a crash, three versions over two
names, or three moves are beyond these bounds: section 4's theorems cover them for
all properties they state (`NoSaveLost`, `SavesAreTracked` and `MovesAreRelayed`
among them), the other properties are not shown there.

**Exempted saves.** A save made in the window of a known finding is in
`ghost.exempt`: the run_conflict window, and a save over an adopted tombstone.
So is a save made around the mount until the next scan sees it: nothing but its
fingerprint tells it from the old bytes, and `pull_key` takes the fingerprint
when it starts, so a change made just before it is replaced by the download.
So are bytes that a crashed rename left under two names (section 5), from the step that
takes the digest of the old name's tombstone for the base or brings it back to life
(`Misread`) until a scan hashes the file and no other record names them (`Settled`).
`PullsKeepSaves` and `HubDeletesOnly` are the same promises with no exemption.

**Other exemptions**, each a case of section 5. `UnionSurvives`: keys a push
settled while their delete or rename is queued (`leftover.intents`; with no
exemption it is `ResumeKeepsUnion`). `NothingElseTrashed`: a file whose queued
rename a pull dropped (`leftover.orphans`). The flaws of `DirMove` are the cases of
*Directories* in section 5 ("stray" from the `rmdir` on, whether or not the
delete does harm), and finding 2 where the engine meets it here ("adopted").
`MovesAreRelayed`: "forgot"; `SyncedIsCarried`: "forgot", "stray" and "mixed";
`QueueEmptyMeansSame`: these and "returns", and of a removed file a PUT that was
never answered; `LedgerMatchesFolder`: any but "stuck"; `Drains`: any. `RefreshKeepsCurrent`: while a departed document still
holds its name for its unlink, `reconcile_doc_dir` skips the document that wants
it. `MovesKeepDocuments`: rm inside the trash; a replaced document whose content another
one now holds; a document another client touched during the handler; a file
created in a folder that moved meanwhile (`ghost.astray`); a document that
replaces itself.

**Fairness.** `MirrorSync`: weak for the hub's answers, what the engine began,
and the startup scan; strong for a job, a scan, a listing, a deferred key and a
job recovery, each of which happens if it is possible again and again:
`cycle_inner` runs them in a fixed order, every poll interval, the scan and
listing hourly. None for users, peers, crashes, and none for the change feed:
the hourly listing alone must be enough, and is. `DirMove`: weak for the handler
that holds the lock (or the restart), and for the engine's request: a runnable job,
the hub's answer or the reply, whichever is next. `ContextView` and `WorkspaceView`: weak for the handlers, the worker, the
socket and the resync timer; strong for the nudge thread and, in `WorkspaceView`,
for the refresh, which both take the `sync` mutex in competition: `parking_lot`
is eventually fair, so whoever can take it again and again takes it in the end.
Two of these are spelled out over states instead of ENABLED (`WorkerRuns`, and
the refresh's), which says the same and is cheaper to check. None for users,
other clients and failures. Faults are bounded, so the hub is eventually reachable.

`mutants` in `PROJECT.json` are small slips of the code (a check dropped at the
landing, a base that does not follow its file, a listing fetched before the
mutex, …), each of which breaks its property in its run; they are the
definitions commented "Slip".

## 4. What is proved

For any finite or infinite set of keys, any bounds, both delete modes:

- `TypeCorrect`: `Spec => []TypeOK`.
- `LedgerKnowsOnlySeen`: `Spec => []KnownVersions`.
- `NothingOverwrittenBlind`: `Spec => NoBlindOverwrite`.

The argument: `KnownVersions` says that folder, ledger, queue, trash, snapshots
and the engine's plans name only versions in `ghost.seen`, except the hub's own
answer and the version about to land. It is inductive together with the types of
`hub` and `ghost` and the fault bound (`IInv`). Its first lemmas show, operator by
operator, that every durable prefix of a handler stays in `DeviceOf(S)` when its
inputs are in `S`, which takes care of the crashes as well; after them the module
has one step per action. `TypeOK` follows since `DeviceOf` and `MemoryOf` grow
with `S`. `NothingOverwrittenBlind` follows because a conditional request touches
an object equal to its precondition, which is in `ghost.seen`, and a rename moves
an object without dropping it.

The theorems of the module about `decide()` say for all digests that a precondition always names what the
hub holds, that a local edit is sent or kept, that a remote edit is fetched or
raised as a conflict, that deletes touch only agreed bytes, and that nothing is done
exactly when all three agree.

`MirrorSaveProofs` shows, over the same assumptions:

- `NoSaveLostEver`: `Spec => []NoSaveLost`.
- `SavesTrackedAlways`: `Spec => []SavesAreTracked`.
- `BasesAreAgreed`: the base ledger names no save the hub has yet to see.

Neither invariant is inductive: that the folder holds a save says nothing of
whether the engine is about to replace it. `SaveInv` speaks of the *owed* saves,
`ghost.unsent` without `ghost.exempt`, and has two kinds of parts.

- `Safe` is of the disk alone, and **every durable write of every handler keeps
  it**, so a crash may fall between any two: an owed save is under one name only
  (`FileOnce`), in the folder or a conflict snapshot (`Held`), is nobody's base and no
  `Clean` entry's digest (`Agreed`).
- `Tracked` relates entry and file: a flushed, owed file has a `Dirty` entry that names
  it or has no digest yet. Only whole handlers keep it; a crash breaks it, and the
  startup scan rebuilds it key by key (it is claimed of `Keys \ mem.unscanned`).

`Plan` says that no download is on its way for a key whose entry owed a save when
it was read (the check of `land_download` does the rest), `Uploaded` that the hub, its
answers and what the engine took for sent are not unsent, `Past` that a version
is new when it is saved, `Mounted` that engine and handles wait for the scan. TLC
found the cases in which earlier forms were not inductive; among them a
renamed file whose rename a crash cut in two, which is a finding (section 5). The
invariant was model-checked on two keys, two renames and a crash (15 M states)
before it was proved. The proof has a lemma for each durable sequence of `Ledger`
(its prefixes keep `Safe`, its end keeps `Tracked`), one for each action, and
`RestartSaves` for what a crash leaves.

`ProtectedSyncProofs` shows of `ProtectedSync`, for any keys, bounds and both delete
modes:

- `ProtectedTypeCorrect`: `ProtectedSpec => []ProtectedTypeOK`.
- `FolderHeldAlways`: `ProtectedSpec => FolderHeld`.
- `HubHeldAlways`: `ProtectedSpec => HubHeld`.

The invariant `ProtectedInv` has three parts. `IInv` as above, whose lemmas for the
engine, the session and the peers are used unchanged. `RecKnows`: a recovery in
progress keeps the engine idle, and has in hand a snapshot the folder has held, or
a download for a slot it found empty; without it a recovery's acknowledgement
could bring a version into the ledger that nobody knows. `Harmless`, while the
mount is protected: no delete or rename is out, a download is for an empty slot, a
PUT for an empty key or one that holds the very bytes. `Harmless` is where the
guards meet: a step that changes the folder or the hub checks nothing of
protection itself, the step that started it did. That every other handler leaves
the folder alone, wherever a crash comes, is the first section of the module.

`ProtectedSaveProofs` extends that to recoveries and the remount, and proves the union:

- `ProtectedNoSaveLost`: `ProtectedSpec => []NoSaveLost`.
- `ProtectedSavesTracked`: `ProtectedSpec => []SavesAreTracked`.
- `UnionReachedAlways`: `ProtectedSpec => []UnionReached`.

`SaveInv` needs one part more, `RecPays`: what a recovery is about to acknowledge
or to land, the hub has. `RecCommit` may then set the base although the file has
moved on, since it leaves the entry `Dirty` in that case.

`UnionReached` speaks of the end only; `UnionInv` says how it is come by, while nobody
disturbs it and nothing fails (otherwise nothing is promised, `NothingPromised`):

- `Pushing`: a push has in hand the file there is, and the hub's answer is what the hub
  holds; every key is still to be taken, or *even*: its file, if any, is the hub's
  object and the ledger says so.
- `Pulling`: a pull after it has in hand a key without a file; every object of the hub
  is still to be taken or has a file.
- `AfterPush`: from the end of the push on all keys are even and a protected engine only
  *fetches* what has no file here (`Fetched`, `Fetches`). That is a fact of a whole cycle:
  its listing must show what the hub still holds, its download be of a key without a
  file, and `reconcile` decide nothing else of even keys (`EvenDecides`).

So the pull ends with every file the hub's object and every object a file here.

`MoveRelayProofs` shows of the abstract relay, for any names and numbers of moves:

- `RelayTypeCorrect`: `Spec => []TypeOK`.
- `PerformedInOrder`: no move is performed twice, and of two that share a name the
  one made first is performed first. `InOrder` alone is not inductive, since it
  says nothing of the moves still waiting; `Settled` says that what is done is
  not in the queue and is not overtaken by what still is.

`DirMoveProofs` shows of `DirMove`, for any set of names, finite or not, and any bounds:

- `DirMoveTypes`: `Spec => []TypeOK`.
- `DirMoveRelays`: `Spec => MovesAreRelayed`, that is `Spec => Relay!Spec`.
- `HubMovesInOrder`: `Spec => []Relay!InOrder`, from that and `PerformedInOrder`.

The invariant `MoveInv` adds to the types, of the queued moves:

- `Numbered`: their receipts are distinct and their places agree with the device's
  order where they share a name, although re-keys, replacements and recoveries move
  everything else; the hub's receipts are of moves it has performed.
- `Wired`: the move on the wire is still in the queue with the same names, or performed,
  or forgotten; none before it shares a name with it, so it may be performed now. A
  queue that is served in order is not enough for that: a new job must not be able
  to get before one that is out.
- `Requested`: a job marked as running is the one on the wire.
- `Intended`: a move not yet in the ledger is the last one, was never sent, and belongs
  to the handler that holds the lock or to the restart; that is why a failed
  rename(2) may withdraw it.
- `Sound`: the queue's numbers have a top. The set is not known to be finite to a
  prover without induction; this is what `Top` and the place of a new job need.

`Along`, the name that the queued moves give to a name, is a recursive function over the
numbers; that it exists and stays among the names is shown with the least number for
which it would not (`WalkExists`, `WalkIs`), from the well-foundedness of the natural
numbers, since induction theorems take operators as parameters. Of the 15 kinds of steps
seven can change the relay: `Intend` is `Promise`, `SyscallFails` is `Withdraw`, the hub's rename
or the mkdir in its stead is `Perform` unless it has the receipt, `Rmdir` is `Forget`, and
so is the loss of the reply (or a crash) when `Rmdir` had taken the move out of the queue
while it was out; everything else, the re-key of the whole queue included, stutters.

`ContextViewProofs` shows of `ContextView`, for any contexts, documents, inodes and bounds:

- `SavesStored`: `Spec => []SavesAreStored`;
- `TreeStaysConsistent`: `Spec /\ []InosLast => []TreeConsistent`.

For the first: that a save was answered says nothing of the next one, which may fail: a buffer is
clean from the moment it is sent, and a flush of a clean file succeeds without a
request. `StoredInv` says where contents can come from: `OpenOK`, a buffer is dirty, or on its
way in the flush that is under way, or has been at the server; `HandlerOK`, what a flush
was told is done has been there, and so has what a replacing rename is about to show;
`ViewOK`, so has everything the tree shows, from which a file opened for writing starts;
`ListingOK`, so has everything a fetched listing is about to put there; `ServerOK`. The pool of
inodes may run out here, two files may share an inode or a name: the argument does not
depend on it. The tree is changed by whole listings at once; that is stated as simultaneous
updates of many nodes (`RemoveNodes`, `InsertNodes`, `SetContents`) and not by a fold over the
listing, since the provers know no induction.

The second is about the tables a handler and the worker change in turn. A handler reads them, sends a
request, and uses what it read when the answer comes; in between unlink collects tombstones,
`apply_contexts` takes contexts away and brings them back (it takes the tree's lock and not the
sync mutex), and other clients create and remove documents. `FitInv`, which holds with `StoredInv`,
says what survives that:

- `ViewFits`: a name leads to a node that carries it, a folder belongs to one context, a file of
  a context's folder is a document of it or a tombstone;
- `BornFirst`: only documents the server has given an id are listed or shown, so that the id of
  a pending create is new to every table;
- `WorkFits`: the worker applies what it fetched of a context of the mount, and no handler is
  between its requests meanwhile, which is what the sync mutex is for;
- `CreatesFit`: the file of a pending create is not in the tree, and its folder is the one of its
  context or, after that context went, of none;
- `HandlerFits`: the file a handler is about to rename, if the tree still has it in the folder of a
  context, is still the document it was asked for.

`InosLast` stands for the 64-bit counter of `alloc_ino`: an inode is left for every listed document and
every context. It holds in every state when the pool is infinite and documents and contexts are finite in
number, and TLC finds that with the run's instance a pool of 14 never runs out; the run itself has a
pool of 8 and reaches as many states. TLC checked `FitInv` in all states with a pool of 14, for both values of `DeferRemovals`, before it was proved.

`WorkspaceViewProofs` shows of `WorkspaceView`, for any trees, folders, documents and bounds:

- `DocumentsKept`: `Spec /\ []PathsIndexed => MovesKeepDocuments`.

A move is up to three requests with the failures of each and other clients in between. `HandlerInv`
says what a handler relies on when it comes to the one that takes a placement away:
`LinkedFirst`, from the answer to the link on the document is filed at its destination or
another client has touched it; `Elsewhere`, the destination is another folder than the
source, so that the unfile cannot undo the link; `ReplacedFirst`, from the answer to the
PUT on the replaced document has the content. TLC checked it on the run's instance before
it was proved. `Elsewhere` is where the tables of the tree come in: the user names two folders
of the tree and the requests name what `file_docs` has for them. That these agree is
`PathsIndexed`, which the run checks (for files in the trash too), and the theorem has as
its premise; a proof of it would need induction along paths.

The assumptions are those of the modules: `LedgerAssumption`, `MirrorAssumption`,
`ProtectedAssumption` (finitely many files at the start), `DirMoveAssumption`,
`ViewTreeAssumption`, `ContextViewAssumption`, `WorkspaceViewAssumption`;
`MoveRelayProofs` assumes `OpsAreNumbers`, which holds of the numbers `DirMove` gives it.

A leaf that takes a prover more than about two seconds, or that only one prover finds, names the
prover (`Zenon`) and allows it a minute (`SMTT(60)`, `ZenonT(60)`), so that the proofs do not depend on
the speed of the machine.

Only model-checked: `TrashOnlyRemoved` and `HubKeepsSynced`, which hold on the
bounds of their runs and not for all constants (with renames the first is
`DroppedRename`, with crashes the second is `CrashedPull`); what `ProtectedSync`
says of the remount (`NothingElseTrashed`, with more operations than its run has, is
`DroppedRename` too; `UnionSurvives`); of the view modules `PathsIndexed`,
which depends on paths of any length, and `RefreshKeepsCurrent`; of `DirMove`
`LedgerMatchesFolder`, `SyncedIsCarried` and `QueueEmptyMeansSame`, which depend on where
several moves in a row take a name; and all liveness, which is beyond the prover under
fairness. Looking for the inductive invariant of the three of `DirMove` with bounds beyond
the run's (2 names, 2 moves, 2 saves, 4 removals and a fault, all states; up to 4 moves of
3 names at random) showed that they need the exemptions "stray", "returns", "mixed" and
"adopted" (section 3), and found no other counterexample.
`WorkspaceView` and the naming of documents (`AssignNames`) are built by
folds over sets, of which the installed provers know no induction.

## 5. Findings

1. **`ConflictWindow`** — `run_conflict` (sync.rs:2812–2826) checks that the
   file is still the uploaded one and then, in a second unlocked step, reads the
   entry the download may replace. A save closed between the two is overwritten.
2. **`AdoptedTombstone`** — deleting a key here and on the hub ends in *adopt*,
   which writes the tombstone's digest as the base (sync.rs:2003–2016). If that
   is the empty digest, the next save of the key looks unchanged and is trashed
   when its key is reconciled before it is pushed.
3. **`DroppedRename`** — `mv a b; write a; rm a` drops the queued rename of `b`
   (sync.rs:671, `JobKind::key` of a rename is its source); the next listing
   trashes `b`.
4. **`CrashedPull`** — a crash between `put_base` and `remove_jobs_for` in
   `pull_key` leaves a delete job, which then deletes the downloaded version.
5. **`ResumeKeepsUnion`** — on a protected mount `rm b`, then `b` saved anew
   leaves `Delete b` queued. A recovery push takes the save for synced and
   removes only the push and conflict jobs of `b` (recovery.rs:377); after the
   remount the delete runs with the new base as its precondition.

Seen while modelling; the properties exempt them (section 3) or do not reach them:

- *Queue.* A fixed delete refused by the hub is retried for ever (2630–2632);
  `rekey_entry` retargets a rename dropped from another chain (841), and a crash
  between its re-key and the rename job lets the next listing trash the moved file;
  an error in `recheck_deferred` loses the set it drained (2196); a change
  skipped by `apply_change` for a directory move, or by `record_conflict` for a
  vanished file, waits for the next listing.
- *Conflicts and trash.* A PUT whose reply was lost, and another save on top, is
  a conflict with the device's own earlier version. A crash between `trash_put`
  and `put_trashed` hides the bytes from `trash list`. A peer's rename onto a name
  with an entry removes the source without a trash copy (1858).
- *Protected.* A pull after `mv a b` without a push restores `a` and drops the
  rename (recovery.rs:246); `b` stays clean with a base the hub has no object
  for, and ordinary sync trashes it after the remount. A rename over a synced `b`
  queues a delete of `b` that a push does not drop either.
- *Crashed rename.* `rename_local` moves the file, then its entry. A crash between
  the two lets the startup scan turn the old name's entry into a tombstone
  (`note_local_gone`, 672–683), with the digest of a save that is alive, unsent, under
  the new name. If a peer has deleted the old name meanwhile, `decide()` answers
  *adopt* and that digest becomes its base (2003–2016): a base the hub never had,
  where store.rs:27 and reconcile.rs:6 speak of "the last version agreed with the hub".
- *Directories.* `mv a b; mkdir a; rmdir a` drops the queued move of `a`
  (sync.rs:727, "forgot"). `rm a/f`, save `a/f`, `rm a/f` while the first delete is out: its
  answer clears the tombstone, so `rmdir a` succeeds, and removes only the jobs under the
  directory's own key (727); after `mv b a` the second delete finds a synced file at its
  name and its reply takes that file's base (2591–2626): clean with no base, where
  store.rs:80 says "Local bytes == base"; a later `rm a/f` owes the hub nothing, and the
  file comes back ("stray": `LedgerMatchesFolder` fails without its exemption on 2 names,
  1 move, 2 saves, 4 removals and no fault). `rm a/f; mv a b` with the delete refused by the hub
  retries it for ever ahead of the move ("stuck"). A local-only move of a new `a`
  re-keys an earlier delete that belongs to an older directory of that name
  ("mixed", store.rs:648). A file removed after its directory moved while its PUT was out comes
  back, since the upload-pending mark is not re-keyed (sync.rs:666, "returns"). A tombstone
  whose delete is queued under its directory's old name gets a second one from
  `recover_jobs` (sync.rs:2213–2246, "doubled"). A `Mkdir`
  in flight while its directory moves locally leaves an empty directory on the
  hub. `rmdir` calls a directory not empty for tombstones not yet sent.
- *Live views.* The unlink queued for a departed document is a real unlink of
  its path: when another file took the name meanwhile, that one is removed, at
  the server too (nudge.rs:146). A document filed in two folders and moved next to its
  own other file, then renamed over it, is left filed nowhere (writes.rs:1588;
  1383 says nothing can). A peer that unfiles a document from its destination
  between link and unfile has the same effect (1545–1550). A refresh that inserts
  a name just before `adopt_tree_file` takes it orphans the older node. A
  document re-added under a tombstone's name is hidden until the next refresh. A
  create retried after a lost reply stores the document twice. `.by-schema` copies
  and metadata files are not updated by edits.

## 6. Not modelled, and what could follow

1. The change feed as pages with a cursor and 410, and peers' renames
   (`apply_remote_rename`), against a listing whose head moves.
2. Priorities, inherited urgency and backoff of the queue: that no ready job
   starves, and longer chains of file renames.
3. Trash restore, conflict resolution, retention (30 days) and the mirror's keep mode.
4. The blob cache (`blobs.rs`), the files that bind a mirror to its folder
   (`identity.rs`), the order of the write path's locks.
5. Directories inside directories, and the Home folder of a live mount
   (`rename_home_dir_live`).
6. Proofs: `UnionSurvives`, from `UnionInv` and what the remount finds queued;
   `LedgerMatchesFolder` and `SyncedIsCarried`, an
   invariant that relates each name to the one its file had when a request left.

Left out for good: building and parsing of requests and files (`api.rs`,
`render.rs`), `runtime.rs`, `config.rs`, `context_selection.rs`, `tls.rs`,
`main.rs`, `control.rs` and the progress reporter (I/O and wiring). In the
present models: ignore rules, legacy migration and the status report.
`FolderEdit` never touches a key with an open handle, a file is not renamed onto
one that is open, and the mirror of `MirrorSync` starts from an empty folder and hub.
