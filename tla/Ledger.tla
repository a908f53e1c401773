------------------------------- MODULE Ledger -------------------------------
(***************************************************************************)
(* What one mirror keeps on this device's disk: the folder, the redb store *)
(* (mirror/store.rs: entries, base ledger, upload-pending marks, conflict  *)
(* records, job queue) and the two retained-bytes areas of mirror/local.rs *)
(* (trash, conflict snapshots).  A device is ONE record; every store or    *)
(* folder operation is an operator from a device to a device, so that a    *)
(* handler is the sequence of devices its durable writes go through, and a *)
(* crash may leave any prefix of it.                                       *)
(*                                                                         *)
(* Abstractions.  A version stands for the bytes of one save and for what  *)
(* identifies them: digest, size, mtime and inode fingerprint.  Keys are   *)
(* files, none a prefix of another, so two jobs overlap when they share a  *)
(* key.  A trash record and the bytes it names are one value.              *)
(***************************************************************************)
EXTENDS Integers, SequencesExt

CONSTANTS
  Keys,          \* the object keys of the Home the mirror holds
  MaxVersion,    \* bound: how many saves, by anyone, a behaviour may contain
  Deletes        \* MirrorOptions.deletes, "propagate" or "keep"

ASSUME LedgerAssumption ==
  /\ MaxVersion \in Nat
  /\ Deletes \in {"propagate", "keep"}

None     == 0      \* no bytes, no record
Unhashed == -1     \* the empty digest commit_local_file leaves in an entry
Version  == 1..MaxVersion
Digest   == Version \cup {None}
Stored   == Digest \cup {Unhashed}

(***************************************************************************)
(* Entries.  An absent entry is a value of the same shape.                 *)
(***************************************************************************)
EntryStates == {"Clean", "Dirty", "Tombstone", "Absent"}
EntryOf(S)  == [sha : S \cup {None}, hashed : BOOLEAN, state : EntryStates]
Entry       == EntryOf(Version)
NoEntry     == [sha |-> None, hashed |-> FALSE, state |-> "Absent"]

Hashed(v, s)  == [sha |-> v, hashed |-> TRUE, state |-> s]
Intent(v)     == [sha |-> v, hashed |-> FALSE, state |-> "Dirty"]
Live(e)       == e.state \in {"Clean", "Dirty"}
EntryDigest(e) == IF e.hashed THEN e.sha ELSE Unhashed
LocalDigest(e) == IF Live(e) THEN EntryDigest(e) ELSE None

(***************************************************************************)
(* Jobs.  The queue is a set: `after` names the earlier jobs that share a  *)
(* key with this one, which is all the drain loop reads of their order.    *)
(* `running` marks the job the engine took (run_one's `seq`): a job queued *)
(* again under the same identity is a new job and not marked.              *)
(***************************************************************************)
JobKinds == {"Push", "Delete", "Rename", "Conflict"}
JobId    == [kind : JobKinds, key : Keys, to : Keys]
JobOf(S) == [kind : JobKinds, key : Keys, to : Keys, match : S \cup {None, Unhashed},
             sha : S \cup {None}, after : SUBSET JobId, running : BOOLEAN]

PushId(k)      == [kind |-> "Push", key |-> k, to |-> k]
DeleteId(k)    == [kind |-> "Delete", key |-> k, to |-> k]
ConflictId(k)  == [kind |-> "Conflict", key |-> k, to |-> k]
RenameId(a, b) == [kind |-> "Rename", key |-> a, to |-> b]

Id(j)         == [kind |-> j.kind, key |-> j.key, to |-> j.to]
JobKeys(j)    == {j.key, j.to}
Overlap(i, j) == JobKeys(i) \cap JobKeys(j) # {}
Ids(js)       == {Id(j) : j \in js}

Dequeue(js, gone) ==
  {[j EXCEPT !.after = @ \ Ids(gone)] : j \in js \ gone}

\* The job `id`, queued behind every job of `js` that shares a key with it.
Behind(js, id, match, sha) ==
  [kind |-> id.kind, key |-> id.key, to |-> id.to, match |-> match, sha |-> sha,
   after |-> Ids({j \in js : Overlap(j, id)}), running |-> FALSE]

(***************************************************************************)
(* The device and the single durable writes on it.  DeviceOf(S) is a       *)
(* device that knows no versions but those of S.                           *)
(***************************************************************************)
DeviceOf(S) ==
  [file     : [Keys -> S \cup {None}],            \* the backing folder
   entry    : [Keys -> EntryOf(S)],               \* ENTRIES
   base     : [Keys -> S \cup {None, Unhashed}],  \* BASE, the last agreed version
   pending  : [Keys -> S \cup {None}],            \* META upload-pending:<key>
   conflict : [Keys -> S \cup {None}],            \* CONFLICTS not uploaded yet
   trash    : [Keys -> S \cup {None}],            \* TRASH and its bytes
   snaps    : SUBSET S,                           \* conflicts/<digest>
   jobs     : SUBSET JobOf(S)]                    \* JOBS

Device == DeviceOf(Version)

EmptyDevice ==
  [file     |-> [k \in Keys |-> None],
   entry    |-> [k \in Keys |-> NoEntry],
   base     |-> [k \in Keys |-> None],
   pending  |-> [k \in Keys |-> None],
   conflict |-> [k \in Keys |-> None],
   trash    |-> [k \in Keys |-> None],
   snaps    |-> {},
   jobs     |-> {}]

SetFile(d, k, v)     == [d EXCEPT !.file[k] = v]
SetEntry(d, k, e)    == [d EXCEPT !.entry[k] = e]
SetBase(d, k, b)     == [d EXCEPT !.base[k] = b]
SetPending(d, k, v)  == [d EXCEPT !.pending[k] = v]
SetConflict(d, k, v) == [d EXCEPT !.conflict[k] = v]
SetTrash(d, k, v)    == [d EXCEPT !.trash[k] = v]
Keep(d, v)           == [d EXCEPT !.snaps = @ \cup {v}]
SetState(d, k, s)    == SetEntry(d, k, [d.entry[k] EXCEPT !.state = s])

Enqueue(d, id, match, sha) ==
  LET rest == Dequeue(d.jobs, {j \in d.jobs : Id(j) = id})
  IN  [d EXCEPT !.jobs = rest \cup {Behind(rest, id, match, sha)}]

EnqueuePush(d, k) == Enqueue(d, PushId(k), None, None)

EnsureJob(d, id, sha) ==
  IF id \in Ids(d.jobs) THEN d ELSE Enqueue(d, id, None, sha)

\* (Slip, for the mutation checks: only a waiting push is cancelled.)
RemovePushesFor(d, k) ==
  [d EXCEPT !.jobs = Dequeue(@, {j \in @ : j.key = k /\ j.kind = "Push"})]

RemoveJobsFor(d, k) ==
  [d EXCEPT !.jobs = Dequeue(@, {j \in @ : j.key = k})]

\* run_one's epilogue: drop the job it ran, or leave it queued (retry later).
Done(d)   == [d EXCEPT !.jobs = Dequeue(@, {j \in @ : j.running})]
Unmark(d) == [d EXCEPT !.jobs = {[j EXCEPT !.running = FALSE] : j \in @}]
Mark(d, j) == [d EXCEPT !.jobs = (@ \ {j}) \cup {[j EXCEPT !.running = TRUE]}]

\* (Slip: only the base follows the file.)
RekeyBase(d, from, to) ==
  [d EXCEPT !.base = IF d.base[from] = None THEN @
                     ELSE [@ EXCEPT ![to] = d.base[from], ![from] = None]]

\* One transaction: the entry and the base, each when it is there.
Rekey(d, from, to) ==
  [d EXCEPT
     !.entry = IF d.entry[from].state = "Absent" THEN @
               ELSE [@ EXCEPT ![to] = d.entry[from], ![from] = NoEntry],
     !.base  = IF d.base[from] = None THEN @
               ELSE [@ EXCEPT ![to] = d.base[from], ![from] = None]]

PendingRename(d, k) ==
  \E j \in d.jobs : j.kind = "Rename" /\ k \in JobKeys(j)

\* local_result_key: follow the queued renames, oldest first.
LandedKey(d, k) ==
  LET Renames == {j \in d.jobs : j.kind = "Rename"}
      Oldest(S) == CHOOSE j \in S : \A i \in S : Id(i) \notin j.after
      follow[S \in SUBSET Renames, key \in Keys] ==
        IF S = {} THEN key
        ELSE LET j == Oldest(S)
             IN  follow[S \ {j}, IF j.key = key THEN j.to ELSE key]
  IN  follow[Renames, k]

(***************************************************************************)
(* Handlers shared by the session and the engine, as the sequence of       *)
(* devices their durable writes pass through (never empty).                *)
(***************************************************************************)

\* note_local_gone: the file is gone from the folder.
NoteGone(d, k) ==
  LET d1 == RemoveJobsFor(d, k)
      d2 == SetState(d1, k, "Tombstone")
      forgot == SetEntry(d1, k, NoEntry)
  IN  IF d.entry[k].state = "Absent" THEN <<d>>
      ELSE IF Deletes = "propagate" /\ (d.base[k] # None \/ d.pending[k] # None)
        THEN <<d1, d2, Enqueue(d2, DeleteId(k), None, None)>>
        ELSE <<d1, forgot, SetBase(forgot, k, None)>>

\* delete_local: `rm`.
DeleteSteps(d, k) ==
  LET gone == SetFile(d, k, None) IN <<gone>> \o NoteGone(gone, k)

\* commit_local_file: the durable intent to push what the folder holds now.
CommitSteps(d, k) ==
  LET d1 == SetEntry(d, k, Intent(d.file[k])) IN <<d1, EnqueuePush(d1, k)>>

\* scan_paths on one key whose handle is closed.
ScanSteps(d, k) ==
  LET v  == d.file[k]
      e  == d.entry[k]
      d1 == SetEntry(d, k, Hashed(v, "Dirty"))
      d2 == SetTrash(d1, k, None)
  IN  IF v = None
        THEN IF Live(e) THEN NoteGone(d, k) ELSE <<d>>
        ELSE IF LocalDigest(e) = v THEN <<d>>
             ELSE <<d1, d2, EnqueuePush(d2, k)>>

(***************************************************************************)
(* rename_local.  `Retarget` is what rekey_entry makes of a job that was   *)
(* queued under the old name; `Requeue` puts the dropped jobs back, in     *)
(* their order, behind the jobs still queued.                              *)
(***************************************************************************)
Retarget(j, to) ==
  CASE j.kind \in {"Push", "Conflict"} -> [j EXCEPT !.key = to, !.to = to]
    [] j.kind = "Rename"               -> [j EXCEPT !.to = to]
    [] OTHER                           -> j

Requeue(d, dropped, to) ==
  LET again == Ids({Retarget(j, to) : j \in dropped})
      rest  == Dequeue(d.jobs, {j \in d.jobs : Id(j) \in again})
      Later(j) ==
        LET i == Retarget(j, to)
            earlier == {Retarget(g, to) : g \in {g \in dropped : Id(g) \in j.after}}
        IN  [Behind(rest, Id(i), i.match, i.sha) EXCEPT
               !.after = @ \cup Ids({g \in earlier : Overlap(g, i)})]
  IN  [d EXCEPT !.jobs = rest \cup {Later(j) : j \in dropped}]

\* rekey_entry: the store side of a rename.
RekeySteps(d, from, to) ==
  LET dropped == {j \in d.jobs : j.key = from}
      d1 == RemoveJobsFor(d, from)
      d2 == Rekey(d1, from, to)
      d3 == IF d2.conflict[from] = None THEN d2
            ELSE SetConflict(d2, from, None)
      d4 == IF d2.conflict[from] = None THEN d3
            ELSE SetConflict(d3, to, d2.conflict[from])
      d5 == SetTrash(d4, to, None)
      hasBase == d5.base[to] # None
      d6 == IF hasBase \/ d5.pending[from] # None
            THEN Enqueue(d5, RenameId(from, to), None, None) ELSE d5
      d7 == Requeue(d6, dropped, to)
      d8 == IF ~hasBase /\ d7.entry[to].state = "Clean"
            THEN EnqueuePush(SetState(d7, to, "Dirty"), to) ELSE d7
  IN  <<d1, d2, d3, d4, d5, d6, d7, d8>>

\* A file the hub never had replaces one it may have: a conditional PUT of
\* the destination, not DELETE + RENAME.
ReplaceSteps(d, from, to) ==
  LET d0 == SetFile(SetFile(d, to, d.file[from]), from, None)
      d1 == RemoveJobsFor(d0, from)
      d2 == IF d1.pending[from] = None THEN d1
            ELSE Enqueue(d1, DeleteId(from), None, None)
      d3 == RemoveJobsFor(d2, to)
      d4 == Rekey(d3, from, to)
      d5 == SetState(d4, to, "Dirty")
  IN  <<d0, d1, d2, d3, d4, d5, EnqueuePush(d5, to)>>

\* Otherwise the destination, if any, is deleted first, in the queue too.
MoveSteps(d, from, to) ==
  LET gone  == DeleteSteps(d, to)
      fixed == IF d.base[to] = None THEN Last(gone)
               ELSE Enqueue(Last(gone), DeleteId(to), d.base[to], None)
      clear == IF d.entry[to].state = "Absent" THEN <<d>> ELSE Append(gone, fixed)
      d0    == Last(clear)
      moved == SetFile(SetFile(d0, to, d0.file[from]), from, None)
  IN  clear \o <<moved>> \o RekeySteps(moved, from, to)

RenameSteps(d, from, to) ==
  IF d.base[from] = None /\ d.entry[to].state # "Absent"
  THEN ReplaceSteps(d, from, to)
  ELSE MoveSteps(d, from, to)
==============================================================================
