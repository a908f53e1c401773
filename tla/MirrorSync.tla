----------------------------- MODULE MirrorSync -----------------------------
(***************************************************************************)
(* The mirror engine of mirror/sync.rs: one device's Home folder and       *)
(* ledger, the FUSE session threads that write the folder, the engine      *)
(* thread that keeps it in step with the hub, the hub, and its peers.      *)
(*                                                                         *)
(* Everything the code does while it holds the `directory_moves` lock is   *)
(* one step; every place where it lets the lock go (to read a file, to     *)
(* wait for the hub) is a boundary between steps, at which any session     *)
(* operation, any peer and any crash may come.                             *)
(***************************************************************************)
EXTENDS Ledger

CONSTANTS
  FolderEdits,   \* BOOLEAN: are files also changed around the mount?
  MaxFaults,     \* bound: crashes, lost requests and lost replies together
  MaxRenames     \* bound: how many times the user renames a file

ASSUME MirrorAssumption ==
  FolderEdits \in BOOLEAN /\ MaxFaults \in Nat /\ MaxRenames \in Nat

R == INSTANCE Reconcile

VARIABLES
  dev,      \* what survives a crash (Ledger)
  mem,      \* what does not: open handles, the engine's place and plans
  hub,      \* the hub's objects and the part of its change feed not passed
  ghost,    \* history the properties talk about; no action reads it
  faults    \* faults so far

vars == <<dev, mem, hub, ghost, faults>>

(***************************************************************************)
(* The engine thread.  `pc` is where it is:                                *)
(*   idle      between two steps of a cycle                                *)
(*   head      holds what the hub said of `key`, about to reconcile_key    *)
(*   pull, get, land  pull_key before its first lock, before the GET is    *)
(*                    answered, and at the landing                         *)
(*   conflict  record_conflict before its lock                             *)
(*   snap, put, putdone   run_push: snapshotting, request out, reply in    *)
(*   del, deldone         run_delete: request out, reply in                *)
(*   ren, rendone, target run_rename: the same, then asking for the target *)
(*   copy, copied, hash, take  run_conflict, up to its own pull_key        *)
(*   scan      re-reading `key` after the folder moved under it            *)
(***************************************************************************)
PCs == {"idle", "head", "pull", "get", "land", "conflict", "snap", "put", "putdone",
        "del", "deldone", "ren", "rendone", "target", "copy", "copied", "hash",
        "take", "scan"}

Outcomes == {"none", "ok", "missing", "mismatch", "exists"}
NoKey    == "no key"

\* An engine that knows no versions but those of S, but for what the hub told
\* it of its own: `reply`, and the version about to land.
EngineOf(S) ==
  {e \in [pc    : PCs,
          key   : Keys \cup {NoKey},
          to    : Keys \cup {NoKey},
          seen  : EntryOf(S),                \* the entry the step started from
          stamp : S \cup {None},             \* the file pull_key found
          sha   : Digest,                    \* the bytes in hand
          match : S \cup {None, Unhashed},   \* the request's precondition
          fixed : BOOLEAN,                   \* Delete with its own if_match
          out   : Outcomes,                  \* how the hub answered
          reply : Digest,                    \* the version it reported
          moved : BOOLEAN,                   \* directory_epoch changed since
          src   : {"none", "change", "recheck"}] :   \* why `head` asked the hub
     e.sha \in IF e.pc = "land" THEN Version ELSE S \cup {None}}

Idle == [pc |-> "idle", key |-> NoKey, to |-> NoKey, seen |-> NoEntry,
         stamp |-> None, sha |-> None, match |-> None, fixed |-> FALSE,
         out |-> "none", reply |-> None, moved |-> FALSE, src |-> "none"]

At(pc, k) == [Idle EXCEPT !.pc = pc, !.key = k]
Told(k, r) == [At("head", k) EXCEPT !.reply = r]

\* A full listing: the hub as it was listed, the keys still to reconcile with
\* it, and the keys a job has touched since.
Listing ==
  [todo    : SUBSET Keys,
   remote  : [Keys -> Digest],
   touched : SUBSET Keys]

NoListing == [todo |-> {}, remote |-> [k \in Keys |-> None], touched |-> {}]

MemoryOf(S) ==
  [up        : BOOLEAN,        \* startup scan over, FUSE mounted
   open      : SUBSET Keys,    \* open_writes
   unflushed : SUBSET Keys,    \* OpenWrite.dirty
   unscanned : SUBSET Keys,    \* what the startup scan has still to read
   recheck   : SUBSET Keys,    \* Runtime.recheck
   skipped   : SUBSET Keys,    \* Runtime.skipped, after a refusal
   eng       : EngineOf(S),
   listing   : Listing]

Memory == MemoryOf(Version)

Booting == [up |-> FALSE, open |-> {}, unflushed |-> {}, unscanned |-> Keys,
            recheck |-> {}, skipped |-> {}, eng |-> Idle, listing |-> NoListing]

Hub ==
  [object : [Keys -> Digest],
   feed   : SUBSET Keys]       \* keys with a change the cursor has not passed

Ghost ==
  [next    : 1..MaxVersion + 1,   \* the next version nobody has saved yet
   unsent  : SUBSET Version,      \* local saves, not superseded by the user,
                                  \* that have not reached the hub
   exempt  : SUBSET Version,      \* saves inside a window of a known finding
   seen    : SUBSET Version,      \* versions the folder has held
   removed : SUBSET Version,      \* versions a peer replaced or deleted
   renames : 0..MaxRenames]       \* renames so far

\* Every state is a state of the program: one well-formed record per key and
\* table, jobs of the four kinds, snapshots of bytes and never of a missing
\* file (record_conflict), and an engine that has in hand what its place needs.
TypeOK ==
  /\ dev \in Device
  /\ mem \in Memory
  /\ hub \in Hub
  /\ ghost \in Ghost
  /\ faults \in 0..MaxFaults

Init ==
  /\ dev = EmptyDevice
  /\ mem = Booting
  /\ hub = [object |-> [k \in Keys |-> None], feed |-> {}]
  /\ ghost = [next |-> 1, unsent |-> {}, exempt |-> {}, seen |-> {}, removed |-> {},
            renames |-> 0]
  /\ faults = 0

(***************************************************************************)
(* Durable writes, crashes.                                                *)
(***************************************************************************)
Crash(d) ==
  /\ faults < MaxFaults
  /\ dev' = Unmark(d)
  /\ mem' = Booting
  /\ hub' = [hub EXCEPT !.feed = Keys]      \* the page is fetched again
  /\ faults' = faults + 1

\* The durable writes `steps`, then the memory `m`; or a crash between two.
Commit(steps, m) ==
  \/ dev' = Last(steps) /\ mem' = m /\ UNCHANGED <<hub, faults>>
  \/ \E i \in 1..Len(steps) - 1 : Crash(steps[i])

ProcessCrash == Crash(dev) /\ UNCHANGED ghost

\* The handler ended well: run_one drops the job it was running, if any.
Finish(steps, m) ==
  Commit(Append(steps, Done(Last(steps))), [m EXCEPT !.eng = Idle])

Engage(e) == [mem EXCEPT !.eng = e]

(***************************************************************************)
(* The session threads.                                                    *)
(***************************************************************************)
Fresh == ghost.next <= MaxVersion

\* The user's bytes at the keys of K are replaced or removed by the user.
Superseded(K) == {dev.file[k] : k \in K}

\* A save of k that completes now is inside the window of a finding:
\*   - run_conflict hashed the file, and has yet to read the entry it expects;
\*   - an adopted tombstone left the empty digest as the base of k, and the
\*     intent of the save carries the empty digest too.
InWindow(k) == \/ mem.eng.pc = "take" /\ mem.eng.key = k
               \/ dev.base[k] = Unhashed

Exempted(K, v) == IF \E k \in K : InWindow(k) THEN ghost.exempt \cup ({v} \ {None})
                  ELSE ghost.exempt

\* A rename that a crash cut in two leaves a tombstone whose digest is that of
\* bytes alive under the other name; what makes it the base, or live again, takes
\* them for agreed or for the bytes of this key.
Misread(K) == {dev.entry[k].sha : k \in {i \in K : dev.entry[i].state = "Tombstone"}}
              \cap ghost.unsent

Misreads(K) == ghost' = [ghost EXCEPT !.exempt = @ \cup Misread(K)]

\* A scan ends the exemption of the file it reads, unless a record of the ledger
\* other than its own entry names these bytes, or that entry calls them synced.
Named(k) == Range(dev.base)
            \cup {dev.entry[i].sha : i \in {i \in Keys : i # k \/ dev.entry[i].state = "Clean"}}

Settled(k) == {dev.file[k]} \ Named(k)

Saved(k, v) ==
  ghost' = [ghost EXCEPT !.next = @ + 1, !.seen = @ \cup {v},
                         !.unsent = (@ \ Superseded({k})) \cup {v}]

\* open_existing without O_TRUNC: the bytes stay.
Open(k) ==
  /\ mem.up /\ k \notin mem.open /\ dev.file[k] # None
  /\ mem' = [mem EXCEPT !.open = @ \cup {k}]
  /\ UNCHANGED <<dev, hub, ghost, faults>>

\* create, open with O_TRUNC, write or truncate on an open handle.
Write(k) ==
  /\ mem.up /\ Fresh
  /\ LET v == ghost.next IN
       /\ dev' = SetFile(dev, k, v)
       /\ Saved(k, v)
  /\ mem' = [mem EXCEPT !.open = @ \cup {k}, !.unflushed = @ \cup {k}]
  /\ UNCHANGED <<hub, faults>>

\* flush or fsync: flush_local -> commit_local_file.
Flush(k) ==
  /\ k \in mem.unflushed
  /\ Commit(CommitSteps(dev, k),
            [mem EXCEPT !.unflushed = @ \ {k}, !.skipped = @ \ {k}])
  /\ ghost' = [ghost EXCEPT !.exempt = Exempted({k}, dev.file[k])]

\* release of the last handle.
Close(k) ==
  /\ k \in mem.open \ mem.unflushed
  /\ mem' = [mem EXCEPT !.open = @ \ {k}]
  /\ UNCHANGED <<dev, hub, ghost, faults>>

\* unlink -> delete_local.
Unlink(k) ==
  /\ mem.up /\ dev.file[k] # None
  /\ Commit(DeleteSteps(dev, k),
            [mem EXCEPT !.open = @ \ {k}, !.unflushed = @ \ {k},
                        !.skipped = @ \ {k}])
  /\ ghost' = [ghost EXCEPT !.unsent = @ \ Superseded({k})]

\* directory_epoch moves under run_push, pull_key or apply_change.
Overtaken ==
  [mem.eng EXCEPT !.moved = \/ @
                            \/ mem.eng.pc \in {"snap", "get", "land"}
                            \/ mem.eng.src = "change"]

\* rename_home_inner -> rename_local.  A file is not renamed onto an open
\* one; a handle open on the source follows it, and a rename of a pending
\* create owes another commit.
Rename(from, to) ==
  /\ mem.up /\ ghost.renames < MaxRenames
  /\ from # to /\ dev.file[from] # None /\ to \notin mem.open
  /\ LET follow(S) == IF from \in S THEN (S \ {from}) \cup {to} ELSE S IN
     \E owed \in {follow(mem.unflushed)}
                 \cup {follow(mem.unflushed) \cup ({to} \cap follow(mem.open))} :
       Commit(RenameSteps(dev, from, to),
              [mem EXCEPT !.open = follow(@), !.unflushed = owed,
                          !.eng = Overtaken])
  /\ ghost' = [ghost EXCEPT !.unsent = @ \ Superseded({to}), !.renames = @ + 1,
                            !.exempt = Exempted({from, to}, dev.file[from])
                                         \cup Misread({from, to})]

\* A file changed or removed in the backing folder, around the mount.
FolderEdit(k) ==
  /\ FolderEdits /\ k \notin mem.open
  /\ \/ /\ Fresh
        /\ LET v == ghost.next IN
             /\ dev' = SetFile(dev, k, v)
             /\ ghost' = [ghost EXCEPT !.next = @ + 1, !.seen = @ \cup {v},
                            !.unsent = (@ \ Superseded({k})) \cup {v},
                            !.exempt = @ \cup {v}]
     \/ /\ dev.file[k] # None
        /\ dev' = SetFile(dev, k, None)
        /\ ghost' = [ghost EXCEPT !.unsent = @ \ Superseded({k})]
  /\ UNCHANGED <<mem, hub, faults>>

(***************************************************************************)
(* The hub and its peers.                                                  *)
(***************************************************************************)
\* Another device's save.
PeerPut(k) ==
  /\ Fresh
  /\ hub' = [object |-> [hub.object EXCEPT ![k] = ghost.next], feed |-> hub.feed \cup {k}]
  /\ ghost' = [ghost EXCEPT !.next = @ + 1,
                            !.removed = @ \cup ({hub.object[k]} \ {None})]
  /\ UNCHANGED <<dev, mem, faults>>

\* Another device's delete; bound: a peer removes a version once.
PeerDelete(k) ==
  /\ hub.object[k] \notin ghost.removed \cup {None}
  /\ hub' = [object |-> [hub.object EXCEPT ![k] = None], feed |-> hub.feed \cup {k}]
  /\ ghost' = [ghost EXCEPT !.removed = @ \cup {hub.object[k]}]
  /\ UNCHANGED <<dev, mem, faults>>

Peer(k) == PeerPut(k) \/ PeerDelete(k)

\* The reply arrives; or it is a 5xx that came after the effect, and the
\* client sends the request again.
Answer(e) ==
  \/ mem' = Engage(e) /\ UNCHANGED faults
  \/ faults < MaxFaults /\ faults' = faults + 1 /\ UNCHANGED mem

Landed(v) == ghost' = [ghost EXCEPT !.unsent = @ \ {v}]

\* (Slip, for the mutation checks: a create-only PUT without If-None-Match.)
MatchesLoosely(held, match) == match = None \/ held = match

\* If-Match, or If-None-Match: * for a key that must be free.
Matches(held, match) == held = match

HubPut(k) ==
  /\ mem.eng.pc = "put" /\ mem.eng.key = k
  /\ IF Matches(hub.object[k], mem.eng.match)
       THEN /\ hub' = [object |-> [hub.object EXCEPT ![k] = mem.eng.sha],
                       feed   |-> hub.feed \cup {k}]
            /\ Landed(mem.eng.sha)
            /\ Answer([mem.eng EXCEPT !.pc = "putdone", !.out = "ok"])
       ELSE /\ Answer([mem.eng EXCEPT !.pc = "putdone", !.out = "mismatch",
                                      !.reply = hub.object[k]])
            /\ UNCHANGED <<hub, ghost>>
  /\ UNCHANGED dev

HubDelete(k) ==
  /\ mem.eng.pc = "del" /\ mem.eng.key = k
  /\ IF Matches(hub.object[k], mem.eng.match)
       THEN /\ hub' = [object |-> [hub.object EXCEPT ![k] = None], feed |-> hub.feed \cup {k}]
            /\ Answer([mem.eng EXCEPT !.pc = "deldone", !.out = "ok"])
       ELSE /\ Answer([mem.eng EXCEPT !.pc = "deldone", !.reply = hub.object[k],
                         !.out = IF hub.object[k] = None THEN "ok" ELSE "mismatch"])
            /\ UNCHANGED hub
  /\ UNCHANGED <<dev, ghost>>

\* POST objects/rename: the precondition is optional and on the source.
HubRename(from, to) ==
  /\ mem.eng.pc = "ren" /\ mem.eng.key = from /\ mem.eng.to = to
  /\ LET held == hub.object[from]
         out  == IF held = None THEN "missing"
                 ELSE IF mem.eng.match \notin {None, held} THEN "mismatch"
                 ELSE IF hub.object[to] # None THEN "exists"
                 ELSE "ok"
     IN  /\ Answer([mem.eng EXCEPT !.pc = "rendone", !.out = out,
                      !.reply = IF out = "mismatch" THEN held ELSE None])
         /\ IF out = "ok"
              THEN hub' = [object |-> [hub.object EXCEPT ![from] = None, ![to] = held],
                           feed   |-> hub.feed \cup {from, to}]
              ELSE UNCHANGED hub
  /\ UNCHANGED <<dev, ghost>>

\* The conflict upload, to the inbox or under the conflict copy's own name.
HubCopy(k) ==
  /\ mem.eng.pc = "copy" /\ mem.eng.key = k
  /\ Answer([mem.eng EXCEPT !.pc = "copied"])
  /\ Landed(mem.eng.sha)
  /\ UNCHANGED <<dev, hub>>

\* The request, or its answer, is lost, or the hub keeps failing: the job
\* stays for later.  Offline ends the whole cycle; a job that fails in
\* another way ends only itself.
Waiting == \/ mem.eng.pc \in {"get", "put", "putdone", "del", "deldone", "ren",
                             "rendone", "target", "copy", "copied", "take"}
           \/ mem.eng.pc = "head" /\ mem.eng.src # "none"

Disconnect ==
  /\ Waiting /\ faults < MaxFaults
  /\ faults' = faults + 1
  /\ dev' = Unmark(dev)
  /\ \/ /\ mem' = [mem EXCEPT !.eng = Idle, !.listing = NoListing,
              \* recheck_deferred drained the set before it asked
              !.recheck = IF mem.eng.src = "recheck" THEN @ \cap mem.open ELSE @]
        /\ hub' = [hub EXCEPT !.feed = Keys]
     \/ /\ dev' # dev
        /\ mem' = [mem EXCEPT !.eng = Idle]
        /\ UNCHANGED hub
  /\ UNCHANGED ghost

(***************************************************************************)
(* The engine: the cycle.                                                  *)
(***************************************************************************)
Free == mem.up /\ mem.eng.pc = "idle"

\* Scanning k, the memory being `m` afterwards; a running job is done with.
Scan(k, m) ==
  /\ IF k \in mem.open THEN Finish(<<dev>>, m)
     ELSE Finish(ScanSteps(dev, k), [m EXCEPT !.skipped = @ \ {k}])
  /\ ghost' = IF k \in mem.open THEN ghost
              ELSE [ghost EXCEPT !.exempt = @ \ Settled(k)]

\* The startup scan; when it has read every key the engine and the mount start.
StartupScan(k) ==
  /\ k \in mem.unscanned
  /\ LET left == mem.unscanned \ {k} IN
     Scan(k, [mem EXCEPT !.unscanned = left, !.up = left = {}])

\* process_local_events (for an inotify event of k) and the recovery scans.
ScanKey(k) == Free /\ Scan(k, mem)

\* pull_key or run_conflict found the folder changed: read it again, and
\* decide for it once more later.
ScanAgain(k) ==
  /\ mem.eng.pc = "scan" /\ mem.eng.key = k
  /\ Scan(k, [mem EXCEPT !.recheck = @ \cup {k}])

\* recover_jobs, for one entry.
RecoverJob(k) ==
  /\ Free /\ mem.listing.todo = {} /\ k \notin mem.skipped
  /\ \/ /\ dev.entry[k].state = "Dirty" /\ dev.conflict[k] = None
        /\ PushId(k) \notin Ids(dev.jobs)
        /\ dev' = EnqueuePush(dev, k)
     \/ /\ dev.entry[k].state = "Tombstone"
        /\ DeleteId(k) \notin Ids(dev.jobs)
        /\ dev' = Enqueue(dev, DeleteId(k), None, None)
  /\ UNCHANGED <<mem, hub, ghost, faults>>

\* catch_up: the next change of the feed; its key is asked for afresh.
NextChange(k) ==
  /\ Free /\ mem.listing.todo = {} /\ k \in hub.feed
  /\ mem' = Engage([Told(k, hub.object[k]) EXCEPT !.src = "change"])
  /\ hub' = [hub EXCEPT !.feed = @ \ {k}]
  /\ UNCHANGED <<dev, ghost, faults>>

\* recheck_deferred: a key whose handle is still open stays deferred.
NextRecheck(k) ==
  /\ Free /\ mem.listing.todo = {} /\ k \in mem.recheck \ mem.open
  /\ mem' = [Engage([Told(k, hub.object[k]) EXCEPT !.src = "recheck"])
              EXCEPT !.recheck = @ \ {k}]
  /\ UNCHANGED <<dev, hub, ghost, faults>>

\* rebuild_from_listing: everything the hub holds, as it was when listed; the
\* cursor will be the listing's head.
StartListing ==
  /\ Free /\ mem.listing.todo = {}
  /\ mem' = [mem EXCEPT !.listing = [todo |-> Keys, remote |-> hub.object, touched |-> {}]]
  /\ hub' = [hub EXCEPT !.feed = {}]
  /\ UNCHANGED <<dev, ghost, faults>>

\* The next key of the listing.  A key some job touched since is skipped: its
\* own change will come on the feed.
NextListed(k) ==
  /\ Free /\ k \in mem.listing.todo
  /\ LET left == mem.listing.todo \ {k} IN
     mem' = [mem EXCEPT
               !.listing = [todo    |-> left,
                            remote  |-> [mem.listing.remote EXCEPT ![k] = None],
                            touched |-> mem.listing.touched \ {k}],
               !.eng = IF k \in mem.listing.touched THEN Idle
                       ELSE Told(k, mem.listing.remote[k])]
  /\ UNCHANGED <<dev, hub, ghost, faults>>

(***************************************************************************)
(* The engine: one key against what the hub said of it.                    *)
(***************************************************************************)
\* TrashLocal: trash_put moves the bytes, over an older copy of the key.
TrashSteps(d, k) ==
  LET d1 == SetFile(SetTrash(d, k, d.file[k]), k, None)
      d2 == RemoveJobsFor(d1, k)
      d3 == SetEntry(d2, k, NoEntry)
  IN  <<d1, d2, d3, SetBase(d3, k, None)>>

\* Adopt: base := L, whatever the entry says L is.
AdoptSteps(d, k) ==
  LET e  == d.entry[k]
      d1 == SetBase(d, k, IF e.state = "Absent" THEN None ELSE EntryDigest(e))
      d2 == IF e.state = "Absent" THEN d1 ELSE SetState(d1, k, "Clean")
  IN  <<d1, d2, RemoveJobsFor(d2, k)>>

\* Push: the base is void when the hub deleted the key under us.
RepushSteps(d, k, match) ==
  LET d1 == IF match = None THEN SetBase(d, k, None) ELSE d
      d2 == SetState(d1, k, "Dirty")
  IN  <<d1, d2, EnsureJob(d2, PushId(k), None)>>

UnlinkSteps(d, k) ==
  LET d1 == SetEntry(d, k, NoEntry) IN
  IF Deletes = "propagate" THEN <<EnsureJob(d, DeleteId(k), None)>>
                           ELSE <<d1, SetBase(d1, k, None)>>

\* reconcile_key.
Reconcile(k) ==
  LET e == dev.entry[k]
      answer == R!Decide(LocalDigest(e), dev.base[k], mem.eng.reply)
      Is(act) == answer.act = act
  IN
  /\ mem.eng.pc = "head" /\ mem.eng.key = k
  /\ IF mem.eng.moved
       THEN Finish(<<dev>>, mem) /\ UNCHANGED ghost   \* apply_change: a move came between
     ELSE IF k \in mem.open \/ PendingRename(dev, k)
       THEN Finish(<<dev>>, [mem EXCEPT !.recheck = @ \cup {k}]) /\ UNCHANGED ghost
     ELSE IF Is("Adopt") THEN Finish(AdoptSteps(dev, k), mem) /\ Misreads({k})
     ELSE
       /\ \/ Is("Nothing")      /\ Finish(<<dev>>, mem)
          \/ Is("Push")         /\ Finish(RepushSteps(dev, k, answer.match), mem)
          \/ Is("DeleteRemote") /\ Finish(UnlinkSteps(dev, k), mem)
          \/ Is("TrashLocal")   /\ Finish(TrashSteps(dev, k), mem)
          \/ Is("Pull")         /\ Commit(<<dev>>, Engage([At("pull", k) EXCEPT !.seen = e]))
          \/ Is("Conflict")     /\ Commit(<<dev>>, Engage([At("conflict", k) EXCEPT !.seen = e]))
       /\ UNCHANGED ghost

\* pull_key's first lock: what the landing will compare with.
PullStart(k) ==
  /\ mem.eng.pc = "pull" /\ mem.eng.key = k
  /\ IF dev.entry[k] # mem.eng.seen \/ k \in mem.open \/ PendingRename(dev, k)
       THEN Finish(<<dev>>, [mem EXCEPT !.recheck = @ \cup {k}])
     ELSE Commit(<<dev>>, Engage([At("get", k) EXCEPT !.seen = mem.eng.seen,
                                                      !.stamp = dev.file[k]]))
  /\ UNCHANGED ghost

\* The GET: whatever the hub holds by now, or nothing more to do.
PullGet(k) ==
  /\ mem.eng.pc = "get" /\ mem.eng.key = k
  /\ IF hub.object[k] = None THEN Finish(<<dev>>, mem)
     ELSE Commit(<<dev>>, Engage([mem.eng EXCEPT !.pc = "land", !.sha = hub.object[k]]))
  /\ UNCHANGED ghost

\* The downloaded file takes its name, unless anything moved meanwhile.
PullSteps(d, k, v) ==
  LET d1 == SetFile(d, k, v)
      d2 == SetEntry(d1, k, Hashed(v, "Clean"))
      d3 == SetBase(d2, k, v)
      d4 == SetTrash(d3, k, None)
  IN  <<d1, d2, d3, d4, RemoveJobsFor(d4, k)>>

\* The landing's own check, under the lock, just before the rename.
\* (Slip: only handles and directory moves are looked at.)
LandingOpen(k) == mem.eng.moved \/ k \in mem.open
LandingStale(k) ==
  \/ mem.eng.moved
  \/ dev.file[k] # mem.eng.stamp
  \/ dev.entry[k] # mem.eng.seen
  \/ k \in mem.open
  \/ PendingRename(dev, k)

PullLand(k) ==
  /\ mem.eng.pc = "land" /\ mem.eng.key = k
  /\ IF LandingStale(k)
       THEN Commit(<<dev>>, Engage(At("scan", k))) /\ UNCHANGED ghost
       ELSE /\ Finish(PullSteps(dev, k, mem.eng.sha), mem)
            /\ ghost' = [ghost EXCEPT !.seen = @ \cup {mem.eng.sha}]

\* record_conflict: keep a copy of our bytes, and queue its upload.
ConflictSteps(d, k) ==
  LET v  == d.file[k]
      d1 == Keep(d, v)
      d2 == IF EntryDigest(d.entry[k]) = v THEN d1
            ELSE SetEntry(d1, k, Hashed(v, "Dirty"))
      d3 == SetConflict(d2, k, v)
      d4 == RemoveJobsFor(d3, k)
  IN  IF d.conflict[k] = v
        THEN <<d1, d2, EnsureJob(d2, ConflictId(k), v)>>
        ELSE <<d1, d2, d3, d4, EnsureJob(d4, ConflictId(k), v)>>

\* Nothing left to snapshot.
\* (Slip: the entry is asked, not the folder.)
ForgottenLocally(k) == dev.entry[k].state = "Absent"
GoneLocally(k) == dev.file[k] = None

RecordConflict(k) ==
  /\ mem.eng.pc = "conflict" /\ mem.eng.key = k
  /\ \E lk \in Keys :
       /\ lk = LandedKey(dev, k)
       /\ IF GoneLocally(k)
            THEN Finish(<<dev>>, mem)
          ELSE IF k \in mem.open \/ PendingRename(dev, k) \/ dev.entry[k] # mem.eng.seen
            THEN Finish(<<dev>>, [mem EXCEPT !.recheck = @ \cup {lk}])
            ELSE Finish(ConflictSteps(dev, k), mem)
  /\ UNCHANGED ghost

(***************************************************************************)
(* The engine: the jobs.                                                   *)
(***************************************************************************)
Runnable(j) == j.after = {} /\ JobKeys(j) \cap mem.open = {}

\* drain_jobs selects j.
Select(j) == Free /\ Runnable(j)

\* A listing in progress remembers the keys of the jobs run meanwhile.
Touched(j) ==
  [mem.listing EXCEPT !.touched = @ \cup (JobKeys(j) \cap mem.listing.todo)]

\* The memory once j was selected and the engine is at e.
Selected(j, e) == [mem EXCEPT !.eng = e, !.listing = Touched(j)]

StartPush(j) ==
  /\ j.kind = "Push" /\ Select(j)
  /\ LET k == j.key
         e == dev.entry[k]
     IN  IF e.state # "Dirty"
           THEN Commit(<<Done(Mark(dev, j))>>, Selected(j, Idle))
           ELSE Commit(<<Mark(dev, j)>>,
                       Selected(j, [At("snap", k) EXCEPT !.seen = e, !.match = dev.base[k]]))
  /\ UNCHANGED ghost

\* run_push after the snapshot: the digest and the mark, then the request.
PushSend(k) ==
  /\ mem.eng.pc = "snap" /\ mem.eng.key = k
  /\ LET v  == dev.file[k]
         d1 == SetEntry(dev, k, Hashed(v, "Dirty"))
     IN  IF \/ mem.eng.moved
            \/ k \in mem.open
            \/ dev.entry[k] # mem.eng.seen
            \/ v = None
           THEN Commit(<<Unmark(dev)>>, Engage(Idle))       \* LocalChanged
           ELSE Commit(<<d1, SetPending(d1, k, v)>>,
                       Engage([At("put", k) EXCEPT !.sha = v, !.match = mem.eng.match]))
  /\ UNCHANGED ghost

\* The entry still says what was sent.
\* (Slips: any dirty entry will do; the digest run_push wrote is not expected.)
EditedSince(d, k, v) == d.entry[k].state = "Dirty"
NeverAsSent(d, k, v) == d.entry[k] = Intent(v)
AsSent(d, k, v) == d.entry[k] = Hashed(v, "Dirty") /\ k \notin mem.open

\* The uploaded version is the base of wherever the file is now; the entry
\* is clean only if it still names those bytes.
PushedSteps(d, k, lk, v) ==
  LET d1 == SetBase(d, lk, v)
      d2 == IF AsSent(d1, lk, v)
            THEN SetState(d1, lk, "Clean") ELSE d1
  IN  <<d1, d2, SetPending(d2, k, None)>>

\* A refused PUT changes nothing here: reconcile_key decides.
\* (Slip: the version in the way is taken for agreed.)
Rebased(d, k) == SetBase(d, k, mem.eng.reply)
Refused(d, k) == d

PushReply(k) ==
  /\ mem.eng.pc = "putdone" /\ mem.eng.key = k
  /\ \E lk \in Keys :
       /\ lk = LandedKey(dev, k)
       /\ IF mem.eng.out = "ok" THEN Finish(PushedSteps(dev, k, lk, mem.eng.sha), mem)
          ELSE IF lk # k THEN Commit(<<Unmark(dev)>>, Engage(Idle))
          ELSE Commit(<<Refused(dev, k)>>, Engage(Told(k, mem.eng.reply)))
  /\ UNCHANGED ghost

\* An entry that only remembers a delete is forgotten.
Forget(d, k) ==
  IF d.entry[k].state = "Tombstone" THEN SetEntry(d, k, NoEntry) ELSE d

StartDelete(j) ==
  /\ j.kind = "Delete" /\ Select(j)
  /\ \E lk \in Keys :
       /\ lk = LandedKey(dev, j.key)
       /\ LET expected == IF j.match # None THEN j.match
                          ELSE IF dev.base[lk] # None THEN dev.base[lk]
                          ELSE dev.pending[j.key]
          IN  IF expected = None
                THEN Commit(<<Forget(dev, lk), Done(Mark(Forget(dev, lk), j))>>,
                            Selected(j, Idle))
                ELSE Commit(<<Mark(dev, j)>>,
                            Selected(j, [At("del", j.key) EXCEPT
                                           !.match = expected, !.fixed = j.match # None]))
  /\ UNCHANGED ghost

DeletedSteps(d, k, lk, fixed) ==
  LET d1 == IF fixed THEN d ELSE Forget(d, lk)
      d2 == IF fixed THEN d1 ELSE SetBase(d1, lk, None)
  IN  <<d1, d2, SetPending(d2, k, None)>>

DeleteReply(k) ==
  /\ mem.eng.pc = "deldone" /\ mem.eng.key = k
  /\ \E lk \in Keys :
       /\ lk = LandedKey(dev, k)
       /\ IF mem.eng.out = "ok" THEN Finish(DeletedSteps(dev, k, lk, mem.eng.fixed), mem)
          ELSE IF mem.eng.fixed \/ lk # k THEN Commit(<<Unmark(dev)>>, Engage(Idle))
          ELSE Commit(<<dev>>, Engage(Told(k, mem.eng.reply)))
  /\ UNCHANGED ghost

StartRename(j) ==
  /\ j.kind = "Rename" /\ Select(j)
  /\ \E lk \in Keys :
       /\ lk = LandedKey(dev, j.to)
       /\ Commit(<<Mark(dev, j)>>,
                 Selected(j, [At("ren", j.key) EXCEPT !.to = j.to,
                    !.match = IF dev.base[lk] # None THEN dev.base[lk]
                              ELSE dev.pending[j.key]]))
  /\ UNCHANGED ghost

\* The hub no longer has what we renamed: our bytes are a new file.
OrphanSteps(d, lk) ==
  LET d1 == SetBase(d, lk, None)
      d2 == SetState(d1, lk, "Dirty")
  IN  IF d1.entry[lk].state = "Absent" THEN <<d1>>
      ELSE <<d1, d2, EnsureJob(d2, PushId(lk), None)>>

RenameReply(from, to) ==
  /\ mem.eng.pc = "rendone" /\ mem.eng.key = from /\ mem.eng.to = to
  /\ \E lk \in Keys :
       /\ lk = LandedKey(dev, to)
       /\ \/ /\ mem.eng.out = "ok"
             /\ Finish(<<dev>>, mem) /\ UNCHANGED ghost
          \/ /\ mem.eng.out = "missing" /\ Misreads({lk})
             /\ Finish(IF dev.file[lk] # None THEN OrphanSteps(dev, lk)
                       ELSE LET d1 == SetBase(dev, lk, None)
                            IN  <<d1, SetEntry(d1, lk, NoEntry)>>,
                       mem)
          \/ /\ mem.eng.out = "mismatch" /\ Misreads({lk})
             /\ Commit(OrphanSteps(dev, lk), Engage(Told(from, mem.eng.reply)))
          \/ /\ mem.eng.out = "exists"
             /\ Commit(<<dev>>, Engage([At("target", from) EXCEPT !.to = to,
                                                                  !.reply = hub.object[to]]))
             /\ UNCHANGED ghost

\* Someone took the target: their version is decided against at `to`.  A
\* target renamed on meanwhile makes it a refusal: the job is given up.
RenameTarget(from, to) ==
  /\ mem.eng.pc = "target" /\ mem.eng.key = from /\ mem.eng.to = to
  /\ \E lk \in Keys :
       /\ lk = LandedKey(dev, to)
       /\ IF lk = to THEN Commit(<<SetBase(dev, to, None)>>, Engage(Told(to, mem.eng.reply)))
          ELSE Finish(<<dev>>, [mem EXCEPT !.skipped = @ \cup {from}])
  /\ UNCHANGED ghost

StartConflict(j) ==
  /\ j.kind = "Conflict" /\ Select(j)
  /\ Commit(<<Mark(dev, j)>>, Selected(j, [At("copy", j.key) EXCEPT !.sha = j.sha]))
  /\ UNCHANGED ghost

CopyReply(k) ==
  /\ mem.eng.pc = "copied" /\ mem.eng.key = k
  /\ \E lk \in Keys :
       /\ lk = LandedKey(dev, k)
       /\ LET d1 == SetConflict(dev, lk, None) IN
          IF lk # k THEN Finish(<<d1>>, mem)
          ELSE Commit(<<d1>>, Engage([At("hash", k) EXCEPT !.sha = mem.eng.sha]))
  /\ UNCHANGED ghost

\* A newer save that arrived while the copy uploaded is not for the pull.
ConflictHash(k) ==
  /\ mem.eng.pc = "hash" /\ mem.eng.key = k
  /\ mem' = Engage(At(IF dev.file[k] \notin {None, mem.eng.sha} \/ k \in mem.open
                      THEN "scan" ELSE "take", k))
  /\ UNCHANGED <<dev, hub, ghost, faults>>

\* The entry to expect, read without the lock, and the hub's version now.
ConflictTake(k) ==
  /\ mem.eng.pc = "take" /\ mem.eng.key = k
  /\ IF hub.object[k] # None
       THEN Commit(<<dev>>, Engage([At("pull", k) EXCEPT !.seen = dev.entry[k]]))
            /\ UNCHANGED ghost
       ELSE LET d1 == SetBase(dev, k, None)
                d2 == IF d1.entry[k].state = "Absent" THEN d1 ELSE SetState(d1, k, "Dirty")
            IN  Finish(<<d1, d2, EnsureJob(d2, PushId(k), None)>>, mem) /\ Misreads({k})

(***************************************************************************)
(* The specification.                                                      *)
(***************************************************************************)
StartJob == \E j \in dev.jobs :
              StartPush(j) \/ StartDelete(j) \/ StartRename(j) \/ StartConflict(j)

Session(k) == \/ Open(k) \/ Write(k) \/ Flush(k) \/ Close(k) \/ Unlink(k)
              \/ \E to \in Keys : Rename(k, to)

HubAnswers(k) == \/ HubPut(k) \/ HubDelete(k) \/ HubCopy(k)
                 \/ \E to \in Keys : HubRename(k, to)

\* The engine finishing what it is in the middle of.
Proceed(k) ==
  \/ ScanAgain(k) \/ Reconcile(k) \/ PullStart(k) \/ PullGet(k) \/ PullLand(k)
  \/ RecordConflict(k) \/ PushSend(k) \/ PushReply(k) \/ DeleteReply(k)
  \/ CopyReply(k) \/ ConflictHash(k) \/ ConflictTake(k)
  \/ \E to \in Keys : RenameReply(k, to) \/ RenameTarget(k, to)

\* The engine choosing what to do next.
Cycle ==
  \/ StartJob \/ StartListing
  \/ \E k \in Keys : \/ StartupScan(k) \/ ScanKey(k) \/ RecoverJob(k)
                     \/ NextChange(k) \/ NextRecheck(k) \/ NextListed(k)

Next ==
  \/ \E k \in Keys : Session(k) \/ FolderEdit(k) \/ Peer(k) \/ HubAnswers(k) \/ Proceed(k)
  \/ Cycle \/ Disconnect \/ ProcessCrash

Spec == Init /\ [][Next]_vars

\* The hub answers, the engine finishes what it started, and every part of the
\* cycle comes round again however often the others run: catch_up, the deferred
\* keys and the jobs in every cycle, the folder scan and the listing hourly.
Fairness ==
  /\ \A k \in Keys :
       /\ WF_vars(HubAnswers(k)) /\ WF_vars(Proceed(k)) /\ WF_vars(StartupScan(k))
       /\ SF_vars(ScanKey(k)) /\ SF_vars(RecoverJob(k)) /\ SF_vars(NextRecheck(k))
       /\ SF_vars(NextListed(k))
  /\ SF_vars(StartJob) /\ SF_vars(StartListing)

FairSpec == Spec /\ Fairness

(***************************************************************************)
(* Properties.                                                             *)
(***************************************************************************)
\* Where this device keeps bytes: the folder, the trash, conflict snapshots.
Kept == Range(dev.file) \cup Range(dev.trash) \cup dev.snaps

\* No bytes the user saved are destroyed before the hub has them: until then
\* the folder, the trash or a conflict snapshot holds them, whatever the
\* engine, the peers and the crashes do.  Saves inside a window of a known
\* finding are exempt.
NoSaveLost == ghost.unsent \ ghost.exempt \subseteq Kept

\* A download takes the place of a local file only when its bytes are on the
\* hub or kept elsewhere.
PullsKeepSaves ==
  [][\A k \in Keys :
       mem.eng.pc = "land" /\ mem.eng.key = k /\ dev'.file[k] = mem.eng.sha
         => dev.file[k] \notin ghost.unsent \ (Range(dev.trash) \cup dev.snaps)]_vars

\* A save that has not reached the hub is never taken for a synced file: once
\* its handle is closed, its entry says Dirty or a conflict record waits.
SavesAreTracked ==
  \A k \in Keys :
    mem.up /\ k \notin mem.open /\ dev.file[k] \in ghost.unsent \ ghost.exempt
      => dev.entry[k].state = "Dirty" \/ dev.conflict[k] # None

\* The mirror trashes a file only when a peer removed those very bytes.
TrashOnlyRemoved ==
  Range(dev.trash) \subseteq ghost.removed \cup ghost.exempt \cup {None}

\* The same of every save, without exception (README, "Hub deletes go to a
\* local trash"; reconcile.rs, Action::TrashLocal).
HubDeletesOnly == Range(dev.trash) \subseteq ghost.removed \cup {None}

\* Every version the mirror keeps, agrees on or names in a precondition is one
\* its folder has held: what a peer wrote enters the ledger only by a download.
KnownVersions ==
  /\ dev \in DeviceOf(ghost.seen)
  /\ mem \in MemoryOf(ghost.seen)

\* A request of this mirror replaces or removes an object of the hub only if
\* it is a version this folder has held; a rename may move any, and keeps it.
NoBlindOverwrite ==
  [][ghost'.next = ghost.next /\ ghost'.removed = ghost.removed
     => Range(hub.object) \subseteq Range(hub'.object) \cup ghost.seen \cup {None}]_vars

\* A request of this mirror takes an object off its hub key only while the
\* ledger does not hold that very version as synced under that key: a delete
\* or a rename that a newer version overtook is not sent.
HubKeepsSynced ==
  [][ghost'.next = ghost.next /\ ghost'.removed = ghost.removed
     => \A k \in Keys : dev.entry[k] = Hashed(hub.object[k], "Clean")
                        => hub'.object[k] = hub.object[k]]_vars

InStep == /\ dev.file = hub.object /\ dev.base = hub.object
          /\ dev.jobs = {} /\ mem.open = {}

\* Once the users, here and elsewhere, leave the files alone, the folder and
\* the hub become the same and stay the same, with nothing left to send: no
\* change, job, deferred key or refused request is forgotten for good.
Converges == <>[](mem.open = {}) => <>[]InStep
==============================================================================
