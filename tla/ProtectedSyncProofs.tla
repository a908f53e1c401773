-------------------------- MODULE ProtectedSyncProofs --------------------------
(***************************************************************************)
(* What a protected mount promises, for every set of keys, every number of *)
(* saves, changes, faults and renames, and both delete modes: whatever was *)
(* queued before, and wherever a crash comes, the folder and the hub lose  *)
(* nothing to the engine.                                                  *)
(*                                                                         *)
(* The mirror's own invariant (MirrorSyncProofs) is carried along: a       *)
(* recovery keeps it because what it has in hand is known (RecKnows).  On  *)
(* top of it, an engine whose every step was a protected one never has a   *)
(* request out that could replace anything, nor a download that could land *)
(* on a file (Harmless).                                                   *)
(***************************************************************************)
EXTENDS ProtectedSync, MirrorSyncProofs, FiniteSetTheorems

(***************************************************************************)
(* The operators of Ledger that leave the folder alone.                    *)
(***************************************************************************)
\* The device d is one whose folder is F.
Folder(d, F) == "file" \in DOMAIN d /\ d.file = F

\* The store's tables are not the folder.
LEMMA TablesKeepFolder ==
  ASSUME NEW d, NEW F, Folder(d, F), NEW k, NEW v
  PROVE  /\ Folder(SetEntry(d, k, v), F)
         /\ Folder(SetBase(d, k, v), F)
         /\ Folder(SetPending(d, k, v), F)
         /\ Folder(SetConflict(d, k, v), F)
         /\ Folder(SetTrash(d, k, v), F)
         /\ Folder(SetState(d, k, v), F)
BY DEF Folder, SetEntry, SetBase, SetPending, SetConflict, SetTrash, SetState

\* Nor is the queue.
LEMMA QueueKeepsFolder ==
  ASSUME NEW d, NEW F, Folder(d, F), NEW k, NEW id, NEW m, NEW v
  PROVE  /\ Folder(Enqueue(d, id, m, v), F)
         /\ Folder(EnqueuePush(d, k), F)
         /\ Folder(EnsureJob(d, id, v), F)
         /\ Folder(RemoveJobsFor(d, k), F)
         /\ Folder(Done(d), F)
         /\ Folder(Unmark(d), F)
         /\ Folder(Mark(d, v), F)
<1>1. \A js : Folder([d EXCEPT !.jobs = js], F)  BY DEF Folder
<1>2. \A i, x, y : Folder(Enqueue(d, i, x, y), F)  BY <1>1 DEF Enqueue
<1>3. Folder(EnqueuePush(d, k), F)  BY <1>2 DEF EnqueuePush
<1>4. Folder(EnsureJob(d, id, v), F)  BY <1>2 DEF EnsureJob
<1>5. /\ Folder(RemoveJobsFor(d, k), F) /\ Folder(Done(d), F)
      /\ Folder(Unmark(d), F) /\ Folder(Mark(d, v), F)
  BY <1>1 DEF RemoveJobsFor, Done, Unmark, Mark
<1> QED  BY <1>2, <1>3, <1>4, <1>5

\* note_local_gone touches the ledger only.
LEMMA NoteGoneFolder ==
  ASSUME NEW d, NEW F, Folder(d, F), NEW k
  PROVE  Folder(Last(NoteGone(d, k)), F)
<1> DEFINE d1 == RemoveJobsFor(d, k)
           d2 == SetState(d1, k, "Tombstone")
           d3 == Enqueue(d2, DeleteId(k), None, None)
           forgot == SetEntry(d1, k, NoEntry)
           last == SetBase(forgot, k, None)
<1>1. Folder(d1, F)  BY QueueKeepsFolder
<1>2. Folder(d2, F) /\ Folder(forgot, F)
  <2> HIDE DEF d1
  <2> QED  BY <1>1, TablesKeepFolder
<1>3. Folder(d3, F)
  <2> HIDE DEF d2
  <2> QED  BY <1>2, QueueKeepsFolder
<1>4. Folder(last, F)
  <2> HIDE DEF forgot
  <2> QED  BY <1>2, TablesKeepFolder
<1> HIDE DEF d1, d2, d3, forgot, last
<1>5. \/ NoteGone(d, k) = <<d>>
      \/ NoteGone(d, k) = <<d1, d2, d3>>
      \/ NoteGone(d, k) = <<d1, forgot, last>>
  BY DEF NoteGone, d1, d2, d3, forgot, last
<1>6. Last(NoteGone(d, k)) \in {d, d3, last}  BY <1>5 DEF Last
<1> QED  BY <1>3, <1>4, <1>6

\* A scan reads the folder.
LEMMA ScanFolder ==
  ASSUME NEW d, NEW F, Folder(d, F), NEW k
  PROVE  Folder(Last(ScanSteps(d, k)), F)
<1> DEFINE d1 == SetEntry(d, k, Hashed(d.file[k], "Dirty"))
           d2 == SetTrash(d1, k, None)
           d3 == EnqueuePush(d2, k)
<1>1. Folder(d1, F)  BY TablesKeepFolder
<1>2. Folder(d2, F)
  <2> HIDE DEF d1
  <2> QED  BY <1>1, TablesKeepFolder
<1>3. Folder(d3, F)
  <2> HIDE DEF d2
  <2> QED  BY <1>2, QueueKeepsFolder
<1> HIDE DEF d1, d2, d3
<1>4. \/ ScanSteps(d, k) = <<d>>
      \/ ScanSteps(d, k) = <<d1, d2, d3>>
      \/ ScanSteps(d, k) = NoteGone(d, k)
  BY DEF ScanSteps, d1, d2, d3
<1>5. CASE ScanSteps(d, k) = NoteGone(d, k)
  BY <1>5, NoteGoneFolder
<1>6. CASE ScanSteps(d, k) = <<d>> \/ ScanSteps(d, k) = <<d1, d2, d3>>
  <2>1. Last(ScanSteps(d, k)) = d \/ Last(ScanSteps(d, k)) = d3  BY SMTT(60), <1>6 DEF Last
  <2> QED  BY <1>3, <2>1
<1> QED  BY <1>4, <1>5, <1>6

\* Adopting what both sides hold, and pushing again, touch the ledger only.
LEMMA SettleFolder ==
  ASSUME NEW d, NEW F, Folder(d, F), NEW k, NEW m
  PROVE  /\ Folder(Last(AdoptSteps(d, k)), F)
         /\ Folder(Last(RepushSteps(d, k, m)), F)
<1>1. Folder(Last(AdoptSteps(d, k)), F)
  <2> DEFINE e  == d.entry[k]
             d1 == SetBase(d, k, IF e.state = "Absent" THEN None ELSE EntryDigest(e))
             d2 == IF e.state = "Absent" THEN d1 ELSE SetState(d1, k, "Clean")
             d3 == RemoveJobsFor(d2, k)
  <2>1. Folder(d1, F)  BY TablesKeepFolder
  <2> HIDE DEF d1
  <2>2. Folder(d2, F)  BY <2>1, TablesKeepFolder
  <2> HIDE DEF d2
  <2>3. Folder(d3, F)  BY <2>2, QueueKeepsFolder
  <2> HIDE DEF d3
  <2>4. AdoptSteps(d, k) = <<d1, d2, d3>>  BY DEF AdoptSteps, d1, d2, d3
  <2>5. Last(AdoptSteps(d, k)) = d3  BY <2>4 DEF Last
  <2> QED  BY <2>3, <2>5
<1>2. Folder(Last(RepushSteps(d, k, m)), F)
  <2> DEFINE d1 == IF m = None THEN SetBase(d, k, None) ELSE d
             d2 == SetState(d1, k, "Dirty")
             d3 == EnsureJob(d2, PushId(k), None)
  <2>1. Folder(d1, F)  BY TablesKeepFolder
  <2> HIDE DEF d1
  <2>2. Folder(d2, F)  BY <2>1, TablesKeepFolder
  <2> HIDE DEF d2
  <2>3. Folder(d3, F)  BY <2>2, QueueKeepsFolder
  <2> HIDE DEF d3
  <2>4. RepushSteps(d, k, m) = <<d1, d2, d3>>  BY DEF RepushSteps, d1, d2, d3
  <2>5. Last(RepushSteps(d, k, m)) = d3  BY <2>4 DEF Last
  <2> QED  BY <2>3, <2>5
<1> QED  BY <1>1, <1>2

\* A push acknowledged touches the ledger only: by the engine and by a recovery.
LEMMA AcknowledgeFolder ==
  ASSUME NEW d, NEW F, Folder(d, F), NEW k, NEW lk, NEW v
  PROVE  /\ Folder(Last(PushedSteps(d, k, lk, v)), F)
         /\ \A i \in 1..5 : Folder(RecPushed(d, k, v)[i], F)
<1>1. Folder(Last(PushedSteps(d, k, lk, v)), F)
  <2> DEFINE d1 == SetBase(d, lk, v)
             d2 == IF AsSent(d1, lk, v) THEN SetState(d1, lk, "Clean") ELSE d1
             d3 == SetPending(d2, k, None)
  <2>1. Folder(d1, F)  BY TablesKeepFolder
  <2> HIDE DEF d1
  <2>2. Folder(d2, F)  BY <2>1, TablesKeepFolder
  <2> HIDE DEF d2
  <2>3. Folder(d3, F)  BY <2>2, TablesKeepFolder
  <2> HIDE DEF d3
  <2>4. PushedSteps(d, k, lk, v) = <<d1, d2, d3>>  BY DEF PushedSteps, d1, d2, d3
  <2>5. Last(PushedSteps(d, k, lk, v)) = d3  BY <2>4 DEF Last
  <2> QED  BY <2>3, <2>5
<1>2. \A i \in 1..5 : Folder(RecPushed(d, k, v)[i], F)
  <2> DEFINE d1 == SetBase(d, k, v)
             d2 == SetEntry(d1, k, Hashed(v, "Clean"))
             gone == {j \in d.jobs : j.key = k /\ j.kind \in {"Push", "Conflict"}}
             d3 == [d2 EXCEPT !.jobs = Dequeue(@, gone)]
             d4 == SetConflict(d3, k, None)
             d5 == SetPending(d4, k, None)
  <2>1. Folder(d1, F)  BY TablesKeepFolder
  <2> HIDE DEF d1
  <2>2. Folder(d2, F)  BY <2>1, TablesKeepFolder
  <2> HIDE DEF d2
  <2>3. Folder(d3, F)  BY <2>2 DEF Folder
  <2> HIDE DEF d3
  <2>4. Folder(d4, F)  BY <2>3, TablesKeepFolder
  <2> HIDE DEF d4
  <2>5. Folder(d5, F)  BY <2>4, TablesKeepFolder
  <2> HIDE DEF d5
  <2>6. RecPushed(d, k, v) = <<d1, d2, d3, d4, d5>>
    BY DEF RecPushed, d1, d2, d3, d4, d5
  <2> QED  BY <2>1, <2>2, <2>3, <2>4, <2>5, <2>6
<1> QED  BY <1>1, <1>2

(***************************************************************************)
(* The engine of a protected mount.                                        *)
(***************************************************************************)
\* What it is in the middle of can cost nobody a version: no delete or rename
\* is out, a download is for an empty slot, a PUT for an empty key or for one
\* that holds the very bytes.
Harmless(e) ==
  /\ e.pc \notin {"del", "ren"}
  /\ e.pc \in {"get", "land"} => e.stamp = None
  /\ e.pc = "put" => e.match \in {None, e.sha}

\* Every file there is stays.
FilesStay == \A k \in Keys : dev.file[k] # None => dev'.file[k] = dev.file[k]

Calm == FilesStay /\ Harmless(mem'.eng)

\* An engine that has just finished or is just asking.
LEMMA HarmlessPlaces ==
  ASSUME NEW k
  PROVE  /\ Harmless(Idle) /\ Idle.pc = "idle"
         /\ \A pc \in PCs \ {"del", "ren", "get", "land", "put"} :
              \A e : Harmless(At(pc, k)) /\ Harmless([At(pc, k) EXCEPT !.seen = e])
         /\ \A r, src : Harmless(Told(k, r)) /\ Harmless([Told(k, r) EXCEPT !.src = src])
<1>1. Harmless(Idle) /\ Idle.pc = "idle"  BY DEF Harmless, Idle
<1>2. ASSUME NEW pc \in PCs \ {"del", "ren", "get", "land", "put"}, NEW e
      PROVE  Harmless(At(pc, k)) /\ Harmless([At(pc, k) EXCEPT !.seen = e])
  BY DEF Harmless, At, Idle
<1>3. ASSUME NEW r, NEW src
      PROVE  Harmless(Told(k, r)) /\ Harmless([Told(k, r) EXCEPT !.src = src])
  BY DEF Harmless, Told, At, Idle
<1> QED  BY <1>1, <1>2, <1>3

\* The folder of this device is its folder.
LEMMA FolderOfDev == IInv => Folder(dev, dev.file)
BY DEF IInv, KnownVersions, DeviceOf, Folder

\* A handler that no crash interrupts makes all of its writes.
LEMMA FaultlessCommit ==
  ASSUME IInv, faults' = faults, NEW steps, NEW m, Commit(steps, m)
  PROVE  dev' = Last(steps) /\ mem' = m
<1>1. faults + 1 # faults  BY MirrorAssumption DEF IInv
<1> QED  BY <1>1 DEF Commit, Crash

\* Such a handler, when it leaves the folder and something harmless.
LEMMA CalmCommit ==
  ASSUME IInv, faults' = faults, NEW steps, NEW m, Commit(steps, m),
         Folder(Last(steps), dev.file), Harmless(m.eng)
  PROVE  Calm
BY FaultlessCommit DEF Folder, Calm, FilesStay

\* The same, when it ends the job.
LEMMA CalmFinish ==
  ASSUME IInv, faults' = faults, NEW steps \in StepsOf(ghost.seen),
         NEW m \in MemoryOf(ghost.seen), Finish(steps, m),
         Folder(Last(steps), dev.file)
  PROVE  Calm
<1> DEFINE d == Done(Last(steps))
           all == Append(steps, d)
           n == [m EXCEPT !.eng = Idle]
<1>1. n.eng = Idle  BY DEF MemoryOf
<1>2. Commit(all, n)  BY DEF Finish
<1>3. Last(all) = d
  <2>1. steps \in Seq(DeviceOf(ghost.seen))  BY DEF StepsOf
  <2> HIDE DEF d
  <2>2. Len(all) = Len(steps) + 1 /\ all[Len(steps) + 1] = d  BY <2>1
  <2> QED  BY <2>2 DEF Last
<1>4. Folder(d, dev.file)  BY QueueKeepsFolder
<1>5. Harmless(n.eng)  BY <1>1, HarmlessPlaces
<1> HIDE DEF d, all, n
<1> QED  BY <1>2, <1>3, <1>4, <1>5, CalmCommit

\* Leaving everything as it was, and going somewhere harmless.
LEMMA CalmEngage ==
  ASSUME IInv, faults' = faults, NEW e, Harmless(e), Commit(<<dev>>, Engage(e))
  PROVE  Calm
<1>1. Last(<<dev>>) = dev  BY DEF Last
<1>2. Engage(e).eng = e  BY Parts DEF Engage, MemoryOf
<1> QED  BY <1>1, <1>2, FolderOfDev, CalmCommit

\* Leaving everything as it was, the handler over.
LEMMA CalmStop ==
  ASSUME IInv, faults' = faults, NEW m \in MemoryOf(ghost.seen), Finish(<<dev>>, m)
  PROVE  Calm
<1>1. Last(<<dev>>) = dev  BY DEF Last
<1> QED  BY <1>1, FolderOfDev, Parts, CalmFinish

\* A job left queued.
LEMMA CalmBlock ==
  ASSUME IInv, faults' = faults, Commit(<<Unmark(dev)>>, Engage(Idle))
  PROVE  Calm
<1>1. Last(<<Unmark(dev)>>) = Unmark(dev)  BY DEF Last
<1>2. Engage(Idle).eng = Idle  BY Parts DEF Engage, MemoryOf
<1>3. Folder(Unmark(dev), dev.file)  BY FolderOfDev, QueueKeepsFolder
<1> QED  BY <1>1, <1>2, <1>3, HarmlessPlaces, CalmCommit

\* A scan, whatever memory it leaves.
LEMMA ScanCalm ==
  ASSUME IInv, faults' = faults, NEW k \in Keys, NEW m \in MemoryOf(ghost.seen),
         Scan(k, m)
  PROVE  Calm
<1>1. CASE k \in mem.open
  BY <1>1, CalmStop DEF Scan
<1>2. CASE k \notin mem.open
  <2>1. [m EXCEPT !.skipped = @ \ {k}] \in MemoryOf(ghost.seen)  BY DEF MemoryOf
  <2>2. Finish(ScanSteps(dev, k), [m EXCEPT !.skipped = @ \ {k}])  BY <1>2 DEF Scan
  <2>3. ScanSteps(dev, k) \in StepsOf(ghost.seen)  BY Parts, ScanStepsSteps
  <2>4. Folder(Last(ScanSteps(dev, k)), dev.file)  BY FolderOfDev, ScanFolder
  <2> QED  BY <2>1, <2>2, <2>3, <2>4, CalmFinish
<1> QED  BY <1>1, <1>2

\* The three places a key is scanned from.
LEMMA ScansCalm ==
  ASSUME IInv, faults' = faults, NEW k \in Keys,
         StartupScan(k) \/ ScanKey(k) \/ ScanAgain(k)
  PROVE  Calm
<1>1. mem \in MemoryOf(ghost.seen)  BY Parts
<1>2. CASE StartupScan(k)
  <2> DEFINE left == mem.unscanned \ {k}
             m == [mem EXCEPT !.unscanned = left, !.up = left = {}]
  <2>1. m \in MemoryOf(ghost.seen)  BY <1>1 DEF MemoryOf
  <2>2. Scan(k, m)  BY <1>2 DEF StartupScan
  <2> QED  BY SMTT(60), <2>1, <2>2, ScanCalm
<1>3. CASE ScanKey(k)
  BY <1>1, <1>3, ScanCalm DEF ScanKey
<1>4. CASE ScanAgain(k)
  <2>1. [mem EXCEPT !.recheck = @ \cup {k}] \in MemoryOf(ghost.seen)
    BY <1>1 DEF MemoryOf
  <2> QED  BY <1>4, <2>1, ScanCalm DEF ScanAgain
<1> QED  BY <1>2, <1>3, <1>4

\* rebuild_from_listing.
LEMMA StartListingCalm ==
  ASSUME IInv, Harmless(mem.eng), StartListing
  PROVE  Calm
<1>1. mem'.eng = mem.eng /\ dev' = dev  BY Parts DEF StartListing, MemoryOf
<1> QED  BY <1>1 DEF Calm, FilesStay

\* recover_jobs, catch_up, recheck_deferred and the keys of the listing.
LEMMA CycleCalm ==
  ASSUME IInv, faults' = faults, NEW k \in Keys,
         Harmless(mem.eng),
         RecoverJob(k) \/ NextChange(k) \/ NextRecheck(k) \/ NextListed(k)
  PROVE  Calm
<1>1. mem \in MemoryOf(ghost.seen)  BY Parts
<1>2. CASE RecoverJob(k)
  <2>1. Folder(dev', dev.file)
    BY <1>2, FolderOfDev, QueueKeepsFolder DEF RecoverJob
  <2>2. mem' = mem  BY <1>2 DEF RecoverJob
  <2> QED  BY <2>1, <2>2 DEF Calm, FilesStay, Folder
<1>3. CASE NextChange(k) \/ NextRecheck(k)
  <2>1. PICK src : mem'.eng = [Told(k, hub.object[k]) EXCEPT !.src = src]
    BY <1>1, <1>3 DEF NextChange, NextRecheck, Engage, MemoryOf
  <2>2. dev' = dev  BY <1>3 DEF NextChange, NextRecheck
  <2>3. Harmless([Told(k, hub.object[k]) EXCEPT !.src = src])  BY HarmlessPlaces
  <2>4. Harmless(mem'.eng)  BY <2>1, <2>3
  <2> QED  BY <2>2, <2>4 DEF Calm, FilesStay
<1>4. CASE NextListed(k)
  <2>1. mem'.eng = Idle \/ mem'.eng = Told(k, mem.listing.remote[k])
    BY <1>1, <1>4 DEF NextListed, MemoryOf
  <2>2. dev' = dev  BY <1>4 DEF NextListed
  <2>3. Harmless(Idle) /\ Harmless(Told(k, mem.listing.remote[k]))  BY HarmlessPlaces
  <2>4. Harmless(mem'.eng)  BY <2>1, <2>3
  <2> QED  BY <2>2, <2>4 DEF Calm, FilesStay
<1> QED  BY <1>2, <1>3, <1>4

\* reconcile_key, of what it may do: no delete of a peer is applied, no
\* conflict is recorded, nothing is removed.
LEMMA ReconcileCalm ==
  ASSUME IInv, faults' = faults, NEW k \in Keys, ProtectedReconcile(k), Harmless(mem.eng)
  PROVE  Calm
<1> DEFINE e == dev.entry[k]
           answer == R!Decide(LocalDigest(e), dev.base[k], mem.eng.reply)
<1>1. /\ mem \in MemoryOf(ghost.seen) /\ dev \in DeviceOf(ghost.seen)
      /\ [mem EXCEPT !.recheck = @ \cup {k}] \in MemoryOf(ghost.seen)
  BY Parts, RecheckMemory
<1>2. CASE Finish(<<dev>>, mem) \/ Finish(<<dev>>, [mem EXCEPT !.recheck = @ \cup {k}])
  BY <1>1, <1>2, CalmStop
<1>3. CASE Finish(RepushSteps(dev, k, answer.match), mem)
  <2>1. RepushSteps(dev, k, answer.match) \in StepsOf(ghost.seen)
    BY <1>1, RepushStepsSteps
  <2>2. Folder(Last(RepushSteps(dev, k, answer.match)), dev.file)
    BY FolderOfDev, SettleFolder
  <2> QED  BY <1>1, <1>3, <2>1, <2>2, CalmFinish
<1>4. CASE Finish(AdoptSteps(dev, k), mem)
  <2>1. AdoptSteps(dev, k) \in StepsOf(ghost.seen)  BY <1>1, AdoptStepsSteps
  <2>2. Folder(Last(AdoptSteps(dev, k)), dev.file)  BY FolderOfDev, SettleFolder
  <2> QED  BY <1>1, <1>4, <2>1, <2>2, CalmFinish
<1>5. CASE Commit(<<dev>>, Engage([At("pull", k) EXCEPT !.seen = e]))
  <2>1. Harmless([At("pull", k) EXCEPT !.seen = e])  BY HarmlessPlaces DEF PCs
  <2> QED  BY <1>5, <2>1, CalmEngage
<1> HIDE DEF answer, e
<1>6. CASE /\ ~ (mem.eng.pc # "head" \/ mem.eng.key # k)
           /\ ~ mem.eng.moved /\ ~ Deferred(k)
           /\ Additive(k, answer) /\ Reconcile(k)
  <2>1. \/ Finish(<<dev>>, mem)
        \/ answer.act = "Push" /\ Finish(RepushSteps(dev, k, answer.match), mem)
        \/ answer.act = "DeleteRemote" /\ Finish(UnlinkSteps(dev, k), mem)
        \/ answer.act = "TrashLocal" /\ Finish(TrashSteps(dev, k), mem)
        \/ answer.act = "Adopt" /\ Finish(AdoptSteps(dev, k), mem)
        \/ answer.act = "Pull" /\ Commit(<<dev>>, Engage([At("pull", k) EXCEPT !.seen = e]))
        \/ answer.act = "Conflict" /\ Commit(<<dev>>, Engage([At("conflict", k) EXCEPT !.seen = e]))
    BY <1>6 DEF Reconcile, Deferred, answer, e
  <2>2. answer.act \in {"Nothing", "Adopt", "Pull", "Push"}  BY <1>6 DEF Additive
  <2> QED  BY <1>2, <1>3, <1>4, <1>5, <2>1, <2>2
<1>7. CASE (mem.eng.moved \/ Deferred(k)) /\ Reconcile(k)
  <2>1. \/ Finish(<<dev>>, mem)
        \/ Finish(<<dev>>, [mem EXCEPT !.recheck = @ \cup {k}])
    BY <1>7 DEF Reconcile, Deferred
  <2> QED  BY <1>2, <2>1
<1>8. CASE (mem.eng.pc # "head" \/ mem.eng.key # k) /\ Reconcile(k)
  BY <1>8 DEF Reconcile
<1>9. CASE ~ Reconcile(k)
  BY <1>2, <1>9 DEF ProtectedReconcile
<1> QED  BY <1>2, <1>6, <1>7, <1>8, <1>9 DEF ProtectedReconcile, answer, e

\* pull_key, its first lock: into an empty slot only.
LEMMA PullStartCalm ==
  ASSUME IInv, faults' = faults, NEW k \in Keys, ProtectedPull(k)
  PROVE  Calm
<1> DEFINE get == [At("get", k) EXCEPT !.seen = mem.eng.seen, !.stamp = dev.file[k]]
<1>1. /\ mem \in MemoryOf(ghost.seen)
      /\ [mem EXCEPT !.recheck = @ \cup {k}] \in MemoryOf(ghost.seen)
  BY Parts, RecheckMemory
<1>2. CASE Finish(<<dev>>, mem) \/ Finish(<<dev>>, [mem EXCEPT !.recheck = @ \cup {k}])
  BY <1>1, <1>2, CalmStop
<1>3. CASE dev.file[k] = None /\ Commit(<<dev>>, Engage(get))
  <2>1. get.pc = "get" /\ get.stamp = None  BY <1>3 DEF At, Idle
  <2>2. Harmless(get)
    <3> HIDE DEF get
    <3> QED  BY <2>1 DEF Harmless
  <2> QED  BY <1>3, <2>2, CalmEngage
<1> HIDE DEF get
<1> QED  BY <1>2, <1>3 DEF ProtectedPull, PullStart, Deferred, get

\* The GET: the slot is still the one that was found empty.
LEMMA PullGetCalm ==
  ASSUME IInv, faults' = faults, NEW k \in Keys, PullGet(k), Harmless(mem.eng)
  PROVE  Calm
<1> DEFINE land == [mem.eng EXCEPT !.pc = "land", !.sha = hub.object[k]]
<1>1. mem \in MemoryOf(ghost.seen) /\ mem.eng \in EngineOf(ghost.seen)  BY Parts
<1>2. CASE Finish(<<dev>>, mem)
  BY <1>1, <1>2, CalmStop
<1>3. CASE Commit(<<dev>>, Engage(land))
  <2>1. land.pc = "land" /\ land.stamp = mem.eng.stamp  BY <1>1 DEF EngineOf
  <2>2. mem.eng.stamp = None  BY DEF PullGet, Harmless
  <2>3. Harmless(land)
    <3> HIDE DEF land
    <3> QED  BY <2>1, <2>2 DEF Harmless
  <2> HIDE DEF land
  <2> QED  BY <1>3, <2>3, CalmEngage
<1> QED  BY <1>2, <1>3 DEF PullGet

\* The landing: the slot is found empty again, under the lock.
LEMMA PullLandCalm ==
  ASSUME IInv, faults' = faults, NEW k \in Keys, PullLand(k), Harmless(mem.eng)
  PROVE  Calm
<1>1. CASE Commit(<<dev>>, Engage(At("scan", k)))
  <2>1. Harmless(At("scan", k))  BY HarmlessPlaces DEF PCs
  <2> QED  BY <1>1, <2>1, CalmEngage
<1>2. CASE ~ LandingStale(k) /\ Finish(PullSteps(dev, k, mem.eng.sha), mem)
  <2> DEFINE v  == mem.eng.sha
             F  == [dev.file EXCEPT ![k] = v]
             d1 == SetFile(dev, k, v)
             d2 == SetEntry(d1, k, Hashed(v, "Clean"))
             d3 == SetBase(d2, k, v)
             d4 == SetTrash(d3, k, None)
             d5 == RemoveJobsFor(d4, k)
             all == Append(PullSteps(dev, k, v), Done(d5))
  <2>1. Folder(d1, F)  BY Parts DEF SetFile, Folder, DeviceOf
  <2> HIDE DEF d1, F
  <2>2. Folder(d2, F)  BY <2>1, TablesKeepFolder
  <2> HIDE DEF d2
  <2>3. Folder(d3, F)  BY <2>2, TablesKeepFolder
  <2> HIDE DEF d3
  <2>4. Folder(d4, F)  BY <2>3, TablesKeepFolder
  <2> HIDE DEF d4
  <2>5. Folder(d5, F)  BY <2>4, QueueKeepsFolder
  <2> HIDE DEF d5
  <2>6. Folder(Done(d5), F)  BY <2>5, QueueKeepsFolder
  <2>7. PullSteps(dev, k, v) = <<d1, d2, d3, d4, d5>>
    BY DEF PullSteps, d1, d2, d3, d4, d5
  <2>8. Last(PullSteps(dev, k, v)) = d5 /\ Last(all) = Done(d5)
    BY <2>7 DEF Last
  <2>9. dev' = Done(d5) /\ mem' = [mem EXCEPT !.eng = Idle]
    BY <1>2, <2>8, FaultlessCommit DEF Finish
  <2>10. dev.file[k] = None  BY <1>2 DEF LandingStale, Harmless, PullLand
  <2>11. FilesStay
    <3>1. \A j \in Keys : j # k => F[j] = dev.file[j]  BY Parts DEF F, DeviceOf
    <3> QED  BY <2>6, <2>9, <2>10, <3>1 DEF FilesStay, Folder
  <2>12. mem'.eng = Idle  BY <2>9, Parts DEF MemoryOf
  <2> QED  BY <2>11, <2>12, HarmlessPlaces DEF Calm
<1> QED  BY <1>1, <1>2 DEF PullLand

\* run_push, up to the snapshot.
LEMMA StartPushCalm ==
  ASSUME IInv, faults' = faults, NEW j \in dev.jobs, StartPush(j)
  PROVE  Calm
<1> DEFINE eng == [At("snap", j.key) EXCEPT !.seen = dev.entry[j.key],
                                            !.match = dev.base[j.key]]
<1>1. /\ mem \in MemoryOf(ghost.seen)
      /\ \A e : Selected(j, e).eng = e
  BY Parts DEF Selected, MemoryOf
<1>2. Folder(Mark(dev, j), dev.file)  BY FolderOfDev, QueueKeepsFolder
<1>3. CASE Commit(<<Done(Mark(dev, j))>>, Selected(j, Idle))
  <2> DEFINE d == Mark(dev, j)
  <2>1. Folder(Done(d), dev.file)
    <3> HIDE DEF d
    <3> QED  BY <1>2, QueueKeepsFolder DEF d
  <2>2. Last(<<Done(d)>>) = Done(d)  BY DEF Last
  <2>3. Harmless(Selected(j, Idle).eng)  BY <1>1, HarmlessPlaces
  <2> HIDE DEF d
  <2> QED  BY <1>3, <2>1, <2>2, <2>3, CalmCommit DEF d
<1>4. CASE Commit(<<Mark(dev, j)>>, Selected(j, eng))
  <2>1. Last(<<Mark(dev, j)>>) = Mark(dev, j)  BY DEF Last
  <2>2. eng.pc = "snap"  BY DEF At, Idle
  <2> HIDE DEF eng
  <2>3. Harmless(Selected(j, eng).eng)  BY <1>1, <2>2 DEF Harmless
  <2> QED  BY <1>2, <1>4, <2>1, <2>3, CalmCommit
<1> HIDE DEF eng
<1> QED  BY <1>3, <1>4 DEF StartPush, eng

\* run_push, the snapshot taken: what goes out replaces no other version.
LEMMA PushSendCalm ==
  ASSUME IInv, faults' = faults, NEW k \in Keys, ProtectedSend(k)
  PROVE  Calm
<1> DEFINE v   == dev.file[k]
           d1  == SetEntry(dev, k, Hashed(v, "Dirty"))
           d2  == SetPending(d1, k, v)
           eng == [At("put", k) EXCEPT !.sha = v, !.match = mem.eng.match]
<1>1. CASE Commit(<<Unmark(dev)>>, Engage(Idle))
  BY <1>1, CalmBlock
<1>2. CASE ~ Replaces(mem.eng.match, v) /\ Commit(<<d1, d2>>, Engage(eng))
  <2>1. Folder(d1, dev.file)  BY FolderOfDev, TablesKeepFolder
  <2> HIDE DEF d1
  <2>2. Folder(d2, dev.file)  BY <2>1, TablesKeepFolder
  <2> HIDE DEF d2
  <2>3. Last(<<d1, d2>>) = d2  BY DEF Last
  <2>4. eng.pc = "put" /\ eng.sha = v /\ eng.match = mem.eng.match  BY DEF At, Idle
  <2> HIDE DEF eng
  <2>5. Harmless(eng)  BY <1>2, <2>4 DEF Harmless, Replaces
  <2>6. Engage(eng).eng = eng  BY Parts DEF Engage, MemoryOf
  <2> QED  BY <1>2, <2>2, <2>3, <2>5, <2>6, CalmCommit
<1> HIDE DEF eng, d1, d2
<1> QED  BY <1>1, <1>2 DEF ProtectedSend, PushSend, BlockJob, eng, d1, d2

\* run_push, answered.
LEMMA PushReplyCalm ==
  ASSUME IInv, faults' = faults, NEW k \in Keys, ProtectedReply(k)
  PROVE  Calm
<1>1. CASE Commit(<<Unmark(dev)>>, Engage(Idle))
  BY <1>1, CalmBlock
<1>2. ASSUME NEW lk \in Keys, mem.eng.pc = "putdone",
             Finish(PushedSteps(dev, k, lk, mem.eng.sha), mem)
      PROVE  Calm
  <2>1. mem.eng.sha \in ghost.seen \cup {None}  BY <1>2, Parts DEF EngineOf
  <2>2. PushedSteps(dev, k, lk, mem.eng.sha) \in StepsOf(ghost.seen)
    BY <2>1, Parts, PushedStepsSteps
  <2>3. Folder(Last(PushedSteps(dev, k, lk, mem.eng.sha)), dev.file)
    BY FolderOfDev, AcknowledgeFolder
  <2> QED  BY <1>2, <2>2, <2>3, Parts, CalmFinish
<1>3. CASE Commit(<<Refused(dev, k)>>, Engage(Told(k, mem.eng.reply)))
  <2>1. Harmless(Told(k, mem.eng.reply))  BY HarmlessPlaces
  <2> QED  BY <1>3, <2>1, CalmEngage DEF Refused
<1> QED  BY <1>1, <1>2, <1>3 DEF ProtectedReply, PushReply, BlockJob

\* The hub answers; of requests that replace nothing.
LEMMA HubAnswersCalm ==
  ASSUME IInv, faults' = faults, NEW k \in Keys, HubAnswers(k), Harmless(mem.eng)
  PROVE  /\ Calm
         /\ \A j \in Keys : hub.object[j] # None => hub'.object[j] = hub.object[j]
<1>1. faults + 1 # faults  BY MirrorAssumption DEF IInv
<1>2. HubPut(k) \/ HubCopy(k)  BY DEF HubAnswers, HubDelete, HubRename, Harmless
<1>3. PICK e : Answer(e) /\ e.pc \in {"putdone", "copied"}
  <2>1. mem.eng \in EngineOf(ghost.seen)  BY Parts
  <2>2. /\ [mem.eng EXCEPT !.pc = "putdone", !.out = "ok"].pc = "putdone"
        /\ [mem.eng EXCEPT !.pc = "putdone", !.out = "mismatch",
                           !.reply = hub.object[k]].pc = "putdone"
        /\ [mem.eng EXCEPT !.pc = "copied"].pc = "copied"
    BY <2>1 DEF EngineOf
  <2> QED  BY <1>2, <2>2 DEF HubPut, HubCopy
<1>4. mem' = Engage(e)  BY <1>1, <1>3 DEF Answer
<1>5. mem'.eng = e  BY <1>4, Parts DEF Engage, MemoryOf
<1>6. dev' = dev  BY <1>2 DEF HubPut, HubCopy
<1>7. Calm  BY <1>3, <1>5, <1>6 DEF Calm, FilesStay, Harmless
<1>8. ASSUME NEW j \in Keys, hub.object[j] # None
      PROVE  hub'.object[j] = hub.object[j]
  <2>1. CASE HubCopy(k)
    BY <2>1 DEF HubCopy
  <2>2. CASE HubPut(k) /\ hub.object[k] # mem.eng.match
    BY <2>2 DEF HubPut, Matches
  <2>3. CASE HubPut(k) /\ hub.object[k] = mem.eng.match
    <3>1. hub'.object = [hub.object EXCEPT ![k] = mem.eng.sha]
      BY <2>3 DEF HubPut, Matches
    <3>2. mem.eng.match \in {None, mem.eng.sha}  BY <2>3 DEF HubPut, Harmless
    <3>3. hub.object \in [Keys -> Digest]  BY Parts DEF Hub
    <3> QED  BY <1>8, <2>3, <3>1, <3>2, <3>3
  <2> QED  BY <1>2, <2>1, <2>2, <2>3
<1> QED  BY <1>7, <1>8

(***************************************************************************)
(* The invariant.                                                          *)
(***************************************************************************)
\* What a recovery has in hand: a snapshot the folder has held, which is what
\* it sends and then acknowledges; or a download for a slot it found empty.
RecKnows ==
  /\ rec \in Recovery
  /\ rec.verb # "none" => protected /\ mem.up /\ mem.eng.pc = "idle"
  /\ (rec.verb = "none") = (rec.pc = "off")
  /\ rec.pc \in {"head", "put", "commit", "get", "land"} => rec.key \in Keys
  /\ rec.pc \in {"head", "put", "commit"} => rec.stamp \in ghost.seen
  /\ rec.pc \in {"put", "commit"} => rec.sha = rec.stamp
  /\ rec.pc \in {"get", "land"} => rec.stamp = None
  /\ rec.pc = "land" => rec.sha \in Version

\* The mount, and the history the properties read.
MountOK ==
  /\ protected \in BOOLEAN /\ acts \in 0..MaxActs
  /\ settled \in {"nothing", "disturbed", "pushed", "union"}
  /\ leftover \in [intents : SUBSET Keys, orphans : SUBSET Version]

ProtectedInv ==
  /\ IInv
  /\ RecKnows
  /\ MountOK
  /\ protected => Harmless(mem.eng)

\* Every object there is stays, but for what a recovery push was shown.
ObjectsStay ==
  \A k \in Keys :
    hub.object[k] # None /\ hub'.object[k] # hub.object[k]
    => rec.pc = "put" /\ hub.object[k] = rec.match /\ hub'.object[k] = rec.sha

\* A step after which the invariant holds, and of which the mount keeps its
\* promise.
Protects == ProtectedInv' /\ (protected /\ acts' = acts => FilesStay /\ ObjectsStay)

\* A mirror mounted in step.
LEMMA ProtectedInitHolds == ProtectedInit => ProtectedInv
<1> SUFFICES ASSUME ProtectedInit  PROVE ProtectedInv
  OBVIOUS
<1> DEFINE N == Cardinality(Synced)
<1>1. N \in Nat /\ N <= MaxVersion
  BY FS_CardinalityType, ProtectedAssumption
<1> HIDE DEF N
<1>2. 1..N \subseteq Version /\ N + 1 \in 1..MaxVersion + 1
  BY <1>1, LedgerAssumption DEF Version
<1>3. PICK held \in [Synced -> 1..N] :
        LET Has(k) == IF k \in Synced THEN held[k] ELSE None IN
        /\ dev = [EmptyDevice EXCEPT
                    !.file  = [k \in Keys |-> Has(k)],
                    !.base  = [k \in Keys |-> Has(k)],
                    !.entry = [k \in Keys |-> IF k \in Synced THEN Hashed(Has(k), "Clean")
                                              ELSE NoEntry]]
        /\ hub = [object |-> [k \in Keys |-> Has(k)], feed |-> {}]
  BY DEF ProtectedInit, N
<1> DEFINE Has(k) == IF k \in Synced THEN held[k] ELSE None
           files == [k \in Keys |-> Has(k)]
           entries == [k \in Keys |-> IF k \in Synced THEN Hashed(Has(k), "Clean") ELSE NoEntry]
<1>4. files \in [Keys -> 1..N \cup {None}]  BY <1>3
<1>5. entries \in [Keys -> EntryOf(1..N)]
  <2>1. ASSUME NEW k \in Keys
        PROVE  (IF k \in Synced THEN Hashed(Has(k), "Clean") ELSE NoEntry) \in EntryOf(1..N)
    <3>1. Has(k) \in 1..N \cup {None}  BY <1>3
    <3> HIDE DEF Has
    <3> QED  BY <3>1, EntryValues
  <2> QED  BY <2>1
<1>6. dev = [EmptyDevice EXCEPT !.file = files, !.base = files, !.entry = entries]
  BY <1>3
<1>7. hub = [object |-> files, feed |-> {}]  BY <1>3
<1> HIDE DEF files, entries
<1>8. dev \in DeviceOf(1..N)
  <2>1. EmptyDevice \in DeviceOf(1..N)  BY EmptyDeviceKnowsNothing
  <2> QED  BY <1>4, <1>5, <1>6, <2>1 DEF DeviceOf
<1>9. hub \in Hub  BY <1>2, <1>4, <1>7 DEF Hub, Digest
<1>10. mem \in MemoryOf(1..N) /\ mem.eng = Idle
  <2>1. Booting \in MemoryOf(1..N)  BY BootingMemory
  <2>2. Booting.eng = Idle  BY DEF Booting
  <2> QED  BY <2>1, <2>2 DEF ProtectedInit, MemoryOf
<1>11. ghost \in Ghost /\ ghost.seen = 1..N
  BY <1>2, MirrorAssumption DEF ProtectedInit, Ghost, N
<1>12. IInv
  BY <1>8, <1>9, <1>10, <1>11, MirrorAssumption DEF IInv, KnownVersions, ProtectedInit
<1>13. RecKnows
  BY DEF ProtectedInit, RecKnows, NoRecovery, Recovery, Digest
<1>14. MountOK
  BY ProtectedAssumption DEF ProtectedInit, MountOK
<1>15. Harmless(mem.eng)  BY <1>10, HarmlessPlaces
<1> QED  BY <1>12, <1>13, <1>14, <1>15 DEF ProtectedInv

(***************************************************************************)
(* The engine.                                                             *)
(***************************************************************************)
\* Whatever it may not do, it leaves as it was.
LEMMA BlockedKeeps ==
  ASSUME IInv, UNCHANGED ghost, Finish(<<dev>>, mem) \/ BlockJob
  PROVE  IInv' /\ hub'.object = hub.object
<1>1. CASE Finish(<<dev>>, mem)
  BY <1>1, Parts, FinishStep, KeepsByLocalStep
<1>2. CASE BlockJob
  BY <1>2, Parts, IdleEngine, EngageMemory, CommitStep, KeepsByLocalStep DEF BlockJob
<1> QED  BY <1>1, <1>2

\* A protected step, in the middle of something.
LEMMA ContinueSafe ==
  ASSUME IInv, faults' = faults, NEW k \in Keys, Continue(k), Harmless(mem.eng)
  PROVE  IInv' /\ hub'.object = hub.object /\ Calm
<1>1. CASE ScanAgain(k) \/ PullGet(k) \/ PullLand(k)
  BY <1>1, ScansKeep, PullGetKeeps, PullLandKeeps, ScansCalm, PullGetCalm, PullLandCalm
<1>2. CASE ProtectedReconcile(k)
  <2>1. Reconcile(k) \/ (Finish(<<dev>>, mem) /\ UNCHANGED ghost)
    BY <1>2 DEF ProtectedReconcile
  <2> QED  BY <1>2, <2>1, BlockedKeeps, ReconcileKeeps, ReconcileCalm
<1>3. CASE ProtectedPull(k)
  <2>1. PullStart(k) \/ (Finish(<<dev>>, mem) /\ UNCHANGED ghost)
    BY <1>3 DEF ProtectedPull
  <2> QED  BY <1>3, <2>1, BlockedKeeps, PullStartKeeps, PullStartCalm
<1>4. CASE ProtectedSend(k)
  <2>1. PushSend(k) \/ BlockJob  BY <1>4 DEF ProtectedSend
  <2> QED  BY <1>4, <2>1, BlockedKeeps, PushSendKeeps, PushSendCalm DEF BlockJob
<1>5. CASE ProtectedReply(k)
  <2>1. PushReply(k) \/ BlockJob  BY <1>5 DEF ProtectedReply
  <2> QED  BY <1>5, <2>1, BlockedKeeps, PushReplyKeeps, PushReplyCalm DEF BlockJob
<1> QED  BY <1>1, <1>2, <1>3, <1>4, <1>5 DEF Continue

\* A protected step, choosing what to do next.
LEMMA ChooseSafe ==
  ASSUME IInv, faults' = faults, Choose, Harmless(mem.eng)
  PROVE  IInv' /\ hub'.object = hub.object /\ Calm
<1>1. CASE StartListing
  BY <1>1, StartListingKeeps, StartListingCalm
<1>2. ASSUME NEW j \in dev.jobs, ProtectedPush(j)
      PROVE  IInv' /\ hub'.object = hub.object /\ Calm
  BY <1>2, StartPushKeeps, StartPushCalm DEF ProtectedPush
<1>3. ASSUME NEW k \in Keys, StartupScan(k) \/ ScanKey(k)
      PROVE  IInv' /\ hub'.object = hub.object /\ Calm
  BY <1>3, ScansKeep, ScansCalm
<1>4. ASSUME NEW k \in Keys, \/ RecoverJob(k) \/ NextChange(k) \/ NextRecheck(k)
                            \/ NextListed(k)
      PROVE  IInv' /\ hub'.object = hub.object /\ Calm
  BY <1>4, RecoverJobKeeps, NextHeadKeeps, CycleCalm
<1> QED  BY <1>1, <1>2, <1>3, <1>4 DEF Choose

\* The engine, with the option and without it.
LEMMA EngineSafe ==
  ASSUME ProtectedInv, Engine, UNCHANGED leftover
  PROVE  Protects
<1>1. /\ rec.verb = "none" /\ faults' = faults /\ protected' = protected
      /\ rec' = rec /\ acts' = acts /\ settled' = settled /\ leftover' = leftover
  BY DEF Engine
<1>2. IInv /\ RecKnows /\ MountOK /\ (protected => Harmless(mem.eng))
  BY DEF ProtectedInv
<1>3. RecKnows'
  <2>1. rec.pc = "off"  BY <1>1, <1>2 DEF RecKnows
  <2> QED  BY <1>1, <1>2, <2>1 DEF RecKnows
<1>4. MountOK'  BY <1>1, <1>2 DEF MountOK
<1>5. CASE protected
  <2>1. IInv' /\ Calm /\ ObjectsStay
    <3>1. ASSUME NEW k \in Keys, HubAnswers(k)
          PROVE  IInv' /\ Calm /\ ObjectsStay
      BY <1>1, <1>2, <1>5, <3>1, HubAnswersKeep, HubAnswersCalm DEF ObjectsStay
    <3>2. ASSUME NEW k \in Keys, Continue(k)
          PROVE  IInv' /\ Calm /\ ObjectsStay
      BY <1>1, <1>2, <1>5, <3>2, ContinueSafe DEF ObjectsStay
    <3>3. CASE Choose
      BY <1>1, <1>2, <1>5, <3>3, ChooseSafe DEF ObjectsStay
    <3> QED  BY <1>5, <3>1, <3>2, <3>3 DEF Engine
  <2> QED  BY <1>1, <1>3, <1>4, <2>1 DEF Protects, ProtectedInv, Calm
<1>6. CASE ~ protected
  <2>1. IInv'
    BY <1>2, <1>6, HubAnswersKeep, ProceedKeeps, CycleKeeps DEF Engine
  <2> QED  BY <1>1, <1>3, <1>4, <1>6, <2>1 DEF Protects, ProtectedInv
<1> QED  BY <1>5, <1>6

(***************************************************************************)
(* Users.                                                                  *)
(***************************************************************************)
\* What users do to the memory leaves the engine where it was.
LEMMA UsersMemory ==
  ASSUME IInv, NEW k \in Keys, Users(k)
  PROVE  /\ mem'.up = mem.up
         /\ mem'.eng.pc = mem.eng.pc
         /\ Harmless(mem.eng) => Harmless(mem'.eng)
<1>1. mem \in MemoryOf(ghost.seen) /\ mem.eng \in EngineOf(ghost.seen) /\ faults' = faults
  BY Parts DEF Users
<1>2. mem'.up = mem.up /\ mem'.eng \in {mem.eng, Overtaken}
  <2>1. CASE Write(k) \/ Open(k) \/ Close(k)
    BY <1>1, <2>1 DEF Write, Open, Close, MemoryOf
  <2>2. CASE Peer(k)
    BY <2>2 DEF Peer, PeerPut, PeerDelete
  <2>3. CASE Unlink(k)
    <3>1. mem' = [mem EXCEPT !.open = @ \ {k}, !.unflushed = @ \ {k}, !.skipped = @ \ {k}]
      BY <1>1, <2>3, FaultlessCommit DEF Unlink
    <3> QED  BY <1>1, <3>1 DEF MemoryOf
  <2>4. CASE Flush(k)
    <3>1. mem' = [mem EXCEPT !.unflushed = @ \ {k}, !.skipped = @ \ {k}]
      BY <1>1, <2>4, FaultlessCommit DEF Flush
    <3> QED  BY <1>1, <3>1 DEF MemoryOf
  <2>5. ASSUME NEW to \in Keys, RenameHere(k, to)
        PROVE  mem'.up = mem.up /\ mem'.eng \in {mem.eng, Overtaken}
    <3> DEFINE follow(X) == IF k \in X THEN (X \ {k}) \cup {to} ELSE X
               m(owed) == [mem EXCEPT !.open = follow(@), !.unflushed = owed, !.eng = Overtaken]
    <3>1. PICK owed : Commit(RenameSteps(dev, k, to), m(owed))
      BY <2>5 DEF RenameHere, Rename
    <3>2. mem' = m(owed)  BY <1>1, <3>1, FaultlessCommit
    <3> QED  BY <1>1, <3>2 DEF MemoryOf
  <2> QED  BY <2>1, <2>2, <2>3, <2>4, <2>5 DEF Users
<1>3. /\ Overtaken.pc = mem.eng.pc /\ Overtaken.stamp = mem.eng.stamp
      /\ Overtaken.match = mem.eng.match /\ Overtaken.sha = mem.eng.sha
  BY <1>1 DEF Overtaken, EngineOf
<1> QED  BY <1>2, <1>3 DEF Harmless

\* The folder forgets no version it has held.
LEMMA UsersRemember ==
  ASSUME IInv, NEW k \in Keys, Users(k)
  PROVE  ghost.seen \subseteq ghost'.seen
<1>1. ghost \in Ghost  BY Parts
<1>2. CASE Write(k)
  BY <1>1, <1>2 DEF Write, Saved, Ghost
<1>3. CASE Unlink(k) \/ Flush(k) \/ Peer(k)
  BY <1>1, <1>3 DEF Unlink, Flush, Peer, PeerPut, PeerDelete, Ghost
<1>4. CASE Open(k) \/ Close(k)
  BY <1>4 DEF Open, Close
<1>5. ASSUME NEW to \in Keys, RenameHere(k, to)
      PROVE  ghost.seen \subseteq ghost'.seen
  BY <1>1, <1>5 DEF RenameHere, Rename, Ghost
<1> QED  BY <1>2, <1>3, <1>4, <1>5 DEF Users

\* A user's step; one that changes nothing, here or elsewhere, but a handle
\* keeps every file and every object.
LEMMA UsersSafe ==
  ASSUME ProtectedInv, NEW k \in Keys, Users(k), UNCHANGED leftover
  PROVE  Protects
<1>1. IInv /\ RecKnows /\ MountOK /\ (protected => Harmless(mem.eng))
  BY DEF ProtectedInv
<1>2. /\ protected /\ protected' = protected /\ faults' = faults /\ leftover' = leftover
      /\ settled' \in {"nothing", "disturbed"}
  BY DEF Users
<1>3. IInv'
  BY <1>1, HandleKeeps, WriteKeeps, FlushKeeps, UnlinkKeeps, RenameKeeps, PeerKeeps
     DEF Users, RenameHere
<1>4. rec' = rec \/ rec' = [rec EXCEPT !.moved = rec.key # NoKey]
  BY DEF Users, RenameHere
<1>5. RecKnows'
  <2>1. rec \in Recovery  BY <1>1 DEF RecKnows
  <2>2. /\ rec' \in Recovery
        /\ rec'.verb = rec.verb /\ rec'.pc = rec.pc /\ rec'.key = rec.key
        /\ rec'.stamp = rec.stamp /\ rec'.sha = rec.sha
    BY <1>4, <2>1 DEF Recovery
  <2> QED  BY <1>1, <1>2, <2>2, UsersMemory, UsersRemember DEF RecKnows
<1>6. MountOK'
  <2>1. acts' \in 0..MaxActs
    BY <1>1, ProtectedAssumption DEF Users, Counted, MountOK
  <2> QED  BY <1>1, <1>2, <2>1 DEF MountOK
<1>7. Harmless(mem'.eng)  BY <1>1, <1>2, UsersMemory
<1>8. acts' = acts => FilesStay /\ ObjectsStay
  <2> SUFFICES ASSUME acts' = acts  PROVE FilesStay /\ ObjectsStay
    OBVIOUS
  <2>1. ~ Counted  BY <1>1 DEF Counted, MountOK
  <2>2. Open(k) \/ Flush(k) \/ Close(k)  BY <2>1 DEF Users
  <2>3. hub'.object = hub.object  BY <1>1, <2>2, HandleKeeps, FlushKeeps
  <2>4. CASE Open(k) \/ Close(k)
    BY <2>3, <2>4 DEF Open, Close, FilesStay, ObjectsStay
  <2>5. CASE Flush(k)
    <3> DEFINE d1 == SetEntry(dev, k, Intent(dev.file[k]))
               d2 == EnqueuePush(d1, k)
    <3>1. Folder(d1, dev.file)  BY <1>1, FolderOfDev, TablesKeepFolder
    <3> HIDE DEF d1
    <3>2. Folder(d2, dev.file)  BY <3>1, QueueKeepsFolder
    <3> HIDE DEF d2
    <3>3. CommitSteps(dev, k) = <<d1, d2>>  BY DEF CommitSteps, d1, d2
    <3>4. Last(CommitSteps(dev, k)) = d2  BY <3>3 DEF Last
    <3>5. dev' = d2  BY <1>1, <1>2, <2>5, <3>4, FaultlessCommit DEF Flush
    <3> QED  BY <2>3, <3>2, <3>5 DEF Folder, FilesStay, ObjectsStay
  <2> QED  BY <2>2, <2>4, <2>5
<1> QED  BY <1>3, <1>5, <1>6, <1>7, <1>8 DEF Protects, ProtectedInv

(***************************************************************************)
(* Recovery.                                                               *)
(***************************************************************************)
\* Between two files, or over.
LEMMA RestingRecovery ==
  ASSUME NEW v \in {"push", "pull"}, NEW left \in SUBSET Keys
  PROVE  /\ NoRecovery \in Recovery
         /\ [NoRecovery EXCEPT !.verb = v, !.pc = "pick", !.todo = left] \in Recovery
BY DEF NoRecovery, Recovery, Digest

\* A step of a recovery that only the recovery sees.
LEMMA OnlyRecSafe ==
  ASSUME ProtectedInv, UNCHANGED <<vars, protected, acts>>, RecKnows', MountOK'
  PROVE  Protects
<1>1. /\ dev' = dev /\ mem' = mem /\ hub' = hub /\ ghost' = ghost /\ faults' = faults
      /\ protected' = protected
  BY DEF vars
<1>2. IInv'  BY <1>1 DEF ProtectedInv, IInv, KnownVersions
<1>3. FilesStay /\ ObjectsStay  BY <1>1 DEF FilesStay, ObjectsStay
<1> QED  BY <1>1, <1>2, <1>3 DEF Protects, ProtectedInv

\* The file is done with: the next one, or nothing after a crash.
LEMMA NextFileKnows ==
  ASSUME ProtectedInv, protected' = protected, rec.verb # "none", NextFile,
         mem'.up => mem'.eng.pc = "idle", mem'.up \in BOOLEAN
  PROVE  RecKnows'
<1>1. rec \in Recovery /\ protected  BY DEF ProtectedInv, RecKnows
<1>2. rec.verb \in {"push", "pull"} /\ rec.todo \in SUBSET Keys  BY <1>1 DEF Recovery
<1>3. CASE mem'.up
  <2>1. rec' = [NoRecovery EXCEPT !.verb = rec.verb, !.pc = "pick", !.todo = rec.todo]
    BY <1>3 DEF NextFile
  <2>2. rec' \in Recovery  BY <1>2, <2>1, RestingRecovery
  <2>3. rec'.verb = rec.verb /\ rec'.pc = "pick"  BY <2>1 DEF NoRecovery
  <2> QED  BY <1>1, <1>2, <1>3, <2>2, <2>3 DEF RecKnows
<1>4. CASE ~ mem'.up
  <2>1. rec' = NoRecovery  BY <1>4 DEF NextFile
  <2> QED  BY <2>1, RestingRecovery DEF RecKnows, NoRecovery
<1> QED  BY <1>3, <1>4

\* The recovery's own steps: it starts, takes a file, asks the hub, ends.
LEMMA BeginSafe ==
  ASSUME ProtectedInv, UNCHANGED leftover, StartPushLocal \/ StartPullRemote
  PROVE  Protects
<1>1. PICK verb \in {"push", "pull"}, todo \in SUBSET Keys : Begin(verb, todo)
  <2>1. /\ {k \in Keys : dev.file[k] # None} \in SUBSET Keys
        /\ {k \in Keys : hub.object[k] # None} \in SUBSET Keys
    OBVIOUS
  <2> QED  BY <2>1 DEF StartPushLocal, StartPullRemote
<1>2. rec' = [NoRecovery EXCEPT !.verb = verb, !.pc = "pick", !.todo = todo]
  BY <1>1 DEF Begin
<1>3. rec' \in Recovery  BY <1>2, RestingRecovery
<1>4. rec'.verb = verb /\ rec'.pc = "pick"  BY <1>2 DEF NoRecovery
<1>5. /\ UNCHANGED <<vars, protected, acts, settled>>
      /\ mem' = mem /\ protected /\ mem.up /\ mem.eng.pc = "idle"
  BY <1>1 DEF Begin, BetweenCycles, vars
<1>6. RecKnows'  BY <1>1, <1>3, <1>4, <1>5 DEF RecKnows
<1>7. MountOK'  BY <1>5 DEF ProtectedInv, MountOK
<1> QED  BY <1>5, <1>6, <1>7, OnlyRecSafe

\* The end, at which the history may say that both sides hold the union.
LEMMA EndSafe ==
  ASSUME ProtectedInv, UNCHANGED leftover, EndRecovery
  PROVE  Protects
<1>1. UNCHANGED <<vars, protected, acts>> /\ rec' = NoRecovery  BY DEF EndRecovery
<1>2. RecKnows'  BY <1>1, RestingRecovery DEF RecKnows, NoRecovery
<1>3. MountOK'  BY <1>1 DEF ProtectedInv, MountOK, EndRecovery
<1> QED  BY <1>1, <1>2, <1>3, OnlyRecSafe

\* The next file.
LEMMA TakeSafe ==
  ASSUME ProtectedInv, NEW k \in Keys, UNCHANGED leftover, Take(k)
  PROVE  Protects
<1> DEFINE left == rec.todo \ {k}
           skip == [rec EXCEPT !.todo = left]
           take == [rec EXCEPT !.todo = left, !.key = k, !.stamp = dev.file[k],
                               !.pc = IF rec.verb = "push" THEN "head" ELSE "get"]
<1>1. /\ UNCHANGED <<vars, protected, acts, settled>>
      /\ mem' = mem /\ ghost' = ghost /\ protected' = protected
  BY DEF Take, vars
<1>2. RecKnows /\ IInv /\ rec \in Recovery /\ rec.pc = "pick" /\ rec.verb # "none"
  BY DEF ProtectedInv, RecKnows, Take
<1>3. dev.file[k] \in ghost.seen \cup {None} /\ ghost.seen \subseteq Version
  BY <1>2, Parts, DeviceReads
<1>4. CASE rec' = skip
  <2>1. rec' \in Recovery /\ rec'.verb = rec.verb /\ rec'.pc = "pick"
    BY <1>2, <1>4 DEF Recovery
  <2> QED  BY <1>1, <1>2, <2>1, OnlyRecSafe DEF RecKnows, MountOK, ProtectedInv
<1>5. CASE rec' = take /\ (rec.verb = "push") # (dev.file[k] = None)
  <2>1. /\ rec' \in Recovery /\ rec'.verb = rec.verb /\ rec'.key = k
        /\ rec'.stamp = dev.file[k]
        /\ rec'.pc = IF rec.verb = "push" THEN "head" ELSE "get"
    BY <1>2, <1>3, <1>5 DEF Recovery, Digest
  <2>2. RecKnows'  BY <1>1, <1>2, <1>3, <1>5, <2>1 DEF RecKnows
  <2>3. MountOK'  BY <1>1 DEF MountOK, ProtectedInv
  <2> QED  BY <1>1, <2>2, <2>3, OnlyRecSafe
<1> QED  BY <1>4, <1>5 DEF Take

\* What a file in hand implies.
LEMMA DoingKnows ==
  ASSUME ProtectedInv, NEW k, NEW pc \in {"head", "put", "commit", "get", "land"},
         Doing(pc, k)
  PROVE  /\ rec \in Recovery /\ rec.verb # "none" /\ protected /\ mem.up
         /\ mem.eng.pc = "idle" /\ rec.pc = pc
BY DEF ProtectedInv, RecKnows, Doing

\* The HEAD, and the GET.
LEMMA AskSafe ==
  ASSUME ProtectedInv, NEW k \in Keys, UNCHANGED leftover, RecHead(k) \/ RecGet(k)
  PROVE  Protects
<1>1. /\ UNCHANGED <<vars, protected, acts, settled>>
      /\ mem' = mem /\ ghost' = ghost /\ protected' = protected
  BY DEF RecHead, RecGet, vars
<1>2. RecKnows /\ IInv  BY DEF ProtectedInv
<1>3. MountOK'  BY <1>1 DEF MountOK, ProtectedInv
<1>4. /\ rec \in Recovery /\ rec.verb # "none" /\ protected /\ mem.up
      /\ mem.eng.pc = "idle"
  BY DoingKnows DEF RecHead, RecGet
<1>5. hub.object[k] \in Digest /\ ghost.seen \subseteq Version  BY <1>2, Parts DEF Hub
<1>6. RecKnows'
  <2>1. CASE NextFile
    BY <1>1, <1>4, <2>1, NextFileKnows
  <2>2. CASE /\ RecHead(k)
             /\ rec' = [rec EXCEPT !.pc = IF hub.object[k] = rec.stamp THEN "commit" ELSE "put",
                                   !.match = hub.object[k], !.sha = rec.stamp]
    <3>1. rec.pc = "head" /\ rec.stamp \in ghost.seen /\ rec.key \in Keys
      BY <1>2, <2>2 DEF RecKnows, RecHead, Doing
    <3>2. /\ rec' \in Recovery /\ rec'.verb = rec.verb /\ rec'.key = rec.key
          /\ rec'.stamp = rec.stamp /\ rec'.sha = rec.stamp /\ rec'.pc \in {"commit", "put"}
      BY <1>4, <1>5, <2>2, <3>1 DEF Recovery, Digest
    <3> QED  BY <1>1, <1>4, <3>1, <3>2 DEF RecKnows
  <2>3. CASE /\ RecGet(k) /\ hub.object[k] # None
             /\ rec' = [rec EXCEPT !.pc = "land", !.sha = hub.object[k]]
    <3>1. rec.pc = "get" /\ rec.stamp = None /\ rec.key \in Keys
      BY <1>2, <2>3 DEF RecKnows, RecGet, Doing
    <3>2. /\ rec' \in Recovery /\ rec'.verb = rec.verb /\ rec'.key = rec.key
          /\ rec'.stamp = rec.stamp /\ rec'.sha = hub.object[k] /\ rec'.pc = "land"
      BY <1>4, <1>5, <2>3 DEF Recovery
    <3> QED  BY <1>1, <1>4, <1>5, <2>3, <3>1, <3>2 DEF RecKnows, Digest
  <2> QED  BY <2>1, <2>2, <2>3 DEF RecHead, RecGet
<1> QED  BY <1>1, <1>3, <1>6, OnlyRecSafe

\* What the faults and the end of a recovery make of the history.
LEMMA UndisturbedOK ==
  ASSUME ProtectedInv, Undisturbed
  PROVE  settled' \in {"nothing", "disturbed", "pushed", "union"}
BY DEF Undisturbed, ProtectedInv, MountOK

\* The PUT: it replaces what the HEAD reported, by the snapshot.
LEMMA PutSafe ==
  ASSUME ProtectedInv, NEW k \in Keys, UNCHANGED leftover, RecPut(k)
  PROVE  Protects
<1>1. /\ dev' = dev /\ mem' = mem /\ protected' = protected /\ acts' = acts
      /\ leftover' = leftover /\ Undisturbed
  BY DEF RecPut
<1>2. /\ rec \in Recovery /\ rec.verb # "none" /\ protected /\ mem.up
      /\ mem.eng.pc = "idle" /\ rec.pc = "put" /\ rec.key = k
  BY DoingKnows DEF RecPut, Doing
<1>3. /\ RecKnows /\ IInv /\ ghost \in Ghost /\ hub \in Hub /\ faults \in 0..MaxFaults
      /\ ghost.seen \subseteq Version
  BY Parts DEF ProtectedInv
<1>4. rec.stamp \in ghost.seen /\ rec.sha = rec.stamp  BY <1>2, <1>3 DEF RecKnows
<1>5. MountOK'  BY <1>1, UndisturbedOK DEF MountOK, ProtectedInv
<1>6. CASE Matches(hub.object[k], rec.match)
  <2>1. /\ hub' = [object |-> [hub.object EXCEPT ![k] = rec.sha], feed |-> hub.feed \cup {k}]
        /\ Landed(rec.sha)
        /\ faults' = faults \/ (faults < MaxFaults /\ faults' = faults + 1)
        /\ rec' \in {rec, NoRecovery, [rec EXCEPT !.pc = "commit"]}
    BY <1>6 DEF RecPut
  <2>2. hub' \in Hub  BY <1>3, <1>4, <2>1 DEF Hub, Digest
  <2>3. ghost' \in Ghost /\ ghost'.seen = ghost.seen  BY <1>3, <2>1 DEF Landed, Ghost
  <2>4. faults' \in 0..MaxFaults  BY <1>3, <2>1, MirrorAssumption
  <2>5. IInv'  BY <1>1, <1>3, <2>2, <2>3, <2>4 DEF IInv, KnownVersions
  <2>6. RecKnows'
    <3>1. CASE rec' = rec
      BY <1>1, <1>3, <2>3, <3>1 DEF RecKnows
    <3>2. CASE rec' = NoRecovery
      BY <3>2, RestingRecovery DEF RecKnows, NoRecovery
    <3>3. CASE rec' = [rec EXCEPT !.pc = "commit"]
      <4>1. /\ rec' \in Recovery /\ rec'.verb = rec.verb /\ rec'.key = rec.key
            /\ rec'.stamp = rec.stamp /\ rec'.sha = rec.sha /\ rec'.pc = "commit"
        BY <1>2, <3>3 DEF Recovery
      <4> QED  BY <1>1, <1>2, <1>4, <2>3, <4>1 DEF RecKnows
    <3> QED  BY <2>1, <3>1, <3>2, <3>3
  <2>7. ObjectsStay
    <3>1. hub.object \in [Keys -> Digest]  BY <1>3 DEF Hub
    <3>2. hub.object[k] = rec.match  BY <1>6 DEF Matches
    <3>3. hub'.object = [hub.object EXCEPT ![k] = rec.sha]  BY <2>1
    <3> QED  BY <1>2, <3>1, <3>2, <3>3 DEF ObjectsStay
  <2> QED  BY <1>1, <1>5, <2>5, <2>6, <2>7 DEF Protects, ProtectedInv, FilesStay
<1>7. CASE ~ Matches(hub.object[k], rec.match)
  <2>1. NextFile /\ UNCHANGED <<hub, ghost, faults>>  BY <1>7 DEF RecPut, GivenUp
  <2>2. RecKnows'  BY <1>1, <1>2, <2>1, NextFileKnows DEF ProtectedInv
  <2>3. IInv'  BY <1>1, <1>3, <2>1 DEF IInv, KnownVersions
  <2> QED  BY <1>1, <1>5, <2>1, <2>2, <2>3 DEF Protects, ProtectedInv, FilesStay, ObjectsStay
<1> QED  BY <1>6, <1>7

\* Wherever a crash comes, a handler all of whose writes leave the folder F
\* leaves it; what it leaves in memory is its own, or that of a restart.
LEMMA CommitFolder ==
  ASSUME NEW S, NEW steps \in StepsOf(S), NEW F, NEW m,
         \A i \in 1..Len(steps) : Folder(steps[i], F), Commit(steps, m)
  PROVE  Folder(dev', F) /\ mem' \in {m, Booting}
<1>1. steps \in Seq(DeviceOf(S)) /\ steps # << >>  BY DEF StepsOf
<1>2. Len(steps) \in Nat /\ Len(steps) \in 1..Len(steps)  BY <1>1
<1>3. CASE dev' = Last(steps) /\ mem' = m
  BY <1>2, <1>3 DEF Last
<1>4. ASSUME NEW i \in 1..Len(steps) - 1, Crash(steps[i])
      PROVE  Folder(dev', F) /\ mem' \in {m, Booting}
  <2>1. Folder(steps[i], F)  BY <1>2
  <2>2. Folder(Unmark(steps[i]), F)  BY <2>1, QueueKeepsFolder
  <2> QED  BY <1>4, <2>2 DEF Crash
<1> QED  BY <1>3, <1>4 DEF Commit

\* The same of a recovery step: the engine stays idle, or starts again.
LEMMA RecStepSafe ==
  ASSUME ProtectedInv, NEW steps, NEW F,
         steps \in StepsOf(ghost'.seen), \A i \in 1..Len(steps) : Folder(steps[i], F),
         \A j \in Keys : dev.file[j] # None => F[j] = dev.file[j],
         Commit(steps, mem), NextFile, Undisturbed, UNCHANGED <<protected, acts>>,
         ghost' \in Ghost, ghost.seen \subseteq ghost'.seen,
         leftover' \in [intents : SUBSET Keys, orphans : SUBSET Version],
         rec.verb # "none"
  PROVE  Protects
<1>1. mem \in MemoryOf(ghost.seen) /\ hub \in Hub /\ faults \in 0..MaxFaults
  BY Parts DEF ProtectedInv
<1>2. mem \in MemoryOf(ghost'.seen)  BY <1>1, MemoryGrows
<1>3. LocalStep(ghost'.seen)  BY <1>1, <1>2, CommitStep
<1>4. IInv' /\ hub'.object = hub.object  BY <1>3, LocalStepKeeps DEF LocalStep
<1>5. Folder(dev', F) /\ mem' \in {mem, Booting}  BY CommitFolder
<1>6. mem.up /\ mem.eng.pc = "idle" /\ protected  BY DEF ProtectedInv, RecKnows
<1>7. Booting.eng = Idle /\ ~ Booting.up  BY DEF Booting
<1>8. RecKnows'
  <2>1. mem'.up => mem'.eng.pc = "idle"  BY <1>5, <1>6, <1>7
  <2>2. mem'.up \in BOOLEAN  BY <1>3 DEF LocalStep, MemoryOf
  <2> QED  BY <2>1, <2>2, NextFileKnows
<1>9. Harmless(mem'.eng)
  <2>1. Harmless(mem.eng)  BY <1>6 DEF ProtectedInv
  <2>2. Harmless(Idle)  BY HarmlessPlaces
  <2> QED  BY <1>5, <1>7, <2>1, <2>2
<1>10. MountOK'  BY UndisturbedOK DEF MountOK, ProtectedInv
<1>11. FilesStay  BY <1>5 DEF Folder, FilesStay
<1>12. ObjectsStay  BY <1>4 DEF ObjectsStay
<1> QED  BY <1>4, <1>8, <1>9, <1>10, <1>11, <1>12 DEF Protects, ProtectedInv

\* The writes of an acknowledged recovery push.
LEMMA RecPushedSteps ==
  ASSUME NEW S, NEW d \in DeviceOf(S), NEW k \in Keys, NEW v \in S
  PROVE  RecPushed(d, k, v) \in StepsOf(S) /\ Len(RecPushed(d, k, v)) = 5
<1> DEFINE d1 == SetBase(d, k, v)
           d2 == SetEntry(d1, k, Hashed(v, "Clean"))
           gone == {j \in d.jobs : j.key = k /\ j.kind \in {"Push", "Conflict"}}
           d3 == [d2 EXCEPT !.jobs = Dequeue(@, gone)]
           d4 == SetConflict(d3, k, None)
           d5 == SetPending(d4, k, None)
<1>1. d1 \in DeviceOf(S)  BY SetBaseDevice
<1>2. d1.jobs = d.jobs  BY DEF SetBase, DeviceOf
<1> HIDE DEF d1
<1>3. d2 \in DeviceOf(S)  BY <1>1, EntryValues, SetEntryDevice
<1>4. d2.jobs = d.jobs  BY <1>1, <1>2 DEF SetEntry, DeviceOf
<1> HIDE DEF d2
<1>5. d3 \in DeviceOf(S)
  <2>1. d2.jobs \in SUBSET JobOf(S) /\ gone \in SUBSET d2.jobs
    BY <1>3, <1>4 DEF DeviceOf
  <2>2. Dequeue(d2.jobs, gone) \in SUBSET JobOf(S)  BY <2>1, DequeueJobs
  <2> QED  BY <1>3, <2>2, SetJobsDevice
<1> HIDE DEF d3
<1>6. d4 \in DeviceOf(S)  BY <1>5, SetRecordDevice
<1> HIDE DEF d4
<1>7. d5 \in DeviceOf(S)  BY <1>6, SetRecordDevice
<1> HIDE DEF d5
<1>8. RecPushed(d, k, v) = <<d1, d2, d3, d4, d5>>
  BY DEF RecPushed, d1, d2, d3, d4, d5
<1> QED  BY <1>1, <1>3, <1>5, <1>6, <1>7, <1>8, StepsFive

\* The writes of a recovery pull, each with the downloaded file in place.
LEMMA RecPulledSteps ==
  ASSUME NEW S, NEW d \in DeviceOf(S), NEW k \in Keys, NEW v \in S
  PROVE  /\ RecPulled(d, k, v) \in StepsOf(S)
         /\ \A i \in 1..Len(RecPulled(d, k, v)) :
              Folder(RecPulled(d, k, v)[i], [d.file EXCEPT ![k] = v])
<1> DEFINE F  == [d.file EXCEPT ![k] = v]
           d1 == SetFile(d, k, v)
           d2 == SetEntry(d1, k, Hashed(v, "Clean"))
           d3 == SetBase(d2, k, v)
           d4 == RemoveJobsFor(d3, k)
<1>1. d1 \in DeviceOf(S) /\ Folder(d1, F)
  BY SetFileDevice DEF SetFile, Folder, DeviceOf
<1> HIDE DEF d1, F
<1>2. d2 \in DeviceOf(S) /\ Folder(d2, F)
  BY <1>1, EntryValues, SetEntryDevice, TablesKeepFolder
<1> HIDE DEF d2
<1>3. d3 \in DeviceOf(S) /\ Folder(d3, F)
  BY <1>2, SetBaseDevice, TablesKeepFolder
<1> HIDE DEF d3
<1>4. d4 \in DeviceOf(S) /\ Folder(d4, F)
  BY <1>3, RemoveJobsForDevice, QueueKeepsFolder
<1> HIDE DEF d4
<1>5. RecPulled(d, k, v) = <<d1, d2, d3, d4>>  BY DEF RecPulled, d1, d2, d3, d4
<1>6. RecPulled(d, k, v) \in StepsOf(S)  BY <1>1, <1>2, <1>3, <1>4, <1>5, StepsFour
<1>7. \A i \in 1..4 : Folder(RecPulled(d, k, v)[i], F)
  BY <1>1, <1>2, <1>3, <1>4, <1>5
<1>8. Len(RecPulled(d, k, v)) = 4  BY <1>5
<1> QED  BY <1>6, <1>7, <1>8 DEF F

\* The acknowledgement.
LEMMA AcknowledgeSafe ==
  ASSUME ProtectedInv, NEW k \in Keys, RecCommit(k)
  PROVE  Protects
<1> DEFINE S == ghost.seen
           steps == IF Stale(k) THEN <<dev>> ELSE RecPushed(dev, k, rec.sha)
<1>1. /\ rec.verb # "none" /\ rec.pc = "commit" /\ RecKnows /\ IInv /\ MountOK
  BY DoingKnows DEF RecCommit, Doing, ProtectedInv
<1>2. rec.sha \in S  BY <1>1 DEF RecKnows
<1>3. ghost' = ghost /\ ghost \in Ghost /\ dev \in DeviceOf(S) /\ <<dev>> \in StepsOf(S)
  BY <1>1, Parts DEF RecCommit
<1>4. steps \in StepsOf(S) /\ \A i \in 1..Len(steps) : Folder(steps[i], dev.file)
  <2>1. CASE Stale(k)
    BY <1>1, <1>3, <2>1, FolderOfDev
  <2>2. CASE ~ Stale(k)
    <3>1. /\ RecPushed(dev, k, rec.sha) \in StepsOf(S)
          /\ Len(RecPushed(dev, k, rec.sha)) = 5
      BY <1>2, <1>3, RecPushedSteps
    <3>2. \A i \in 1..5 : Folder(RecPushed(dev, k, rec.sha)[i], dev.file)
      BY <1>1, FolderOfDev, AcknowledgeFolder
    <3> QED  BY <2>2, <3>1, <3>2
  <2> QED  BY <2>1, <2>2
<1>5. Commit(steps, mem) /\ NextFile /\ Undisturbed /\ UNCHANGED <<protected, acts>>
  BY DEF RecCommit
<1> HIDE DEF steps
<1>6. leftover' \in [intents : SUBSET Keys, orphans : SUBSET Version]
  BY <1>1 DEF RecCommit, MountOK
<1> QED  BY <1>1, <1>3, <1>4, <1>5, <1>6, RecStepSafe

\* The landing of a recovery pull, in the slot found empty again.
LEMMA LandSafe ==
  ASSUME ProtectedInv, NEW k \in Keys, RecLand(k)
  PROVE  Protects
<1>1. /\ rec.verb # "none" /\ rec.pc = "land" /\ RecKnows /\ IInv /\ MountOK
  BY DoingKnows DEF RecLand, Doing, ProtectedInv
<1>2. rec.sha \in Version /\ rec.stamp = None  BY <1>1 DEF RecKnows
<1>3. ghost \in Ghost /\ dev \in DeviceOf(ghost.seen) /\ <<dev>> \in StepsOf(ghost.seen)
  BY <1>1, Parts
<1>4. NextFile /\ Undisturbed /\ UNCHANGED <<protected, acts>>  BY DEF RecLand
<1>5. leftover' \in [intents : SUBSET Keys, orphans : SUBSET Version]
  <2>1. Orphaned(k) \subseteq Version
    <3>1. ASSUME NEW j \in dev.jobs  PROVE dev.file[j.to] \in Version \cup {None}
      <4>1. j.to \in Keys  BY <1>1, JobReads
      <4> QED  BY <1>1, <1>3, <4>1, Parts, DeviceReads
    <3> QED  BY <3>1 DEF Orphaned
  <2> QED  BY <1>1, <2>1 DEF RecLand, MountOK
<1>6. CASE Stale(k)
  <2>1. Commit(<<dev>>, mem) /\ ghost' = ghost  BY <1>6 DEF RecLand
  <2>2. \A i \in 1..Len(<<dev>>) : Folder(<<dev>>[i], dev.file)  BY <1>1, FolderOfDev
  <2> QED  BY <1>1, <1>3, <1>4, <1>5, <2>1, <2>2, RecStepSafe
<1>7. CASE ~ Stale(k)
  <2> DEFINE S == ghost.seen \cup {rec.sha}
             F == [dev.file EXCEPT ![k] = rec.sha]
  <2>1. /\ Commit(RecPulled(dev, k, rec.sha), mem)
        /\ ghost' = [ghost EXCEPT !.seen = @ \cup {rec.sha}]
    BY <1>7 DEF RecLand
  <2>2. ghost' \in Ghost /\ ghost'.seen = S  BY <1>2, <1>3, <2>1 DEF Ghost
  <2>3. dev \in DeviceOf(S)  BY <1>3, DeviceGrows
  <2>4. /\ RecPulled(dev, k, rec.sha) \in StepsOf(S)
        /\ \A i \in 1..Len(RecPulled(dev, k, rec.sha)) :
             Folder(RecPulled(dev, k, rec.sha)[i], F)
    BY <2>3, RecPulledSteps
  <2>5. dev.file[k] = None  BY <1>2, <1>7 DEF Stale
  <2>6. \A j \in Keys : dev.file[j] # None => F[j] = dev.file[j]
    BY <1>3, <2>5 DEF DeviceOf
  <2> HIDE DEF F
  <2> QED  BY <1>1, <1>4, <1>5, <2>1, <2>2, <2>4, <2>6, RecStepSafe
<1> QED  BY <1>6, <1>7

\* The process dies in the middle of a recovery.
LEMMA CrashSafe ==
  ASSUME ProtectedInv, UNCHANGED leftover, CrashInRecovery
  PROVE  Protects
<1>1. IInv /\ MountOK  BY DEF ProtectedInv
<1>2. /\ Crash(dev) /\ rec' = NoRecovery /\ Undisturbed /\ ProcessCrash
      /\ UNCHANGED <<protected, acts, leftover>>
  BY DEF CrashInRecovery, ProcessCrash
<1>3. IInv' /\ hub'.object = hub.object  BY <1>1, <1>2, ProcessCrashKeeps
<1>4. Folder(dev', dev.file)  BY <1>1, <1>2, FolderOfDev, QueueKeepsFolder DEF Crash
<1>5. mem'.eng = Idle  BY <1>2 DEF Crash, Booting
<1>6. RecKnows'  BY <1>2, RestingRecovery DEF RecKnows, NoRecovery
<1>7. MountOK'  BY <1>1, <1>2, UndisturbedOK DEF MountOK
<1>8. Harmless(mem'.eng)  BY <1>5, HarmlessPlaces
<1>9. FilesStay /\ ObjectsStay  BY <1>3, <1>4 DEF Folder, FilesStay, ObjectsStay
<1> QED  BY <1>3, <1>6, <1>7, <1>8, <1>9 DEF Protects, ProtectedInv

\* Mounted again, without the option.
LEMMA ResumeSafe ==
  ASSUME ProtectedInv, UNCHANGED leftover, Resume
  PROVE  Protects
<1>1. IInv /\ RecKnows /\ MountOK  BY DEF ProtectedInv
<1>2. /\ rec.verb = "none" /\ protected' = FALSE /\ mem' = Booting
      /\ dev' = dev /\ hub' = hub /\ ghost' = ghost /\ faults' = faults
      /\ rec' = rec /\ acts' = acts /\ settled' = settled /\ leftover' = leftover
  BY DEF Resume, BetweenCycles
<1>3. mem' \in MemoryOf(ghost'.seen)  BY <1>2, BootingMemory
<1>4. IInv'  BY <1>1, <1>2, <1>3 DEF IInv, KnownVersions
<1>5. RecKnows'  BY <1>1, <1>2 DEF RecKnows
<1>6. MountOK'  BY <1>1, <1>2 DEF MountOK
<1>7. FilesStay /\ ObjectsStay  BY <1>2 DEF FilesStay, ObjectsStay
<1> QED  BY <1>2, <1>4, <1>5, <1>6, <1>7 DEF Protects, ProtectedInv

(***************************************************************************)
(* The specification.                                                      *)
(***************************************************************************)
\* Every step keeps the invariant, and the mount's promise.
LEMMA ProtectedStep == ProtectedInv /\ [ProtectedNext]_allVars => Protects
<1> SUFFICES ASSUME ProtectedInv, [ProtectedNext]_allVars  PROVE Protects
  OBVIOUS
<1>1. CASE UNCHANGED allVars
  <2>1. /\ UNCHANGED <<vars, protected, acts>> /\ mem' = mem /\ ghost' = ghost
        /\ protected' = protected /\ rec' = rec /\ acts' = acts
        /\ settled' = settled /\ leftover' = leftover
    BY <1>1 DEF allVars, vars
  <2>2. RecKnows' /\ MountOK'  BY <2>1 DEF ProtectedInv, RecKnows, MountOK
  <2> QED  BY <2>1, <2>2, OnlyRecSafe
<1>2. ASSUME NEW k \in Keys, RecCommit(k) \/ RecLand(k)
      PROVE  Protects
  BY <1>2, AcknowledgeSafe, LandSafe
<1>3. ASSUME NEW k \in Keys, UNCHANGED leftover,
             Users(k) \/ Take(k) \/ RecHead(k) \/ RecPut(k) \/ RecGet(k)
      PROVE  Protects
  BY <1>3, UsersSafe, TakeSafe, AskSafe, PutSafe
<1>4. CASE UNCHANGED leftover /\ (StartPushLocal \/ StartPullRemote \/ EndRecovery)
  BY <1>4, BeginSafe, EndSafe
<1>5. CASE UNCHANGED leftover /\ (Engine \/ CrashInRecovery \/ Resume)
  BY <1>5, EngineSafe, CrashSafe, ResumeSafe
<1> QED  BY <1>1, <1>2, <1>3, <1>4, <1>5 DEF ProtectedNext

\* The invariant holds from the start and is never lost.
LEMMA ProtectedInvariant == ProtectedSpec => []ProtectedInv
<1>1. ProtectedInv /\ [ProtectedNext]_allVars => ProtectedInv'
  BY ProtectedStep DEF Protects
<1> QED  BY <1>1, ProtectedInitHolds, PTL DEF ProtectedSpec

\* Whatever the bounds, every reachable state of a protected mount, of a
\* recovery and of the remount has the shape ProtectedTypeOK gives it: no step
\* of a cycle comes between two of a recovery, and what it acknowledges or
\* lands is a version (push_recovery_file and pull_recovery_file).
THEOREM ProtectedTypeCorrect == ProtectedSpec => []ProtectedTypeOK
<1>1. ProtectedInv => ProtectedTypeOK
  <2> SUFFICES ASSUME ProtectedInv  PROVE ProtectedTypeOK
    OBVIOUS
  <2>1. IInv /\ RecKnows /\ MountOK  BY DEF ProtectedInv
  <2>2. dev \in DeviceOf(Version) /\ mem \in MemoryOf(Version)
    BY <2>1, Parts, DeviceGrows, MemoryGrows
  <2>3. TypeOK  BY <2>1, <2>2, Parts DEF TypeOK, Device, Memory
  <2> QED  BY <2>1, <2>3 DEF ProtectedTypeOK, RecKnows, MountOK
<1> QED  BY <1>1, ProtectedInvariant, PTL

\* For every set of keys and any number of saves, changes and faults: while the
\* mount is protected no file is replaced or removed but by its users, whatever
\* was queued before, and wherever a crash comes (protection.rs, and the places
\* of sync.rs that ask it).
THEOREM FolderHeldAlways == ProtectedSpec => FolderHeld
<1> DEFINE Held == protected /\ acts' = acts
                   => \A k \in Keys : dev.file[k] # None => dev'.file[k] = dev.file[k]
<1>1. ProtectedInv /\ [ProtectedNext]_allVars => [Held]_allVars
  BY ProtectedStep DEF Protects, FilesStay
<1>2. [][Held]_allVars => FolderHeld  BY PTL DEF FolderHeld
<1> QED  BY <1>1, <1>2, ProtectedInvariant, PTL DEF ProtectedSpec

\* The same of the hub: nothing but its users and a recovery push replaces or
\* removes an object, and the push replaces the version the HEAD showed it by
\* the snapshot it took.
THEOREM HubHeldAlways == ProtectedSpec => HubHeld
<1> DEFINE Held == protected /\ acts' = acts
                   => \A k \in Keys :
                        hub.object[k] # None /\ hub'.object[k] # hub.object[k]
                        => rec.pc = "put" /\ hub.object[k] = rec.match
                           /\ hub'.object[k] = rec.sha
<1>1. ProtectedInv /\ [ProtectedNext]_allVars => [Held]_allVars
  BY ProtectedStep DEF Protects, ObjectsStay
<1>2. [][Held]_allVars => HubHeld  BY PTL DEF HubHeld
<1> QED  BY <1>1, <1>2, ProtectedInvariant, PTL DEF ProtectedSpec
=============================================================================
