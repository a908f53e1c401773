-------------------------- MODULE MirrorSyncProofs --------------------------
(***************************************************************************)
(* What holds of the mirror engine for every set of keys, every number of  *)
(* saves, faults and renames, and both delete modes.  The invariant says   *)
(* that the mirror knows no versions but those its folder has held; it is  *)
(* carried through every handler by the lemmas about Ledger, which say it   *)
(* of every device a handler passes through, so that it also holds of what *)
(* a crash in the middle of the handler leaves.                            *)
(***************************************************************************)
EXTENDS MirrorSync, TLAPS

(***************************************************************************)
(* What decide() promises for any three digests whatever.  The tests of    *)
(* reconcile.rs go through the table row by row with three sample digests; *)
(* these theorems say what the rows add up to.                             *)
(***************************************************************************)

\* A request that replaces or removes what the hub holds always names it: the
\* If-Match that decide() hands out is the hub's current version, and a PUT
\* with If-None-Match is decided only when the hub holds nothing.
THEOREM PreconditionIsWhatTheHubHolds ==
  ASSUME NEW l, NEW b, NEW r, R!Decide(l, b, r).act \in {"Push", "DeleteRemote"}
  PROVE  R!Decide(l, b, r).match = r
BY DEF R!Decide, R!OneSideChanged, R!BothSidesChanged, R!Action

\* A local edit the hub does not hold is sent there, as a new version or as a
\* conflict copy; no decision drops it, pulls over it or trashes it.
THEOREM LocalEditIsSent ==
  ASSUME NEW l, NEW b, NEW r, l \notin {None, b, r}
  PROVE  R!Decide(l, b, r).act \in {"Push", "Conflict"}
BY DEF R!Decide, R!OneSideChanged, R!BothSidesChanged, R!Action

\* The same of an edit made on the hub: it is fetched, alone or after a
\* conflict copy; no decision replaces or deletes it.
THEOREM RemoteEditIsFetched ==
  ASSUME NEW l, NEW b, NEW r, r \notin {None, b, l}
  PROVE  R!Decide(l, b, r).act \in {"Pull", "Conflict"}
BY DEF R!Decide, R!OneSideChanged, R!BothSidesChanged, R!Action

\* Bytes are removed, here or there, only when the side that loses them still
\* has the agreed version and the other side has none.
THEOREM DeletesOnlyAgreedBytes ==
  ASSUME NEW l, NEW b, NEW r
  PROVE  /\ R!Decide(l, b, r).act = "TrashLocal" => l = b /\ l # None /\ r = None
         /\ R!Decide(l, b, r).act = "DeleteRemote" => r = b /\ r # None /\ l = None
<1>1. CASE l = b /\ r = b
  BY <1>1 DEF R!Decide, R!Action
<1>2. CASE l = b /\ r # b
  <2>1. R!Decide(l, b, r) = R!OneSideChanged(l, b, r)  BY <1>2 DEF R!Decide
  <2> QED  BY <1>2, <2>1 DEF R!OneSideChanged, R!Action
<1>3. CASE l # b /\ r = b
  <2>1. R!Decide(l, b, r) = R!OneSideChanged(l, b, r)  BY <1>3 DEF R!Decide
  <2> QED  BY <1>3, <2>1 DEF R!OneSideChanged, R!Action
<1>4. CASE l # b /\ r # b
  <2>1. R!Decide(l, b, r) = R!BothSidesChanged(l, r)  BY <1>4 DEF R!Decide
  <2> QED  BY <2>1 DEF R!BothSidesChanged, R!Action
<1> QED  BY <1>1, <1>2, <1>3, <1>4

\* Nothing is decided exactly when the three agree: a key the engine leaves
\* alone is in step, and a key in step is never touched again.
THEOREM NothingMeansAgreement ==
  ASSUME NEW l, NEW b, NEW r
  PROVE  R!Decide(l, b, r).act = "Nothing" <=> l = b /\ r = b
<1>1. CASE l = b /\ r = b
  BY <1>1 DEF R!Decide, R!Action
<1>2. CASE ~(l = b /\ r = b)
  BY <1>2 DEF R!Decide, R!OneSideChanged, R!BothSidesChanged, R!Action
<1> QED  BY <1>1, <1>2

(***************************************************************************)
(* What the operators of Ledger make of a device that knows no versions    *)
(* but those of a set S: such a device again.  With S == Version this is   *)
(* type correctness; with S the versions the folder has held, it is the    *)
(* fact that the ledger never invents a version.                           *)
(***************************************************************************)

\* Every state a handler passes through is a device that knows only S.
StepsOf(S) == {s \in Seq(DeviceOf(S)) : s # << >>}

\* The identities of jobs are identities, the keys of a job are keys.
LEMMA IdsAreIds ==
  ASSUME NEW S, NEW js \in SUBSET JobOf(S)
  PROVE  Ids(js) \subseteq JobId
BY DEF Ids, Id, JobOf, JobId

\* The four identities a key or two can have.
LEMMA IdsOfKeys ==
  ASSUME NEW a \in Keys, NEW b \in Keys
  PROVE  /\ PushId(a) \in JobId /\ DeleteId(a) \in JobId
         /\ ConflictId(a) \in JobId /\ RenameId(a, b) \in JobId
BY DEF PushId, DeleteId, ConflictId, RenameId, JobId, JobKinds

\* Dropping jobs, and with them the places they held in the queue.
LEMMA DequeueJobs ==
  ASSUME NEW S, NEW js \in SUBSET JobOf(S), NEW gone \in SUBSET js
  PROVE  Dequeue(js, gone) \in SUBSET JobOf(S)
<1>1. \A j \in JobOf(S) : [j EXCEPT !.after = @ \ Ids(gone)] \in JobOf(S)
  BY DEF JobOf
<1> QED  BY <1>1 DEF Dequeue

\* A job queued behind others is a job.
LEMMA BehindJobs ==
  ASSUME NEW S, NEW js \in SUBSET JobOf(S), NEW id \in JobId,
         NEW m \in S \cup {None, Unhashed}, NEW v \in S \cup {None}
  PROVE  Behind(js, id, m, v) \in JobOf(S)
<1>1. Ids({j \in js : Overlap(j, id)}) \subseteq JobId
  BY DEF Ids, Id, JobOf, JobId
<1> QED  BY <1>1 DEF Behind, JobOf, JobId

\* Each single durable write.
LEMMA SetFileDevice ==
  ASSUME NEW S, NEW d \in DeviceOf(S), NEW k \in Keys, NEW v \in S \cup {None}
  PROVE  SetFile(d, k, v) \in DeviceOf(S)
BY DEF SetFile, DeviceOf

\* put_entry and remove_entry.
LEMMA SetEntryDevice ==
  ASSUME NEW S, NEW d \in DeviceOf(S), NEW k \in Keys, NEW e \in EntryOf(S)
  PROVE  SetEntry(d, k, e) \in DeviceOf(S)
BY DEF SetEntry, DeviceOf

\* put_base and remove_base.
LEMMA SetBaseDevice ==
  ASSUME NEW S, NEW d \in DeviceOf(S), NEW k \in Keys,
         NEW b \in S \cup {None, Unhashed}
  PROVE  SetBase(d, k, b) \in DeviceOf(S)
BY DEF SetBase, DeviceOf

\* The upload-pending mark, the conflict record, the trash record.
LEMMA SetRecordDevice ==
  ASSUME NEW S, NEW d \in DeviceOf(S), NEW k \in Keys, NEW v \in S \cup {None}
  PROVE  /\ SetPending(d, k, v) \in DeviceOf(S)
         /\ SetConflict(d, k, v) \in DeviceOf(S)
         /\ SetTrash(d, k, v) \in DeviceOf(S)
<1>1. SetPending(d, k, v) \in DeviceOf(S)  BY DEF SetPending, DeviceOf
<1>2. SetConflict(d, k, v) \in DeviceOf(S)  BY DEF SetConflict, DeviceOf
<1>3. SetTrash(d, k, v) \in DeviceOf(S)  BY DEF SetTrash, DeviceOf
<1> QED  BY <1>1, <1>2, <1>3

\* A conflict snapshot of known bytes.
LEMMA KeepDevice ==
  ASSUME NEW S, NEW d \in DeviceOf(S), NEW v \in S
  PROVE  Keep(d, v) \in DeviceOf(S)
BY DEF Keep, DeviceOf

\* An entry put back with another state.
LEMMA SetStateDevice ==
  ASSUME NEW S, NEW d \in DeviceOf(S), NEW k \in Keys, NEW s \in EntryStates
  PROVE  SetState(d, k, s) \in DeviceOf(S)
<1>1. d.entry[k] \in EntryOf(S)  BY DEF DeviceOf
<1>2. [d.entry[k] EXCEPT !.state = s] \in EntryOf(S)  BY <1>1 DEF EntryOf
<1> QED  BY <1>2, SetEntryDevice DEF SetState

\* The queue replaced by known jobs.
LEMMA SetJobsDevice ==
  ASSUME NEW S, NEW d \in DeviceOf(S), NEW js \in SUBSET JobOf(S)
  PROVE  [d EXCEPT !.jobs = js] \in DeviceOf(S)
BY DEF DeviceOf

\* enqueue: the job of the same identity goes, the new one comes last.
LEMMA EnqueueDevice ==
  ASSUME NEW S, NEW d \in DeviceOf(S), NEW id \in JobId,
         NEW m \in S \cup {None, Unhashed}, NEW v \in S \cup {None}
  PROVE  Enqueue(d, id, m, v) \in DeviceOf(S)
<1> DEFINE rest == Dequeue(d.jobs, {j \in d.jobs : Id(j) = id})
<1>1. d.jobs \in SUBSET JobOf(S)  BY DEF DeviceOf
<1>2. rest \in SUBSET JobOf(S)  BY <1>1, DequeueJobs
<1>3. Behind(rest, id, m, v) \in JobOf(S)  BY <1>2, BehindJobs
<1>4. rest \cup {Behind(rest, id, m, v)} \in SUBSET JobOf(S)  BY <1>2, <1>3
<1> QED  BY <1>4, SetJobsDevice DEF Enqueue

\* A queued push.
LEMMA EnqueuePushDevice ==
  ASSUME NEW S, NEW d \in DeviceOf(S), NEW k \in Keys
  PROVE  EnqueuePush(d, k) \in DeviceOf(S)
<1>1. PushId(k) \in JobId  BY IdsOfKeys
<1> QED  BY <1>1, EnqueueDevice DEF EnqueuePush

\* ensure_job: nothing, or an enqueue.
LEMMA EnsureJobDevice ==
  ASSUME NEW S, NEW d \in DeviceOf(S), NEW id \in JobId, NEW v \in S \cup {None}
  PROVE  EnsureJob(d, id, v) \in DeviceOf(S)
<1>1. Enqueue(d, id, None, v) \in DeviceOf(S)  BY EnqueueDevice
<1> QED  BY <1>1 DEF EnsureJob

\* remove_jobs_for.
LEMMA RemoveJobsForDevice ==
  ASSUME NEW S, NEW d \in DeviceOf(S), NEW k \in Keys
  PROVE  RemoveJobsFor(d, k) \in DeviceOf(S)
<1>1. d.jobs \in SUBSET JobOf(S)  BY DEF DeviceOf
<1>2. Dequeue(d.jobs, {j \in d.jobs : j.key = k}) \in SUBSET JobOf(S)
  BY <1>1, DequeueJobs
<1> QED  BY <1>2, SetJobsDevice DEF RemoveJobsFor

\* The end of run_one, when the job is done with.
LEMMA DoneDevice ==
  ASSUME NEW S, NEW d \in DeviceOf(S)
  PROVE  Done(d) \in DeviceOf(S)
<1>1. d.jobs \in SUBSET JobOf(S)  BY DEF DeviceOf
<1>2. Dequeue(d.jobs, {j \in d.jobs : j.running}) \in SUBSET JobOf(S)
  BY <1>1, DequeueJobs
<1> QED  BY <1>2, SetJobsDevice DEF Done

\* Taking a job, or letting it go, changes nothing else of it.
LEMMA MarkJob ==
  ASSUME NEW S, NEW j \in JobOf(S), NEW b \in BOOLEAN
  PROVE  [j EXCEPT !.running = b] \in JobOf(S)
BY DEF JobOf

\* The job the engine took, and the job it left queued.
LEMMA MarkDevice ==
  ASSUME NEW S, NEW d \in DeviceOf(S)
  PROVE  /\ Unmark(d) \in DeviceOf(S)
         /\ \A j \in d.jobs : Mark(d, j) \in DeviceOf(S)
<1>1. d.jobs \in SUBSET JobOf(S)  BY DEF DeviceOf
<1>2. {[j EXCEPT !.running = FALSE] : j \in d.jobs} \in SUBSET JobOf(S)
  BY <1>1, MarkJob
<1>3. Unmark(d) \in DeviceOf(S)  BY <1>2, SetJobsDevice DEF Unmark
<1>4. ASSUME NEW j \in d.jobs  PROVE Mark(d, j) \in DeviceOf(S)
  <2>1. (d.jobs \ {j}) \cup {[j EXCEPT !.running = TRUE]} \in SUBSET JobOf(S)
    BY <1>1, MarkJob
  <2> QED  BY <2>1, SetJobsDevice DEF Mark
<1> QED  BY <1>3, <1>4

\* rekey: the entry and the base follow the file.
LEMMA RekeyDevice ==
  ASSUME NEW S, NEW d \in DeviceOf(S), NEW from \in Keys, NEW to \in Keys
  PROVE  Rekey(d, from, to) \in DeviceOf(S)
<1> DEFINE entries == IF d.entry[from].state = "Absent" THEN d.entry
                      ELSE [d.entry EXCEPT ![to] = d.entry[from], ![from] = NoEntry]
           bases   == IF d.base[from] = None THEN d.base
                      ELSE [d.base EXCEPT ![to] = d.base[from], ![from] = None]
<1>1. NoEntry \in EntryOf(S)  BY DEF NoEntry, EntryOf, EntryStates
<1>2. d.entry \in [Keys -> EntryOf(S)] /\ d.base \in [Keys -> S \cup {None, Unhashed}]
  BY DEF DeviceOf
<1>3. entries \in [Keys -> EntryOf(S)]  BY <1>1, <1>2
<1>4. bases \in [Keys -> S \cup {None, Unhashed}]  BY <1>2
<1>5. [d EXCEPT !.entry = entries, !.base = bases] \in DeviceOf(S)
  BY <1>3, <1>4 DEF DeviceOf
<1> QED  BY <1>5 DEF Rekey

\* The values an entry is made of, and what is read from it.
LEMMA EntryValues ==
  ASSUME NEW S, NEW v \in S \cup {None}
  PROVE  /\ NoEntry \in EntryOf(S)
         /\ Intent(v) \in EntryOf(S)
         /\ Hashed(v, "Clean") \in EntryOf(S)
         /\ Hashed(v, "Dirty") \in EntryOf(S)
BY DEF NoEntry, Intent, Hashed, EntryOf, EntryStates

\* The digest decide() is given.
LEMMA EntryReads ==
  ASSUME NEW S, NEW e \in EntryOf(S)
  PROVE  EntryDigest(e) \in S \cup {None, Unhashed}
BY DEF EntryDigest, EntryOf

\* What is read of a device.
LEMMA DeviceReads ==
  ASSUME NEW S, NEW d \in DeviceOf(S), NEW k \in Keys
  PROVE  /\ d.file[k] \in S \cup {None}
         /\ d.entry[k] \in EntryOf(S)
         /\ d.base[k] \in S \cup {None, Unhashed}
         /\ d.pending[k] \in S \cup {None}
         /\ d.conflict[k] \in S \cup {None}
         /\ d.trash[k] \in S \cup {None}
         /\ d.jobs \subseteq JobOf(S)
BY DEF DeviceOf

\* A device that knows S knows no more than a larger set.
LEMMA DeviceGrows ==
  ASSUME NEW S, NEW T, S \subseteq T, NEW d \in DeviceOf(S)
  PROVE  d \in DeviceOf(T)
<1>1. EntryOf(S) \subseteq EntryOf(T)  BY DEF EntryOf
<1>2. JobOf(S) \subseteq JobOf(T)  BY DEF JobOf
<1> QED  BY <1>1, <1>2 DEF DeviceOf

\* A new device knows no version at all.
LEMMA EmptyDeviceKnowsNothing ==
  ASSUME NEW S
  PROVE  EmptyDevice \in DeviceOf(S)
BY DEF EmptyDevice, DeviceOf, NoEntry, EntryOf, EntryStates

(***************************************************************************)
(* Handlers: sequences of devices.                                         *)
(***************************************************************************)
\* Where a handler ends, and where a crash can leave it.
LEMMA StepsRead ==
  ASSUME NEW S, NEW s \in StepsOf(S)
  PROVE  /\ Last(s) \in DeviceOf(S)
         /\ \A i \in 1..Len(s) - 1 : s[i] \in DeviceOf(S)
<1>1. s \in Seq(DeviceOf(S)) /\ s # << >>  BY DEF StepsOf
<1>2. Len(s) \in Nat /\ Len(s) >= 1  BY <1>1
<1> QED  BY <1>1, <1>2 DEF Last

\* One write more.
LEMMA StepsAppend ==
  ASSUME NEW S, NEW s \in StepsOf(S), NEW d \in DeviceOf(S)
  PROVE  Append(s, d) \in StepsOf(S)
<1>1. s \in Seq(DeviceOf(S))  BY DEF StepsOf
<1>2. Append(s, d) \in Seq(DeviceOf(S))  BY <1>1
<1>3. Len(Append(s, d)) = Len(s) + 1 /\ Len(s) \in Nat  BY <1>1
<1>4. Len(<< >>) = 0  OBVIOUS
<1>5. Append(s, d) # << >>  BY <1>3, <1>4
<1> QED  BY <1>2, <1>5 DEF StepsOf

\* One handler after another.
LEMMA StepsConcat ==
  ASSUME NEW S, NEW s \in StepsOf(S), NEW t \in StepsOf(S)
  PROVE  s \o t \in StepsOf(S)
<1>1. s \in Seq(DeviceOf(S)) /\ t \in Seq(DeviceOf(S)) /\ s # << >>  BY DEF StepsOf
<1>2. s \o t \in Seq(DeviceOf(S))  BY <1>1
<1>3. Len(s \o t) = Len(s) + Len(t) /\ Len(s) \in Nat /\ Len(t) \in Nat  BY <1>1
<1>4. Len(s) >= 1  BY <1>1
<1>5. Len(<< >>) = 0  OBVIOUS
<1>6. s \o t # << >>  BY <1>3, <1>4, <1>5
<1> QED  BY <1>2, <1>6 DEF StepsOf

\* Handlers of one to five writes.
LEMMA StepsOne ==
  ASSUME NEW S, NEW d \in DeviceOf(S)
  PROVE  <<d>> \in StepsOf(S)
BY DEF StepsOf

\* Two writes.
LEMMA StepsTwo ==
  ASSUME NEW S, NEW d \in DeviceOf(S), NEW e \in DeviceOf(S)
  PROVE  <<d, e>> \in StepsOf(S)
BY DEF StepsOf

\* Three writes.
LEMMA StepsThree ==
  ASSUME NEW S, NEW d \in DeviceOf(S), NEW e \in DeviceOf(S), NEW f \in DeviceOf(S)
  PROVE  <<d, e, f>> \in StepsOf(S)
BY DEF StepsOf

\* Four writes.
LEMMA StepsFour ==
  ASSUME NEW S, NEW d \in DeviceOf(S), NEW e \in DeviceOf(S),
         NEW f \in DeviceOf(S), NEW g \in DeviceOf(S)
  PROVE  <<d, e, f, g>> \in StepsOf(S)
BY DEF StepsOf

\* Five writes.
LEMMA StepsFive ==
  ASSUME NEW S, NEW d \in DeviceOf(S), NEW e \in DeviceOf(S),
         NEW f \in DeviceOf(S), NEW g \in DeviceOf(S), NEW h \in DeviceOf(S)
  PROVE  <<d, e, f, g, h>> \in StepsOf(S)
BY DEF StepsOf

\* note_local_gone.
LEMMA NoteGoneSteps ==
  ASSUME NEW S, NEW d \in DeviceOf(S), NEW k \in Keys
  PROVE  NoteGone(d, k) \in StepsOf(S)
<1> DEFINE d1 == RemoveJobsFor(d, k)
           d2 == SetState(d1, k, "Tombstone")
           d3 == Enqueue(d2, DeleteId(k), None, None)
           forgot == SetEntry(d1, k, NoEntry)
           last == SetBase(forgot, k, None)
<1>1. d1 \in DeviceOf(S)  BY RemoveJobsForDevice
<1>2. d2 \in DeviceOf(S)  BY <1>1, SetStateDevice DEF EntryStates
<1>3. d3 \in DeviceOf(S)  BY <1>2, IdsOfKeys, EnqueueDevice
<1>4. NoEntry \in EntryOf(S)  BY EntryValues
<1>5. forgot \in DeviceOf(S)  BY <1>1, <1>4, SetEntryDevice
<1>6. last \in DeviceOf(S)  BY <1>5, SetBaseDevice
<1>7. <<d>> \in StepsOf(S)  BY StepsOne
<1>8. <<d1, d2, d3>> \in StepsOf(S)  BY <1>1, <1>2, <1>3, StepsThree
<1>9. <<d1, forgot, last>> \in StepsOf(S)  BY <1>1, <1>5, <1>6, StepsThree
<1> HIDE DEF d1, d2, d3, forgot, last
<1> QED  BY <1>7, <1>8, <1>9 DEF NoteGone, d1, d2, d3, forgot, last

\* delete_local.
LEMMA DeleteStepsSteps ==
  ASSUME NEW S, NEW d \in DeviceOf(S), NEW k \in Keys
  PROVE  DeleteSteps(d, k) \in StepsOf(S)
<1> DEFINE gone == SetFile(d, k, None)
<1>1. gone \in DeviceOf(S)  BY SetFileDevice
<1>2. <<gone>> \in StepsOf(S) /\ NoteGone(gone, k) \in StepsOf(S)
  BY <1>1, StepsOne, NoteGoneSteps
<1>3. <<gone>> \o NoteGone(gone, k) \in StepsOf(S)  BY <1>2, StepsConcat
<1> QED  BY <1>3 DEF DeleteSteps

\* commit_local_file.
LEMMA CommitStepsSteps ==
  ASSUME NEW S, NEW d \in DeviceOf(S), NEW k \in Keys
  PROVE  CommitSteps(d, k) \in StepsOf(S)
<1> DEFINE d1 == SetEntry(d, k, Intent(d.file[k]))
<1>1. d.file[k] \in S \cup {None}  BY DeviceReads
<1>2. Intent(d.file[k]) \in EntryOf(S)  BY <1>1, EntryValues
<1>3. d1 \in DeviceOf(S)  BY <1>2, SetEntryDevice
<1>4. EnqueuePush(d1, k) \in DeviceOf(S)  BY <1>3, EnqueuePushDevice
<1> QED  BY <1>3, <1>4, StepsTwo DEF CommitSteps

\* scan_paths, one key.
LEMMA ScanStepsSteps ==
  ASSUME NEW S, NEW d \in DeviceOf(S), NEW k \in Keys
  PROVE  ScanSteps(d, k) \in StepsOf(S)
<1> DEFINE v  == d.file[k]
           d1 == SetEntry(d, k, Hashed(v, "Dirty"))
           d2 == SetTrash(d1, k, None)
           d3 == EnqueuePush(d2, k)
<1>1. v \in S \cup {None}  BY DeviceReads
<1>2. Hashed(v, "Dirty") \in EntryOf(S)  BY <1>1, EntryValues
<1>3. d1 \in DeviceOf(S)  BY <1>2, SetEntryDevice
<1>4. d2 \in DeviceOf(S)  BY <1>3, SetRecordDevice
<1>5. d3 \in DeviceOf(S)  BY <1>4, EnqueuePushDevice
<1>6. <<d1, d2, d3>> \in StepsOf(S)  BY <1>3, <1>4, <1>5, StepsThree
<1>7. <<d>> \in StepsOf(S) /\ NoteGone(d, k) \in StepsOf(S)
  BY StepsOne, NoteGoneSteps
<1> HIDE DEF v, d1, d2, d3
<1> QED  BY <1>6, <1>7 DEF ScanSteps, v, d1, d2, d3

(***************************************************************************)
(* The rename handlers.                                                    *)
(***************************************************************************)
\* A job that follows a rename is a job.
LEMMA RetargetJob ==
  ASSUME NEW S, NEW j \in JobOf(S), NEW to \in Keys
  PROVE  Retarget(j, to) \in JobOf(S)
<1>1. CASE j.kind \in {"Push", "Conflict"}
  <2>1. [j EXCEPT !.key = to, !.to = to] \in JobOf(S)  BY DEF JobOf
  <2> QED  BY <1>1, <2>1 DEF Retarget
<1>2. CASE j.kind = "Rename"
  <2>1. [j EXCEPT !.to = to] \in JobOf(S)  BY DEF JobOf
  <2> QED  BY <1>2, <2>1 DEF Retarget
<1>3. CASE j.kind \notin {"Push", "Conflict", "Rename"}
  BY <1>3 DEF Retarget
<1> QED  BY <1>1, <1>2, <1>3

\* The jobs dropped from the old name, queued again under the new one.
LEMMA RequeueDevice ==
  ASSUME NEW S, NEW d \in DeviceOf(S), NEW to \in Keys,
         NEW dropped \in SUBSET JobOf(S)
  PROVE  Requeue(d, dropped, to) \in DeviceOf(S)
<1> DEFINE again == Ids({Retarget(j, to) : j \in dropped})
           rest  == Dequeue(d.jobs, {j \in d.jobs : Id(j) \in again})
           Earlier(j) == {Retarget(g, to) : g \in {g \in dropped : Id(g) \in j.after}}
           Later(j) ==
             LET i == Retarget(j, to)
                 earlier == {Retarget(g, to) : g \in {g \in dropped : Id(g) \in j.after}}
             IN  [Behind(rest, Id(i), i.match, i.sha) EXCEPT
                    !.after = @ \cup Ids({g \in earlier : Overlap(g, i)})]
<1>1. d.jobs \in SUBSET JobOf(S)  BY DEF DeviceOf
<1>2. rest \in SUBSET JobOf(S)  BY <1>1, DequeueJobs
<1>3. ASSUME NEW j \in dropped  PROVE Later(j) \in JobOf(S)
  <2> DEFINE i == Retarget(j, to)
             wait == Ids({g \in Earlier(j) : Overlap(g, i)})
             b == Behind(rest, Id(i), i.match, i.sha)
  <2>1. i \in JobOf(S)  BY RetargetJob
  <2>2. /\ Id(i) \in JobId
        /\ i.match \in S \cup {None, Unhashed} /\ i.sha \in S \cup {None}
    BY <2>1 DEF Id, JobOf, JobId
  <2>3. b \in JobOf(S)  BY <1>2, <2>2, BehindJobs
  <2>4. {g \in Earlier(j) : Overlap(g, i)} \in SUBSET JobOf(S)  BY RetargetJob
  <2>5. wait \subseteq JobId  BY <2>4, IdsAreIds
  <2> HIDE DEF b, wait, i
  <2>6. [b EXCEPT !.after = @ \cup wait] \in JobOf(S)  BY <2>3, <2>5 DEF JobOf
  <2>7. Later(j) = [b EXCEPT !.after = @ \cup wait]  BY DEF b, wait, i
  <2> QED  BY <2>6, <2>7
<1> HIDE DEF rest
<1>4. {Later(j) : j \in dropped} \in SUBSET JobOf(S)  BY <1>3
<1>5. rest \cup {Later(j) : j \in dropped} \in SUBSET JobOf(S)  BY <1>2, <1>4
<1>6. [d EXCEPT !.jobs = rest \cup {Later(j) : j \in dropped}] \in DeviceOf(S)
  BY Zenon, <1>5, SetJobsDevice
<1> QED  BY <1>6 DEF Requeue, rest

\* rekey_entry.
LEMMA RekeyStepsSteps ==
  ASSUME NEW S, NEW d \in DeviceOf(S), NEW from \in Keys, NEW to \in Keys
  PROVE  RekeySteps(d, from, to) \in StepsOf(S)
<1> DEFINE dropped == {j \in d.jobs : j.key = from}
           d1 == RemoveJobsFor(d, from)
           d2 == Rekey(d1, from, to)
           d3 == IF d2.conflict[from] = None THEN d2
                 ELSE SetConflict(d2, from, None)
           d4 == IF d2.conflict[from] = None THEN d3
                 ELSE SetConflict(d3, to, d2.conflict[from])
           d5 == SetTrash(d4, to, None)
           hasBase == d5.base[to] # None
           d6 == IF hasBase \/ d5.pending[from] # None
                 THEN Enqueue(d5, RenameId(from, to), None, None) ELSE d5
           d7 == Requeue(d6, dropped, to)
           d8 == IF ~hasBase /\ d7.entry[to].state = "Clean"
                 THEN EnqueuePush(SetState(d7, to, "Dirty"), to) ELSE d7
<1>1. d1 \in DeviceOf(S)  BY RemoveJobsForDevice
<1> HIDE DEF d1
<1>2. d2 \in DeviceOf(S)  BY <1>1, RekeyDevice
<1> HIDE DEF d2
<1>3. d2.conflict[from] \in S \cup {None}  BY <1>2, DeviceReads
<1>4. d3 \in DeviceOf(S)  BY <1>2, SetRecordDevice
<1> HIDE DEF d3
<1>5. d4 \in DeviceOf(S)  BY <1>3, <1>4, SetRecordDevice
<1> HIDE DEF d4
<1>6. d5 \in DeviceOf(S)  BY <1>5, SetRecordDevice
<1> HIDE DEF d5
<1>7. d6 \in DeviceOf(S)
  <2>1. RenameId(from, to) \in JobId  BY IdsOfKeys
  <2>2. Enqueue(d5, RenameId(from, to), None, None) \in DeviceOf(S)
    BY <1>6, <2>1, EnqueueDevice
  <2> QED  BY <1>6, <2>2
<1> HIDE DEF d6
<1>8. dropped \in SUBSET JobOf(S)  BY DEF DeviceOf
<1> HIDE DEF dropped
<1>9. d7 \in DeviceOf(S)  BY <1>7, <1>8, RequeueDevice
<1> HIDE DEF d7
<1>10. d8 \in DeviceOf(S)
  <2>1. SetState(d7, to, "Dirty") \in DeviceOf(S)
    BY <1>9, SetStateDevice DEF EntryStates
  <2>2. EnqueuePush(SetState(d7, to, "Dirty"), to) \in DeviceOf(S)
    BY <2>1, EnqueuePushDevice
  <2> QED  BY <1>9, <2>2
<1> HIDE DEF d8
<1>11. <<d1, d2, d3, d4, d5, d6, d7, d8>> \in StepsOf(S)
  BY <1>1, <1>2, <1>4, <1>5, <1>6, <1>7, <1>9, <1>10 DEF StepsOf
<1> QED  BY Zenon, <1>11 DEF RekeySteps, dropped, d1, d2, d3, d4, d5, d6, d7, d8

\* rename_local onto a file the hub may have.
LEMMA ReplaceStepsSteps ==
  ASSUME NEW S, NEW d \in DeviceOf(S), NEW from \in Keys, NEW to \in Keys
  PROVE  ReplaceSteps(d, from, to) \in StepsOf(S)
<1> DEFINE d0 == SetFile(SetFile(d, to, d.file[from]), from, None)
           d1 == RemoveJobsFor(d0, from)
           d2 == IF d1.pending[from] = None THEN d1
                 ELSE Enqueue(d1, DeleteId(from), None, None)
           d3 == RemoveJobsFor(d2, to)
           d4 == Rekey(d3, from, to)
           d5 == SetState(d4, to, "Dirty")
           d6 == EnqueuePush(d5, to)
<1>1. d0 \in DeviceOf(S)
  <2>1. d.file[from] \in S \cup {None}  BY DeviceReads
  <2>2. SetFile(d, to, d.file[from]) \in DeviceOf(S)  BY <2>1, SetFileDevice
  <2> QED  BY <2>2, SetFileDevice
<1> HIDE DEF d0
<1>2. d1 \in DeviceOf(S)  BY <1>1, RemoveJobsForDevice
<1> HIDE DEF d1
<1>3. d2 \in DeviceOf(S)  BY <1>2, IdsOfKeys, EnqueueDevice
<1> HIDE DEF d2
<1>4. d3 \in DeviceOf(S)  BY <1>3, RemoveJobsForDevice
<1> HIDE DEF d3
<1>5. d4 \in DeviceOf(S)  BY <1>4, RekeyDevice
<1> HIDE DEF d4
<1>6. d5 \in DeviceOf(S)  BY <1>5, SetStateDevice DEF EntryStates
<1> HIDE DEF d5
<1>7. d6 \in DeviceOf(S)  BY <1>6, EnqueuePushDevice
<1> HIDE DEF d6
<1>8. <<d0, d1, d2, d3, d4, d5, d6>> \in StepsOf(S)
  BY <1>1, <1>2, <1>3, <1>4, <1>5, <1>6, <1>7 DEF StepsOf
<1> QED  BY <1>8 DEF ReplaceSteps, d0, d1, d2, d3, d4, d5, d6

\* rename_local otherwise.
LEMMA MoveStepsSteps ==
  ASSUME NEW S, NEW d \in DeviceOf(S), NEW from \in Keys, NEW to \in Keys
  PROVE  MoveSteps(d, from, to) \in StepsOf(S)
<1> DEFINE gone  == DeleteSteps(d, to)
           fixed == IF d.base[to] = None THEN Last(gone)
                    ELSE Enqueue(Last(gone), DeleteId(to), d.base[to], None)
           clear == IF d.entry[to].state = "Absent" THEN <<d>> ELSE Append(gone, fixed)
           d0    == Last(clear)
           moved == SetFile(SetFile(d0, to, d0.file[from]), from, None)
<1>1. gone \in StepsOf(S)  BY DeleteStepsSteps
<1> HIDE DEF gone
<1>2. Last(gone) \in DeviceOf(S)  BY <1>1, StepsRead
<1>3. fixed \in DeviceOf(S)
  <2>1. d.base[to] \in S \cup {None, Unhashed} /\ DeleteId(to) \in JobId
    BY DeviceReads, IdsOfKeys
  <2>2. Enqueue(Last(gone), DeleteId(to), d.base[to], None) \in DeviceOf(S)
    BY <1>2, <2>1, EnqueueDevice
  <2> QED  BY <1>2, <2>2
<1> HIDE DEF fixed
<1>4. clear \in StepsOf(S)  BY <1>1, <1>3, StepsOne, StepsAppend
<1> HIDE DEF clear
<1>5. d0 \in DeviceOf(S)  BY <1>4, StepsRead
<1> HIDE DEF d0
<1>6. moved \in DeviceOf(S)
  <2>1. d0.file[from] \in S \cup {None}  BY <1>5, DeviceReads
  <2>2. SetFile(d0, to, d0.file[from]) \in DeviceOf(S)  BY <1>5, <2>1, SetFileDevice
  <2> QED  BY <2>2, SetFileDevice
<1> HIDE DEF moved
<1>7. clear \o <<moved>> \in StepsOf(S)  BY <1>4, <1>6, StepsOne, StepsConcat
<1>8. (clear \o <<moved>>) \o RekeySteps(moved, from, to) \in StepsOf(S)
  BY <1>6, <1>7, RekeyStepsSteps, StepsConcat
<1> QED  BY <1>8 DEF MoveSteps, gone, fixed, clear, d0, moved

\* rename_local.
LEMMA RenameStepsSteps ==
  ASSUME NEW S, NEW d \in DeviceOf(S), NEW from \in Keys, NEW to \in Keys
  PROVE  RenameSteps(d, from, to) \in StepsOf(S)
BY ReplaceStepsSteps, MoveStepsSteps DEF RenameSteps

(***************************************************************************)
(* The invariant.                                                          *)
(***************************************************************************)

IInv ==
  /\ KnownVersions
  /\ hub \in Hub
  /\ ghost \in Ghost
  /\ faults \in 0..MaxFaults

\* A step of this device that leaves the hub's objects alone, and after which
\* the device knows no versions but those of S.
LocalStep(S) ==
  /\ dev' \in DeviceOf(S)
  /\ mem' \in MemoryOf(S)
  /\ hub' \in Hub
  /\ hub'.object = hub.object
  /\ faults' \in 0..MaxFaults

(***************************************************************************)
(* Memory.                                                                 *)
(***************************************************************************)
\* The engine between two steps.
LEMMA IdleEngine ==
  ASSUME NEW S
  PROVE  Idle \in EngineOf(S)
BY DEF Idle, EngineOf, PCs, NoEntry, EntryOf, EntryStates, Outcomes, Digest

\* The engine that has just set out on something.
LEMMA AtEngine ==
  ASSUME NEW S, NEW k \in Keys, NEW pc \in PCs \ {"land"}
  PROVE  At(pc, k) \in EngineOf(S)
BY ZenonT(60) DEF At, Idle, EngineOf, PCs, NoEntry, EntryOf, EntryStates, Outcomes, Digest

\* The engine with the answer of a HEAD, a change or a listing.
LEMMA ToldEngine ==
  ASSUME NEW S, NEW k \in Keys, NEW r \in Digest
  PROVE  Told(k, r) \in EngineOf(S)
<1>1. At("head", k) \in EngineOf(S)  BY AtEngine DEF PCs
<1>2. At("head", k).pc = "head"  BY DEF At, Idle
<1> QED  BY <1>1, <1>2 DEF Told, EngineOf

\* What a restart finds in memory: nothing.
LEMMA BootingMemory ==
  ASSUME NEW S
  PROVE  Booting \in MemoryOf(S)
<1>1. NoListing \in Listing  BY DEF NoListing, Listing, Digest
<1> QED  BY <1>1, IdleEngine DEF Booting, MemoryOf

\* The memory with the engine elsewhere.
LEMMA EngageMemory ==
  ASSUME NEW S, mem \in MemoryOf(S), NEW e \in EngineOf(S)
  PROVE  Engage(e) \in MemoryOf(S)
BY DEF Engage, MemoryOf

\* Memory that knows S knows no more than a larger set.
LEMMA MemoryGrows ==
  ASSUME NEW S, NEW T, S \subseteq T, NEW m \in MemoryOf(S)
  PROVE  m \in MemoryOf(T)
<1>1. EntryOf(S) \subseteq EntryOf(T)  BY DEF EntryOf
<1>2. EngineOf(S) \subseteq EngineOf(T)  BY <1>1 DEF EngineOf
<1> QED  BY <1>2 DEF MemoryOf

(***************************************************************************)
(* Commit and Finish: whichever prefix of a handler a crash leaves.        *)
(***************************************************************************)
\* A crash keeps what the disk has.
LEMMA CrashStep ==
  ASSUME NEW S, NEW d \in DeviceOf(S), hub \in Hub, faults \in 0..MaxFaults, Crash(d)
  PROVE  LocalStep(S)
<1>1. dev' \in DeviceOf(S)  BY MarkDevice DEF Crash
<1>2. mem' \in MemoryOf(S)  BY BootingMemory DEF Crash
<1>3. hub' \in Hub /\ hub'.object = hub.object  BY DEF Crash, Hub
<1>4. faults' \in 0..MaxFaults  BY MirrorAssumption DEF Crash
<1> QED  BY <1>1, <1>2, <1>3, <1>4 DEF LocalStep

\* All of the writes of a handler, or a crash after any of them.
LEMMA CommitStep ==
  ASSUME NEW S, NEW steps \in StepsOf(S), NEW m \in MemoryOf(S),
         hub \in Hub, faults \in 0..MaxFaults, Commit(steps, m)
  PROVE  LocalStep(S)
<1>1. /\ Last(steps) \in DeviceOf(S)
      /\ \A i \in 1..Len(steps) - 1 : steps[i] \in DeviceOf(S)
  BY StepsRead
<1>2. CASE dev' = Last(steps) /\ mem' = m /\ UNCHANGED <<hub, faults>>
  BY <1>1, <1>2 DEF LocalStep
<1>3. CASE \E i \in 1..Len(steps) - 1 : Crash(steps[i])
  BY <1>1, <1>3, CrashStep
<1> QED  BY <1>2, <1>3 DEF Commit

\* The same, and the job the engine was running is dropped.
LEMMA FinishStep ==
  ASSUME NEW S, NEW steps \in StepsOf(S), NEW m \in MemoryOf(S),
         hub \in Hub, faults \in 0..MaxFaults, Finish(steps, m)
  PROVE  LocalStep(S)
<1>1. Done(Last(steps)) \in DeviceOf(S)  BY StepsRead, DoneDevice
<1>2. Append(steps, Done(Last(steps))) \in StepsOf(S)  BY <1>1, StepsAppend
<1>3. [m EXCEPT !.eng = Idle] \in MemoryOf(S)  BY IdleEngine DEF MemoryOf
<1> QED  BY <1>2, <1>3, CommitStep DEF Finish

\* A local step that learns nothing keeps the invariant.
LEMMA LocalStepKeeps ==
  ASSUME LocalStep(ghost'.seen), ghost' \in Ghost
  PROVE  IInv'
BY DEF LocalStep, IInv, KnownVersions

(***************************************************************************)
(* The session threads.                                                    *)
(***************************************************************************)
\* A save is a version nobody has used yet, and the folder has held it.
LEMMA SavedGhost ==
  ASSUME NEW k \in Keys, ghost \in Ghost, dev \in DeviceOf(ghost.seen), Fresh,
         Saved(k, ghost.next)
  PROVE  /\ ghost' \in Ghost
         /\ ghost'.seen = ghost.seen \cup {ghost.next}
<1>1. ghost.next \in Version /\ ghost.next + 1 \in 1..MaxVersion + 1
  BY LedgerAssumption DEF Ghost, Fresh, Version
<1> QED  BY <1>1 DEF Saved, Ghost

\* create, truncate and write.
LEMMA WriteKeeps ==
  ASSUME IInv, NEW k \in Keys, Write(k)
  PROVE  IInv' /\ hub'.object = hub.object
<1> DEFINE S == ghost.seen \cup {ghost.next}
<1>1. dev \in DeviceOf(ghost.seen) /\ mem \in MemoryOf(ghost.seen) /\ ghost \in Ghost
  BY DEF IInv, KnownVersions
<1>2. ghost' \in Ghost /\ ghost'.seen = S  BY <1>1, SavedGhost DEF Write
<1>3. dev \in DeviceOf(S) /\ mem \in MemoryOf(S)  BY <1>1, DeviceGrows, MemoryGrows
<1>4. dev' \in DeviceOf(S)  BY <1>3, SetFileDevice DEF Write
<1>5. mem' \in MemoryOf(S)  BY <1>3 DEF Write, MemoryOf
<1> QED  BY <1>2, <1>4, <1>5 DEF IInv, KnownVersions, Write

\* A file changed or removed in the backing folder.
LEMMA FolderEditKeeps ==
  ASSUME IInv, NEW k \in Keys, FolderEdit(k)
  PROVE  IInv' /\ hub'.object = hub.object
<1>1. dev \in DeviceOf(ghost.seen) /\ mem \in MemoryOf(ghost.seen) /\ ghost \in Ghost
  BY DEF IInv, KnownVersions
<1>2. UNCHANGED <<mem, hub, faults>>  BY DEF FolderEdit
<1>3. CASE /\ Fresh
           /\ dev' = SetFile(dev, k, ghost.next)
           /\ ghost' = [ghost EXCEPT !.next = @ + 1, !.seen = @ \cup {ghost.next},
                          !.unsent = (@ \ Superseded({k})) \cup {ghost.next},
                          !.exempt = @ \cup {ghost.next}]
  <2> DEFINE S == ghost.seen \cup {ghost.next}
  <2>1. ghost.next \in Version /\ ghost.next + 1 \in 1..MaxVersion + 1
    BY <1>1, <1>3, LedgerAssumption DEF Ghost, Fresh, Version
  <2>2. ghost' \in Ghost /\ ghost'.seen = S  BY <1>1, <1>3, <2>1 DEF Ghost
  <2>3. dev \in DeviceOf(S) /\ mem \in MemoryOf(S)  BY <1>1, DeviceGrows, MemoryGrows
  <2>4. dev' \in DeviceOf(S)  BY <1>3, <2>3, SetFileDevice
  <2> QED  BY <1>2, <2>2, <2>3, <2>4 DEF IInv, KnownVersions
<1>4. CASE /\ dev' = SetFile(dev, k, None)
           /\ ghost' = [ghost EXCEPT !.unsent = @ \ Superseded({k})]
  <2>1. ghost' \in Ghost /\ ghost'.seen = ghost.seen  BY <1>1, <1>4 DEF Ghost
  <2>2. dev' \in DeviceOf(ghost.seen)  BY <1>1, <1>4, SetFileDevice
  <2> QED  BY <1>1, <1>2, <2>1, <2>2 DEF IInv, KnownVersions
<1> QED  BY <1>3, <1>4 DEF FolderEdit

\* open and release.
LEMMA HandleKeeps ==
  ASSUME IInv, NEW k \in Keys, Open(k) \/ Close(k)
  PROVE  IInv' /\ hub'.object = hub.object
<1>1. mem \in MemoryOf(ghost.seen)  BY DEF IInv, KnownVersions
<1>2. mem' \in MemoryOf(ghost.seen)  BY <1>1 DEF Open, Close, MemoryOf
<1>3. UNCHANGED <<dev, hub, ghost, faults>>  BY DEF Open, Close
<1> QED  BY <1>2, <1>3 DEF IInv, KnownVersions

\* The saves inside a window are saves.
LEMMA ExemptedVersions ==
  ASSUME NEW K \in SUBSET Keys, NEW v \in Digest, ghost \in Ghost
  PROVE  Exempted(K, v) \subseteq Version
BY DEF Exempted, Ghost, Digest

\* flush and fsync.
LEMMA FlushKeeps ==
  ASSUME IInv, NEW k \in Keys, Flush(k)
  PROVE  IInv' /\ hub'.object = hub.object
<1> DEFINE S == ghost.seen
           m == [mem EXCEPT !.unflushed = @ \ {k}, !.skipped = @ \ {k}]
<1>1. /\ dev \in DeviceOf(S) /\ mem \in MemoryOf(S) /\ ghost \in Ghost
      /\ hub \in Hub /\ faults \in 0..MaxFaults
  BY DEF IInv, KnownVersions
<1>2. m \in MemoryOf(S)  BY <1>1 DEF MemoryOf
<1>3. CommitSteps(dev, k) \in StepsOf(S)  BY <1>1, CommitStepsSteps
<1>4. Commit(CommitSteps(dev, k), m)  BY DEF Flush
<1>5. LocalStep(S)  BY <1>1, <1>2, <1>3, <1>4, CommitStep
<1>6. dev.file[k] \in Digest  BY <1>1, DeviceReads DEF Ghost, Digest
<1>7. Exempted({k}, dev.file[k]) \subseteq Version  BY <1>1, <1>6, ExemptedVersions
<1>8. ghost' \in Ghost /\ ghost'.seen = S  BY <1>1, <1>7 DEF Flush, Ghost
<1>9. IInv'  BY <1>5, <1>8, LocalStepKeeps
<1> QED  BY <1>5, <1>9 DEF LocalStep

\* unlink.
LEMMA UnlinkKeeps ==
  ASSUME IInv, NEW k \in Keys, Unlink(k)
  PROVE  IInv' /\ hub'.object = hub.object
<1> DEFINE S == ghost.seen
           m == [mem EXCEPT !.open = @ \ {k}, !.unflushed = @ \ {k}, !.skipped = @ \ {k}]
<1>1. /\ dev \in DeviceOf(S) /\ mem \in MemoryOf(S) /\ ghost \in Ghost
      /\ hub \in Hub /\ faults \in 0..MaxFaults
  BY DEF IInv, KnownVersions
<1>2. m \in MemoryOf(S)  BY <1>1 DEF MemoryOf
<1>3. DeleteSteps(dev, k) \in StepsOf(S)  BY <1>1, DeleteStepsSteps
<1>4. Commit(DeleteSteps(dev, k), m)  BY DEF Unlink
<1>5. LocalStep(S)  BY <1>1, <1>2, <1>3, <1>4, CommitStep
<1>6. ghost' \in Ghost /\ ghost'.seen = S  BY <1>1 DEF Unlink, Ghost
<1>7. IInv'  BY <1>5, <1>6, LocalStepKeeps
<1> QED  BY <1>5, <1>7 DEF LocalStep

\* rename.
LEMMA RenameKeeps ==
  ASSUME IInv, NEW from \in Keys, NEW to \in Keys, Rename(from, to)
  PROVE  IInv' /\ hub'.object = hub.object
<1> DEFINE S == ghost.seen
           follow(X) == IF from \in X THEN (X \ {from}) \cup {to} ELSE X
           m(owed) == [mem EXCEPT !.open = follow(@), !.unflushed = owed, !.eng = Overtaken]
<1>1. /\ dev \in DeviceOf(S) /\ mem \in MemoryOf(S) /\ ghost \in Ghost
      /\ hub \in Hub /\ faults \in 0..MaxFaults
  BY DEF IInv, KnownVersions
<1>2. PICK owed \in {follow(mem.unflushed)}
                    \cup {follow(mem.unflushed) \cup ({to} \cap follow(mem.open))} :
        Commit(RenameSteps(dev, from, to), m(owed))
  BY DEF Rename
<1>3. /\ mem.eng \in EngineOf(S) /\ mem.open \in SUBSET Keys
      /\ mem.unflushed \in SUBSET Keys
  BY <1>1 DEF MemoryOf
<1>4. follow(mem.open) \in SUBSET Keys /\ owed \in SUBSET Keys  BY <1>2, <1>3
<1>5. mem.eng.moved \in BOOLEAN  BY <1>3 DEF EngineOf
<1>6. Overtaken \in EngineOf(S)  BY ZenonT(60), <1>3, <1>5 DEF Overtaken, EngineOf
<1>7. m(owed) \in MemoryOf(S)
  BY <1>1, <1>4, <1>6 DEF MemoryOf
<1>8. RenameSteps(dev, from, to) \in StepsOf(S)  BY <1>1, RenameStepsSteps
<1>9. LocalStep(S)  BY <1>1, <1>2, <1>7, <1>8, CommitStep
<1>10. dev.file[from] \in Digest  BY <1>1, DeviceReads DEF Ghost, Digest
<1>11. Exempted({from, to}, dev.file[from]) \subseteq Version
  BY <1>1, <1>10, ExemptedVersions
<1>12. ghost.renames + 1 \in 0..MaxRenames
  BY SMTT(60), <1>1, MirrorAssumption DEF Rename, Ghost
<1>13. ghost' \in Ghost /\ ghost'.seen = S
  BY <1>1, <1>11, <1>12 DEF Rename, Ghost, Misread
<1>14. IInv'  BY <1>9, <1>13, LocalStepKeeps
<1> QED  BY <1>9, <1>14 DEF LocalStep

(***************************************************************************)
(* The hub, its peers, and the faults.                                     *)
(***************************************************************************)
\* What a request of this mirror may take off the hub.
Seen == Range(hub.object) \subseteq Range(hub'.object) \cup ghost.seen \cup {None}

\* Another device: the history tells its step from ours.
LEMMA PeerKeeps ==
  ASSUME IInv, NEW k \in Keys, Peer(k)
  PROVE  IInv' /\ (ghost'.next # ghost.next \/ ghost'.removed # ghost.removed)
<1>1. /\ ghost \in Ghost /\ hub \in Hub /\ KnownVersions /\ faults \in 0..MaxFaults
      /\ UNCHANGED <<dev, mem, faults>>
  BY DEF IInv, Peer, PeerPut, PeerDelete
<1>2. hub.object[k] \in Digest  BY <1>1 DEF Hub
<1>3. CASE PeerPut(k)
  <2>1. /\ ghost.next \in Version /\ ghost.next + 1 \in 1..MaxVersion + 1
        /\ ghost.next + 1 # ghost.next
    BY <1>1, <1>3, LedgerAssumption DEF PeerPut, Ghost, Fresh, Version
  <2>2. hub' \in Hub  BY <1>1, <1>3, <2>1 DEF PeerPut, Hub, Digest
  <2>3. {hub.object[k]} \ {None} \subseteq Version  BY <1>2 DEF Digest
  <2>4. /\ ghost' \in Ghost /\ ghost'.seen = ghost.seen
        /\ ghost'.next = ghost.next + 1
    BY <1>1, <1>3, <2>1, <2>3 DEF PeerPut, Ghost
  <2> QED  BY <1>1, <2>1, <2>2, <2>4 DEF IInv, KnownVersions
<1>4. CASE PeerDelete(k)
  <2>1. hub.object[k] \in Version /\ hub.object[k] \notin ghost.removed
    BY <1>2, <1>4 DEF PeerDelete, Digest
  <2>2. hub' \in Hub  BY <1>1, <1>4 DEF PeerDelete, Hub, Digest
  <2>3. /\ ghost' \in Ghost /\ ghost'.seen = ghost.seen
        /\ ghost'.removed = ghost.removed \cup {hub.object[k]}
    BY <1>1, <1>4, <2>1 DEF PeerDelete, Ghost
  <2> QED  BY <1>1, <2>1, <2>2, <2>3 DEF IInv, KnownVersions
<1> QED  BY <1>3, <1>4 DEF Peer

\* The reply of the hub, or a lost one.
LEMMA AnswerKeeps ==
  ASSUME NEW S, mem \in MemoryOf(S), faults \in 0..MaxFaults, NEW e \in EngineOf(S),
         Answer(e)
  PROVE  mem' \in MemoryOf(S) /\ faults' \in 0..MaxFaults
<1>1. CASE mem' = Engage(e) /\ UNCHANGED faults
  BY <1>1, EngageMemory
<1>2. CASE faults < MaxFaults /\ faults' = faults + 1 /\ UNCHANGED mem
  BY <1>2, MirrorAssumption
<1> QED  BY <1>1, <1>2 DEF Answer

\* The engine with an answer in: it still knows no versions but its own.
LEMMA AnsweredEngine ==
  ASSUME NEW S, NEW e \in EngineOf(S), e.pc # "land",
         NEW pc \in PCs \ {"land"}, NEW out \in Outcomes, NEW r \in Digest
  PROVE  /\ [e EXCEPT !.pc = pc] \in EngineOf(S)
         /\ [e EXCEPT !.pc = pc, !.out = out] \in EngineOf(S)
         /\ [e EXCEPT !.pc = pc, !.out = out, !.reply = r] \in EngineOf(S)
<1>1. [e EXCEPT !.pc = pc] \in EngineOf(S)  BY DEF EngineOf
<1>2. [e EXCEPT !.pc = pc, !.out = out] \in EngineOf(S)  BY DEF EngineOf
<1>3. [e EXCEPT !.pc = pc, !.out = out, !.reply = r] \in EngineOf(S)  BY DEF EngineOf
<1> QED  BY <1>1, <1>2, <1>3

\* PUT: what it replaces is what If-Match named, hence what the ledger knew.
LEMMA HubPutKeeps ==
  ASSUME IInv, NEW k \in Keys, HubPut(k)
  PROVE  IInv' /\ Seen
<1> DEFINE S == ghost.seen
<1>1. /\ dev \in DeviceOf(S) /\ mem \in MemoryOf(S) /\ ghost \in Ghost
      /\ hub \in Hub /\ faults \in 0..MaxFaults
  BY DEF IInv, KnownVersions
<1>2. mem.eng \in EngineOf(S) /\ mem.eng.pc = "put"  BY <1>1 DEF MemoryOf, HubPut
<1>3. hub.object[k] \in Digest /\ mem.eng.sha \in Digest  BY <1>1, <1>2 DEF Hub, EngineOf
<1>4. UNCHANGED dev  BY DEF HubPut
<1>5. CASE hub.object[k] = mem.eng.match
  <2> DEFINE e == [mem.eng EXCEPT !.pc = "putdone", !.out = "ok"]
  <2>1. e \in EngineOf(S)  BY Zenon, <1>2, AnsweredEngine DEF PCs, Outcomes, Digest
  <2>2. Answer(e)  BY <1>5 DEF HubPut, Matches
  <2>3. hub' = [object |-> [hub.object EXCEPT ![k] = mem.eng.sha],
                feed   |-> hub.feed \cup {k}]
    BY <1>5 DEF HubPut, Matches
  <2>4. hub' \in Hub  BY <1>1, <1>3, <2>3 DEF Hub
  <2>5. ghost' \in Ghost /\ ghost'.seen = S
    BY <1>1, <1>5 DEF HubPut, Matches, Landed, Ghost
  <2>6. hub.object[k] \in S \cup {None}
    BY <1>2, <1>3, <1>5 DEF EngineOf, Digest, Version, Unhashed, None
  <2>7. Seen  BY <1>1, <2>3, <2>6 DEF Seen, Range, Hub
  <2>8. mem' \in MemoryOf(S) /\ faults' \in 0..MaxFaults  BY <1>1, <2>1, <2>2, AnswerKeeps
  <2> QED  BY <1>1, <1>4, <2>4, <2>5, <2>7, <2>8 DEF IInv, KnownVersions
<1>6. CASE hub.object[k] # mem.eng.match
  <2> DEFINE e == [mem.eng EXCEPT !.pc = "putdone", !.out = "mismatch",
                                  !.reply = hub.object[k]]
  <2>1. e \in EngineOf(S)  BY Zenon, <1>2, <1>3, AnsweredEngine DEF PCs, Outcomes
  <2>2. Answer(e) /\ UNCHANGED <<hub, ghost>>  BY <1>6 DEF HubPut, Matches
  <2>3. mem' \in MemoryOf(S) /\ faults' \in 0..MaxFaults  BY <1>1, <2>1, <2>2, AnswerKeeps
  <2> QED  BY <1>1, <1>4, <2>2, <2>3 DEF IInv, KnownVersions, Seen
<1> QED  BY <1>5, <1>6

\* DELETE: the same.
LEMMA HubDeleteKeeps ==
  ASSUME IInv, NEW k \in Keys, HubDelete(k)
  PROVE  IInv' /\ Seen
<1> DEFINE S == ghost.seen
<1>1. /\ dev \in DeviceOf(S) /\ mem \in MemoryOf(S) /\ ghost \in Ghost
      /\ hub \in Hub /\ faults \in 0..MaxFaults
  BY DEF IInv, KnownVersions
<1>2. mem.eng \in EngineOf(S) /\ mem.eng.pc = "del"  BY <1>1 DEF MemoryOf, HubDelete
<1>3. hub.object[k] \in Digest  BY <1>1 DEF Hub
<1>4. UNCHANGED <<dev, ghost>>  BY DEF HubDelete
<1>5. CASE hub.object[k] = mem.eng.match
  <2> DEFINE e == [mem.eng EXCEPT !.pc = "deldone", !.out = "ok"]
  <2>1. e \in EngineOf(S)  BY Zenon, <1>2, AnsweredEngine DEF PCs, Outcomes, Digest
  <2>2. /\ Answer(e)
        /\ hub' = [object |-> [hub.object EXCEPT ![k] = None], feed |-> hub.feed \cup {k}]
    BY <1>5 DEF HubDelete, Matches
  <2>3. hub' \in Hub  BY <1>1, <2>2 DEF Hub, Digest
  <2>4. hub.object[k] \in S \cup {None}
    BY <1>2, <1>3, <1>5 DEF EngineOf, Digest, Version, Unhashed, None
  <2>5. Seen  BY <1>1, <2>2, <2>4 DEF Seen, Range, Hub
  <2>6. mem' \in MemoryOf(S) /\ faults' \in 0..MaxFaults  BY <1>1, <2>1, <2>2, AnswerKeeps
  <2> QED  BY <1>1, <1>4, <2>3, <2>5, <2>6 DEF IInv, KnownVersions
<1>6. CASE hub.object[k] # mem.eng.match
  <2> DEFINE out == IF hub.object[k] = None THEN "ok" ELSE "mismatch"
             e == [mem.eng EXCEPT !.pc = "deldone", !.reply = hub.object[k], !.out = out]
  <2>1. out \in Outcomes  BY DEF Outcomes
  <2>2. Answer(e) /\ UNCHANGED hub  BY <1>6 DEF HubDelete, Matches
  <2> HIDE DEF out
  <2>3. e \in EngineOf(S)  BY ZenonT(60), <1>2, <1>3, <2>1 DEF EngineOf, PCs
  <2>4. mem' \in MemoryOf(S) /\ faults' \in 0..MaxFaults  BY <1>1, <2>2, <2>3, AnswerKeeps
  <2> QED  BY <1>1, <1>4, <2>2, <2>4 DEF IInv, KnownVersions, Seen
<1> QED  BY <1>5, <1>6

\* POST rename: the version moves, none is lost.
LEMMA HubRenameKeeps ==
  ASSUME IInv, NEW from \in Keys, NEW to \in Keys, HubRename(from, to)
  PROVE  IInv' /\ Seen
<1> DEFINE S == ghost.seen
           held == hub.object[from]
           out  == IF held = None THEN "missing"
                   ELSE IF mem.eng.match \notin {None, held} THEN "mismatch"
                   ELSE IF hub.object[to] # None THEN "exists"
                   ELSE "ok"
           reply == IF out = "mismatch" THEN held ELSE None
           e == [mem.eng EXCEPT !.pc = "rendone", !.out = out, !.reply = reply]
<1>1. /\ dev \in DeviceOf(S) /\ mem \in MemoryOf(S) /\ ghost \in Ghost
      /\ hub \in Hub /\ faults \in 0..MaxFaults
  BY DEF IInv, KnownVersions
<1>2. mem.eng \in EngineOf(S) /\ mem.eng.pc = "ren"  BY <1>1 DEF MemoryOf, HubRename
<1>3. held \in Digest /\ out \in Outcomes /\ reply \in Digest
  BY <1>1 DEF Hub, Outcomes, Digest
<1>4. e \in EngineOf(S)  BY <1>2, <1>3, AnsweredEngine DEF PCs
<1>5. UNCHANGED <<dev, ghost>> /\ Answer(e)  BY DEF HubRename
<1>6. mem' \in MemoryOf(S) /\ faults' \in 0..MaxFaults  BY <1>1, <1>4, <1>5, AnswerKeeps
<1>7. hub' \in Hub /\ Seen
  <2>1. CASE out = "ok"
    <3>1. /\ hub' = [object |-> [hub.object EXCEPT ![from] = None, ![to] = held],
                     feed   |-> hub.feed \cup {from, to}]
          /\ hub.object[to] = None
      BY <2>1 DEF HubRename
    <3>2. hub' \in Hub  BY <1>1, <1>3, <3>1 DEF Hub, Digest
    <3>3. hub'.object[to] = held  BY <1>1, <3>1 DEF Hub
    <3>4. Seen  BY <1>1, <3>1, <3>3 DEF Seen, Range, Hub
    <3> QED  BY <3>2, <3>4
  <2>2. CASE out # "ok"
    <3>1. UNCHANGED hub  BY <2>2 DEF HubRename
    <3> QED  BY <1>1, <3>1 DEF Seen
  <2> QED  BY <2>1, <2>2
<1> QED  BY <1>1, <1>5, <1>6, <1>7 DEF IInv, KnownVersions

\* The upload of a conflict copy touches no object of the Home.
LEMMA HubCopyKeeps ==
  ASSUME IInv, NEW k \in Keys, HubCopy(k)
  PROVE  IInv' /\ hub'.object = hub.object
<1> DEFINE S == ghost.seen
           e == [mem.eng EXCEPT !.pc = "copied"]
<1>1. /\ dev \in DeviceOf(S) /\ mem \in MemoryOf(S) /\ ghost \in Ghost
      /\ hub \in Hub /\ faults \in 0..MaxFaults
  BY DEF IInv, KnownVersions
<1>2. mem.eng \in EngineOf(S) /\ mem.eng.pc = "copy"  BY <1>1 DEF MemoryOf, HubCopy
<1>3. e \in EngineOf(S)  BY <1>2 DEF EngineOf, PCs
<1>4. Answer(e) /\ UNCHANGED <<dev, hub>>  BY DEF HubCopy
<1>5. ghost' \in Ghost /\ ghost'.seen = S  BY <1>1 DEF HubCopy, Landed, Ghost
<1>6. mem' \in MemoryOf(S) /\ faults' \in 0..MaxFaults  BY <1>1, <1>3, <1>4, AnswerKeeps
<1> QED  BY <1>1, <1>4, <1>5, <1>6 DEF IInv, KnownVersions

\* A crash between two handlers.
LEMMA ProcessCrashKeeps ==
  ASSUME IInv, ProcessCrash
  PROVE  IInv' /\ hub'.object = hub.object
<1>1. dev \in DeviceOf(ghost.seen) /\ hub \in Hub /\ faults \in 0..MaxFaults /\ ghost \in Ghost
  BY DEF IInv, KnownVersions
<1>2. LocalStep(ghost.seen) /\ UNCHANGED ghost  BY <1>1, CrashStep DEF ProcessCrash
<1> QED  BY <1>1, <1>2, LocalStepKeeps DEF LocalStep

\* The hub out of reach.
LEMMA DisconnectKeeps ==
  ASSUME IInv, Disconnect
  PROVE  IInv' /\ hub'.object = hub.object
<1> DEFINE S == ghost.seen
<1>1. /\ dev \in DeviceOf(S) /\ mem \in MemoryOf(S) /\ ghost \in Ghost
      /\ hub \in Hub /\ faults \in 0..MaxFaults
  BY DEF IInv, KnownVersions
<1>2. dev' \in DeviceOf(S)  BY <1>1, MarkDevice DEF Disconnect
<1>3. faults' \in 0..MaxFaults  BY <1>1, MirrorAssumption DEF Disconnect
<1>4. NoListing \in Listing  BY DEF NoListing, Listing, Digest
<1>5. mem' \in MemoryOf(S)
  <2> DEFINE left == IF mem.eng.src = "recheck" THEN mem.recheck \cap mem.open
                     ELSE mem.recheck
  <2>1. Idle \in EngineOf(S) /\ mem.recheck \in SUBSET Keys
    BY <1>1, IdleEngine DEF MemoryOf
  <2>2. left \in SUBSET Keys  BY <2>1
  <2>3. \/ mem' = [mem EXCEPT !.eng = Idle, !.listing = NoListing, !.recheck = left]
        \/ mem' = [mem EXCEPT !.eng = Idle]
    BY DEF Disconnect
  <2> HIDE DEF left
  <2> QED  BY <1>1, <1>4, <2>1, <2>2, <2>3 DEF MemoryOf
<1>6. hub' \in Hub /\ hub'.object = hub.object  BY <1>1 DEF Disconnect, Hub
<1> QED  BY <1>1, <1>2, <1>3, <1>5, <1>6 DEF IInv, KnownVersions, Disconnect

(***************************************************************************)
(* The engine: the cycle.                                                  *)
(***************************************************************************)
\* Every handler below commits steps of a device that knows what the folder
\* has held, and leaves a memory that does.
LEMMA KeepsByLocalStep ==
  ASSUME IInv, LocalStep(ghost.seen), UNCHANGED ghost
  PROVE  IInv' /\ hub'.object = hub.object
BY LocalStepKeeps DEF IInv, LocalStep

\* A misread tombstone adds to the exempt saves, and to nothing else.
LEMMA MisreadsGhost ==
  ASSUME IInv, NEW K, Misreads(K)
  PROVE  ghost' \in Ghost /\ ghost'.seen = ghost.seen
<1>1. Misread(K) \subseteq Version  BY DEF IInv, Ghost, Misread
<1> QED  BY <1>1 DEF IInv, Ghost, Misreads

\* The same for a handler that may have misread one.
LEMMA KeepsByMisread ==
  ASSUME IInv, LocalStep(ghost.seen), NEW K, UNCHANGED ghost \/ Misreads(K)
  PROVE  IInv' /\ hub'.object = hub.object
<1>1. ghost' \in Ghost /\ ghost'.seen = ghost.seen  BY MisreadsGhost DEF IInv
<1> QED  BY <1>1, LocalStepKeeps DEF LocalStep

\* What the invariant says of each part of the state.
LEMMA Parts ==
  ASSUME IInv
  PROVE  /\ dev \in DeviceOf(ghost.seen) /\ mem \in MemoryOf(ghost.seen)
         /\ mem.eng \in EngineOf(ghost.seen)
         /\ ghost \in Ghost /\ hub \in Hub /\ faults \in 0..MaxFaults
         /\ ghost.seen \subseteq Version
         /\ <<dev>> \in StepsOf(ghost.seen)
         /\ <<Unmark(dev)>> \in StepsOf(ghost.seen)
<1>1. dev \in DeviceOf(ghost.seen) /\ mem \in MemoryOf(ghost.seen)
  BY DEF IInv, KnownVersions
<1> QED  BY <1>1, StepsOne, MarkDevice DEF IInv, Ghost, MemoryOf

\* A scan of one key, whatever memory it leaves.
LEMMA ScanKeeps ==
  ASSUME IInv, NEW k \in Keys, NEW m \in MemoryOf(ghost.seen), Scan(k, m)
  PROVE  IInv' /\ hub'.object = hub.object
<1> DEFINE S == ghost.seen
<1>1. LocalStep(S)
  <2>1. CASE k \in mem.open
    <3>1. Finish(<<dev>>, m)  BY <2>1 DEF Scan
    <3> QED  BY <3>1, Parts, FinishStep
  <2>2. CASE k \notin mem.open
    <3>1. Finish(ScanSteps(dev, k), [m EXCEPT !.skipped = @ \ {k}])  BY <2>2 DEF Scan
    <3>2. [m EXCEPT !.skipped = @ \ {k}] \in MemoryOf(S)  BY DEF MemoryOf
    <3>3. ScanSteps(dev, k) \in StepsOf(S)  BY Parts, ScanStepsSteps
    <3> QED  BY <3>1, <3>2, <3>3, Parts, FinishStep
  <2> QED  BY <2>1, <2>2
<1>2. ghost' \in Ghost /\ ghost'.seen = S  BY Parts DEF Scan, Ghost
<1> QED  BY <1>1, <1>2, LocalStepKeeps DEF LocalStep

\* The three places a key is scanned from.
LEMMA ScansKeep ==
  ASSUME IInv, NEW k \in Keys, StartupScan(k) \/ ScanKey(k) \/ ScanAgain(k)
  PROVE  IInv' /\ hub'.object = hub.object
<1>1. mem \in MemoryOf(ghost.seen)  BY Parts
<1>2. CASE StartupScan(k)
  <2> DEFINE left == mem.unscanned \ {k}
             m == [mem EXCEPT !.unscanned = left, !.up = left = {}]
  <2>1. m \in MemoryOf(ghost.seen)  BY <1>1 DEF MemoryOf
  <2>2. Scan(k, m)  BY <1>2 DEF StartupScan
  <2> QED  BY SMTT(60), <2>1, <2>2, ScanKeeps
<1>3. CASE ScanKey(k)
  BY <1>1, <1>3, ScanKeeps DEF ScanKey
<1>4. CASE ScanAgain(k)
  <2>1. [mem EXCEPT !.recheck = @ \cup {k}] \in MemoryOf(ghost.seen)
    BY <1>1 DEF MemoryOf
  <2> QED  BY <1>4, <2>1, ScanKeeps DEF ScanAgain
<1> QED  BY <1>2, <1>3, <1>4

\* recover_jobs.
LEMMA RecoverJobKeeps ==
  ASSUME IInv, NEW k \in Keys, RecoverJob(k)
  PROVE  IInv' /\ hub'.object = hub.object
<1>1. EnqueuePush(dev, k) \in DeviceOf(ghost.seen)  BY Parts, EnqueuePushDevice
<1>2. Enqueue(dev, DeleteId(k), None, None) \in DeviceOf(ghost.seen)
  BY Parts, IdsOfKeys, EnqueueDevice
<1>3. dev' \in DeviceOf(ghost.seen)  BY <1>1, <1>2 DEF RecoverJob
<1> QED  BY <1>3, Parts DEF RecoverJob, IInv, KnownVersions

\* catch_up, recheck_deferred and the listing, up to reconcile_key.
LEMMA NextHeadKeeps ==
  ASSUME IInv, NEW k \in Keys, NextChange(k) \/ NextRecheck(k) \/ NextListed(k)
  PROVE  IInv' /\ hub'.object = hub.object
<1> DEFINE S == ghost.seen
<1>1. hub.object[k] \in Digest /\ hub \in Hub  BY Parts DEF Hub
<1>2. \A r \in Digest, s \in {"none", "change", "recheck"} :
        [Told(k, r) EXCEPT !.src = s] \in EngineOf(S)
  BY SMTT(60), ToldEngine DEF EngineOf
<1>3. CASE NextChange(k)
  <2>1. mem' \in MemoryOf(S)  BY <1>1, <1>2, <1>3, Parts, EngageMemory DEF NextChange
  <2>2. hub' \in Hub /\ hub'.object = hub.object  BY <1>1, <1>3 DEF NextChange, Hub
  <2> QED  BY <1>3, <2>1, <2>2, Parts DEF NextChange, IInv, KnownVersions
<1>4. CASE NextRecheck(k)
  <2> DEFINE m == Engage([Told(k, hub.object[k]) EXCEPT !.src = "recheck"])
  <2>1. m \in MemoryOf(S)  BY <1>1, <1>2, Parts, EngageMemory
  <2>2. mem' = [m EXCEPT !.recheck = @ \ {k}]  BY <1>4 DEF NextRecheck
  <2> HIDE DEF m
  <2>3. mem' \in MemoryOf(S)  BY <2>1, <2>2 DEF MemoryOf
  <2> QED  BY <1>4, <2>3, Parts DEF NextRecheck, IInv, KnownVersions
<1>5. CASE NextListed(k)
  <2> DEFINE l == [todo    |-> mem.listing.todo \ {k},
                   remote  |-> [mem.listing.remote EXCEPT ![k] = None],
                   touched |-> mem.listing.touched \ {k}]
             e == IF k \in mem.listing.touched THEN Idle
                  ELSE Told(k, mem.listing.remote[k])
  <2>1. mem.listing \in Listing /\ mem \in MemoryOf(S)  BY Parts DEF MemoryOf
  <2>2. mem.listing.remote[k] \in Digest  BY <2>1 DEF Listing
  <2>3. l \in Listing  BY <2>1 DEF Listing, Digest
  <2>4. e \in EngineOf(S)  BY <2>2, IdleEngine, ToldEngine
  <2>5. mem' = [mem EXCEPT !.listing = l, !.eng = e]  BY <1>5 DEF NextListed
  <2> HIDE DEF l, e
  <2>6. mem' \in MemoryOf(S)  BY <2>1, <2>3, <2>4, <2>5 DEF MemoryOf
  <2> QED  BY <1>5, <2>6, Parts DEF NextListed, IInv, KnownVersions
<1> QED  BY <1>3, <1>4, <1>5

\* rebuild_from_listing, the listing itself.
LEMMA StartListingKeeps ==
  ASSUME IInv, StartListing
  PROVE  IInv' /\ hub'.object = hub.object
<1>1. hub \in Hub /\ mem \in MemoryOf(ghost.seen)  BY Parts
<1>2. [todo |-> Keys, remote |-> hub.object, touched |-> {}] \in Listing
  BY <1>1 DEF Hub, Listing
<1>3. mem' \in MemoryOf(ghost.seen)  BY <1>1, <1>2 DEF StartListing, MemoryOf
<1>4. hub' \in Hub /\ hub'.object = hub.object  BY <1>1 DEF StartListing, Hub
<1> QED  BY <1>3, <1>4, Parts DEF StartListing, IInv, KnownVersions

(***************************************************************************)
(* The engine: what its handlers write.                                    *)
(***************************************************************************)
\* TrashLocal.
LEMMA TrashStepsSteps ==
  ASSUME NEW S, NEW d \in DeviceOf(S), NEW k \in Keys
  PROVE  TrashSteps(d, k) \in StepsOf(S)
<1> DEFINE d1 == SetFile(SetTrash(d, k, d.file[k]), k, None)
           d2 == RemoveJobsFor(d1, k)
           d3 == SetEntry(d2, k, NoEntry)
           d4 == SetBase(d3, k, None)
<1>1. d1 \in DeviceOf(S)
  <2>1. SetTrash(d, k, d.file[k]) \in DeviceOf(S)  BY DeviceReads, SetRecordDevice
  <2> QED  BY <2>1, SetFileDevice
<1> HIDE DEF d1
<1>2. d2 \in DeviceOf(S)  BY <1>1, RemoveJobsForDevice
<1> HIDE DEF d2
<1>3. d3 \in DeviceOf(S)  BY <1>2, EntryValues, SetEntryDevice
<1> HIDE DEF d3
<1>4. d4 \in DeviceOf(S)  BY <1>3, SetBaseDevice
<1> HIDE DEF d4
<1>5. <<d1, d2, d3, d4>> \in StepsOf(S)  BY <1>1, <1>2, <1>3, <1>4, StepsFour
<1> QED  BY <1>5 DEF TrashSteps, d1, d2, d3, d4

\* Adopt.
LEMMA AdoptStepsSteps ==
  ASSUME NEW S, NEW d \in DeviceOf(S), NEW k \in Keys
  PROVE  AdoptSteps(d, k) \in StepsOf(S)
<1> DEFINE e  == d.entry[k]
           b  == IF e.state = "Absent" THEN None ELSE EntryDigest(e)
           d1 == SetBase(d, k, b)
           d2 == IF e.state = "Absent" THEN d1 ELSE SetState(d1, k, "Clean")
           d3 == RemoveJobsFor(d2, k)
<1>1. b \in S \cup {None, Unhashed}  BY DeviceReads, EntryReads
<1> HIDE DEF b
<1>2. d1 \in DeviceOf(S)  BY <1>1, SetBaseDevice
<1> HIDE DEF d1
<1>3. d2 \in DeviceOf(S)  BY <1>2, SetStateDevice DEF EntryStates
<1> HIDE DEF d2
<1>4. d3 \in DeviceOf(S)  BY <1>3, RemoveJobsForDevice
<1> HIDE DEF d3
<1>5. <<d1, d2, d3>> \in StepsOf(S)  BY <1>2, <1>3, <1>4, StepsThree
<1> QED  BY <1>5 DEF AdoptSteps, b, d1, d2, d3

\* The two writes most handlers end with: the entry is dirty, a push waits.
LEMMA DirtyPush ==
  ASSUME NEW S, NEW d \in DeviceOf(S), NEW k \in Keys
  PROVE  /\ SetState(d, k, "Dirty") \in DeviceOf(S)
         /\ EnsureJob(SetState(d, k, "Dirty"), PushId(k), None) \in DeviceOf(S)
         /\ EnsureJob(d, PushId(k), None) \in DeviceOf(S)
<1>1. SetState(d, k, "Dirty") \in DeviceOf(S)  BY SetStateDevice DEF EntryStates
<1>2. PushId(k) \in JobId  BY IdsOfKeys
<1> QED  BY <1>1, <1>2, EnsureJobDevice

\* Push, from reconcile_key.
LEMMA RepushStepsSteps ==
  ASSUME NEW S, NEW d \in DeviceOf(S), NEW k \in Keys, NEW match
  PROVE  RepushSteps(d, k, match) \in StepsOf(S)
<1> DEFINE d1 == IF match = None THEN SetBase(d, k, None) ELSE d
           d2 == SetState(d1, k, "Dirty")
           d3 == EnsureJob(d2, PushId(k), None)
<1>1. d1 \in DeviceOf(S)  BY SetBaseDevice
<1> HIDE DEF d1
<1>2. d2 \in DeviceOf(S) /\ d3 \in DeviceOf(S)  BY <1>1, DirtyPush
<1> HIDE DEF d2, d3
<1>3. <<d1, d2, d3>> \in StepsOf(S)  BY <1>1, <1>2, StepsThree
<1> QED  BY <1>3 DEF RepushSteps, d1, d2, d3

\* DeleteRemote, in both delete modes.
LEMMA UnlinkStepsSteps ==
  ASSUME NEW S, NEW d \in DeviceOf(S), NEW k \in Keys
  PROVE  UnlinkSteps(d, k) \in StepsOf(S)
<1> DEFINE d1 == SetEntry(d, k, NoEntry)
           d2 == SetBase(d1, k, None)
           e1 == EnsureJob(d, DeleteId(k), None)
<1>1. d1 \in DeviceOf(S)  BY EntryValues, SetEntryDevice
<1>2. d2 \in DeviceOf(S)  BY <1>1, SetBaseDevice
<1>3. e1 \in DeviceOf(S)  BY IdsOfKeys, EnsureJobDevice
<1> HIDE DEF d1, d2, e1
<1>4. <<e1>> \in StepsOf(S) /\ <<d1, d2>> \in StepsOf(S)
  BY <1>1, <1>2, <1>3, StepsOne, StepsTwo
<1> QED  BY <1>4 DEF UnlinkSteps, d1, d2, e1

\* The landing of a download; only here a version of the hub enters.
LEMMA PullStepsSteps ==
  ASSUME NEW S, NEW d \in DeviceOf(S), NEW k \in Keys, NEW v \in S
  PROVE  PullSteps(d, k, v) \in StepsOf(S)
<1> DEFINE d1 == SetFile(d, k, v)
           d2 == SetEntry(d1, k, Hashed(v, "Clean"))
           d3 == SetBase(d2, k, v)
           d4 == SetTrash(d3, k, None)
           d5 == RemoveJobsFor(d4, k)
<1>1. d1 \in DeviceOf(S)  BY SetFileDevice
<1> HIDE DEF d1
<1>2. d2 \in DeviceOf(S)  BY <1>1, EntryValues, SetEntryDevice
<1> HIDE DEF d2
<1>3. d3 \in DeviceOf(S)  BY <1>2, SetBaseDevice
<1> HIDE DEF d3
<1>4. d4 \in DeviceOf(S)  BY <1>3, SetRecordDevice
<1> HIDE DEF d4
<1>5. d5 \in DeviceOf(S)  BY <1>4, RemoveJobsForDevice
<1> HIDE DEF d5
<1>6. <<d1, d2, d3, d4, d5>> \in StepsOf(S)
  BY <1>1, <1>2, <1>3, <1>4, <1>5, StepsFive
<1> QED  BY <1>6 DEF PullSteps, d1, d2, d3, d4, d5

\* record_conflict.
LEMMA ConflictStepsSteps ==
  ASSUME NEW S, NEW d \in DeviceOf(S), NEW k \in Keys, d.file[k] # None
  PROVE  ConflictSteps(d, k) \in StepsOf(S)
<1> DEFINE v  == d.file[k]
           d1 == Keep(d, v)
           d2 == IF EntryDigest(d.entry[k]) = v THEN d1
                 ELSE SetEntry(d1, k, Hashed(v, "Dirty"))
           d3 == SetConflict(d2, k, v)
           d4 == RemoveJobsFor(d3, k)
           d5 == EnsureJob(d4, ConflictId(k), v)
           e3 == EnsureJob(d2, ConflictId(k), v)
<1>1. v \in S  BY DeviceReads
<1>2. ConflictId(k) \in JobId  BY IdsOfKeys
<1>3. d1 \in DeviceOf(S)  BY <1>1, KeepDevice
<1> HIDE DEF d1
<1>4. d2 \in DeviceOf(S)  BY <1>1, <1>3, EntryValues, SetEntryDevice
<1> HIDE DEF d2
<1>5. d3 \in DeviceOf(S)  BY <1>1, <1>4, SetRecordDevice
<1> HIDE DEF d3
<1>6. d4 \in DeviceOf(S)  BY <1>5, RemoveJobsForDevice
<1> HIDE DEF d4
<1>7. d5 \in DeviceOf(S) /\ e3 \in DeviceOf(S)
  BY <1>1, <1>2, <1>4, <1>6, EnsureJobDevice
<1> HIDE DEF d5, e3
<1>8. <<d1, d2, e3>> \in StepsOf(S) /\ <<d1, d2, d3, d4, d5>> \in StepsOf(S)
  BY <1>3, <1>4, <1>5, <1>6, <1>7, StepsThree, StepsFive
<1> QED  BY <1>8 DEF ConflictSteps, v, d1, d2, d3, d4, d5, e3

\* run_push, uploaded.
LEMMA PushedStepsSteps ==
  ASSUME NEW S, NEW d \in DeviceOf(S), NEW k \in Keys, NEW lk \in Keys,
         NEW v \in S \cup {None}
  PROVE  PushedSteps(d, k, lk, v) \in StepsOf(S)
<1> DEFINE d1 == SetBase(d, lk, v)
           d2 == IF AsSent(d1, lk, v) THEN SetState(d1, lk, "Clean") ELSE d1
           d3 == SetPending(d2, k, None)
<1>1. d1 \in DeviceOf(S)  BY SetBaseDevice
<1> HIDE DEF d1
<1>2. d2 \in DeviceOf(S)  BY <1>1, SetStateDevice DEF EntryStates
<1> HIDE DEF d2
<1>3. d3 \in DeviceOf(S)  BY <1>2, SetRecordDevice
<1> HIDE DEF d3
<1>4. <<d1, d2, d3>> \in StepsOf(S)  BY <1>1, <1>2, <1>3, StepsThree
<1> QED  BY <1>4 DEF PushedSteps, d1, d2, d3

\* A tombstone forgotten.
LEMMA ForgetDevice ==
  ASSUME NEW S, NEW d \in DeviceOf(S), NEW k \in Keys
  PROVE  Forget(d, k) \in DeviceOf(S)
BY EntryValues, SetEntryDevice DEF Forget

\* run_delete, deleted.
LEMMA DeletedStepsSteps ==
  ASSUME NEW S, NEW d \in DeviceOf(S), NEW k \in Keys, NEW lk \in Keys,
         NEW fixed \in BOOLEAN
  PROVE  DeletedSteps(d, k, lk, fixed) \in StepsOf(S)
<1> DEFINE d1 == IF fixed THEN d ELSE Forget(d, lk)
           d2 == IF fixed THEN d1 ELSE SetBase(d1, lk, None)
           d3 == SetPending(d2, k, None)
<1>1. d1 \in DeviceOf(S)  BY ForgetDevice
<1> HIDE DEF d1
<1>2. d2 \in DeviceOf(S)  BY <1>1, SetBaseDevice
<1> HIDE DEF d2
<1>3. d3 \in DeviceOf(S)  BY <1>2, SetRecordDevice
<1> HIDE DEF d3
<1>4. <<d1, d2, d3>> \in StepsOf(S)  BY <1>1, <1>2, <1>3, StepsThree
<1> QED  BY <1>4 DEF DeletedSteps, d1, d2, d3

\* run_rename, when the hub no longer has the source.
LEMMA OrphanStepsSteps ==
  ASSUME NEW S, NEW d \in DeviceOf(S), NEW k \in Keys
  PROVE  OrphanSteps(d, k) \in StepsOf(S)
<1> DEFINE d1 == SetBase(d, k, None)
           d2 == SetState(d1, k, "Dirty")
           d3 == EnsureJob(d2, PushId(k), None)
<1>1. d1 \in DeviceOf(S)  BY SetBaseDevice
<1> HIDE DEF d1
<1>2. d2 \in DeviceOf(S) /\ d3 \in DeviceOf(S)  BY <1>1, DirtyPush
<1> HIDE DEF d2, d3
<1>3. <<d1>> \in StepsOf(S) /\ <<d1, d2, d3>> \in StepsOf(S)
  BY <1>1, <1>2, StepsOne, StepsThree
<1> QED  BY <1>3 DEF OrphanSteps, d1, d2, d3

(***************************************************************************)
(* The engine: its handlers.                                               *)
(***************************************************************************)
\* A key to look at again, a key to leave until it changes.
LEMMA RecheckMemory ==
  ASSUME NEW S, mem \in MemoryOf(S), NEW k \in Keys
  PROVE  /\ [mem EXCEPT !.recheck = @ \cup {k}] \in MemoryOf(S)
         /\ [mem EXCEPT !.skipped = @ \cup {k}] \in MemoryOf(S)
<1>1. [mem EXCEPT !.recheck = @ \cup {k}] \in MemoryOf(S)  BY DEF MemoryOf
<1>2. [mem EXCEPT !.skipped = @ \cup {k}] \in MemoryOf(S)  BY DEF MemoryOf
<1> QED  BY <1>1, <1>2

\* The engine that remembers the entry it started from.
LEMMA AtSeenEngine ==
  ASSUME NEW S, NEW k \in Keys, NEW pc \in PCs \ {"land"}, NEW e \in EntryOf(S)
  PROVE  [At(pc, k) EXCEPT !.seen = e] \in EngineOf(S)
<1>1. At(pc, k) \in EngineOf(S) /\ At(pc, k).pc = pc  BY AtEngine DEF At, Idle
<1> QED  BY <1>1 DEF EngineOf

\* reconcile_key.
LEMMA ReconcileKeeps ==
  ASSUME IInv, NEW k \in Keys, Reconcile(k)
  PROVE  IInv' /\ hub'.object = hub.object
<1> DEFINE S == ghost.seen
           e == dev.entry[k]
           answer == R!Decide(LocalDigest(e), dev.base[k], mem.eng.reply)
<1>1. /\ dev \in DeviceOf(S) /\ mem \in MemoryOf(S) /\ hub \in Hub
      /\ faults \in 0..MaxFaults /\ <<dev>> \in StepsOf(S) /\ e \in EntryOf(S)
  BY Parts, DeviceReads
<1>2. UNCHANGED ghost \/ Misreads({k})  BY DEF Reconcile
<1>3. LocalStep(S)
  <2>1. CASE Finish(<<dev>>, mem)
    BY <1>1, <2>1, FinishStep
  <2>2. CASE Finish(<<dev>>, [mem EXCEPT !.recheck = @ \cup {k}])
    BY <1>1, <2>2, FinishStep, RecheckMemory
  <2>3. CASE Finish(RepushSteps(dev, k, answer.match), mem)
    BY <1>1, <2>3, FinishStep, RepushStepsSteps
  <2>4. CASE Finish(UnlinkSteps(dev, k), mem)
    BY <1>1, <2>4, FinishStep, UnlinkStepsSteps
  <2>5. CASE Finish(TrashSteps(dev, k), mem)
    BY <1>1, <2>5, FinishStep, TrashStepsSteps
  <2>6. CASE Finish(AdoptSteps(dev, k), mem)
    BY <1>1, <2>6, FinishStep, AdoptStepsSteps
  <2>7. CASE \/ Commit(<<dev>>, Engage([At("pull", k) EXCEPT !.seen = e]))
             \/ Commit(<<dev>>, Engage([At("conflict", k) EXCEPT !.seen = e]))
    <3>1. /\ [At("pull", k) EXCEPT !.seen = e] \in EngineOf(S)
          /\ [At("conflict", k) EXCEPT !.seen = e] \in EngineOf(S)
      BY <1>1, AtSeenEngine DEF PCs
    <3> QED  BY <1>1, <2>7, <3>1, CommitStep, EngageMemory
  <2> HIDE DEF answer, e
  <2> QED  BY <2>1, <2>2, <2>3, <2>4, <2>5, <2>6, <2>7 DEF Reconcile, answer, e
<1> QED  BY <1>2, <1>3, KeepsByMisread

\* pull_key, its first lock.
LEMMA PullStartKeeps ==
  ASSUME IInv, NEW k \in Keys, PullStart(k)
  PROVE  IInv' /\ hub'.object = hub.object
<1> DEFINE S == ghost.seen
           get == [At("get", k) EXCEPT !.seen = mem.eng.seen, !.stamp = dev.file[k]]
<1>1. UNCHANGED ghost  BY DEF PullStart
<1>2. CASE Finish(<<dev>>, [mem EXCEPT !.recheck = @ \cup {k}])
  BY <1>1, <1>2, Parts, FinishStep, RecheckMemory, KeepsByLocalStep
<1>3. CASE Commit(<<dev>>, Engage(get))
  <2>1. mem.eng.seen \in EntryOf(S) /\ dev.file[k] \in S \cup {None}
    BY Parts, DeviceReads DEF EngineOf
  <2>2. At("get", k) \in EngineOf(S) /\ At("get", k).pc = "get"
    BY AtEngine DEF PCs, At, Idle
  <2>3. get \in EngineOf(S)  BY <2>1, <2>2 DEF EngineOf
  <2> QED  BY <1>1, <1>3, <2>3, Parts, CommitStep, EngageMemory, KeepsByLocalStep
<1> QED  BY <1>2, <1>3 DEF PullStart

\* The engine with a downloaded version in hand.
LEMMA LandEngine ==
  ASSUME NEW S, NEW e \in EngineOf(S), NEW v \in Version
  PROVE  [e EXCEPT !.pc = "land", !.sha = v] \in EngineOf(S)
<1>1. e \in [pc : PCs, key : Keys \cup {NoKey}, to : Keys \cup {NoKey},
             seen : EntryOf(S), stamp : S \cup {None}, sha : Digest,
             match : S \cup {None, Unhashed}, fixed : BOOLEAN, out : Outcomes,
             reply : Digest, moved : BOOLEAN, src : {"none", "change", "recheck"}]
  BY DEF EngineOf
<1>2. v \in Digest /\ "land" \in PCs  BY DEF Digest, PCs
<1> QED  BY <1>1, <1>2 DEF EngineOf

\* The GET: the engine has a version in hand that the folder may never have held.
LEMMA PullGetKeeps ==
  ASSUME IInv, NEW k \in Keys, PullGet(k)
  PROVE  IInv' /\ hub'.object = hub.object
<1> DEFINE S == ghost.seen
           land == [mem.eng EXCEPT !.pc = "land", !.sha = hub.object[k]]
<1>1. UNCHANGED ghost  BY DEF PullGet
<1>2. CASE Finish(<<dev>>, mem)
  BY <1>1, <1>2, Parts, FinishStep, KeepsByLocalStep
<1>3. CASE hub.object[k] # None /\ Commit(<<dev>>, Engage(land))
  <2>1. hub.object[k] \in Version  BY <1>3, Parts DEF Hub, Digest
  <2>2. land \in EngineOf(S)  BY <2>1, Parts, LandEngine
  <2> QED  BY <1>1, <1>3, <2>2, Parts, CommitStep, EngageMemory, KeepsByLocalStep
<1> QED  BY <1>2, <1>3 DEF PullGet

\* The only step that learns a version from the hub.
LEMMA PullLandKeeps ==
  ASSUME IInv, NEW k \in Keys, PullLand(k)
  PROVE  IInv' /\ hub'.object = hub.object
<1>1. /\ dev \in DeviceOf(ghost.seen) /\ mem \in MemoryOf(ghost.seen) /\ hub \in Hub
      /\ mem.eng \in EngineOf(ghost.seen) /\ faults \in 0..MaxFaults
      /\ <<dev>> \in StepsOf(ghost.seen) /\ ghost \in Ghost
  BY Parts
<1>2. CASE Commit(<<dev>>, Engage(At("scan", k))) /\ UNCHANGED ghost
  <2>1. At("scan", k) \in EngineOf(ghost.seen)  BY AtEngine DEF PCs
  <2> QED  BY <1>1, <1>2, <2>1, CommitStep, EngageMemory, KeepsByLocalStep
<1>3. CASE /\ Finish(PullSteps(dev, k, mem.eng.sha), mem)
           /\ ghost' = [ghost EXCEPT !.seen = @ \cup {mem.eng.sha}]
  <2> DEFINE S == ghost.seen \cup {mem.eng.sha}
  <2>1. mem.eng.sha \in Version  BY <1>1 DEF PullLand, EngineOf
  <2>2. ghost' \in Ghost /\ ghost'.seen = S  BY <1>1, <1>3, <2>1 DEF Ghost
  <2>3. dev \in DeviceOf(S) /\ mem \in MemoryOf(S)  BY <1>1, DeviceGrows, MemoryGrows
  <2>4. PullSteps(dev, k, mem.eng.sha) \in StepsOf(S)  BY <2>3, PullStepsSteps
  <2>5. LocalStep(S)  BY <1>1, <1>3, <2>3, <2>4, FinishStep
  <2> QED  BY <2>2, <2>5, LocalStepKeeps DEF LocalStep
<1> QED  BY <1>2, <1>3 DEF PullLand

\* record_conflict.
LEMMA RecordConflictKeeps ==
  ASSUME IInv, NEW k \in Keys, RecordConflict(k)
  PROVE  IInv' /\ hub'.object = hub.object
<1> DEFINE S == ghost.seen
<1>1. /\ dev \in DeviceOf(S) /\ mem \in MemoryOf(S) /\ hub \in Hub
      /\ faults \in 0..MaxFaults /\ <<dev>> \in StepsOf(S)
  BY Parts
<1>2. UNCHANGED ghost  BY DEF RecordConflict
<1>3. PICK lk \in Keys :
        IF GoneLocally(k) THEN Finish(<<dev>>, mem)
        ELSE IF k \in mem.open \/ PendingRename(dev, k) \/ dev.entry[k] # mem.eng.seen
          THEN Finish(<<dev>>, [mem EXCEPT !.recheck = @ \cup {lk}])
          ELSE Finish(ConflictSteps(dev, k), mem)
  BY DEF RecordConflict
<1>4. CASE Finish(<<dev>>, mem)
  BY <1>1, <1>2, <1>4, FinishStep, KeepsByLocalStep
<1>5. CASE Finish(<<dev>>, [mem EXCEPT !.recheck = @ \cup {lk}])
  BY <1>1, <1>2, <1>5, FinishStep, RecheckMemory, KeepsByLocalStep
<1>6. CASE ~GoneLocally(k) /\ Finish(ConflictSteps(dev, k), mem)
  <2>1. ConflictSteps(dev, k) \in StepsOf(S)
    BY <1>1, <1>6, ConflictStepsSteps DEF GoneLocally
  <2> QED  BY <1>1, <1>2, <1>6, <2>1, FinishStep, KeepsByLocalStep
<1> QED  BY <1>3, <1>4, <1>5, <1>6

(***************************************************************************)
(* The engine: its jobs.                                                   *)
(***************************************************************************)
\* What a job is made of, and what selecting it leaves in memory.
LEMMA JobReads ==
  ASSUME IInv, NEW j \in dev.jobs
  PROVE  /\ j.kind \in JobKinds /\ j.key \in Keys /\ j.to \in Keys
         /\ j.match \in ghost.seen \cup {None, Unhashed}
         /\ j.sha \in ghost.seen \cup {None}
         /\ Mark(dev, j) \in DeviceOf(ghost.seen)
         /\ <<Mark(dev, j)>> \in StepsOf(ghost.seen)
<1>1. j \in JobOf(ghost.seen)  BY Parts DEF DeviceOf
<1>2. Mark(dev, j) \in DeviceOf(ghost.seen)  BY Parts, MarkDevice
<1>3. <<Mark(dev, j)>> \in StepsOf(ghost.seen)  BY <1>2, StepsOne
<1> QED  BY <1>1, <1>2, <1>3 DEF JobOf

\* drain_jobs takes a job.
LEMMA SelectedMemory ==
  ASSUME IInv, NEW j \in dev.jobs, NEW e \in EngineOf(ghost.seen)
  PROVE  Selected(j, e) \in MemoryOf(ghost.seen)
<1>1. mem \in MemoryOf(ghost.seen) /\ mem.listing \in Listing  BY Parts DEF MemoryOf
<1>2. JobKeys(j) \cap mem.listing.todo \subseteq Keys  BY <1>1 DEF Listing
<1>3. Touched(j) \in Listing  BY <1>1, <1>2 DEF Touched, Listing
<1> QED  BY <1>1, <1>3 DEF Selected, MemoryOf

\* run_push, up to the snapshot.
LEMMA StartPushKeeps ==
  ASSUME IInv, NEW j \in dev.jobs, StartPush(j)
  PROVE  IInv' /\ hub'.object = hub.object
<1> DEFINE S == ghost.seen
           k == j.key
           eng == [At("snap", k) EXCEPT !.seen = dev.entry[k], !.match = dev.base[k]]
<1>1. UNCHANGED ghost  BY DEF StartPush
<1>2. CASE Commit(<<Done(Mark(dev, j))>>, Selected(j, Idle))
  <2>1. <<Done(Mark(dev, j))>> \in StepsOf(S)  BY JobReads, DoneDevice, StepsOne
  <2>2. Selected(j, Idle) \in MemoryOf(S)  BY IdleEngine, SelectedMemory
  <2> QED  BY <1>1, <1>2, <2>1, <2>2, Parts, CommitStep, KeepsByLocalStep
<1>3. CASE Commit(<<Mark(dev, j)>>, Selected(j, eng))
  <2>1. k \in Keys  BY JobReads
  <2>2. dev.entry[k] \in EntryOf(S) /\ dev.base[k] \in S \cup {None, Unhashed}
    BY <2>1, Parts, DeviceReads
  <2>3. At("snap", k) \in EngineOf(S) /\ At("snap", k).pc = "snap"
    BY <2>1, AtEngine DEF PCs, At, Idle
  <2>4. eng \in EngineOf(S)  BY <2>2, <2>3 DEF EngineOf
  <2>5. Selected(j, eng) \in MemoryOf(S)  BY <2>4, SelectedMemory
  <2> QED  BY <1>1, <1>3, <2>5, Parts, JobReads, CommitStep, KeepsByLocalStep
<1> HIDE DEF eng
<1> QED  BY <1>2, <1>3 DEF StartPush, eng

\* run_push, the snapshot taken.
LEMMA PushSendKeeps ==
  ASSUME IInv, NEW k \in Keys, PushSend(k)
  PROVE  IInv' /\ hub'.object = hub.object
<1> DEFINE S == ghost.seen
           v == dev.file[k]
           d1 == SetEntry(dev, k, Hashed(v, "Dirty"))
           d2 == SetPending(d1, k, v)
           eng == [At("put", k) EXCEPT !.sha = v, !.match = mem.eng.match]
<1>1. UNCHANGED ghost  BY DEF PushSend
<1>2. CASE Commit(<<Unmark(dev)>>, Engage(Idle))
  BY <1>1, <1>2, Parts, IdleEngine, EngageMemory, CommitStep, KeepsByLocalStep
<1>3. CASE Commit(<<d1, d2>>, Engage(eng))
  <2>1. v \in S \cup {None} /\ mem.eng.match \in S \cup {None, Unhashed}
    BY Parts, DeviceReads DEF EngineOf
  <2>2. d1 \in DeviceOf(S)  BY <2>1, Parts, EntryValues, SetEntryDevice
  <2>3. d2 \in DeviceOf(S)  BY <2>1, <2>2, SetRecordDevice
  <2>4. <<d1, d2>> \in StepsOf(S)  BY <2>2, <2>3, StepsTwo
  <2> HIDE DEF v
  <2>5. At("put", k) \in EngineOf(S) /\ At("put", k).pc = "put"
    BY AtEngine DEF PCs, At, Idle
  <2>6. [At("put", k) EXCEPT !.match = mem.eng.match] \in EngineOf(S)
    BY <2>1, <2>5 DEF EngineOf
  <2>7. eng \in EngineOf(S)
    <3>1. v \in Digest  BY <2>1, Parts DEF Digest
    <3> QED  BY <2>1, <2>5, <2>6, <3>1 DEF EngineOf
  <2> QED  BY <1>1, <1>3, <2>4, <2>7, Parts, EngageMemory, CommitStep, KeepsByLocalStep
<1> HIDE DEF eng, d1, d2
<1> QED  BY <1>2, <1>3 DEF PushSend, eng, d1, d2

\* run_push, answered.
LEMMA PushReplyKeeps ==
  ASSUME IInv, NEW k \in Keys, PushReply(k)
  PROVE  IInv' /\ hub'.object = hub.object
<1> DEFINE S == ghost.seen
<1>1. UNCHANGED ghost  BY DEF PushReply
<1>2. PICK lk \in Keys :
        IF mem.eng.out = "ok" THEN Finish(PushedSteps(dev, k, lk, mem.eng.sha), mem)
        ELSE IF lk # k THEN Commit(<<Unmark(dev)>>, Engage(Idle))
        ELSE Commit(<<Refused(dev, k)>>, Engage(Told(k, mem.eng.reply)))
  BY DEF PushReply
<1>3. CASE Finish(PushedSteps(dev, k, lk, mem.eng.sha), mem)
  <2>1. mem.eng.sha \in S \cup {None}  BY Parts DEF EngineOf, PushReply
  <2>2. PushedSteps(dev, k, lk, mem.eng.sha) \in StepsOf(S)
    BY <2>1, Parts, PushedStepsSteps
  <2> QED  BY <1>1, <1>3, <2>2, Parts, FinishStep, KeepsByLocalStep
<1>4. CASE Commit(<<Unmark(dev)>>, Engage(Idle))
  BY <1>1, <1>4, Parts, IdleEngine, EngageMemory, CommitStep, KeepsByLocalStep
<1>5. CASE Commit(<<Refused(dev, k)>>, Engage(Told(k, mem.eng.reply)))
  <2>1. Told(k, mem.eng.reply) \in EngineOf(S)  BY ZenonT(60), Parts, ToldEngine DEF EngineOf
  <2>2. <<Refused(dev, k)>> \in StepsOf(S)  BY Parts DEF Refused
  <2> QED  BY <1>1, <1>5, <2>1, <2>2, Parts, EngageMemory, CommitStep, KeepsByLocalStep
<1> QED  BY <1>2, <1>3, <1>4, <1>5

\* The engine with a delete out.
LEMMA DeleteEngine ==
  ASSUME NEW S, NEW k \in Keys, NEW m \in S \cup {None, Unhashed}, NEW f \in BOOLEAN
  PROVE  [At("del", k) EXCEPT !.match = m, !.fixed = f] \in EngineOf(S)
<1>1. At("del", k) \in EngineOf(S) /\ At("del", k).pc = "del"
  BY AtEngine DEF PCs, At, Idle
<1> QED  BY ZenonT(60), <1>1 DEF EngineOf

\* run_delete.
LEMMA StartDeleteKeeps ==
  ASSUME IInv, NEW j \in dev.jobs, StartDelete(j)
  PROVE  IInv' /\ hub'.object = hub.object
<1> DEFINE S == ghost.seen
           expected(lk) == IF j.match # None THEN j.match
                           ELSE IF dev.base[lk] # None THEN dev.base[lk]
                           ELSE dev.pending[j.key]
           eng(lk) == [At("del", j.key) EXCEPT !.match = expected(lk),
                                               !.fixed = j.match # None]
           forgot(lk) == <<Forget(dev, lk), Done(Mark(Forget(dev, lk), j))>>
<1>1. UNCHANGED ghost  BY DEF StartDelete
<1>2. PICK lk \in Keys :
        IF expected(lk) = None THEN Commit(forgot(lk), Selected(j, Idle))
        ELSE Commit(<<Mark(dev, j)>>, Selected(j, eng(lk)))
  BY DEF StartDelete
<1>3. CASE Commit(forgot(lk), Selected(j, Idle))
  <2>1. Forget(dev, lk) \in DeviceOf(S)  BY Parts, ForgetDevice
  <2>2. Forget(dev, lk).jobs = dev.jobs  BY Parts DEF Forget, SetEntry, DeviceOf
  <2>3. Done(Mark(Forget(dev, lk), j)) \in DeviceOf(S)
    BY <2>1, <2>2, MarkDevice, DoneDevice
  <2>4. forgot(lk) \in StepsOf(S)  BY <2>1, <2>3, StepsTwo
  <2>5. Selected(j, Idle) \in MemoryOf(S)  BY IdleEngine, SelectedMemory
  <2> QED  BY <1>1, <1>3, <2>4, <2>5, Parts, CommitStep, KeepsByLocalStep
<1>4. CASE Commit(<<Mark(dev, j)>>, Selected(j, eng(lk)))
  <2>1. j.key \in Keys /\ j.match \in S \cup {None, Unhashed}  BY JobReads
  <2>2. expected(lk) \in S \cup {None, Unhashed}  BY <2>1, Parts, DeviceReads
  <2> HIDE DEF expected
  <2>3. (j.match # None) \in BOOLEAN  OBVIOUS
  <2>4. eng(lk) \in EngineOf(S)  BY <2>1, <2>2, <2>3, DeleteEngine
  <2> HIDE DEF eng
  <2>5. Selected(j, eng(lk)) \in MemoryOf(S)  BY <2>4, SelectedMemory
  <2> QED  BY <1>1, <1>4, <2>5, Parts, JobReads, CommitStep, KeepsByLocalStep
<1> QED  BY <1>2, <1>3, <1>4

\* run_delete, answered.
LEMMA DeleteReplyKeeps ==
  ASSUME IInv, NEW k \in Keys, DeleteReply(k)
  PROVE  IInv' /\ hub'.object = hub.object
<1> DEFINE S == ghost.seen
<1>1. UNCHANGED ghost  BY DEF DeleteReply
<1>2. PICK lk \in Keys :
        IF mem.eng.out = "ok" THEN Finish(DeletedSteps(dev, k, lk, mem.eng.fixed), mem)
        ELSE IF mem.eng.fixed \/ lk # k THEN Commit(<<Unmark(dev)>>, Engage(Idle))
        ELSE Commit(<<dev>>, Engage(Told(k, mem.eng.reply)))
  BY DEF DeleteReply
<1>3. CASE Finish(DeletedSteps(dev, k, lk, mem.eng.fixed), mem)
  <2>1. mem.eng.fixed \in BOOLEAN  BY Parts DEF EngineOf
  <2>2. DeletedSteps(dev, k, lk, mem.eng.fixed) \in StepsOf(S)
    BY <2>1, Parts, DeletedStepsSteps
  <2> QED  BY <1>1, <1>3, <2>2, Parts, FinishStep, KeepsByLocalStep
<1>4. CASE Commit(<<Unmark(dev)>>, Engage(Idle))
  BY <1>1, <1>4, Parts, IdleEngine, EngageMemory, CommitStep, KeepsByLocalStep
<1>5. CASE Commit(<<dev>>, Engage(Told(k, mem.eng.reply)))
  <2>1. Told(k, mem.eng.reply) \in EngineOf(S)  BY Parts, ToldEngine DEF EngineOf
  <2> QED  BY <1>1, <1>5, <2>1, Parts, EngageMemory, CommitStep, KeepsByLocalStep
<1> QED  BY <1>2, <1>3, <1>4, <1>5

\* The engine with a rename out, and asking who took its target.
LEMMA RenameEngine ==
  ASSUME NEW S, NEW k \in Keys, NEW to \in Keys, NEW m \in S \cup {None, Unhashed},
         NEW r \in Digest
  PROVE  /\ [At("ren", k) EXCEPT !.to = to, !.match = m] \in EngineOf(S)
         /\ [At("target", k) EXCEPT !.to = to, !.reply = r] \in EngineOf(S)
<1>1. At("ren", k) \in EngineOf(S) /\ At("ren", k).pc = "ren"
  BY AtEngine DEF PCs, At, Idle
<1>2. At("target", k) \in EngineOf(S) /\ At("target", k).pc = "target"
  BY AtEngine DEF PCs, At, Idle
<1>3. [At("ren", k) EXCEPT !.to = to, !.match = m] \in EngineOf(S)  BY <1>1 DEF EngineOf
<1>4. [At("target", k) EXCEPT !.to = to, !.reply = r] \in EngineOf(S)
  BY <1>2 DEF EngineOf
<1> QED  BY <1>3, <1>4

\* run_rename.
LEMMA StartRenameKeeps ==
  ASSUME IInv, NEW j \in dev.jobs, StartRename(j)
  PROVE  IInv' /\ hub'.object = hub.object
<1> DEFINE S == ghost.seen
           m(lk) == IF dev.base[lk] # None THEN dev.base[lk] ELSE dev.pending[j.key]
           eng(lk) == [At("ren", j.key) EXCEPT !.to = j.to, !.match = m(lk)]
<1>1. UNCHANGED ghost  BY DEF StartRename
<1>2. PICK lk \in Keys : Commit(<<Mark(dev, j)>>, Selected(j, eng(lk)))
  BY DEF StartRename
<1>3. j.key \in Keys /\ j.to \in Keys  BY JobReads
<1>4. m(lk) \in S \cup {None, Unhashed}  BY <1>3, Parts, DeviceReads
<1> HIDE DEF m
<1>5. eng(lk) \in EngineOf(S)  BY <1>3, <1>4, RenameEngine DEF Digest
<1> HIDE DEF eng
<1>6. Selected(j, eng(lk)) \in MemoryOf(S)  BY <1>5, SelectedMemory
<1> QED  BY <1>1, <1>2, <1>6, Parts, JobReads, CommitStep, KeepsByLocalStep

\* run_rename, answered.
LEMMA RenameReplyKeeps ==
  ASSUME IInv, NEW from \in Keys, NEW to \in Keys, RenameReply(from, to)
  PROVE  IInv' /\ hub'.object = hub.object
<1> DEFINE S == ghost.seen
           d1(lk) == SetBase(dev, lk, None)
           gone(lk) == <<d1(lk), SetEntry(d1(lk), lk, NoEntry)>>
           target == [At("target", from) EXCEPT !.to = to, !.reply = hub.object[to]]
<1>2. PICK lk \in Keys :
        /\ UNCHANGED ghost \/ Misreads({lk})
        /\ \/ Finish(<<dev>>, mem)
           \/ Finish(OrphanSteps(dev, lk), mem)
           \/ Finish(gone(lk), mem)
           \/ Commit(OrphanSteps(dev, lk), Engage(Told(from, mem.eng.reply)))
           \/ Commit(<<dev>>, Engage(target))
  BY DEF RenameReply
<1>3. OrphanSteps(dev, lk) \in StepsOf(S)  BY Parts, OrphanStepsSteps
<1>4. gone(lk) \in StepsOf(S)
  <2>1. d1(lk) \in DeviceOf(S)  BY Parts, SetBaseDevice
  <2>2. SetEntry(d1(lk), lk, NoEntry) \in DeviceOf(S)
    BY <2>1, EntryValues, SetEntryDevice
  <2> QED  BY <2>1, <2>2, StepsTwo
<1>5. Told(from, mem.eng.reply) \in EngineOf(S)  BY ZenonT(60), Parts, ToldEngine DEF EngineOf
<1>6. target \in EngineOf(S)
  <2>1. hub.object[to] \in Digest  BY Parts DEF Hub
  <2> QED  BY <2>1, RenameEngine
<1> HIDE DEF gone, target
<1>7. LocalStep(S)
  <2>1. CASE Finish(<<dev>>, mem) \/ Finish(OrphanSteps(dev, lk), mem) \/ Finish(gone(lk), mem)
    BY <1>3, <1>4, <2>1, Parts, FinishStep
  <2>2. CASE \/ Commit(OrphanSteps(dev, lk), Engage(Told(from, mem.eng.reply)))
             \/ Commit(<<dev>>, Engage(target))
    BY <1>3, <1>5, <1>6, <2>2, Parts, EngageMemory, CommitStep
  <2> QED  BY <1>2, <2>1, <2>2
<1> QED  BY <1>2, <1>7, KeepsByMisread

\* run_rename, told who took the target.
LEMMA RenameTargetKeeps ==
  ASSUME IInv, NEW from \in Keys, NEW to \in Keys, RenameTarget(from, to)
  PROVE  IInv' /\ hub'.object = hub.object
<1> DEFINE S == ghost.seen
<1>1. UNCHANGED ghost  BY DEF RenameTarget
<1>2. CASE Commit(<<SetBase(dev, to, None)>>, Engage(Told(to, mem.eng.reply)))
  <2>1. <<SetBase(dev, to, None)>> \in StepsOf(S)  BY Parts, SetBaseDevice, StepsOne
  <2>2. Told(to, mem.eng.reply) \in EngineOf(S)  BY ZenonT(60), Parts, ToldEngine DEF EngineOf
  <2> QED  BY <1>1, <1>2, <2>1, <2>2, Parts, EngageMemory, CommitStep, KeepsByLocalStep
<1>3. CASE Finish(<<dev>>, [mem EXCEPT !.skipped = @ \cup {from}])
  BY <1>1, <1>3, Parts, RecheckMemory, FinishStep, KeepsByLocalStep
<1> QED  BY <1>2, <1>3 DEF RenameTarget

\* The engine with the bytes of a conflict in hand.
LEMMA CopyEngine ==
  ASSUME NEW S, NEW k \in Keys, NEW v \in S \cup {None}, v \in Digest
  PROVE  /\ [At("copy", k) EXCEPT !.sha = v] \in EngineOf(S)
         /\ [At("hash", k) EXCEPT !.sha = v] \in EngineOf(S)
<1>1. /\ At("copy", k) \in EngineOf(S) /\ At("copy", k).pc = "copy"
      /\ At("hash", k) \in EngineOf(S) /\ At("hash", k).pc = "hash"
  BY AtEngine DEF PCs, At, Idle
<1>2. [At("copy", k) EXCEPT !.sha = v] \in EngineOf(S)  BY <1>1 DEF EngineOf
<1>3. [At("hash", k) EXCEPT !.sha = v] \in EngineOf(S)  BY <1>1 DEF EngineOf
<1> QED  BY <1>2, <1>3

\* run_conflict.
LEMMA StartConflictKeeps ==
  ASSUME IInv, NEW j \in dev.jobs, StartConflict(j)
  PROVE  IInv' /\ hub'.object = hub.object
<1> DEFINE S == ghost.seen
           eng == [At("copy", j.key) EXCEPT !.sha = j.sha]
<1>1. UNCHANGED ghost  BY DEF StartConflict
<1>2. j.key \in Keys /\ j.sha \in S \cup {None} /\ j.sha \in Digest
  BY Parts, JobReads DEF Digest
<1>3. eng \in EngineOf(S)  BY <1>2, CopyEngine
<1>4. Commit(<<Mark(dev, j)>>, Selected(j, eng))  BY DEF StartConflict
<1> HIDE DEF eng
<1>5. Selected(j, eng) \in MemoryOf(S)  BY <1>3, SelectedMemory
<1> QED  BY <1>1, <1>4, <1>5, Parts, JobReads, CommitStep, KeepsByLocalStep

\* run_conflict, the copy uploaded.
LEMMA CopyReplyKeeps ==
  ASSUME IInv, NEW k \in Keys, CopyReply(k)
  PROVE  IInv' /\ hub'.object = hub.object
<1> DEFINE S == ghost.seen
           d1(lk) == SetConflict(dev, lk, None)
           eng == [At("hash", k) EXCEPT !.sha = mem.eng.sha]
<1>1. UNCHANGED ghost  BY DEF CopyReply
<1>2. PICK lk \in Keys : \/ Finish(<<d1(lk)>>, mem)
                         \/ Commit(<<d1(lk)>>, Engage(eng))
  BY DEF CopyReply
<1>3. <<d1(lk)>> \in StepsOf(S)  BY Parts, SetRecordDevice, StepsOne
<1>4. mem.eng.sha \in S \cup {None} /\ mem.eng.sha \in Digest
  BY Parts DEF EngineOf, CopyReply
<1>5. eng \in EngineOf(S)  BY <1>4, CopyEngine
<1> HIDE DEF eng, d1
<1>6. LocalStep(S)
  <2>1. CASE Finish(<<d1(lk)>>, mem)
    BY <1>3, <2>1, Parts, FinishStep
  <2>2. CASE Commit(<<d1(lk)>>, Engage(eng))
    BY <1>3, <1>5, <2>2, Parts, EngageMemory, CommitStep
  <2> QED  BY <1>2, <2>1, <2>2
<1> QED  BY <1>1, <1>6, KeepsByLocalStep

\* run_conflict, the file hashed again.
LEMMA ConflictHashKeeps ==
  ASSUME IInv, NEW k \in Keys, ConflictHash(k)
  PROVE  IInv' /\ hub'.object = hub.object
<1>1. At("scan", k) \in EngineOf(ghost.seen) /\ At("take", k) \in EngineOf(ghost.seen)
  BY AtEngine DEF PCs
<1>2. mem' = Engage(At("scan", k)) \/ mem' = Engage(At("take", k))  BY DEF ConflictHash
<1>3. mem' \in MemoryOf(ghost.seen)  BY <1>1, <1>2, Parts, EngageMemory
<1> QED  BY <1>3, Parts DEF ConflictHash, IInv, KnownVersions

\* run_conflict, the entry read for its pull.
LEMMA ConflictTakeKeeps ==
  ASSUME IInv, NEW k \in Keys, ConflictTake(k)
  PROVE  IInv' /\ hub'.object = hub.object
<1> DEFINE S == ghost.seen
           eng == [At("pull", k) EXCEPT !.seen = dev.entry[k]]
           d1 == SetBase(dev, k, None)
           d2 == IF d1.entry[k].state = "Absent" THEN d1 ELSE SetState(d1, k, "Dirty")
           d3 == EnsureJob(d2, PushId(k), None)
<1>1. UNCHANGED ghost \/ Misreads({k})  BY DEF ConflictTake
<1>2. Commit(<<dev>>, Engage(eng)) \/ Finish(<<d1, d2, d3>>, mem)
  BY DEF ConflictTake
<1>3. eng \in EngineOf(S)
  <2>1. dev.entry[k] \in EntryOf(S)  BY Parts, DeviceReads
  <2> QED  BY <2>1, AtSeenEngine DEF PCs
<1>4. d1 \in DeviceOf(S)  BY Parts, SetBaseDevice
<1> HIDE DEF d1
<1>5. d2 \in DeviceOf(S)  BY <1>4, DirtyPush
<1> HIDE DEF d2
<1>6. d3 \in DeviceOf(S)  BY <1>5, DirtyPush
<1> HIDE DEF d3, eng
<1>7. <<d1, d2, d3>> \in StepsOf(S)  BY <1>4, <1>5, <1>6, StepsThree
<1>8. LocalStep(S)
  <2>1. CASE Commit(<<dev>>, Engage(eng))
    BY <1>3, <2>1, Parts, EngageMemory, CommitStep
  <2>2. CASE Finish(<<d1, d2, d3>>, mem)
    BY <1>7, <2>2, Parts, FinishStep
  <2> QED  BY <1>2, <2>1, <2>2
<1> QED  BY <1>1, <1>8, KeepsByMisread

(***************************************************************************)
(* The specification.                                                      *)
(***************************************************************************)
\* A new device knows nothing, and the hub has nothing.
LEMMA InitKnows == Init => IInv
<1> SUFFICES ASSUME Init  PROVE IInv
  OBVIOUS
<1>1. dev \in DeviceOf({}) /\ mem \in MemoryOf({}) /\ ghost.seen = {}
  BY EmptyDeviceKnowsNothing, BootingMemory DEF Init
<1>2. hub \in Hub  BY DEF Init, Hub, Digest
<1>3. ghost \in Ghost
  BY LedgerAssumption, MirrorAssumption DEF Init, Ghost
<1>4. faults \in 0..MaxFaults  BY MirrorAssumption DEF Init
<1> QED  BY <1>1, <1>2, <1>3, <1>4 DEF IInv, KnownVersions

\* What a step may do to the hub's objects: a step of a peer is told by the
\* history, a request of this mirror takes off it only what the folder has
\* held, and no other step touches them.
PeerStep == ghost'.next # ghost.next \/ ghost'.removed # ghost.removed

\* A step that leaves the objects alone takes nothing off the hub.
LEMMA SameObjects ==
  ASSUME hub'.object = hub.object
  PROVE  Seen
BY DEF Seen

\* The session threads.
LEMMA SessionKeeps ==
  ASSUME IInv, NEW k \in Keys, Session(k)
  PROVE  IInv' /\ hub'.object = hub.object
BY HandleKeeps, WriteKeeps, FlushKeeps, UnlinkKeeps, RenameKeeps DEF Session

\* The hub.
LEMMA HubAnswersKeep ==
  ASSUME IInv, NEW k \in Keys, HubAnswers(k)
  PROVE  IInv' /\ Seen
BY HubPutKeeps, HubDeleteKeeps, HubCopyKeeps, HubRenameKeeps, SameObjects DEF HubAnswers

\* The engine in the middle of something.
LEMMA ProceedKeeps ==
  ASSUME IInv, NEW k \in Keys, Proceed(k)
  PROVE  IInv' /\ hub'.object = hub.object
BY ScansKeep, ReconcileKeeps, PullStartKeeps, PullGetKeeps, PullLandKeeps, RecordConflictKeeps,
   PushSendKeeps, PushReplyKeeps, DeleteReplyKeeps, CopyReplyKeeps, ConflictHashKeeps,
   ConflictTakeKeeps, RenameReplyKeeps, RenameTargetKeeps
   DEF Proceed

\* The engine choosing what to do next.
LEMMA CycleKeeps ==
  ASSUME IInv, Cycle
  PROVE  IInv' /\ hub'.object = hub.object
<1>1. CASE StartJob
  BY <1>1, StartPushKeeps, StartDeleteKeeps, StartRenameKeeps, StartConflictKeeps
     DEF StartJob
<1>2. CASE StartListing
  BY <1>2, StartListingKeeps
<1>3. CASE \E k \in Keys : \/ StartupScan(k) \/ ScanKey(k) \/ RecoverJob(k)
                           \/ NextChange(k) \/ NextRecheck(k) \/ NextListed(k)
  BY <1>3, ScansKeep, RecoverJobKeeps, NextHeadKeeps
<1> QED  BY <1>1, <1>2, <1>3 DEF Cycle

\* The invariant is inductive, and every step is a peer's or takes nothing
\* unseen off the hub.
LEMMA NextKnows == IInv /\ [Next]_vars => IInv' /\ (PeerStep \/ Seen)
<1> SUFFICES ASSUME IInv, [Next]_vars  PROVE IInv' /\ (PeerStep \/ Seen)
  OBVIOUS
<1>1. CASE UNCHANGED vars
  BY <1>1, SameObjects
     DEF vars, IInv, KnownVersions
<1>2. ASSUME NEW k \in Keys, Session(k) \/ FolderEdit(k) \/ Proceed(k)
      PROVE  IInv' /\ Seen
  BY <1>2, SessionKeeps, FolderEditKeeps, ProceedKeeps, SameObjects
<1>3. ASSUME NEW k \in Keys, Peer(k)  PROVE IInv' /\ PeerStep
  BY <1>3, PeerKeeps DEF PeerStep
<1>4. ASSUME NEW k \in Keys, HubAnswers(k)  PROVE IInv' /\ Seen
  BY <1>4, HubAnswersKeep
<1>5. CASE Cycle \/ Disconnect \/ ProcessCrash
  BY <1>5, CycleKeeps, DisconnectKeeps, ProcessCrashKeeps, SameObjects
<1> QED  BY <1>1, <1>2, <1>3, <1>4, <1>5 DEF Next

\* The invariant holds from the start and is never lost.
LEMMA InvariantHolds == Spec => []IInv
<1>1. IInv /\ [Next]_vars => IInv'  BY NextKnows
<1> QED  BY <1>1, InitKnows, PTL DEF Spec

\* Whatever the bounds, every reachable state has the shape TypeOK gives it:
\* the crash of any handler between any two of its writes leaves a ledger the
\* store could have written.
THEOREM TypeCorrect == Spec => []TypeOK
<1>1. IInv => TypeOK
  <2> SUFFICES ASSUME IInv  PROVE TypeOK
    OBVIOUS
  <2>1. dev \in DeviceOf(Version) /\ mem \in MemoryOf(Version)
    BY Parts, DeviceGrows, MemoryGrows
  <2> QED  BY <2>1, Parts DEF TypeOK, Device, Memory
<1> QED  BY <1>1, InvariantHolds, PTL

\* Every version the mirror keeps in its ledger or its folder, agrees on or
\* sends as a precondition is one its folder has held.
THEOREM LedgerKnowsOnlySeen == Spec => []KnownVersions
<1>1. IInv => KnownVersions  BY DEF IInv
<1> QED  BY <1>1, InvariantHolds, PTL

\* No request of this mirror replaces or removes a version its folder has
\* never held: run_push and run_delete name what they replace, and what they
\* can name is what the ledger knows.
THEOREM NothingOverwrittenBlind == Spec => NoBlindOverwrite
<1> DEFINE Careful == ghost'.next = ghost.next /\ ghost'.removed = ghost.removed
                      => Range(hub.object)
                           \subseteq Range(hub'.object) \cup ghost.seen \cup {None}
<1>1. IInv /\ [Next]_vars => [Careful]_vars
  <2> SUFFICES ASSUME IInv, [Next]_vars  PROVE Careful
    OBVIOUS
  <2>1. PeerStep \/ Seen  BY NextKnows
  <2> QED  BY <2>1 DEF PeerStep, Seen
<1>2. [][Careful]_vars => NoBlindOverwrite
  BY PTL DEF NoBlindOverwrite
<1> QED  BY <1>1, <1>2, InvariantHolds, PTL DEF Spec
=============================================================================
