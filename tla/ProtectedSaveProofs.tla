------------------------- MODULE ProtectedSaveProofs -------------------------
(***************************************************************************)
(* A mirror mounted with --protected loses no save either, nor does a      *)
(* recovery, nor the remount without the option: the mirror's invariant    *)
(* (MirrorSaveProofs) survives what a protected engine leaves undone, and  *)
(* a recovery keeps it because what it acknowledges or lands is not        *)
(* waiting to be sent (RecPays).  And a push and then a pull leave both     *)
(* sides with the union: a push in hand is the file there is, a pull in    *)
(* hand is of a key without one, what they are done with is even, and a    *)
(* protected engine between them only fetches (UnionInv).                  *)
(***************************************************************************)
EXTENDS ProtectedSyncProofs, MirrorSaveProofs

\* What a recovery acknowledges, the hub has; and so it has what it lands.
RecPays ==
  /\ rec.pc \in {"commit", "land"} => rec.sha \notin ghost.unsent
  /\ rec.pc = "land" => rec.sha \in 0..ghost.next - 1

\* A mirror mounted in step owes nothing.
LEMMA ProtectedInitSaves == ProtectedInit => SaveInv /\ RecPays
<1> SUFFICES ASSUME ProtectedInit  PROVE SaveInv /\ RecPays
  OBVIOUS
<1> DEFINE N == Cardinality(Synced)
<1>1. N \in Nat  BY FS_CardinalityType, ProtectedAssumption
<1>2. PICK held \in [Synced -> 1..N] :
        hub = [object |-> [k \in Keys |-> IF k \in Synced THEN held[k] ELSE None],
               feed |-> {}]
  BY DEF ProtectedInit
<1> HIDE DEF N
<1>3. \A k \in Keys : hub.object[k] \in 0..N  BY <1>1, <1>2 DEF None
<1>4. /\ ghost.unsent = {} /\ Owed = {} /\ ghost.seen = 1..N /\ ghost.next = N + 1
      /\ mem = [Booting EXCEPT !.up = TRUE, !.unscanned = {}] /\ rec = NoRecovery
  BY DEF ProtectedInit, Owed, N
<1>5. /\ mem.up = TRUE /\ mem.open = {} /\ mem.unflushed = {} /\ mem.unscanned = {}
      /\ mem.eng = Idle /\ mem.listing = NoListing
      /\ Idle.reply = None /\ Idle.sha = None /\ Idle.pc = "idle"
      /\ \A k \in Keys : NoListing.remote[k] = None
  BY <1>4 DEF Booting, NoListing, Idle
<1>6. Safe(dev, ghost.unsent, Owed)  BY <1>4 DEF Safe, FileOnce, Held, Agreed
<1>7. Tracked(dev, Keys \ mem.unscanned, mem.unflushed, Owed)
  BY <1>4 DEF Tracked, Names, Tracks
<1>8. Plan(dev, mem.eng, Owed)  BY <1>5 DEF Plan
<1>9. Uploaded(hub, mem, ghost.unsent)  BY <1>4 DEF Uploaded, InHand
<1>10. Past(hub, mem, ghost)
  BY <1>1, <1>3, <1>4, <1>5 DEF Past, None
<1>11. Mounted(mem)  BY <1>5 DEF Mounted
<1> QED
  BY <1>4, <1>6, <1>7, <1>8, <1>9, <1>10, <1>11 DEF SaveInv, RecPays, NoRecovery

(***************************************************************************)
(* The engine.                                                             *)
(***************************************************************************)
\* Whatever it may not do, it leaves as it was.
LEMMA BlockedSaves ==
  ASSUME IInv, SaveInv, UNCHANGED ghost, Finish(<<dev>>, mem) \/ BlockJob
  PROVE  SaveInv'
<1>1. Quieter /\ Paid  BY SameGhost
<1>2. CASE Finish(<<dev>>, mem)
  BY <1>1, <1>2, SameRuns, DoneMemory, SameFinish
<1>3. CASE BlockJob
  <2>1. /\ Sound(Engage(Idle)) /\ Engage(Idle).eng = Idle
        /\ Engage(Idle).unscanned = mem.unscanned /\ Engage(Idle).unflushed = mem.unflushed
        /\ Plan(dev, Idle, Owed')
    BY <1>1, IdleSound, EngageSound DEF Quieter
  <2> QED  BY <1>1, <1>3, <2>1, SameRuns, SameCommit DEF BlockJob
<1> QED  BY <1>2, <1>3

\* A protected step is one of the engine's, or none.
LEMMA ProtectedEngineSaves ==
  ASSUME IInv, SaveInv, Choose \/ \E k \in Keys : Continue(k)
  PROVE  SaveInv'
<1>1. CASE Choose
  BY <1>1, StartListingSaves, StartPushSaves, ScansSave, RecoverJobSaves, NextHeadSaves
     DEF Choose, ProtectedPush
<1>2. ASSUME NEW k \in Keys, Continue(k)  PROVE SaveInv'
  <2>1. CASE ScanAgain(k) \/ PullGet(k) \/ PullLand(k)
    BY <2>1, ScansSave, PullGetSaves, PullLandSaves
  <2>2. CASE ProtectedReconcile(k) \/ ProtectedPull(k)
    BY <2>2, BlockedSaves, ReconcileSaves, PullStartSaves
       DEF ProtectedReconcile, ProtectedPull
  <2>3. CASE ProtectedSend(k) \/ ProtectedReply(k)
    BY <2>3, BlockedSaves, PushSendSaves, PushReplySaves
       DEF ProtectedSend, ProtectedReply, BlockJob
  <2> QED  BY <1>2, <2>1, <2>2, <2>3 DEF Continue
<1> QED  BY <1>1, <1>2

\* The engine, with the option and without it.
LEMMA EngineSaves ==
  ASSUME ProtectedInv, SaveInv, Engine
  PROVE  SaveInv' /\ RecPays'
<1>1. IInv /\ RecKnows /\ rec.verb = "none" /\ rec' = rec
  BY DEF ProtectedInv, Engine
<1>2. SaveInv'
  BY <1>1, ProtectedEngineSaves, ProceedSaves, HubAnswersSave, CycleSaves DEF Engine
<1> QED  BY <1>1, <1>2 DEF RecKnows, RecPays

(***************************************************************************)
(* The users.                                                              *)
(***************************************************************************)
\* What a recovery has in hand was saved before.
LEMMA RecPaysStill ==
  ASSUME ProtectedInv, SaveInv, RecPays, rec'.pc = rec.pc, rec'.sha = rec.sha,
         ghost'.next \in Nat, ghost'.next >= ghost.next,
         ghost'.unsent \subseteq ghost.unsent \cup {ghost.next}
  PROVE  RecPays'
<1>1. IInv /\ RecKnows  BY DEF ProtectedInv
<1>2. ghost.next \in Nat /\ ghost.seen \subseteq 0..ghost.next - 1  BY <1>1, KnownBefore
<1>3. rec.pc \in {"commit", "land"} => rec.sha \in 0..ghost.next - 1
  BY <1>1, <1>2 DEF RecKnows, RecPays
<1> QED  BY <1>2, <1>3 DEF RecPays

\* Users, here and elsewhere.
LEMMA UsersSave ==
  ASSUME ProtectedInv, SaveInv, RecPays, NEW k \in Keys, Users(k)
  PROVE  SaveInv' /\ RecPays'
<1>1. IInv /\ RecKnows  BY DEF ProtectedInv
<1>2. ghost \in Ghost /\ ghost.next \in Nat /\ ghost.next + 1 \in Nat
  BY <1>1, Parts, GhostFacts
<1>3. PICK t \in Keys : \/ Write(k) \/ Unlink(k) \/ Peer(k) \/ RenameHere(k, t)
                        \/ Open(k) \/ Flush(k) \/ Close(k)
  BY DEF Users
<1>4. SaveInv'
  BY <1>1, <1>3, WriteSaves, UnlinkSaves, PeerSaves, RenameSaves, HandleSaves, FlushSaves
     DEF RenameHere
<1>5. rec'.pc = rec.pc /\ rec'.sha = rec.sha
  <2>1. rec' = rec \/ \E b : rec' = [rec EXCEPT !.moved = b]
    BY DEF Users, RenameHere
  <2> QED  BY <1>1, <2>1 DEF RecKnows, Recovery
<1>6. /\ ghost'.next \in {ghost.next, ghost.next + 1}
      /\ ghost'.unsent \subseteq ghost.unsent \cup {ghost.next}
  <2>1. CASE Write(k)  BY <1>2, <2>1 DEF Write, Saved, Ghost
  <2>2. CASE Unlink(k) \/ Flush(k)  BY <1>2, <2>2 DEF Unlink, Flush, Ghost
  <2>3. CASE Open(k) \/ Close(k)  BY <1>2, <2>3 DEF Open, Close
  <2>4. CASE RenameHere(k, t)  BY <1>2, <2>4 DEF RenameHere, Rename, Ghost
  <2>5. CASE Peer(k)  BY <1>2, <2>5 DEF Peer, PeerPut, PeerDelete, Ghost
  <2> QED  BY <1>3, <2>1, <2>2, <2>3, <2>4, <2>5
<1> QED  BY <1>2, <1>4, <1>5, <1>6, RecPaysStill

(***************************************************************************)
(* Recovery.                                                               *)
(***************************************************************************)
\* A recovery that begins, or ends, has nothing in hand.
LEMMA RestSaves ==
  ASSUME SaveInv, StartPushLocal \/ StartPullRemote \/ EndRecovery
  PROVE  SaveInv' /\ RecPays'
<1>1. UNCHANGED vars  BY DEF StartPushLocal, StartPullRemote, Begin, EndRecovery
<1>2. SaveInv'  BY <1>1 DEF vars, SaveInv, Owed
<1>3. CASE EndRecovery
  BY <1>2, <1>3 DEF EndRecovery, NoRecovery, RecPays
<1>4. CASE StartPushLocal \/ StartPullRemote
  <2>1. rec'.pc = "pick"
    BY <1>4 DEF StartPushLocal, StartPullRemote, Begin, NoRecovery
  <2> QED  BY <1>2, <2>1 DEF RecPays
<1> QED  BY <1>3, <1>4

\* What it asks changes no side, and what it is told the hub holds.
LEMMA AskSaves ==
  ASSUME ProtectedInv, SaveInv, RecPays, NEW k \in Keys, Take(k) \/ RecHead(k) \/ RecGet(k)
  PROVE  SaveInv' /\ RecPays'
<1>1. IInv /\ rec \in Recovery  BY DEF ProtectedInv, RecKnows
<1>2. UNCHANGED <<dev, mem, hub, ghost>>  BY DEF Take, RecHead, RecGet, vars
<1>3. SaveInv'  BY <1>2 DEF SaveInv, Owed
<1>4. hub.object[k] \notin ghost.unsent /\ hub.object[k] \in 0..ghost.next - 1
  BY DEF SaveInv, Uploaded, Past
<1>5. \/ rec'.pc \notin {"commit", "land"}
      \/ rec'.pc \in {"commit", "land"} /\ rec'.sha = hub.object[k]
  <2>1. CASE NextFile
    BY <2>1 DEF NextFile, NoRecovery
  <2>2. CASE Take(k)
    BY <1>1, <2>2 DEF Take, Recovery
  <2>3. CASE RecHead(k) /\ ~ NextFile
    BY <1>1, <2>3 DEF RecHead, Recovery
  <2>4. CASE RecGet(k) /\ ~ NextFile
    BY <1>1, <2>4 DEF RecGet, Recovery
  <2> QED  BY <2>1, <2>2, <2>3, <2>4
<1> QED  BY <1>2, <1>3, <1>4, <1>5 DEF RecPays

\* The PUT: what the hub takes is waiting no more.
LEMMA PutSaves ==
  ASSUME ProtectedInv, SaveInv, RecPays, NEW k \in Keys, RecPut(k)
  PROVE  SaveInv' /\ RecPays'
<1>1. /\ IInv /\ RecKnows /\ rec.pc = "put" /\ mem.eng.pc = "idle"
      /\ rec.sha \in ghost.seen /\ UNCHANGED <<dev, mem>>
  BY DoingKnows DEF ProtectedInv, RecKnows, RecPut, Doing
<1>2. hub \in Hub /\ ghost \in Ghost /\ rec \in Recovery  BY <1>1, Parts DEF RecKnows
<1>3. CASE Matches(hub.object[k], rec.match)
  <2>1. /\ hub'.object = [hub.object EXCEPT ![k] = rec.sha] /\ Landed(rec.sha)
        /\ rec' \in {rec, NoRecovery, [rec EXCEPT !.pc = "commit"]}
    BY <1>3 DEF RecPut
  <2>2. rec'.pc \in {"put", "off"} \/ (rec'.pc = "commit" /\ rec'.sha = rec.sha)
    BY <1>1, <1>2, <2>1 DEF NoRecovery, Recovery
  <2>3. /\ Quieter /\ Paid /\ rec.sha \notin ghost'.unsent
        /\ ghost'.next = ghost.next /\ ghost'.seen = ghost.seen
        /\ ghost'.unsent \subseteq ghost.unsent
    BY <1>1, <1>2, <2>1 DEF Landed, Ghost, SaveInv, Past, Quieter, Paid, Owed
  <2>4. \A i \in Keys : hub'.object[i] \in {hub.object[i], rec.sha}
    BY <1>2, <2>1 DEF Hub
  <2>5. rec.sha \in 0..ghost.next - 1  BY <1>1, KnownBefore
  <2>6. /\ Safe(dev, ghost'.unsent, Owed') /\ Plan(dev, mem.eng, Owed')
        /\ Tracked(dev, Keys \ mem.unscanned, mem.unflushed, Owed')
    BY <1>1, <2>3, StillSafe
  <2>7. Uploaded(hub', mem, ghost'.unsent) /\ Past(hub', mem, ghost')
    BY <2>3, <2>4, <2>5 DEF SaveInv, Uploaded, InHand, Past
  <2>8. SaveInv'  BY <1>1, <2>6, <2>7 DEF SaveInv
  <2> QED  BY <2>2, <2>3, <2>8 DEF RecPays
<1>4. CASE ~ Matches(hub.object[k], rec.match)
  <2>1. UNCHANGED <<dev, mem, hub, ghost>> /\ NextFile
    BY <1>1, <1>4 DEF RecPut, GivenUp
  <2>2. SaveInv'  BY <2>1 DEF SaveInv, Owed
  <2> QED  BY <2>1, <2>2 DEF RecPays, NextFile, NoRecovery
<1> QED  BY <1>3, <1>4

\* The writes that settle a file: its bytes are on the hub, or were none.
\* Nothing owed is touched.
SettledOf(S, k, v) ==
  {d \in DeviceOf(S) :
     /\ d.file = [dev.file EXCEPT ![k] = v] /\ d.snaps = dev.snaps
     /\ \A i \in Keys : i # k => d.entry[i] = dev.entry[i] /\ d.base[i] = dev.base[i]
     /\ d.entry[k] \in {dev.entry[k], Hashed(v, "Clean")}
     /\ d.base[k] \in {dev.base[k], v}}

LEMMA SettledSaves ==
  ASSUME ProtectedInv, SaveInv, NEW k \in Keys, NEW v, v \notin ghost.unsent,
         dev.file[k] \in {None, v}, Quieter, ghost'.unsent = ghost.unsent,
         ghost'.exempt = ghost.exempt,
         NEW S, NEW steps \in Runs(SettledOf(S, k, v)),
         Last(steps).entry[k] = Hashed(v, "Clean"),
         mem.up, mem.eng.pc = "idle", Commit(steps, mem)
  PROVE  SaveInv'
<1> DEFINE O == Owed
<1>1. IInv  BY DEF ProtectedInv
<1>2. Owed' = O  BY DEF Owed
<1>3. v \notin O /\ None \notin ghost.unsent /\ None \notin O
  BY <1>1, GhostFacts DEF Owed
<1>4. DOMAIN dev.file = Keys  BY <1>1, Parts DEF DeviceOf
<1>5. ASSUME NEW d \in SettledOf(S, k, v)  PROVE d \in SafeOf(S)
  <2>1. d.file[k] = v /\ \A i \in Keys : i # k => d.file[i] = dev.file[i]
    BY <1>4 DEF SettledOf
  <2>2. FileOnce(d, ghost.unsent)  BY <2>1 DEF SaveInv, Safe, FileOnce
  <2>3. Held(d, O)
    BY <1>3, <2>1 DEF SaveInv, Safe, Held, SettledOf
  <2>4. Agreed(d, O)
    BY <1>3 DEF SaveInv, Safe, Agreed, SettledOf, Hashed
  <2> QED  BY <1>2, <2>2, <2>3, <2>4 DEF Safe, SafeOf, SettledOf
<1>6. steps \in Runs(SafeOf(S))  BY <1>5 DEF Runs
<1> DEFINE last == Last(steps)
<1>7. last \in SettledOf(S, k, v)  BY RunsRead
<1> HIDE DEF last
<1>8. Tracked(last, Keys \ mem.unscanned, mem.unflushed, O)
  <2> SUFFICES ASSUME NEW i \in Keys \ mem.unscanned
               PROVE  Names(last, i, O) /\ Tracks(last, i, mem.unflushed, O)
    BY DEF Tracked
  <2>1. CASE i = k
    <3>1. last.file[k] = v /\ last.entry[k] = Hashed(v, "Clean")
      BY <1>4, <1>7 DEF SettledOf, last
    <3> QED  BY <1>3, <2>1, <3>1 DEF Names, Tracks, Hashed
  <2>2. CASE i # k
    <3>1. /\ last.file[i] = dev.file[i] /\ last.entry[i] = dev.entry[i]
          /\ last.base[i] = dev.base[i]
      BY <1>4, <1>7, <2>2 DEF SettledOf
    <3>2. Names(dev, i, O) /\ Tracks(dev, i, mem.unflushed, O)
      BY DEF SaveInv, Tracked
    <3> QED  BY <3>1, <3>2 DEF Names, Tracks
  <2> QED  BY <2>1, <2>2
<1>9. Plan(last, mem.eng, O)  BY DEF Plan
<1>10. Sound(mem)
  <2>1. InHand(mem.eng, ghost'.unsent)  BY DEF SaveInv, Uploaded
  <2> QED  BY <1>1, <2>1, QuieterSound DEF SaveInv, Past
<1> QED  BY <1>1, <1>2, <1>6, <1>8, <1>9, <1>10, CommitSaves DEF last

\* The acknowledgement.
LEMMA AcknowledgeSaves ==
  ASSUME ProtectedInv, SaveInv, RecPays, NEW k \in Keys, RecCommit(k)
  PROVE  SaveInv' /\ RecPays'
<1> DEFINE S == ghost.seen
           v == rec.sha
<1>1. /\ IInv /\ RecKnows /\ rec.pc = "commit" /\ mem.up /\ mem.eng.pc = "idle"
      /\ v \in S /\ v = rec.stamp /\ v \notin ghost.unsent /\ UNCHANGED ghost /\ NextFile
  BY DoingKnows DEF ProtectedInv, RecKnows, RecPays, RecCommit, Doing
<1>2. RecPays'  BY <1>1 DEF RecPays, NextFile, NoRecovery
<1>3. Quieter /\ Paid  BY <1>1, SameGhost
<1>4. CASE Stale(k)
  <2>1. Commit(<<dev>>, mem)  BY <1>4 DEF RecCommit
  <2>2. Plan(dev, mem.eng, Owed')  BY <1>1, <1>3, StillSafe
  <2>3. Sound(mem)
    <3>1. InHand(mem.eng, ghost'.unsent)  BY <1>1 DEF SaveInv, Uploaded
    <3> QED  BY <1>1, <1>3, <3>1, QuieterSound DEF SaveInv, Past
  <2>4. SaveInv'  BY <1>1, <1>3, <2>1, <2>2, <2>3, SameRuns, SameCommit
  <2> QED  BY <1>2, <2>4
<1>5. CASE ~ Stale(k)
  <2> DEFINE d1 == SetBase(dev, k, v)
             d2 == SetEntry(d1, k, Hashed(v, "Clean"))
             gone == {j \in dev.jobs : j.key = k /\ j.kind \in {"Push", "Conflict"}}
             d3 == [d2 EXCEPT !.jobs = Dequeue(@, gone)]
             d4 == SetConflict(d3, k, None)
             d5 == SetPending(d4, k, None)
             D  == SettledOf(S, k, v)
  <2>1. dev \in DeviceOf(S) /\ dev.file[k] = v /\ DOMAIN dev.file = Keys
    BY <1>1, <1>5, Parts DEF Stale, DeviceOf
  <2>2. dev.file = [dev.file EXCEPT ![k] = v]
    <3>1. dev.file \in [Keys -> S \cup {None}]  BY <2>1 DEF DeviceOf
    <3> QED  BY <2>1, <3>1
  <2>3. d1 \in D /\ d1.entry = dev.entry /\ d1.base[k] = v /\ d1.jobs = dev.jobs
    <3>1. d1 \in DeviceOf(S)  BY <1>1, <2>1, SetBaseDevice
    <3>2. /\ d1.file = dev.file /\ d1.snaps = dev.snaps /\ d1.entry = dev.entry
          /\ d1.base = [dev.base EXCEPT ![k] = v] /\ DOMAIN dev.base = Keys
          /\ d1.jobs = dev.jobs
      BY <2>1 DEF SetBase, DeviceOf
    <3> HIDE DEF d1
    <3> QED  BY <2>2, <3>1, <3>2 DEF SettledOf
  <2> HIDE DEF d1
  <2>4. d2 \in D /\ d2.entry[k] = Hashed(v, "Clean") /\ d2.jobs = dev.jobs
    <3>1. d1 \in DeviceOf(S) /\ Hashed(v, "Clean") \in EntryOf(S)
      BY <1>1, <2>3, EntryValues DEF SettledOf
    <3>2. d2 \in DeviceOf(S)  BY <3>1, SetEntryDevice
    <3>3. /\ d2.file = d1.file /\ d2.snaps = d1.snaps /\ d2.base = d1.base
          /\ d2.entry = [d1.entry EXCEPT ![k] = Hashed(v, "Clean")]
          /\ DOMAIN d1.entry = Keys /\ d2.jobs = d1.jobs
      BY <3>1 DEF SetEntry, DeviceOf
    <3> HIDE DEF d2
    <3> QED  BY <2>3, <3>2, <3>3 DEF SettledOf
  <2> HIDE DEF d2
  <2>5. d3 \in DeviceOf(S) /\ SameBytes(d2, d3)
    <3>1. d2 \in DeviceOf(S) /\ dev.jobs \in SUBSET JobOf(S)
      BY <2>1, <2>4, DeviceReads DEF SettledOf
    <3>2. Dequeue(dev.jobs, gone) \in SUBSET JobOf(S)  BY <3>1, DequeueJobs
    <3>3. d3 = [d2 EXCEPT !.jobs = Dequeue(dev.jobs, gone)]  BY <2>4
    <3>4. [d2 EXCEPT !.jobs = Dequeue(dev.jobs, gone)] \in DeviceOf(S)
      BY <3>1, <3>2, SetJobsDevice
    <3> QED  BY <3>1, <3>3, <3>4 DEF SameBytes, DeviceOf
  <2> HIDE DEF d3
  <2>6. d4 \in DeviceOf(S) /\ SameBytes(d2, d4)
    <3>1. d4 \in DeviceOf(S) /\ SameBytes(d3, d4)  BY <2>5, SetRecordDevice, RecordBytes
    <3> QED  BY <2>5, <3>1 DEF SameBytes
  <2> HIDE DEF d4
  <2>7. d5 \in DeviceOf(S) /\ SameBytes(d2, d5)
    <3>1. d5 \in DeviceOf(S) /\ SameBytes(d4, d5)  BY <2>6, SetRecordDevice, RecordBytes
    <3> QED  BY <2>6, <3>1 DEF SameBytes
  <2> HIDE DEF d5
  <2>8. d3 \in D /\ d4 \in D /\ d5 \in D /\ d5.entry[k] = Hashed(v, "Clean")
    BY ZenonT(60), <2>4, <2>5, <2>6, <2>7 DEF SettledOf, SameBytes
  <2>9. RecPushed(dev, k, v) = <<d1, d2, d3, d4, d5>>
    BY DEF RecPushed, d1, d2, d3, d4, d5
  <2> HIDE DEF D
  <2>10. <<d1, d2, d3, d4, d5>> \in Runs(D) /\ Last(<<d1, d2, d3, d4, d5>>) = d5
    BY <2>3, <2>4, <2>8, RunsFive
  <2>11. Commit(RecPushed(dev, k, v), mem)  BY <1>5 DEF RecCommit
  <2>12. SaveInv'
    BY <1>1, <1>3, <2>1, <2>8, <2>9, <2>10, <2>11, SettledSaves DEF D
  <2> QED  BY <1>2, <2>12
<1> QED  BY <1>4, <1>5

\* The landing, in the slot found empty again: what lands came from the hub.
LEMMA LandSaves ==
  ASSUME ProtectedInv, SaveInv, RecPays, NEW k \in Keys, RecLand(k)
  PROVE  SaveInv' /\ RecPays'
<1> DEFINE S == ghost.seen \cup {rec.sha}
           v == rec.sha
<1>1. /\ IInv /\ RecKnows /\ rec.pc = "land" /\ mem.up /\ mem.eng.pc = "idle"
      /\ v \in Version /\ rec.stamp = None /\ v \notin ghost.unsent
      /\ v \in 0..ghost.next - 1 /\ NextFile
  BY DoingKnows DEF ProtectedInv, RecKnows, RecPays, RecLand, Doing
<1>2. RecPays'  BY <1>1 DEF RecPays, NextFile, NoRecovery
<1>3. CASE Stale(k)
  <2>1. Commit(<<dev>>, mem) /\ UNCHANGED ghost  BY <1>3 DEF RecLand
  <2>2. Quieter /\ Paid  BY <1>1, <2>1, SameGhost
  <2>3. Plan(dev, mem.eng, Owed')  BY <1>1, <2>2, StillSafe
  <2>4. Sound(mem)
    <3>1. InHand(mem.eng, ghost'.unsent)  BY <2>1 DEF SaveInv, Uploaded
    <3> QED  BY <1>1, <2>2, <3>1, QuieterSound DEF SaveInv, Past
  <2>5. SaveInv'  BY <1>1, <2>1, <2>2, <2>3, <2>4, SameRuns, SameCommit
  <2> QED  BY <1>2, <2>5
<1>4. CASE ~ Stale(k)
  <2> DEFINE d1 == SetFile(dev, k, v)
             d2 == SetEntry(d1, k, Hashed(v, "Clean"))
             d3 == SetBase(d2, k, v)
             d4 == RemoveJobsFor(d3, k)
             D  == SettledOf(S, k, v)
  <2>1. /\ Commit(RecPulled(dev, k, v), mem)
        /\ ghost' = [ghost EXCEPT !.seen = @ \cup {v}]
    BY <1>4 DEF RecLand
  <2>2. dev \in DeviceOf(S) /\ dev.file[k] = None /\ v \in S
    BY <1>1, <1>4, Parts, DeviceGrows DEF Stale
  <2>3. /\ Quieter /\ ghost'.unsent = ghost.unsent /\ ghost'.exempt = ghost.exempt
    BY <1>1, <2>1, Parts, KnownBefore DEF Quieter, Ghost
  <2>4. d1 \in D
    <3>1. d1 \in DeviceOf(S)  BY <2>2, SetFileDevice
    <3>2. /\ d1.file = [dev.file EXCEPT ![k] = v] /\ d1.snaps = dev.snaps
          /\ d1.entry = dev.entry /\ d1.base = dev.base
      BY <2>2 DEF SetFile, DeviceOf
    <3> HIDE DEF d1
    <3> QED  BY <3>1, <3>2 DEF SettledOf
  <2> HIDE DEF d1
  <2>5. d2 \in D /\ d2.entry[k] = Hashed(v, "Clean")
    <3>1. d1 \in DeviceOf(S) /\ Hashed(v, "Clean") \in EntryOf(S)
      BY <2>2, <2>4, EntryValues DEF SettledOf
    <3>2. d2 \in DeviceOf(S)  BY <3>1, SetEntryDevice
    <3>3. /\ d2.file = d1.file /\ d2.snaps = d1.snaps /\ d2.base = d1.base
          /\ d2.entry = [d1.entry EXCEPT ![k] = Hashed(v, "Clean")]
          /\ DOMAIN d1.entry = Keys
      BY <3>1 DEF SetEntry, DeviceOf
    <3> HIDE DEF d2
    <3> QED  BY <2>4, <3>2, <3>3 DEF SettledOf
  <2> HIDE DEF d2
  <2>6. d3 \in D /\ d3.entry[k] = Hashed(v, "Clean")
    <3>1. d2 \in DeviceOf(S)  BY <2>5 DEF SettledOf
    <3>2. d3 \in DeviceOf(S)  BY <2>2, <3>1, SetBaseDevice
    <3>3. /\ d3.file = d2.file /\ d3.snaps = d2.snaps /\ d3.entry = d2.entry
          /\ d3.base = [d2.base EXCEPT ![k] = v] /\ DOMAIN d2.base = Keys
      BY <3>1 DEF SetBase, DeviceOf
    <3> HIDE DEF d3
    <3> QED  BY <2>5, <3>2, <3>3 DEF SettledOf
  <2> HIDE DEF d3
  <2>7. d4 \in D /\ d4.entry[k] = Hashed(v, "Clean")
    <3>1. d3 \in DeviceOf(S)  BY <2>6 DEF SettledOf
    <3>2. d4 \in DeviceOf(S)  BY <3>1, RemoveJobsForDevice
    <3>3. /\ d4.file = d3.file /\ d4.snaps = d3.snaps /\ d4.entry = d3.entry
          /\ d4.base = d3.base
      BY <3>1 DEF RemoveJobsFor, DeviceOf
    <3> HIDE DEF d4
    <3> QED  BY <2>6, <3>2, <3>3 DEF SettledOf
  <2> HIDE DEF d4
  <2>8. RecPulled(dev, k, v) = <<d1, d2, d3, d4>>
    BY DEF RecPulled, d1, d2, d3, d4
  <2> HIDE DEF D
  <2>9. <<d1, d2, d3, d4>> \in Runs(D) /\ Last(<<d1, d2, d3, d4>>) = d4
    BY <2>4, <2>5, <2>6, <2>7, RunsFour
  <2>10. SaveInv'
    BY <1>1, <2>1, <2>2, <2>3, <2>7, <2>8, <2>9, SettledSaves DEF D
  <2> QED  BY <1>2, <2>10
<1> QED  BY <1>3, <1>4

\* The process dies, and the mount comes back without the option.
LEMMA RemountSaves ==
  ASSUME ProtectedInv, SaveInv, CrashInRecovery \/ Resume
  PROVE  SaveInv' /\ RecPays'
<1>1. IInv /\ RecKnows  BY DEF ProtectedInv
<1>2. CASE CrashInRecovery
  BY <1>1, <1>2, ProcessCrashSaves DEF CrashInRecovery, RecPays, NoRecovery
<1>3. CASE Resume
  <2>1. /\ rec' = rec /\ rec.pc = "off" /\ mem' = Booting /\ UNCHANGED <<dev, hub, ghost>>
    BY <1>1, <1>3 DEF Resume, BetweenCycles, RecKnows
  <2>2. Quieter /\ Paid  BY <1>1, <2>1, SameGhost
  <2>3. Safe(dev', ghost'.unsent, Owed')  BY <1>1, <2>1, <2>2, StillSafe
  <2>4. SaveInv'  BY <1>1, <2>1, <2>2, <2>3, RestartSaves
  <2> QED  BY <2>1, <2>4 DEF RecPays
<1> QED  BY <1>2, <1>3

(***************************************************************************)
(* The specification.                                                      *)
(***************************************************************************)
\* The invariant is inductive.
LEMMA ProtectedNextSaves ==
  ProtectedInv /\ SaveInv /\ RecPays /\ [ProtectedNext]_allVars => SaveInv' /\ RecPays'
<1> SUFFICES ASSUME ProtectedInv, SaveInv, RecPays, [ProtectedNext]_allVars
             PROVE  SaveInv' /\ RecPays'
  OBVIOUS
<1>1. CASE UNCHANGED allVars
  BY <1>1 DEF allVars, vars, SaveInv, Owed, RecPays
<1>2. ASSUME NEW k \in Keys, RecCommit(k) \/ RecLand(k)
      PROVE  SaveInv' /\ RecPays'
  BY <1>2, AcknowledgeSaves, LandSaves
<1>3. ASSUME NEW k \in Keys, Users(k) \/ Take(k) \/ RecHead(k) \/ RecPut(k) \/ RecGet(k)
      PROVE  SaveInv' /\ RecPays'
  BY <1>3, UsersSave, AskSaves, PutSaves
<1>4. CASE StartPushLocal \/ StartPullRemote \/ EndRecovery
  BY <1>4, RestSaves
<1>5. CASE Engine \/ CrashInRecovery \/ Resume
  BY <1>5, EngineSaves, RemountSaves
<1> QED  BY <1>1, <1>2, <1>3, <1>4, <1>5 DEF ProtectedNext

\* The invariant holds from the start and is never lost.
LEMMA ProtectedSavesHold == ProtectedSpec => [](IInv /\ SaveInv)
<1>1. ProtectedInv /\ SaveInv /\ RecPays /\ [ProtectedNext]_allVars => SaveInv' /\ RecPays'
  BY ProtectedNextSaves
<1>2. ProtectedSpec => [](ProtectedInv /\ SaveInv)
  BY <1>1, ProtectedInvariant, ProtectedInitSaves, PTL DEF ProtectedSpec
<1>3. ProtectedInv => IInv  BY DEF ProtectedInv
<1> QED  BY <1>2, <1>3, PTL

\* A recovery push or pull, whatever comes between its HEAD, its PUT or GET and
\* what it writes down, and the remount without --protected lose no save that
\* is owed (mirror/recovery.rs, push_recovery_file and pull_recovery_file).
THEOREM ProtectedNoSaveLost == ProtectedSpec => []NoSaveLost
BY SavesKept, ProtectedSavesHold, PTL

\* Nor do they take one for a synced file: a file saved after a recovery had
\* taken its snapshot is still Dirty when the recovery acknowledges it.
THEOREM ProtectedSavesTracked == ProtectedSpec => []SavesAreTracked
BY SavesTracked, ProtectedSavesHold, PTL


(***************************************************************************)
(* What a push and a pull leave: the files of one side are those of the    *)
(* other, and the ledger says so.  It lasts because a protected engine     *)
(* then only fetches what has no file here.                                *)
(***************************************************************************)
\* The file of k, if there is one, is the hub's, and the ledger's.
Even(d, objects, k) ==
  d.file[k] # None => /\ objects[k] = d.file[k]
                      /\ d.base[k] = d.file[k]
                      /\ d.entry[k] = Hashed(d.file[k], "Clean")

Evened(d, objects) == \A k \in Keys : Even(d, objects, k)

\* From d to e nothing happened to a file, and where there was none at most the
\* hub's object was brought in.
Fetched(d, e, objects) ==
  \A k \in Keys :
    \/ /\ e.file[k] = d.file[k]
       /\ d.file[k] # None => e.entry[k] = d.entry[k] /\ e.base[k] = d.base[k]
    \/ /\ d.file[k] = None
       /\ e.file[k] = objects[k] /\ e.base[k] = objects[k]
       /\ e.entry[k] = Hashed(objects[k], "Clean")

\* Even files stay even.
LEMMA EvenedStays ==
  ASSUME NEW d, NEW e, NEW objects, Evened(d, objects), Fetched(d, e, objects)
  PROVE  Evened(e, objects)
BY DEF Evened, Even, Fetched

\* The devices that say the same as d of every file there is.
SpareOf(d) ==
  {e \in Device : /\ e.file = d.file
                  /\ \A k \in Keys : d.file[k] # None
                       => e.entry[k] = d.entry[k] /\ e.base[k] = d.base[k]}

\* A device is one of them.
LEMMA SpareSelf == \A d \in Device : d \in SpareOf(d)
BY DEF SpareOf

\* To become one of them is to fetch nothing.
LEMMA SpareFetches ==
  ASSUME NEW d, NEW e \in SpareOf(d), NEW objects
  PROVE  Fetched(d, e, objects) /\ e.file = d.file
BY DEF SpareOf, Fetched

\* And what has the bytes of one of them is one.
LEMMA SpareSame ==
  ASSUME NEW d, NEW e \in SpareOf(d), NEW f \in Device, SameBytes(e, f)
  PROVE  f \in SpareOf(d)
BY DEF SpareOf, SameBytes

\* The queue.
LEMMA SpareQueue ==
  ASSUME NEW d, NEW e \in SpareOf(d), NEW k \in Keys, NEW id \in JobId
  PROVE  /\ RemoveJobsFor(e, k) \in SpareOf(d)
         /\ Enqueue(e, id, None, None) \in SpareOf(d)
         /\ EnsureJob(e, id, None) \in SpareOf(d)
<1>1. e \in DeviceOf(Version)  BY DEF SpareOf, Device
<1>2. /\ RemoveJobsFor(e, k) \in Device /\ Enqueue(e, id, None, None) \in Device
      /\ EnsureJob(e, id, None) \in Device
  BY <1>1, RemoveJobsForDevice, EnqueueDevice, EnsureJobDevice DEF Device
<1>3. /\ SameBytes(e, RemoveJobsFor(e, k)) /\ SameBytes(e, Enqueue(e, id, None, None))
      /\ SameBytes(e, EnsureJob(e, id, None))
  BY <1>1, QueueBytes
<1> QED  BY <1>2, <1>3, SpareSame

\* The job that runs.
LEMMA SpareDone ==
  ASSUME NEW d, NEW e \in SpareOf(d)
  PROVE  /\ Done(e) \in SpareOf(d) /\ Unmark(e) \in SpareOf(d)
         /\ \A j \in e.jobs : Mark(e, j) \in SpareOf(d)
<1>1. e \in DeviceOf(Version)  BY DEF SpareOf, Device
<1>2. /\ Done(e) \in Device /\ Unmark(e) \in Device
      /\ \A j \in e.jobs : Mark(e, j) \in Device
  BY <1>1, DoneDevice, MarkDevice DEF Device
<1>3. /\ SameBytes(e, Done(e)) /\ SameBytes(e, Unmark(e))
      /\ \A j \in e.jobs : SameBytes(e, Mark(e, j))
  BY <1>1, QueueBytes
<1> QED  BY <1>2, <1>3, SpareSame

\* What the ledger says of a key without a file.
LEMMA SpareSet ==
  ASSUME NEW d, NEW e \in SpareOf(d), NEW k \in Keys, d.file[k] = None
  PROVE  /\ \A r \in Entry : SetEntry(e, k, r) \in SpareOf(d)
         /\ \A s \in EntryStates : SetState(e, k, s) \in SpareOf(d)
         /\ \A b \in Stored : SetBase(e, k, b) \in SpareOf(d)
<1>1. e \in DeviceOf(Version)  BY DEF SpareOf, Device
<1>2. ASSUME NEW r \in Entry  PROVE SetEntry(e, k, r) \in SpareOf(d)
  <2>1. SetEntry(e, k, r) \in Device  BY <1>1, SetEntryDevice DEF Device, Entry
  <2> QED  BY <1>1, <2>1 DEF SpareOf, SetEntry, DeviceOf
<1>3. ASSUME NEW b \in Stored  PROVE SetBase(e, k, b) \in SpareOf(d)
  <2>1. b \in Version \cup {None, Unhashed}  BY DEF Stored, Digest
  <2>2. SetBase(e, k, b) \in Device  BY <1>1, <2>1, SetBaseDevice DEF Device
  <2> QED  BY <1>1, <2>2 DEF SpareOf, SetBase, DeviceOf
<1>4. ASSUME NEW s \in EntryStates  PROVE SetState(e, k, s) \in SpareOf(d)
  <2>1. [e.entry[k] EXCEPT !.state = s] \in Entry  BY SMTT(60), <1>1 DEF DeviceOf, EntryOf, Entry
  <2> QED  BY <1>2, <2>1 DEF SetState
<1> QED  BY <1>2, <1>3, <1>4

\* What a handler writes down of a key without a file.
LEMMA SpareSteps ==
  ASSUME NEW d \in Device, NEW k \in Keys, d.file[k] = None
  PROVE  /\ Last(NoteGone(d, k)) \in SpareOf(d)
         /\ Last(AdoptSteps(d, k)) \in SpareOf(d)
         /\ Last(RepushSteps(d, k, None)) \in SpareOf(d)
<1>1. d \in SpareOf(d) /\ d \in DeviceOf(Version)  BY SpareSelf DEF Device
<1>2. NoEntry \in Entry /\ None \in Stored  BY EntryValues DEF Entry, Stored, Digest
<1>3. PushId(k) \in JobId /\ DeleteId(k) \in JobId  BY IdsOfKeys
<1>4. Last(NoteGone(d, k)) \in SpareOf(d)
  <2> DEFINE d1 == RemoveJobsFor(d, k)
             d2 == SetState(d1, k, "Tombstone")
             d3 == Enqueue(d2, DeleteId(k), None, None)
             forgot == SetEntry(d1, k, NoEntry)
             last == SetBase(forgot, k, None)
  <2>1. d1 \in SpareOf(d)  BY <1>1, <1>3, SpareQueue
  <2> HIDE DEF d1
  <2>2. d2 \in SpareOf(d) /\ forgot \in SpareOf(d)
    BY <1>2, <2>1, SpareSet DEF EntryStates
  <2> HIDE DEF d2, forgot
  <2>3. d3 \in SpareOf(d)  BY <1>3, <2>2, SpareQueue
  <2>4. last \in SpareOf(d)  BY <1>2, <2>2, SpareSet
  <2> HIDE DEF d3, last
  <2>5. \/ NoteGone(d, k) = <<d>>
        \/ NoteGone(d, k) = <<d1, d2, d3>>
        \/ NoteGone(d, k) = <<d1, forgot, last>>
    BY DEF NoteGone, d1, d2, d3, forgot, last
  <2>6. Last(<<d>>) = d /\ Last(<<d1, d2, d3>>) = d3 /\ Last(<<d1, forgot, last>>) = last
    BY DEF Last
  <2> QED  BY <1>1, <2>3, <2>4, <2>5, <2>6
<1>5. Last(AdoptSteps(d, k)) \in SpareOf(d)
  <2> DEFINE e  == d.entry[k]
             b  == IF e.state = "Absent" THEN None ELSE EntryDigest(e)
             d1 == SetBase(d, k, b)
             d2 == IF e.state = "Absent" THEN d1 ELSE SetState(d1, k, "Clean")
             d3 == RemoveJobsFor(d2, k)
  <2>1. b \in Stored
    BY <1>1, <1>2, DeviceReads, EntryReads DEF Stored, Digest
  <2> HIDE DEF b
  <2>2. d1 \in SpareOf(d)  BY <1>1, <2>1, SpareSet
  <2> HIDE DEF d1
  <2>3. d2 \in SpareOf(d)  BY <2>2, SpareSet DEF EntryStates
  <2> HIDE DEF d2
  <2>4. d3 \in SpareOf(d)  BY <1>3, <2>3, SpareQueue
  <2> HIDE DEF d3
  <2>5. AdoptSteps(d, k) = <<d1, d2, d3>>  BY DEF AdoptSteps, d1, d2, d3, b
  <2> QED  BY <2>4, <2>5 DEF Last
<1>6. Last(RepushSteps(d, k, None)) \in SpareOf(d)
  <2> DEFINE d1 == SetBase(d, k, None)
             d2 == SetState(d1, k, "Dirty")
             d3 == EnsureJob(d2, PushId(k), None)
  <2>1. d1 \in SpareOf(d)  BY <1>1, <1>2, SpareSet
  <2> HIDE DEF d1
  <2>2. d2 \in SpareOf(d)  BY <2>1, SpareSet DEF EntryStates
  <2> HIDE DEF d2
  <2>3. d3 \in SpareOf(d)  BY <1>3, <2>2, SpareQueue
  <2> HIDE DEF d3
  <2>4. RepushSteps(d, k, None) = <<d1, d2, d3>>  BY DEF RepushSteps, d1, d2, d3
  <2> QED  BY <2>3, <2>4 DEF Last
<1> QED  BY <1>4, <1>5, <1>6

\* A scan finds nothing to do where the entry is even with the file.
LEMMA SpareScan ==
  ASSUME NEW d \in Device, NEW k \in Keys, NEW objects, Even(d, objects, k)
  PROVE  Last(ScanSteps(d, k)) \in SpareOf(d)
<1>1. d \in SpareOf(d)  BY SpareSelf
<1>2. CASE d.file[k] = None
  <2>1. ScanSteps(d, k) \in {<<d>>, NoteGone(d, k)}  BY <1>2 DEF ScanSteps
  <2>2. Last(<<d>>) = d  BY DEF Last
  <2> QED  BY <1>1, <1>2, <2>1, <2>2, SpareSteps
<1>3. CASE d.file[k] # None
  <2>1. LocalDigest(d.entry[k]) = d.file[k]
    BY <1>3 DEF Even, Hashed, LocalDigest, Live, EntryDigest
  <2>2. ScanSteps(d, k) = <<d>>  BY <1>3, <2>1 DEF ScanSteps
  <2> QED  BY <1>1, <2>2 DEF Last
<1> QED  BY <1>2, <1>3

\* This device is one.
LEMMA DevIsDevice == IInv => dev \in Device
BY Parts, DeviceGrows DEF Device

\* What the engine plans is what the hub holds, and no handle is open.
Listens(objects, m) ==
  m.open = {} /\ \A k \in m.listing.todo : m.listing.remote[k] = objects[k]

\* It only fetches: no request is out, no snapshot is of a file.
FetchOnly(d, objects, e) ==
  /\ e.pc \in {"idle", "head", "pull", "get", "land", "scan", "snap"}
  /\ e.pc = "head" => e.reply = objects[e.key]
  /\ e.pc = "land" => e.sha = objects[e.key]
  /\ e.pc = "snap" => d.file[e.key] = None

Fetches(d, objects, m) == Listens(objects, m) /\ FetchOnly(d, objects, m.eng)

\* What a step of it leaves: more of the same.
FetchStep ==
  /\ Fetched(dev, dev', hub.object)
  /\ Fetches(dev', hub.object, mem')

\* A handler without a file to write, that goes on to fetch.
LEMMA SpareCommit ==
  ASSUME IInv, faults' = faults, NEW steps, NEW m, Commit(steps, m),
         Last(steps) \in SpareOf(dev), Listens(hub.object, m),
         FetchOnly(dev, hub.object, m.eng)
  PROVE  FetchStep
<1>1. dev' \in SpareOf(dev) /\ mem' = m  BY FaultlessCommit
<1>2. Fetched(dev, dev', hub.object) /\ dev'.file = dev.file  BY <1>1, SpareFetches
<1> QED  BY <1>1, <1>2 DEF FetchStep, Fetches, FetchOnly

\* The same, when it ends there.
LEMMA SpareFinish ==
  ASSUME IInv, faults' = faults, NEW steps \in StepsOf(Version),
         NEW m \in MemoryOf(ghost.seen), Finish(steps, m),
         Last(steps) \in SpareOf(dev), Listens(hub.object, m)
  PROVE  FetchStep
<1> DEFINE d == Done(Last(steps))
           all == Append(steps, d)
           n == [m EXCEPT !.eng = Idle]
<1>1. n.eng = Idle /\ Listens(hub.object, n)  BY DEF MemoryOf, Listens
<1>2. Commit(all, n)  BY DEF Finish
<1>3. d \in SpareOf(dev)  BY SpareDone
<1>4. Last(all) = d
  <2>1. steps \in Seq(DeviceOf(Version))  BY DEF StepsOf
  <2> HIDE DEF d
  <2>2. Len(all) = Len(steps) + 1 /\ all[Len(steps) + 1] = d  BY <2>1
  <2> QED  BY <2>2 DEF Last
<1>5. FetchOnly(dev, hub.object, Idle)  BY DEF FetchOnly, Idle
<1> HIDE DEF d, all, n
<1> QED  BY <1>1, <1>2, <1>3, <1>4, <1>5, SpareCommit

\* Nothing written, nothing more to do.
LEMMA FetchStop ==
  ASSUME IInv, faults' = faults, NEW m \in MemoryOf(ghost.seen), Finish(<<dev>>, m),
         Listens(hub.object, m)
  PROVE  FetchStep
<1>1. Last(<<dev>>) = dev  BY DEF Last
<1>2. dev \in Device  BY DevIsDevice
<1>3. <<dev>> \in StepsOf(Version)  BY <1>2, StepsOne DEF Device
<1> QED  BY <1>1, <1>2, <1>3, SpareSelf, SpareFinish

\* Nothing written, on to the next place.
LEMMA FetchEngage ==
  ASSUME IInv, faults' = faults, NEW e, Listens(hub.object, mem),
         Commit(<<dev>>, Engage(e)), FetchOnly(dev, hub.object, e)
  PROVE  FetchStep
<1>1. Last(<<dev>>) = dev  BY DEF Last
<1>2. dev \in SpareOf(dev)  BY DevIsDevice, SpareSelf
<1>3. Engage(e).eng = e /\ Listens(hub.object, Engage(e))
  BY Parts DEF Engage, MemoryOf, Listens
<1> QED  BY <1>1, <1>2, <1>3, SpareCommit

\* A protected mount whose files are even with the hub, and an engine that
\* only fetches.
EngineCalm ==
  /\ IInv /\ faults' = faults /\ Harmless(mem.eng)
  /\ Evened(dev, hub.object) /\ Fetches(dev, hub.object, mem)

\* A scan, whatever memory it leaves.
LEMMA ScanFetches ==
  ASSUME EngineCalm, NEW k \in Keys, NEW m \in MemoryOf(ghost.seen), Scan(k, m),
         Listens(hub.object, m)
  PROVE  FetchStep
<1>1. IInv /\ faults' = faults  BY DEF EngineCalm
<1>2. CASE k \in mem.open
  BY <1>1, <1>2, FetchStop DEF Scan
<1>3. CASE k \notin mem.open
  <2> DEFINE n == [m EXCEPT !.skipped = @ \ {k}]
  <2>1. n \in MemoryOf(ghost.seen) /\ Listens(hub.object, n)  BY DEF MemoryOf, Listens
  <2>2. Finish(ScanSteps(dev, k), n)  BY <1>3 DEF Scan
  <2>3. dev \in Device  BY <1>1, DevIsDevice
  <2>4. ScanSteps(dev, k) \in StepsOf(Version)  BY <2>3, ScanStepsSteps DEF Device
  <2>5. Last(ScanSteps(dev, k)) \in SpareOf(dev)
    BY <2>3, SpareScan DEF EngineCalm, Evened
  <2> HIDE DEF n
  <2> QED  BY <1>1, <2>1, <2>2, <2>4, <2>5, SpareFinish
<1> QED  BY <1>2, <1>3

\* The three places a key is scanned from.
LEMMA ScansFetch ==
  ASSUME EngineCalm, NEW k \in Keys, StartupScan(k) \/ ScanKey(k) \/ ScanAgain(k)
  PROVE  FetchStep
<1>1. mem \in MemoryOf(ghost.seen) /\ Listens(hub.object, mem)
  BY Parts DEF EngineCalm, Fetches
<1>2. CASE StartupScan(k)
  <2> DEFINE left == mem.unscanned \ {k}
             m == [mem EXCEPT !.unscanned = left, !.up = left = {}]
  <2>1. m \in MemoryOf(ghost.seen) /\ Listens(hub.object, m)
    BY <1>1 DEF MemoryOf, Listens
  <2>2. Scan(k, m)  BY <1>2 DEF StartupScan
  <2> QED  BY <2>1, <2>2, ScanFetches
<1>3. CASE ScanKey(k)
  BY <1>1, <1>3, ScanFetches DEF ScanKey
<1>4. CASE ScanAgain(k)
  <2> DEFINE m == [mem EXCEPT !.recheck = @ \cup {k}]
  <2>1. m \in MemoryOf(ghost.seen) /\ Listens(hub.object, m)
    BY <1>1 DEF MemoryOf, Listens
  <2>2. Scan(k, m)  BY <1>4 DEF ScanAgain
  <2> QED  BY <2>1, <2>2, ScanFetches
<1> QED  BY <1>2, <1>3, <1>4

\* Choosing what to ask about: what it is told, the hub holds.
LEMMA AskFetches ==
  ASSUME EngineCalm,
         \/ StartListing
         \/ \E k \in Keys : RecoverJob(k) \/ NextChange(k) \/ NextRecheck(k) \/ NextListed(k)
  PROVE  FetchStep
<1>1. /\ mem \in MemoryOf(ghost.seen) /\ Listens(hub.object, mem) /\ IInv
      /\ dev \in Device /\ FetchOnly(dev, hub.object, mem.eng)
  BY Parts, DevIsDevice DEF EngineCalm, Fetches
<1>2. mem.listing \in Listing  BY <1>1 DEF MemoryOf
<1>3. ASSUME NEW k \in Keys, RecoverJob(k)
      PROVE  FetchStep
  <2>1. mem' = mem /\ mem.eng.pc = "idle"  BY <1>3 DEF RecoverJob, Free
  <2>2. dev' \in SpareOf(dev)
    BY <1>1, <1>3, IdsOfKeys, SpareSelf, SpareQueue DEF RecoverJob, EnqueuePush
  <2> QED  BY <1>1, <2>1, <2>2, SpareFetches DEF FetchStep, Fetches, FetchOnly
<1>4. ASSUME dev' = dev, Listens(hub.object, mem'), FetchOnly(dev, hub.object, mem'.eng)
      PROVE  FetchStep
  BY <1>1, <1>4, SpareSelf, SpareFetches DEF FetchStep, Fetches
<1>5. ASSUME NEW k, NEW r, NEW src
      PROVE  /\ [Told(k, r) EXCEPT !.src = src].pc = "head"
             /\ [Told(k, r) EXCEPT !.src = src].key = k
             /\ [Told(k, r) EXCEPT !.src = src].reply = r
             /\ Told(k, r).pc = "head" /\ Told(k, r).key = k /\ Told(k, r).reply = r
  BY DEF Told, At, Idle
<1>6. CASE StartListing
  <2>1. /\ mem'.open = mem.open /\ mem'.eng = mem.eng
        /\ mem'.listing = [todo |-> Keys, remote |-> hub.object, touched |-> {}]
        /\ dev' = dev
    BY <1>1, <1>6 DEF StartListing, MemoryOf
  <2>2. Listens(hub.object, mem')  BY <1>1, <2>1 DEF Listens
  <2> QED  BY <1>1, <1>4, <2>1, <2>2
<1>7. ASSUME NEW k \in Keys, NextChange(k) \/ NextRecheck(k)
      PROVE  FetchStep
  <2>1. PICK src : /\ mem'.eng = [Told(k, hub.object[k]) EXCEPT !.src = src]
                   /\ mem'.open = mem.open /\ mem'.listing = mem.listing /\ dev' = dev
    BY <1>1, <1>7 DEF NextChange, NextRecheck, Engage, MemoryOf
  <2>2. Listens(hub.object, mem')  BY <1>1, <2>1 DEF Listens
  <2>3. FetchOnly(dev, hub.object, mem'.eng)  BY <1>5, <2>1 DEF FetchOnly
  <2> QED  BY <1>4, <2>1, <2>2, <2>3
<1>8. ASSUME NEW k \in Keys, NextListed(k)
      PROVE  FetchStep
  <2>1. /\ mem'.eng = Idle \/ mem'.eng = Told(k, mem.listing.remote[k])
        /\ mem'.open = mem.open /\ dev' = dev
        /\ mem'.listing.todo = mem.listing.todo \ {k}
        /\ mem'.listing.remote = [mem.listing.remote EXCEPT ![k] = None]
        /\ k \in mem.listing.todo
    BY <1>1, <1>8 DEF NextListed, MemoryOf
  <2>2. Listens(hub.object, mem')  BY <1>1, <1>2, <2>1 DEF Listens, Listing
  <2>3. mem.listing.remote[k] = hub.object[k]  BY <1>1, <2>1 DEF Listens
  <2>4. Idle.pc = "idle"  BY DEF Idle
  <2>5. FetchOnly(dev, hub.object, mem'.eng)  BY <1>5, <2>1, <2>3, <2>4 DEF FetchOnly
  <2> QED  BY <1>4, <2>1, <2>2, <2>5
<1> QED  BY <1>3, <1>6, <1>7, <1>8

\* run_push, up to the snapshot: only an entry without a file is still Dirty.
LEMMA StartPushFetches ==
  ASSUME EngineCalm, NEW j \in dev.jobs, StartPush(j)
  PROVE  FetchStep
<1> DEFINE eng == [At("snap", j.key) EXCEPT !.seen = dev.entry[j.key],
                                            !.match = dev.base[j.key]]
<1>1. /\ mem \in MemoryOf(ghost.seen) /\ Listens(hub.object, mem) /\ IInv
      /\ dev \in Device /\ faults' = faults /\ j.key \in Keys
  BY Parts, JobReads, DevIsDevice DEF EngineCalm, Fetches
<1>2. \A e : Selected(j, e).eng = e /\ Listens(hub.object, Selected(j, e))
  BY <1>1 DEF Selected, Touched, MemoryOf, Listing, Listens
<1>3. Mark(dev, j) \in SpareOf(dev)  BY <1>1, SpareSelf, SpareDone
<1>4. CASE Commit(<<Done(Mark(dev, j))>>, Selected(j, Idle))
  <2> DEFINE d == Mark(dev, j)
  <2> HIDE DEF d
  <2>1. Done(d) \in SpareOf(dev)  BY <1>3, SpareDone DEF d
  <2>2. Last(<<Done(d)>>) = Done(d)  BY DEF Last
  <2>3. FetchOnly(dev, hub.object, Idle)  BY DEF FetchOnly, Idle
  <2>4. FetchOnly(dev, hub.object, Selected(j, Idle).eng)  BY <1>2, <2>3
  <2> QED  BY <1>1, <1>2, <1>4, <2>1, <2>2, <2>4, SpareCommit DEF d
<1>5. CASE dev.entry[j.key].state = "Dirty" /\ Commit(<<Mark(dev, j)>>, Selected(j, eng))
  <2>1. Last(<<Mark(dev, j)>>) = Mark(dev, j)  BY DEF Last
  <2>2. eng.pc = "snap" /\ eng.key = j.key  BY DEF At, Idle
  <2>3. dev.file[j.key] = None
    <3>1. Even(dev, hub.object, j.key)  BY <1>1 DEF EngineCalm, Evened
    <3>2. Hashed(dev.file[j.key], "Clean").state = "Clean"  BY DEF Hashed
    <3> QED  BY <1>5, <3>1, <3>2 DEF Even
  <2> HIDE DEF eng
  <2>4. FetchOnly(dev, hub.object, Selected(j, eng).eng)  BY <1>2, <2>2, <2>3 DEF FetchOnly
  <2> QED  BY <1>1, <1>2, <1>3, <1>5, <2>1, <2>4, SpareCommit
<1> HIDE DEF eng
<1> QED  BY <1>4, <1>5 DEF StartPush, eng

\* run_push, the snapshot taken of nothing: given up.
LEMMA SendFetches ==
  ASSUME EngineCalm, NEW k \in Keys, ProtectedSend(k)
  PROVE  FetchStep
<1>1. /\ mem \in MemoryOf(ghost.seen) /\ Listens(hub.object, mem) /\ IInv
      /\ dev \in Device /\ faults' = faults /\ FetchOnly(dev, hub.object, mem.eng)
  BY Parts, DevIsDevice DEF EngineCalm, Fetches
<1>2. CASE Commit(<<Unmark(dev)>>, Engage(Idle))
  <2>1. Last(<<Unmark(dev)>>) = Unmark(dev)  BY DEF Last
  <2>2. Unmark(dev) \in SpareOf(dev)  BY <1>1, SpareSelf, SpareDone
  <2>3. Engage(Idle).eng = Idle /\ Listens(hub.object, Engage(Idle))
    BY <1>1 DEF Engage, MemoryOf, Listens
  <2>4. FetchOnly(dev, hub.object, Idle)  BY DEF FetchOnly, Idle
  <2> QED  BY <1>1, <1>2, <2>1, <2>2, <2>3, <2>4, SpareCommit
<1>3. mem.eng.pc = "snap" /\ mem.eng.key = k => dev.file[k] = None
  BY <1>1 DEF FetchOnly
<1> QED  BY <1>2, <1>3 DEF ProtectedSend, BlockJob, PushSend

\* pull_key: the first lock, and the GET.
LEMMA PullFetches ==
  ASSUME EngineCalm, NEW k \in Keys, ProtectedPull(k) \/ PullGet(k)
  PROVE  FetchStep
<1> DEFINE get  == [At("get", k) EXCEPT !.seen = mem.eng.seen, !.stamp = dev.file[k]]
           land == [mem.eng EXCEPT !.pc = "land", !.sha = hub.object[k]]
           m    == [mem EXCEPT !.recheck = @ \cup {k}]
<1>1. /\ mem \in MemoryOf(ghost.seen) /\ mem.eng \in EngineOf(ghost.seen)
      /\ Listens(hub.object, mem) /\ IInv /\ faults' = faults
  BY Parts DEF EngineCalm, Fetches
<1>2. m \in MemoryOf(ghost.seen) /\ Listens(hub.object, m)
  BY <1>1, RecheckMemory DEF MemoryOf, Listens
<1>3. get.pc = "get"  BY DEF At, Idle
<1>4. land.pc = "land" /\ land.key = mem.eng.key /\ land.sha = hub.object[k]
  BY <1>1 DEF EngineOf
<1> HIDE DEF get, land, m
<1>5. CASE Finish(<<dev>>, mem) \/ Finish(<<dev>>, m)
  BY <1>1, <1>2, <1>5, FetchStop
<1>6. CASE Commit(<<dev>>, Engage(get))
  <2>1. FetchOnly(dev, hub.object, get)  BY <1>3 DEF FetchOnly
  <2> QED  BY <1>1, <1>6, <2>1, FetchEngage
<1>7. CASE mem.eng.key = k /\ Commit(<<dev>>, Engage(land))
  <2>1. FetchOnly(dev, hub.object, land)  BY <1>4, <1>7 DEF FetchOnly
  <2> QED  BY <1>1, <1>7, <2>1, FetchEngage
<1> QED  BY <1>5, <1>6, <1>7 DEF ProtectedPull, PullStart, PullGet, get, land, m

\* The landing: what the hub holds, in an empty slot.
LEMMA LandFetches ==
  ASSUME EngineCalm, NEW k \in Keys, PullLand(k)
  PROVE  FetchStep
<1>1. /\ mem \in MemoryOf(ghost.seen) /\ Listens(hub.object, mem) /\ IInv
      /\ faults' = faults /\ FetchOnly(dev, hub.object, mem.eng)
      /\ mem.eng.pc = "land" /\ mem.eng.key = k /\ mem.eng.stamp = None
  BY Parts DEF EngineCalm, Fetches, PullLand, Harmless
<1>2. CASE Commit(<<dev>>, Engage(At("scan", k)))
  <2>1. At("scan", k).pc = "scan"  BY DEF At, Idle
  <2>2. FetchOnly(dev, hub.object, At("scan", k))  BY <2>1 DEF FetchOnly
  <2> QED  BY <1>1, <1>2, <2>2, FetchEngage
<1>3. CASE ~ LandingStale(k) /\ Finish(PullSteps(dev, k, mem.eng.sha), mem)
  <2> DEFINE v  == mem.eng.sha
             d1 == SetFile(dev, k, v)
             d2 == SetEntry(d1, k, Hashed(v, "Clean"))
             d3 == SetBase(d2, k, v)
             d4 == SetTrash(d3, k, None)
             d5 == RemoveJobsFor(d4, k)
             d6 == Done(d5)
             all == Append(PullSteps(dev, k, v), d6)
             AtHub(d) == /\ d.file = [dev.file EXCEPT ![k] = v]
                           /\ d.entry = [dev.entry EXCEPT ![k] = Hashed(v, "Clean")]
                           /\ d.base = [dev.base EXCEPT ![k] = v]
  <2>1. dev \in DeviceOf(Version) /\ v \in Version
    <3>1. mem.eng \in EngineOf(ghost.seen)  BY <1>1 DEF MemoryOf
    <3> QED  BY <1>1, <3>1, DevIsDevice DEF Device, EngineOf
  <2>2. d1 \in DeviceOf(Version) /\ d1.file = [dev.file EXCEPT ![k] = v]
        /\ d1.entry = dev.entry /\ d1.base = dev.base
    BY <2>1, SetFileDevice DEF SetFile, DeviceOf
  <2> HIDE DEF d1
  <2>3. d2 \in DeviceOf(Version) /\ d2.file = d1.file /\ d2.base = d1.base
        /\ d2.entry = [d1.entry EXCEPT ![k] = Hashed(v, "Clean")]
    <3>1. d2 \in DeviceOf(Version)  BY <2>1, <2>2, EntryValues, SetEntryDevice
    <3> QED  BY <2>2, <3>1 DEF SetEntry, DeviceOf
  <2> HIDE DEF d2
  <2>4. d3 \in DeviceOf(Version) /\ AtHub(d3)
    <3>1. d3 \in DeviceOf(Version)  BY <2>1, <2>3, SetBaseDevice
    <3>2. d3.file = d2.file /\ d3.entry = d2.entry /\ d3.base = [d2.base EXCEPT ![k] = v]
      BY <2>3 DEF SetBase, DeviceOf
    <3> QED  BY <2>2, <2>3, <3>1, <3>2
  <2> HIDE DEF d3
  <2>5. d4 \in DeviceOf(Version) /\ AtHub(d4)
    <3>1. d4 \in DeviceOf(Version)  BY <2>4, SetRecordDevice
    <3>2. d4.file = d3.file /\ d4.entry = d3.entry /\ d4.base = d3.base
      BY <2>4 DEF SetTrash, DeviceOf
    <3> QED  BY <2>4, <3>1, <3>2
  <2> HIDE DEF d4
  <2>6. d5 \in DeviceOf(Version) /\ AtHub(d5)
    <3>1. d5 \in DeviceOf(Version)  BY <2>5, RemoveJobsForDevice
    <3>2. d5.file = d4.file /\ d5.entry = d4.entry /\ d5.base = d4.base
      BY <2>5 DEF RemoveJobsFor, DeviceOf
    <3> QED  BY <2>5, <3>1, <3>2
  <2> HIDE DEF d5
  <2>7. AtHub(d6)
    <3>1. d6.file = d5.file /\ d6.entry = d5.entry /\ d6.base = d5.base
      BY <2>6 DEF Done, DeviceOf
    <3> QED  BY <2>6, <3>1
  <2>8. PullSteps(dev, k, v) = <<d1, d2, d3, d4, d5>>
    BY DEF PullSteps, d1, d2, d3, d4, d5
  <2> HIDE DEF d6, v
  <2>9. Last(PullSteps(dev, k, v)) = d5 /\ Last(all) = d6
    BY <2>8 DEF Last
  <2>10. dev' = d6 /\ mem' = [mem EXCEPT !.eng = Idle]
    BY <1>1, <1>3, <2>9, FaultlessCommit DEF Finish, d6, v
  <2>11. dev.file[k] = None /\ v = hub.object[k]
    BY <1>1, <1>3 DEF LandingStale, FetchOnly, v
  <2>12. Fetched(dev, dev', hub.object)
    <3> SUFFICES ASSUME NEW i \in Keys
                 PROVE  \/ /\ dev'.file[i] = dev.file[i]
                           /\ dev'.entry[i] = dev.entry[i] /\ dev'.base[i] = dev.base[i]
                        \/ /\ dev.file[i] = None /\ dev'.file[i] = hub.object[i]
                           /\ dev'.base[i] = hub.object[i]
                           /\ dev'.entry[i] = Hashed(hub.object[i], "Clean")
      BY DEF Fetched
    <3>1. DOMAIN dev.file = Keys /\ DOMAIN dev.entry = Keys /\ DOMAIN dev.base = Keys
      BY <2>1 DEF DeviceOf
    <3> QED  BY <2>7, <2>10, <2>11, <3>1
  <2>13. Fetches(dev', hub.object, mem')
    <3>1. mem'.eng = Idle /\ Listens(hub.object, mem')  BY <1>1, <2>10 DEF MemoryOf, Listens
    <3> QED  BY <3>1 DEF Fetches, FetchOnly, Idle
  <2> QED  BY <2>12, <2>13 DEF FetchStep
<1> QED  BY <1>2, <1>3 DEF PullLand

\* Where there is a file, the three sides are one.
LEMMA EvenDecides ==
  ASSUME NEW d, NEW objects, NEW k, Even(d, objects, k), d.file[k] # None
  PROVE  R!Decide(LocalDigest(d.entry[k]), d.base[k], objects[k]).act = "Nothing"
<1>1. LocalDigest(d.entry[k]) = d.file[k]
  BY DEF Even, Hashed, LocalDigest, Live, EntryDigest
<1> QED  BY <1>1 DEF Even, R!Decide, R!Action

\* reconcile_key: what it settles has no file, what it brings in is the hub's.
LEMMA ReconcileFetches ==
  ASSUME EngineCalm, NEW k \in Keys, ProtectedReconcile(k)
  PROVE  FetchStep
<1> DEFINE e == dev.entry[k]
           answer == R!Decide(LocalDigest(e), dev.base[k], mem.eng.reply)
           pull == [At("pull", k) EXCEPT !.seen = e]
           m == [mem EXCEPT !.recheck = @ \cup {k}]
<1>1. /\ mem \in MemoryOf(ghost.seen) /\ Listens(hub.object, mem) /\ IInv
      /\ faults' = faults /\ FetchOnly(dev, hub.object, mem.eng)
      /\ dev \in Device
  BY Parts, DevIsDevice DEF EngineCalm, Fetches
<1>2. m \in MemoryOf(ghost.seen) /\ Listens(hub.object, m)
  BY <1>1, RecheckMemory DEF MemoryOf, Listens
<1>3. pull.pc = "pull"  BY DEF At, Idle
<1> HIDE DEF m, pull
<1>4. CASE Finish(<<dev>>, mem) \/ Finish(<<dev>>, m)
  BY <1>1, <1>2, <1>4, FetchStop
<1>5. CASE Commit(<<dev>>, Engage(pull))
  <2>1. FetchOnly(dev, hub.object, pull)  BY <1>3 DEF FetchOnly
  <2> QED  BY <1>1, <1>5, <2>1, FetchEngage
<1>6. CASE dev.file[k] = None /\ Finish(AdoptSteps(dev, k), mem)
  <2>1. AdoptSteps(dev, k) \in StepsOf(Version)  BY <1>1, AdoptStepsSteps DEF Device
  <2>2. Last(AdoptSteps(dev, k)) \in SpareOf(dev)  BY <1>1, <1>6, SpareSteps
  <2> QED  BY <1>1, <1>6, <2>1, <2>2, SpareFinish
<1>7. CASE dev.file[k] = None /\ Finish(RepushSteps(dev, k, None), mem)
  <2>1. RepushSteps(dev, k, None) \in StepsOf(Version)  BY <1>1, RepushStepsSteps DEF Device
  <2>2. Last(RepushSteps(dev, k, None)) \in SpareOf(dev)  BY <1>1, <1>7, SpareSteps
  <2> QED  BY <1>1, <1>7, <2>1, <2>2, SpareFinish
<1>8. mem.eng.pc = "head" /\ mem.eng.key = k /\ dev.file[k] # None => answer.act = "Nothing"
  <2>1. mem.eng.pc = "head" /\ mem.eng.key = k => mem.eng.reply = hub.object[k]
    BY <1>1 DEF FetchOnly
  <2>2. Even(dev, hub.object, k)  BY DEF EngineCalm, Evened
  <2> QED  BY <2>1, <2>2, EvenDecides
<1> HIDE DEF answer
<1>9. CASE /\ ~ (mem.eng.pc # "head" \/ mem.eng.key # k)
           /\ ~ mem.eng.moved /\ ~ Deferred(k)
           /\ Additive(k, answer) /\ Reconcile(k)
  <2>1. \/ Finish(<<dev>>, mem)
        \/ answer.act = "Push" /\ Finish(RepushSteps(dev, k, answer.match), mem)
        \/ answer.act = "DeleteRemote" /\ Finish(UnlinkSteps(dev, k), mem)
        \/ answer.act = "TrashLocal" /\ Finish(TrashSteps(dev, k), mem)
        \/ answer.act = "Adopt" /\ Finish(AdoptSteps(dev, k), mem)
        \/ answer.act = "Pull" /\ Commit(<<dev>>, Engage(pull))
        \/ answer.act = "Conflict" /\ Commit(<<dev>>, Engage([At("conflict", k) EXCEPT !.seen = e]))
    BY <1>9 DEF Reconcile, Deferred, answer, pull
  <2>2. \/ answer.act \in {"Nothing", "Adopt", "Pull"}
        \/ answer.act = "Push" /\ answer.match = None
    BY <1>9 DEF Additive
  <2>3. answer.act \in {"Push", "Adopt"} => dev.file[k] = None  BY <1>8, <1>9
  <2> QED  BY <1>4, <1>5, <1>6, <1>7, <2>1, <2>2, <2>3
<1>10. CASE (mem.eng.moved \/ Deferred(k)) /\ Reconcile(k)
  <2>1. Finish(<<dev>>, mem) \/ Finish(<<dev>>, m)
    BY <1>10 DEF Reconcile, Deferred, m
  <2> QED  BY <1>4, <2>1
<1>11. CASE (mem.eng.pc # "head" \/ mem.eng.key # k) /\ Reconcile(k)
  BY <1>11 DEF Reconcile
<1>12. CASE ~ Reconcile(k)
  BY <1>4, <1>12 DEF ProtectedReconcile
<1> QED  BY <1>4, <1>9, <1>10, <1>11, <1>12 DEF ProtectedReconcile, answer

\* A step of a protected engine that only fetches is one fetch at most, and
\* the hub keeps what it has.
LEMMA EngineFetches ==
  ASSUME ProtectedInv, protected, Engine,
         Evened(dev, hub.object), Fetches(dev, hub.object, mem)
  PROVE  FetchStep /\ hub'.object = hub.object
<1>1. IInv /\ faults' = faults /\ Harmless(mem.eng) /\ EngineCalm
  BY DEF ProtectedInv, Engine, EngineCalm
<1>2. CASE Choose
  <2>1. hub'.object = hub.object  BY <1>1, <1>2, ChooseSafe
  <2>2. FetchStep
    BY <1>1, <1>2, AskFetches, StartPushFetches, ScansFetch DEF Choose, ProtectedPush
  <2> QED  BY <2>1, <2>2
<1>3. ASSUME NEW k \in Keys, Continue(k)
      PROVE  FetchStep /\ hub'.object = hub.object
  <2>1. hub'.object = hub.object  BY <1>1, <1>3, ContinueSafe
  <2>2. ~ ProtectedReply(k)
    BY DEF Fetches, FetchOnly, ProtectedReply, PushReply
  <2>3. FetchStep
    BY SMTT(60), <1>1, <1>3, <2>2, ScansFetch, PullFetches, LandFetches, ReconcileFetches,
       SendFetches
       DEF Continue
  <2> QED  BY <2>1, <2>3
<1>4. ASSUME NEW k \in Keys, HubAnswers(k)
      PROVE  FALSE
  BY <1>4 DEF HubAnswers, HubPut, HubDelete, HubCopy, HubRename, Fetches, FetchOnly
<1> QED  BY <1>2, <1>3, <1>4 DEF Engine

(***************************************************************************)
(* The union.                                                              *)
(***************************************************************************)
\* The recovery has k still to take, or has it in hand.
Yet(k) == k \in rec.todo \/ (rec.pc # "pick" /\ rec.key = k)

\* A push has in hand the file there is, and of the hub what it was told.
PushInHand ==
  /\ rec.pc \in {"pick", "head", "put", "commit"} /\ ~ rec.moved
  /\ rec.pc # "pick" => rec.stamp = dev.file[rec.key]
  /\ rec.pc = "put" => rec.match = hub.object[rec.key]
  /\ rec.pc = "commit" => rec.sha = hub.object[rec.key]

\* A pull has in hand a key without a file, and what the hub holds of it.
PullInHand ==
  /\ rec.pc \in {"pick", "get", "land"} /\ ~ rec.moved
  /\ rec.pc # "pick" => dev.file[rec.key] = None
  /\ rec.pc = "land" => rec.sha = hub.object[rec.key]

\* A push that nobody disturbs: what it is done with is even.
PushGoes == rec.verb = "push" /\ settled # "disturbed" /\ mem.open = {}
Pushing == PushGoes => PushInHand /\ \A k \in Keys : Yet(k) \/ Even(dev, hub.object, k)

\* A pull after it: what it is done with is here.
PullGoes == rec.verb = "pull" /\ settled \in {"pushed", "union"}
Pulling == PullGoes => PullInHand /\ \A k \in Keys :
                         hub.object[k] # None => Yet(k) \/ dev.file[k] # None

\* A push ended that nobody disturbed, nor has anyone since.
AfterPush ==
  settled \in {"pushed", "union"}
  => Evened(dev, hub.object) /\ Fetches(dev, hub.object, mem)

\* No listing is half done while a recovery runs.
RecAlone == rec.verb # "none" => mem.listing.todo = {}

UnionInv ==
  protected => /\ RecAlone
               /\ AfterPush
               /\ settled = "union" => dev.file = hub.object
               /\ Pushing /\ Pulling

\* A mirror mounted in step has run no recovery.
LEMMA InitUnion == ProtectedInit => UnionInv
BY DEF ProtectedInit, NoRecovery, UnionInv, RecAlone, AfterPush, Pushing, PushGoes,
       Pulling, PullGoes

\* Someone came between, or something failed: nothing is promised.
LEMMA NothingPromised ==
  ASSUME settled' \in {"nothing", "disturbed"},
         rec'.verb # "none" => mem'.listing.todo = {},
         rec'.verb = "push" => settled' = "disturbed" \/ mem'.open # {}
  PROVE  UnionInv'
BY DEF UnionInv, RecAlone, AfterPush, Pushing, PushGoes, Pulling, PullGoes

\* Only the recovery moved on.
LEMMA OnlyRecUnion ==
  ASSUME UnionInv, UNCHANGED <<dev, mem, hub, settled, protected>>,
         rec'.verb # "none" => mem.listing.todo = {},
         protected => Pushing' /\ Pulling'
  PROVE  UnionInv'
BY DEF UnionInv, RecAlone, AfterPush

\* Users, here and elsewhere.
LEMMA UsersUnion ==
  ASSUME ProtectedInv, UnionInv, NEW k \in Keys, Users(k)
  PROVE  UnionInv'
<1>1. IInv /\ RecKnows /\ rec \in Recovery /\ protected  BY DEF ProtectedInv, RecKnows, Users
<1>2. mem \in MemoryOf(ghost.seen) /\ faults' = faults  BY <1>1, Parts DEF Users
<1>3. mem'.listing = mem.listing
  <2>1. CASE Write(k) \/ Open(k) \/ Close(k)
    BY <1>2, <2>1 DEF Write, Open, Close, MemoryOf
  <2>2. CASE Peer(k)
    BY <2>2 DEF Peer, PeerPut, PeerDelete
  <2>3. CASE Unlink(k)
    <3>1. mem' = [mem EXCEPT !.open = @ \ {k}, !.unflushed = @ \ {k}, !.skipped = @ \ {k}]
      BY <1>1, <1>2, <2>3, FaultlessCommit DEF Unlink
    <3> QED  BY <1>2, <3>1 DEF MemoryOf
  <2>4. CASE Flush(k)
    <3>1. mem' = [mem EXCEPT !.unflushed = @ \ {k}, !.skipped = @ \ {k}]
      BY <1>1, <1>2, <2>4, FaultlessCommit DEF Flush
    <3> QED  BY <1>2, <3>1 DEF MemoryOf
  <2>5. ASSUME NEW to \in Keys, RenameHere(k, to)
        PROVE  mem'.listing = mem.listing
    <3> DEFINE follow(X) == IF k \in X THEN (X \ {k}) \cup {to} ELSE X
               m(owed) == [mem EXCEPT !.open = follow(@), !.unflushed = owed, !.eng = Overtaken]
    <3>1. PICK owed : Commit(RenameSteps(dev, k, to), m(owed))
      BY <2>5 DEF RenameHere, Rename
    <3>2. mem' = m(owed)  BY <1>1, <1>2, <3>1, FaultlessCommit
    <3> QED  BY <1>2, <3>2 DEF MemoryOf
  <2> QED  BY <2>1, <2>2, <2>3, <2>4, <2>5 DEF Users
<1>4. rec'.verb = rec.verb
  <2>1. rec' = rec \/ \E b : rec' = [rec EXCEPT !.moved = b]
    BY DEF Users, RenameHere
  <2> QED  BY <1>1, <2>1 DEF Recovery
<1>5. settled' = IF rec.verb = "none" THEN "nothing" ELSE "disturbed"  BY DEF Users
<1> QED  BY <1>1, <1>3, <1>4, <1>5, NothingPromised DEF UnionInv, RecAlone

\* The engine.
LEMMA EngineUnion ==
  ASSUME ProtectedInv, UnionInv, Engine, ProtectedInv'
  PROVE  UnionInv'
<1>1. /\ rec.verb = "none" /\ rec' = rec /\ settled' = settled /\ protected' = protected
  BY DEF Engine
<1>2. ~ PushGoes' /\ ~ PullGoes'  BY <1>1 DEF PushGoes, PullGoes
<1>3. CASE protected /\ settled \in {"pushed", "union"}
  <2>1. Evened(dev, hub.object) /\ Fetches(dev, hub.object, mem)
    BY <1>3 DEF UnionInv, AfterPush
  <2>2. /\ Fetched(dev, dev', hub.object) /\ Fetches(dev', hub'.object, mem')
        /\ hub'.object = hub.object
    BY <1>3, <2>1, EngineFetches DEF FetchStep
  <2>3. Evened(dev', hub'.object)  BY <2>1, <2>2, EvenedStays
  <2>4. settled = "union" => dev'.file = hub'.object
    <3> SUFFICES ASSUME settled = "union"  PROVE dev'.file = hub.object
      BY <2>2
    <3>1. dev.file = hub.object  BY <1>3 DEF UnionInv
    <3>2. dev' \in DeviceOf(ghost'.seen)  BY DEF ProtectedInv, IInv, KnownVersions
    <3>3. dev \in DeviceOf(ghost.seen)  BY Parts DEF ProtectedInv
    <3>4. \A k \in Keys : dev'.file[k] = dev.file[k]  BY <2>2, <3>1 DEF Fetched
    <3>5. dev'.file = dev.file  BY <3>2, <3>3, <3>4 DEF DeviceOf
    <3> QED  BY <3>1, <3>5
  <2> QED  BY <1>1, <1>2, <2>2, <2>3, <2>4
           DEF UnionInv, RecAlone, AfterPush, Pushing, Pulling
<1>4. CASE settled \notin {"pushed", "union"}
  BY <1>1, <1>2, <1>4 DEF UnionInv, RecAlone, AfterPush, Pushing, Pulling
<1>5. CASE ~ protected
  BY <1>1, <1>5 DEF UnionInv
<1> QED  BY <1>3, <1>4, <1>5

\* A recovery begins; or the next file is taken.
LEMMA TakeUnion ==
  ASSUME ProtectedInv, UnionInv,
         StartPushLocal \/ StartPullRemote \/ \E k \in Keys : Take(k)
  PROVE  UnionInv'
<1>1. /\ UNCHANGED <<dev, mem, hub, settled, protected>> /\ RecKnows /\ rec \in Recovery
  BY DEF StartPushLocal, StartPullRemote, Begin, Take, vars, ProtectedInv, RecKnows
<1>2. ASSUME NEW verb \in {"push", "pull"}, NEW todo, Begin(verb, todo),
             verb = "push" => todo = {k \in Keys : dev.file[k] # None},
             verb = "pull" => todo = {k \in Keys : hub.object[k] # None}
      PROVE  UnionInv'
  <2>1. /\ rec'.verb = verb /\ rec'.pc = "pick" /\ rec'.todo = todo /\ rec'.moved = FALSE
        /\ mem.listing.todo = {}
    BY <1>2 DEF Begin, BetweenCycles, NoRecovery
  <2>2. Pushing'
    BY <1>1, <1>2, <2>1 DEF Pushing, PushGoes, PushInHand, Yet, Even
  <2>3. Pulling'
    BY <1>1, <1>2, <2>1 DEF Pulling, PullGoes, PullInHand, Yet
  <2> QED  BY <1>1, <2>1, <2>2, <2>3, OnlyRecUnion
<1>3. ASSUME NEW k \in Keys, Take(k)
      PROVE  UnionInv'
  <2> DEFINE left == rec.todo \ {k}
             skip == [rec EXCEPT !.todo = left]
             take == [rec EXCEPT !.todo = left, !.key = k, !.stamp = dev.file[k],
                                 !.pc = IF rec.verb = "push" THEN "head" ELSE "get"]
  <2>1. rec.pc = "pick" /\ rec.verb \in {"push", "pull"} /\ protected
    BY <1>1, <1>3 DEF Take, RecKnows, Recovery
  <2>2. mem.listing.todo = {} /\ Pushing /\ Pulling /\ AfterPush
    BY <2>1 DEF UnionInv, RecAlone
  <2>3. \/ /\ k \in mem.open \/ (rec.verb = "push") = (dev.file[k] = None)
           /\ rec'.pc = "pick" /\ rec'.todo = left /\ rec'.verb = rec.verb
           /\ rec'.moved = rec.moved
        \/ /\ (rec.verb = "push") # (dev.file[k] = None)
           /\ rec'.pc = IF rec.verb = "push" THEN "head" ELSE "get"
           /\ rec'.todo = left /\ rec'.verb = rec.verb /\ rec'.moved = rec.moved
           /\ rec'.key = k /\ rec'.stamp = dev.file[k]
    BY <1>1, <1>3 DEF Take, Recovery
  <2> HIDE DEF skip, take
  <2>4. Pushing'
    BY <1>1, <2>1, <2>2, <2>3 DEF Pushing, PushGoes, PushInHand, Yet, Even
  <2>5. Pulling'
    <3> SUFFICES ASSUME PullGoes'  PROVE PullInHand' /\ \A i \in Keys :
                          hub'.object[i] # None => Yet(i)' \/ dev'.file[i] # None
      BY DEF Pulling
    <3>1. PullGoes /\ rec.verb = "pull"  BY <1>1, <2>1, <2>3 DEF PullGoes
    <3>2. mem.open = {}
      BY <1>1, <2>2, <3>1 DEF AfterPush, PullGoes, Fetches, Listens
    <3> QED  BY <1>1, <2>1, <2>2, <2>3, <3>1, <3>2 DEF Pulling, PullInHand, Yet
  <2> QED  BY <1>1, <2>2, <2>4, <2>5, OnlyRecUnion
<1> QED  BY <1>2, <1>3 DEF StartPushLocal, StartPullRemote

\* The HEAD and the GET: what it is told the hub holds.
LEMMA AskUnion ==
  ASSUME ProtectedInv, UnionInv, NEW k \in Keys, RecHead(k) \/ RecGet(k)
  PROVE  UnionInv'
<1>1. /\ UNCHANGED <<dev, mem, hub, settled, protected>> /\ RecKnows /\ rec \in Recovery
      /\ rec.verb \in {"push", "pull"} /\ protected /\ rec.key = k /\ mem.up
  BY DoingKnows
     DEF RecHead, RecGet, Doing, vars, ProtectedInv, RecKnows, Recovery
<1>2. mem.listing.todo = {} /\ Pushing /\ Pulling /\ AfterPush
  BY <1>1 DEF UnionInv, RecAlone
<1>3. NextFile => /\ rec'.verb = rec.verb /\ rec'.pc = "pick" /\ rec'.todo = rec.todo
                  /\ rec'.moved = FALSE
  BY <1>1 DEF NextFile, NoRecovery
<1>4. CASE RecHead(k)
  <2>1. rec.pc = "head"  BY <1>4 DEF RecHead, Doing
  <2>2. rec'.verb = rec.verb  BY <1>1, <1>3, <1>4 DEF RecHead, Recovery
  <2>3. PushGoes => ~ Stale(k)
    BY <1>1, <1>2, <2>1 DEF Pushing, PushInHand, PushGoes, Stale
  <2>4. ~ Stale(k) => /\ rec'.pc = IF hub.object[k] = rec.stamp THEN "commit" ELSE "put"
                      /\ rec'.match = hub.object[k] /\ rec'.sha = rec.stamp
                      /\ rec'.key = rec.key /\ rec'.stamp = rec.stamp
                      /\ rec'.todo = rec.todo /\ rec'.moved = rec.moved
    BY <1>1, <1>4 DEF RecHead, Recovery
  <2>5. Pushing'
    <3> SUFFICES ASSUME PushGoes'
                 PROVE  PushInHand' /\ \A i \in Keys : Yet(i)' \/ Even(dev', hub'.object, i)
      BY DEF Pushing
    <3>1. PushGoes  BY <1>1, <2>2 DEF PushGoes
    <3>2. PushInHand /\ \A i \in Keys : Yet(i) \/ Even(dev, hub.object, i)
      BY <1>2, <3>1 DEF Pushing
    <3> QED  BY <1>1, <2>1, <2>3, <2>4, <3>1, <3>2 DEF PushInHand, Yet
  <2>6. Pulling'
    BY <1>1, <1>2, <2>1, <2>2 DEF Pulling, PullGoes, PullInHand
  <2> QED  BY <1>1, <1>2, <2>5, <2>6, OnlyRecUnion
<1>5. CASE RecGet(k)
  <2>1. rec.pc = "get"  BY <1>5 DEF RecGet, Doing
  <2>2. rec'.verb = rec.verb  BY <1>1, <1>3, <1>5 DEF RecGet, Recovery
  <2>3. \/ /\ hub.object[k] = None /\ rec'.pc = "pick" /\ rec'.todo = rec.todo
           /\ rec'.moved = FALSE
        \/ /\ rec'.pc = "land" /\ rec'.sha = hub.object[k]
           /\ rec'.key = rec.key /\ rec'.todo = rec.todo /\ rec'.moved = rec.moved
    BY <1>1, <1>3, <1>5 DEF RecGet, Recovery
  <2>4. Pushing'
    BY <1>1, <1>2, <2>1, <2>2 DEF Pushing, PushGoes, PushInHand
  <2>5. Pulling'
    <3> SUFFICES ASSUME PullGoes'  PROVE PullInHand' /\ \A i \in Keys :
                          hub'.object[i] # None => Yet(i)' \/ dev'.file[i] # None
      BY DEF Pulling
    <3>1. PullGoes  BY <1>1, <2>2 DEF PullGoes
    <3> QED  BY <1>1, <1>2, <2>1, <2>3, <3>1 DEF Pulling, PullInHand, Yet
  <2> QED  BY <1>1, <1>2, <2>4, <2>5, OnlyRecUnion
<1> QED  BY <1>4, <1>5

\* The PUT: nobody disturbed it, so the hub takes it.
LEMMA PutUnion ==
  ASSUME ProtectedInv, UnionInv, NEW k \in Keys, RecPut(k)
  PROVE  UnionInv'
<1>1. /\ RecKnows /\ rec \in Recovery /\ IInv /\ hub \in Hub
      /\ rec.verb \in {"push", "pull"} /\ protected /\ rec.key = k /\ mem.up
      /\ rec.pc = "put" /\ mem.eng.pc = "idle"
      /\ rec.sha = rec.stamp /\ UNCHANGED <<dev, mem, protected>>
  BY DoingKnows, Parts
     DEF RecPut, Doing, ProtectedInv, RecKnows, Recovery
<1>2. mem.listing.todo = {} /\ Pushing /\ Pulling /\ AfterPush
      /\ (settled = "union" => dev.file = hub.object)
  BY <1>1 DEF UnionInv, RecAlone
<1>3. settled \in {"nothing", "disturbed", "pushed", "union"}
  BY DEF ProtectedInv, MountOK
<1>4. Undisturbed  BY DEF RecPut
<1>5. NextFile => rec'.verb \in {rec.verb, "none"}
  BY <1>1 DEF NextFile, NoRecovery
<1>6. rec'.verb \in {rec.verb, "none"}
  BY <1>1, <1>5 DEF RecPut, GivenUp, Recovery, NoRecovery
<1>7. CASE ~ PushGoes
  <2>1. settled \in {"nothing", "disturbed"}
    BY <1>1, <1>2, <1>3, <1>7 DEF Pulling, PullGoes, PullInHand, PushGoes, AfterPush,
                                  Fetches, Listens
  <2>2. settled' \in {"nothing", "disturbed"}  BY <1>4, <2>1 DEF Undisturbed
  <2>3. rec'.verb = "push" => settled' = "disturbed" \/ mem'.open # {}
    BY <1>1, <1>4, <1>6, <1>7 DEF PushGoes, Undisturbed
  <2> QED  BY <1>1, <1>2, <2>2, <2>3, NothingPromised
<1>8. CASE PushGoes
  <2>1. PushInHand /\ \A i \in Keys : Yet(i) \/ Even(dev, hub.object, i)
    BY <1>2, <1>8 DEF Pushing
  <2>2. Matches(hub.object[k], rec.match)  BY <1>1, <2>1 DEF PushInHand, Matches
  <2>3. hub'.object = [hub.object EXCEPT ![k] = rec.sha]  BY <2>2 DEF RecPut
  <2>4. CASE faults' # faults
    <3>1. settled' = IF rec'.verb = "none" THEN "nothing" ELSE "disturbed"
      BY <1>4, <2>4 DEF Undisturbed
    <3> QED  BY <1>1, <1>2, <3>1, NothingPromised
  <2>5. CASE faults' = faults
    <3>1. rec' = [rec EXCEPT !.pc = "commit"] /\ settled' = settled
      <4>1. faults + 1 # faults  BY <1>1, MirrorAssumption DEF IInv
      <4> QED  BY <1>4, <2>2, <2>5, <4>1 DEF RecPut, Undisturbed
    <3>2. /\ rec'.pc = "commit" /\ rec'.verb = rec.verb /\ rec'.todo = rec.todo
          /\ rec'.key = k /\ rec'.stamp = rec.stamp /\ rec'.sha = rec.sha
          /\ rec'.moved = rec.moved
      BY <1>1, <3>1 DEF Recovery
    <3>3. \A i \in Keys : hub'.object[i] = IF i = k THEN rec.sha ELSE hub.object[i]
      BY <1>1, <2>3 DEF Hub
    <3>4. Pushing'
      <4>1. PushInHand'  BY <1>1, <2>1, <3>2, <3>3 DEF PushInHand
      <4>2. \A i \in Keys : Yet(i)' \/ Even(dev', hub'.object, i)
        BY <1>1, <2>1, <3>2, <3>3 DEF Yet, Even
      <4> QED  BY <4>1, <4>2 DEF Pushing
    <3>5. Pulling'  BY <1>8, <3>2 DEF Pulling, PullGoes, PushGoes
    <3>6. settled \in {"pushed", "union"} => hub'.object = hub.object
      <4> SUFFICES ASSUME settled \in {"pushed", "union"}  PROVE hub'.object = hub.object
        OBVIOUS
      <4>1. Even(dev, hub.object, k)  BY <1>2 DEF AfterPush, Evened
      <4>2. dev.file[k] = rec.sha  BY <1>1, <2>1 DEF PushInHand
      <4>3. rec.sha # None  BY <1>1, Parts DEF RecKnows, Version, None
      <4>4. hub.object[k] = rec.sha  BY <4>1, <4>2, <4>3 DEF Even
      <4>5. hub.object \in [Keys -> Digest]  BY <1>1 DEF Hub
      <4> QED  BY <2>3, <4>4, <4>5
    <3> QED  BY <1>1, <1>2, <3>1, <3>4, <3>5, <3>6 DEF UnionInv, RecAlone, AfterPush
  <2> QED  BY <2>4, <2>5
<1> QED  BY <1>7, <1>8

\* The device on which k is settled with v.
EvenAt(d, e, k, v) ==
  /\ e.entry = [d.entry EXCEPT ![k] = Hashed(v, "Clean")]
  /\ e.base = [d.base EXCEPT ![k] = v]

\* What a recovery writes down when no crash comes.
LEMMA RecPushedEven ==
  ASSUME NEW d \in Device, NEW k \in Keys, NEW v \in Version
  PROVE  /\ Last(RecPushed(d, k, v)).file = d.file
         /\ EvenAt(d, Last(RecPushed(d, k, v)), k, v)
<1> DEFINE d1 == SetBase(d, k, v)
           d2 == SetEntry(d1, k, Hashed(v, "Clean"))
           gone == {j \in d.jobs : j.key = k /\ j.kind \in {"Push", "Conflict"}}
           d3 == [d2 EXCEPT !.jobs = Dequeue(@, gone)]
           d4 == SetConflict(d3, k, None)
           d5 == SetPending(d4, k, None)
           Like(e, f) == e.file = f.file /\ e.entry = f.entry /\ e.base = f.base
<1>1. /\ d1.file = d.file /\ d1.entry = d.entry /\ d1.base = [d.base EXCEPT ![k] = v]
      /\ DOMAIN d1 = DOMAIN d
  BY DEF SetBase, Device, DeviceOf
<1>2. DOMAIN d = {"file", "entry", "base", "pending", "conflict", "trash", "snaps", "jobs"}
  BY DEF Device, DeviceOf
<1> HIDE DEF d1
<1>3. /\ d2.file = d1.file /\ d2.base = d1.base /\ DOMAIN d2 = DOMAIN d
      /\ d2.entry = [d1.entry EXCEPT ![k] = Hashed(v, "Clean")]
  BY <1>1, <1>2 DEF SetEntry
<1> HIDE DEF d2
<1>4. Like(d3, d2) /\ DOMAIN d3 = DOMAIN d  BY <1>2, <1>3
<1> HIDE DEF d3
<1>5. Like(d4, d3) /\ DOMAIN d4 = DOMAIN d  BY <1>2, <1>4 DEF SetConflict
<1> HIDE DEF d4
<1>6. Like(d5, d4)  BY <1>2, <1>5 DEF SetPending
<1> HIDE DEF d5
<1>7. RecPushed(d, k, v) = <<d1, d2, d3, d4, d5>>
  BY DEF RecPushed, d1, d2, d3, d4, d5
<1>8. Last(RecPushed(d, k, v)) = d5  BY <1>7 DEF Last
<1> QED  BY <1>1, <1>3, <1>4, <1>5, <1>6, <1>8 DEF EvenAt

\* What a pull lands is even with the object it was read from.
LEMMA RecPulledEven ==
  ASSUME NEW d \in Device, NEW k \in Keys, NEW v \in Version
  PROVE  /\ Last(RecPulled(d, k, v)).file = [d.file EXCEPT ![k] = v]
         /\ EvenAt(d, Last(RecPulled(d, k, v)), k, v)
<1> DEFINE d1 == SetFile(d, k, v)
           d2 == SetEntry(d1, k, Hashed(v, "Clean"))
           d3 == SetBase(d2, k, v)
           d4 == RemoveJobsFor(d3, k)
<1>1. /\ d1.file = [d.file EXCEPT ![k] = v] /\ d1.entry = d.entry /\ d1.base = d.base
      /\ DOMAIN d1 = DOMAIN d
  BY DEF SetFile, Device, DeviceOf
<1>2. DOMAIN d = {"file", "entry", "base", "pending", "conflict", "trash", "snaps", "jobs"}
  BY DEF Device, DeviceOf
<1> HIDE DEF d1
<1>3. /\ d2.file = d1.file /\ d2.base = d1.base /\ DOMAIN d2 = DOMAIN d
      /\ d2.entry = [d1.entry EXCEPT ![k] = Hashed(v, "Clean")]
  BY <1>1, <1>2 DEF SetEntry
<1> HIDE DEF d2
<1>4. /\ d3.file = d2.file /\ d3.entry = d2.entry /\ DOMAIN d3 = DOMAIN d
      /\ d3.base = [d2.base EXCEPT ![k] = v]
  BY <1>2, <1>3 DEF SetBase
<1> HIDE DEF d3
<1>5. d4.file = d3.file /\ d4.entry = d3.entry /\ d4.base = d3.base
  BY <1>2, <1>4 DEF RemoveJobsFor
<1> HIDE DEF d4
<1>6. RecPulled(d, k, v) = <<d1, d2, d3, d4>>  BY DEF RecPulled, d1, d2, d3, d4
<1>7. Last(RecPulled(d, k, v)) = d4  BY <1>6 DEF Last
<1> QED  BY <1>1, <1>3, <1>4, <1>5, <1>7 DEF EvenAt

\* The last write of a recovery's file, or a crash on the way.
LEMMA RecStep ==
  ASSUME ProtectedInv, rec.verb # "none", NEW steps, Commit(steps, mem), NextFile, Undisturbed
  PROVE  \/ /\ dev' = Last(steps) /\ mem' = mem /\ hub' = hub /\ settled' = settled
            /\ rec'.verb = rec.verb /\ rec'.pc = "pick" /\ rec'.todo = rec.todo
            /\ rec'.moved = FALSE
         \/ rec'.verb = "none" /\ settled' = "nothing"
<1>1. mem.up /\ IInv  BY DEF ProtectedInv, RecKnows
<1>2. faults + 1 # faults  BY <1>1, MirrorAssumption DEF IInv
<1>3. CASE dev' = Last(steps) /\ mem' = mem /\ UNCHANGED <<hub, faults>>
  BY <1>1, <1>3 DEF NextFile, NoRecovery, Undisturbed
<1>4. CASE mem' = Booting /\ faults' = faults + 1
  BY <1>2, <1>4 DEF NextFile, NoRecovery, Undisturbed, Booting
<1> QED  BY <1>3, <1>4 DEF Commit, Crash

\* The acknowledgement makes its file even.
LEMMA CommitUnion ==
  ASSUME ProtectedInv, UnionInv, NEW k \in Keys, RecCommit(k)
  PROVE  UnionInv'
<1> DEFINE v == rec.sha
<1>1. /\ RecKnows /\ rec \in Recovery /\ IInv /\ dev \in Device
      /\ rec.verb \in {"push", "pull"} /\ protected /\ rec.key = k
      /\ rec.pc = "commit" /\ mem.eng.pc = "idle" /\ v = rec.stamp /\ v \in Version
      /\ protected' = protected
  <2>1. IInv /\ RecKnows /\ rec.pc = "commit" /\ rec.key = k /\ protected' = protected
    BY DEF RecCommit, Doing, ProtectedInv
  <2>2. rec.stamp \in Version  BY <2>1, Parts DEF RecKnows
  <2> QED  BY <2>1, <2>2, DevIsDevice DEF RecKnows, Recovery
<1>2. /\ mem.listing.todo = {} /\ Pushing /\ Pulling /\ AfterPush
      /\ (settled = "union" => dev.file = hub.object)
  BY <1>1 DEF UnionInv, RecAlone
<1>3. settled \in {"nothing", "disturbed", "pushed", "union"}
  BY DEF ProtectedInv, MountOK
<1> DEFINE steps == IF Stale(k) THEN <<dev>> ELSE RecPushed(dev, k, v)
<1>4. Commit(steps, mem) /\ NextFile /\ Undisturbed  BY DEF RecCommit
<1> HIDE DEF steps
<1>5. CASE rec'.verb = "none" /\ settled' = "nothing"
  BY <1>5, NothingPromised
<1>6. CASE /\ dev' = Last(steps) /\ mem' = mem /\ hub' = hub /\ settled' = settled
           /\ rec'.verb = rec.verb /\ rec'.pc = "pick" /\ rec'.todo = rec.todo
           /\ rec'.moved = FALSE
  <2>1. CASE ~ PushGoes
    <3>1. settled \in {"nothing", "disturbed"}
      BY <1>1, <1>2, <1>3, <2>1 DEF Pulling, PullGoes, PullInHand, PushGoes, AfterPush,
                                    Fetches, Listens
    <3> QED  BY <1>2, <1>6, <2>1, <3>1, NothingPromised DEF PushGoes
  <2>2. CASE PushGoes
    <3>1. PushInHand /\ \A i \in Keys : Yet(i) \/ Even(dev, hub.object, i)
      BY <1>2, <2>2 DEF Pushing
    <3>2. dev.file[k] = v /\ hub.object[k] = v /\ ~ Stale(k)
      BY <1>1, <2>2, <3>1 DEF PushInHand, Stale, PushGoes
    <3>3. dev'.file = dev.file /\ EvenAt(dev, dev', k, v)
      BY <1>1, <1>6, <3>2, RecPushedEven DEF steps
    <3>4. \A i \in Keys : IF i = k THEN Even(dev', hub.object, i)
                          ELSE Even(dev, hub.object, i) => Even(dev', hub.object, i)
      BY <1>1, <3>2, <3>3 DEF EvenAt, Even, Device, DeviceOf
    <3>5. Pushing'
      <4>1. \A i \in Keys : Yet(i)' \/ Even(dev', hub'.object, i)
        BY <1>1, <1>6, <3>1, <3>4 DEF Yet
      <4>2. PushInHand'  BY <1>6 DEF PushInHand
      <4> QED  BY <4>1, <4>2 DEF Pushing
    <3>6. Pulling'  BY <1>6, <2>2 DEF Pulling, PullGoes, PushGoes
    <3>7. AfterPush'
      <4> SUFFICES ASSUME settled \in {"pushed", "union"}
                   PROVE  Evened(dev', hub.object) /\ Fetches(dev', hub.object, mem)
        BY <1>6 DEF AfterPush
      <4>1. Evened(dev, hub.object) /\ Fetches(dev, hub.object, mem)
        BY <1>2 DEF AfterPush
      <4> QED  BY <3>3, <3>4, <4>1 DEF Evened, Fetches, FetchOnly
    <3> QED  BY <1>1, <1>2, <1>6, <3>3, <3>5, <3>6, <3>7 DEF UnionInv, RecAlone
  <2> QED  BY <2>1, <2>2
<1> QED  BY <1>1, <1>4, <1>5, <1>6, RecStep

\* The landing brings the hub's version to a key without a file.
LEMMA LandUnion ==
  ASSUME ProtectedInv, UnionInv, NEW k \in Keys, RecLand(k)
  PROVE  UnionInv'
<1> DEFINE v == rec.sha
<1>1. /\ RecKnows /\ rec \in Recovery /\ IInv /\ dev \in Device /\ hub \in Hub
      /\ rec.verb \in {"push", "pull"} /\ protected /\ rec.key = k
      /\ rec.pc = "land" /\ mem.eng.pc = "idle" /\ rec.stamp = None /\ v \in Version
      /\ protected' = protected
  <2>1. /\ IInv /\ RecKnows /\ rec.pc = "land" /\ rec.key = k /\ protected' = protected
    BY DEF RecLand, Doing, ProtectedInv
  <2> QED  BY <2>1, DevIsDevice, Parts DEF RecKnows, Recovery
<1>2. /\ mem.listing.todo = {} /\ Pushing /\ Pulling /\ AfterPush
      /\ (settled = "union" => dev.file = hub.object)
  BY <1>1 DEF UnionInv, RecAlone
<1>3. settled \in {"nothing", "disturbed", "pushed", "union"}
  BY DEF ProtectedInv, MountOK
<1> DEFINE steps == IF Stale(k) THEN <<dev>> ELSE RecPulled(dev, k, v)
<1>4. Commit(steps, mem) /\ NextFile /\ Undisturbed  BY DEF RecLand
<1> HIDE DEF steps
<1>5. CASE rec'.verb = "none" /\ settled' = "nothing"
  BY <1>5, NothingPromised
<1>6. CASE /\ dev' = Last(steps) /\ mem' = mem /\ hub' = hub /\ settled' = settled
           /\ rec'.verb = rec.verb /\ rec'.pc = "pick" /\ rec'.todo = rec.todo
           /\ rec'.moved = FALSE
  <2>1. ~ PushGoes  BY <1>1, <1>2 DEF Pushing, PushInHand
  <2>2. CASE settled \in {"nothing", "disturbed"}
    BY <1>2, <1>6, <2>1, <2>2, NothingPromised DEF PushGoes
  <2>3. CASE settled \in {"pushed", "union"}
    <3>1. rec.verb = "pull" /\ PullGoes
      BY <1>1, <1>2, <2>1, <2>3 DEF PushGoes, PullGoes, AfterPush, Fetches, Listens
    <3>2. /\ dev.file[k] = None /\ hub.object[k] = v /\ ~ rec.moved
          /\ \A i \in Keys : hub.object[i] # None => Yet(i) \/ dev.file[i] # None
          /\ mem.open = {} /\ Evened(dev, hub.object) /\ Fetches(dev, hub.object, mem)
      BY <1>1, <1>2, <2>3, <3>1 DEF Pulling, PullInHand, AfterPush, Fetches, Listens
    <3>3. ~ Stale(k)  BY <1>1, <3>2 DEF Stale
    <3>4. dev'.file = [dev.file EXCEPT ![k] = v] /\ EvenAt(dev, dev', k, v)
      BY <1>1, <1>6, <3>3, RecPulledEven DEF steps
    <3>5. Evened(dev', hub.object)
      BY <1>1, <3>2, <3>4 DEF EvenAt, Evened, Even, Device, DeviceOf
    <3>6. Fetches(dev', hub.object, mem)
      BY <1>1, <3>2 DEF Fetches, FetchOnly
    <3>7. settled # "union"
      BY <1>1, <1>2, <3>2 DEF Version, None
    <3>8. Pushing'  BY <1>6, <3>1 DEF Pushing, PushGoes
    <3>9. Pulling'
      <4>1. \A i \in Keys : i = k \/ dev'.file[i] = dev.file[i]
        BY <1>1, <3>4 DEF Device, DeviceOf
      <4>2. dev'.file[k] # None  BY <1>1, <3>4 DEF Device, DeviceOf, Version, None
      <4>3. \A i \in Keys : hub'.object[i] # None => Yet(i)' \/ dev'.file[i] # None
        BY <1>1, <1>6, <3>2, <4>1, <4>2 DEF Yet
      <4>4. PullInHand'  BY <1>6 DEF PullInHand
      <4> QED  BY <4>3, <4>4 DEF Pulling
    <3> QED
      BY <1>1, <1>2, <1>6, <3>5, <3>6, <3>7, <3>8, <3>9 DEF UnionInv, RecAlone, AfterPush
  <2> QED  BY <1>3, <2>2, <2>3
<1> QED  BY <1>1, <1>4, <1>5, <1>6, RecStep

\* The end of a recovery: a push that nobody disturbed leaves its files even,
\* and a pull after it leaves no object without a file.
LEMMA EndUnion ==
  ASSUME ProtectedInv, UnionInv, EndRecovery
  PROVE  UnionInv'
<1>1. /\ RecKnows /\ rec \in Recovery /\ IInv /\ dev \in Device /\ hub \in Hub
      /\ rec.verb \in {"push", "pull"} /\ protected /\ mem.eng.pc = "idle"
      /\ rec.pc = "pick" /\ rec.todo = {} /\ rec'.verb = "none"
      /\ UNCHANGED <<dev, mem, hub, protected>>
  <2>1. /\ IInv /\ RecKnows /\ rec.pc = "pick" /\ rec.todo = {} /\ rec'.verb = "none"
        /\ UNCHANGED <<dev, mem, hub, protected>>
    BY DEF EndRecovery, ProtectedInv, NoRecovery, vars
  <2> QED  BY <2>1, DevIsDevice, Parts DEF RecKnows, Recovery
<1>2. /\ mem.listing.todo = {} /\ Pushing /\ Pulling /\ AfterPush
      /\ (settled = "union" => dev.file = hub.object)
  BY <1>1 DEF UnionInv, RecAlone
<1>3. settled \in {"nothing", "disturbed", "pushed", "union"}
  BY DEF ProtectedInv, MountOK
<1>4. CASE settled = "disturbed" \/ mem.open # {}
  <2>1. settled' = "nothing"  BY <1>4 DEF EndRecovery
  <2> QED  BY <1>1, <2>1, NothingPromised
<1>5. CASE settled # "disturbed" /\ mem.open = {}
  <2>1. \/ settled' = settled
        \/ settled = "nothing" /\ rec.verb = "push" /\ settled' = "pushed"
        \/ settled = "pushed" /\ rec.verb = "pull" /\ settled' = "union"
    BY <1>3, <1>5 DEF EndRecovery
  <2>2. Fetches(dev, hub.object, mem)
    BY <1>1, <1>2, <1>5 DEF Fetches, Listens, FetchOnly
  <2>3. settled' \in {"pushed", "union"} => Evened(dev, hub.object)
    <3>1. rec.verb = "push" => Evened(dev, hub.object)
      BY <1>1, <1>2, <1>5 DEF Pushing, PushGoes, Yet, Evened
    <3> QED  BY <1>2, <2>1, <3>1 DEF AfterPush
  <2>4. settled = "pushed" /\ rec.verb = "pull" => dev.file = hub.object
    <3> SUFFICES ASSUME settled = "pushed", rec.verb = "pull"  PROVE dev.file = hub.object
      OBVIOUS
    <3>1. Evened(dev, hub.object) /\ \A k \in Keys : hub.object[k] # None => dev.file[k] # None
      BY <1>1, <1>2 DEF AfterPush, Pulling, PullGoes, Yet
    <3>2. \A k \in Keys : dev.file[k] = hub.object[k]  BY <3>1 DEF Evened, Even
    <3> QED  BY <1>1, <3>2 DEF Device, DeviceOf, Hub
  <2>5. settled' = "union" => dev.file = hub.object  BY <1>2, <2>1, <2>4
  <2>6. Pushing' /\ Pulling'  BY <1>1 DEF Pushing, PushGoes, Pulling, PullGoes
  <2> QED  BY <1>1, <2>2, <2>3, <2>5, <2>6 DEF UnionInv, RecAlone, AfterPush
<1> QED  BY <1>4, <1>5

\* The process dies; or the mount comes back without the option.
LEMMA RemountUnion ==
  ASSUME ProtectedInv, CrashInRecovery \/ Resume
  PROVE  UnionInv'
<1>1. CASE CrashInRecovery
  <2>1. IInv  BY DEF ProtectedInv
  <2>2. faults' = faults + 1 /\ faults + 1 # faults /\ rec'.verb = "none" /\ Undisturbed
    BY <1>1, <2>1, MirrorAssumption
       DEF CrashInRecovery, ProcessCrash, Crash, NoRecovery, IInv
  <2>3. settled' = "nothing"  BY <2>2 DEF Undisturbed
  <2> QED  BY <2>2, <2>3, NothingPromised
<1>2. CASE Resume
  BY <1>2 DEF Resume, UnionInv
<1> QED  BY <1>1, <1>2

\* The invariant is inductive.
LEMMA UnionNext ==
  ProtectedInv /\ UnionInv /\ ProtectedInv' /\ [ProtectedNext]_allVars => UnionInv'
<1> SUFFICES ASSUME ProtectedInv, UnionInv, ProtectedInv', [ProtectedNext]_allVars
             PROVE  UnionInv'
  OBVIOUS
<1>1. CASE UNCHANGED allVars
  BY <1>1 DEF allVars, vars, UnionInv, RecAlone, AfterPush, Pushing, PushGoes, PushInHand,
              Pulling, PullGoes, PullInHand, Yet
<1>2. ASSUME NEW k \in Keys, RecCommit(k) \/ RecLand(k) \/ Users(k) \/ RecPut(k)
      PROVE  UnionInv'
  BY <1>2, CommitUnion, LandUnion, UsersUnion, PutUnion
<1>3. ASSUME NEW k \in Keys, Take(k) \/ RecHead(k) \/ RecGet(k)
      PROVE  UnionInv'
  BY <1>3, TakeUnion, AskUnion
<1>4. CASE StartPushLocal \/ StartPullRemote \/ EndRecovery
  BY <1>4, TakeUnion, EndUnion
<1>5. CASE Engine \/ CrashInRecovery \/ Resume
  BY <1>5, EngineUnion, RemountUnion
<1> QED  BY <1>1, <1>2, <1>3, <1>4, <1>5 DEF ProtectedNext

\* A push and then a pull, with nobody in between and nothing failed, leave the
\* folder, the hub and the ledger the same, for every set of keys and however
\* often the protected engine ran between the two, or since (mirror/recovery.rs,
\* push_local and pull_remote; README.md:367, "Running `push` then `pull` leaves
\* both sides with the union").
THEOREM UnionReachedAlways == ProtectedSpec => []UnionReached
<1>1. ProtectedInv /\ UnionInv /\ ProtectedInv' /\ [ProtectedNext]_allVars => UnionInv'
  BY UnionNext
<1>2. UnionInv => UnionReached
  BY DEF UnionInv, AfterPush, UnionReached, Evened, Even
<1> QED  BY <1>1, <1>2, ProtectedInvariant, InitUnion, PTL DEF ProtectedSpec
=============================================================================
