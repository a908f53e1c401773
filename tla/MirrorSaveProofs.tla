-------------------------- MODULE MirrorSaveProofs --------------------------
(***************************************************************************)
(* No save is lost, for every set of keys, every number of saves, faults   *)
(* and renames and both delete modes.                                      *)
(*                                                                         *)
(* A save is Owed from the moment it is made until the hub has it or the   *)
(* user supersedes it.  The invariant has a part that the disk alone must  *)
(* satisfy, and which every write of every handler keeps, so that a crash  *)
(* may fall between any two of them (Safe); and a part about the entries,  *)
(* which a handler keeps only as a whole and a startup scan rebuilds       *)
(* (Tracked).  What is left says what the engine may have in hand (Plan,   *)
(* Uploaded), that versions are new when they are saved (Past), and that   *)
(* the engine runs only after the scan (Mounted).                          *)
(***************************************************************************)
EXTENDS MirrorSyncProofs

\* The saves the mirror still owes the hub, outside the windows of the findings.
Owed == ghost.unsent \ ghost.exempt

(***************************************************************************)
(* The disk: `d` a device, U the saves the hub has not, O those owed.      *)
(***************************************************************************)
\* The bytes of a save are under one name.
FileOnce(d, U) ==
  \A i, j \in Keys : d.file[i] = d.file[j] /\ d.file[i] \in U => i = j

\* A save that is owed is in the folder or in a conflict snapshot.
Held(d, O) ==
  \A v \in O : v \in d.snaps \/ \E k \in Keys : d.file[k] = v

\* A save that is owed is nobody's base, and no entry calls it synced.
Agreed(d, O) ==
  \A k \in Keys : /\ d.base[k] \notin O
                  /\ d.entry[k].state = "Clean" => d.entry[k].sha \notin O

Safe(d, U, O) == FileOnce(d, U) /\ Held(d, O) /\ Agreed(d, O)

(***************************************************************************)
(* The entries: W the keys that owe a flush.                               *)
(***************************************************************************)
\* A dirty entry that names a save still owed names the bytes of its file.
Names(d, k, O) ==
  d.entry[k].state = "Dirty" /\ d.entry[k].sha \in O => d.file[k] = d.entry[k].sha

\* A flushed file that is owed has a dirty entry that names it, and decide()
\* can tell it from the base.
Tracks(d, k, W, O) ==
  k \notin W /\ d.file[k] \in O =>
    /\ d.entry[k] \in {Intent(d.file[k]), Hashed(d.file[k], "Dirty")}
    /\ d.entry[k].hashed \/ d.base[k] # Unhashed

Tracked(d, K, W, O) == \A k \in K : Names(d, k, O) /\ Tracks(d, k, W, O)

(***************************************************************************)
(* The engine, the hub, and the mount.                                     *)
(***************************************************************************)
\* A dirty entry that names a save still owed.
Owes(e, O) == e.state = "Dirty" /\ e.sha \in O

\* No download is on its way for a key whose entry owed a save when it was read.
Plan(d, e, O) ==
  /\ e.pc \in {"pull", "get", "land"} => ~ Owes(e.seen, O)
  /\ e.pc = "take" => \A k \in Keys : e.key = k => ~ Owes(d.entry[k], O)

\* Nothing the hub holds, or held when it was asked, is waiting to be sent; and
\* the engine has in hand what it says is there.
InHand(e, U) ==
  /\ e.reply \notin U
  /\ e.pc \in {"land", "copied", "hash"} => e.sha \notin U
  /\ e.pc = "putdone" /\ e.out = "ok" => e.sha \notin U

Uploaded(h, m, U) ==
  /\ \A k \in Keys : h.object[k] \notin U /\ m.listing.remote[k] \notin U
  /\ InHand(m.eng, U)

\* No version is used before it is saved.
Past(h, m, g) ==
  /\ g.unsent \subseteq g.seen
  /\ g.seen \subseteq 0..g.next - 1
  /\ \A k \in Keys : h.object[k] \in 0..g.next - 1 /\ m.listing.remote[k] \in 0..g.next - 1
  /\ m.eng.reply \in 0..g.next - 1
  /\ m.eng.sha \in 0..g.next - 1

\* Handles are open and the engine runs only once the startup scan is over.
Mounted(m) ==
  /\ m.unflushed \subseteq m.open
  /\ m.eng.pc # "idle" => m.up
  /\ m.up => m.unscanned = {}
  /\ ~ m.up => m.open = {}

SaveInv ==
  /\ Safe(dev, ghost.unsent, Owed)
  /\ Tracked(dev, Keys \ mem.unscanned, mem.unflushed, Owed)
  /\ Plan(dev, mem.eng, Owed)
  /\ Uploaded(hub, mem, ghost.unsent)
  /\ Past(hub, mem, ghost)
  /\ Mounted(mem)

(***************************************************************************)
(* Sequences of devices of any set.                                        *)
(***************************************************************************)
Runs(D) == Seq(D) \ {<< >>}

\* Where a handler ends, and where a crash can leave it.
LEMMA RunsRead ==
  ASSUME NEW D, NEW s \in Runs(D)
  PROVE  /\ Last(s) \in D
         /\ \A i \in 1..Len(s) - 1 : s[i] \in D
<1>1. s \in Seq(D) /\ s # << >>  BY DEF Runs
<1>2. Len(s) \in Nat /\ Len(s) >= 1  BY <1>1
<1> QED  BY <1>1, <1>2 DEF Last

\* One write more.
LEMMA RunsAppend ==
  ASSUME NEW D, NEW s \in Runs(D), NEW d \in D
  PROVE  Append(s, d) \in Runs(D) /\ Last(Append(s, d)) = d
<1>1. s \in Seq(D)  BY DEF Runs
<1>2. Append(s, d) \in Seq(D)  BY <1>1
<1>3. Len(Append(s, d)) = Len(s) + 1 /\ Len(s) \in Nat  BY <1>1
<1>4. Len(<< >>) = 0  OBVIOUS
<1>5. Append(s, d) # << >>  BY <1>3, <1>4
<1>6. Append(s, d)[Len(s) + 1] = d  BY <1>1
<1> QED  BY <1>2, <1>3, <1>5, <1>6 DEF Runs, Last

\* One handler after another.
LEMMA RunsConcat ==
  ASSUME NEW D, NEW s \in Runs(D), NEW t \in Runs(D)
  PROVE  s \o t \in Runs(D) /\ Last(s \o t) = Last(t)
<1>1. s \in Seq(D) /\ t \in Seq(D) /\ s # << >> /\ t # << >>  BY DEF Runs
<1>2. s \o t \in Seq(D)  BY <1>1
<1>3. Len(s \o t) = Len(s) + Len(t) /\ Len(s) \in Nat /\ Len(t) \in Nat  BY <1>1
<1>4. Len(s) >= 1 /\ Len(t) >= 1  BY <1>1
<1>5. Len(<< >>) = 0  OBVIOUS
<1>6. s \o t # << >>  BY <1>3, <1>4, <1>5
<1>7. (s \o t)[Len(s) + Len(t)] = t[Len(t)]  BY <1>1, <1>3, <1>4
<1> QED  BY <1>2, <1>3, <1>6, <1>7 DEF Runs, Last

\* One write.
LEMMA RunsOne ==
  ASSUME NEW D, NEW a \in D
  PROVE  <<a>> \in Runs(D) /\ Last(<<a>>) = a
BY DEF Runs, Last

\* Two writes.
LEMMA RunsTwo ==
  ASSUME NEW D, NEW a \in D, NEW b \in D
  PROVE  <<a, b>> \in Runs(D) /\ Last(<<a, b>>) = b
BY DEF Runs, Last

\* Three writes.
LEMMA RunsThree ==
  ASSUME NEW D, NEW a \in D, NEW b \in D, NEW c \in D
  PROVE  <<a, b, c>> \in Runs(D) /\ Last(<<a, b, c>>) = c
BY DEF Runs, Last

\* Four writes.
LEMMA RunsFour ==
  ASSUME NEW D, NEW a \in D, NEW b \in D, NEW c \in D,
         NEW d \in D
  PROVE  <<a, b, c, d>> \in Runs(D) /\ Last(<<a, b, c, d>>) = d
BY DEF Runs, Last

\* Five writes.
LEMMA RunsFive ==
  ASSUME NEW D, NEW a \in D, NEW b \in D, NEW c \in D,
         NEW d \in D, NEW e \in D
  PROVE  <<a, b, c, d, e>> \in Runs(D) /\ Last(<<a, b, c, d, e>>) = e
BY DEF Runs, Last

(***************************************************************************)
(* Writes that leave the bytes alone: the queue, the upload-pending marks, *)
(* the conflict records and the trash say nothing of where a save is.      *)
(***************************************************************************)
SameBytes(d, e) ==
  d.file = e.file /\ d.entry = e.entry /\ d.base = e.base /\ d.snaps = e.snaps

\* The queue.
LEMMA QueueBytes ==
  ASSUME NEW S, NEW d \in DeviceOf(S), NEW k, NEW id, NEW m, NEW v, NEW j, NEW dropped
  PROVE  /\ SameBytes(d, RemoveJobsFor(d, k))
         /\ SameBytes(d, Enqueue(d, id, m, v))
         /\ SameBytes(d, EnqueuePush(d, k))
         /\ SameBytes(d, EnsureJob(d, id, v))
         /\ SameBytes(d, Requeue(d, dropped, k))
         /\ SameBytes(d, Done(d)) /\ SameBytes(d, Unmark(d)) /\ SameBytes(d, Mark(d, j))
<1>1. \A js : SameBytes(d, [d EXCEPT !.jobs = js])  BY DEF SameBytes, DeviceOf
<1>2. SameBytes(d, d)  BY DEF SameBytes
<1> QED  BY <1>1, <1>2 DEF RemoveJobsFor, Enqueue, EnqueuePush, EnsureJob, Requeue, Done, Unmark, Mark

\* The records that a file's bytes do not depend on.
LEMMA RecordBytes ==
  ASSUME NEW S, NEW d \in DeviceOf(S), NEW k, NEW v
  PROVE  /\ SameBytes(d, SetPending(d, k, v))
         /\ SameBytes(d, SetConflict(d, k, v))
         /\ SameBytes(d, SetTrash(d, k, v))
BY DEF SameBytes, DeviceOf, SetPending, SetConflict, SetTrash

\* Such a write keeps whatever is said of the bytes.
LEMMA SameBytesSay ==
  ASSUME NEW d, NEW e, SameBytes(d, e), NEW U, NEW O, NEW K, NEW W, NEW eng
  PROVE  /\ Safe(d, U, O) <=> Safe(e, U, O)
         /\ Tracked(d, K, W, O) <=> Tracked(e, K, W, O)
         /\ Plan(d, eng, O) <=> Plan(e, eng, O)
BY DEF SameBytes, Safe, FileOnce, Held, Agreed, Tracked, Names, Tracks, Plan

(***************************************************************************)
(* Writes that forget: they may call the entry of one key anything but     *)
(* synced, take bases away and keep snapshots, and they leave the folder   *)
(* alone.  They endanger no save.                                          *)
(***************************************************************************)
Milder(d, e, k) ==
  /\ e.file = d.file /\ d.snaps \subseteq e.snaps
  /\ \A i \in Keys : e.base[i] \in {d.base[i], None}
  /\ \A i \in Keys : e.entry[i] = d.entry[i] \/ (i = k /\ e.entry[i].state # "Clean")

MildOf(S, d, k) == {e \in DeviceOf(S) : Milder(d, e, k)}

\* To begin with.
LEMMA MildSelf ==
  ASSUME NEW S, NEW d \in DeviceOf(S), NEW k \in Keys
  PROVE  d \in MildOf(S, d, k)
BY DEF MildOf, Milder

\* Writes that leave the bytes alone.
LEMMA MildSame ==
  ASSUME NEW S, NEW d \in DeviceOf(S), NEW k \in Keys, NEW e \in MildOf(S, d, k),
         NEW f \in DeviceOf(S), SameBytes(e, f)
  PROVE  f \in MildOf(S, d, k)
BY DEF MildOf, Milder, SameBytes

\* The entry, the base, the snapshots.
LEMMA MildSet ==
  ASSUME NEW S, NEW d \in DeviceOf(S), NEW k \in Keys, NEW e \in MildOf(S, d, k)
  PROVE  /\ \A r \in EntryOf(S) : r.state # "Clean" => SetEntry(e, k, r) \in MildOf(S, d, k)
         /\ \A s \in EntryStates \ {"Clean"} : SetState(e, k, s) \in MildOf(S, d, k)
         /\ \A i \in Keys : SetBase(e, i, None) \in MildOf(S, d, k)
         /\ \A v \in S : Keep(e, v) \in MildOf(S, d, k)
<1>1. e \in DeviceOf(S) /\ Milder(d, e, k)  BY DEF MildOf
<1>2. ASSUME NEW r \in EntryOf(S), r.state # "Clean"
      PROVE  SetEntry(e, k, r) \in MildOf(S, d, k)
  <2>1. SetEntry(e, k, r) \in DeviceOf(S)  BY <1>1, SetEntryDevice
  <2>2. Milder(d, SetEntry(e, k, r), k)
    BY <1>1, <1>2 DEF Milder, SetEntry, DeviceOf
  <2> QED  BY <2>1, <2>2 DEF MildOf
<1>3. ASSUME NEW s \in EntryStates \ {"Clean"}
      PROVE  SetState(e, k, s) \in MildOf(S, d, k)
  <2>1. e.entry[k] \in EntryOf(S)  BY <1>1 DEF DeviceOf
  <2>2. /\ [e.entry[k] EXCEPT !.state = s] \in EntryOf(S)
        /\ [e.entry[k] EXCEPT !.state = s].state = s
    BY <2>1 DEF EntryOf
  <2> QED  BY <1>2, <2>2 DEF SetState
<1>4. ASSUME NEW i \in Keys  PROVE SetBase(e, i, None) \in MildOf(S, d, k)
  <2>1. SetBase(e, i, None) \in DeviceOf(S)  BY <1>1, SetBaseDevice
  <2>2. Milder(d, SetBase(e, i, None), k)  BY <1>1 DEF Milder, SetBase, DeviceOf
  <2> QED  BY <2>1, <2>2 DEF MildOf
<1>5. ASSUME NEW v \in S  PROVE Keep(e, v) \in MildOf(S, d, k)
  <2>1. Keep(e, v) \in DeviceOf(S)  BY <1>1, KeepDevice
  <2>2. Milder(d, Keep(e, v), k)  BY <1>1 DEF Milder, Keep, DeviceOf
  <2> QED  BY <2>1, <2>2 DEF MildOf
<1> QED  BY <1>2, <1>3, <1>4, <1>5

\* The queue and the records.
LEMMA MildQueue ==
  ASSUME NEW S, NEW d \in DeviceOf(S), NEW k \in Keys, NEW e \in MildOf(S, d, k)
  PROVE  /\ \A i \in Keys : RemoveJobsFor(e, i) \in MildOf(S, d, k)
         /\ \A id \in JobId, v \in S \cup {None} : EnsureJob(e, id, v) \in MildOf(S, d, k)
         /\ \A id \in JobId : Enqueue(e, id, None, None) \in MildOf(S, d, k)
         /\ \A i \in Keys : EnqueuePush(e, i) \in MildOf(S, d, k)
         /\ Done(e) \in MildOf(S, d, k) /\ Unmark(e) \in MildOf(S, d, k)
         /\ \A i \in Keys, v \in S \cup {None} :
              /\ SetPending(e, i, v) \in MildOf(S, d, k)
              /\ SetConflict(e, i, v) \in MildOf(S, d, k)
              /\ SetTrash(e, i, v) \in MildOf(S, d, k)
<1>1. e \in DeviceOf(S)  BY DEF MildOf
<1>2. \A i \in Keys : RemoveJobsFor(e, i) \in MildOf(S, d, k)
  BY <1>1, RemoveJobsForDevice, QueueBytes, MildSame
<1>3. \A id \in JobId, v \in S \cup {None} : EnsureJob(e, id, v) \in MildOf(S, d, k)
  BY <1>1, EnsureJobDevice, QueueBytes, MildSame
<1>4. \A id \in JobId : Enqueue(e, id, None, None) \in MildOf(S, d, k)
  BY <1>1, EnqueueDevice, QueueBytes, MildSame
<1>5. \A i \in Keys : EnqueuePush(e, i) \in MildOf(S, d, k)
  BY <1>1, EnqueuePushDevice, QueueBytes, MildSame
<1>6. Done(e) \in MildOf(S, d, k) /\ Unmark(e) \in MildOf(S, d, k)
  BY <1>1, DoneDevice, MarkDevice, QueueBytes, MildSame
<1>7. \A i \in Keys, v \in S \cup {None} :
        /\ SetPending(e, i, v) \in MildOf(S, d, k)
        /\ SetConflict(e, i, v) \in MildOf(S, d, k)
        /\ SetTrash(e, i, v) \in MildOf(S, d, k)
  BY <1>1, SetRecordDevice, RecordBytes, MildSame
<1> QED  BY <1>2, <1>3, <1>4, <1>5, <1>6, <1>7

\* What was safe stays safe, of fewer saves too; and every other key is tracked
\* as it was.
LEMMA MildSafe ==
  ASSUME NEW S, NEW d \in DeviceOf(S), NEW k \in Keys, NEW e \in MildOf(S, d, k),
         NEW U, NEW O, NEW V \in SUBSET U, NEW P \in SUBSET O,
         None \notin O, Safe(d, U, O)
  PROVE  Safe(e, V, P)
BY DEF MildOf, Milder, Safe, FileOnce, Held, Agreed

LEMMA MildTracked ==
  ASSUME NEW S, NEW d \in DeviceOf(S), NEW k \in Keys, NEW e \in MildOf(S, d, k),
         NEW O, NEW P \in SUBSET O, NEW W, NEW X, W \ {k} \subseteq X, NEW K, NEW L,
         K \subseteq Keys, K \subseteq L \cup {k},
         Tracked(d, L, W, O), Names(e, k, P), Tracks(e, k, X, P)
  PROVE  Tracked(e, K, X, P)
<1> SUFFICES ASSUME NEW i \in K, i # k  PROVE Names(e, i, P) /\ Tracks(e, i, X, P)
  BY DEF Tracked
<1>1. e.entry[i] = d.entry[i] /\ e.file[i] = d.file[i] /\ e.base[i] \in {d.base[i], None}
  BY DEF MildOf, Milder
<1>2. Names(d, i, O) /\ Tracks(d, i, W, O)  BY DEF Tracked
<1> QED  BY <1>1, <1>2 DEF Names, Tracks, None, Unhashed

(***************************************************************************)
(* Commit and Finish: a handler whose every write is safe, and which ends  *)
(* with the entries tracked, keeps the invariant.                          *)
(***************************************************************************)
\* No save is made, none comes back, and nothing unheard of enters the folder.
Quieter ==
  /\ ghost'.next = ghost.next
  /\ ghost'.unsent \subseteq ghost.unsent
  /\ ghost.seen \subseteq ghost'.seen /\ ghost'.seen \subseteq 0..ghost.next - 1

\* The memory `m` goes with this hub and the history after the step.
Sound(m) ==
  /\ Uploaded(hub, m, ghost'.unsent)
  /\ Past(hub, m, ghost')
  /\ Mounted(m)

SafeOf(S) == {d \in DeviceOf(S) : Safe(d, ghost'.unsent, Owed')}

\* The history, and the digests that are no save.
LEMMA GhostFacts ==
  ASSUME IInv
  PROVE  /\ ghost.next \in Nat /\ 0 \in 0..ghost.next - 1
         /\ None \notin ghost.unsent /\ Unhashed \notin ghost.unsent
         /\ None \notin Owed /\ Unhashed \notin Owed
         /\ ghost.unsent \subseteq Version
BY LedgerAssumption DEF IInv, Ghost, Version, None, Unhashed, Owed

\* A history that grew no saves says no more of memory than it did.
LEMMA QuieterSound ==
  ASSUME IInv, SaveInv, Quieter, NEW m,
         m.listing.remote = mem.listing.remote,
         m.up = mem.up, m.open = mem.open, m.unflushed = mem.unflushed,
         m.unscanned = mem.unscanned,
         InHand(m.eng, ghost'.unsent), m.eng.pc # "idle" => mem.up,
         m.eng.reply \in 0..ghost.next - 1, m.eng.sha \in 0..ghost.next - 1
  PROVE  Sound(m)
BY DEF SaveInv, Quieter, Sound, Uploaded, Past, Mounted

\* What the engine in no hurry says.
LEMMA IdleSound ==
  ASSUME IInv
  PROVE  /\ \A U \in SUBSET ghost.unsent : InHand(Idle, U)
         /\ Idle.reply \in 0..ghost.next - 1 /\ Idle.sha \in 0..ghost.next - 1
         /\ Idle.pc = "idle"
         /\ \A d, O : Plan(d, Idle, O)
BY GhostFacts DEF Idle, InHand, None, Plan

\* The engine that has just set out, with an answer or without.
LEMMA AtSound ==
  ASSUME IInv, NEW k, NEW pc, NEW r \in 0..ghost.next - 1, r \notin ghost.unsent
  PROVE  /\ \A U \in SUBSET ghost.unsent :
              InHand(At(pc, k), U) /\ InHand(Told(k, r), U)
         /\ At(pc, k).pc = pc /\ Told(k, r).pc = "head" /\ At(pc, k).key = k
         /\ At(pc, k).reply \in 0..ghost.next - 1 /\ At(pc, k).sha \in 0..ghost.next - 1
         /\ Told(k, r).reply \in 0..ghost.next - 1 /\ Told(k, r).sha \in 0..ghost.next - 1
         /\ \A d, O : Plan(d, Told(k, r), O)
         /\ pc \notin {"pull", "get", "land", "take"} => \A d, O : Plan(d, At(pc, k), O)
BY GhostFacts DEF At, Told, Idle, InHand, None, Plan

\* A session that starts over on such a device knows no more than it says.
LEMMA RestartSaves ==
  ASSUME IInv, SaveInv, Quieter, Safe(dev', ghost'.unsent, Owed'),
         mem' = Booting, hub'.object = hub.object
  PROVE  SaveInv'
<1>1. mem'.unscanned = Keys /\ mem'.eng = Idle /\ mem'.listing = NoListing
  BY DEF Booting
<1>2. Tracked(dev', Keys \ mem'.unscanned, mem'.unflushed, Owed')
  BY <1>1 DEF Tracked
<1>3. Plan(dev', mem'.eng, Owed')  BY <1>1, IdleSound
<1>4. Uploaded(hub', mem', ghost'.unsent)
  <2>1. \A k \in Keys : hub.object[k] \notin ghost'.unsent
    BY DEF SaveInv, Uploaded, Quieter
  <2>2. \A k \in Keys : NoListing.remote[k] = None  BY DEF NoListing
  <2>3. None \notin ghost'.unsent  BY GhostFacts DEF Quieter
  <2>4. InHand(Idle, ghost'.unsent)  BY IdleSound DEF Quieter
  <2> QED  BY <1>1, <2>1, <2>2, <2>3, <2>4 DEF Uploaded
<1>5. Past(hub', mem', ghost')
  <2>1. \A k \in Keys : NoListing.remote[k] = None  BY DEF NoListing
  <2> QED  BY <1>1, <2>1, GhostFacts, IdleSound DEF SaveInv, Past, Quieter, None
<1>6. Mounted(mem')  BY DEF Booting, Mounted, Idle
<1> QED  BY <1>2, <1>3, <1>4, <1>5, <1>6 DEF SaveInv

\* A crash after any safe write.
LEMMA CrashSaves ==
  ASSUME IInv, SaveInv, Quieter, NEW S, NEW d \in SafeOf(S), Crash(d)
  PROVE  SaveInv'
<1>1. d \in DeviceOf(S) /\ Safe(d, ghost'.unsent, Owed')  BY DEF SafeOf
<1>2. dev' = Unmark(d) /\ mem' = Booting /\ hub'.object = hub.object
  BY DEF Crash, IInv, Hub
<1>3. Safe(dev', ghost'.unsent, Owed')  BY <1>1, <1>2, QueueBytes, SameBytesSay
<1> QED  BY <1>2, <1>3, RestartSaves

\* The writes of a handler, or a crash between two of them.
LEMMA CommitSaves ==
  ASSUME IInv, SaveInv, Quieter, NEW S, NEW steps \in Runs(SafeOf(S)), NEW m,
         Tracked(Last(steps), Keys \ m.unscanned, m.unflushed, Owed'),
         Plan(Last(steps), m.eng, Owed'), Sound(m),
         Commit(steps, m)
  PROVE  SaveInv'
<1>1. Last(steps) \in SafeOf(S) /\ \A i \in 1..Len(steps) - 1 : steps[i] \in SafeOf(S)
  BY RunsRead
<1>2. CASE dev' = Last(steps) /\ mem' = m /\ UNCHANGED <<hub, faults>>
  BY <1>1, <1>2 DEF SafeOf, SaveInv, Sound
<1>3. CASE \E i \in 1..Len(steps) - 1 : Crash(steps[i])
  BY <1>1, <1>3, CrashSaves
<1> QED  BY <1>2, <1>3 DEF Commit

\* The same, and the engine is done.
LEMMA FinishSaves ==
  ASSUME IInv, SaveInv, Quieter, NEW S, NEW steps \in Runs(SafeOf(S)),
         NEW m \in MemoryOf(ghost.seen),
         Tracked(Last(steps), Keys \ m.unscanned, m.unflushed, Owed'),
         m.listing.remote = mem.listing.remote,
         Mounted([m EXCEPT !.eng = Idle]),
         Finish(steps, m)
  PROVE  SaveInv'
<1> DEFINE n == [m EXCEPT !.eng = Idle]
           done == Done(Last(steps))
<1>1. Last(steps) \in SafeOf(S)  BY RunsRead
<1>2. SameBytes(Last(steps), done)  BY <1>1, QueueBytes DEF SafeOf
<1>3. done \in SafeOf(S)
  BY <1>1, <1>2, DoneDevice, SameBytesSay DEF SafeOf
<1> HIDE DEF done
<1>4. Append(steps, done) \in Runs(SafeOf(S)) /\ Last(Append(steps, done)) = done
  BY <1>3, RunsAppend
<1>5. /\ n.unscanned = m.unscanned /\ n.unflushed = m.unflushed
      /\ n.eng = Idle /\ n.listing = m.listing
  BY DEF MemoryOf
<1> HIDE DEF n
<1>6. Tracked(done, Keys \ n.unscanned, n.unflushed, Owed')
  BY <1>2, <1>5, SameBytesSay
<1>7. Plan(done, n.eng, Owed')  BY <1>5, IdleSound
<1>8. Sound(n)
  <2>1. Mounted(n)  BY DEF n
  <2>2. InHand(n.eng, ghost'.unsent)  BY <1>5, IdleSound DEF Quieter
  <2> QED  BY <1>5, <2>1, <2>2, IdleSound DEF SaveInv, Quieter, Sound, Uploaded, Past
<1>9. Commit(Append(steps, done), n)  BY DEF Finish, n, done
<1> QED  BY <1>4, <1>6, <1>7, <1>8, <1>9, CommitSaves

(***************************************************************************)
(* The same for the handlers that only forget.                             *)
(***************************************************************************)
\* No save is owed again.
Paid == Owed' \subseteq Owed

\* From a safe device every write of such a handler is safe, and it keeps the
\* invariant if it does so at its key.
LEMMA MildRuns ==
  ASSUME IInv, NEW S, NEW d \in DeviceOf(S), Safe(d, ghost'.unsent, Owed'), NEW k \in Keys,
         NEW steps \in Runs(MildOf(S, d, k)), Quieter
  PROVE  /\ steps \in Runs(SafeOf(S))
         /\ Last(steps) \in MildOf(S, d, k)
<1>1. MildOf(S, d, k) \subseteq SafeOf(S)
  <2> SUFFICES ASSUME NEW e \in MildOf(S, d, k)  PROVE e \in SafeOf(S)
    OBVIOUS
  <2>1. None \notin Owed'  BY GhostFacts DEF Quieter, Owed
  <2>2. Safe(e, ghost'.unsent, Owed')  BY <2>1, MildSafe
  <2> QED  BY <2>2 DEF SafeOf, MildOf
<1>2. Last(steps) \in MildOf(S, d, k)  BY RunsRead
<1>3. steps \in Runs(SafeOf(S))  BY <1>1 DEF Runs
<1> QED  BY <1>2, <1>3

LEMMA MildCommit ==
  ASSUME IInv, SaveInv, Quieter, NEW S, NEW d \in DeviceOf(S),
         Safe(d, ghost'.unsent, Owed'), NEW k \in Keys,
         NEW steps \in Runs(MildOf(S, d, k)), NEW m, NEW L, NEW W,
         Tracked(d, L, W, Owed'), Keys \ m.unscanned \subseteq L \cup {k},
         W \ {k} \subseteq m.unflushed,
         Names(Last(steps), k, Owed'), Tracks(Last(steps), k, m.unflushed, Owed'),
         Plan(Last(steps), m.eng, Owed'), Sound(m),
         Commit(steps, m)
  PROVE  SaveInv'
<1>1. steps \in Runs(SafeOf(S)) /\ Last(steps) \in MildOf(S, d, k)  BY MildRuns
<1>2. Tracked(Last(steps), Keys \ m.unscanned, m.unflushed, Owed')
  BY <1>1, MildTracked
<1> QED  BY <1>1, <1>2, CommitSaves

LEMMA MildFinish ==
  ASSUME IInv, SaveInv, Quieter, NEW S, NEW d \in DeviceOf(S),
         Safe(d, ghost'.unsent, Owed'), NEW k \in Keys,
         NEW steps \in Runs(MildOf(S, d, k)), NEW m \in MemoryOf(ghost.seen), NEW L, NEW W,
         Tracked(d, L, W, Owed'), Keys \ m.unscanned \subseteq L \cup {k},
         W \ {k} \subseteq m.unflushed,
         Names(Last(steps), k, Owed'), Tracks(Last(steps), k, m.unflushed, Owed'),
         m.listing.remote = mem.listing.remote,
         Mounted([m EXCEPT !.eng = Idle]),
         Finish(steps, m)
  PROVE  SaveInv'
<1>1. steps \in Runs(SafeOf(S)) /\ Last(steps) \in MildOf(S, d, k)  BY MildRuns
<1>2. Tracked(Last(steps), Keys \ m.unscanned, m.unflushed, Owed')
  BY <1>1, MildTracked
<1> QED  BY <1>1, <1>2, FinishSaves

\* The device as it is, when no save is owed again.
LEMMA StillSafe ==
  ASSUME IInv, SaveInv, Quieter, Paid
  PROVE  /\ dev \in DeviceOf(ghost.seen)
         /\ Safe(dev, ghost'.unsent, Owed')
         /\ Tracked(dev, Keys \ mem.unscanned, mem.unflushed, Owed')
         /\ Plan(dev, mem.eng, Owed')
<1>1. dev \in DeviceOf(ghost.seen)  BY Parts
<1>2. Safe(dev, ghost'.unsent, Owed')
  BY DEF SaveInv, Quieter, Paid, Safe, FileOnce, Held, Agreed
<1>3. Tracked(dev, Keys \ mem.unscanned, mem.unflushed, Owed')
  BY DEF SaveInv, Tracked, Names, Tracks, Paid
<1>4. Plan(dev, mem.eng, Owed')  BY DEF SaveInv, Plan, Owes, Paid
<1> QED  BY <1>1, <1>2, <1>3, <1>4

\* A history left alone, or with a misread tombstone exempt.
LEMMA SameGhost ==
  ASSUME IInv, SaveInv, UNCHANGED ghost
  PROVE  Quieter /\ Paid /\ ghost'.unsent = ghost.unsent /\ Owed' = Owed
BY DEF SaveInv, Past, Quieter, Paid, Owed

LEMMA MisreadGhost ==
  ASSUME IInv, SaveInv, NEW k \in Keys, Misreads({k})
  PROVE  /\ Quieter /\ Paid /\ ghost'.unsent = ghost.unsent
         /\ dev.entry[k].state = "Tombstone" => dev.entry[k].sha \notin Owed'
<1>1. /\ ghost'.next = ghost.next /\ ghost'.unsent = ghost.unsent
      /\ ghost'.seen = ghost.seen /\ ghost'.exempt = ghost.exempt \cup Misread({k})
  BY DEF IInv, Ghost, Misreads
<1>2. dev.entry[k].state = "Tombstone" /\ dev.entry[k].sha \in ghost.unsent
        => dev.entry[k].sha \in Misread({k})
  BY DEF Misread
<1> QED  BY <1>1, <1>2 DEF SaveInv, Past, Quieter, Paid, Owed

(***************************************************************************)
(* The same for the handlers that leave the bytes alone.                   *)
(***************************************************************************)
SameOf(S, d) == {e \in DeviceOf(S) : SameBytes(d, e)}

\* Such handlers.
LEMMA SameRuns ==
  ASSUME IInv
  PROVE  /\ <<dev>> \in Runs(SameOf(ghost.seen, dev))
         /\ <<Unmark(dev)>> \in Runs(SameOf(ghost.seen, dev))
         /\ \A j \in dev.jobs : /\ <<Mark(dev, j)>> \in Runs(SameOf(ghost.seen, dev))
                                /\ <<Done(Mark(dev, j))>> \in Runs(SameOf(ghost.seen, dev))
         /\ \A k \in Keys : <<SetConflict(dev, k, None)>> \in Runs(SameOf(ghost.seen, dev))
<1> DEFINE Same == SameOf(ghost.seen, dev)
<1>1. \A d \in Same : <<d>> \in Runs(Same)  BY RunsOne
<1>2. dev \in DeviceOf(ghost.seen)  BY Parts
<1>3. dev \in Same  BY <1>2 DEF SameOf, SameBytes
<1>4. Unmark(dev) \in Same  BY <1>2, MarkDevice, QueueBytes DEF SameOf
<1>5. ASSUME NEW j \in dev.jobs  PROVE Mark(dev, j) \in Same /\ Done(Mark(dev, j)) \in Same
  <2>1. Mark(dev, j) \in DeviceOf(ghost.seen) /\ SameBytes(dev, Mark(dev, j))
    BY <1>2, MarkDevice, QueueBytes
  <2>2. /\ Done(Mark(dev, j)) \in DeviceOf(ghost.seen)
        /\ SameBytes(Mark(dev, j), Done(Mark(dev, j)))
    BY <2>1, DoneDevice, QueueBytes
  <2> QED  BY <2>1, <2>2 DEF SameOf, SameBytes
<1>6. \A k \in Keys : SetConflict(dev, k, None) \in Same
  BY <1>2, SetRecordDevice, RecordBytes DEF SameOf
<1> QED  BY <1>1, <1>3, <1>4, <1>5, <1>6

\* They keep the invariant if the memory does.
LEMMA SameSaves ==
  ASSUME IInv, SaveInv, Quieter, Paid, NEW steps \in Runs(SameOf(ghost.seen, dev)), NEW m,
         m.unscanned = mem.unscanned, m.unflushed = mem.unflushed
  PROVE  /\ steps \in Runs(SafeOf(ghost.seen))
         /\ Tracked(Last(steps), Keys \ m.unscanned, m.unflushed, Owed')
         /\ \A e : Plan(dev, e, Owed') => Plan(Last(steps), e, Owed')
<1>1. Safe(dev, ghost'.unsent, Owed')  BY StillSafe
<1>2. SameOf(ghost.seen, dev) \subseteq SafeOf(ghost.seen)
  BY <1>1, SameBytesSay DEF SameOf, SafeOf
<1>3. steps \in Runs(SafeOf(ghost.seen))  BY <1>2 DEF Runs
<1>4. SameBytes(dev, Last(steps))  BY RunsRead DEF SameOf
<1>5. Tracked(dev, Keys \ m.unscanned, m.unflushed, Owed')  BY StillSafe
<1> QED  BY <1>3, <1>4, <1>5, SameBytesSay

LEMMA SameCommit ==
  ASSUME IInv, SaveInv, Quieter, Paid, NEW steps \in Runs(SameOf(ghost.seen, dev)), NEW m,
         m.unscanned = mem.unscanned, m.unflushed = mem.unflushed,
         Plan(dev, m.eng, Owed'), Sound(m), Commit(steps, m)
  PROVE  SaveInv'
BY SameSaves, CommitSaves

LEMMA SameFinish ==
  ASSUME IInv, SaveInv, Quieter, Paid, NEW steps \in Runs(SameOf(ghost.seen, dev)),
         NEW m \in MemoryOf(ghost.seen),
         m.unscanned = mem.unscanned, m.unflushed = mem.unflushed,
         m.listing.remote = mem.listing.remote, Mounted([m EXCEPT !.eng = Idle]),
         Finish(steps, m)
  PROVE  SaveInv'
BY SameSaves, FinishSaves

\* The memory of a handler that engages the engine elsewhere.
LEMMA EngageSound ==
  ASSUME IInv, SaveInv, Quieter, NEW e, InHand(e, ghost'.unsent), e.pc # "idle" => mem.up,
         e.reply \in 0..ghost.next - 1, e.sha \in 0..ghost.next - 1
  PROVE  /\ Sound(Engage(e)) /\ Engage(e).eng = e
         /\ Engage(e).unscanned = mem.unscanned /\ Engage(e).unflushed = mem.unflushed
<1>1. mem \in MemoryOf(ghost.seen)  BY Parts
<1>2. /\ Engage(e).eng = e /\ Engage(e).listing = mem.listing /\ Engage(e).up = mem.up
      /\ Engage(e).open = mem.open /\ Engage(e).unflushed = mem.unflushed
      /\ Engage(e).unscanned = mem.unscanned
  BY <1>1 DEF Engage, MemoryOf
<1> QED  BY <1>2, QuieterSound

\* The memory of a handler that selects a job.
LEMMA SelectedSound ==
  ASSUME IInv, SaveInv, Quieter, NEW j, NEW e, InHand(e, ghost'.unsent),
         e.pc # "idle" => mem.up,
         e.reply \in 0..ghost.next - 1, e.sha \in 0..ghost.next - 1
  PROVE  /\ Sound(Selected(j, e)) /\ Selected(j, e).eng = e
         /\ Selected(j, e).unscanned = mem.unscanned
         /\ Selected(j, e).unflushed = mem.unflushed
<1> DEFINE m == Selected(j, e)
<1>1. mem \in MemoryOf(ghost.seen)  BY Parts
<1>2. Touched(j).remote = mem.listing.remote  BY <1>1 DEF MemoryOf, Listing, Touched
<1>3. /\ m.eng = e /\ m.listing = Touched(j) /\ m.up = mem.up
      /\ m.open = mem.open /\ m.unflushed = mem.unflushed
      /\ m.unscanned = mem.unscanned
  BY <1>1 DEF Selected, MemoryOf
<1> QED  BY <1>2, <1>3, QuieterSound

\* The memory of a handler that is done with its key.
LEMMA DoneMemory ==
  ASSUME IInv, SaveInv, NEW m \in {mem} \cup {[mem EXCEPT !.recheck = @ \cup {k}] : k \in Keys}
                                        \cup {[mem EXCEPT !.skipped = @ \cup {k}] : k \in Keys}
  PROVE  /\ m \in MemoryOf(ghost.seen) /\ m.open = mem.open
         /\ m.unscanned = mem.unscanned /\ m.unflushed = mem.unflushed
         /\ m.listing.remote = mem.listing.remote /\ Mounted([m EXCEPT !.eng = Idle])
<1>1. mem \in MemoryOf(ghost.seen)  BY Parts
<1>2. m \in MemoryOf(ghost.seen)  BY <1>1, RecheckMemory
<1>3. /\ m.open = mem.open /\ m.unscanned = mem.unscanned /\ m.unflushed = mem.unflushed
      /\ m.listing = mem.listing /\ m.up = mem.up
  BY <1>1 DEF MemoryOf
<1> QED  BY <1>2, <1>3 DEF SaveInv, Mounted, MemoryOf, Idle

(***************************************************************************)
(* The session threads.                                                    *)
(***************************************************************************)
\* What the folder and the ledger name was saved before the next save.
LEMMA KnownBefore ==
  ASSUME IInv, SaveInv
  PROVE  /\ ghost.next \in Nat /\ ghost.seen \subseteq 0..ghost.next - 1
         /\ \A k \in Keys : /\ dev.file[k] \in 0..ghost.next - 1
                            /\ dev.entry[k].sha \in 0..ghost.next - 1
                            /\ dev.base[k] \in 0..ghost.next - 1 \cup {Unhashed}
                            /\ hub.object[k] \in 0..ghost.next - 1
                            /\ mem.listing.remote[k] \in 0..ghost.next - 1
         /\ mem.eng.seen.sha \in 0..ghost.next - 1
         /\ mem.eng.reply \in 0..ghost.next - 1 /\ mem.eng.sha \in 0..ghost.next - 1
<1>1. ghost.next \in Nat /\ 0 \in 0..ghost.next - 1  BY GhostFacts
<1>2. ghost.seen \subseteq 0..ghost.next - 1  BY DEF SaveInv, Past
<1>3. ghost.seen \cup {None} \subseteq 0..ghost.next - 1  BY <1>1, <1>2 DEF None
<1>4. ASSUME NEW k \in Keys
      PROVE  /\ dev.file[k] \in ghost.seen \cup {None}
             /\ dev.entry[k].sha \in ghost.seen \cup {None}
             /\ dev.base[k] \in ghost.seen \cup {None, Unhashed}
  BY Parts, DeviceReads DEF EntryOf
<1>5. mem.eng.seen.sha \in ghost.seen \cup {None}  BY Parts DEF EngineOf, EntryOf
<1> QED  BY <1>1, <1>2, <1>3, <1>4, <1>5 DEF SaveInv, Past

\* A new version in the folder, owed or (around the mount) not until a scan
\* has read it: no record names it yet, and what it replaces is owed no more.
LEMMA NewVersionSafe ==
  ASSUME IInv, SaveInv, NEW k \in Keys, NEW v, v = ghost.next,
         NEW U, U = (ghost.unsent \ {dev.file[k]}) \cup {v},
         NEW O, O \subseteq (Owed \ {dev.file[k]}) \cup {v},
         NEW d, d = SetFile(dev, k, v)
  PROVE  /\ Safe(d, U, O)
         /\ \A i \in Keys \ mem.unscanned : Names(d, i, O)
         /\ \A i \in Keys \ mem.unscanned : i # k => Tracks(d, i, mem.unflushed, O)
         /\ Plan(d, mem.eng, O)
<1> DEFINE B == 0..ghost.next - 1
<1>1. v \notin B /\ v # Unhashed  BY KnownBefore DEF Unhashed
<1>2. /\ d.file = [dev.file EXCEPT ![k] = v] /\ DOMAIN dev.file = Keys
      /\ d.entry = dev.entry /\ d.base = dev.base /\ d.snaps = dev.snaps
  BY Parts DEF DeviceOf, SetFile
<1>3. /\ \A i \in Keys : dev.file[i] # v /\ dev.entry[i].sha # v /\ dev.base[i] # v
      /\ mem.eng.seen.sha # v
  BY <1>1, KnownBefore
<1>4. d.file[k] = v /\ \A i \in Keys : i # k => d.file[i] = dev.file[i]  BY <1>2
<1>5. FileOnce(d, U)
  BY <1>3, <1>4 DEF SaveInv, Safe, FileOnce
<1>6. Held(d, O)
  BY <1>2, <1>4 DEF SaveInv, Safe, Held
<1>7. Agreed(d, O)
  BY <1>2, <1>3 DEF SaveInv, Safe, Agreed
<1>8. ASSUME NEW i \in Keys \ mem.unscanned
      PROVE  Names(d, i, O) /\ (i # k => Tracks(d, i, mem.unflushed, O))
  <2>1. Names(dev, i, Owed) /\ Tracks(dev, i, mem.unflushed, Owed)
    BY DEF SaveInv, Tracked
  <2> QED  BY <1>2, <1>3, <1>4, <2>1 DEF Names, Tracks
<1>9. Plan(d, mem.eng, O)
  BY <1>2, <1>3 DEF SaveInv, Plan, Owes
<1> QED  BY <1>5, <1>6, <1>7, <1>8, <1>9 DEF Safe

\* And nothing in memory or on the hub names it.
LEMMA NewVersionSound ==
  ASSUME IInv, SaveInv, NEW k \in Keys,
         ghost'.next = ghost.next + 1, ghost'.seen = ghost.seen \cup {ghost.next},
         ghost'.unsent = (ghost.unsent \ {dev.file[k]}) \cup {ghost.next}
  PROVE  Uploaded(hub, mem, ghost'.unsent) /\ Past(hub, mem, ghost')
<1> DEFINE B == 0..ghost.next - 1
<1>1. ghost.next \notin B /\ B \subseteq 0..ghost'.next - 1 /\ ghost.next \in 0..ghost'.next - 1
  BY KnownBefore
<1>2. Uploaded(hub, mem, ghost'.unsent)
  <2>1. \A x \in B : x \notin ghost.unsent => x \notin ghost'.unsent  BY <1>1
  <2> HIDE DEF B
  <2>2. /\ mem.eng.sha \in B /\ mem.eng.reply \in B
        /\ \A i \in Keys : hub.object[i] \in B /\ mem.listing.remote[i] \in B
    BY KnownBefore DEF B
  <2> QED  BY <2>1, <2>2 DEF SaveInv, Uploaded, InHand
<1>3. Past(hub, mem, ghost')
  BY <1>1, KnownBefore DEF SaveInv, Past
<1> QED  BY <1>2, <1>3

\* create, truncate and write.
LEMMA WriteSaves ==
  ASSUME IInv, SaveInv, NEW k \in Keys, Write(k)
  PROVE  SaveInv'
<1>1. /\ dev' = SetFile(dev, k, ghost.next) /\ UNCHANGED hub
      /\ mem' = [mem EXCEPT !.open = @ \cup {k}, !.unflushed = @ \cup {k}]
      /\ mem.up
  BY DEF Write
<1>2. /\ ghost'.next = ghost.next + 1 /\ ghost'.seen = ghost.seen \cup {ghost.next}
      /\ ghost'.unsent = (ghost.unsent \ {dev.file[k]}) \cup {ghost.next}
      /\ ghost'.exempt = ghost.exempt
  BY DEF Write, Saved, Superseded, IInv, Ghost
<1>3. Owed' \subseteq (Owed \ {dev.file[k]}) \cup {ghost.next}  BY <1>2 DEF Owed
<1>4. mem \in MemoryOf(ghost.seen)  BY Parts
<1>5. /\ mem'.open = mem.open \cup {k} /\ mem'.unflushed = mem.unflushed \cup {k}
      /\ mem'.up = mem.up /\ mem'.unscanned = mem.unscanned
      /\ mem'.eng = mem.eng /\ mem'.listing = mem.listing
  BY <1>1, <1>4 DEF MemoryOf
<1>6. /\ Safe(dev', ghost'.unsent, Owed') /\ Plan(dev', mem.eng, Owed')
      /\ \A i \in Keys \ mem.unscanned :
           Names(dev', i, Owed') /\ (i # k => Tracks(dev', i, mem.unflushed, Owed'))
  BY <1>1, <1>2, <1>3, NewVersionSafe
<1>7. Tracked(dev', Keys \ mem'.unscanned, mem'.unflushed, Owed')
  BY <1>5, <1>6 DEF Tracked, Tracks
<1>8. Uploaded(hub', mem', ghost'.unsent) /\ Past(hub', mem', ghost')
  BY <1>1, <1>2, <1>5, NewVersionSound DEF Uploaded, Past
<1>9. Mounted(mem')  BY <1>1, <1>5 DEF SaveInv, Mounted
<1> QED  BY <1>5, <1>6, <1>7, <1>8, <1>9 DEF SaveInv

\* The bytes of a file taken away, by the user or once they are not owed.
LEMMA GoneSafe ==
  ASSUME IInv, SaveInv, NEW k \in Keys,
         NEW V, V \subseteq ghost.unsent,
         NEW P, P \subseteq Owed \ {dev.file[k]},
         NEW d, d = SetFile(dev, k, None)
  PROVE  /\ Safe(d, V, P) /\ Plan(d, mem.eng, P)
         /\ Tracked(d, Keys \ mem.unscanned, mem.unflushed, P)
<1>1. /\ d.file = [dev.file EXCEPT ![k] = None] /\ DOMAIN dev.file = Keys
      /\ d.entry = dev.entry /\ d.base = dev.base /\ d.snaps = dev.snaps
  BY Parts DEF DeviceOf, SetFile
<1>2. None \notin V /\ None \notin P  BY GhostFacts
<1>3. d.file[k] = None /\ \A i \in Keys : i # k => d.file[i] = dev.file[i]  BY <1>1
<1>4. FileOnce(d, V)  BY <1>2, <1>3 DEF SaveInv, Safe, FileOnce
<1>5. Held(d, P)  BY <1>1, <1>3 DEF SaveInv, Safe, Held
<1>6. Agreed(d, P)  BY <1>1 DEF SaveInv, Safe, Agreed
<1>7. ASSUME NEW i \in Keys \ mem.unscanned
      PROVE  Names(d, i, P) /\ Tracks(d, i, mem.unflushed, P)
  <2>1. Names(dev, i, Owed) /\ Tracks(dev, i, mem.unflushed, Owed)
    BY DEF SaveInv, Tracked
  <2> QED  BY <1>1, <1>2, <1>3, <2>1 DEF Names, Tracks
<1>8. Plan(d, mem.eng, P)  BY <1>1 DEF SaveInv, Plan, Owes
<1> QED  BY <1>4, <1>5, <1>6, <1>7, <1>8 DEF Safe, Tracked

\* A file changed or removed in the backing folder.
LEMMA FolderEditSaves ==
  ASSUME IInv, SaveInv, NEW k \in Keys, FolderEdit(k)
  PROVE  SaveInv'
<1>1. UNCHANGED <<mem, hub>>  BY DEF FolderEdit
<1>2. CASE /\ Fresh
           /\ dev' = SetFile(dev, k, ghost.next)
           /\ ghost' = [ghost EXCEPT !.next = @ + 1, !.seen = @ \cup {ghost.next},
                          !.unsent = (@ \ Superseded({k})) \cup {ghost.next},
                          !.exempt = @ \cup {ghost.next}]
  <2>1. /\ ghost'.next = ghost.next + 1 /\ ghost'.seen = ghost.seen \cup {ghost.next}
        /\ ghost'.unsent = (ghost.unsent \ {dev.file[k]}) \cup {ghost.next}
        /\ ghost'.exempt = ghost.exempt \cup {ghost.next}
    BY <1>2 DEF Superseded, IInv, Ghost
  <2>2. /\ Owed' \subseteq (Owed \ {dev.file[k]}) \cup {ghost.next}
        /\ ghost.next \notin Owed'
    BY <2>1 DEF Owed
  <2>3. /\ Safe(dev', ghost'.unsent, Owed') /\ Plan(dev', mem.eng, Owed')
        /\ \A i \in Keys \ mem.unscanned :
             Names(dev', i, Owed') /\ (i # k => Tracks(dev', i, mem.unflushed, Owed'))
    BY <1>2, <2>1, <2>2, NewVersionSafe
  <2>4. dev'.file[k] = ghost.next  BY <1>2, Parts DEF DeviceOf, SetFile
  <2>5. Tracked(dev', Keys \ mem.unscanned, mem.unflushed, Owed')
    BY <2>2, <2>3, <2>4 DEF Tracked, Tracks
  <2>6. Uploaded(hub, mem, ghost'.unsent) /\ Past(hub, mem, ghost')
    BY <2>1, NewVersionSound
  <2> QED  BY <1>1, <2>3, <2>5, <2>6 DEF SaveInv
<1>3. CASE /\ dev' = SetFile(dev, k, None)
           /\ ghost' = [ghost EXCEPT !.unsent = @ \ Superseded({k})]
  <2>1. /\ ghost'.next = ghost.next /\ ghost'.seen = ghost.seen
        /\ ghost'.unsent = ghost.unsent \ {dev.file[k]}
        /\ ghost'.exempt = ghost.exempt
    BY <1>3 DEF Superseded, IInv, Ghost
  <2>2. /\ ghost'.unsent \subseteq ghost.unsent \ {dev.file[k]}
        /\ Owed' \subseteq Owed \ {dev.file[k]}
    BY <2>1 DEF Owed
  <2>3. /\ Safe(dev', ghost'.unsent, Owed') /\ Plan(dev', mem.eng, Owed')
        /\ Tracked(dev', Keys \ mem.unscanned, mem.unflushed, Owed')
    BY <1>3, <2>2, GoneSafe
  <2>4. Uploaded(hub, mem, ghost'.unsent) /\ Past(hub, mem, ghost')
    BY <2>1 DEF SaveInv, Uploaded, InHand, Past
  <2> QED  BY <1>1, <2>3, <2>4 DEF SaveInv
<1> QED  BY <1>2, <1>3 DEF FolderEdit

\* open and release.
LEMMA HandleSaves ==
  ASSUME IInv, SaveInv, NEW k \in Keys, Open(k) \/ Close(k)
  PROVE  SaveInv'
<1>1. mem \in MemoryOf(ghost.seen)  BY Parts
<1>2. /\ mem'.unscanned = mem.unscanned /\ mem'.unflushed = mem.unflushed
      /\ mem'.up = mem.up /\ mem'.eng = mem.eng /\ mem'.listing = mem.listing
      /\ \/ mem.up /\ mem'.open = mem.open \cup {k}
         \/ k \notin mem.unflushed /\ mem'.open = mem.open \ {k}
  BY <1>1 DEF Open, Close, MemoryOf
<1>3. UNCHANGED <<dev, hub, ghost>>  BY DEF Open, Close
<1>4. Mounted(mem')  BY <1>2 DEF SaveInv, Mounted
<1> QED  BY <1>2, <1>3, <1>4 DEF SaveInv, Uploaded, Past, Owed

\* flush and fsync.
LEMMA FlushSaves ==
  ASSUME IInv, SaveInv, NEW k \in Keys, Flush(k)
  PROVE  SaveInv'
<1> DEFINE m  == [mem EXCEPT !.unflushed = @ \ {k}, !.skipped = @ \ {k}]
           v  == dev.file[k]
           d1 == SetEntry(dev, k, Intent(v))
           d2 == EnqueuePush(d1, k)
<1>1. mem \in MemoryOf(ghost.seen) /\ dev \in DeviceOf(ghost.seen)  BY Parts
<1>2. /\ m.unflushed = mem.unflushed \ {k} /\ m.unscanned = mem.unscanned
      /\ m.open = mem.open /\ m.up = mem.up /\ m.eng = mem.eng /\ m.listing = mem.listing
  BY <1>1 DEF MemoryOf
<1>3. Commit(<<d1, d2>>, m) /\ ghost' = [ghost EXCEPT !.exempt = Exempted({k}, v)]
  BY DEF Flush, CommitSteps
<1> HIDE DEF m
<1>4. /\ ghost'.next = ghost.next /\ ghost'.seen = ghost.seen
      /\ ghost'.unsent = ghost.unsent /\ ghost'.exempt = Exempted({k}, v)
  BY <1>3 DEF IInv, Ghost
<1>5. ghost.exempt \subseteq Exempted({k}, v)  BY DEF Exempted
<1>6. Quieter /\ Paid  BY <1>4, <1>5 DEF SaveInv, Past, Quieter, Paid, Owed
<1>7. InWindow(k) => v \notin Owed'
  BY <1>4, GhostFacts DEF Exempted, Owed
<1>8. <<d1, d2>> \in Runs(MildOf(ghost.seen, dev, k)) /\ Last(<<d1, d2>>) = d2
  <2>1. v \in ghost.seen \cup {None}  BY <1>1, DeviceReads
  <2>2. Intent(v) \in EntryOf(ghost.seen) /\ Intent(v).state # "Clean"
    BY <2>1, EntryValues DEF Intent
  <2>3. d1 \in MildOf(ghost.seen, dev, k)  BY <1>1, <2>2, MildSelf, MildSet
  <2>4. d2 \in MildOf(ghost.seen, dev, k)  BY <1>1, <2>3, MildQueue
  <2> HIDE DEF d1, d2
  <2> QED  BY <2>3, <2>4, RunsTwo
<1>9. d2.entry[k] = Intent(v) /\ d2.file = dev.file /\ d2.base = dev.base
      /\ \A i \in Keys : i # k => d2.entry[i] = dev.entry[i]
  <2>1. d1.entry[k] = Intent(v) /\ d1.file = dev.file /\ d1.base = dev.base
        /\ \A i \in Keys : i # k => d1.entry[i] = dev.entry[i]
    BY <1>1 DEF SetEntry, DeviceOf
  <2>2. d1 \in DeviceOf(ghost.seen)
    BY <1>1, DeviceReads, EntryValues, SetEntryDevice
  <2> QED  BY <2>1, <2>2, QueueBytes DEF SameBytes
<1> HIDE DEF d1, d2
<1>10. Names(d2, k, Owed')  BY <1>9 DEF Names, Intent
<1>11. Tracks(d2, k, m.unflushed, Owed')  BY <1>7, <1>9 DEF Tracks, InWindow
<1>12. Plan(d2, m.eng, Owed')
  <2>1. mem.eng.pc = "take" /\ mem.eng.key = k => v \notin Owed'
    BY <1>7 DEF InWindow
  <2> QED  BY <1>2, <1>6, <1>9, <2>1 DEF SaveInv, Plan, Owes, Paid, Intent
<1>13. Sound(m)
  <2>1. Mounted(m)  BY <1>2 DEF SaveInv, Mounted
  <2> QED  BY <1>2, <1>4, <2>1 DEF SaveInv, Sound, Uploaded, Past
<1>14. /\ Keys \ m.unscanned \subseteq (Keys \ mem.unscanned) \cup {k}
       /\ mem.unflushed \ {k} \subseteq m.unflushed
  BY <1>2
<1> QED
  BY <1>3, <1>6, <1>8, <1>10, <1>11, <1>12, <1>13, <1>14, StillSafe, MildCommit

\* note_local_gone: the entry of the key is forgotten, or only remembers a delete.
LEMMA NoteGoneMild ==
  ASSUME NEW S, NEW d \in DeviceOf(S), NEW k \in Keys
  PROVE  /\ NoteGone(d, k) \in Runs(MildOf(S, d, k))
         /\ ~ Live(Last(NoteGone(d, k)).entry[k])
<1> DEFINE d1 == RemoveJobsFor(d, k)
           d2 == SetState(d1, k, "Tombstone")
           d3 == Enqueue(d2, DeleteId(k), None, None)
           f2 == SetEntry(d1, k, NoEntry)
           f3 == SetBase(f2, k, None)
           M  == MildOf(S, d, k)
<1>1. d \in M  BY MildSelf
<1>2. d1 \in M  BY <1>1, MildQueue
<1>3. d1 \in DeviceOf(S)  BY <1>2 DEF MildOf
<1> HIDE DEF d1
<1>4. d2 \in M /\ d2.entry[k].state = "Tombstone"
  <2>1. d2 \in M  BY <1>2, MildSet DEF EntryStates
  <2>2. d1.entry[k] \in EntryOf(S)  BY <1>3, DeviceReads
  <2>3. d2.entry[k].state = "Tombstone"
    BY <1>3, <2>2 DEF SetState, SetEntry, DeviceOf, EntryOf
  <2> QED  BY <2>1, <2>3
<1> HIDE DEF d2
<1>5. d3 \in M /\ d3.entry[k].state = "Tombstone"
  <2>1. d2 \in DeviceOf(S)  BY <1>4 DEF MildOf
  <2>2. d3 \in M  BY <1>4, IdsOfKeys, MildQueue
  <2> QED  BY <1>4, <2>1, <2>2, QueueBytes DEF SameBytes
<1> HIDE DEF d3
<1>6. f2 \in M /\ f2.entry[k] = NoEntry
  <2>1. f2 \in M  BY <1>2, EntryValues, MildSet DEF NoEntry
  <2> QED  BY <1>3, <2>1 DEF SetEntry, DeviceOf
<1> HIDE DEF f2
<1>7. f3 \in M /\ f3.entry[k] = NoEntry
  <2>1. f2 \in DeviceOf(S)  BY <1>6 DEF MildOf
  <2>2. f3 \in M  BY <1>6, MildSet
  <2> QED  BY <1>6, <2>1, <2>2 DEF SetBase, DeviceOf
<1> HIDE DEF f3, M
<1>8. <<d>> \in Runs(M) /\ Last(<<d>>) = d  BY <1>1, RunsOne
<1>9. <<d1, d2, d3>> \in Runs(M) /\ Last(<<d1, d2, d3>>) = d3
  BY <1>2, <1>4, <1>5, RunsThree
<1>10. <<d1, f2, f3>> \in Runs(M) /\ Last(<<d1, f2, f3>>) = f3
  BY <1>2, <1>6, <1>7, RunsThree
<1>11. NoteGone(d, k) = IF d.entry[k].state = "Absent" THEN <<d>>
                        ELSE IF Deletes = "propagate" /\ (d.base[k] # None \/ d.pending[k] # None)
                          THEN <<d1, d2, d3>> ELSE <<d1, f2, f3>>
  BY DEF NoteGone, d1, d2, d3, f2, f3
<1>12. \A e : e.state \in {"Absent", "Tombstone"} => ~ Live(e)  BY DEF Live
<1> QED
  BY <1>5, <1>7, <1>8, <1>9, <1>10, <1>11, <1>12 DEF M, NoEntry

\* delete_local.
LEMMA DeleteMild ==
  ASSUME NEW S, NEW d \in DeviceOf(S), NEW k \in Keys,
         NEW gone, gone = SetFile(d, k, None)
  PROVE  /\ gone \in DeviceOf(S)
         /\ DeleteSteps(d, k) \in Runs(MildOf(S, gone, k))
         /\ ~ Live(Last(DeleteSteps(d, k)).entry[k])
<1>1. gone \in DeviceOf(S)  BY SetFileDevice
<1>2. <<gone>> \in Runs(MildOf(S, gone, k))  BY <1>1, MildSelf, RunsOne
<1>3. NoteGone(gone, k) \in Runs(MildOf(S, gone, k))  BY <1>1, NoteGoneMild
<1>4. /\ <<gone>> \o NoteGone(gone, k) \in Runs(MildOf(S, gone, k))
      /\ Last(<<gone>> \o NoteGone(gone, k)) = Last(NoteGone(gone, k))
  BY <1>2, <1>3, RunsConcat
<1> QED  BY <1>1, <1>4, NoteGoneMild DEF DeleteSteps

\* unlink.
LEMMA UnlinkSaves ==
  ASSUME IInv, SaveInv, NEW k \in Keys, Unlink(k)
  PROVE  SaveInv'
<1> DEFINE S == ghost.seen
           gone == SetFile(dev, k, None)
           last == Last(DeleteSteps(dev, k))
           m == [mem EXCEPT !.open = @ \ {k}, !.unflushed = @ \ {k}, !.skipped = @ \ {k}]
<1>1. mem \in MemoryOf(S) /\ dev \in DeviceOf(S)  BY Parts
<1>2. /\ m.unflushed = mem.unflushed \ {k} /\ m.unscanned = mem.unscanned
      /\ m.open = mem.open \ {k} /\ m.up = mem.up /\ m.eng = mem.eng
      /\ m.listing = mem.listing
  BY <1>1 DEF MemoryOf
<1>3. /\ Commit(DeleteSteps(dev, k), m)
      /\ ghost'.next = ghost.next /\ ghost'.seen = ghost.seen
      /\ ghost'.unsent = ghost.unsent \ {dev.file[k]} /\ ghost'.exempt = ghost.exempt
  BY DEF Unlink, Superseded, IInv, Ghost
<1> HIDE DEF m
<1>4. ghost'.unsent \subseteq ghost.unsent \ {dev.file[k]} /\ Owed' \subseteq Owed \ {dev.file[k]}
  BY <1>3 DEF Owed
<1>5. Quieter  BY <1>3 DEF SaveInv, Past, Quieter
<1>6. /\ gone \in DeviceOf(S) /\ DeleteSteps(dev, k) \in Runs(MildOf(S, gone, k))
      /\ ~ Live(last.entry[k])
  BY <1>1, DeleteMild
<1>7. /\ Safe(gone, ghost'.unsent, Owed') /\ Plan(gone, mem.eng, Owed')
      /\ Tracked(gone, Keys \ mem.unscanned, mem.unflushed, Owed')
  BY <1>4, GoneSafe
<1>8. last \in MildOf(S, gone, k)  BY <1>6, RunsRead
<1>9. gone.file[k] = None  BY <1>1 DEF SetFile, DeviceOf
<1> HIDE DEF gone, last
<1>10. Names(last, k, Owed')  BY <1>6 DEF Names, Live
<1>11. None \notin Owed'  BY <1>4, GhostFacts
<1>12. Tracks(last, k, m.unflushed, Owed')
  BY <1>8, <1>9, <1>11 DEF Tracks, MildOf, Milder
<1>13. Plan(last, m.eng, Owed')
  BY <1>2, <1>6, <1>7, <1>8 DEF Plan, Owes, MildOf, Milder, Live
<1>14. Sound(m)
  <2>1. Mounted(m)  BY <1>2 DEF SaveInv, Mounted
  <2> QED  BY <1>2, <1>3, <2>1 DEF SaveInv, Sound, Uploaded, InHand, Past
<1>15. /\ Keys \ m.unscanned \subseteq (Keys \ mem.unscanned) \cup {k}
       /\ mem.unflushed \ {k} \subseteq m.unflushed
  BY <1>2
<1> QED
  BY <1>3, <1>5, <1>6, <1>7, <1>10, <1>12, <1>13, <1>14, <1>15, MildCommit DEF last

(***************************************************************************)
(* The hub, its peers, faults.                                             *)
(***************************************************************************)
\* A step that leaves the device alone, and of memory changes what the engine
\* has in hand, what is deferred or refused, and the listing.
LEMMA MemorySaves ==
  ASSUME IInv, SaveInv, Quieter, Paid, SameBytes(dev, dev'),
         mem'.unscanned = mem.unscanned, mem'.unflushed = mem.unflushed,
         mem'.open = mem.open, mem'.up = mem.up,
         \A k \in Keys : /\ hub'.object[k] \in 0..ghost.next - 1
                         /\ hub'.object[k] \notin ghost'.unsent
                         /\ mem'.listing.remote[k] \in 0..ghost.next - 1
                         /\ mem'.listing.remote[k] \notin ghost'.unsent,
         InHand(mem'.eng, ghost'.unsent), mem'.eng.pc # "idle" => mem.up,
         mem'.eng.reply \in 0..ghost.next - 1, mem'.eng.sha \in 0..ghost.next - 1,
         Plan(dev, mem'.eng, Owed')
  PROVE  SaveInv'
<1>1. /\ Safe(dev', ghost'.unsent, Owed') /\ Plan(dev', mem'.eng, Owed')
      /\ Tracked(dev', Keys \ mem'.unscanned, mem'.unflushed, Owed')
  BY StillSafe, SameBytesSay
<1>2. Uploaded(hub', mem', ghost'.unsent)  BY DEF Uploaded
<1>3. Past(hub', mem', ghost')  BY DEF SaveInv, Past, Quieter
<1>4. Mounted(mem')  BY DEF SaveInv, Mounted
<1> QED  BY <1>1, <1>2, <1>3, <1>4 DEF SaveInv

\* What the hub and the listing hold now.
LEMMA HubReads ==
  ASSUME IInv, SaveInv, Quieter
  PROVE  \A k \in Keys : /\ hub.object[k] \in 0..ghost.next - 1
                         /\ hub.object[k] \notin ghost'.unsent
                         /\ mem.listing.remote[k] \in 0..ghost.next - 1
                         /\ mem.listing.remote[k] \notin ghost'.unsent
BY DEF SaveInv, Past, Uploaded, Quieter

\* The answer arrives or does not.
LEMMA AnswerSaves ==
  ASSUME IInv, SaveInv, Quieter, Paid, UNCHANGED dev, mem.eng.pc # "idle",
         \A k \in Keys : /\ hub'.object[k] \in 0..ghost.next - 1
                         /\ hub'.object[k] \notin ghost'.unsent,
         NEW e, Answer(e), InHand(e, ghost'.unsent),
         e.reply \in 0..ghost.next - 1, e.sha \in 0..ghost.next - 1,
         \A d, O : Plan(d, e, O)
  PROVE  SaveInv'
<1>1. mem \in MemoryOf(ghost.seen)  BY Parts
<1>2. mem.up  BY DEF SaveInv, Mounted
<1>3. SameBytes(dev, dev')  BY DEF SameBytes
<1>4. CASE mem' = Engage(e)
  <2>1. /\ mem'.eng = e /\ mem'.listing = mem.listing /\ mem'.up = mem.up
        /\ mem'.open = mem.open /\ mem'.unflushed = mem.unflushed
        /\ mem'.unscanned = mem.unscanned
    BY <1>1, <1>4 DEF Engage, MemoryOf
  <2>2. Plan(dev, mem'.eng, Owed')  BY <2>1
  <2> QED  BY <1>2, <1>3, <2>1, <2>2, HubReads, MemorySaves
<1>5. CASE UNCHANGED mem
  <2>1. InHand(mem.eng, ghost'.unsent)  BY DEF SaveInv, Uploaded, InHand, Quieter
  <2>2. Plan(dev, mem'.eng, Owed')  BY <1>5, StillSafe
  <2>3. mem.eng.reply \in 0..ghost.next - 1 /\ mem.eng.sha \in 0..ghost.next - 1
    BY DEF SaveInv, Past
  <2> QED  BY <1>2, <1>3, <1>5, <2>1, <2>2, <2>3, HubReads, MemorySaves
<1> QED  BY <1>4, <1>5 DEF Answer

\* A version sent is owed no more.
LEMMA LandedGhost ==
  ASSUME IInv, SaveInv, NEW v, Landed(v)
  PROVE  /\ Quieter /\ Paid /\ v \notin ghost'.unsent
         /\ ghost'.unsent = ghost.unsent \ {v}
<1>1. /\ ghost'.next = ghost.next /\ ghost'.unsent = ghost.unsent \ {v}
      /\ ghost'.seen = ghost.seen /\ ghost'.exempt = ghost.exempt
  BY DEF Landed, IInv, Ghost
<1> QED  BY <1>1 DEF SaveInv, Past, Quieter, Paid, Owed

\* Conditional PUT.
LEMMA HubPutSaves ==
  ASSUME IInv, SaveInv, NEW k \in Keys, HubPut(k)
  PROVE  SaveInv'
<1>1. mem \in MemoryOf(ghost.seen) /\ mem.eng.pc # "idle" /\ UNCHANGED dev
  BY Parts DEF HubPut
<1>2. mem.eng.sha \in 0..ghost.next - 1 /\ mem.eng.reply \in 0..ghost.next - 1
      /\ mem.eng.reply \notin ghost.unsent
  BY DEF SaveInv, Past, Uploaded, InHand
<1>3. CASE Matches(hub.object[k], mem.eng.match)
  <2> DEFINE e == [mem.eng EXCEPT !.pc = "putdone", !.out = "ok"]
  <2>1. /\ hub'.object = [hub.object EXCEPT ![k] = mem.eng.sha]
        /\ Landed(mem.eng.sha) /\ Answer(e)
    BY <1>3 DEF HubPut
  <2>2. Quieter /\ Paid /\ mem.eng.sha \notin ghost'.unsent
        /\ ghost'.unsent \subseteq ghost.unsent
    BY <2>1, LandedGhost
  <2>3. e.pc = "putdone" /\ e.reply = mem.eng.reply /\ e.sha = mem.eng.sha
    BY <1>1 DEF MemoryOf, EngineOf
  <2> HIDE DEF e
  <2>4. InHand(e, ghost'.unsent) /\ \A d, O : Plan(d, e, O)
    BY <1>2, <2>2, <2>3 DEF InHand, Plan
  <2>5. \A i \in Keys : hub'.object[i] \in {hub.object[i], mem.eng.sha}
    BY <2>1 DEF IInv, Hub
  <2> QED  BY <1>1, <1>2, <2>1, <2>2, <2>3, <2>4, <2>5, HubReads, AnswerSaves
<1>4. CASE ~ Matches(hub.object[k], mem.eng.match)
  <2> DEFINE e == [mem.eng EXCEPT !.pc = "putdone", !.out = "mismatch",
                                  !.reply = hub.object[k]]
  <2>1. UNCHANGED <<hub, ghost>> /\ Answer(e)  BY <1>4 DEF HubPut
  <2>2. Quieter /\ Paid  BY <2>1, SameGhost
  <2>3. e.pc = "putdone" /\ e.reply = hub.object[k] /\ e.sha = mem.eng.sha
        /\ e.out = "mismatch"
    BY <1>1 DEF MemoryOf, EngineOf
  <2> HIDE DEF e
  <2>4. InHand(e, ghost'.unsent) /\ \A d, O : Plan(d, e, O)
    BY <2>2, <2>3, HubReads DEF InHand, Plan
  <2> QED  BY <1>1, <1>2, <2>1, <2>2, <2>3, <2>4, HubReads, AnswerSaves
<1> QED  BY <1>3, <1>4

\* Conditional DELETE.
LEMMA HubDeleteSaves ==
  ASSUME IInv, SaveInv, NEW k \in Keys, HubDelete(k)
  PROVE  SaveInv'
<1>1. /\ mem \in MemoryOf(ghost.seen) /\ mem.eng.pc # "idle" /\ UNCHANGED dev
      /\ Quieter /\ Paid
  BY Parts, SameGhost DEF HubDelete
<1>2. mem.eng.sha \in 0..ghost.next - 1 /\ mem.eng.reply \in 0..ghost.next - 1
      /\ mem.eng.reply \notin ghost'.unsent
  BY <1>1 DEF SaveInv, Past, Uploaded, InHand, Quieter
<1>3. PICK e : /\ Answer(e) /\ e.pc = "deldone" /\ e.sha = mem.eng.sha
               /\ e.reply \in {mem.eng.reply, hub.object[k]}
               /\ \/ UNCHANGED hub
                  \/ hub'.object = [hub.object EXCEPT ![k] = None]
  <2>1. CASE Matches(hub.object[k], mem.eng.match)
    <3> DEFINE e == [mem.eng EXCEPT !.pc = "deldone", !.out = "ok"]
    <3>1. Answer(e) /\ hub'.object = [hub.object EXCEPT ![k] = None]
      BY <2>1 DEF HubDelete
    <3>2. e.pc = "deldone" /\ e.sha = mem.eng.sha /\ e.reply = mem.eng.reply
      BY <1>1 DEF MemoryOf, EngineOf
    <3> QED  BY <3>1, <3>2
  <2>2. CASE ~ Matches(hub.object[k], mem.eng.match)
    <3> DEFINE e == [mem.eng EXCEPT !.pc = "deldone", !.reply = hub.object[k],
                         !.out = IF hub.object[k] = None THEN "ok" ELSE "mismatch"]
    <3>1. Answer(e) /\ UNCHANGED hub  BY <2>2 DEF HubDelete
    <3>2. e.pc = "deldone" /\ e.sha = mem.eng.sha /\ e.reply = hub.object[k]
      BY <1>1 DEF MemoryOf, EngineOf
    <3> QED  BY <3>1, <3>2
  <2> QED  BY <2>1, <2>2
<1>4. InHand(e, ghost'.unsent) /\ \A d, O : Plan(d, e, O)
  BY <1>1, <1>2, <1>3, HubReads DEF InHand, Plan
<1>5. \A i \in Keys : hub'.object[i] \in {hub.object[i], None}
  BY <1>3 DEF IInv, Hub
<1>6. None \in 0..ghost.next - 1 /\ None \notin ghost'.unsent
  BY <1>1, GhostFacts DEF None, Quieter
<1> QED  BY <1>1, <1>2, <1>3, <1>4, <1>5, <1>6, HubReads, AnswerSaves

\* POST objects/rename.
LEMMA HubRenameSaves ==
  ASSUME IInv, SaveInv, NEW from \in Keys, NEW to \in Keys, HubRename(from, to)
  PROVE  SaveInv'
<1>1. /\ mem \in MemoryOf(ghost.seen) /\ mem.eng.pc # "idle" /\ UNCHANGED dev
      /\ Quieter /\ Paid
  BY Parts, SameGhost DEF HubRename
<1>2. mem.eng.sha \in 0..ghost.next - 1
  BY DEF SaveInv, Past
<1>3. None \in 0..ghost.next - 1 /\ None \notin ghost'.unsent
  BY <1>1, GhostFacts DEF None, Quieter
<1> DEFINE out == IF hub.object[from] = None THEN "missing"
                  ELSE IF mem.eng.match \notin {None, hub.object[from]} THEN "mismatch"
                  ELSE IF hub.object[to] # None THEN "exists"
                  ELSE "ok"
<1>4.   /\ Answer([mem.eng EXCEPT !.pc = "rendone", !.out = out,
                      !.reply = IF out = "mismatch" THEN hub.object[from] ELSE None])
        /\ IF out = "ok"
              THEN hub' = [object |-> [hub.object EXCEPT ![from] = None,
                                                         ![to] = hub.object[from]],
                           feed   |-> hub.feed \cup {from, to}]
              ELSE UNCHANGED hub
  BY DEF HubRename
<1> DEFINE e == [mem.eng EXCEPT !.pc = "rendone", !.out = out,
                      !.reply = IF out = "mismatch" THEN hub.object[from] ELSE None]
<1>5. e.pc = "rendone" /\ e.sha = mem.eng.sha /\ e.reply \in {hub.object[from], None}
  BY <1>1 DEF MemoryOf, EngineOf
<1>6. Answer(e)  BY <1>4
<1> HIDE DEF e, out
<1>7. InHand(e, ghost'.unsent) /\ \A d, O : Plan(d, e, O)
  BY <1>1, <1>3, <1>5, HubReads DEF InHand, Plan
<1>8. \A i \in Keys : hub'.object[i] \in {hub.object[i], None, hub.object[from]}
  BY <1>4 DEF IInv, Hub
<1> QED  BY <1>1, <1>2, <1>3, <1>5, <1>6, <1>7, <1>8, HubReads, AnswerSaves

\* The upload of a conflict copy.
LEMMA HubCopySaves ==
  ASSUME IInv, SaveInv, NEW k \in Keys, HubCopy(k)
  PROVE  SaveInv'
<1> DEFINE e == [mem.eng EXCEPT !.pc = "copied"]
<1>1. /\ mem \in MemoryOf(ghost.seen) /\ mem.eng.pc # "idle" /\ UNCHANGED <<dev, hub>>
      /\ Answer(e) /\ Landed(mem.eng.sha)
  BY Parts DEF HubCopy
<1>2. Quieter /\ Paid /\ mem.eng.sha \notin ghost'.unsent
      /\ ghost'.unsent \subseteq ghost.unsent
  BY <1>1, LandedGhost
<1>3. e.pc = "copied" /\ e.sha = mem.eng.sha /\ e.reply = mem.eng.reply
  BY <1>1 DEF MemoryOf, EngineOf
<1> HIDE DEF e
<1>4. mem.eng.sha \in 0..ghost.next - 1 /\ mem.eng.reply \in 0..ghost.next - 1
      /\ mem.eng.reply \notin ghost'.unsent
  BY <1>2 DEF SaveInv, Past, Uploaded, InHand
<1>5. InHand(e, ghost'.unsent) /\ \A d, O : Plan(d, e, O)
  BY <1>2, <1>3, <1>4 DEF InHand, Plan
<1> QED  BY <1>1, <1>2, <1>3, <1>4, <1>5, HubReads, AnswerSaves

\* Another device saves or deletes.
LEMMA PeerSaves ==
  ASSUME IInv, SaveInv, NEW k \in Keys, Peer(k)
  PROVE  SaveInv'
<1>1. ghost.next \in Nat /\ None \in 0..ghost.next - 1 /\ None \notin ghost.unsent
  BY GhostFacts DEF None
<1>2. UNCHANGED <<dev, mem>>  BY DEF Peer, PeerPut, PeerDelete
<1>3. /\ ghost'.unsent = ghost.unsent /\ ghost'.exempt = ghost.exempt
      /\ ghost'.seen = ghost.seen
      /\ \/ /\ ghost'.next = ghost.next + 1
            /\ hub'.object = [hub.object EXCEPT ![k] = ghost.next]
         \/ /\ ghost'.next = ghost.next
            /\ hub'.object = [hub.object EXCEPT ![k] = None]
  <2>1. CASE PeerPut(k)
    <3>1. ghost' = [ghost EXCEPT !.next = @ + 1,
                                 !.removed = @ \cup ({hub.object[k]} \ {None})]
      BY <2>1 DEF PeerPut
    <3>2. /\ ghost'.unsent = ghost.unsent /\ ghost'.exempt = ghost.exempt
          /\ ghost'.seen = ghost.seen /\ ghost'.next = ghost.next + 1
      BY <3>1 DEF IInv, Ghost
    <3>3. hub'.object = [hub.object EXCEPT ![k] = ghost.next]  BY <2>1 DEF PeerPut
    <3> QED  BY <3>2, <3>3
  <2>2. CASE PeerDelete(k)
    <3>1. ghost' = [ghost EXCEPT !.removed = @ \cup {hub.object[k]}]
      BY <2>2 DEF PeerDelete
    <3>2. /\ ghost'.unsent = ghost.unsent /\ ghost'.exempt = ghost.exempt
          /\ ghost'.seen = ghost.seen /\ ghost'.next = ghost.next
      BY <3>1 DEF IInv, Ghost
    <3>3. hub'.object = [hub.object EXCEPT ![k] = None]  BY <2>2 DEF PeerDelete
    <3> QED  BY <3>2, <3>3
  <2> QED  BY <2>1, <2>2 DEF Peer
<1>4. Owed' = Owed  BY <1>3 DEF Owed
<1>5. 0..ghost.next - 1 \subseteq 0..ghost'.next - 1  BY <1>1, <1>3
<1>6. ghost.next \notin ghost.unsent
  BY <1>1 DEF SaveInv, Past
<1>7. \A i \in Keys : /\ hub'.object[i] \notin ghost'.unsent
                      /\ hub'.object[i] \in 0..ghost'.next - 1
  <2>1. \A i \in Keys : \/ hub'.object[i] = hub.object[i]
                        \/ hub'.object[i] = None
                        \/ hub'.object[i] = ghost.next /\ ghost'.next = ghost.next + 1
    BY <1>3 DEF IInv, Hub
  <2>2. ghost'.next = ghost.next + 1 => ghost.next \in 0..ghost'.next - 1  BY <1>1
  <2>3. \A i \in Keys : hub.object[i] \notin ghost.unsent /\ hub.object[i] \in 0..ghost.next - 1
    BY DEF SaveInv, Uploaded, Past
  <2> QED  BY <1>1, <1>3, <1>5, <1>6, <2>1, <2>2, <2>3
<1>8. Uploaded(hub', mem', ghost'.unsent)  BY <1>2, <1>3, <1>7 DEF SaveInv, Uploaded
<1>9. Past(hub', mem', ghost')
  <2> DEFINE B == 0..ghost.next - 1
  <2>1. B \subseteq 0..ghost'.next - 1  BY <1>5
  <2>2. /\ ghost.unsent \subseteq ghost.seen /\ ghost.seen \subseteq B
        /\ \A i \in Keys : mem.listing.remote[i] \in B
        /\ mem.eng.reply \in B /\ mem.eng.sha \in B
    BY DEF SaveInv, Past
  <2> HIDE DEF B
  <2> QED  BY <1>2, <1>3, <1>7, <2>1, <2>2 DEF Past
<1> QED  BY <1>2, <1>3, <1>4, <1>8, <1>9 DEF SaveInv

\* A crash at rest.
LEMMA ProcessCrashSaves ==
  ASSUME IInv, SaveInv, ProcessCrash
  PROVE  SaveInv'
<1>1. Quieter /\ Paid  BY SameGhost DEF ProcessCrash
<1>2. dev \in SafeOf(ghost.seen)  BY <1>1, StillSafe DEF SafeOf
<1> QED  BY <1>1, <1>2, CrashSaves DEF ProcessCrash

\* A request or its answer is lost.
LEMMA DisconnectSaves ==
  ASSUME IInv, SaveInv, Disconnect
  PROVE  SaveInv'
<1>1. Quieter /\ Paid  BY SameGhost DEF Disconnect
<1>2. mem \in MemoryOf(ghost.seen) /\ dev \in DeviceOf(ghost.seen)  BY Parts
<1>3. SameBytes(dev, dev')  BY <1>2, QueueBytes DEF Disconnect
<1>4. hub'.object = hub.object  BY DEF Disconnect, IInv, Hub
<1>5. /\ mem'.unscanned = mem.unscanned /\ mem'.unflushed = mem.unflushed
      /\ mem'.open = mem.open /\ mem'.up = mem.up /\ mem'.eng = Idle
      /\ mem'.listing \in {mem.listing, NoListing}
  BY <1>2 DEF Disconnect, MemoryOf
<1>6. \A k \in Keys : NoListing.remote[k] = None  BY DEF NoListing
<1>7. None \in 0..ghost.next - 1 /\ None \notin ghost'.unsent
  BY <1>1, GhostFacts DEF None, Quieter
<1>8. \A k \in Keys : /\ mem'.listing.remote[k] \in 0..ghost.next - 1
                      /\ mem'.listing.remote[k] \notin ghost'.unsent
  BY <1>1, <1>5, <1>6, <1>7, HubReads
<1>9. InHand(Idle, ghost'.unsent)  BY <1>1, IdleSound DEF Quieter
<1> QED  BY <1>1, <1>3, <1>4, <1>5, <1>8, <1>9, IdleSound, HubReads, MemorySaves

(***************************************************************************)
(* The cycle.                                                              *)
(***************************************************************************)
\* recover_jobs.
LEMMA RecoverJobSaves ==
  ASSUME IInv, SaveInv, NEW k \in Keys, RecoverJob(k)
  PROVE  SaveInv'
<1>1. Quieter /\ Paid /\ UNCHANGED <<mem, hub>>  BY SameGhost DEF RecoverJob
<1>2. mem \in MemoryOf(ghost.seen) /\ dev \in DeviceOf(ghost.seen)  BY Parts
<1>3. SameBytes(dev, dev')  BY <1>2, QueueBytes DEF RecoverJob
<1>4. InHand(mem.eng, ghost'.unsent) /\ (mem.eng.pc # "idle" => mem.up)
      /\ mem.eng.reply \in 0..ghost.next - 1 /\ mem.eng.sha \in 0..ghost.next - 1
  BY <1>1 DEF SaveInv, Uploaded, InHand, Past, Mounted, Quieter
<1> QED  BY <1>1, <1>3, <1>4, StillSafe, HubReads, MemorySaves

\* The next key the hub is asked about, and the listing.
LEMMA NextHeadSaves ==
  ASSUME IInv, SaveInv, NEW k \in Keys, NextChange(k) \/ NextRecheck(k) \/ NextListed(k)
  PROVE  SaveInv'
<1>1. Quieter /\ Paid /\ UNCHANGED dev /\ mem.up
  BY SameGhost DEF NextChange, NextRecheck, NextListed, Free
<1>2. mem \in MemoryOf(ghost.seen)  BY Parts
<1>3. hub'.object = hub.object  BY DEF NextChange, NextRecheck, NextListed, IInv, Hub
<1>4. PICK r \in {hub.object[k], mem.listing.remote[k]} :
        \/ mem'.eng = Idle
        \/ \E src : mem'.eng = [Told(k, r) EXCEPT !.src = src]
        \/ mem'.eng = Told(k, r)
  BY <1>2 DEF NextChange, NextRecheck, NextListed, Engage, MemoryOf
<1>5. /\ mem'.unscanned = mem.unscanned /\ mem'.unflushed = mem.unflushed
      /\ mem'.open = mem.open /\ mem'.up = mem.up
      /\ \/ mem'.listing = mem.listing
         \/ mem'.listing.remote = [mem.listing.remote EXCEPT ![k] = None]
  <2>1. CASE NextChange(k)  BY <1>2, <2>1 DEF NextChange, Engage, MemoryOf
  <2>2. CASE NextRecheck(k)  BY <1>2, <2>2 DEF NextRecheck, Engage, MemoryOf
  <2>3. CASE NextListed(k)  BY <1>2, <2>3 DEF NextListed, MemoryOf
  <2> QED  BY <2>1, <2>2, <2>3
<1>6. r \in 0..ghost.next - 1 /\ r \notin ghost.unsent /\ r \notin ghost'.unsent
  BY <1>1, HubReads DEF SaveInv, Uploaded
<1>7. None \in 0..ghost.next - 1 /\ None \notin ghost'.unsent
  BY <1>1, GhostFacts DEF None, Quieter
<1>8. /\ InHand(mem'.eng, ghost'.unsent) /\ mem'.eng.reply \in 0..ghost.next - 1
      /\ mem'.eng.sha \in 0..ghost.next - 1 /\ Plan(dev, mem'.eng, Owed')
  <2>1. \A src : LET e == [Told(k, r) EXCEPT !.src = src]
                 IN  e.pc = "head" /\ e.reply = r /\ e.sha = None
    BY DEF Told, At, Idle
  <2>2. Told(k, r).pc = "head" /\ Told(k, r).reply = r /\ Told(k, r).sha = None
    BY DEF Told, At, Idle
  <2>3. Idle.pc = "idle" /\ Idle.reply = None /\ Idle.sha = None  BY DEF Idle
  <2>4. mem'.eng.pc \in {"idle", "head"} /\ mem'.eng.reply \in {r, None} /\ mem'.eng.sha = None
    BY <1>4, <2>1, <2>2, <2>3
  <2> QED  BY <1>6, <1>7, <2>4 DEF InHand, Plan
<1>9. \A i \in Keys : mem'.listing.remote[i] \in {mem.listing.remote[i], None}
  <2>1. DOMAIN mem.listing.remote = Keys  BY <1>2 DEF MemoryOf, Listing
  <2> QED  BY <1>5, <2>1
<1>10. SameBytes(dev, dev')  BY <1>1 DEF SameBytes
<1>11. \A i \in Keys : /\ mem'.listing.remote[i] \in 0..ghost.next - 1
                       /\ mem'.listing.remote[i] \notin ghost'.unsent
  BY <1>1, <1>7, <1>9, HubReads
<1> QED  BY <1>1, <1>3, <1>5, <1>8, <1>10, <1>11, HubReads, MemorySaves

\* rebuild_from_listing.
LEMMA StartListingSaves ==
  ASSUME IInv, SaveInv, StartListing
  PROVE  SaveInv'
<1>1. Quieter /\ Paid /\ UNCHANGED dev /\ mem.up
  BY SameGhost DEF StartListing, Free
<1>2. mem \in MemoryOf(ghost.seen)  BY Parts
<1>3. hub'.object = hub.object  BY DEF StartListing, IInv, Hub
<1>4. /\ mem'.unscanned = mem.unscanned /\ mem'.unflushed = mem.unflushed
      /\ mem'.open = mem.open /\ mem'.up = mem.up /\ mem'.eng = mem.eng
      /\ mem'.listing.remote = hub.object
  BY <1>2 DEF StartListing, MemoryOf
<1>5. SameBytes(dev, dev')  BY <1>1 DEF SameBytes
<1>6. InHand(mem.eng, ghost'.unsent)
      /\ mem.eng.reply \in 0..ghost.next - 1 /\ mem.eng.sha \in 0..ghost.next - 1
  BY <1>1 DEF SaveInv, Uploaded, InHand, Past, Quieter
<1> QED  BY <1>1, <1>3, <1>4, <1>5, <1>6, StillSafe, HubReads, MemorySaves

\* A scan that ends an exemption finds a safe device: no other record names
\* the bytes, and no other name holds them.
LEMMA SettledSafe ==
  ASSUME IInv, SaveInv, NEW k \in Keys, ghost'.unsent = ghost.unsent,
         ghost'.exempt = ghost.exempt \ Settled(k)
  PROVE  /\ Safe(dev, ghost'.unsent, Owed')
         /\ Tracked(dev, (Keys \ mem.unscanned) \ {k}, mem.unflushed, Owed')
<1> DEFINE v == dev.file[k]
<1>1. Owed' \subseteq ghost.unsent  BY DEF Owed
<1>2. ASSUME NEW x \in Owed', x \notin Owed
      PROVE  /\ x = v
             /\ \A i \in Keys : /\ dev.base[i] # x
                                /\ dev.entry[i].state = "Clean" \/ i # k => dev.entry[i].sha # x
  <2>1. x \in Settled(k)  BY <1>2 DEF Owed
  <2>2. x = v /\ x \notin Named(k)  BY <2>1 DEF Settled
  <2>3. DOMAIN dev.base = Keys  BY Parts DEF DeviceOf
  <2>4. \A i \in Keys : dev.base[i] \in Range(dev.base)  BY <2>3 DEF Range
  <2> QED  BY <2>2, <2>4 DEF Named
<1>3. FileOnce(dev, ghost'.unsent)  BY DEF SaveInv, Safe
<1>4. Held(dev, Owed')  BY <1>2 DEF SaveInv, Safe, Held
<1>5. Agreed(dev, Owed')  BY <1>2 DEF SaveInv, Safe, Agreed
<1>6. ASSUME NEW i \in (Keys \ mem.unscanned) \ {k}
      PROVE  Names(dev, i, Owed') /\ Tracks(dev, i, mem.unflushed, Owed')
  <2>1. Names(dev, i, Owed) /\ Tracks(dev, i, mem.unflushed, Owed)
    BY DEF SaveInv, Tracked
  <2>2. Names(dev, i, Owed')  BY <1>2, <2>1 DEF Names
  <2>3. dev.file[i] \in Owed' => dev.file[i] \in Owed
    BY <1>1, <1>2, <1>6 DEF SaveInv, Safe, FileOnce
  <2> QED  BY <2>1, <2>2, <2>3 DEF Tracks
<1> QED  BY <1>3, <1>4, <1>5, <1>6 DEF Safe, Tracked

\* scan_paths: the entry of the key is rebuilt from its file.
LEMMA ScanMild ==
  ASSUME NEW S, NEW d \in DeviceOf(S), NEW k \in Keys, Unhashed \notin S,
         NEW O, None \notin O, Agreed(d, O), NEW W
  PROVE  /\ ScanSteps(d, k) \in Runs(MildOf(S, d, k))
         /\ Names(Last(ScanSteps(d, k)), k, O)
         /\ Tracks(Last(ScanSteps(d, k)), k, W, O)
<1> DEFINE v  == d.file[k]
           e  == d.entry[k]
           d1 == SetEntry(d, k, Hashed(v, "Dirty"))
           d2 == SetTrash(d1, k, None)
           d3 == EnqueuePush(d2, k)
           M  == MildOf(S, d, k)
           last == Last(ScanSteps(d, k))
<1>1. d \in M /\ v \in S \cup {None} /\ e \in EntryOf(S)  BY MildSelf, DeviceReads
<1>2. <<d>> \in Runs(M) /\ Last(<<d>>) = d  BY <1>1, RunsOne
<1>3. CASE v = None
  <2>1. /\ NoteGone(d, k) \in Runs(M)
        /\ ~ Live(Last(NoteGone(d, k)).entry[k])
    BY NoteGoneMild
  <2>2. ScanSteps(d, k) \in {NoteGone(d, k), <<d>>} /\ ~ Live(last.entry[k])
    BY <1>2, <1>3, <2>1 DEF ScanSteps
  <2>3. last \in M  BY <1>2, <2>1, <2>2, RunsRead
  <2>4. last.file[k] = None  BY <1>3, <2>3 DEF MildOf, Milder
  <2> QED  BY <1>2, <2>1, <2>2, <2>4 DEF Names, Tracks, Live
<1>4. CASE v # None /\ LocalDigest(e) = v
  <2>1. ScanSteps(d, k) = <<d>>  BY <1>4 DEF ScanSteps
  <2>2. v # Unhashed  BY <1>1, <1>4
  <2>3. e.hashed /\ e.sha = v /\ e.state \in {"Clean", "Dirty"}
    BY <1>4, <2>2 DEF LocalDigest, EntryDigest, Live
  <2>4. e.state = "Dirty" => e = Hashed(v, "Dirty")
    BY <1>1, <2>3 DEF Hashed, EntryOf
  <2>5. e.state = "Clean" => v \notin O  BY <2>3 DEF Agreed
  <2> QED  BY <1>2, <2>1, <2>3, <2>4, <2>5 DEF Names, Tracks
<1>5. CASE v # None /\ LocalDigest(e) # v
  <2>1. ScanSteps(d, k) = <<d1, d2, d3>>  BY <1>5 DEF ScanSteps
  <2>2. Hashed(v, "Dirty") \in EntryOf(S) /\ Hashed(v, "Dirty").state # "Clean"
    BY <1>1, EntryValues DEF EntryStates, Hashed
  <2>3. d1 \in M /\ d1.entry[k] = Hashed(v, "Dirty") /\ d1.file[k] = v
    BY <1>1, <2>2, MildSet DEF SetEntry, DeviceOf
  <2>4. d1 \in DeviceOf(S)  BY <2>3 DEF MildOf
  <2> HIDE DEF d1
  <2>5. d2 \in M /\ SameBytes(d1, d2)  BY <2>3, <2>4, MildQueue, RecordBytes
  <2>6. d2 \in DeviceOf(S)  BY <2>5 DEF MildOf
  <2> HIDE DEF d2
  <2>7. d3 \in M /\ SameBytes(d2, d3)  BY <2>5, <2>6, MildQueue, QueueBytes
  <2> HIDE DEF d3, M
  <2>8. <<d1, d2, d3>> \in Runs(M) /\ Last(<<d1, d2, d3>>) = d3
    BY <2>3, <2>5, <2>7, RunsThree
  <2>9. d3.entry[k] = Hashed(v, "Dirty") /\ d3.file[k] = v
    BY <2>3, <2>5, <2>7 DEF SameBytes
  <2>10. Names(d3, k, O) /\ Tracks(d3, k, W, O)
    <3>1. Hashed(v, "Dirty").sha = v /\ Hashed(v, "Dirty").hashed  BY DEF Hashed
    <3> QED  BY <2>9, <3>1 DEF Names, Tracks
  <2>11. ScanSteps(d, k) \in Runs(M) /\ Last(ScanSteps(d, k)) = d3  BY <2>1, <2>8
  <2> QED  BY <2>10, <2>11 DEF M
<1> QED  BY <1>3, <1>4, <1>5

\* The scans.
LEMMA ScanSaves ==
  ASSUME IInv, SaveInv, NEW k \in Keys, NEW m \in MemoryOf(ghost.seen),
         m.unflushed = mem.unflushed, m.open = mem.open, m.listing = mem.listing,
         m.unscanned = mem.unscanned \ {k}, m.up = (m.unscanned = {}),
         Scan(k, m)
  PROVE  SaveInv'
<1>1. CASE k \in mem.open
  <2>1. mem.unscanned = {} /\ m.unscanned = mem.unscanned
    BY <1>1 DEF SaveInv, Mounted
  <2>2. Mounted([m EXCEPT !.eng = Idle])
    BY <2>1 DEF SaveInv, Mounted, MemoryOf, Idle
  <2>3. Finish(<<dev>>, m) /\ Quieter /\ Paid  BY <1>1, SameGhost DEF Scan
  <2> QED  BY <2>1, <2>2, <2>3, SameRuns, SameFinish
<1>2. CASE k \notin mem.open
  <2> DEFINE n == [m EXCEPT !.skipped = @ \ {k}]
             O == Owed'
  <2>1. /\ n \in MemoryOf(ghost.seen) /\ n.unflushed = mem.unflushed
        /\ n.unscanned = mem.unscanned \ {k} /\ n.listing = mem.listing
        /\ n.open = mem.open /\ n.up = m.up
    BY DEF MemoryOf
  <2>2. Mounted([n EXCEPT !.eng = Idle])
    BY <2>1 DEF SaveInv, Mounted, MemoryOf, Idle
  <2>3. Finish(ScanSteps(dev, k), n)  BY <1>2 DEF Scan
  <2> HIDE DEF n
  <2>4. /\ ghost'.next = ghost.next /\ ghost'.seen = ghost.seen
        /\ ghost'.unsent = ghost.unsent /\ ghost'.exempt = ghost.exempt \ Settled(k)
    BY <1>2 DEF Scan, IInv, Ghost
  <2>5. Quieter  BY <2>4 DEF SaveInv, Past, Quieter
  <2>6. /\ Safe(dev, ghost'.unsent, O)
        /\ Tracked(dev, (Keys \ mem.unscanned) \ {k}, mem.unflushed, O)
    BY <2>4, SettledSafe
  <2>7. None \notin O /\ Unhashed \notin ghost.seen /\ dev \in DeviceOf(ghost.seen)
    BY <2>4, GhostFacts, Parts DEF Owed, SaveInv, Past, Unhashed
  <2>8. Agreed(dev, O)  BY <2>6 DEF Safe
  <2>9. /\ ScanSteps(dev, k) \in Runs(MildOf(ghost.seen, dev, k))
        /\ Names(Last(ScanSteps(dev, k)), k, O)
        /\ Tracks(Last(ScanSteps(dev, k)), k, n.unflushed, O)
    BY <2>7, <2>8, ScanMild
  <2>10. /\ Keys \ n.unscanned \subseteq ((Keys \ mem.unscanned) \ {k}) \cup {k}
         /\ mem.unflushed \ {k} \subseteq n.unflushed
    BY <2>1
  <2> QED
    BY <2>1, <2>2, <2>3, <2>5, <2>6, <2>7, <2>9, <2>10, MildFinish
<1> QED  BY <1>1, <1>2

\* The scan of one key at startup, after an event, or once more.
LEMMA ScansSave ==
  ASSUME IInv, SaveInv, NEW k \in Keys, StartupScan(k) \/ ScanKey(k) \/ ScanAgain(k)
  PROVE  SaveInv'
<1>1. mem \in MemoryOf(ghost.seen)  BY Parts
<1>2. CASE StartupScan(k)
  <2> DEFINE m == [mem EXCEPT !.unscanned = mem.unscanned \ {k},
                              !.up = (mem.unscanned \ {k} = {})]
  <2>1. Scan(k, m)  BY <1>2 DEF StartupScan
  <2>2. /\ m \in MemoryOf(ghost.seen) /\ m.unflushed = mem.unflushed /\ m.open = mem.open
        /\ m.listing = mem.listing /\ m.unscanned = mem.unscanned \ {k}
        /\ m.up = (m.unscanned = {})
    BY <1>1 DEF MemoryOf
  <2> QED  BY <2>1, <2>2, ScanSaves
<1>3. CASE ScanKey(k) \/ ScanAgain(k)
  <2>1. mem.up  BY <1>3 DEF ScanKey, ScanAgain, Free, SaveInv, Mounted
  <2>2. mem.unscanned = {} /\ mem.up \in BOOLEAN  BY <1>1, <2>1 DEF SaveInv, Mounted, MemoryOf
  <2>3. PICK m \in {mem} \cup {[mem EXCEPT !.recheck = @ \cup {i}] : i \in Keys} : Scan(k, m)
    BY <1>3 DEF ScanKey, ScanAgain
  <2>4. m \in MemoryOf(ghost.seen)  BY <1>1, RecheckMemory
  <2>5. /\ m.unflushed = mem.unflushed /\ m.open = mem.open
        /\ m.listing = mem.listing /\ m.unscanned = mem.unscanned /\ m.up = mem.up
    BY <1>1 DEF MemoryOf
  <2>6. m.unscanned = mem.unscanned \ {k} /\ m.up = (m.unscanned = {})
    BY <2>1, <2>2, <2>5
  <2> QED  BY <2>3, <2>4, <2>5, <2>6, ScanSaves
<1> QED  BY <1>2, <1>3

(***************************************************************************)
(* The engine: its jobs.                                                   *)
(***************************************************************************)
\* A handler that only forgets, at one key of the device as it is.
LEMMA MildCommitHere ==
  ASSUME IInv, SaveInv, Quieter, Paid, NEW k \in Keys,
         NEW steps \in Runs(MildOf(ghost.seen, dev, k)), NEW m,
         m.unscanned = mem.unscanned, m.unflushed = mem.unflushed,
         Names(Last(steps), k, Owed'), Tracks(Last(steps), k, mem.unflushed, Owed'),
         Plan(Last(steps), m.eng, Owed'), Sound(m),
         Commit(steps, m)
  PROVE  SaveInv'
<1>1. /\ Keys \ m.unscanned \subseteq (Keys \ mem.unscanned) \cup {k}
      /\ mem.unflushed \ {k} \subseteq m.unflushed
  OBVIOUS
<1> QED  BY <1>1, StillSafe, MildCommit

LEMMA MildFinishHere ==
  ASSUME IInv, SaveInv, Quieter, Paid, NEW k \in Keys,
         NEW steps \in Runs(MildOf(ghost.seen, dev, k)),
         NEW m \in {mem} \cup {[mem EXCEPT !.recheck = @ \cup {i}] : i \in Keys}
                         \cup {[mem EXCEPT !.skipped = @ \cup {i}] : i \in Keys},
         Names(Last(steps), k, Owed'), Tracks(Last(steps), k, mem.unflushed, Owed'),
         Finish(steps, m)
  PROVE  SaveInv'
<1>1. /\ m \in MemoryOf(ghost.seen)
      /\ m.unscanned = mem.unscanned /\ m.unflushed = mem.unflushed
      /\ m.listing.remote = mem.listing.remote /\ Mounted([m EXCEPT !.eng = Idle])
  BY DoneMemory
<1>2. /\ Keys \ m.unscanned \subseteq (Keys \ mem.unscanned) \cup {k}
      /\ mem.unflushed \ {k} \subseteq m.unflushed
  BY <1>1
<1> QED  BY <1>1, <1>2, StillSafe, MildFinish

\* What the engine, once started, finds.
LEMMA Running ==
  ASSUME IInv, SaveInv, mem.up
  PROVE  mem.unscanned = {} /\ \A k \in Keys : /\ Names(dev, k, Owed)
                                               /\ Tracks(dev, k, mem.unflushed, Owed)
BY DEF SaveInv, Mounted, Tracked

\* An engine that waits for an answer to a request other than a download.
LEMMA AsksSound ==
  ASSUME IInv, SaveInv, Quieter, NEW e, e.reply = None, e.sha \in ghost.seen \cup {None},
         e.pc \in {"snap", "del", "ren", "copy", "put", "target", "scan", "conflict"}
  PROVE  /\ InHand(e, ghost'.unsent) /\ \A d, O : Plan(d, e, O)
         /\ e.reply \in 0..ghost.next - 1 /\ e.sha \in 0..ghost.next - 1
<1>1. None \notin ghost'.unsent /\ None \in 0..ghost.next - 1
  BY GhostFacts DEF Quieter, None
<1>2. ghost.seen \subseteq 0..ghost.next - 1  BY KnownBefore
<1> QED  BY <1>1, <1>2 DEF InHand, Plan

\* run_push, up to the snapshot.
LEMMA StartPushSaves ==
  ASSUME IInv, SaveInv, NEW j \in dev.jobs, StartPush(j)
  PROVE  SaveInv'
<1> DEFINE k == j.key
           eng == [At("snap", k) EXCEPT !.seen = dev.entry[k], !.match = dev.base[k]]
<1>1. Quieter /\ Paid /\ mem.up  BY SameGhost DEF StartPush, Select, Free
<1>2. CASE Commit(<<Done(Mark(dev, j))>>, Selected(j, Idle))
  <2>1. InHand(Idle, ghost'.unsent)  BY <1>1, IdleSound DEF Quieter
  <2>2. /\ Sound(Selected(j, Idle)) /\ Selected(j, Idle).eng = Idle
        /\ Selected(j, Idle).unscanned = mem.unscanned
        /\ Selected(j, Idle).unflushed = mem.unflushed
    BY <1>1, <2>1, IdleSound, SelectedSound
  <2>3. Plan(dev, Selected(j, Idle).eng, Owed')  BY <2>2, IdleSound
  <2> QED  BY <1>1, <1>2, <2>2, <2>3, SameRuns, SameCommit
<1>3. CASE Commit(<<Mark(dev, j)>>, Selected(j, eng))
  <2>1. eng.pc = "snap" /\ eng.reply = None /\ eng.sha = None  BY DEF At, Idle
  <2> HIDE DEF eng
  <2>2. /\ InHand(eng, ghost'.unsent) /\ Plan(dev, eng, Owed')
        /\ eng.reply \in 0..ghost.next - 1 /\ eng.sha \in 0..ghost.next - 1
    BY <1>1, <2>1, AsksSound
  <2> QED  BY <1>1, <1>3, <2>2, SelectedSound, SameRuns, SameCommit
<1> HIDE DEF eng
<1> QED  BY <1>2, <1>3 DEF StartPush, eng

\* run_rename.
LEMMA StartRenameSaves ==
  ASSUME IInv, SaveInv, NEW j \in dev.jobs, StartRename(j)
  PROVE  SaveInv'
<1>1. Quieter /\ Paid /\ mem.up  BY SameGhost DEF StartRename, Select, Free
<1>2. PICK m : Commit(<<Mark(dev, j)>>,
                      Selected(j, [At("ren", j.key) EXCEPT !.to = j.to, !.match = m]))
  BY DEF StartRename
<1> DEFINE eng == [At("ren", j.key) EXCEPT !.to = j.to, !.match = m]
<1>3. eng.pc = "ren" /\ eng.reply = None /\ eng.sha = None  BY DEF At, Idle
<1>4. Commit(<<Mark(dev, j)>>, Selected(j, eng))  BY <1>2
<1> HIDE DEF eng
<1>5. /\ InHand(eng, ghost'.unsent) /\ Plan(dev, eng, Owed')
      /\ eng.reply \in 0..ghost.next - 1 /\ eng.sha \in 0..ghost.next - 1
  BY <1>1, <1>3, AsksSound
<1> QED  BY <1>1, <1>4, <1>5, SelectedSound, SameRuns, SameCommit

\* run_conflict.
LEMMA StartConflictSaves ==
  ASSUME IInv, SaveInv, NEW j \in dev.jobs, StartConflict(j)
  PROVE  SaveInv'
<1>1. Quieter /\ Paid /\ mem.up  BY SameGhost DEF StartConflict, Select, Free
<1> DEFINE eng == [At("copy", j.key) EXCEPT !.sha = j.sha]
<1>2. eng.pc = "copy" /\ eng.reply = None /\ eng.sha = j.sha  BY DEF At, Idle
<1>3. Commit(<<Mark(dev, j)>>, Selected(j, eng))  BY DEF StartConflict
<1> HIDE DEF eng
<1>4. /\ InHand(eng, ghost'.unsent) /\ Plan(dev, eng, Owed')
      /\ eng.reply \in 0..ghost.next - 1 /\ eng.sha \in 0..ghost.next - 1
  BY <1>1, <1>2, JobReads, AsksSound
<1> QED  BY <1>1, <1>3, <1>4, SelectedSound, SameRuns, SameCommit

\* A tombstone forgotten.
LEMMA ForgetMild ==
  ASSUME IInv, SaveInv, NEW k \in Keys, mem.up, Paid,
         NEW e \in MildOf(ghost.seen, dev, k), e.entry = Forget(dev, k).entry
  PROVE  Names(e, k, Owed') /\ Tracks(e, k, mem.unflushed, Owed')
<1>1. Names(dev, k, Owed) /\ Tracks(dev, k, mem.unflushed, Owed)  BY Running
<1>2. dev \in DeviceOf(ghost.seen)  BY Parts
<1>3. CASE dev.entry[k].state = "Tombstone"
  <2>1. e.entry[k] = NoEntry /\ e.file = dev.file
    BY <1>2, <1>3 DEF Forget, SetEntry, DeviceOf, MildOf, Milder
  <2>2. k \notin mem.unflushed => dev.file[k] \notin Owed
    BY <1>1, <1>2, <1>3 DEF Tracks, Intent, Hashed
  <2> QED  BY <2>1, <2>2 DEF Names, Tracks, NoEntry, Paid
<1>4. CASE dev.entry[k].state # "Tombstone"
  <2>1. e.entry = dev.entry /\ e.file = dev.file /\ e.base[k] \in {dev.base[k], None}
    BY <1>4 DEF Forget, MildOf, Milder
  <2> QED  BY <1>1, <2>1 DEF Names, Tracks, Paid, None, Unhashed
<1> QED  BY <1>3, <1>4

\* run_delete.
LEMMA StartDeleteSaves ==
  ASSUME IInv, SaveInv, NEW j \in dev.jobs, StartDelete(j)
  PROVE  SaveInv'
<1> DEFINE S == ghost.seen
           forgot(lk) == <<Forget(dev, lk), Done(Mark(Forget(dev, lk), j))>>
<1>1. Quieter /\ Paid /\ mem.up  BY SameGhost DEF StartDelete, Select, Free
<1>2. PICK lk \in Keys :
        \/ Commit(forgot(lk), Selected(j, Idle))
        \/ \E m, f : Commit(<<Mark(dev, j)>>,
                            Selected(j, [At("del", j.key) EXCEPT !.match = m, !.fixed = f]))
  BY DEF StartDelete
<1>3. CASE Commit(forgot(lk), Selected(j, Idle))
  <2> DEFINE d1 == Forget(dev, lk)
             d2 == Done(Mark(d1, j))
             M == MildOf(S, dev, lk)
  <2>1. dev \in DeviceOf(S) /\ dev \in M  BY Parts, MildSelf
  <2>2. NoEntry \in EntryOf(S) /\ NoEntry.state # "Clean"  BY EntryValues DEF NoEntry
  <2>3. SetEntry(dev, lk, NoEntry) \in M  BY <2>1, <2>2, MildSet
  <2>4. d1 \in M  BY <2>1, <2>3 DEF Forget
  <2>5. d1 \in DeviceOf(S)  BY <2>4 DEF MildOf
  <2>6. d1.jobs = dev.jobs  BY <2>1 DEF Forget, SetEntry, DeviceOf
  <2> HIDE DEF d1
  <2>7. Mark(d1, j) \in DeviceOf(S) /\ SameBytes(d1, Mark(d1, j))
    BY <2>5, <2>6, MarkDevice, QueueBytes
  <2>8. d2 \in DeviceOf(S) /\ SameBytes(Mark(d1, j), d2)
    BY <2>7, DoneDevice, QueueBytes
  <2>9. SameBytes(d1, d2)  BY <2>7, <2>8 DEF SameBytes
  <2>10. d2 \in M  BY <2>1, <2>4, <2>8, <2>9, MildSame
  <2> HIDE DEF d2
  <2>11. forgot(lk) = <<d1, d2>>  BY DEF d1, d2
  <2>12. Names(d2, lk, Owed') /\ Tracks(d2, lk, mem.unflushed, Owed')
    BY <1>1, <2>9, <2>10, ForgetMild DEF d1, SameBytes
  <2> HIDE DEF forgot, M
  <2>13. <<d1, d2>> \in Runs(M) /\ Last(<<d1, d2>>) = d2  BY <2>4, <2>10, RunsTwo
  <2>14. InHand(Idle, ghost'.unsent)  BY <1>1, IdleSound DEF Quieter
  <2>15. /\ Sound(Selected(j, Idle)) /\ Selected(j, Idle).eng = Idle
         /\ Selected(j, Idle).unscanned = mem.unscanned
         /\ Selected(j, Idle).unflushed = mem.unflushed
    BY <1>1, <2>14, IdleSound, SelectedSound
  <2>16. Plan(d2, Selected(j, Idle).eng, Owed')  BY <2>15, IdleSound
  <2> QED
    BY <1>1, <1>3, <2>11, <2>12, <2>13, <2>15, <2>16, MildCommitHere DEF M
<1>4. ASSUME NEW m, NEW f,
             Commit(<<Mark(dev, j)>>,
                    Selected(j, [At("del", j.key) EXCEPT !.match = m, !.fixed = f]))
      PROVE  SaveInv'
  <2> DEFINE eng == [At("del", j.key) EXCEPT !.match = m, !.fixed = f]
  <2>1. eng.pc = "del" /\ eng.reply = None /\ eng.sha = None  BY DEF At, Idle
  <2>2. Commit(<<Mark(dev, j)>>, Selected(j, eng))  BY <1>4
  <2> HIDE DEF eng
  <2>3. /\ InHand(eng, ghost'.unsent) /\ Plan(dev, eng, Owed')
        /\ eng.reply \in 0..ghost.next - 1 /\ eng.sha \in 0..ghost.next - 1
    BY <1>1, <2>1, AsksSound
  <2> QED  BY <1>1, <2>2, <2>3, SelectedSound, SameRuns, SameCommit
<1> QED  BY <1>2, <1>3, <1>4

\* What the engine has in hand, and that it runs only once the scan is over.
LEMMA Engaged ==
  ASSUME IInv, SaveInv, Quieter, mem.eng.pc # "idle"
  PROVE  /\ mem.up /\ mem.unscanned = {} /\ mem.eng \in EngineOf(ghost.seen)
         /\ mem \in MemoryOf(ghost.seen) /\ dev \in DeviceOf(ghost.seen)
         /\ mem.eng.reply \in 0..ghost.next - 1 /\ mem.eng.sha \in 0..ghost.next - 1
         /\ mem.eng.reply \notin ghost.unsent /\ mem.eng.reply \notin ghost'.unsent
BY Parts DEF SaveInv, Mounted, Past, Uploaded, InHand, Quieter

\* Back to rest, or on to the hub's version, the bytes left alone.
LEMMA SameRests ==
  ASSUME IInv, SaveInv, Quieter, Paid, NEW steps \in Runs(SameOf(ghost.seen, dev)),
         mem.eng.pc # "idle", NEW k \in Keys,
         \/ Commit(steps, Engage(Idle))
         \/ Commit(steps, Engage(Told(k, mem.eng.reply)))
         \/ Commit(steps, Engage(At("scan", k)))
  PROVE  SaveInv'
<1>1. PICK e \in {Idle, Told(k, mem.eng.reply), At("scan", k)} : Commit(steps, Engage(e))
  OBVIOUS
<1>2. ghost'.unsent \in SUBSET ghost.unsent  BY DEF Quieter
<1>3. /\ InHand(e, ghost'.unsent) /\ Plan(dev, e, Owed')
      /\ e.reply \in 0..ghost.next - 1 /\ e.sha \in 0..ghost.next - 1
  <2>1. CASE e = Idle  BY <1>2, <2>1, IdleSound
  <2>2. CASE e = Told(k, mem.eng.reply)
    <3>1. e.pc = "head" /\ e.reply = mem.eng.reply /\ e.sha = None
      BY <2>2 DEF Told, At, Idle
    <3>2. None \notin ghost'.unsent /\ None \in 0..ghost.next - 1
      BY <1>2, GhostFacts DEF None
    <3> HIDE <2>2
    <3> QED  BY <3>1, <3>2, Engaged DEF InHand, Plan
  <2>3. CASE e = At("scan", k)
    <3>1. e.pc = "scan" /\ e.reply = None /\ e.sha = None  BY <2>3 DEF At, Idle
    <3> HIDE <2>3
    <3> QED  BY <3>1, AsksSound
  <2> QED  BY <2>1, <2>2, <2>3
<1> QED  BY <1>1, <1>3, Engaged, EngageSound, SameCommit

\* run_push, the snapshot taken.
LEMMA PushSendSaves ==
  ASSUME IInv, SaveInv, NEW k \in Keys, PushSend(k)
  PROVE  SaveInv'
<1> DEFINE S == ghost.seen
           v == dev.file[k]
           d1 == SetEntry(dev, k, Hashed(v, "Dirty"))
           d2 == SetPending(d1, k, v)
           eng == [At("put", k) EXCEPT !.sha = v, !.match = mem.eng.match]
           M == MildOf(S, dev, k)
<1>1. Quieter /\ Paid /\ mem.eng.pc # "idle"  BY SameGhost DEF PushSend
<1>2. CASE Commit(<<Unmark(dev)>>, Engage(Idle))
  BY <1>1, <1>2, SameRuns, SameRests
<1>3. CASE Commit(<<d1, d2>>, Engage(eng))
  <2>1. dev \in DeviceOf(S) /\ dev \in M /\ v \in S \cup {None}
    BY Parts, MildSelf, DeviceReads
  <2>2. Hashed(v, "Dirty") \in EntryOf(S) /\ Hashed(v, "Dirty").state # "Clean"
    BY <2>1, EntryValues DEF Hashed
  <2>3. d1 \in M  BY <2>1, <2>2, MildSet
  <2>4. d1.entry[k] = Hashed(v, "Dirty") /\ d1.file[k] = v
    BY <2>1 DEF SetEntry, DeviceOf
  <2>5. d1 \in DeviceOf(S)  BY <2>3 DEF MildOf
  <2> HIDE DEF d1
  <2>6. d2 \in M /\ SameBytes(d1, d2)  BY <2>1, <2>3, <2>5, MildQueue, RecordBytes
  <2> HIDE DEF d2
  <2>7. d2.entry[k] = Hashed(v, "Dirty") /\ d2.file[k] = v
    BY <2>4, <2>6 DEF SameBytes
  <2>8. Names(d2, k, Owed') /\ Tracks(d2, k, mem.unflushed, Owed')
    <3>1. Hashed(v, "Dirty").sha = v /\ Hashed(v, "Dirty").hashed  BY DEF Hashed
    <3> QED  BY <2>7, <3>1 DEF Names, Tracks
  <2>9. eng.pc = "put" /\ eng.reply = None /\ eng.sha = v  BY DEF At, Idle
  <2> HIDE DEF eng
  <2>10. /\ InHand(eng, ghost'.unsent) /\ Plan(d2, eng, Owed')
         /\ eng.reply \in 0..ghost.next - 1 /\ eng.sha \in 0..ghost.next - 1
    BY <1>1, <2>1, <2>9, AsksSound
  <2>11. /\ Sound(Engage(eng)) /\ Engage(eng).eng = eng
         /\ Engage(eng).unscanned = mem.unscanned /\ Engage(eng).unflushed = mem.unflushed
    BY <1>1, <2>10, Engaged, EngageSound
  <2> HIDE DEF M
  <2>12. <<d1, d2>> \in Runs(M) /\ Last(<<d1, d2>>) = d2  BY <2>3, <2>6, RunsTwo
  <2> QED  BY <1>1, <1>3, <2>8, <2>10, <2>11, <2>12, MildCommitHere DEF M
<1> HIDE DEF eng, d1, d2
<1> QED  BY <1>2, <1>3 DEF PushSend, eng, d1, d2

\* Writes about one key whose base and whose clean entry no save is owed for.
AgreeOf(S, d, k, O) ==
  {e \in DeviceOf(S) :
     /\ e.file = d.file /\ d.snaps \subseteq e.snaps
     /\ \A i \in Keys \ {k} : e.base[i] = d.base[i] /\ e.entry[i] = d.entry[i]
     /\ e.base[k] \notin O
     /\ e.entry[k].state = "Clean" => e.entry[k].sha \notin O}

\* Where they start.
LEMMA AgreeSelf ==
  ASSUME IInv, SaveInv, Quieter, Paid, NEW k \in Keys
  PROVE  dev \in AgreeOf(ghost.seen, dev, k, Owed')
BY StillSafe DEF AgreeOf, Safe, Agreed

\* Such a handler, from any safe device.
LEMMA AgreeRuns ==
  ASSUME NEW S, NEW d, NEW k \in Keys, Safe(d, ghost'.unsent, Owed'),
         NEW steps \in Runs(AgreeOf(S, d, k, Owed')), NEW K \in SUBSET Keys, NEW W,
         Tracked(d, K, W, Owed'),
         Names(Last(steps), k, Owed'), Tracks(Last(steps), k, W, Owed')
  PROVE  /\ steps \in Runs(SafeOf(S))
         /\ Tracked(Last(steps), K, W, Owed')
<1> DEFINE A == AgreeOf(S, d, k, Owed')
<1>1. ASSUME NEW e \in A  PROVE e \in SafeOf(S)
  BY DEF AgreeOf, SafeOf, Safe, FileOnce, Held, Agreed
<1>2. steps \in Runs(SafeOf(S))  BY <1>1 DEF Runs
<1>3. Last(steps) \in A  BY RunsRead
<1>4. ASSUME NEW i \in K, i # k
      PROVE  Names(Last(steps), i, Owed') /\ Tracks(Last(steps), i, W, Owed')
  <2>1. Names(d, i, Owed') /\ Tracks(d, i, W, Owed')
    BY DEF Tracked
  <2> QED  BY <1>3, <1>4, <2>1 DEF AgreeOf, Names, Tracks
<1> QED  BY <1>2, <1>4 DEF Tracked

\* And from the device as it is, when it ends well.
LEMMA AgreeFinish ==
  ASSUME IInv, SaveInv, Quieter, Paid, NEW k \in Keys,
         NEW steps \in Runs(AgreeOf(ghost.seen, dev, k, Owed')),
         Names(Last(steps), k, Owed'), Tracks(Last(steps), k, mem.unflushed, Owed'),
         Finish(steps, mem)
  PROVE  SaveInv'
<1>1. /\ Safe(dev, ghost'.unsent, Owed')
      /\ Tracked(dev, Keys \ mem.unscanned, mem.unflushed, Owed')
  BY StillSafe
<1>2. /\ steps \in Runs(SafeOf(ghost.seen))
      /\ Tracked(Last(steps), Keys \ mem.unscanned, mem.unflushed, Owed')
  BY <1>1, AgreeRuns
<1> QED  BY <1>2, DoneMemory, FinishSaves

\* run_push, answered.
LEMMA PushReplySaves ==
  ASSUME IInv, SaveInv, NEW k \in Keys, PushReply(k)
  PROVE  SaveInv'
<1> DEFINE S == ghost.seen
           v == mem.eng.sha
<1>1. /\ Quieter /\ Paid /\ mem.eng.pc = "putdone" /\ mem.eng.pc # "idle"
      /\ ghost'.unsent = ghost.unsent /\ Owed' = Owed
  BY SameGhost DEF PushReply
<1>2. PICK lk \in Keys :
        IF mem.eng.out = "ok" THEN Finish(PushedSteps(dev, k, lk, v), mem)
        ELSE IF lk # k THEN Commit(<<Unmark(dev)>>, Engage(Idle))
        ELSE Commit(<<Refused(dev, k)>>, Engage(Told(k, mem.eng.reply)))
  BY DEF PushReply
<1>3. CASE mem.eng.out = "ok" /\ Finish(PushedSteps(dev, k, lk, v), mem)
  <2> DEFINE O  == Owed
             d1 == SetBase(dev, lk, v)
             d2 == IF AsSent(d1, lk, v) THEN SetState(d1, lk, "Clean") ELSE d1
             d3 == SetPending(d2, k, None)
             A  == AgreeOf(S, dev, lk, O)
  <2>1. /\ dev \in DeviceOf(S) /\ dev \in A /\ v \in S \cup {None} /\ v \notin O
        /\ v # Unhashed
    <3>1. v \notin O  BY <1>1, <1>3 DEF SaveInv, Uploaded, InHand, Owed
    <3>2. v \in S \cup {None}  BY <1>1, Parts DEF EngineOf
    <3>3. v \in 0..ghost.next - 1  BY <1>1, Engaged
    <3> QED  BY <1>1, <3>1, <3>2, <3>3, Parts, AgreeSelf DEF Unhashed
  <2>2. Names(dev, lk, O) /\ Tracks(dev, lk, mem.unflushed, O)
    BY <1>1, Engaged, Running
  <2>3. d1 \in DeviceOf(S)  BY <2>1, SetBaseDevice
  <2>4. /\ d1.file = dev.file /\ d1.entry = dev.entry /\ d1.snaps = dev.snaps
        /\ d1.base = [dev.base EXCEPT ![lk] = v] /\ DOMAIN dev.base = Keys
    BY <2>1 DEF SetBase, DeviceOf
  <2>5. d1 \in A  BY <2>1, <2>3, <2>4 DEF AgreeOf
  <2> HIDE DEF d1
  <2>6. d2 \in A /\ Names(d2, lk, O) /\ Tracks(d2, lk, mem.unflushed, O)
    <3>1. CASE AsSent(d1, lk, v)
      <4> DEFINE r == [Hashed(v, "Dirty") EXCEPT !.state = "Clean"]
      <4>1. d2 = SetEntry(d1, lk, r)  BY <3>1 DEF AsSent, SetState
      <4>2. r \in EntryOf(S) /\ r.state = "Clean" /\ r.sha = v
        BY <2>1 DEF Hashed, EntryOf, EntryStates
      <4> HIDE DEF r
      <4>3. d2 \in DeviceOf(S)  BY <2>3, <4>1, <4>2, SetEntryDevice
      <4>4. /\ d2.file = dev.file /\ d2.snaps = dev.snaps /\ d2.base = d1.base
            /\ d2.entry = [dev.entry EXCEPT ![lk] = r] /\ DOMAIN dev.entry = Keys
        BY <2>1, <2>3, <2>4, <4>1 DEF SetEntry, DeviceOf
      <4>5. d2 \in A  BY <2>1, <2>4, <4>2, <4>3, <4>4 DEF AgreeOf
      <4>6. lk \notin mem.unflushed => dev.file[lk] \notin O
        <5>1. dev.entry[lk].sha = v  BY <2>4, <3>1 DEF AsSent, Hashed
        <5> QED  BY <2>1, <2>2, <5>1 DEF Tracks, Intent, Hashed
      <4> QED  BY <4>2, <4>4, <4>5, <4>6 DEF Names, Tracks
    <3>2. CASE ~ AsSent(d1, lk, v)
      <4>1. d2 = d1 /\ d1.base[lk] = v  BY <2>4, <3>2
      <4> QED  BY <2>1, <2>2, <2>4, <2>5, <4>1 DEF Names, Tracks
    <3> QED  BY <3>1, <3>2
  <2> HIDE DEF d2
  <2>7. d2 \in DeviceOf(S)  BY <2>6 DEF AgreeOf
  <2>8. d3 \in DeviceOf(S) /\ SameBytes(d2, d3)
    BY <2>7, SetRecordDevice, RecordBytes
  <2> HIDE DEF d3
  <2>9. d3 \in A /\ Names(d3, lk, O) /\ Tracks(d3, lk, mem.unflushed, O)
    BY <2>6, <2>8 DEF AgreeOf, SameBytes, Names, Tracks
  <2>10. PushedSteps(dev, k, lk, v) = <<d1, d2, d3>>
    BY DEF PushedSteps, d1, d2, d3
  <2> HIDE DEF A
  <2>11. <<d1, d2, d3>> \in Runs(A) /\ Last(<<d1, d2, d3>>) = d3
    BY <2>5, <2>6, <2>9, RunsThree
  <2> QED  BY <1>1, <1>3, <2>9, <2>10, <2>11, AgreeFinish DEF A
<1>4. CASE Commit(<<Unmark(dev)>>, Engage(Idle))
  BY <1>1, <1>4, SameRuns, SameRests
<1>5. CASE Commit(<<Refused(dev, k)>>, Engage(Told(k, mem.eng.reply)))
  BY <1>1, <1>5, SameRuns, SameRests DEF Refused
<1> QED  BY <1>2, <1>3, <1>4, <1>5

\* run_delete, answered.
LEMMA DeleteReplySaves ==
  ASSUME IInv, SaveInv, NEW k \in Keys, DeleteReply(k)
  PROVE  SaveInv'
<1> DEFINE S == ghost.seen
<1>1. Quieter /\ Paid /\ mem.eng.pc # "idle"  BY SameGhost DEF DeleteReply
<1>2. PICK lk \in Keys :
        \/ Finish(DeletedSteps(dev, k, lk, mem.eng.fixed), mem)
        \/ Commit(<<Unmark(dev)>>, Engage(Idle))
        \/ Commit(<<dev>>, Engage(Told(k, mem.eng.reply)))
  BY DEF DeleteReply
<1>3. CASE Finish(DeletedSteps(dev, k, lk, mem.eng.fixed), mem)
  <2> DEFINE fixed == mem.eng.fixed
             d1 == IF fixed THEN dev ELSE Forget(dev, lk)
             d2 == IF fixed THEN d1 ELSE SetBase(d1, lk, None)
             d3 == SetPending(d2, k, None)
             M  == MildOf(S, dev, lk)
  <2>1. dev \in DeviceOf(S) /\ dev \in M  BY Parts, MildSelf
  <2>2. NoEntry \in EntryOf(S) /\ NoEntry.state # "Clean"  BY EntryValues DEF NoEntry
  <2>3. Forget(dev, lk) \in M  BY <2>1, <2>2, MildSet DEF Forget
  <2>4. d1 \in M /\ (~ fixed => d1.entry = Forget(dev, lk).entry) /\ (fixed => d1 = dev)
    BY <2>1, <2>3
  <2>5. d1 \in DeviceOf(S)  BY <2>4 DEF MildOf
  <2> HIDE DEF d1
  <2>6. d2 \in M /\ d2.entry = d1.entry /\ (fixed => d2 = d1)
    <3>1. SetBase(d1, lk, None) \in M  BY <2>1, <2>4, MildSet
    <3>2. SetBase(d1, lk, None).entry = d1.entry  BY <2>5 DEF SetBase, DeviceOf
    <3> QED  BY <2>4, <3>1, <3>2
  <2>7. d2 \in DeviceOf(S)  BY <2>6 DEF MildOf
  <2> HIDE DEF d2
  <2>8. d3 \in M /\ SameBytes(d2, d3)
    <3>1. None \in S \cup {None}  OBVIOUS
    <3> QED  BY <2>1, <2>6, <2>7, <3>1, MildQueue, RecordBytes
  <2> HIDE DEF d3
  <2>9. Names(d3, lk, Owed') /\ Tracks(d3, lk, mem.unflushed, Owed')
    <3>1. CASE fixed
      <4>1. SameBytes(dev, d3)  BY <2>4, <2>6, <2>8, <3>1
      <4>2. Names(dev, lk, Owed) /\ Tracks(dev, lk, mem.unflushed, Owed)
        BY <1>1, Engaged, Running
      <4> QED  BY <1>1, <4>1, <4>2 DEF SameBytes, Names, Tracks, Paid
    <3>2. CASE ~ fixed
      <4>1. d3.entry = Forget(dev, lk).entry  BY <2>4, <2>6, <2>8, <3>2 DEF SameBytes
      <4> QED  BY <1>1, <2>8, <4>1, Engaged, ForgetMild
    <3> QED  BY <3>1, <3>2
  <2>10. DeletedSteps(dev, k, lk, fixed) = <<d1, d2, d3>>
    BY DEF DeletedSteps, d1, d2, d3
  <2> HIDE DEF M
  <2>11. <<d1, d2, d3>> \in Runs(M) /\ Last(<<d1, d2, d3>>) = d3
    BY <2>4, <2>6, <2>8, RunsThree
  <2> QED  BY <1>1, <1>3, <2>9, <2>10, <2>11, MildFinishHere DEF M
<1>4. CASE Commit(<<Unmark(dev)>>, Engage(Idle))
  BY <1>1, <1>4, SameRuns, SameRests
<1>5. CASE Commit(<<dev>>, Engage(Told(k, mem.eng.reply)))
  BY <1>1, <1>5, SameRuns, SameRests
<1> QED  BY <1>2, <1>3, <1>4, <1>5

\* The hub no longer has what was renamed.
LEMMA OrphanMild ==
  ASSUME NEW S, NEW d \in DeviceOf(S), NEW k \in Keys, NEW O, NEW W, None \notin O,
         Names(d, k, O), Tracks(d, k, W, O),
         d.entry[k].state = "Tombstone" => d.entry[k].sha \notin O, Agreed(d, O)
  PROVE  /\ OrphanSteps(d, k) \in Runs(MildOf(S, d, k))
         /\ Names(Last(OrphanSteps(d, k)), k, O)
         /\ Tracks(Last(OrphanSteps(d, k)), k, W, O)
<1> DEFINE d1 == SetBase(d, k, None)
           d2 == SetState(d1, k, "Dirty")
           d3 == EnsureJob(d2, PushId(k), None)
           M  == MildOf(S, d, k)
<1>1. d1 \in M /\ d1.entry = d.entry /\ d1.file = d.file /\ d1.base[k] = None
  <2>1. d \in M  BY MildSelf
  <2>2. d1 \in M  BY <2>1, MildSet
  <2> QED  BY <2>2 DEF SetBase, DeviceOf
<1>2. d1 \in DeviceOf(S)  BY <1>1 DEF MildOf
<1>3. CASE d1.entry[k].state = "Absent"
  <2>1. OrphanSteps(d, k) = <<d1>>  BY <1>3 DEF OrphanSteps
  <2> HIDE DEF d1
  <2>2. Names(d1, k, O) /\ Tracks(d1, k, W, O)
    BY <1>1 DEF Names, Tracks, None, Unhashed
  <2>3. <<d1>> \in Runs(M) /\ Last(<<d1>>) = d1  BY <1>1, RunsOne
  <2> QED  BY <2>1, <2>2, <2>3
<1>4. CASE d1.entry[k].state # "Absent"
  <2>1. OrphanSteps(d, k) = <<d1, d2, d3>>  BY <1>4 DEF OrphanSteps
  <2> HIDE DEF d1
  <2>2. d.entry[k] \in EntryOf(S) /\ d.entry[k].state \in {"Clean", "Dirty", "Tombstone"}
    BY <1>1, <1>4, DeviceReads DEF EntryOf, EntryStates
  <2>3. /\ d2 \in M /\ d2.file = d.file /\ d2.base[k] = None
        /\ d2.entry[k] = [d.entry[k] EXCEPT !.state = "Dirty"]
    <3>1. "Dirty" \in EntryStates \ {"Clean"}  BY DEF EntryStates
    <3>2. d2 \in M  BY <1>1, <3>1, MildSet
    <3> QED  BY <1>1, <1>2, <3>2 DEF SetState, SetEntry, DeviceOf
  <2>4. d2 \in DeviceOf(S)  BY <2>3 DEF MildOf
  <2> HIDE DEF d2
  <2>5. d3 \in M /\ SameBytes(d2, d3)
    <3>1. None \in S \cup {None} /\ PushId(k) \in JobId  BY IdsOfKeys
    <3> QED  BY <2>3, <2>4, <3>1, MildQueue, QueueBytes
  <2> HIDE DEF d3
  <2>6. Names(d3, k, O)
    <3>1. d3.entry[k].sha = d.entry[k].sha /\ d3.file[k] = d.file[k]
      BY <2>2, <2>3, <2>5 DEF SameBytes, EntryOf
    <3>2. d.entry[k].sha \in O => d.entry[k].state = "Dirty"
      BY <2>2 DEF Agreed
    <3> QED  BY <3>1, <3>2 DEF Names
  <2>7. Tracks(d3, k, W, O)
    <3>1. d3.file[k] = d.file[k] /\ d3.base[k] = None
      BY <2>3, <2>5 DEF SameBytes
    <3>2. d.entry[k].state = "Dirty" => d3.entry[k] = d.entry[k]
      BY <2>2, <2>3, <2>5 DEF SameBytes, EntryOf
    <3> QED  BY <3>1, <3>2 DEF Tracks, Intent, Hashed, None, Unhashed
  <2>8. <<d1, d2, d3>> \in Runs(M) /\ Last(<<d1, d2, d3>>) = d3
    <3> HIDE DEF M
    <3> QED  BY <1>1, <2>3, <2>5, RunsThree
  <2> QED  BY <2>1, <2>6, <2>7, <2>8
<1> QED  BY <1>3, <1>4

\* A memory for the next thing the engine asks or decides about.
LEMMA NextSound ==
  ASSUME IInv, SaveInv, Quieter, mem.eng.pc # "idle", NEW e,
         e.reply \in 0..ghost.next - 1, e.reply \notin ghost.unsent, e.sha \in ghost.seen \cup {None},
         e.pc \in {"head", "target", "scan", "conflict"}
  PROVE  /\ Sound(Engage(e)) /\ Engage(e).eng = e
         /\ Engage(e).unscanned = mem.unscanned /\ Engage(e).unflushed = mem.unflushed
         /\ \A d, O : Plan(d, Engage(e).eng, O)
<1>1. e.reply \notin ghost'.unsent  BY DEF Quieter
<1>2. e.sha \in 0..ghost.next - 1
  BY KnownBefore, GhostFacts DEF None
<1>3. InHand(e, ghost'.unsent)  BY <1>1 DEF InHand
<1>4. \A d, O : Plan(d, e, O)  BY DEF Plan
<1> QED  BY <1>2, <1>3, <1>4, Engaged, EngageSound

\* run_rename, answered.
LEMMA RenameReplySaves ==
  ASSUME IInv, SaveInv, NEW from \in Keys, NEW to \in Keys, RenameReply(from, to)
  PROVE  SaveInv'
<1> DEFINE S == ghost.seen
<1>1. mem.eng.pc # "idle"  BY DEF RenameReply
<1>2. PICK lk \in Keys :
        \/ Finish(<<dev>>, mem) /\ UNCHANGED ghost
        \/ /\ Misreads({lk})
           /\ Finish(IF dev.file[lk] # None THEN OrphanSteps(dev, lk)
                     ELSE <<SetBase(dev, lk, None),
                            SetEntry(SetBase(dev, lk, None), lk, NoEntry)>>, mem)
        \/ /\ Misreads({lk})
           /\ Commit(OrphanSteps(dev, lk), Engage(Told(from, mem.eng.reply)))
        \/ /\ Commit(<<dev>>, Engage([At("target", from) EXCEPT !.to = to,
                                                                !.reply = hub.object[to]]))
           /\ UNCHANGED ghost
  BY DEF RenameReply
<1>3. CASE Finish(<<dev>>, mem) /\ UNCHANGED ghost
  BY <1>3, SameGhost, SameRuns, DoneMemory, SameFinish
<1>4. ASSUME Misreads({lk})
      PROVE  /\ Quieter /\ Paid /\ OrphanSteps(dev, lk) \in Runs(MildOf(S, dev, lk))
             /\ Names(Last(OrphanSteps(dev, lk)), lk, Owed')
             /\ Tracks(Last(OrphanSteps(dev, lk)), lk, mem.unflushed, Owed')
  <2>1. /\ Quieter /\ Paid
        /\ dev.entry[lk].state = "Tombstone" => dev.entry[lk].sha \notin Owed'
    BY <1>4, MisreadGhost
  <2>2. Names(dev, lk, Owed) /\ Tracks(dev, lk, mem.unflushed, Owed)
    BY <1>1, <2>1, Engaged, Running
  <2>3. Names(dev, lk, Owed') /\ Tracks(dev, lk, mem.unflushed, Owed')
    BY <2>1, <2>2 DEF Names, Tracks, Paid
  <2>4. Agreed(dev, Owed') /\ None \notin Owed'
    BY <2>1, GhostFacts, StillSafe DEF Safe, Paid
  <2>5. dev \in DeviceOf(S)  BY Parts
  <2> QED  BY <2>1, <2>3, <2>4, <2>5, OrphanMild
<1>5. CASE Misreads({lk}) /\ dev.file[lk] # None /\ Finish(OrphanSteps(dev, lk), mem)
  BY <1>4, <1>5, MildFinishHere
<1>6. CASE /\ Misreads({lk}) /\ dev.file[lk] = None
           /\ Finish(<<SetBase(dev, lk, None),
                       SetEntry(SetBase(dev, lk, None), lk, NoEntry)>>, mem)
  <2> DEFINE d1 == SetBase(dev, lk, None)
             d2 == SetEntry(d1, lk, NoEntry)
             M  == MildOf(S, dev, lk)
  <2>1. Quieter /\ Paid  BY <1>4, <1>6
  <2>2. dev \in DeviceOf(S) /\ dev \in M  BY Parts, MildSelf
  <2>3. d1 \in M /\ d1.file = dev.file  BY <2>2, MildSet DEF SetBase, DeviceOf
  <2>4. d1 \in DeviceOf(S)  BY <2>3 DEF MildOf
  <2> HIDE DEF d1
  <2>5. NoEntry \in EntryOf(S) /\ NoEntry.state = "Absent"  BY EntryValues DEF NoEntry
  <2>6. d2 \in M /\ d2.file = dev.file /\ d2.entry[lk] = NoEntry
    BY <2>2, <2>3, <2>4, <2>5, MildSet DEF SetEntry, DeviceOf
  <2> HIDE DEF d2
  <2>7. None \notin Owed'  BY <2>1, GhostFacts DEF Paid
  <2>8. Names(d2, lk, Owed') /\ Tracks(d2, lk, mem.unflushed, Owed')
    BY <1>6, <2>5, <2>6, <2>7 DEF Names, Tracks
  <2> HIDE DEF M
  <2>9. <<d1, d2>> \in Runs(M) /\ Last(<<d1, d2>>) = d2  BY <2>3, <2>6, RunsTwo
  <2> QED  BY <1>6, <2>1, <2>8, <2>9, MildFinishHere DEF M, d1, d2
<1>7. CASE /\ Misreads({lk})
           /\ Commit(OrphanSteps(dev, lk), Engage(Told(from, mem.eng.reply)))
  <2> DEFINE e == Told(from, mem.eng.reply)
  <2>1. e.pc = "head" /\ e.reply = mem.eng.reply /\ e.sha = None  BY DEF Told, At, Idle
  <2>2. Commit(OrphanSteps(dev, lk), Engage(e))  BY <1>7
  <2> HIDE DEF e
  <2>3. Quieter /\ Paid  BY <1>4, <1>7
  <2>4. e.reply \in 0..ghost.next - 1 /\ e.reply \notin ghost.unsent
    BY <1>1, <2>1, <2>3, Engaged
  <2>5. /\ Sound(Engage(e)) /\ Engage(e).eng = e
        /\ Engage(e).unscanned = mem.unscanned /\ Engage(e).unflushed = mem.unflushed
        /\ Plan(Last(OrphanSteps(dev, lk)), Engage(e).eng, Owed')
    BY <1>1, <2>1, <2>3, <2>4, NextSound
  <2> QED  BY <1>4, <1>7, <2>2, <2>5, MildCommitHere
<1>8. CASE /\ Commit(<<dev>>, Engage([At("target", from) EXCEPT !.to = to,
                                                                !.reply = hub.object[to]]))
           /\ UNCHANGED ghost
  <2> DEFINE e == [At("target", from) EXCEPT !.to = to, !.reply = hub.object[to]]
  <2>1. e.pc = "target" /\ e.reply = hub.object[to] /\ e.sha = None  BY DEF At, Idle
  <2>2. Commit(<<dev>>, Engage(e))  BY <1>8
  <2> HIDE DEF e
  <2>3. Quieter /\ Paid  BY <1>8, SameGhost
  <2>4. e.reply \in 0..ghost.next - 1 /\ e.reply \notin ghost.unsent
    BY <2>1, <2>3, HubReads DEF SaveInv, Uploaded
  <2>5. /\ Sound(Engage(e)) /\ Engage(e).eng = e
        /\ Engage(e).unscanned = mem.unscanned /\ Engage(e).unflushed = mem.unflushed
        /\ Plan(dev, Engage(e).eng, Owed')
    BY <1>1, <2>1, <2>3, <2>4, NextSound
  <2> QED  BY <1>8, <2>2, <2>3, <2>5, SameRuns, SameCommit
<1>9. CASE /\ Misreads({lk})
           /\ Finish(IF dev.file[lk] # None THEN OrphanSteps(dev, lk)
                     ELSE <<SetBase(dev, lk, None),
                            SetEntry(SetBase(dev, lk, None), lk, NoEntry)>>, mem)
  BY <1>5, <1>6, <1>9
<1> QED  BY <1>2, <1>3, <1>7, <1>8, <1>9

\* run_rename, the target taken by another.
LEMMA RenameTargetSaves ==
  ASSUME IInv, SaveInv, NEW from \in Keys, NEW to \in Keys, RenameTarget(from, to)
  PROVE  SaveInv'
<1> DEFINE S == ghost.seen
           d1 == SetBase(dev, to, None)
           e  == Told(to, mem.eng.reply)
           M  == MildOf(S, dev, to)
<1>1. Quieter /\ Paid /\ mem.eng.pc # "idle"  BY SameGhost DEF RenameTarget
<1>2. \/ Commit(<<d1>>, Engage(e))
      \/ Finish(<<dev>>, [mem EXCEPT !.skipped = @ \cup {from}])
  BY DEF RenameTarget
<1>3. CASE Commit(<<d1>>, Engage(e))
  <2>1. e.pc = "head" /\ e.reply = mem.eng.reply /\ e.sha = None  BY DEF Told, At, Idle
  <2> HIDE DEF e
  <2>2. dev \in DeviceOf(S) /\ dev \in M  BY Parts, MildSelf
  <2>3. /\ d1 \in M /\ d1.file = dev.file /\ d1.entry = dev.entry
        /\ d1.base[to] = None
    BY <2>2, MildSet DEF SetBase, DeviceOf
  <2> HIDE DEF d1
  <2>4. Names(dev, to, Owed) /\ Tracks(dev, to, mem.unflushed, Owed)
    BY <1>1, Engaged, Running
  <2>5. Names(d1, to, Owed') /\ Tracks(d1, to, mem.unflushed, Owed')
    BY <1>1, <2>3, <2>4 DEF Names, Tracks, Paid, None, Unhashed
  <2>6. e.reply \in 0..ghost.next - 1 /\ e.reply \notin ghost.unsent
    BY <1>1, <2>1, Engaged
  <2>7. /\ Sound(Engage(e)) /\ Engage(e).eng = e
        /\ Engage(e).unscanned = mem.unscanned /\ Engage(e).unflushed = mem.unflushed
        /\ Plan(d1, Engage(e).eng, Owed')
    BY <1>1, <2>1, <2>6, NextSound
  <2> HIDE DEF M
  <2>8. <<d1>> \in Runs(M) /\ Last(<<d1>>) = d1  BY <2>3, RunsOne
  <2> QED  BY <1>1, <1>3, <2>5, <2>7, <2>8, MildCommitHere DEF M
<1>4. CASE Finish(<<dev>>, [mem EXCEPT !.skipped = @ \cup {from}])
  BY <1>1, <1>4, SameRuns, DoneMemory, SameFinish
<1> QED  BY <1>2, <1>3, <1>4

\* run_conflict, the copy uploaded.
LEMMA CopyReplySaves ==
  ASSUME IInv, SaveInv, NEW k \in Keys, CopyReply(k)
  PROVE  SaveInv'
<1> DEFINE S == ghost.seen
           e  == [At("hash", k) EXCEPT !.sha = mem.eng.sha]
<1>1. Quieter /\ Paid /\ mem.eng.pc = "copied"  BY SameGhost DEF CopyReply
<1>2. PICK lk \in Keys : \/ Finish(<<SetConflict(dev, lk, None)>>, mem)
                        \/ Commit(<<SetConflict(dev, lk, None)>>, Engage(e))
  BY DEF CopyReply
<1> DEFINE d1 == SetConflict(dev, lk, None)
<1>3. <<d1>> \in Runs(SameOf(S, dev))  BY SameRuns
<1>4. CASE Finish(<<d1>>, mem)
  BY <1>1, <1>3, <1>4, DoneMemory, SameFinish
<1>5. CASE Commit(<<d1>>, Engage(e))
  <2>1. e.pc = "hash" /\ e.reply = None /\ e.sha = mem.eng.sha  BY DEF At, Idle
  <2> HIDE DEF e, d1
  <2>2. mem.eng.sha \notin ghost'.unsent
    BY <1>1 DEF SaveInv, Uploaded, InHand, Quieter
  <2>3. None \notin ghost'.unsent /\ None \in 0..ghost.next - 1
    BY <1>1, GhostFacts DEF Quieter, None
  <2>4. /\ InHand(e, ghost'.unsent) /\ Plan(dev, e, Owed')
        /\ e.reply \in 0..ghost.next - 1 /\ e.sha \in 0..ghost.next - 1
    BY <1>1, <2>1, <2>2, <2>3, Engaged DEF InHand, Plan
  <2>5. /\ Sound(Engage(e)) /\ Engage(e).eng = e
        /\ Engage(e).unscanned = mem.unscanned /\ Engage(e).unflushed = mem.unflushed
    BY <1>1, <2>4, Engaged, EngageSound
  <2> QED  BY <1>1, <1>3, <1>5, <2>4, <2>5, SameCommit
<1> QED  BY <1>2, <1>4, <1>5

\* run_conflict, the file hashed: what is on the hub as a copy may be pulled over.
LEMMA ConflictHashSaves ==
  ASSUME IInv, SaveInv, NEW k \in Keys, ConflictHash(k)
  PROVE  SaveInv'
<1>1. /\ Quieter /\ Paid /\ mem.eng.pc = "hash" /\ UNCHANGED <<dev, hub>>
      /\ ghost'.unsent = ghost.unsent /\ Owed' = Owed
  BY SameGhost DEF ConflictHash
<1>2. PICK pc \in {"scan", "take"} :
        /\ mem' = Engage(At(pc, k))
        /\ pc = "take" => dev.file[k] \in {None, mem.eng.sha} /\ k \notin mem.open
  BY DEF ConflictHash
<1>3. At(pc, k).pc = pc /\ At(pc, k).key = k /\ At(pc, k).reply = None /\ At(pc, k).sha = None
  BY DEF At, Idle
<1>4. None \notin ghost'.unsent /\ None \in 0..ghost.next - 1 /\ None \notin Owed
  BY <1>1, GhostFacts DEF None
<1>5. InHand(At(pc, k), ghost'.unsent)  BY <1>3, <1>4 DEF InHand
<1>6. Plan(dev, At(pc, k), Owed')
  <2>1. mem.eng.sha \notin Owed  BY <1>1 DEF SaveInv, Uploaded, InHand, Owed
  <2>2. Names(dev, k, Owed)  BY <1>1, Engaged, Running
  <2>3. pc = "take" => ~ Owes(dev.entry[k], Owed)
    BY <1>2, <1>4, <2>1, <2>2 DEF Names, Owes
  <2> QED  BY <1>1, <1>3, <2>3 DEF Plan
<1>7. /\ mem'.eng = At(pc, k) /\ mem'.listing = mem.listing /\ mem'.up = mem.up
      /\ mem'.open = mem.open /\ mem'.unflushed = mem.unflushed
      /\ mem'.unscanned = mem.unscanned
  BY <1>1, <1>2, Engaged DEF Engage, MemoryOf
<1>8. SameBytes(dev, dev') /\ mem.up  BY <1>1, Engaged DEF SameBytes
<1> QED  BY <1>1, <1>3, <1>4, <1>5, <1>6, <1>7, <1>8, HubReads, MemorySaves

\* Until an entry says what an older entry said, a pull may go by either.
LEMMA PlanPulls ==
  ASSUME IInv, SaveInv, Quieter, Paid, mem.eng.pc # "idle", NEW e,
         e.pc \in {"pull", "get"}, e.reply = None, e.sha = None, ~ Owes(e.seen, Owed)
  PROVE  /\ Sound(Engage(e)) /\ Engage(e).eng = e
         /\ Engage(e).unscanned = mem.unscanned /\ Engage(e).unflushed = mem.unflushed
         /\ Plan(dev, Engage(e).eng, Owed')
<1>1. None \notin ghost'.unsent /\ None \in 0..ghost.next - 1
  BY GhostFacts DEF Quieter, None
<1>2. InHand(e, ghost'.unsent)  BY <1>1 DEF InHand
<1>3. Plan(dev, e, Owed')  BY DEF Plan, Owes, Paid
<1> QED  BY <1>1, <1>2, <1>3, Engaged, EngageSound

\* run_conflict, asking for the hub's version.
LEMMA ConflictTakeSaves ==
  ASSUME IInv, SaveInv, NEW k \in Keys, ConflictTake(k)
  PROVE  SaveInv'
<1> DEFINE S  == ghost.seen
           e  == [At("pull", k) EXCEPT !.seen = dev.entry[k]]
           d1 == SetBase(dev, k, None)
           d2 == IF d1.entry[k].state = "Absent" THEN d1 ELSE SetState(d1, k, "Dirty")
           d3 == EnsureJob(d2, PushId(k), None)
           M  == MildOf(S, dev, k)
<1>1. mem.eng.pc = "take" /\ mem.eng.key = k  BY DEF ConflictTake
<1>2. CASE Commit(<<dev>>, Engage(e)) /\ UNCHANGED ghost
  <2>1. Quieter /\ Paid  BY <1>2, SameGhost
  <2>2. ~ Owes(dev.entry[k], Owed)  BY <1>1 DEF SaveInv, Plan
  <2>3. e.pc = "pull" /\ e.reply = None /\ e.sha = None /\ e.seen = dev.entry[k]
    BY DEF At, Idle
  <2> HIDE DEF e
  <2>4. /\ Sound(Engage(e)) /\ Engage(e).eng = e
        /\ Engage(e).unscanned = mem.unscanned /\ Engage(e).unflushed = mem.unflushed
        /\ Plan(dev, Engage(e).eng, Owed')
    BY <1>1, <2>1, <2>2, <2>3, PlanPulls
  <2> QED  BY <1>2, <2>1, <2>4, SameRuns, SameCommit
<1>3. CASE Finish(<<d1, d2, d3>>, mem) /\ Misreads({k})
  <2>1. /\ Quieter /\ Paid
        /\ dev.entry[k].state = "Tombstone" => dev.entry[k].sha \notin Owed'
    BY <1>3, MisreadGhost
  <2>2. /\ Names(dev, k, Owed) /\ Tracks(dev, k, mem.unflushed, Owed)
        /\ dev \in DeviceOf(S) /\ dev \in M
    BY <1>1, <2>1, Engaged, Running, MildSelf
  <2>3. Agreed(dev, Owed')
    BY <2>1, StillSafe DEF Safe
  <2>4. dev.entry[k] \in EntryOf(S)  BY <2>2, DeviceReads
  <2>5. d1 \in M /\ d1.entry = dev.entry /\ d1.file = dev.file /\ d1.base[k] = None
    BY <2>2, MildSet DEF SetBase, DeviceOf
  <2>6. d1 \in DeviceOf(S)  BY <2>5 DEF MildOf
  <2> HIDE DEF d1
  <2>7. /\ d2 \in M /\ d2.file = dev.file /\ d2.base[k] = None
        /\ d2.entry[k] = IF dev.entry[k].state = "Absent" THEN dev.entry[k]
                         ELSE [dev.entry[k] EXCEPT !.state = "Dirty"]
    <3>1. "Dirty" \in EntryStates \ {"Clean"}  BY DEF EntryStates
    <3>2. SetState(d1, k, "Dirty") \in M  BY <2>2, <2>5, <3>1, MildSet
    <3> QED  BY <2>5, <2>6, <3>2 DEF SetState, SetEntry, DeviceOf
  <2>8. d2 \in DeviceOf(S)  BY <2>7 DEF MildOf
  <2> HIDE DEF d2
  <2>9. d3 \in M /\ SameBytes(d2, d3)
    <3>1. None \in S \cup {None} /\ PushId(k) \in JobId  BY IdsOfKeys
    <3> QED  BY <2>2, <2>7, <2>8, <3>1, MildQueue, QueueBytes
  <2> HIDE DEF d3
  <2>10. Names(d3, k, Owed') /\ Tracks(d3, k, mem.unflushed, Owed')
    <3>1. /\ d3.file[k] = dev.file[k] /\ d3.base[k] = None
          /\ d3.entry[k].sha = dev.entry[k].sha
          /\ dev.entry[k].state = "Dirty" => d3.entry[k] = dev.entry[k]
          /\ d3.entry[k].state = "Dirty" =>
               dev.entry[k].state \in {"Clean", "Dirty", "Tombstone"}
      BY <2>4, <2>7, <2>9 DEF SameBytes, EntryOf, EntryStates
    <3>2. d3.entry[k].state = "Dirty" /\ dev.entry[k].sha \in Owed'
            => dev.entry[k].state = "Dirty"
      BY <2>1, <2>3, <3>1 DEF Agreed
    <3>3. Names(d3, k, Owed')  BY <2>1, <2>2, <3>1, <3>2 DEF Names, Paid
    <3>4. Tracks(d3, k, mem.unflushed, Owed')
      BY <2>1, <2>2, <3>1 DEF Tracks, Paid, Intent, Hashed, None, Unhashed
    <3> QED  BY <3>3, <3>4
  <2> HIDE DEF M
  <2>11. <<d1, d2, d3>> \in Runs(M) /\ Last(<<d1, d2, d3>>) = d3
    BY <2>5, <2>7, <2>9, RunsThree
  <2> QED  BY <1>3, <2>1, <2>10, <2>11, MildFinishHere DEF M
<1> QED  BY <1>2, <1>3 DEF ConflictTake

(***************************************************************************)
(* The engine: one key against what the hub said of it.                    *)
(***************************************************************************)
\* A file that is owed, its handle closed: decide() is given its digest, or the
\* empty one of an intent, and the base is neither.
LEMMA OwedReads ==
  ASSUME IInv, SaveInv, mem.up, NEW k \in Keys, k \notin mem.open, dev.file[k] \in Owed
  PROVE  /\ dev.entry[k].state = "Dirty" /\ dev.entry[k].sha = dev.file[k]
         /\ LocalDigest(dev.entry[k]) \in {Unhashed, dev.file[k]}
         /\ LocalDigest(dev.entry[k]) # None
         /\ LocalDigest(dev.entry[k]) # dev.base[k]
<1>1. k \notin mem.unflushed  BY DEF SaveInv, Mounted
<1>2. /\ dev.entry[k] \in {Intent(dev.file[k]), Hashed(dev.file[k], "Dirty")}
      /\ dev.entry[k].hashed \/ dev.base[k] # Unhashed
  BY <1>1, Running DEF Tracks
<1>3. dev.base[k] \notin Owed /\ None \notin Owed
  BY GhostFacts DEF SaveInv, Safe, Agreed
<1>4. CASE dev.entry[k] = Intent(dev.file[k])
  BY <1>2, <1>3, <1>4 DEF Intent, LocalDigest, EntryDigest, Live, None, Unhashed
<1>5. CASE dev.entry[k] = Hashed(dev.file[k], "Dirty")
  BY <1>2, <1>3, <1>5 DEF Hashed, LocalDigest, EntryDigest, Live
<1> QED  BY <1>2, <1>4, <1>5

\* A dirty entry that names a save still owed is that of such a file.
LEMMA OwesReads ==
  ASSUME IInv, SaveInv, mem.up, NEW k \in Keys, Owes(dev.entry[k], Owed)
  PROVE  dev.file[k] \in Owed /\ dev.file[k] = dev.entry[k].sha
BY Running DEF Owes, Names

\* What the answers of decide() say.
LEMMA DecideReads ==
  ASSUME NEW l, NEW b, NEW r
  PROVE  /\ R!Decide(l, b, r).act = "Adopt" => l = r
         /\ R!Decide(l, b, r).act = "Push" => l # None
         /\ R!Decide(l, b, r).act = "DeleteRemote" => l = None
         /\ R!Decide(l, b, r).act = "TrashLocal" => l = b
         /\ R!Decide(l, b, r).act = "Pull" => l = b \/ l = None
BY DEF R!Decide, R!OneSideChanged, R!BothSidesChanged, R!Action

\* An entry made dirty again, or left as it was.
LEMMA RedirtyTracks ==
  ASSUME NEW S, NEW d, NEW e, NEW k \in Keys, NEW O, NEW W, d.entry[k] \in EntryOf(S),
         Names(d, k, O), Tracks(d, k, W, O), Agreed(d, O),
         d.entry[k].state \in {"Tombstone", "Absent"} => d.entry[k].sha \notin O,
         e.file[k] = d.file[k], e.base[k] \in {d.base[k], None},
         e.entry[k] = [d.entry[k] EXCEPT !.state = "Dirty"]
  PROVE  Names(e, k, O) /\ Tracks(e, k, W, O)
<1>1. /\ e.entry[k].sha = d.entry[k].sha /\ e.entry[k].hashed = d.entry[k].hashed
      /\ d.entry[k].state \in {"Clean", "Dirty", "Tombstone", "Absent"}
      /\ d.entry[k].state = "Dirty" => e.entry[k] = d.entry[k]
  BY DEF EntryOf, EntryStates
<1>2. d.entry[k].sha \in O => d.entry[k].state = "Dirty"  BY <1>1 DEF Agreed
<1>3. Names(e, k, O)  BY <1>1, <1>2 DEF Names
<1>4. Tracks(e, k, W, O)
  <2>1. d.file[k] \in O /\ k \notin W => d.entry[k].state = "Dirty"
    BY DEF Tracks, Intent, Hashed
  <2> QED  BY <1>1, <2>1 DEF Tracks, None, Unhashed
<1> QED  BY <1>3, <1>4

\* Push.
LEMMA RepushSaves ==
  ASSUME IInv, SaveInv, UNCHANGED ghost, mem.eng.pc # "idle", NEW k \in Keys, NEW match,
         Live(dev.entry[k]), Finish(RepushSteps(dev, k, match), mem)
  PROVE  SaveInv'
<1> DEFINE S  == ghost.seen
           d1 == IF match = None THEN SetBase(dev, k, None) ELSE dev
           d2 == SetState(d1, k, "Dirty")
           d3 == EnsureJob(d2, PushId(k), None)
           M  == MildOf(S, dev, k)
<1>1. Quieter /\ Paid  BY SameGhost
<1>2. /\ Names(dev, k, Owed') /\ Tracks(dev, k, mem.unflushed, Owed')
      /\ Agreed(dev, Owed') /\ dev \in DeviceOf(S) /\ dev \in M
  BY <1>1, Engaged, Running, StillSafe, SameGhost, MildSelf DEF Safe
<1>3. SetBase(dev, k, None) \in M  BY <1>2, MildSet
<1>4. /\ d1 \in M /\ d1.file = dev.file /\ d1.entry = dev.entry
      /\ d1.base[k] \in {dev.base[k], None}
  BY <1>2, <1>3 DEF SetBase, DeviceOf
<1>5. d1 \in DeviceOf(S)  BY <1>4 DEF MildOf
<1> HIDE DEF d1
<1>6. /\ d2 \in M /\ d2.file = dev.file /\ d2.base = d1.base
      /\ d2.entry[k] = [dev.entry[k] EXCEPT !.state = "Dirty"]
  <2>1. "Dirty" \in EntryStates \ {"Clean"}  BY DEF EntryStates
  <2>2. d2 \in M  BY <1>2, <1>4, <2>1, MildSet
  <2> QED  BY <1>4, <1>5, <2>2 DEF SetState, SetEntry, DeviceOf
<1>7. d2 \in DeviceOf(S)  BY <1>6 DEF MildOf
<1> HIDE DEF d2
<1>8. d3 \in M /\ SameBytes(d2, d3)
  <2>1. None \in S \cup {None} /\ PushId(k) \in JobId  BY IdsOfKeys
  <2> QED  BY <1>2, <1>6, <1>7, <2>1, MildQueue, QueueBytes
<1> HIDE DEF d3
<1>9. Names(d3, k, Owed') /\ Tracks(d3, k, mem.unflushed, Owed')
  <2>1. /\ d3.file[k] = dev.file[k] /\ d3.base[k] \in {dev.base[k], None}
        /\ d3.entry[k] = [dev.entry[k] EXCEPT !.state = "Dirty"]
    BY <1>4, <1>6, <1>8 DEF SameBytes
  <2>2. dev.entry[k] \in EntryOf(S)  BY <1>2, DeviceReads
  <2>3. dev.entry[k].state \notin {"Tombstone", "Absent"}  BY DEF Live
  <2> QED  BY <1>2, <2>1, <2>2, <2>3, RedirtyTracks
<1>10. RepushSteps(dev, k, match) = <<d1, d2, d3>>  BY DEF RepushSteps, d1, d2, d3
<1> HIDE DEF M
<1>11. <<d1, d2, d3>> \in Runs(M) /\ Last(<<d1, d2, d3>>) = d3
  BY <1>4, <1>6, <1>8, RunsThree
<1> QED  BY <1>1, <1>9, <1>10, <1>11, MildFinishHere DEF M

\* DeleteRemote.
LEMMA UnlinkStepsSave ==
  ASSUME IInv, SaveInv, UNCHANGED ghost, mem.eng.pc # "idle", NEW k \in Keys,
         dev.file[k] \notin Owed, Finish(UnlinkSteps(dev, k), mem)
  PROVE  SaveInv'
<1> DEFINE S  == ghost.seen
           d1 == SetEntry(dev, k, NoEntry)
           d2 == SetBase(d1, k, None)
           j1 == EnsureJob(dev, DeleteId(k), None)
           M  == MildOf(S, dev, k)
<1>1. Quieter /\ Paid /\ Owed' = Owed  BY SameGhost
<1>2. /\ Names(dev, k, Owed) /\ Tracks(dev, k, mem.unflushed, Owed)
      /\ dev \in DeviceOf(S) /\ dev \in M
  BY <1>1, Engaged, Running, MildSelf
<1>3. NoEntry \in EntryOf(S) /\ NoEntry.state = "Absent"  BY EntryValues DEF NoEntry
<1>4. d1 \in M /\ d1.file = dev.file /\ d1.entry[k] = NoEntry
  BY <1>2, <1>3, MildSet DEF SetEntry, DeviceOf
<1>5. d1 \in DeviceOf(S)  BY <1>4 DEF MildOf
<1> HIDE DEF d1
<1>6. d2 \in M /\ d2.file = dev.file /\ d2.entry[k] = NoEntry
  BY <1>2, <1>4, <1>5, MildSet DEF SetBase, DeviceOf
<1> HIDE DEF d2
<1>7. j1 \in M /\ SameBytes(dev, j1)
  <2>1. None \in S \cup {None} /\ DeleteId(k) \in JobId  BY IdsOfKeys
  <2> QED  BY <1>2, <2>1, MildQueue, QueueBytes
<1> HIDE DEF j1
<1>8. Names(d2, k, Owed') /\ Tracks(d2, k, mem.unflushed, Owed')
  BY <1>1, <1>3, <1>6 DEF Names, Tracks
<1>9. Names(j1, k, Owed') /\ Tracks(j1, k, mem.unflushed, Owed')
  BY <1>1, <1>2, <1>7 DEF Names, Tracks, SameBytes
<1>10. UnlinkSteps(dev, k) = IF Deletes = "propagate" THEN <<j1>> ELSE <<d1, d2>>
  BY DEF UnlinkSteps, j1, d1, d2
<1> HIDE DEF M
<1>11. /\ <<d1, d2>> \in Runs(M) /\ Last(<<d1, d2>>) = d2
       /\ <<j1>> \in Runs(M) /\ Last(<<j1>>) = j1
  BY <1>4, <1>6, <1>7, RunsTwo, RunsOne
<1> QED  BY <1>1, <1>8, <1>9, <1>10, <1>11, MildFinishHere DEF M

\* TrashLocal: the bytes moved to the trash are owed to nobody.
LEMMA TrashSaves ==
  ASSUME IInv, SaveInv, UNCHANGED ghost, mem.eng.pc # "idle", NEW k \in Keys,
         dev.file[k] \notin Owed, Finish(TrashSteps(dev, k), mem)
  PROVE  SaveInv'
<1> DEFINE S    == ghost.seen
           gone == SetFile(dev, k, None)
           put  == SetTrash(dev, k, dev.file[k])
           d1   == SetFile(put, k, None)
           d2   == RemoveJobsFor(d1, k)
           d3   == SetEntry(d2, k, NoEntry)
           d4   == SetBase(d3, k, None)
           M    == MildOf(S, gone, k)
<1>1. Quieter /\ Paid /\ Owed' = Owed /\ ghost'.unsent = ghost.unsent  BY SameGhost
<1>2. dev \in DeviceOf(S)  BY Parts
<1>3. gone \in DeviceOf(S) /\ gone \in M  BY <1>2, SetFileDevice, MildSelf
<1>4. /\ Safe(gone, ghost'.unsent, Owed')
      /\ Tracked(gone, Keys \ mem.unscanned, mem.unflushed, Owed')
  BY <1>1, GoneSafe
<1>5. d1 \in M /\ d1.file[k] = None
  <2>1. put \in DeviceOf(S)  BY <1>2, DeviceReads, SetRecordDevice
  <2>2. d1 \in DeviceOf(S)  BY <2>1, SetFileDevice
  <2>3. SameBytes(gone, d1)
    BY <1>2, <2>1 DEF SameBytes, SetFile, SetTrash, DeviceOf
  <2>4. d1.file[k] = None  BY <2>1 DEF SetFile, DeviceOf
  <2> HIDE DEF d1, gone
  <2> QED  BY <1>3, <2>2, <2>3, <2>4, MildSame
<1>6. d1 \in DeviceOf(S)  BY <1>5 DEF MildOf
<1> HIDE DEF d1, gone
<1>7. d2 \in M /\ d2.file[k] = None
  <2>1. d2 \in M  BY <1>3, <1>5, MildQueue
  <2>2. SameBytes(d1, d2)  BY <1>6, QueueBytes
  <2> QED  BY <1>5, <2>1, <2>2 DEF SameBytes
<1>8. d2 \in DeviceOf(S)  BY <1>7 DEF MildOf
<1> HIDE DEF d2
<1>9. NoEntry \in EntryOf(S) /\ NoEntry.state = "Absent"  BY EntryValues DEF NoEntry
<1>10. d3 \in M /\ d3.file[k] = None /\ d3.entry[k] = NoEntry
  BY <1>3, <1>7, <1>8, <1>9, MildSet DEF SetEntry, DeviceOf
<1>11. d3 \in DeviceOf(S)  BY <1>10 DEF MildOf
<1> HIDE DEF d3
<1>12. d4 \in M /\ d4.file[k] = None /\ d4.entry[k] = NoEntry
  BY <1>3, <1>10, <1>11, MildSet DEF SetBase, DeviceOf
<1> HIDE DEF d4
<1>13. None \notin Owed'  BY <1>1, GhostFacts
<1>14. Names(d4, k, Owed') /\ Tracks(d4, k, mem.unflushed, Owed')
  BY <1>9, <1>12, <1>13 DEF Names, Tracks
<1>15. TrashSteps(dev, k) = <<d1, d2, d3, d4>>  BY DEF TrashSteps, d1, d2, d3, d4
<1> HIDE DEF M
<1>16. <<d1, d2, d3, d4>> \in Runs(M) /\ Last(<<d1, d2, d3, d4>>) = d4
  BY <1>5, <1>7, <1>10, <1>12, RunsFour
<1>17. /\ Keys \ mem.unscanned \subseteq (Keys \ mem.unscanned) \cup {k}
       /\ mem.unflushed \ {k} \subseteq mem.unflushed
  OBVIOUS
<1> QED
  BY ZenonT(60), <1>1, <1>3, <1>4, <1>14, <1>15, <1>16, <1>17, DoneMemory, MildFinish DEF M

\* Adopt: the bytes here are those of the hub, or a tombstone's.
LEMMA AdoptSaves ==
  ASSUME IInv, SaveInv, mem.eng.pc # "idle", NEW k \in Keys, k \notin mem.open,
         LocalDigest(dev.entry[k]) = mem.eng.reply, Misreads({k}),
         Finish(AdoptSteps(dev, k), mem)
  PROVE  SaveInv'
<1> DEFINE S  == ghost.seen
           O  == Owed'
           e  == dev.entry[k]
           b  == IF e.state = "Absent" THEN None ELSE EntryDigest(e)
           d1 == SetBase(dev, k, b)
           d2 == IF e.state = "Absent" THEN d1 ELSE SetState(d1, k, "Clean")
           d3 == RemoveJobsFor(d2, k)
           A  == AgreeOf(S, dev, k, O)
<1>1. /\ Quieter /\ Paid /\ ghost'.unsent = ghost.unsent
      /\ e.state = "Tombstone" => e.sha \notin O
  BY MisreadGhost
<1>2. /\ dev \in DeviceOf(S) /\ e \in EntryOf(S) /\ dev \in A /\ mem.up
      /\ mem.eng.reply \in 0..ghost.next - 1 /\ mem.eng.reply \notin ghost.unsent
  BY <1>1, Engaged, Parts, DeviceReads, AgreeSelf
<1>3. None \notin O /\ Unhashed \notin O /\ O \subseteq ghost.unsent
  BY <1>1, GhostFacts DEF Paid, Owed
<1>4. Live(e) => e.hashed /\ e.sha \notin O
  <2>1. mem.eng.reply # Unhashed  BY <1>2 DEF Unhashed
  <2> QED  BY <1>2, <1>3, <2>1 DEF LocalDigest, EntryDigest
<1>5. e.state # "Absent" => e.sha \notin O
  BY <1>1, <1>2, <1>4 DEF Live, EntryOf, EntryStates
<1>6. b \notin O /\ b \in S \cup {None, Unhashed}
  BY <1>2, <1>3, <1>5, EntryReads DEF EntryDigest
<1>7. dev.file[k] \notin O
  <2>1. SUFFICES ASSUME dev.file[k] \in Owed  PROVE FALSE
    BY <1>1 DEF Paid
  <2>2. mem.eng.reply \in {Unhashed, dev.file[k]}  BY <1>2, <2>1, OwedReads
  <2> QED  BY <1>2, <2>1, <2>2 DEF Owed, Unhashed
<1>8. d1 \in DeviceOf(S)  BY SMTT(60), <1>2, <1>6, SetBaseDevice
<1>9. d1 \in A /\ d1.file = dev.file /\ d1.entry = dev.entry /\ d1.base[k] = b
  <2>1. /\ d1.file = dev.file /\ d1.entry = dev.entry /\ d1.snaps = dev.snaps
        /\ d1.base = [dev.base EXCEPT ![k] = b] /\ DOMAIN dev.base = Keys
    BY <1>2 DEF SetBase, DeviceOf
  <2> QED  BY <1>2, <1>6, <1>8, <2>1 DEF AgreeOf
<1> HIDE DEF d1, b
<1>10. /\ d2 \in A /\ d2.file = dev.file
       /\ d2.entry[k].state \in {"Clean", "Absent"}
  <2>1. CASE e.state = "Absent"  BY <1>9, <2>1
  <2>2. CASE e.state # "Absent"
    <3> DEFINE r == [e EXCEPT !.state = "Clean"]
    <3>1. r \in EntryOf(S) /\ r.state = "Clean" /\ r.sha = e.sha
      BY <1>2 DEF EntryOf, EntryStates
    <3>2. d2 = SetEntry(d1, k, r)  BY <1>9, <2>2 DEF SetState
    <3> HIDE DEF r
    <3>3. d2 \in DeviceOf(S)  BY <1>8, <3>1, <3>2, SetEntryDevice
    <3>4. /\ d2.file = d1.file /\ d2.snaps = d1.snaps /\ d2.base = d1.base
          /\ d2.entry = [dev.entry EXCEPT ![k] = r] /\ DOMAIN dev.entry = Keys
      BY <1>2, <1>8, <1>9, <3>2 DEF SetEntry, DeviceOf
    <3> QED  BY <1>5, <1>9, <2>2, <3>1, <3>3, <3>4 DEF AgreeOf
  <2> QED  BY <2>1, <2>2
<1>11. d2 \in DeviceOf(S)  BY <1>10 DEF AgreeOf
<1> HIDE DEF d2
<1>12. d3 \in DeviceOf(S) /\ SameBytes(d2, d3)
  BY <1>11, RemoveJobsForDevice, QueueBytes
<1> HIDE DEF d3
<1>13. d3 \in A  BY <1>10, <1>12 DEF AgreeOf, SameBytes
<1>14. Names(d3, k, O) /\ Tracks(d3, k, mem.unflushed, O)
  BY <1>7, <1>10, <1>12 DEF SameBytes, Names, Tracks
<1>15. AdoptSteps(dev, k) = <<d1, d2, d3>>  BY DEF AdoptSteps, b, d1, d2, d3
<1> HIDE DEF A
<1>16. <<d1, d2, d3>> \in Runs(A) /\ Last(<<d1, d2, d3>>) = d3
  BY <1>9, <1>10, <1>13, RunsThree
<1> QED  BY <1>1, <1>14, <1>15, <1>16, AgreeFinish DEF A

\* reconcile_key.
LEMMA ReconcileSaves ==
  ASSUME IInv, SaveInv, NEW k \in Keys, Reconcile(k)
  PROVE  SaveInv'
<1> DEFINE e == dev.entry[k]
           l == LocalDigest(e)
           answer == R!Decide(l, dev.base[k], mem.eng.reply)
           At2(pc) == [At(pc, k) EXCEPT !.seen = e]
<1>1. mem.eng.pc # "idle"  BY DEF Reconcile
<1>2. CASE UNCHANGED ghost /\ Finish(<<dev>>, mem)
  BY <1>2, SameGhost, SameRuns, DoneMemory, SameFinish
<1>3. CASE UNCHANGED ghost /\ Finish(<<dev>>, [mem EXCEPT !.recheck = @ \cup {k}])
  BY <1>3, SameGhost, SameRuns, DoneMemory, SameFinish
<1>4. CASE /\ k \notin mem.open /\ answer.act = "Adopt"
           /\ Finish(AdoptSteps(dev, k), mem) /\ Misreads({k})
  <2>1. l = mem.eng.reply  BY <1>4, DecideReads
  <2> QED  BY <1>1, <1>4, <2>1, AdoptSaves
<1>5. ASSUME UNCHANGED ghost, k \notin mem.open, dev.file[k] \in Owed
      PROVE  answer.act \notin {"DeleteRemote", "TrashLocal", "Pull"}
  <2>1. l # None /\ l # dev.base[k]
    BY <1>1, <1>5, SameGhost, Engaged, OwedReads
  <2> QED  BY <2>1, DecideReads
<1>6. CASE /\ UNCHANGED ghost /\ answer.act = "Push"
           /\ Finish(RepushSteps(dev, k, answer.match), mem)
  <2>1. Live(e)  BY <1>6, DecideReads DEF LocalDigest
  <2> QED  BY <1>1, <1>6, <2>1, RepushSaves
<1>7. CASE /\ UNCHANGED ghost /\ answer.act = "DeleteRemote" /\ k \notin mem.open
           /\ Finish(UnlinkSteps(dev, k), mem)
  BY <1>1, <1>5, <1>7, UnlinkStepsSave
<1>8. CASE /\ UNCHANGED ghost /\ answer.act = "TrashLocal" /\ k \notin mem.open
           /\ Finish(TrashSteps(dev, k), mem)
  BY <1>1, <1>5, <1>8, TrashSaves
<1>9. CASE /\ UNCHANGED ghost /\ answer.act = "Pull" /\ k \notin mem.open
           /\ Commit(<<dev>>, Engage(At2("pull")))
  <2>1. At2("pull").pc = "pull" /\ At2("pull").seen = e /\ At2("pull").sha = None
        /\ At2("pull").reply = None
    BY DEF At, Idle
  <2> HIDE DEF At2
  <2>2. Quieter /\ Paid  BY <1>9, SameGhost
  <2>3. ~ Owes(e, Owed)  BY <1>1, <1>5, <1>9, <2>2, Engaged, OwesReads
  <2>4. /\ Sound(Engage(At2("pull"))) /\ Engage(At2("pull")).eng = At2("pull")
        /\ Engage(At2("pull")).unscanned = mem.unscanned
        /\ Engage(At2("pull")).unflushed = mem.unflushed
        /\ Plan(dev, Engage(At2("pull")).eng, Owed')
    BY <1>1, <2>1, <2>2, <2>3, PlanPulls
  <2> QED  BY <1>9, <2>2, <2>4, SameRuns, SameCommit
<1>10. CASE UNCHANGED ghost /\ Commit(<<dev>>, Engage(At2("conflict")))
  <2>1. At2("conflict").pc = "conflict" /\ At2("conflict").sha = None
        /\ At2("conflict").reply = None
    BY DEF At, Idle
  <2> HIDE DEF At2
  <2>2. Quieter /\ Paid  BY <1>10, SameGhost
  <2>3. None \in 0..ghost.next - 1 /\ None \notin ghost.unsent  BY GhostFacts DEF None
  <2>4. /\ Sound(Engage(At2("conflict"))) /\ Engage(At2("conflict")).eng = At2("conflict")
        /\ Engage(At2("conflict")).unscanned = mem.unscanned
        /\ Engage(At2("conflict")).unflushed = mem.unflushed
        /\ Plan(dev, Engage(At2("conflict")).eng, Owed')
    BY <1>1, <2>1, <2>2, <2>3, NextSound
  <2> QED  BY <1>10, <2>2, <2>4, SameRuns, SameCommit
<1> HIDE DEF answer, e, l
<1> QED
  BY <1>2, <1>3, <1>4, <1>6, <1>7, <1>8, <1>9, <1>10 DEF Reconcile, answer, e, l

\* pull_key, its first lock.
LEMMA PullStartSaves ==
  ASSUME IInv, SaveInv, NEW k \in Keys, PullStart(k)
  PROVE  SaveInv'
<1> DEFINE e == [At("get", k) EXCEPT !.seen = mem.eng.seen, !.stamp = dev.file[k]]
<1>1. Quieter /\ Paid /\ mem.eng.pc = "pull"  BY SameGhost DEF PullStart
<1>2. CASE Finish(<<dev>>, [mem EXCEPT !.recheck = @ \cup {k}])
  BY <1>1, <1>2, SameRuns, DoneMemory, SameFinish
<1>3. CASE Commit(<<dev>>, Engage(e))
  <2>1. e.pc = "get" /\ e.reply = None /\ e.sha = None /\ e.seen = mem.eng.seen
    BY DEF At, Idle
  <2> HIDE DEF e
  <2>2. ~ Owes(mem.eng.seen, Owed)  BY <1>1 DEF SaveInv, Plan
  <2>3. /\ Sound(Engage(e)) /\ Engage(e).eng = e
        /\ Engage(e).unscanned = mem.unscanned /\ Engage(e).unflushed = mem.unflushed
        /\ Plan(dev, Engage(e).eng, Owed')
    BY <1>1, <2>1, <2>2, PlanPulls
  <2> QED  BY <1>1, <1>3, <2>3, SameRuns, SameCommit
<1> HIDE DEF e
<1> QED  BY <1>2, <1>3 DEF PullStart, e

\* The GET.
LEMMA PullGetSaves ==
  ASSUME IInv, SaveInv, NEW k \in Keys, PullGet(k)
  PROVE  SaveInv'
<1> DEFINE e == [mem.eng EXCEPT !.pc = "land", !.sha = hub.object[k]]
<1>1. Quieter /\ Paid /\ mem.eng.pc = "get"  BY SameGhost DEF PullGet
<1>2. CASE Finish(<<dev>>, mem)
  BY <1>1, <1>2, SameRuns, DoneMemory, SameFinish
<1>3. CASE Commit(<<dev>>, Engage(e))
  <2>1. e.pc = "land" /\ e.reply = mem.eng.reply /\ e.sha = hub.object[k]
        /\ e.seen = mem.eng.seen
    BY Parts DEF EngineOf
  <2> HIDE DEF e
  <2>2. ~ Owes(mem.eng.seen, Owed)  BY <1>1 DEF SaveInv, Plan
  <2>3. /\ InHand(e, ghost'.unsent) /\ Plan(dev, e, Owed')
        /\ e.reply \in 0..ghost.next - 1 /\ e.sha \in 0..ghost.next - 1
    BY <1>1, <2>1, <2>2, Engaged, HubReads DEF InHand, Plan, Owes, Paid
  <2>4. /\ Sound(Engage(e)) /\ Engage(e).eng = e
        /\ Engage(e).unscanned = mem.unscanned /\ Engage(e).unflushed = mem.unflushed
    BY <1>1, <2>3, Engaged, EngageSound
  <2> QED  BY <1>1, <1>3, <2>3, <2>4, SameRuns, SameCommit
<1> HIDE DEF e
<1> QED  BY <1>2, <1>3 DEF PullGet, e

\* A file that is owed to nobody replaced by a version of the hub.
LEMMA LandedSafe ==
  ASSUME IInv, SaveInv, NEW k \in Keys, dev.file[k] \notin Owed,
         NEW v, v \notin ghost.unsent, ghost'.unsent = ghost.unsent, Owed' = Owed,
         NEW d, d = SetFile(dev, k, v)
  PROVE  /\ Safe(d, ghost'.unsent, Owed') /\ d.file[k] = v
         /\ Tracked(d, Keys \ mem.unscanned, mem.unflushed, Owed')
<1>1. /\ d.file = [dev.file EXCEPT ![k] = v] /\ DOMAIN dev.file = Keys
      /\ d.entry = dev.entry /\ d.base = dev.base /\ d.snaps = dev.snaps
  BY Parts DEF DeviceOf, SetFile
<1>2. d.file[k] = v /\ \A i \in Keys : i # k => d.file[i] = dev.file[i]  BY <1>1
<1>3. v \notin Owed  BY DEF Owed
<1>4. FileOnce(d, ghost.unsent)  BY <1>2 DEF SaveInv, Safe, FileOnce
<1>5. Held(d, Owed)  BY <1>1, <1>2 DEF SaveInv, Safe, Held
<1>6. Agreed(d, Owed)  BY <1>1 DEF SaveInv, Safe, Agreed
<1>7. ASSUME NEW i \in Keys \ mem.unscanned
      PROVE  Names(d, i, Owed) /\ Tracks(d, i, mem.unflushed, Owed)
  <2>1. Names(dev, i, Owed) /\ Tracks(dev, i, mem.unflushed, Owed)
    BY DEF SaveInv, Tracked
  <2>2. CASE i # k  BY <1>1, <1>2, <2>1, <2>2 DEF Names, Tracks
  <2>3. CASE i = k
    BY <1>1, <1>2, <1>3, <2>1, <2>3 DEF Names, Tracks
  <2> QED  BY <2>2, <2>3
<1> QED  BY <1>2, <1>4, <1>5, <1>6, <1>7 DEF Safe, Tracked

\* The landing.
LEMMA PullLandSaves ==
  ASSUME IInv, SaveInv, NEW k \in Keys, PullLand(k)
  PROVE  SaveInv'
<1>1. mem.eng.pc = "land" /\ mem.eng.key = k  BY DEF PullLand
<1>2. CASE Commit(<<dev>>, Engage(At("scan", k))) /\ UNCHANGED ghost
  BY <1>1, <1>2, SameGhost, SameRuns, SameRests
<1>3. CASE /\ ~ LandingStale(k) /\ Finish(PullSteps(dev, k, mem.eng.sha), mem)
           /\ ghost' = [ghost EXCEPT !.seen = @ \cup {mem.eng.sha}]
  <2> DEFINE v  == mem.eng.sha
             S  == ghost.seen \cup {v}
             O  == Owed'
             d1 == SetFile(dev, k, v)
             d2 == SetEntry(d1, k, Hashed(v, "Clean"))
             d3 == SetBase(d2, k, v)
             d4 == SetTrash(d3, k, None)
             d5 == RemoveJobsFor(d4, k)
             A  == AgreeOf(S, d1, k, O)
  <2>1. /\ ghost'.next = ghost.next /\ ghost'.seen = S
        /\ ghost'.unsent = ghost.unsent /\ ghost'.exempt = ghost.exempt
    BY <1>3 DEF IInv, Ghost
  <2>2. /\ v \in 0..ghost.next - 1 /\ v \notin ghost.unsent
        /\ ~ Owes(mem.eng.seen, Owed) /\ mem.up
    BY <1>1 DEF SaveInv, Past, Uploaded, InHand, Plan, Mounted
  <2>3. Quieter /\ Paid /\ Owed' = Owed
    BY <2>1, <2>2 DEF SaveInv, Past, Quieter, Paid, Owed
  <2>4. dev.file[k] \notin Owed
    <3>1. dev.entry[k] = mem.eng.seen /\ k \notin mem.open  BY <1>3 DEF LandingStale
    <3> QED  BY <2>2, <3>1, OwedReads DEF Owes
  <2>5. dev \in DeviceOf(S)  BY Parts, DeviceGrows
  <2>6. d1 \in DeviceOf(S)  BY <2>5, SetFileDevice
  <2>7. /\ Safe(d1, ghost'.unsent, O) /\ d1.file[k] = v
        /\ Tracked(d1, Keys \ mem.unscanned, mem.unflushed, O)
    BY <2>1, <2>2, <2>3, <2>4, LandedSafe
  <2>8. v \notin O  BY <2>2, <2>3 DEF Owed
  <2>9. d1 \in A  BY <2>6, <2>7 DEF AgreeOf, Safe, Agreed
  <2> HIDE DEF d1
  <2>10. Hashed(v, "Clean") \in EntryOf(S) /\ Hashed(v, "Clean").sha = v
         /\ Hashed(v, "Clean").state = "Clean"
    BY EntryValues DEF Hashed
  <2>11. d2 \in DeviceOf(S)  BY <2>6, <2>10, SetEntryDevice
  <2>12. /\ d2.file = d1.file /\ d2.base = d1.base /\ d2.snaps = d1.snaps
         /\ d2.entry = [d1.entry EXCEPT ![k] = Hashed(v, "Clean")] /\ DOMAIN d1.entry = Keys
    BY <2>6 DEF SetEntry, DeviceOf
  <2>13. d2 \in A /\ d2.entry[k] = Hashed(v, "Clean")
    BY <2>8, <2>9, <2>10, <2>11, <2>12 DEF AgreeOf
  <2> HIDE DEF d2
  <2>14. d3 \in DeviceOf(S)  BY <2>11, SetBaseDevice
  <2>15. /\ d3.file = d2.file /\ d3.entry = d2.entry /\ d3.snaps = d2.snaps
         /\ d3.base = [d2.base EXCEPT ![k] = v] /\ DOMAIN d2.base = Keys
    BY <2>11 DEF SetBase, DeviceOf
  <2>16. d3 \in A  BY <2>8, <2>13, <2>14, <2>15 DEF AgreeOf
  <2> HIDE DEF d3
  <2>17. d4 \in DeviceOf(S) /\ SameBytes(d3, d4)
    BY <2>14, SetRecordDevice, RecordBytes
  <2> HIDE DEF d4
  <2>18. d4 \in A  BY <2>16, <2>17 DEF AgreeOf, SameBytes
  <2>19. d5 \in DeviceOf(S) /\ SameBytes(d4, d5)
    BY <2>17, RemoveJobsForDevice, QueueBytes
  <2> HIDE DEF d5
  <2>20. d5 \in A  BY <2>18, <2>19 DEF AgreeOf, SameBytes
  <2>21. Names(d5, k, O) /\ Tracks(d5, k, mem.unflushed, O)
    <3>1. d5.entry[k] = Hashed(v, "Clean") /\ d5.file[k] = v
      BY <2>7, <2>12, <2>13, <2>15, <2>17, <2>19 DEF SameBytes
    <3> QED  BY <2>8, <2>10, <3>1 DEF Names, Tracks
  <2>22. PullSteps(dev, k, v) = <<d1, d2, d3, d4, d5>>
    BY DEF PullSteps, d1, d2, d3, d4, d5
  <2> HIDE DEF A
  <2>23. <<d1, d2, d3, d4, d5>> \in Runs(A) /\ Last(<<d1, d2, d3, d4, d5>>) = d5
    BY <2>9, <2>13, <2>16, <2>18, <2>20, RunsFive
  <2>24. Keys \ mem.unscanned \in SUBSET Keys  OBVIOUS
  <2> HIDE DEF S
  <2>25. /\ PullSteps(dev, k, v) \in Runs(SafeOf(S))
         /\ Tracked(Last(PullSteps(dev, k, v)), Keys \ mem.unscanned, mem.unflushed, O)
    BY <2>7, <2>21, <2>22, <2>23, <2>24, AgreeRuns DEF A
  <2> QED  BY <1>3, <2>3, <2>25, DoneMemory, FinishSaves
<1> QED  BY <1>2, <1>3 DEF PullLand

\* record_conflict: a copy of the bytes is kept, and the entry names them.
LEMMA ConflictStepsSave ==
  ASSUME IInv, SaveInv, UNCHANGED ghost, mem.eng.pc # "idle", NEW k \in Keys,
         dev.file[k] # None, Finish(ConflictSteps(dev, k), mem)
  PROVE  SaveInv'
<1> DEFINE S  == ghost.seen
           O  == Owed'
           W  == mem.unflushed
           v  == dev.file[k]
           d1 == Keep(dev, v)
           d2 == IF EntryDigest(dev.entry[k]) = v THEN d1
                 ELSE SetEntry(d1, k, Hashed(v, "Dirty"))
           d3 == SetConflict(d2, k, v)
           d4 == RemoveJobsFor(d3, k)
           d5 == EnsureJob(d4, ConflictId(k), v)
           e3 == EnsureJob(d2, ConflictId(k), v)
           M  == MildOf(S, dev, k)
<1>1. Quieter /\ Paid /\ Owed' = Owed  BY SameGhost
<1>2. /\ Names(dev, k, O) /\ Tracks(dev, k, W, O)
      /\ dev \in DeviceOf(S) /\ dev \in M
  BY <1>1, Engaged, Running, MildSelf
<1>3. v \in S /\ ConflictId(k) \in JobId  BY <1>2, DeviceReads, IdsOfKeys
<1>4. d1 \in M /\ d1.file = dev.file /\ d1.entry = dev.entry /\ d1.base = dev.base
  BY <1>2, <1>3, MildSet DEF Keep, DeviceOf
<1>5. d1 \in DeviceOf(S)  BY <1>4 DEF MildOf
<1> HIDE DEF d1
<1>6. Hashed(v, "Dirty") \in EntryOf(S) /\ Hashed(v, "Dirty").state # "Clean"
      /\ Hashed(v, "Dirty").sha = v /\ Hashed(v, "Dirty").hashed
  BY <1>3, EntryValues DEF Hashed
<1>7. SetEntry(d1, k, Hashed(v, "Dirty")) \in M  BY <1>2, <1>4, <1>6, MildSet
<1>8. d2 \in M /\ Names(d2, k, O) /\ Tracks(d2, k, W, O)
  <2>1. CASE EntryDigest(dev.entry[k]) = v
    BY <1>2, <1>4, <2>1 DEF Names, Tracks
  <2>2. CASE EntryDigest(dev.entry[k]) # v
    <3>1. d2.entry[k] = Hashed(v, "Dirty") /\ d2.file[k] = v
      BY <1>4, <1>5, <2>2 DEF SetEntry, DeviceOf
    <3> HIDE DEF d2
    <3>2. d2 \in M  BY <1>7, <2>2 DEF d2
    <3> QED  BY <1>6, <3>1, <3>2 DEF Names, Tracks
  <2> QED  BY <2>1, <2>2
<1>9. d2 \in DeviceOf(S)  BY <1>8 DEF MildOf
<1> HIDE DEF d2
<1>10. e3 \in M /\ SameBytes(d2, e3)  BY <1>2, <1>3, <1>8, <1>9, MildQueue, QueueBytes
<1>11. d3 \in M /\ SameBytes(d2, d3)  BY <1>2, <1>3, <1>8, <1>9, MildQueue, RecordBytes
<1> HIDE DEF e3
<1>12. d3 \in DeviceOf(S)  BY <1>11 DEF MildOf
<1> HIDE DEF d3
<1>13. d4 \in M /\ SameBytes(d3, d4)
  <2>1. d4 \in M  BY <1>2, <1>11, MildQueue
  <2> QED  BY <1>12, <2>1, QueueBytes
<1>14. d4 \in DeviceOf(S)  BY <1>13 DEF MildOf
<1> HIDE DEF d4
<1>15. d5 \in M /\ SameBytes(d4, d5)  BY <1>2, <1>3, <1>13, <1>14, MildQueue, QueueBytes
<1> HIDE DEF d5
<1>16. SameBytes(d2, d5)  BY <1>11, <1>13, <1>15 DEF SameBytes
<1>17. \A d : SameBytes(d2, d) => Names(d, k, O) /\ Tracks(d, k, W, O)
  BY <1>8 DEF SameBytes, Names, Tracks
<1>18. ConflictSteps(dev, k) = IF dev.conflict[k] = v THEN <<d1, d2, e3>>
                               ELSE <<d1, d2, d3, d4, d5>>
  BY DEF ConflictSteps, d1, d2, d3, d4, d5, e3
<1> HIDE DEF M
<1>19. /\ <<d1, d2, e3>> \in Runs(M) /\ Last(<<d1, d2, e3>>) = e3
       /\ <<d1, d2, d3, d4, d5>> \in Runs(M) /\ Last(<<d1, d2, d3, d4, d5>>) = d5
  BY <1>4, <1>8, <1>10, <1>11, <1>13, <1>15, RunsThree, RunsFive
<1>20. /\ ConflictSteps(dev, k) \in Runs(M)
       /\ Last(ConflictSteps(dev, k)) \in {e3, d5}
  BY <1>18, <1>19
<1>21. Names(Last(ConflictSteps(dev, k)), k, O) /\ Tracks(Last(ConflictSteps(dev, k)), k, W, O)
  BY <1>10, <1>16, <1>17, <1>20
<1> QED  BY <1>1, <1>20, <1>21, MildFinishHere DEF M

\* record_conflict.
LEMMA RecordConflictSaves ==
  ASSUME IInv, SaveInv, NEW k \in Keys, RecordConflict(k)
  PROVE  SaveInv'
<1>1. UNCHANGED ghost /\ mem.eng.pc # "idle"  BY DEF RecordConflict
<1>2. PICK lk \in Keys :
        IF GoneLocally(k) THEN Finish(<<dev>>, mem)
        ELSE IF k \in mem.open \/ PendingRename(dev, k) \/ dev.entry[k] # mem.eng.seen
          THEN Finish(<<dev>>, [mem EXCEPT !.recheck = @ \cup {lk}])
          ELSE Finish(ConflictSteps(dev, k), mem)
  BY DEF RecordConflict
<1>3. CASE \/ Finish(<<dev>>, mem)
           \/ Finish(<<dev>>, [mem EXCEPT !.recheck = @ \cup {lk}])
  BY <1>1, <1>3, SameGhost, SameRuns, DoneMemory, SameFinish
<1>4. CASE ~ GoneLocally(k) /\ Finish(ConflictSteps(dev, k), mem)
  BY <1>1, <1>4, ConflictStepsSave DEF GoneLocally
<1> QED  BY <1>2, <1>3, <1>4

(***************************************************************************)
(* rename: the bytes, the entry and the base go from one name to another.  *)
(***************************************************************************)
\* What the user's rename settles: the bytes it replaces are owed no more, and
\* neither are those a window or a crashed rename keeps from being told apart.
LEMMA RenameGhost ==
  ASSUME IInv, SaveInv, NEW from \in Keys, NEW to \in Keys, Rename(from, to)
  PROVE  /\ Quieter /\ Paid /\ mem.up /\ from # to
         /\ dev.file[to] \notin ghost'.unsent /\ dev.file[to] \notin Owed'
         /\ InWindow(from) \/ InWindow(to) => dev.file[from] \notin Owed'
         /\ \A k \in {from, to} :
              dev.entry[k].state # "Absent" /\ dev.entry[k].sha \in Owed'
                => k = from /\ dev.entry[k].state = "Dirty" /\ dev.file[k] = dev.entry[k].sha
<1>1. /\ ghost'.next = ghost.next /\ ghost'.seen = ghost.seen
      /\ ghost'.unsent = ghost.unsent \ {dev.file[to]}
      /\ ghost'.exempt = Exempted({from, to}, dev.file[from]) \cup Misread({from, to})
      /\ mem.up /\ from # to
  BY DEF Rename, Superseded, IInv, Ghost
<1>2. ghost.exempt \subseteq ghost'.exempt  BY <1>1 DEF Exempted
<1>3. Quieter /\ Paid  BY <1>1, <1>2 DEF SaveInv, Past, Quieter, Paid, Owed
<1>4. ASSUME InWindow(from) \/ InWindow(to)  PROVE dev.file[from] \notin Owed'
  <2>1. \E i \in {from, to} : InWindow(i)  BY <1>4
  <2>2. dev.file[from] \in ghost'.exempt \cup {None}  BY <1>1, <2>1 DEF Exempted
  <2> QED  BY <1>3, <2>2, GhostFacts DEF Owed, Paid
<1>5. ASSUME NEW k \in {from, to}, dev.entry[k].state # "Absent",
             dev.entry[k].sha \in Owed'
      PROVE  k = from /\ dev.entry[k].state = "Dirty" /\ dev.file[k] = dev.entry[k].sha
  <2>1. dev.entry[k] \in EntryOf(ghost.seen)  BY Parts, DeviceReads
  <2>2. dev.entry[k].sha \in Owed  BY <1>3, <1>5 DEF Paid
  <2>3. dev.entry[k].state # "Clean"  BY <2>2 DEF SaveInv, Safe, Agreed
  <2>4. dev.entry[k].state # "Tombstone"
    <3> SUFFICES ASSUME dev.entry[k].state = "Tombstone"  PROVE FALSE
      OBVIOUS
    <3>1. dev.entry[k].sha \in Misread({from, to})  BY <2>2 DEF Misread, Owed
    <3> QED  BY <1>1, <1>5, <3>1 DEF Owed
  <2>5. dev.entry[k].state = "Dirty"
    BY <1>5, <2>1, <2>3, <2>4 DEF EntryOf, EntryStates
  <2>6. Names(dev, k, Owed)  BY <1>1 DEF SaveInv, Mounted, Tracked
  <2>7. dev.file[k] = dev.entry[k].sha  BY <2>2, <2>5, <2>6 DEF Names
  <2> QED  BY <1>1, <1>5, <2>5, <2>7 DEF Owed
<1> QED  BY <1>1, <1>3, <1>4, <1>5 DEF Owed

\* The writes of a rename that only the entries and the queue see.
LEMMA SafeWrites ==
  ASSUME IInv, Quieter, NEW S, NEW d \in SafeOf(S), NEW from \in Keys, NEW to \in Keys
  PROVE  /\ \A k \in Keys : /\ RemoveJobsFor(d, k) \in SafeOf(S)
                            /\ EnqueuePush(d, k) \in SafeOf(S)
                            /\ SetTrash(d, k, None) \in SafeOf(S)
                            /\ \A v \in S \cup {None} : SetConflict(d, k, v) \in SafeOf(S)
         /\ \A id \in JobId, v \in S \cup {None, Unhashed} : Enqueue(d, id, v, None) \in SafeOf(S)
         /\ \A js \in SUBSET JobOf(S) : Requeue(d, js, to) \in SafeOf(S)
         /\ SetState(d, to, "Dirty") \in SafeOf(S)
         /\ Rekey(d, from, to) \in SafeOf(S)
<1>1. d \in DeviceOf(S) /\ Safe(d, ghost'.unsent, Owed')  BY DEF SafeOf
<1>2. \A e \in DeviceOf(S) : SameBytes(d, e) => e \in SafeOf(S)
  BY <1>1, SameBytesSay DEF SafeOf
<1>3. ASSUME NEW k \in Keys
      PROVE  /\ RemoveJobsFor(d, k) \in SafeOf(S) /\ EnqueuePush(d, k) \in SafeOf(S)
             /\ SetTrash(d, k, None) \in SafeOf(S)
             /\ \A v \in S \cup {None} : SetConflict(d, k, v) \in SafeOf(S)
  BY <1>1, <1>2, QueueBytes, RecordBytes, RemoveJobsForDevice, EnqueuePushDevice,
     SetRecordDevice
<1>4. \A id \in JobId, v \in S \cup {None, Unhashed} : Enqueue(d, id, v, None) \in SafeOf(S)
  BY <1>1, <1>2, QueueBytes, EnqueueDevice
<1>5. \A js \in SUBSET JobOf(S) : Requeue(d, js, to) \in SafeOf(S)
  BY <1>1, <1>2, QueueBytes, RequeueDevice
<1>6. SetState(d, to, "Dirty") \in SafeOf(S)
  <2> DEFINE e == SetState(d, to, "Dirty")
  <2>1. e \in DeviceOf(S)  BY <1>1, SetStateDevice DEF EntryStates
  <2>2. /\ e.file = d.file /\ e.base = d.base /\ e.snaps = d.snaps
        /\ e.entry = [d.entry EXCEPT ![to] = [d.entry[to] EXCEPT !.state = "Dirty"]]
        /\ DOMAIN d.entry = Keys
    BY <1>1 DEF DeviceOf, SetState, SetEntry
  <2>3. d.entry[to] \in EntryOf(S)  BY <1>1, DeviceReads
  <2>4. e.entry[to].state = "Dirty" /\ \A i \in Keys : i # to => e.entry[i] = d.entry[i]
    BY <2>2, <2>3 DEF EntryOf
  <2> HIDE DEF e
  <2>5. Safe(e, ghost'.unsent, Owed')
    BY <1>1, <2>2, <2>4 DEF Safe, FileOnce, Held, Agreed
  <2> QED  BY <2>1, <2>5 DEF SafeOf, e
<1>7. Rekey(d, from, to) \in SafeOf(S)
  <2> DEFINE e == Rekey(d, from, to)
  <2>1. e \in DeviceOf(S)  BY <1>1, RekeyDevice
  <2>2. /\ e.file = d.file /\ e.snaps = d.snaps
        /\ e.entry = IF d.entry[from].state = "Absent" THEN d.entry
                     ELSE [d.entry EXCEPT ![to] = d.entry[from], ![from] = NoEntry]
        /\ e.base = IF d.base[from] = None THEN d.base
                    ELSE [d.base EXCEPT ![to] = d.base[from], ![from] = None]
        /\ DOMAIN d.entry = Keys /\ DOMAIN d.base = Keys
    BY <1>1 DEF DeviceOf, Rekey
  <2> HIDE DEF e
  <2>3. \A i \in Keys : /\ e.entry[i] \in {d.entry[i], d.entry[from], NoEntry}
                        /\ e.base[i] \in {d.base[i], d.base[from], None}
    BY <2>2
  <2>4. None \notin Owed'  BY GhostFacts DEF Quieter, Owed
  <2>5. Safe(e, ghost'.unsent, Owed')
    BY <1>1, <2>2, <2>3, <2>4 DEF Safe, FileOnce, Held, Agreed, NoEntry
  <2> QED  BY <2>1, <2>5 DEF SafeOf, e
<1> QED  BY <1>3, <1>4, <1>5, <1>6, <1>7

\* The device a rename starts from, whatever it removed at the destination.
Cleared(d, to) ==
  /\ \A i \in Keys : i # to => d.file[i] = dev.file[i] /\ d.entry[i] = dev.entry[i]
  /\ d.file[to] \in {dev.file[to], None}
  /\ \A i \in Keys : d.base[i] \in {dev.base[i], None}
  /\ d.entry[to] = dev.entry[to] \/ ~ Live(d.entry[to])

MoveFile(d, from, to) == SetFile(SetFile(d, to, d.file[from]), from, None)

\* The entry the destination takes over, before the rename dirties it.
TakenOver(d, from, to) ==
  IF d.entry[from].state = "Absent" THEN d.entry[to] ELSE d.entry[from]

\* What a rename has done by its last write.
Renamed(d, e, from, to) ==
  LET r == TakenOver(d, from, to) IN
  /\ e.file = MoveFile(d, from, to).file
  /\ \A i \in Keys \ {from, to} : e.entry[i] = d.entry[i] /\ e.base[i] = d.base[i]
  /\ e.entry[from].state = "Absent"
  /\ e.base[to] = IF d.base[from] = None THEN d.base[to] ELSE d.base[from]
  /\ \/ e.entry[to] = r
     \/ /\ e.entry[to] = [r EXCEPT !.state = "Dirty"]
        /\ r.state = "Clean" \/ (r.state # "Absent" /\ d.entry[to] = dev.entry[to])

\* Moving the file keeps every save where it can be found.
LEMMA MoveFileSafe ==
  ASSUME IInv, SaveInv, NEW from \in Keys, NEW to \in Keys, Rename(from, to),
         NEW S, NEW d \in SafeOf(S), Cleared(d, to)
  PROVE  /\ MoveFile(d, from, to) \in SafeOf(S)
         /\ MoveFile(d, from, to).file[from] = None
         /\ MoveFile(d, from, to).file[to] = dev.file[from]
         /\ \A i \in Keys \ {from, to} : MoveFile(d, from, to).file[i] = dev.file[i]
         /\ MoveFile(d, from, to).entry = d.entry
         /\ MoveFile(d, from, to).base = d.base
<1> DEFINE e == MoveFile(d, from, to)
           U == ghost'.unsent
           O == Owed'
<1>1. d \in DeviceOf(S) /\ Safe(d, U, O)  BY DEF SafeOf
<1>2. Quieter /\ from # to /\ dev.file[to] \notin U /\ dev.file[to] \notin O
  BY RenameGhost
<1>3. e \in DeviceOf(S)
  <2>1. d.file[from] \in S \cup {None}  BY <1>1, DeviceReads
  <2>2. SetFile(d, to, d.file[from]) \in DeviceOf(S)  BY <1>1, <2>1, SetFileDevice
  <2> QED  BY <2>2, SetFileDevice DEF MoveFile
<1>4. /\ e.file = [d.file EXCEPT ![to] = d.file[from], ![from] = None]
      /\ e.entry = d.entry /\ e.base = d.base /\ e.snaps = d.snaps
      /\ DOMAIN d.file = Keys
  BY <1>1 DEF MoveFile, SetFile, DeviceOf
<1>5. /\ e.file[from] = None /\ e.file[to] = d.file[from]
      /\ \A i \in Keys \ {from, to} : e.file[i] = d.file[i]
  BY <1>2, <1>4
<1> HIDE DEF e
<1>6. None \notin U /\ None \notin O  BY <1>2, GhostFacts DEF Quieter, Owed
<1>7. d.file[to] \notin U /\ d.file[to] \notin O  BY <1>2, <1>6 DEF Cleared
<1>8. FileOnce(e, U)
  <2> SUFFICES ASSUME NEW i \in Keys, NEW j \in Keys, e.file[i] = e.file[j], e.file[i] \in U
               PROVE  i = j
    BY DEF FileOnce
  <2>1. i # from /\ j # from  BY <1>5, <1>6
  <2>2. CASE i = to /\ j # to
    BY <1>1, <1>5, <2>1, <2>2 DEF Safe, FileOnce
  <2>3. CASE i # to /\ j = to
    BY <1>1, <1>5, <2>1, <2>3 DEF Safe, FileOnce
  <2>4. CASE i # to /\ j # to
    BY <1>1, <1>5, <2>1, <2>4 DEF Safe, FileOnce
  <2> QED  BY <2>2, <2>3, <2>4
<1>9. Held(e, O)
  <2> SUFFICES ASSUME NEW v \in O, v \notin e.snaps  PROVE \E k \in Keys : e.file[k] = v
    BY DEF Held
  <2>1. PICK k \in Keys : d.file[k] = v  BY <1>1, <1>4 DEF Safe, Held
  <2>2. k # to  BY <1>7, <2>1
  <2> QED  BY <1>5, <2>1, <2>2
<1>10. Agreed(e, O)  BY <1>1, <1>4 DEF Safe, Agreed
<1> QED  BY <1>2, <1>3, <1>4, <1>5, <1>8, <1>9, <1>10 DEF Safe, SafeOf, Cleared, e

\* When the rename is over, every entry names its file's bytes again.
LEMMA RenamedTracked ==
  ASSUME IInv, SaveInv, NEW from \in Keys, NEW to \in Keys, Rename(from, to),
         NEW S, NEW d \in SafeOf(S), Cleared(d, to), NEW e, Renamed(d, e, from, to),
         NEW W, mem.unflushed \ {from} \subseteq W, from \in mem.unflushed => to \in W,
         NEW eng, eng.pc = mem.eng.pc, eng.key = mem.eng.key, eng.seen = mem.eng.seen
  PROVE  Tracked(e, Keys, W, Owed') /\ Plan(e, eng, Owed')
<1> DEFINE r == TakenOver(d, from, to)
           O == Owed'
<1>1. /\ Quieter /\ Paid /\ mem.up /\ from # to
      /\ InWindow(from) \/ InWindow(to) => dev.file[from] \notin O
      /\ \A k \in {from, to} :
           dev.entry[k].state # "Absent" /\ dev.entry[k].sha \in O
             => k = from /\ dev.entry[k].state = "Dirty" /\ dev.file[k] = dev.entry[k].sha
  BY RenameGhost
<1>2. /\ e.file[from] = None /\ e.file[to] = dev.file[from]
      /\ \A i \in Keys \ {from, to} : e.file[i] = dev.file[i]
  BY MoveFileSafe DEF Renamed
<1>3. \A i \in Keys : Names(dev, i, Owed) /\ Tracks(dev, i, mem.unflushed, Owed)
  BY <1>1 DEF SaveInv, Mounted, Tracked
<1>4. None \notin O  BY <1>1, GhostFacts DEF Quieter, Owed
<1>5. d.entry[from] = dev.entry[from]  BY <1>1 DEF Cleared
<1>6. ASSUME e.entry[to].state = "Dirty", e.entry[to].sha \in O
      PROVE  e.entry[to].sha = dev.file[from]
  <2>1. d.entry[from] \in EntryOf(S) /\ d.entry[to] \in EntryOf(S)
    BY DeviceReads DEF SafeOf
  <2>2. r \in EntryOf(S)  BY <2>1 DEF TakenOver
  <2>3. e.entry[to].sha = r.sha  BY <2>2 DEF Renamed, EntryOf
  <2>4. CASE d.entry[from].state # "Absent"
    BY <1>1, <1>5, <1>6, <2>3, <2>4 DEF TakenOver
  <2>5. CASE d.entry[from].state = "Absent"
    <3>1. r = d.entry[to]  BY <2>5 DEF TakenOver
    <3>2. r.state # "Absent" /\ (r = dev.entry[to] \/ Live(r))
      BY <1>6, <3>1 DEF Renamed, Live
    <3>3. r = dev.entry[to]  BY <3>1, <3>2 DEF Cleared
    <3> QED  BY <1>1, <1>6, <2>3, <3>2, <3>3
  <2> QED  BY <2>4, <2>5
<1>7. Names(e, to, O)  BY <1>2, <1>6 DEF Names
<1>8. Tracks(e, to, W, O)
  <2> SUFFICES ASSUME to \notin W, dev.file[from] \in O
               PROVE  /\ e.entry[to] \in {Intent(dev.file[from]), Hashed(dev.file[from], "Dirty")}
                      /\ e.entry[to].hashed \/ e.base[to] # Unhashed
    BY <1>2 DEF Tracks
  <2>1. from \notin mem.unflushed /\ dev.file[from] \in Owed  BY <1>1 DEF Paid
  <2>2. /\ dev.entry[from] \in {Intent(dev.file[from]), Hashed(dev.file[from], "Dirty")}
        /\ dev.entry[from].hashed \/ dev.base[from] # Unhashed
    BY <1>3, <2>1 DEF Tracks
  <2>3. dev.entry[from].state = "Dirty"  BY <2>2 DEF Intent, Hashed
  <2>4. r = dev.entry[from]  BY <1>5, <2>3 DEF TakenOver
  <2>5. e.entry[to] = dev.entry[from]
    <3>1. dev.entry[from] \in EntryOf(ghost.seen)  BY Parts, DeviceReads
    <3>2. [dev.entry[from] EXCEPT !.state = "Dirty"] = dev.entry[from]
      BY <2>3, <3>1 DEF EntryOf
    <3> QED  BY <2>4, <3>2 DEF Renamed
  <2>6. dev.base[to] # Unhashed /\ dev.base[from] # Unhashed  BY <1>1 DEF InWindow
  <2>7. e.base[to] # Unhashed  BY <2>6 DEF Renamed, Cleared, None, Unhashed
  <2> QED  BY <2>2, <2>5, <2>7
<1>9. Names(e, from, O) /\ Tracks(e, from, W, O)
  BY <1>2, <1>4 DEF Names, Tracks, Renamed
<1>10. ASSUME NEW i \in Keys, i \notin {from, to}
       PROVE  Names(e, i, O) /\ Tracks(e, i, W, O)
  <2>1. /\ e.file[i] = dev.file[i] /\ e.entry[i] = dev.entry[i]
        /\ e.base[i] \in {dev.base[i], None}
    BY <1>2, <1>10 DEF Renamed, Cleared
  <2>2. i \notin W => i \notin mem.unflushed  BY <1>10
  <2> QED  BY <1>1, <1>3, <2>1, <2>2 DEF Paid, Names, Tracks, None, Unhashed
<1>11. Tracked(e, Keys, W, O)  BY <1>7, <1>8, <1>9, <1>10 DEF Tracked
<1>12. Plan(e, eng, O)
  <2>1. eng.pc \in {"pull", "get", "land"} => ~ Owes(eng.seen, O)
    BY <1>1 DEF SaveInv, Plan, Owes, Paid
  <2>2. ASSUME eng.pc = "take", NEW k \in Keys, eng.key = k
        PROVE  ~ Owes(e.entry[k], O)
    <3>1. CASE k = from  BY <3>1 DEF Renamed, Owes
    <3>2. CASE k = to  BY <1>1, <1>6, <2>2, <3>2 DEF InWindow, Owes
    <3>3. CASE k \notin {from, to}
      <4>1. e.entry[k] = dev.entry[k]  BY <3>3 DEF Renamed, Cleared
      <4> QED  BY <1>1, <2>2, <4>1 DEF SaveInv, Plan, Owes, Paid
    <3> QED  BY <3>1, <3>2, <3>3
  <2> QED  BY <2>1, <2>2 DEF Plan
<1> QED  BY <1>11, <1>12

\* rekey_entry, after the file.
LEMMA RekeyStepsSave ==
  ASSUME IInv, SaveInv, NEW from \in Keys, NEW to \in Keys, Rename(from, to),
         NEW S, NEW d \in SafeOf(S), Cleared(d, to),
         NEW moved, moved = MoveFile(d, from, to)
  PROVE  /\ RekeySteps(moved, from, to) \in Runs(SafeOf(S))
         /\ Renamed(d, Last(RekeySteps(moved, from, to)), from, to)
<1> DEFINE D == SafeOf(S)
           dropped == {j \in moved.jobs : j.key = from}
           d1 == RemoveJobsFor(moved, from)
           d2 == Rekey(d1, from, to)
           d3 == IF d2.conflict[from] = None THEN d2
                 ELSE SetConflict(d2, from, None)
           d4 == IF d2.conflict[from] = None THEN d3
                 ELSE SetConflict(d3, to, d2.conflict[from])
           d5 == SetTrash(d4, to, None)
           hasBase == d5.base[to] # None
           d6 == IF hasBase \/ d5.pending[from] # None
                 THEN Enqueue(d5, RenameId(from, to), None, None) ELSE d5
           d7 == Requeue(d6, dropped, to)
           e8 == SetState(d7, to, "Dirty")
           d8 == IF ~hasBase /\ d7.entry[to].state = "Clean"
                 THEN EnqueuePush(e8, to) ELSE d7
<1>1. Quieter /\ from # to  BY RenameGhost
<1>2. moved \in D  BY MoveFileSafe
<1>3. D \subseteq DeviceOf(S)  BY DEF SafeOf
<1>4. dropped \in SUBSET JobOf(S)  BY <1>2, <1>3, DeviceReads
<1> HIDE DEF dropped
<1>5. d1 \in D /\ SameBytes(moved, d1)  BY <1>1, <1>2, <1>3, SafeWrites, QueueBytes
<1> HIDE DEF d1
<1>6. d2 \in D  BY <1>1, <1>5, SafeWrites
<1>7. /\ d2.file = d1.file
      /\ d2.entry = IF d1.entry[from].state = "Absent" THEN d1.entry
                    ELSE [d1.entry EXCEPT ![to] = d1.entry[from], ![from] = NoEntry]
      /\ d2.base = IF d1.base[from] = None THEN d1.base
                   ELSE [d1.base EXCEPT ![to] = d1.base[from], ![from] = None]
      /\ DOMAIN d1.entry = Keys /\ DOMAIN d1.base = Keys
  BY <1>3, <1>5 DEF Rekey, DeviceOf
<1> HIDE DEF d2
<1>8. d3 \in D /\ SameBytes(d2, d3)
  BY SMTT(60), <1>1, <1>3, <1>6, SafeWrites, RecordBytes DEF SameBytes
<1>9. d2.conflict[from] \in S \cup {None}  BY <1>3, <1>6, DeviceReads
<1> HIDE DEF d3
<1>10. d4 \in D /\ SameBytes(d2, d4)
  BY SMTT(60), <1>1, <1>3, <1>8, <1>9, SafeWrites, RecordBytes DEF SameBytes
<1> HIDE DEF d4
<1>11. d5 \in D /\ SameBytes(d2, d5)
  BY <1>1, <1>3, <1>10, SafeWrites, RecordBytes DEF SameBytes
<1> HIDE DEF d5
<1>12. d6 \in D /\ SameBytes(d2, d6)
  <2>1. RenameId(from, to) \in JobId  BY IdsOfKeys
  <2>2. /\ Enqueue(d5, RenameId(from, to), None, None) \in D
        /\ SameBytes(d5, Enqueue(d5, RenameId(from, to), None, None))
    BY <1>1, <1>3, <1>11, <2>1, SafeWrites, QueueBytes
  <2> QED  BY <1>11, <2>2 DEF SameBytes
<1> HIDE DEF d6
<1>13. d7 \in D /\ SameBytes(d2, d7)
  <2>1. d7 \in D /\ SameBytes(d6, d7)
    BY <1>1, <1>3, <1>4, <1>12, SafeWrites, QueueBytes
  <2> QED  BY <1>12, <2>1 DEF SameBytes
<1> HIDE DEF d7
<1>14. e8 \in D /\ EnqueuePush(e8, to) \in D /\ SameBytes(e8, EnqueuePush(e8, to))
  <2>1. e8 \in D  BY <1>1, <1>13, SafeWrites
  <2> QED  BY <1>1, <1>3, <2>1, SafeWrites, QueueBytes
<1>15. /\ e8.file = d7.file /\ e8.base = d7.base
       /\ e8.entry = [d7.entry EXCEPT ![to] = [d7.entry[to] EXCEPT !.state = "Dirty"]]
       /\ DOMAIN d7.entry = Keys
  BY <1>3, <1>13 DEF SetState, SetEntry, DeviceOf
<1> HIDE DEF e8
<1>16. d8 \in D  BY <1>13, <1>14
<1>17. /\ moved.entry = d.entry /\ moved.base = d.base
  BY <1>1, MoveFileSafe
<1>18. Renamed(d, d7, from, to) /\ d7.entry[to] = TakenOver(d, from, to)
  <2>1. /\ d7.file = moved.file
        /\ d7.entry = IF d.entry[from].state = "Absent" THEN d.entry
                      ELSE [d.entry EXCEPT ![to] = d.entry[from], ![from] = NoEntry]
        /\ d7.base = IF d.base[from] = None THEN d.base
                     ELSE [d.base EXCEPT ![to] = d.base[from], ![from] = None]
        /\ DOMAIN d.entry = Keys /\ DOMAIN d.base = Keys
    BY <1>5, <1>7, <1>13, <1>17 DEF SameBytes
  <2> QED  BY <1>1, <2>1 DEF Renamed, TakenOver, NoEntry
<1>19. ASSUME d7.entry[to].state = "Clean"  PROVE Renamed(d, EnqueuePush(e8, to), from, to)
  <2>1. d7.entry[to] = TakenOver(d, from, to)  BY <1>18
  <2>2. /\ e8.file = d7.file /\ e8.base = d7.base
        /\ e8.entry[to] = [d7.entry[to] EXCEPT !.state = "Dirty"]
        /\ \A i \in Keys : i # to => e8.entry[i] = d7.entry[i]
    BY <1>15
  <2>3. Renamed(d, e8, from, to)
    BY <1>1, <1>18, <1>19, <2>1, <2>2 DEF Renamed
  <2> QED  BY <1>14, <2>3 DEF SameBytes, Renamed
<1>20. Renamed(d, d8, from, to)  BY <1>18, <1>19
<1> HIDE DEF d8, D
<1>21. <<d1, d2, d3, d4, d5, d6, d7, d8>> \in Runs(D)
       /\ Last(<<d1, d2, d3, d4, d5, d6, d7, d8>>) = d8
  BY SMTT(60), <1>5, <1>6, <1>8, <1>10, <1>11, <1>12, <1>13, <1>16 DEF Runs, Last
<1> QED
  BY Zenon, <1>20, <1>21 DEF RekeySteps, D, dropped, d1, d2, d3, d4, d5, d6, d7, d8, e8

\* A rename that replaces what the hub may have at the destination.
LEMMA ReplaceStepsSave ==
  ASSUME IInv, SaveInv, NEW from \in Keys, NEW to \in Keys, Rename(from, to),
         dev.base[from] = None, dev.entry[to].state # "Absent"
  PROVE  /\ ReplaceSteps(dev, from, to) \in Runs(SafeOf(ghost.seen))
         /\ Renamed(dev, Last(ReplaceSteps(dev, from, to)), from, to)
<1> DEFINE S  == ghost.seen
           D  == SafeOf(S)
           d0 == MoveFile(dev, from, to)
           d1 == RemoveJobsFor(d0, from)
           d2 == IF d1.pending[from] = None THEN d1
                 ELSE Enqueue(d1, DeleteId(from), None, None)
           d3 == RemoveJobsFor(d2, to)
           d4 == Rekey(d3, from, to)
           d5 == SetState(d4, to, "Dirty")
           d6 == EnqueuePush(d5, to)
<1>1. Quieter /\ Paid /\ from # to  BY RenameGhost
<1>2. dev \in D /\ Cleared(dev, to)  BY <1>1, StillSafe DEF SafeOf, Cleared
<1>3. D \subseteq DeviceOf(S)  BY DEF SafeOf
<1>4. d0 \in D /\ d0.entry = dev.entry /\ d0.base = dev.base  BY <1>2, MoveFileSafe
<1> HIDE DEF d0
<1>5. d1 \in D /\ SameBytes(d0, d1)  BY <1>1, <1>3, <1>4, SafeWrites, QueueBytes
<1> HIDE DEF d1
<1>6. d2 \in D /\ SameBytes(d0, d2)
  <2>1. DeleteId(from) \in JobId  BY IdsOfKeys
  <2>2. /\ Enqueue(d1, DeleteId(from), None, None) \in D
        /\ SameBytes(d1, Enqueue(d1, DeleteId(from), None, None))
    BY <1>1, <1>3, <1>5, <2>1, SafeWrites, QueueBytes
  <2> QED  BY <1>5, <2>2 DEF SameBytes
<1> HIDE DEF d2
<1>7. d3 \in D /\ SameBytes(d0, d3)
  <2>1. d3 \in D /\ SameBytes(d2, d3)  BY <1>1, <1>3, <1>6, SafeWrites, QueueBytes
  <2> QED  BY <1>6, <2>1 DEF SameBytes
<1> HIDE DEF d3
<1>8. d4 \in D  BY <1>1, <1>7, SafeWrites
<1>9. /\ d4.file = d0.file /\ d4.base = dev.base
      /\ d4.entry = IF dev.entry[from].state = "Absent" THEN dev.entry
                    ELSE [dev.entry EXCEPT ![to] = dev.entry[from], ![from] = NoEntry]
      /\ DOMAIN dev.entry = Keys
  BY <1>2, <1>3, <1>4, <1>7 DEF Rekey, DeviceOf, SameBytes
<1> HIDE DEF d4
<1>10. d5 \in D  BY <1>1, <1>8, SafeWrites
<1>11. /\ d5.file = d4.file /\ d5.base = d4.base
       /\ d5.entry = [d4.entry EXCEPT ![to] = [d4.entry[to] EXCEPT !.state = "Dirty"]]
       /\ DOMAIN d4.entry = Keys
  BY <1>3, <1>8 DEF SetState, SetEntry, DeviceOf
<1> HIDE DEF d5
<1>12. d6 \in D /\ SameBytes(d5, d6)  BY <1>1, <1>3, <1>10, SafeWrites, QueueBytes
<1> HIDE DEF d6
<1>13. Renamed(dev, d6, from, to)
  <2>1. d4.entry[to] = TakenOver(dev, from, to)  BY <1>1, <1>9 DEF TakenOver
  <2>2. TakenOver(dev, from, to).state # "Absent"  BY DEF TakenOver
  <2>3. d4.entry[from].state = "Absent"  BY <1>1, <1>9 DEF NoEntry
  <2>4. \A i \in Keys \ {from, to} : d4.entry[i] = dev.entry[i]  BY <1>9
  <2>5. /\ d6.file = d0.file /\ d6.base = dev.base
        /\ d6.entry[to] = [d4.entry[to] EXCEPT !.state = "Dirty"]
        /\ \A i \in Keys : i # to => d6.entry[i] = d4.entry[i]
    BY <1>9, <1>11, <1>12 DEF SameBytes
  <2> QED  BY <1>1, <2>1, <2>2, <2>3, <2>4, <2>5 DEF Renamed, d0
<1> HIDE DEF D
<1>14. /\ <<d0, d1, d2, d3, d4, d5, d6>> \in Runs(D)
       /\ Last(<<d0, d1, d2, d3, d4, d5, d6>>) = d6
  BY <1>4, <1>5, <1>6, <1>7, <1>8, <1>10, <1>12 DEF Runs, Last
<1> QED
  BY <1>13, <1>14 DEF ReplaceSteps, MoveFile, D, d0, d1, d2, d3, d4, d5, d6

\* A rename onto a free name, or after what was there is deleted.
LEMMA MoveStepsSave ==
  ASSUME IInv, SaveInv, NEW from \in Keys, NEW to \in Keys, Rename(from, to)
  PROVE  /\ MoveSteps(dev, from, to) \in Runs(SafeOf(ghost.seen))
         /\ \E d \in SafeOf(ghost.seen) :
              Cleared(d, to) /\ Renamed(d, Last(MoveSteps(dev, from, to)), from, to)
<1> DEFINE S     == ghost.seen
           D     == SafeOf(S)
           file0 == SetFile(dev, to, None)
           gone  == DeleteSteps(dev, to)
           fixed == IF dev.base[to] = None THEN Last(gone)
                    ELSE Enqueue(Last(gone), DeleteId(to), dev.base[to], None)
           clear == IF dev.entry[to].state = "Absent" THEN <<dev>> ELSE Append(gone, fixed)
           d0    == Last(clear)
           moved == SetFile(SetFile(d0, to, d0.file[from]), from, None)
<1>1. Quieter /\ Paid /\ from # to /\ dev.file[to] \notin Owed'  BY RenameGhost
<1>2. dev \in D /\ Cleared(dev, to) /\ dev \in DeviceOf(S)
  BY <1>1, StillSafe DEF SafeOf, Cleared
<1>3. D \subseteq DeviceOf(S)  BY DEF SafeOf
<1>4. /\ gone \in Runs(D) /\ Last(gone) \in MildOf(S, file0, to)
      /\ ~ Live(Last(gone).entry[to])
  <2>1. /\ file0 \in DeviceOf(S) /\ gone \in Runs(MildOf(S, file0, to))
        /\ ~ Live(Last(gone).entry[to])
    BY <1>2, DeleteMild
  <2>2. ghost'.unsent \subseteq ghost.unsent /\ Owed' \subseteq Owed \ {dev.file[to]}
    BY <1>1 DEF Quieter, Paid
  <2>3. Safe(file0, ghost'.unsent, Owed')  BY <2>2, GoneSafe
  <2> HIDE DEF gone, file0
  <2> QED  BY <1>1, <2>1, <2>3, MildRuns
<1>5. Last(gone) \in D  BY <1>4, RunsRead
<1>6. Cleared(Last(gone), to)
  <2>1. /\ file0.file[to] = None /\ \A i \in Keys : i # to => file0.file[i] = dev.file[i]
        /\ file0.entry = dev.entry /\ file0.base = dev.base
    BY <1>2 DEF SetFile, DeviceOf
  <2> HIDE DEF gone, file0
  <2> QED  BY <1>4, <2>1 DEF MildOf, Milder, Cleared
<1> HIDE DEF gone
<1>7. fixed \in D /\ Cleared(fixed, to)
  <2>1. DeleteId(to) \in JobId /\ dev.base[to] \in S \cup {None, Unhashed}
    BY <1>2, IdsOfKeys, DeviceReads
  <2>2. /\ Enqueue(Last(gone), DeleteId(to), dev.base[to], None) \in D
        /\ SameBytes(Last(gone), Enqueue(Last(gone), DeleteId(to), dev.base[to], None))
    BY <1>1, <1>3, <1>5, <2>1, SafeWrites, QueueBytes
  <2> QED  BY <1>5, <1>6, <2>2 DEF SameBytes, Cleared
<1> HIDE DEF fixed
<1>8. clear \in Runs(D) /\ Last(clear) \in D /\ Cleared(Last(clear), to)
  <2>1. <<dev>> \in Runs(D) /\ Last(<<dev>>) = dev  BY <1>2, RunsOne
  <2>2. Append(gone, fixed) \in Runs(D) /\ Last(Append(gone, fixed)) = fixed
    BY <1>4, <1>7, RunsAppend
  <2> QED  BY <1>2, <1>7, <2>1, <2>2
<1> HIDE DEF clear
<1>9. moved = MoveFile(d0, from, to)  BY DEF MoveFile
<1> HIDE DEF moved
<1>10. /\ moved \in D /\ RekeySteps(moved, from, to) \in Runs(D)
       /\ Renamed(d0, Last(RekeySteps(moved, from, to)), from, to)
  BY <1>8, <1>9, MoveFileSafe, RekeyStepsSave
<1>11. clear \o <<moved>> \in Runs(D)  BY <1>8, <1>10, RunsOne, RunsConcat
<1>12. /\ (clear \o <<moved>>) \o RekeySteps(moved, from, to) \in Runs(D)
       /\ Last((clear \o <<moved>>) \o RekeySteps(moved, from, to))
            = Last(RekeySteps(moved, from, to))
  BY <1>10, <1>11, RunsConcat
<1>13. MoveSteps(dev, from, to) = (clear \o <<moved>>) \o RekeySteps(moved, from, to)
  BY DEF MoveSteps, gone, fixed, clear, moved
<1> QED  BY <1>8, <1>10, <1>12, <1>13

\* rename.
LEMMA RenameSaves ==
  ASSUME IInv, SaveInv, NEW from \in Keys, NEW to \in Keys, Rename(from, to)
  PROVE  SaveInv'
<1> DEFINE S == ghost.seen
           follow(X) == IF from \in X THEN (X \ {from}) \cup {to} ELSE X
           n(owed) == [mem EXCEPT !.open = follow(@), !.unflushed = owed, !.eng = Overtaken]
<1>1. PICK owed \in {follow(mem.unflushed)}
                    \cup {follow(mem.unflushed) \cup ({to} \cap follow(mem.open))} :
        Commit(RenameSteps(dev, from, to), n(owed))
  BY DEF Rename
<1> DEFINE m == n(owed)
<1>2. mem \in MemoryOf(S) /\ dev \in DeviceOf(S)  BY Parts
<1>3. /\ m.unflushed = owed /\ m.open = follow(mem.open) /\ m.unscanned = mem.unscanned
      /\ m.up = mem.up /\ m.eng = Overtaken /\ m.listing = mem.listing
  BY <1>2 DEF MemoryOf
<1>4. /\ Overtaken.pc = mem.eng.pc /\ Overtaken.key = mem.eng.key
      /\ Overtaken.seen = mem.eng.seen /\ Overtaken.sha = mem.eng.sha
      /\ Overtaken.reply = mem.eng.reply /\ Overtaken.out = mem.eng.out
  BY Parts DEF Overtaken, EngineOf
<1>5. /\ mem.unflushed \ {from} \subseteq owed /\ (from \in mem.unflushed => to \in owed)
      /\ owed \subseteq follow(mem.open)
  BY <1>1 DEF SaveInv, Mounted
<1>6. Quieter /\ Paid /\ mem.up /\ from # to  BY RenameGhost
<1>7. Sound(m)
  <2>1. Mounted(m)  BY <1>3, <1>4, <1>5, <1>6 DEF SaveInv, Mounted
  <2>2. InHand(Overtaken, ghost'.unsent)
    BY <1>4, <1>6 DEF SaveInv, Uploaded, InHand, Quieter
  <2> QED  BY <1>3, <1>4, <1>6, <2>1, <2>2 DEF SaveInv, Sound, Uploaded, Past, Quieter
<1>8. Keys \ m.unscanned = Keys  BY <1>3, <1>6 DEF SaveInv, Mounted
<1> HIDE DEF m
<1>9. PICK d \in SafeOf(S) :
        Cleared(d, to) /\ Renamed(d, Last(RenameSteps(dev, from, to)), from, to)
  <2>1. dev \in SafeOf(S) /\ Cleared(dev, to)
    BY <1>6, StillSafe DEF SafeOf, Cleared
  <2> QED  BY <2>1, ReplaceStepsSave, MoveStepsSave DEF RenameSteps
<1>10. RenameSteps(dev, from, to) \in Runs(SafeOf(S))
  BY ReplaceStepsSave, MoveStepsSave DEF RenameSteps
<1>11. /\ Tracked(Last(RenameSteps(dev, from, to)), Keys, owed, Owed')
       /\ Plan(Last(RenameSteps(dev, from, to)), Overtaken, Owed')
  BY <1>4, <1>5, <1>9, RenamedTracked
<1> QED  BY <1>1, <1>3, <1>6, <1>7, <1>8, <1>10, <1>11, CommitSaves DEF m

(***************************************************************************)
(* The specification.                                                      *)
(***************************************************************************)
\* To begin with no save is owed.
LEMMA InitSaves == Init => SaveInv
<1> SUFFICES ASSUME Init  PROVE SaveInv
  OBVIOUS
<1>1. /\ ghost.unsent = {} /\ ghost.seen = {} /\ ghost.next = 1 /\ Owed = {}
      /\ mem = Booting /\ \A k \in Keys : hub.object[k] = None
  BY DEF Init, Owed
<1>2. /\ mem.unscanned = Keys /\ mem.eng = Idle /\ mem.unflushed = {} /\ mem.open = {}
      /\ \A k \in Keys : mem.listing.remote[k] = None
      /\ Idle.reply = None /\ Idle.sha = None /\ Idle.pc = "idle" /\ mem.up = FALSE
  BY <1>1 DEF Booting, NoListing, Idle
<1>3. Safe(dev, ghost.unsent, Owed)  BY <1>1 DEF Safe, FileOnce, Held, Agreed
<1>4. Tracked(dev, Keys \ mem.unscanned, mem.unflushed, Owed)  BY <1>2 DEF Tracked
<1>5. Plan(dev, mem.eng, Owed)  BY <1>2 DEF Plan
<1>6. Uploaded(hub, mem, ghost.unsent)  BY <1>1, <1>2 DEF Uploaded, InHand
<1>7. Past(hub, mem, ghost)  BY <1>1, <1>2 DEF Past, None
<1>8. Mounted(mem)  BY <1>2 DEF Mounted
<1> QED  BY <1>3, <1>4, <1>5, <1>6, <1>7, <1>8 DEF SaveInv

\* The session threads.
LEMMA SessionSaves ==
  ASSUME IInv, SaveInv, NEW k \in Keys, Session(k)
  PROVE  SaveInv'
BY HandleSaves, WriteSaves, FlushSaves, UnlinkSaves, RenameSaves DEF Session

\* The hub.
LEMMA HubAnswersSave ==
  ASSUME IInv, SaveInv, NEW k \in Keys, HubAnswers(k)
  PROVE  SaveInv'
BY HubPutSaves, HubDeleteSaves, HubCopySaves, HubRenameSaves DEF HubAnswers

\* The engine in the middle of something.
LEMMA ProceedSaves ==
  ASSUME IInv, SaveInv, NEW k \in Keys, Proceed(k)
  PROVE  SaveInv'
BY ScansSave, ReconcileSaves, PullStartSaves, PullGetSaves, PullLandSaves, RecordConflictSaves,
   PushSendSaves, PushReplySaves, DeleteReplySaves, CopyReplySaves, ConflictHashSaves,
   ConflictTakeSaves, RenameReplySaves, RenameTargetSaves
   DEF Proceed

\* The engine choosing what to do next.
LEMMA CycleSaves ==
  ASSUME IInv, SaveInv, Cycle
  PROVE  SaveInv'
<1>1. CASE StartJob
  BY <1>1, StartPushSaves, StartDeleteSaves, StartRenameSaves, StartConflictSaves
     DEF StartJob
<1>2. CASE StartListing  BY <1>2, StartListingSaves
<1>3. CASE \E k \in Keys : \/ StartupScan(k) \/ ScanKey(k) \/ RecoverJob(k)
                           \/ NextChange(k) \/ NextRecheck(k) \/ NextListed(k)
  BY <1>3, ScansSave, RecoverJobSaves, NextHeadSaves
<1> QED  BY <1>1, <1>2, <1>3 DEF Cycle

\* The invariant is inductive.
LEMMA NextSaves == IInv /\ SaveInv /\ [Next]_vars => SaveInv'
<1> SUFFICES ASSUME IInv, SaveInv, [Next]_vars  PROVE SaveInv'
  OBVIOUS
<1>1. CASE UNCHANGED vars
  BY <1>1 DEF vars, SaveInv, Owed
<1>2. ASSUME NEW k \in Keys,
             Session(k) \/ FolderEdit(k) \/ Peer(k) \/ HubAnswers(k) \/ Proceed(k)
      PROVE  SaveInv'
  BY <1>2, SessionSaves, FolderEditSaves, PeerSaves, HubAnswersSave, ProceedSaves
<1>3. CASE Cycle \/ Disconnect \/ ProcessCrash
  BY <1>3, CycleSaves, DisconnectSaves, ProcessCrashSaves
<1> QED  BY <1>1, <1>2, <1>3 DEF Next

\* The invariant holds from the start and is never lost.
LEMMA SavesHold == Spec => [](IInv /\ SaveInv)
<1>1. IInv /\ SaveInv /\ [Next]_vars => SaveInv'  BY NextSaves
<1> QED  BY <1>1, InvariantHolds, InitSaves, PTL DEF Spec

\* What the invariant says of the saves that are owed.
LEMMA SavesKept == IInv /\ SaveInv => NoSaveLost
<1> SUFFICES ASSUME IInv, SaveInv, NEW v \in Owed  PROVE v \in Kept
  BY DEF NoSaveLost, Owed
<1>1. v \in dev.snaps \/ \E k \in Keys : dev.file[k] = v
  BY DEF SaveInv, Safe, Held
<1>2. DOMAIN dev.file = Keys  BY Parts DEF DeviceOf
<1> QED  BY <1>1, <1>2 DEF Kept, Range

LEMMA SavesTracked == IInv /\ SaveInv => SavesAreTracked
<1> SUFFICES ASSUME IInv, SaveInv, NEW k \in Keys, mem.up, k \notin mem.open,
                    dev.file[k] \in Owed
             PROVE  dev.entry[k].state = "Dirty"
  BY DEF SavesAreTracked, Owed
<1>1. mem.unscanned = {} /\ k \notin mem.unflushed  BY DEF SaveInv, Mounted
<1>2. Tracks(dev, k, mem.unflushed, Owed)  BY <1>1 DEF SaveInv, Tracked
<1> QED  BY <1>1, <1>2 DEF Tracks, Intent, Hashed

\* No bytes the user saved are destroyed before the hub has them: every save
\* that is owed is in the folder or in a conflict snapshot, wherever the
\* session threads, the engine, the peers and the crashes have got to.
THEOREM NoSaveLostEver == Spec => []NoSaveLost
BY SavesKept, SavesHold, PTL

\* A save the hub has not is never taken for a synced file: with its handle
\* closed its entry says Dirty, so that the engine will send it.
THEOREM SavesTrackedAlways == Spec => []SavesAreTracked
BY SavesTracked, SavesHold, PTL

\* Outside the windows of the findings, the base of a key is never bytes the
\* hub has yet to see: what decide() takes for agreed was agreed.
THEOREM BasesAreAgreed == Spec => [](Range(dev.base) \cap Owed = {})
<1>1. IInv /\ SaveInv => Range(dev.base) \cap Owed = {}
  <2> SUFFICES ASSUME IInv, SaveInv, NEW k \in Keys  PROVE dev.base[k] \notin Owed
    <3>1. IInv => DOMAIN dev.base = Keys  BY Parts DEF DeviceOf
    <3> QED  BY <3>1 DEF Range
  <2> QED  BY DEF SaveInv, Safe, Agreed
<1> QED  BY <1>1, SavesHold, PTL
=============================================================================
