---------------------------- MODULE ProtectedSync ----------------------------
(***************************************************************************)
(* A mirror mounted with --protected (mirror/protection.rs and the places  *)
(* of mirror/sync.rs that ask for it), the operator's recovery push and    *)
(* pull (mirror/recovery.rs), and the remount without the option.          *)
(*                                                                         *)
(* The device, the session, the engine and the hub are those of            *)
(* MirrorSync.  A blocked action changes nothing but the audit, which      *)
(* nothing reads back: it is a step of the engine that leaves what it      *)
(* found, and a blocked job is one that is never selected.  The mirror     *)
(* starts in step, its trash empty, its startup scan over.                 *)
(***************************************************************************)
EXTENDS MirrorSync, FiniteSets

CONSTANTS
  Synced,        \* the keys that hold a synced file at the start
  MaxActs        \* bound: how often users, here and elsewhere, change anything

ASSUME ProtectedAssumption ==
  /\ MaxActs \in Nat
  /\ Synced \subseteq Keys /\ IsFiniteSet(Synced) /\ Cardinality(Synced) <= MaxVersion

VARIABLES
  protected,     \* MirrorOptions.protected of the mount there is
  rec,           \* push_local or pull_remote: its file, its local variables
  acts,          \* how often users changed anything so far
  settled,       \* history: which recoveries ran since anyone did anything
  leftover       \* history: what a recovery left behind in a file it settled

allVars == <<vars, protected, rec, acts, settled, leftover>>

(***************************************************************************)
(* A recovery takes its files one by one.  `pc` is where it is:            *)
(*   off       none runs                                                   *)
(*   pick      between two files                                           *)
(*   head      push_recovery_file before the HEAD is answered              *)
(*   put       its request is out                                          *)
(*   commit    the hub holds the snapshot, nothing is written down yet     *)
(*   get, land pull_recovery_file before the GET is answered, at the landing *)
(***************************************************************************)
Recovery ==
  [verb  : {"none", "push", "pull"},
   pc    : {"off", "pick", "head", "put", "commit", "get", "land"},
   todo  : SUBSET Keys,             \* the walk, or the listing, still to take
   key   : Keys \cup {NoKey},
   stamp : Digest,                  \* the file when it was taken
   match : Digest,                  \* what the HEAD said
   sha   : Digest,                  \* the bytes sent, or about to land
   moved : BOOLEAN]                 \* directory_epoch changed since

NoRecovery == [verb |-> "none", pc |-> "off", todo |-> {}, key |-> NoKey, stamp |-> None,
               match |-> None, sha |-> None, moved |-> FALSE]

\* Every state is a state of the program: the mirror's, and a recovery that
\* has in hand what its place needs, only while the mount is protected.
ProtectedTypeOK ==
  /\ TypeOK
  /\ protected \in BOOLEAN /\ rec \in Recovery /\ acts \in 0..MaxActs
  /\ settled \in {"nothing", "disturbed", "pushed", "union"}
  /\ leftover \in [intents : SUBSET Keys,      \* their delete or rename is still queued
               orphans : SUBSET Version]   \* their queued rename is gone
  /\ rec.verb # "none" => protected /\ mem.up /\ mem.eng.pc = "idle"
  /\ (rec.verb = "none") = (rec.pc = "off")
  /\ rec.pc \in {"head", "put", "commit", "get", "land"} => rec.key \in Keys

ProtectedInit ==
  /\ \E held \in [Synced -> 1..Cardinality(Synced)] :
       LET Has(k) == IF k \in Synced THEN held[k] ELSE None IN
       /\ \A j, k \in Synced : held[j] = held[k] => j = k
       /\ dev = [EmptyDevice EXCEPT
                   !.file  = [k \in Keys |-> Has(k)],
                   !.base  = [k \in Keys |-> Has(k)],
                   !.entry = [k \in Keys |-> IF k \in Synced THEN Hashed(Has(k), "Clean")
                                             ELSE NoEntry]]
       /\ hub = [object |-> [k \in Keys |-> Has(k)], feed |-> {}]
  /\ mem = [Booting EXCEPT !.up = TRUE, !.unscanned = {}]
  /\ ghost = [next |-> Cardinality(Synced) + 1, unsent |-> {}, exempt |-> {},
              seen |-> 1..Cardinality(Synced), removed |-> {}, renames |-> 0]
  /\ faults = 0
  /\ protected = TRUE
  /\ rec = NoRecovery
  /\ acts = 0
  /\ settled = "nothing"
  /\ leftover = [intents |-> {}, orphans |-> {}]

(***************************************************************************)
(* Users, here and elsewhere.  Bounds: nobody touches a file once the      *)
(* mount is back without the option, what follows is the mirror's own      *)
(* doing; no file is opened after the last change; and what fails fails     *)
(* while a recovery runs (MirrorSync has the other crashes and lost        *)
(* requests).                                                              *)
(***************************************************************************)
Counted == acts < MaxActs /\ acts' = acts + 1

\* A rename moves directory_epoch under the recovery.
RenameHere(from, to) ==
  Rename(from, to) /\ rec' = [rec EXCEPT !.moved = rec.key # NoKey]

Users(k) ==
  /\ protected
  /\ \/ /\ Write(k) \/ Unlink(k) \/ Peer(k)
        /\ Counted /\ UNCHANGED rec
     \/ /\ \E to \in Keys : RenameHere(k, to)
        /\ Counted
     \/ /\ (Open(k) /\ acts < MaxActs) \/ Flush(k) \/ Close(k)
        /\ UNCHANGED <<rec, acts>>
  /\ settled' = IF rec.verb = "none" THEN "nothing" ELSE "disturbed"
  /\ UNCHANGED <<protected, faults>>

(***************************************************************************)
(* The engine of a protected mount.  Whatever it may not do it leaves as   *)
(* it found it.                                                            *)
(***************************************************************************)
\* run_push replaces no version it agreed on: compared with the entry's digest
\* first and, once the file is hashed, with the snapshot's.
\* (Slip: any dirty file is pushed, as without the option.)
NeverReplaces(base, digest) == FALSE
Replaces(base, digest) == base \notin {None, digest}

ProtectedPush(j) ==
  /\ LET e == dev.entry[j.key] IN
     e.state = "Dirty" => ~ Replaces(dev.base[j.key], EntryDigest(e))
  /\ StartPush(j)

BlockJob == Commit(<<Unmark(dev)>>, Engage(Idle)) /\ UNCHANGED ghost

ProtectedSend(k) ==
  IF mem.eng.pc = "snap" /\ mem.eng.key = k /\ Replaces(mem.eng.match, dev.file[k])
  THEN BlockJob ELSE PushSend(k)

\* A refused PUT is not reconciled when the hub holds other bytes.
ProtectedReply(k) ==
  IF /\ mem.eng.pc = "putdone" /\ mem.eng.key = k
     /\ mem.eng.out # "ok" /\ mem.eng.reply \notin {None, mem.eng.sha}
  THEN BlockJob ELSE PushReply(k)

\* What reconcile_key may go on to do.
\* (Slip: the file of a key that left the hub is still trashed.)
AdditiveOrTrash(k, answer) ==
  \/ answer.act \in {"Nothing", "Adopt", "TrashLocal"}
  \/ answer.act = "Pull" /\ dev.file[k] = None
  \/ answer.act = "Push" /\ answer.match = None
Additive(k, answer) ==
  \/ answer.act \in {"Nothing", "Adopt"}
  \/ answer.act = "Pull" /\ dev.file[k] = None
  \/ answer.act = "Push" /\ answer.match = None

Deferred(k) == k \in mem.open \/ PendingRename(dev, k)

ProtectedReconcile(k) ==
  IF \/ mem.eng.pc # "head" \/ mem.eng.key # k \/ mem.eng.moved \/ Deferred(k)
     \/ Additive(k, R!Decide(LocalDigest(dev.entry[k]), dev.base[k], mem.eng.reply))
  THEN Reconcile(k) ELSE Finish(<<dev>>, mem) /\ UNCHANGED ghost

\* pull_key lands in an empty slot only.
ProtectedPull(k) ==
  IF /\ mem.eng.pc = "pull" /\ mem.eng.key = k /\ ~ Deferred(k)
     /\ dev.entry[k] = mem.eng.seen /\ dev.file[k] # None
  THEN Finish(<<dev>>, mem) /\ UNCHANGED ghost ELSE PullStart(k)

Continue(k) ==
  \/ ScanAgain(k) \/ PullGet(k) \/ PullLand(k)
  \/ ProtectedReconcile(k) \/ ProtectedPull(k) \/ ProtectedSend(k) \/ ProtectedReply(k)

Choose ==
  \/ StartListing
  \/ \E j \in dev.jobs : ProtectedPush(j)
  \/ \E k \in Keys : \/ StartupScan(k) \/ ScanKey(k) \/ RecoverJob(k)
                     \/ NextChange(k) \/ NextRecheck(k) \/ NextListed(k)

\* cycle_gate: no step of a cycle while a recovery runs.
Engine ==
  /\ rec.verb = "none"
  /\ \/ \E k \in Keys : HubAnswers(k) \/ (IF protected THEN Continue(k) ELSE Proceed(k))
     \/ IF protected THEN Choose ELSE Cycle
  /\ UNCHANGED <<faults, protected, rec, acts, settled>>

(***************************************************************************)
(* Recovery.  `sync push` and `sync pull` wait for the cycle to end.       *)
(***************************************************************************)
\* (Slip: nobody waits.)
AnyTime == protected /\ rec.verb = "none" /\ mem.up
BetweenCycles == /\ protected /\ rec.verb = "none"
                 /\ mem.up /\ mem.eng.pc = "idle" /\ mem.listing.todo = {}

Begin(verb, todo) ==
  /\ BetweenCycles
  /\ rec' = [NoRecovery EXCEPT !.verb = verb, !.pc = "pick", !.todo = todo]
  /\ UNCHANGED <<vars, protected, acts, settled>>

StartPushLocal  == Begin("push", {k \in Keys : dev.file[k] # None})
StartPullRemote == Begin("pull", {k \in Keys : hub.object[k] # None})

EndRecovery ==
  /\ rec.pc = "pick" /\ rec.todo = {}
  /\ rec' = NoRecovery
  /\ settled' = IF settled = "disturbed" \/ mem.open # {} THEN "nothing"
                ELSE CASE settled = "nothing" /\ rec.verb = "push" -> "pushed"
                       [] settled = "pushed" /\ rec.verb = "pull" -> "union"
                       [] OTHER -> settled
  /\ UNCHANGED <<vars, protected, acts>>

\* What fails may leave a file unsettled.
Undisturbed == settled' = IF faults' = faults THEN settled
                          ELSE IF rec'.verb = "none" THEN "nothing" ELSE "disturbed"

\* The process dies.
CrashInRecovery ==
  /\ rec.verb # "none" /\ ProcessCrash
  /\ rec' = NoRecovery
  /\ Undisturbed /\ UNCHANGED <<protected, acts>>

\* The file is done with: skipped, kept, failed, or recovered.
NextFile ==
  rec' = IF mem'.up THEN [NoRecovery EXCEPT !.verb = rec.verb, !.pc = "pick", !.todo = rec.todo]
         ELSE NoRecovery

Doing(pc, k) == rec.pc = pc /\ rec.key = k

\* The next file: a push takes those that are there, a pull those that are not.
Take(k) ==
  /\ rec.pc = "pick" /\ k \in rec.todo
  /\ LET left == rec.todo \ {k} IN
     rec' = IF k \in mem.open \/ (rec.verb = "push") = (dev.file[k] = None)
            THEN [rec EXCEPT !.todo = left]
            ELSE [rec EXCEPT !.todo = left, !.key = k, !.stamp = dev.file[k],
                             !.pc = IF rec.verb = "push" THEN "head" ELSE "get"]
  /\ UNCHANGED <<vars, protected, acts, settled>>

\* Anything that came between: an edit, a handle, a move.
\* (Slip: only a move counts.)
MovedOnly(k) == rec.moved
Stale(k) == rec.moved \/ dev.file[k] # rec.stamp \/ k \in mem.open

\* push_recovery_file: the snapshot, what the hub holds, the check.
RecHead(k) ==
  /\ Doing("head", k)
  /\ UNCHANGED <<vars, protected, acts, settled>>
  /\ IF Stale(k) THEN NextFile
     ELSE rec' = [rec EXCEPT !.pc = IF hub.object[k] = rec.stamp THEN "commit" ELSE "put",
                             !.match = hub.object[k], !.sha = rec.stamp]

\* The hub holds something else by now.
\* (Slip: the refusal is not looked at.)
TakenForDone == rec' = [rec EXCEPT !.pc = "commit"]
GivenUp == NextFile

\* The conditional PUT of the snapshot, against what the HEAD said.  After a
\* 5xx the client sends it again; a hub that cannot be reached ends the recovery.
RecPut(k) ==
  /\ Doing("put", k)
  /\ UNCHANGED <<dev, mem, protected, acts>>
  /\ IF Matches(hub.object[k], rec.match)
       THEN /\ hub' = [object |-> [hub.object EXCEPT ![k] = rec.sha], feed |-> hub.feed \cup {k}]
            /\ Landed(rec.sha)
            /\ \/ rec' = [rec EXCEPT !.pc = "commit"] /\ UNCHANGED faults
               \/ /\ faults < MaxFaults /\ faults' = faults + 1
                  /\ rec' \in {rec, NoRecovery}
       ELSE GivenUp /\ UNCHANGED <<hub, ghost, faults>>
  /\ Undisturbed

\* pull_recovery_file: the download of whatever the hub holds by now.
RecGet(k) ==
  /\ Doing("get", k)
  /\ UNCHANGED <<vars, protected, acts, settled>>
  /\ IF hub.object[k] = None THEN NextFile
     ELSE rec' = [rec EXCEPT !.pc = "land", !.sha = hub.object[k]]

\* Only what the snapshot covers is acknowledged: deletes and renames stay.
\* (Slip: the entry keeps the state it had.)
RecPushedBase(d, k, v) ==
  LET d1 == SetBase(d, k, v)
      covered == {j \in d.jobs : j.key = k /\ j.kind \in {"Push", "Conflict"}}
  IN  <<d1, SetPending([d1 EXCEPT !.jobs = Dequeue(@, covered)], k, None)>>
RecPushed(d, k, v) ==
  LET d1 == SetBase(d, k, v)
      d2 == SetEntry(d1, k, Hashed(v, "Clean"))
      covered == {j \in d.jobs : j.key = k /\ j.kind \in {"Push", "Conflict"}}
      d3 == [d2 EXCEPT !.jobs = Dequeue(@, covered)]
      d4 == SetConflict(d3, k, None)
  IN  <<d1, d2, d3, d4, SetPending(d4, k, None)>>

\* The delete or rename the user made here is undone, its job dropped.
\* (Slip: the job stays.)
RecPulledOnly(d, k, v) ==
  LET d1 == SetFile(d, k, v)
      d2 == SetEntry(d1, k, Hashed(v, "Clean"))
  IN  <<d1, d2, SetBase(d2, k, v)>>
RecPulled(d, k, v) ==
  LET d1 == SetFile(d, k, v)
      d2 == SetEntry(d1, k, Hashed(v, "Clean"))
      d3 == SetBase(d2, k, v)
  IN  <<d1, d2, d3, RemoveJobsFor(d3, k)>>

\* A delete or rename of k is queued, and stays although its file is settled.
Outlives(k) == \E j \in dev.jobs : j.kind \in {"Delete", "Rename"} /\ j.key = k

RecCommit(k) ==
  /\ Doing("commit", k)
  /\ Commit(IF Stale(k) THEN <<dev>> ELSE RecPushed(dev, k, rec.sha), mem)
  /\ NextFile
  /\ leftover' = IF Outlives(k) THEN [leftover EXCEPT !.intents = @ \cup {k}] ELSE leftover
  /\ Undisturbed /\ UNCHANGED <<ghost, protected, acts>>

\* A file whose rename from k is dropped has a base its key never had.
Orphaned(k) ==
  {dev.file[j.to] : j \in {j \in dev.jobs : j.kind = "Rename" /\ j.key = k}} \ {None}

RecLand(k) ==
  /\ Doing("land", k)
  /\ IF Stale(k) THEN Commit(<<dev>>, mem) /\ UNCHANGED ghost
     ELSE /\ Commit(RecPulled(dev, k, rec.sha), mem)
          /\ ghost' = [ghost EXCEPT !.seen = @ \cup {rec.sha}]
  /\ NextFile
  /\ leftover' = IF Stale(k) THEN leftover ELSE [leftover EXCEPT !.orphans = @ \cup Orphaned(k)]
  /\ Undisturbed /\ UNCHANGED <<protected, acts>>

(***************************************************************************)
(* The specification.                                                      *)
(***************************************************************************)
\* Unmounted, and mounted again without the option.  Bound: not after a fault.
Resume ==
  /\ BetweenCycles /\ mem.open = {} /\ faults = 0
  /\ protected' = FALSE
  /\ mem' = Booting
  /\ UNCHANGED <<dev, hub, ghost, faults, rec, acts, settled>>

ProtectedNext ==
  \/ /\ \/ Engine \/ CrashInRecovery \/ StartPushLocal \/ StartPullRemote \/ EndRecovery \/ Resume
        \/ \E k \in Keys : Users(k) \/ Take(k) \/ RecHead(k) \/ RecPut(k) \/ RecGet(k)
     /\ UNCHANGED leftover
  \/ \E k \in Keys : RecCommit(k) \/ RecLand(k)

ProtectedSpec == ProtectedInit /\ [][ProtectedNext]_allVars

(***************************************************************************)
(* Properties.                                                             *)
(***************************************************************************)
\* While the mount is protected nothing but its users replaces or removes a
\* file, whatever was queued before.
FolderHeld ==
  [][protected /\ acts' = acts
     => \A k \in Keys : dev.file[k] # None => dev'.file[k] = dev.file[k]]_allVars

\* Nor does anything but its users and a recovery push replace or remove an
\* object of the hub; and the push replaces only what it was shown.
HubHeld ==
  [][protected /\ acts' = acts
     => \A k \in Keys :
          hub.object[k] # None /\ hub'.object[k] # hub.object[k]
          => rec.pc = "put" /\ hub.object[k] = rec.match /\ hub'.object[k] = rec.sha]_allVars

\* Recovery and the remount trash only what a peer removed.
\* Exempt is a file whose queued rename a pull dropped (Orphaned).
NothingElseTrashed ==
  Range(dev.trash) \subseteq ghost.removed \cup leftover.orphans \cup {None}

\* A push and then a pull, with nobody in between, leave both sides with the
\* union: the same files, and a ledger that says so.
UnionReached ==
  settled = "union" /\ mem.open = {} /\ mem.eng.pc = "idle" /\ protected
  => /\ dev.file = hub.object
     /\ \A k \in Keys : dev.file[k] # None
          => dev.base[k] = dev.file[k] /\ dev.entry[k] = Hashed(dev.file[k], "Clean")

\* Ordinary sync leaves alone what is the same on both sides
\* once the mount is back without the option: nothing that was blocked, queued
\* or settled before is done again.  Exempt are the deletes and renames of the
\* keys a push settled (leftover.intents).
UnionSurvives ==
  [][~ protected /\ dev.file = hub.object /\ leftover.intents = {}
     => dev'.file = dev.file /\ hub'.object = hub.object]_allVars

\* After a push and a pull the remount leaves both sides alone: without
\* exception (tests/mirror_protected.rs, "Resuming ordinary sync must not undo
\* the union upstream").
ResumeKeepsUnion ==
  [][~ protected /\ settled = "union"
     => dev'.file = dev.file /\ hub'.object = hub.object]_allVars
==============================================================================
