------------------------------- MODULE DirMove -------------------------------
(***************************************************************************)
(* Directory moves of the mirror (mirror/sync.rs, mirror/store.rs): a      *)
(* durable intent, rename(2), one transaction that re-keys the ledger and  *)
(* the queue, and the request that makes the hub follow, with uploads,     *)
(* deletes, mkdir and rmdir of the same names queued or on the wire.       *)
(*                                                                         *)
(* A directory holds at most one file, which goes by the directory's name: *)
(* what a move re-keys and what overlaps it does not depend on how many    *)
(* there are.  The engine asks the hub nothing of its own here; MirrorSync *)
(* has the listing, the peers and the steps of a conflict.                 *)
(***************************************************************************)
EXTENDS Integers, Sequences

CONSTANTS
  Dirs,         \* directory names, none inside another
  Home,         \* the directory that starts out synced, with its file
  MaxMoves,     \* bound: directory moves
  MaxSaves,     \* bound: saves after the first
  MaxRemovals,  \* bound: files removed, directories made or removed
  MaxFaults     \* bound: crashes, failed renames, lost requests and replies

ASSUME DirMoveAssumption ==
  /\ Home \in Dirs
  /\ {MaxMoves, MaxSaves, MaxRemovals, MaxFaults} \subseteq Nat

VARIABLES
  disk,    \* the folder: its directories, the version each one's file has
  store,   \* the ledger, by key; survives a crash
  jobs,    \* the queue, a set of jobs numbered by `seq`; survives a crash
  hub,     \* the hub's files, explicit directories and rename receipts
  eng,     \* the engine thread's request
  session, \* rename_dir_local, while it holds `directory_moves`
  ghost    \* budgets, and history the properties talk about

vars == <<disk, store, jobs, hub, eng, session, ghost>>

R == INSTANCE Reconcile WITH None <- 0

Missing  == 0                       \* no such file, no such base
Unhashed == 0 - 1                   \* the empty digest: hash before upload
Version  == 1..MaxSaves + 1         \* the bytes of one save
Content  == Version \cup {Missing}
Digest   == Content \cup {Unhashed}

Entry   == [state : {"none", "clean", "dirty", "tombstone"}, sha : Digest]
NoEntry == [state |-> "none", sha |-> Missing]

\* Circumstances in which the code, as it stands, loses or blocks a move
\* (README, section 5); the properties name the ones they exempt.
Flaws == {"forgot", "mixed", "stuck", "returns", "doubled", "stray", "adopted"}
Flaw(name, seen) == IF seen THEN {name} ELSE {}

\* `run` marks the job the engine's request is for, as long as the queue still
\* holds it under the same number and kind.
Jobs ==
  [seq : Nat, kind : {"Push", "Delete", "Mkdir", "Rmdir", "RenameDir"}, at : Dirs,
   to : Dirs, op : 0..MaxMoves, applied : BOOLEAN, remote : BOOLEAN, run : BOOLEAN]

\* A job that has no number yet.
Job(kind, d) == [seq |-> 0, kind |-> kind, at |-> d, to |-> d, op |-> 0,
                 applied |-> FALSE, remote |-> TRUE, run |-> FALSE]

Idle == [pc |-> "idle", job |-> Job("Mkdir", Home), sha |-> Missing, match |-> Missing,
         out |-> "none", current |-> Missing]

NoMove == [pc |-> "idle", job |-> Job("Mkdir", Home)]

TypeOK ==
  /\ disk \in [dirs : SUBSET Dirs, file : [Dirs -> Content]]
  /\ store \in [entry : [Dirs -> Entry], base : [Dirs -> Digest],
                mark : [Dirs -> Content], dirs : SUBSET Dirs]
  /\ jobs \subseteq Jobs
  /\ hub \in [file : [Dirs -> Content], made : SUBSET Dirs, receipts : SUBSET (1..MaxMoves),
              log : Seq([op : 1..MaxMoves, from : Dirs, to : Dirs])]
  /\ eng \in [pc : {"idle", "sent", "mkdir", "answered"}, job : Jobs, sha : Content,
              match : Digest, out : {"none", "ok", "missing", "mismatch", "exists"},
              current : Content]
  /\ session \in [pc : {"idle", "intent", "renamed", "down"}, job : Jobs]
  /\ ghost \in [moves : 0..MaxMoves, saves : 0..MaxSaves, removals : 0..MaxRemovals,
                faults : 0..MaxFaults, flaws : SUBSET Flaws,
                unanswered : SUBSET Version]

Init ==
  /\ disk = [dirs |-> {Home}, file |-> [d \in Dirs |-> IF d = Home THEN 1 ELSE Missing]]
  /\ store = [entry |-> [d \in Dirs |-> IF d = Home THEN [state |-> "clean", sha |-> 1]
                                                    ELSE NoEntry],
              base |-> disk.file, mark |-> [d \in Dirs |-> Missing], dirs |-> {Home}]
  /\ jobs = {}
  /\ \E made \in SUBSET {Home} :     \* the hub may know it by its file alone
       hub = [file |-> disk.file, made |-> made, receipts |-> {}, log |-> <<>>]
  /\ eng = Idle /\ session = NoMove
  /\ ghost = [moves |-> 0, saves |-> 0, removals |-> 0, faults |-> 0,
              flaws |-> {}, unanswered |-> {}]

(***************************************************************************)
(* The store.                                                              *)
(***************************************************************************)
IsFileJob(j) == j.kind \in {"Push", "Delete"}
SameId(j, k) == j.kind = k.kind /\ j.at = k.at /\ j.op = k.op

\* The highest number in a queue.  The store numbers all its jobs in one row; all
\* that is read of that is the order of jobs that share a key, so here a job
\* counts only those.
Top(q) == LET seqs == {j.seq : j \in q} \cup {0}
          IN CHOOSE n \in seqs : \A m \in seqs : m <= n

Overlap(j, k) == {j.at, j.to} \cap {k.at, k.to} # {}

\* At the end of the queue, in place of a job of the same id.
Others(q, j)  == {k \in q : ~SameId(j, k)}
Behind(q, j)  == [j EXCEPT !.seq = Top({k \in q : Overlap(j, k)}) + 1]
Enqueue(q, j) == LET rest == Others(q, j) IN rest \cup {Behind(rest, j)}

EnsureJob(q, j) == IF Others(q, j) = q THEN Enqueue(q, j) ELSE q

\* The jobs under the key of d's file, or under that of the directory d, a move
\* of it included: a move's key is the name it leaves.
WithoutFile(q, d) == {j \in q : ~(IsFileJob(j) /\ j.at = d)}
WithoutDir(q, d)  == {j \in q : IsFileJob(j) \/ j.at # d}

Finished(q) == {j \in q : ~j.run}
Retried(q)  == {[j EXCEPT !.run = FALSE] : j \in q}

Rekey(table, none, m) ==
  IF table[m.at] = none THEN table
  ELSE [table EXCEPT ![m.to] = table[m.at], ![m.at] = none]

\* Earlier structural work still addresses the hub's old names; the rest goes
\* with the directory, behind its move.
Follows(j, m) ==
  /\ j.at = m.at /\ j.kind # "RenameDir"
  /\ ~(m.remote /\ j.seq < m.seq /\ j.kind \in {"Delete", "Mkdir", "Rmdir"})

\* (Slip: the base ledger stays behind.)
EntriesOnly(m) ==
  [store EXCEPT !.entry = Rekey(@, NoEntry, m), !.dirs = (@ \ {m.at}) \cup {m.to}]

\* apply_directory_rename: the one transaction.
RekeyedStore(m) ==
  [store EXCEPT !.entry = Rekey(@, NoEntry, m), !.base = Rekey(@, Missing, m),
                !.dirs = (@ \ {m.at}) \cup {m.to}]

RekeyedJobs(m) ==
  LET last == Top({j \in jobs : m.to \in {j.at, j.to}})
  IN {j \in jobs : ~Follows(j, m) /\ j.op # m.op}
       \cup {[m EXCEPT !.applied = TRUE]}
       \cup {[j EXCEPT !.seq = @ + last, !.at = m.to, !.to = m.to, !.run = FALSE] :
               j \in {k \in jobs : Follows(k, m)}}

\* (Slip: a reply is filed under the name it was asked for.)
AsAsked(d) == d

\* Where the name d gets to by these moves, one after the other.
Hop(moves, n, d) ==
  LET here == {j \in moves : j.seq = n /\ j.at = d}
  IN IF here = {} THEN d ELSE (CHOOSE j \in here : TRUE).to

Along(moves, d) ==
  LET at[n \in 0..Top(moves)] == IF n = 0 THEN d ELSE Hop(moves, n, at[n - 1])
  IN at[Top(moves)]

Moves == {j \in jobs : j.kind = "RenameDir"}

\* Where what was asked under d is now, by the moves queued meanwhile.
Landed(d) == Along({j \in Moves : j.applied}, d)

PendingMove(d) == \E j \in Moves : d \in {j.at, j.to}

\* dir_has_children: tombstones count.
HasChildren(d) == store.entry[d].state # "none"

(***************************************************************************)
(* The session: what the user does through the mount, under the lock.      *)
(***************************************************************************)
Unlocked == session.pc = "idle"

Save(d) ==
  /\ Unlocked /\ d \in disk.dirs
  /\ ghost.saves < MaxSaves
  /\ ghost' = [ghost EXCEPT !.saves = @ + 1]
  /\ disk' = [disk EXCEPT !.file[d] = ghost.saves + 2]
  /\ store' = [store EXCEPT !.entry[d] = [state |-> "dirty", sha |-> Unhashed],
                            !.dirs = @ \cup {d}]
  /\ jobs' = Enqueue(jobs, Job("Push", d))
  /\ UNCHANGED <<hub, eng, session>>

\* The upload of the file at d is out, or may be, under the name of a directory
\* that was moved since: nothing at d says so.
UploadElsewhere(d) ==
  \E k \in Dirs \ {d} : store.mark[k] # Missing /\ Landed(k) = d

Unlink(d) ==
  LET e == store.entry[d]
      known == store.base[d] # Missing \/ store.mark[d] # Missing
  IN
  /\ Unlocked /\ disk.file[d] # Missing
  /\ ghost.removals < MaxRemovals
  /\ ghost' = [ghost EXCEPT !.removals = @ + 1,
                            !.flaws = @ \cup Flaw("returns", ~known /\ UploadElsewhere(d))]
  /\ disk' = [disk EXCEPT !.file[d] = Missing]
  /\ IF e.state = "none" THEN UNCHANGED <<store, jobs>>
     ELSE IF known
       THEN /\ store' = [store EXCEPT !.entry[d].state = "tombstone"]
            /\ jobs' = Enqueue(WithoutFile(jobs, d), Job("Delete", d))
       ELSE /\ store' = [store EXCEPT !.entry[d] = NoEntry, !.base[d] = Missing]
            /\ jobs' = WithoutFile(jobs, d)
  /\ UNCHANGED <<hub, eng, session>>

Mkdir(d) ==
  /\ Unlocked /\ d \notin disk.dirs
  /\ ghost.removals < MaxRemovals
  /\ ghost' = [ghost EXCEPT !.removals = @ + 1]
  /\ disk' = [disk EXCEPT !.dirs = @ \cup {d}]
  /\ store' = [store EXCEPT !.dirs = @ \cup {d}]
  /\ jobs' = Enqueue(jobs, Job("Mkdir", d))
  /\ UNCHANGED <<hub, eng, session>>

\* A move that the hub has to perform takes the directory d away, at or after
\* this place in the queue.
LeftByMove(d, seq) == \E j \in Moves : j.seq >= seq /\ j.at = d /\ j.remote

\* The delete of a file that was in d is still queued, its tombstone gone.
DeleteStrays(d) == \E j \in jobs : j.kind = "Delete" /\ d \in {j.at, Landed(j.at)}

Rmdir(d) ==
  /\ Unlocked /\ d \in disk.dirs /\ ~HasChildren(d) /\ disk.file[d] = Missing
  /\ ghost.removals < MaxRemovals
  /\ ghost' = [ghost EXCEPT !.removals = @ + 1,
                            !.flaws = @ \cup Flaw("forgot", LeftByMove(d, 0))
                                       \cup Flaw("stray", DeleteStrays(d))]
  /\ disk' = [disk EXCEPT !.dirs = @ \ {d}]
  /\ store' = [store EXCEPT !.dirs = @ \ {d}]
  /\ jobs' = Enqueue(WithoutDir(jobs, d), Job("Rmdir", d))
  /\ UNCHANGED <<hub, eng, session>>

\* A directory that was made here and never uploaded to moves here alone.
LocalOnly(d) ==
  /\ store.base[d] = Missing
  /\ \E j \in jobs : j.kind = "Mkdir" /\ j.at = d

\* rename_dir_local up to the syscall.  An empty directory at the target was
\* removed by Rmdir before.
Intend(from, to) ==
  /\ Unlocked /\ from # to /\ from \in disk.dirs
  /\ to \notin disk.dirs /\ ~HasChildren(to)
  /\ ghost.moves < MaxMoves
  /\ ghost' = [ghost EXCEPT !.moves = @ + 1]
  /\ LET m == Behind(jobs, [Job("RenameDir", from) EXCEPT !.to = to, !.op = ghost.moves + 1,
                                                          !.remote = ~LocalOnly(from)])
     IN jobs' = jobs \cup {m} /\ session' = [pc |-> "intent", job |-> m]
  /\ UNCHANGED <<disk, store, hub, eng>>

Moved(m) == [dirs |-> (disk.dirs \ {m.at}) \cup {m.to}, file |-> Rekey(disk.file, Missing, m)]

Syscall ==
  /\ session.pc = "intent"
  /\ disk' = Moved(session.job)
  /\ session' = [session EXCEPT !.pc = "renamed"]
  /\ UNCHANGED <<store, jobs, hub, eng, ghost>>

SyscallFails ==
  /\ session.pc = "intent"
  /\ ghost.faults < MaxFaults
  /\ ghost' = [ghost EXCEPT !.faults = @ + 1]
  /\ jobs' = {j \in jobs : j.op # session.job.op}
  /\ session' = NoMove
  /\ UNCHANGED <<disk, store, hub, eng>>

\* A local-only move re-keys a job that was queued for an earlier directory of
\* its name, since moved away.
TakesNamesakes(m) ==
  ~m.remote /\ \E j \in jobs : Follows(j, m) /\ LeftByMove(m.at, j.seq)

Commit ==
  /\ session.pc = "renamed"
  /\ store' = RekeyedStore(session.job) /\ jobs' = RekeyedJobs(session.job)
  /\ session' = NoMove
  /\ ghost' = [ghost EXCEPT !.flaws = @ \cup Flaw("mixed", TakesNamesakes(session.job))]
  /\ UNCHANGED <<disk, hub, eng>>

User ==
  \/ \E d \in Dirs : Save(d) \/ Unlink(d) \/ Mkdir(d) \/ Rmdir(d)
  \/ \E from, to \in Dirs : Intend(from, to)

(***************************************************************************)
(* The process ends, and starts again: the scan of the folder, then the    *)
(* recovery with which every cycle begins.  Bound: nobody uses the mount   *)
(* between the two.                                                        *)
(***************************************************************************)
Unanswered == IF eng.pc # "idle" /\ eng.job.kind = "Push" THEN {eng.sha} ELSE {}

Crash ==
  /\ ghost.faults < MaxFaults
  /\ ghost' = [ghost EXCEPT !.faults = @ + 1, !.unanswered = @ \cup Unanswered]
  /\ session' = [NoMove EXCEPT !.pc = "down"]
  /\ jobs' = Retried(jobs) /\ eng' = Idle
  /\ UNCHANGED <<disk, store, hub>>

\* scan_paths: a directory the ledger does not know gets its Mkdir, a move
\* half made included; a name of a pending move that is gone is left to it.
Scanned(q) ==
  LET new == disk.dirs \ store.dirs
  IN {j \in q : ~(j.kind = "Mkdir" /\ j.at \in new)}
       \cup {Behind(q, Job("Mkdir", d)) : d \in new}

Unapplied == {j \in Moves : ~j.applied}

Restart ==
  /\ session.pc = "down"
  /\ jobs' = Scanned(jobs)
  /\ store' = [store EXCEPT !.dirs = @ \cup disk.dirs]
  /\ session' = IF Unapplied = {} THEN NoMove
                ELSE LET m == CHOOSE j \in Unapplied : TRUE
                     IN [pc |-> IF m.at \in disk.dirs THEN "intent" ELSE "renamed", job |-> m]
  /\ UNCHANGED <<disk, hub, eng, ghost>>

(***************************************************************************)
(* The engine: one request at a time.                                      *)
(***************************************************************************)
\* recover_jobs: a dirty file or a tombstone whose job is gone.
Repair(d)   == Job(IF store.entry[d].state = "dirty" THEN "Push" ELSE "Delete", d)
Unqueued(d) == /\ store.entry[d].state \in {"dirty", "tombstone"}
               /\ Others(jobs, Repair(d)) = jobs

\* The delete of d's file is queued under the name its directory had then.
DeletedElsewhere(d) ==
  /\ store.entry[d].state = "tombstone"
  /\ \E j \in jobs : j.kind = "Delete" /\ Landed(j.at) = d

RecoverJob(d) ==
  /\ eng.pc = "idle" /\ session.pc # "down"
  /\ Unqueued(d)
  /\ jobs' = Enqueue(jobs, Repair(d))
  /\ ghost' = [ghost EXCEPT !.flaws = @ \cup Flaw("doubled", DeletedElsewhere(d))]
  /\ UNCHANGED <<disk, store, hub, eng, session>>

\* (Slip: the queue is served in any order.)
Anytime(j) == TRUE

Ready(j) == \A k \in jobs : k.seq < j.seq => ~Overlap(k, j)

Send(j, sha, match) ==
  /\ eng' = [Idle EXCEPT !.pc = "sent", !.job = j, !.sha = sha, !.match = match]
  /\ jobs' = (jobs \ {j}) \cup {[j EXCEPT !.run = TRUE]}

\* (Slip: the ledger's digest of a file is sent, hashed or not.)
Recorded(d) == store.entry[d].sha

Snapshot(d) == disk.file[d]

Expected(d) == LET b == store.base[Landed(d)] IN IF b # Missing THEN b ELSE store.mark[d]

StartPush(j) ==
  LET d == j.at IN
  /\ j.kind = "Push"
  /\ IF store.entry[d].state # "dirty" \/ PendingMove(d)
       THEN jobs' = jobs \ {j} /\ UNCHANGED <<store, eng>>
       ELSE /\ Snapshot(d) # Missing
            /\ Send(j, Snapshot(d), store.base[d])
            /\ store' = [store EXCEPT !.entry[d].sha = Snapshot(d), !.mark[d] = Snapshot(d)]

StartDelete(j) ==
  LET l == Landed(j.at) IN
  /\ j.kind = "Delete"
  /\ IF Expected(j.at) = Missing
       THEN /\ jobs' = jobs \ {j}
            /\ store' = IF store.entry[l].state = "tombstone"
                          THEN [store EXCEPT !.entry[l] = NoEntry] ELSE store
            /\ UNCHANGED eng
       ELSE Send(j, Missing, Expected(j.at)) /\ UNCHANGED store

StartOther(j) ==
  /\ ~IsFileJob(j)
  /\ j.kind = "RenameDir" => j.applied
  /\ IF j.remote THEN Send(j, Missing, Missing)
                 ELSE jobs' = jobs \ {j} /\ UNCHANGED eng
  /\ UNCHANGED store

Start ==
  /\ Unlocked /\ eng.pc = "idle"
  /\ \E j \in jobs : Ready(j) /\ (StartPush(j) \/ StartDelete(j) \/ StartOther(j))
  /\ UNCHANGED <<disk, hub, session, ghost>>

(***************************************************************************)
(* The hub.                                                                *)
(***************************************************************************)
Answer(out) ==
  eng' = [eng EXCEPT !.pc = "answered", !.out = out,
                     !.current = IF out = "mismatch" THEN hub.file[eng.job.at] ELSE Missing]

Performed(j) ==
  LET m == [op |-> j.op, from |-> j.at, to |-> j.to]
  IN IF \E i \in DOMAIN hub.log : hub.log[i].op = j.op THEN hub.log ELSE Append(hub.log, m)

HubPut ==
  /\ eng.job.kind = "Push"
  /\ IF hub.file[eng.job.at] = eng.match
       THEN Answer("ok") /\ hub' = [hub EXCEPT !.file[eng.job.at] = eng.sha]
       ELSE Answer("mismatch") /\ UNCHANGED hub

HubDelete ==
  LET now == hub.file[eng.job.at] IN
  /\ eng.job.kind = "Delete"
  /\ IF now = eng.match
       THEN Answer("ok") /\ hub' = [hub EXCEPT !.file[eng.job.at] = Missing]
       ELSE Answer(IF now = Missing THEN "missing" ELSE "mismatch") /\ UNCHANGED hub

HubMkdir ==
  /\ eng.job.kind = "Mkdir"
  /\ Answer("ok") /\ hub' = [hub EXCEPT !.made = @ \cup {eng.job.at}]

HubRmdir ==
  /\ eng.job.kind = "Rmdir"
  /\ IF hub.file[eng.job.at] = Missing
       THEN Answer("ok") /\ hub' = [hub EXCEPT !.made = @ \ {eng.job.at}]
       ELSE Answer("exists") /\ UNCHANGED hub

HubRenameDir ==
  LET j == eng.job IN
  /\ j.kind = "RenameDir"
  /\ IF j.op \in hub.receipts THEN Answer("ok") /\ UNCHANGED hub
     ELSE IF hub.file[j.to] # Missing THEN Answer("exists") /\ UNCHANGED hub
     ELSE IF hub.file[j.at] = Missing /\ j.at \notin hub.made
       THEN Answer("missing") /\ UNCHANGED hub
     ELSE /\ Answer("ok")
          /\ hub' = [file |-> Rekey(hub.file, Missing, j),
                     made |-> IF j.at \in hub.made THEN (hub.made \ {j.at}) \cup {j.to}
                                                   ELSE hub.made,
                     receipts |-> hub.receipts \cup {j.op}, log |-> Performed(j)]

\* The folder the hub never had, made under its new name.
HubMkdirInstead ==
  /\ eng.pc = "mkdir"
  /\ Answer("ok")
  /\ hub' = [hub EXCEPT !.made = @ \cup {eng.job.to}, !.log = Performed(eng.job)]

HubAnswers ==
  /\ \/ eng.pc = "sent" /\ (HubPut \/ HubDelete \/ HubMkdir \/ HubRmdir \/ HubRenameDir)
     \/ HubMkdirInstead
  /\ UNCHANGED <<disk, store, jobs, session, ghost>>

\* A request or its reply is lost: the drain ends, the job stays.
Lost ==
  /\ eng.pc # "idle" /\ ghost.faults < MaxFaults
  /\ ghost' = [ghost EXCEPT !.faults = @ + 1, !.unanswered = @ \cup Unanswered]
  /\ eng' = Idle /\ jobs' = Retried(jobs)
  /\ UNCHANGED <<disk, store, hub, session>>

(***************************************************************************)
(* The replies.                                                            *)
(***************************************************************************)
Done(s) == store' = s /\ jobs' = Finished(jobs) /\ eng' = Idle /\ UNCHANGED <<disk, ghost>>
Again   == jobs' = Retried(jobs) /\ eng' = Idle /\ UNCHANGED <<disk, store>>

\* reconcile_key after a refused request, its download or conflict upload
\* included (MirrorSync has the steps): the hub's version takes the name, a
\* copy of ours is kept elsewhere.  run_one then removes the job, the one that
\* ensure_job found included.
Refused(d, current) ==
  LET e   == store.entry[d]
      l   == IF e.state \in {"clean", "dirty"} THEN e.sha ELSE Missing
      act == IF PendingMove(d) THEN "Nothing" ELSE R!Decide(l, store.base[d], current).act
      mv(entry, base) == [store EXCEPT !.entry[d] = entry, !.base[d] = base]
      Ends(q, s, f) == jobs' = q /\ store' = s /\ disk' = f
  IN
  /\ eng' = Idle
  /\ ghost' = [ghost EXCEPT
                 !.flaws = @ \cup Flaw("adopted", act = "Adopt" /\ e.state = "tombstone")]
  /\ CASE act = "Nothing" -> Ends(Finished(jobs), store, disk)
       [] act \in {"Pull", "Conflict"} ->
            Ends(WithoutFile(jobs, d),
                 [mv([state |-> "clean", sha |-> current], current) EXCEPT !.dirs = @ \cup {d}],
                 [dirs |-> disk.dirs \cup {d}, file |-> [disk.file EXCEPT ![d] = current]])
       [] act = "Adopt" ->
            Ends(WithoutFile(jobs, d),
                 IF e.state = "none" THEN mv(NoEntry, Missing)
                                     ELSE mv([e EXCEPT !.state = "clean"], e.sha), disk)
       [] act = "Push" ->
            Ends(Finished(EnsureJob(jobs, Job("Push", d))),
                 mv([e EXCEPT !.state = "dirty"], current), disk)
       [] act = "DeleteRemote" ->
            Ends(Finished(EnsureJob(jobs, Job("Delete", d))), store, disk)
       [] act = "TrashLocal" ->
            Ends(WithoutFile(jobs, d), mv(NoEntry, Missing),
                 [disk EXCEPT !.file[d] = Missing])

PushReply ==
  LET d == eng.job.at  l == Landed(d) IN
  /\ eng.job.kind = "Push"
  /\ CASE eng.out = "ok" ->
            LET e == store.entry[l]
                clean == e.sha = eng.sha /\ e.state = "dirty"
            IN Done([store EXCEPT !.base[l] = eng.sha, !.mark[d] = Missing,
                                  !.entry[l].state = IF clean THEN "clean" ELSE e.state])
       [] eng.out = "mismatch" /\ l # d -> Again /\ UNCHANGED ghost
       [] OTHER -> Refused(d, eng.current)

DeleteReply ==
  LET d == eng.job.at  l == Landed(d)
      gone == IF store.entry[l].state = "tombstone" THEN NoEntry ELSE store.entry[l]
  IN
  /\ eng.job.kind = "Delete"
  /\ CASE eng.out \in {"ok", "missing"} ->
            Done([store EXCEPT !.entry[l] = gone, !.base[l] = Missing, !.mark[d] = Missing])
       [] eng.out = "mismatch" /\ l # d ->
            Again /\ ghost' = [ghost EXCEPT !.flaws = @ \cup {"stuck"}]
       [] OTHER -> Refused(d, eng.current)

\* (Slip: every move has a directory on the hub.)
AlwaysHad(d) == FALSE

\* A folder discovered offline can hold nothing but files never pushed: the
\* hub has no directory to move.
NeverHad(d) == store.base[d] = Missing

\* A refused Rmdir is dropped; a directory move never is.
MoveReply ==
  /\ ~IsFileJob(eng.job)
  /\ IF eng.job.kind # "RenameDir" \/ eng.out = "ok" THEN Done(store)
     ELSE IF eng.out = "missing" /\ NeverHad(eng.job.to)
       THEN eng' = [eng EXCEPT !.pc = "mkdir"] /\ UNCHANGED <<disk, store, jobs, ghost>>
       ELSE Again /\ UNCHANGED ghost

Reply ==
  /\ Unlocked /\ eng.pc = "answered"
  /\ PushReply \/ DeleteReply \/ MoveReply
  /\ UNCHANGED <<hub, session>>

Next ==
  \/ User \/ Syscall \/ SyscallFails \/ Commit
  \/ Crash \/ Restart \/ \E d \in Dirs : RecoverJob(d)
  \/ Start \/ HubAnswers \/ Lost \/ Reply

Spec == Init /\ [][Next]_vars

\* The session finishes what it began, the engine runs cycle after cycle, the
\* hub answers; nothing is promised of users, crashes and lost replies.
FairSpec ==
  /\ Spec
  /\ WF_vars(Syscall \/ Commit \/ Restart)
  /\ WF_vars(Start \/ HubAnswers \/ Reply)

(***************************************************************************)
(* Properties.                                                             *)
(***************************************************************************)
\* Between two moves the ledger describes the folder: the live entries are its
\* files, the recorded directories its directories, and what is called clean
\* is what the folder has and what was agreed (finish_directory_move's single
\* transaction, the replies that arrive after it, the recovery).
LedgerMatchesFolder ==
  Unlocked /\ ghost.flaws \subseteq {"stuck"} =>
    /\ store.dirs = disk.dirs
    /\ \A d \in Dirs : LET e == store.entry[d] IN
         /\ e.state \in {"clean", "dirty"} <=> disk.file[d] # Missing
         /\ e.state = "clean" => e.sha = disk.file[d] /\ store.base[d] = disk.file[d]

\* The moves the hub has still to perform, and where they take a name.
Unperformed(q) == {j \in q : /\ j.kind = "RenameDir" /\ j.remote
                             /\ \A i \in DOMAIN hub.log : hub.log[i].op # j.op}
Carried(d) == Along(Unperformed(jobs), d)

\* What the ledger calls synced the hub has, under the name from which the
\* queued moves will bring it here: no re-key, late reply or retry separates a
\* file from its copy (unless Rmdir forgot a move or left a delete behind, or a
\* local-only move took along a job of an earlier directory of its name).
SyncedIsCarried ==
  Unlocked /\ ghost.flaws \cap {"forgot", "stray", "mixed"} = {} =>
    \A d \in Dirs : store.entry[d].state = "clean" =>
      \E k \in Dirs : hub.file[k] = disk.file[d] /\ Carried(k) = d

\* With the queue empty the hub holds the folder's files, each under its name and
\* in its last version.  Left over at most, of a file removed here:
\* what the base ledger names, which the next listing deletes, or a version the
\* hub took from a PUT that was never answered, which the listing brings back.
QueueEmptyMeansSame ==
  /\ Unlocked /\ eng.pc = "idle" /\ ghost.flaws \cap {"forgot", "mixed", "returns", "stray"} = {}
  /\ jobs = {} /\ \A d \in Dirs : ~Unqueued(d)
  => \A d \in Dirs :
      \/ hub.file[d] = disk.file[d]
      \/ disk.file[d] = Missing /\ hub.file[d] \in {store.base[d]} \cup ghost.unanswered

\* The queue runs empty: a move the hub has no directory for, one it performed
\* without an answer, and one a crash cut in two all end (run_job,
\* recover_directory_moves).  Not when Rmdir forgot a move, a local-only move
\* took along a job of an earlier directory of its name, or a delete was refused
\* while the move of its directory waits behind it: it is retried for ever.
Drains == (jobs # {}) ~> (jobs = {} \/ ghost.flaws # {})

\* The hub performs each move of a synced directory once, and in order where
\* they share a name; a move is lost only if Rmdir forgets it (drain_jobs,
\* run_one, the receipts, finish_directory_move).
AsMove(j) == [op |-> j.op, from |-> j.at, to |-> j.to]

OnTheWire == IF eng.pc # "idle" /\ eng.job.kind = "RenameDir" THEN {eng.job} ELSE {}

Pending == Unperformed(jobs \cup OnTheWire)

Relay == INSTANCE MoveRelay WITH
  Names <- Dirs, Ops <- 1..MaxMoves,
  queue <- {AsMove(j) : j \in Pending},
  done <- hub.log, lapsed <- "forgot" \in ghost.flaws

MovesAreRelayed == Relay!Spec
==============================================================================
