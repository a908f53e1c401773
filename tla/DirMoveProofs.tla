---------------------------- MODULE DirMoveProofs ----------------------------
(***************************************************************************)
(* Theorems about DirMove, for any directories and any bounds: its types,  *)
(* and that it implements MoveRelay, so that the hub performs each         *)
(* directory move once and those that share a name in the device's order.  *)
(***************************************************************************)
EXTENDS DirMove, WellFoundedInduction, TLAPS

(***************************************************************************)
(* Numbers.                                                                *)
(***************************************************************************)
LEMMA Least ==
  ASSUME NEW T, T \subseteq Nat, T # {}
  PROVE  \E n \in T : \A m \in T : n <= m
<1> DEFINE Below == {ss \in Nat \X Nat : ss[1] < ss[2]}
<1>1. IsWellFoundedOn(Below, Nat)
  BY NatLessThanWellFounded DEF OpToRel
<1>2. \A x, y \in Nat : <<y, x>> \in Below <=> y < x
  OBVIOUS
<1> HIDE DEF Below
<1>3. PICK n \in T : \A m \in T : ~ (<<m, n>> \in Below)
  BY <1>1, WFMin
<1>4. \A m \in T : ~ (m < n)
  BY <1>2, <1>3
<1> QED BY <1>3, <1>4

LEMMA Greatest ==
  ASSUME NEW S, S \subseteq Nat, S # {}, NEW b \in Nat, \A m \in S : m <= b
  PROVE  \E n \in S : \A m \in S : m <= n
<1> DEFINE T == {n \in Nat : \A m \in S : m <= n}
<1>1. PICK n \in T : \A m \in T : n <= m
  <2>1. b \in T /\ T \subseteq Nat
    OBVIOUS
  <2> HIDE DEF T
  <2> QED BY <2>1, Least
<1>2. n \in S
  <2> SUFFICES ASSUME n \notin S PROVE FALSE
    OBVIOUS
  <2>1. \A m \in S : m \in Nat /\ m < n
    <3> TAKE m \in S
    <3>1. m \in Nat /\ n \in Nat /\ m <= n /\ m # n
      BY <1>1
    <3> QED BY <3>1
  <2>2. PICK m \in S : TRUE
    OBVIOUS
  <2>3. n \in Nat /\ n - 1 \in Nat
    BY <1>1, <2>1, <2>2
  <2>4. n - 1 \in T
    BY <2>1, <2>3
  <2> QED BY <1>1, <2>3, <2>4
<1> QED BY <1>1, <1>2

\* A queue whose numbers have a top, as every finite one has.
Sound(q) == q \subseteq Jobs /\ \E n \in Nat : \A j \in q : j.seq <= n

LEMMA TopOf ==
  ASSUME NEW q, Sound(q)
  PROVE  /\ Top(q) \in Nat /\ \A j \in q : j.seq <= Top(q)
         /\ Top(q) = 0 \/ \E j \in q : Top(q) = j.seq
<1> DEFINE seqs == {j.seq : j \in q} \cup {0}
<1>1. PICK b \in Nat : \A j \in q : j.seq <= b
  BY DEF Sound
<1>2. \A j \in q : j.seq \in Nat
  BY DEF Sound, Jobs
<1>3. seqs \subseteq Nat /\ seqs # {} /\ \A m \in seqs : m <= b
  BY <1>1, <1>2
<1>4. \E n \in seqs : \A m \in seqs : m <= n
  <2> HIDE DEF seqs
  <2> QED BY <1>3, Greatest
<1>5. Top(q) \in seqs /\ \A m \in seqs : m <= Top(q)
  BY <1>4 DEF Top
<1> QED BY <1>3, <1>5

LEMMA SoundParts ==
  ASSUME NEW q, Sound(q), NEW p, p \subseteq q
  PROVE  Sound(p)
BY DEF Sound

LEMMA SoundUnion ==
  ASSUME NEW p, Sound(p), NEW q, Sound(q)
  PROVE  Sound(p \cup q)
<1>1. PICK m \in Nat : \A j \in p : j.seq <= m
  BY DEF Sound
<1>2. PICK n \in Nat : \A j \in q : j.seq <= n
  BY DEF Sound
<1>3. \A j \in p \cup q : j.seq \in Nat
  BY DEF Sound, Jobs
<1>4. \A j \in p \cup q : j.seq <= m + n
  <2> TAKE j \in p \cup q
  <2>1. j.seq \in Nat /\ (j.seq <= m \/ j.seq <= n)
    BY <1>1, <1>2, <1>3
  <2> QED BY <2>1
<1>5. m + n \in Nat
  OBVIOUS
<1> QED BY <1>4, <1>5 DEF Sound

LEMMA SoundOne ==
  ASSUME NEW j \in Jobs
  PROVE  Sound({j})
<1>1. j.seq \in Nat
  BY DEF Jobs
<1> QED BY <1>1 DEF Sound

(***************************************************************************)
(* The queue.                                                              *)
(***************************************************************************)
LEMMA JobIs ==
  ASSUME NEW k \in {"Push", "Delete", "Mkdir", "Rmdir", "RenameDir"}, NEW d \in Dirs
  PROVE  /\ Job(k, d) \in Jobs /\ Job(k, d).kind = k /\ Job(k, d).at = d
         /\ ~Job(k, d).run
BY DirMoveAssumption DEF Job, Jobs

LEMMA BehindIs ==
  ASSUME NEW q, Sound(q), NEW j \in Jobs
  PROVE  /\ Behind(q, j) \in Jobs
         /\ \A k \in q : Overlap(j, k) => k.seq < Behind(q, j).seq
         /\ Behind(q, j).kind = j.kind /\ Behind(q, j).at = j.at /\ Behind(q, j).to = j.to
         /\ Behind(q, j).op = j.op /\ Behind(q, j).applied = j.applied
         /\ Behind(q, j).remote = j.remote /\ Behind(q, j).run = j.run
         /\ Behind(q, j).seq <= Top(q) + 1
<1> DEFINE p == {k \in q : Overlap(j, k)}
<1>1. Sound(p)
  BY SoundParts
<1>2. Top(p) \in Nat /\ \A k \in p : k.seq <= Top(p)
  BY <1>1, TopOf
<1>7. Top(p) <= Top(q)
  <2>1. Top(q) \in Nat /\ \A k \in q : k.seq <= Top(q)
    BY TopOf
  <2>2. Top(p) = 0 \/ \E k \in p : Top(p) = k.seq
    BY <1>1, TopOf
  <2> QED BY <2>1, <2>2
<1>3. \A k \in q : k.seq \in Nat
  BY DEF Sound, Jobs
<1>4. Behind(q, j) = [j EXCEPT !.seq = Top(p) + 1]
  BY DEF Behind
<1> HIDE DEF p
<1>5. Top(p) + 1 \in Nat /\ \A k \in p : k.seq < Top(p) + 1
  <2>1. \A k \in p : k.seq \in Nat
    BY <1>3 DEF p
  <2> QED BY <1>2, <2>1
<1>6. Behind(q, j).seq = Top(p) + 1
  BY <1>4 DEF Jobs
<1>8. Behind(q, j).seq <= Top(q) + 1
  BY <1>2, <1>6, <1>7, TopOf
<1> QED BY <1>4, <1>5, <1>6, <1>8 DEF Jobs, p

MovesOf(q) == {j \in q : j.kind = "RenameDir"}

LEMMA EnqueueIs ==
  ASSUME NEW q, Sound(q), NEW j \in Jobs
  PROVE  /\ Sound(Enqueue(q, j))
         /\ j.kind # "RenameDir" => MovesOf(Enqueue(q, j)) = MovesOf(q)
<1> DEFINE rest == Others(q, j)
<1>1. rest \subseteq q /\ Sound(rest)
  BY SoundParts DEF Others
<1>2. Behind(rest, j) \in Jobs /\ Behind(rest, j).kind = j.kind
  BY <1>1, BehindIs
<1>3. Enqueue(q, j) = rest \cup {Behind(rest, j)}
  BY DEF Enqueue
<1>4. Sound(Enqueue(q, j))
  BY ZenonT(60), <1>1, <1>2, <1>3, SoundUnion, SoundOne
<1>5. j.kind # "RenameDir" => MovesOf(rest) = MovesOf(q)
  BY DEF Others, SameId, MovesOf
<1> QED BY <1>2, <1>3, <1>4, <1>5 DEF MovesOf

LEMMA EnsureIs ==
  ASSUME NEW q, Sound(q), NEW j \in Jobs, j.kind # "RenameDir"
  PROVE  Sound(EnsureJob(q, j)) /\ MovesOf(EnsureJob(q, j)) = MovesOf(q)
BY EnqueueIs DEF EnsureJob

LEMMA PartsAre ==
  ASSUME NEW q, Sound(q), NEW d
  PROVE  /\ Sound(WithoutFile(q, d)) /\ MovesOf(WithoutFile(q, d)) = MovesOf(q)
         /\ Sound(WithoutDir(q, d))
         /\ MovesOf(WithoutDir(q, d)) = {j \in MovesOf(q) : j.at # d}
         /\ Sound(Finished(q)) /\ MovesOf(Finished(q)) = {j \in MovesOf(q) : ~j.run}
<1>1. MovesOf(WithoutFile(q, d)) = MovesOf(q)
  BY DEF WithoutFile, MovesOf, IsFileJob
<1>2. MovesOf(WithoutDir(q, d)) = {j \in MovesOf(q) : j.at # d}
  BY DEF WithoutDir, MovesOf, IsFileJob
<1>3. /\ WithoutFile(q, d) \subseteq q /\ WithoutDir(q, d) \subseteq q
      /\ Finished(q) \subseteq q /\ MovesOf(Finished(q)) = {j \in MovesOf(q) : ~j.run}
  BY DEF WithoutFile, WithoutDir, Finished, MovesOf
<1> QED BY <1>1, <1>2, <1>3, SoundParts

LEMMA RetriedIs ==
  ASSUME NEW q, Sound(q)
  PROVE  /\ Sound(Retried(q))
         /\ MovesOf(Retried(q)) = {[j EXCEPT !.run = FALSE] : j \in MovesOf(q)}
<1>1. \A j \in q : LET k == [j EXCEPT !.run = FALSE]
                   IN k \in Jobs /\ k.seq = j.seq /\ k.kind = j.kind
  BY DEF Sound, Jobs
<1>2. Sound(Retried(q))
  BY <1>1 DEF Sound, Retried
<1> QED BY <1>1, <1>2 DEF Retried, MovesOf

LEMMA ScannedIs ==
  ASSUME NEW q, Sound(q), disk.dirs \subseteq Dirs
  PROVE  Sound(Scanned(q)) /\ MovesOf(Scanned(q)) = MovesOf(q)
<1> DEFINE new  == disk.dirs \ store.dirs
           kept == {j \in q : ~(j.kind = "Mkdir" /\ j.at \in new)}
           made == {Behind(q, Job("Mkdir", d)) : d \in new}
<1>1. Scanned(q) = kept \cup made
  BY DEF Scanned
<1>2. \A j \in made : j \in Jobs /\ j.kind = "Mkdir" /\ j.seq <= Top(q) + 1
  <2> SUFFICES ASSUME NEW d \in new
               PROVE  LET j == Behind(q, Job("Mkdir", d))
                      IN j \in Jobs /\ j.kind = "Mkdir" /\ j.seq <= Top(q) + 1
    OBVIOUS
  <2>1. Job("Mkdir", d) \in Jobs /\ Job("Mkdir", d).kind = "Mkdir"
    BY JobIs
  <2> HIDE DEF new
  <2> QED BY <2>1, BehindIs
<1>3. Top(q) + 1 \in Nat
  BY TopOf
<1> HIDE DEF new, made
<1>4. Sound(made)
  BY <1>2, <1>3 DEF Sound
<1>5. Sound(kept) /\ MovesOf(kept) = MovesOf(q)
  BY SoundParts DEF MovesOf
<1> HIDE DEF kept
<1>6. MovesOf(made) = {}
  BY <1>2 DEF MovesOf
<1>7. MovesOf(kept \cup made) = MovesOf(kept) \cup MovesOf(made)
  BY DEF MovesOf
<1> QED BY <1>1, <1>4, <1>5, <1>6, <1>7, SoundUnion

(***************************************************************************)
(* Where moves take a name.                                                *)
(***************************************************************************)
Walk(moves, d, N, at) ==
  at = [n \in 0..N |-> IF n = 0 THEN d ELSE Hop(moves, n, at[n - 1])]

LEMMA HopIs ==
  ASSUME NEW moves, moves \subseteq Jobs, NEW n, NEW d \in Dirs
  PROVE  Hop(moves, n, d) \in Dirs
<1> DEFINE here == {j \in moves : j.seq = n /\ j.at = d}
<1>1. here # {} => (CHOOSE j \in here : TRUE) \in here
  OBVIOUS
<1>2. \A j \in here : j.to \in Dirs
  BY DEF Jobs
<1> HIDE DEF here
<1>3. here # {} => (CHOOSE j \in here : TRUE).to \in Dirs
  BY <1>1, <1>2
<1> QED BY <1>3 DEF Hop, here

LEMMA WalkExists ==
  ASSUME NEW moves, NEW d, NEW N \in Nat
  PROVE  \E at : Walk(moves, d, N, at)
<1> DEFINE T == {n \in Nat : ~ \E at : Walk(moves, d, n, at)}
<1> SUFFICES ASSUME T # {} PROVE FALSE
  OBVIOUS
<1>1. T \subseteq Nat
  OBVIOUS
<1>2. PICK n \in T : \A m \in T : n <= m
  <2> HIDE DEF T
  <2> QED BY <1>1, Least
<1>3. CASE n = 0
  <2> DEFINE at == [i \in 0..0 |-> d]
  <2>1. at = [i \in 0..0 |-> IF i = 0 THEN d ELSE Hop(moves, i, at[i - 1])]
    OBVIOUS
  <2>2. Walk(moves, d, 0, at)
    BY <2>1 DEF Walk
  <2> QED BY <1>2, <1>3, <2>2
<1>4. CASE n # 0
  <2>1. n - 1 \in Nat /\ n - 1 \notin T
    BY <1>2, <1>4
  <2>2. PICK g : Walk(moves, d, n - 1, g)
    BY <2>1
  <2> DEFINE at == [i \in 0..n |-> IF i = n THEN Hop(moves, n, g[n - 1]) ELSE g[i]]
  <2>3. \A i \in 0..n : at[i] = IF i = 0 THEN d ELSE Hop(moves, i, at[i - 1])
    <3> TAKE i \in 0..n
    <3>1. CASE i = n
      BY <1>2, <1>4, <3>1
    <3>2. CASE i # n
      <4>1. i \in 0..(n - 1)
        BY <1>2, <3>2
      <4>2. g[i] = IF i = 0 THEN d ELSE Hop(moves, i, g[i - 1])
        BY <2>2, <4>1 DEF Walk
      <4>3. i # 0 => i - 1 \in 0..n /\ i - 1 # n
        BY <1>2, <4>1
      <4> QED BY <3>2, <4>2, <4>3
    <3> QED BY <3>1, <3>2
  <2>4. at = [i \in 0..n |-> at[i]]
    OBVIOUS
  <2>5. at = [i \in 0..n |-> IF i = 0 THEN d ELSE Hop(moves, i, at[i - 1])]
    <3> HIDE DEF at
    <3> QED BY <2>3, <2>4
  <2>6. Walk(moves, d, n, at)
    BY <2>5 DEF Walk
  <2> QED BY <1>2, <2>6
<1> QED BY <1>3, <1>4

LEMMA WalkIs ==
  ASSUME NEW moves, moves \subseteq Jobs, NEW d \in Dirs, NEW N \in Nat, NEW at,
         Walk(moves, d, N, at)
  PROVE  \A n \in 0..N : at[n] \in Dirs
<1> DEFINE T == {n \in 0..N : at[n] \notin Dirs}
<1> SUFFICES ASSUME T # {} PROVE FALSE
  OBVIOUS
<1>1. T \subseteq Nat
  OBVIOUS
<1>2. PICK n \in T : \A m \in T : n <= m
  <2> HIDE DEF T
  <2> QED BY <1>1, Least
<1>3. n \in 0..N /\ at[n] = IF n = 0 THEN d ELSE Hop(moves, n, at[n - 1])
  BY <1>2 DEF Walk
<1>4. n # 0 /\ n - 1 \in 0..N /\ n - 1 \notin T
  BY <1>2, <1>3
<1>5. at[n - 1] \in Dirs
  BY <1>4
<1> QED BY <1>2, <1>3, <1>4, <1>5, HopIs

\* A queued move takes a name to a name.
LEMMA AlongIs ==
  ASSUME NEW moves, Sound(moves), NEW d \in Dirs
  PROVE  Along(moves, d) \in Dirs
<1> DEFINE at == CHOOSE at : Walk(moves, d, Top(moves), at)
<1>1. Top(moves) \in Nat
  BY TopOf
<1>2. Walk(moves, d, Top(moves), at)
  BY <1>1, WalkExists
<1>3. Along(moves, d) = at[Top(moves)]
  BY DEF Along, Walk
<1> HIDE DEF at
<1>4. Top(moves) \in 0..Top(moves)
  BY <1>1
<1> QED BY <1>1, <1>2, <1>3, <1>4, WalkIs DEF Sound

(***************************************************************************)
(* The invariant.                                                          *)
(***************************************************************************)
LogOps == {hub.log[i].op : i \in DOMAIN hub.log}

\* Queued moves are numbered in the device's order, and queued in that order
\* where they share a name; the hub has performed no other.
Numbered ==
  /\ \A j \in MovesOf(jobs) : j.op \in 1..ghost.moves
  /\ \A j, k \in MovesOf(jobs) : j.op = k.op => j = k
  /\ \A j, k \in MovesOf(jobs) : Overlap(j, k) /\ j.op < k.op => j.seq < k.seq
  /\ LogOps \subseteq 1..ghost.moves
  /\ hub.receipts \subseteq LogOps

MoveOnWire == eng.pc # "idle" /\ eng.job.kind = "RenameDir"

\* The move on the wire is one of the queue, unless it was performed or
\* forgotten, and the first there on its names.
Wired ==
  MoveOnWire =>
    /\ eng.job.remote /\ eng.job.op \in 1..ghost.moves
    /\ \A j \in MovesOf(jobs) : j.op = eng.job.op =>
         j.at = eng.job.at /\ j.to = eng.job.to /\ j.remote /\ j.applied
    /\ \A j \in MovesOf(jobs) : Overlap(j, eng.job) => eng.job.op <= j.op
    /\ \/ eng.job.op \in LogOps \/ "forgot" \in ghost.flaws
       \/ \E j \in MovesOf(jobs) : j.op = eng.job.op
    /\ eng.pc = "answered" /\ eng.out = "ok" => eng.job.op \in LogOps

Requested ==
  /\ eng.pc # "idle" /\ eng.job.kind = "Push" => eng.sha # Missing
  /\ eng.pc = "mkdir" => eng.job.kind = "RenameDir"
  /\ \A j \in MovesOf(jobs) : j.run => MoveOnWire /\ eng.job.op = j.op

\* A move that is not in the ledger yet is the last one, and the session's.
Intended ==
  /\ session.pc \in {"intent", "renamed"} =>
       session.job \in MovesOf(jobs) /\ ~session.job.applied
  /\ \A j \in MovesOf(jobs) : ~j.applied =>
       session.pc # "idle" /\ j.op = ghost.moves /\ j.op \notin LogOps

MoveInv == TypeOK /\ Sound(jobs) /\ Numbered /\ Wired /\ Requested /\ Intended

LEMMA MoveInit == Init => MoveInv
<1> SUFFICES ASSUME Init PROVE MoveInv
  OBVIOUS
<1> USE DirMoveAssumption DEF Init
<1>1. jobs = {} /\ MovesOf(jobs) = {}
  BY DEF MovesOf
<1>2. eng = Idle /\ eng.pc = "idle" /\ session = NoMove /\ session.pc = "idle"
  BY DEF Idle, NoMove
<1>3. PICK made \in SUBSET {Home} :
        hub = [file |-> disk.file, made |-> made, receipts |-> {}, log |-> <<>>]
  OBVIOUS
<1>4. LogOps = {} /\ hub.receipts = {}
  BY <1>3 DEF LogOps
<1>5. TypeOK
  <2>1. 1 \in Content /\ Missing \in Content /\ Content \subseteq Digest
    BY DEF Content, Digest, Version
  <2>2. disk \in [dirs : SUBSET Dirs, file : [Dirs -> Content]]
    BY <2>1
  <2>3. store \in [entry : [Dirs -> Entry], base : [Dirs -> Digest],
                   mark : [Dirs -> Content], dirs : SUBSET Dirs]
    <3>1. [state |-> "clean", sha |-> 1] \in Entry /\ NoEntry \in Entry
      BY <2>1 DEF Entry, NoEntry
    <3> QED BY <2>1, <3>1
  <2>4. Job("Mkdir", Home) \in Jobs
    BY JobIs
  <2>5. eng \in [pc : {"idle", "sent", "mkdir", "answered"}, job : Jobs, sha : Content,
                 match : Digest, out : {"none", "ok", "missing", "mismatch", "exists"},
                 current : Content]
    BY <1>2, <2>1, <2>4 DEF Idle
  <2>6. session \in [pc : {"idle", "intent", "renamed", "down"}, job : Jobs]
    BY <1>2, <2>4 DEF NoMove
  <2>7. hub \in [file : [Dirs -> Content], made : SUBSET Dirs, receipts : SUBSET (1..MaxMoves),
                 log : Seq([op : 1..MaxMoves, from : Dirs, to : Dirs])]
    BY <1>3, <2>2
  <2>8. ghost \in [moves : 0..MaxMoves, saves : 0..MaxSaves, removals : 0..MaxRemovals,
                   faults : 0..MaxFaults, flaws : SUBSET Flaws, unanswered : SUBSET Version]
    OBVIOUS
  <2> QED BY <1>1, <2>2, <2>3, <2>5, <2>6, <2>7, <2>8 DEF TypeOK
<1>6. Sound(jobs)
  BY <1>1 DEF Sound
<1> QED BY <1>1, <1>2, <1>4, <1>5, <1>6
        DEF MoveInv, Numbered, Wired, MoveOnWire, Requested, Intended

\* What leaves the queued moves, the wire and the session alone.
LEMMA MovesKept ==
  ASSUME MoveInv, MovesOf(jobs') = MovesOf(jobs), UNCHANGED <<eng, session, hub>>,
         ghost'.moves = ghost.moves, ghost.flaws \subseteq ghost'.flaws
  PROVE  Numbered' /\ Wired' /\ Requested' /\ Intended'
<1>1. LogOps' = LogOps
  BY DEF LogOps
<1>2. Numbered'
  BY <1>1 DEF MoveInv, Numbered
<1>3. Wired'
  BY <1>1 DEF MoveInv, Wired, MoveOnWire
<1>4. Requested'
  BY DEF MoveInv, Requested, MoveOnWire
<1>5. Intended'
  BY <1>1 DEF MoveInv, Intended
<1> QED BY <1>2, <1>3, <1>4, <1>5

Disks    == [dirs : SUBSET Dirs, file : [Dirs -> Content]]
Stores   == [entry : [Dirs -> Entry], base : [Dirs -> Digest],
             mark : [Dirs -> Content], dirs : SUBSET Dirs]
Log      == Seq([op : 1..MaxMoves, from : Dirs, to : Dirs])
Hubs     == [file : [Dirs -> Content], made : SUBSET Dirs,
             receipts : SUBSET (1..MaxMoves), log : Log]
Engines  == [pc : {"idle", "sent", "mkdir", "answered"}, job : Jobs, sha : Content,
             match : Digest, out : {"none", "ok", "missing", "mismatch", "exists"},
             current : Content]
Sessions == [pc : {"idle", "intent", "renamed", "down"}, job : Jobs]
Ghosts   == [moves : 0..MaxMoves, saves : 0..MaxSaves, removals : 0..MaxRemovals,
             faults : 0..MaxFaults, flaws : SUBSET Flaws, unanswered : SUBSET Version]

LEMMA TypeIs ==
  TypeOK <=> /\ disk \in Disks /\ store \in Stores /\ jobs \subseteq Jobs
             /\ hub \in Hubs /\ eng \in Engines /\ session \in Sessions
             /\ ghost \in Ghosts
BY Zenon DEF TypeOK, Disks, Stores, Hubs, Log, Engines, Sessions, Ghosts

LEMMA TypeNext ==
  TypeOK' <=> /\ disk' \in Disks /\ store' \in Stores /\ jobs' \subseteq Jobs
              /\ hub' \in Hubs /\ eng' \in Engines /\ session' \in Sessions
              /\ ghost' \in Ghosts
BY Zenon DEF TypeOK, Disks, Stores, Hubs, Log, Engines, Sessions, Ghosts

LEMMA Versions ==
  /\ Missing \in Content /\ 1 \in Content /\ Content \subseteq Digest
  /\ Unhashed \in Digest /\ Version \subseteq Content /\ NoEntry \in Entry
  /\ \A v \in Content : v # Missing => v \in Version
  /\ \A e \in Entry : e.sha \in Digest /\ e = [state |-> e.state, sha |-> e.sha]
  /\ \A s \in {"none", "clean", "dirty", "tombstone"}, v \in Digest :
       [state |-> s, sha |-> v] \in Entry
BY DirMoveAssumption DEF Content, Digest, Version, Entry, NoEntry, Missing, Unhashed

SameMoves == ghost'.moves = ghost.moves /\ ghost'.flaws = ghost.flaws

LEMMA Limits == {MaxMoves, MaxSaves, MaxRemovals, MaxFaults} \subseteq Nat
BY DirMoveAssumption

LEMMA SaveKeeps ==
  ASSUME MoveInv, NEW d \in Dirs, Save(d)
  PROVE  MoveInv'
<1>1. Job("Push", d) \in Jobs /\ Job("Push", d).kind # "RenameDir"
  BY JobIs
<1>2. Sound(jobs') /\ MovesOf(jobs') = MovesOf(jobs)
  BY <1>1, EnqueueIs DEF Save, MoveInv
<1>3. /\ disk \in Disks /\ store \in Stores /\ ghost \in Ghosts
      /\ hub \in Hubs /\ eng \in Engines /\ session \in Sessions
  BY TypeIs DEF MoveInv
<1>4. ghost.saves < MaxSaves /\ ghost' = [ghost EXCEPT !.saves = ghost.saves + 1]
  BY DEF Save
<1>5. ghost' \in Ghosts /\ SameMoves
  BY <1>3, <1>4, Limits DEF Ghosts, SameMoves
<1>6. ghost.saves + 2 \in Content
  BY <1>3, <1>4, Limits DEF Ghosts, Content, Version
<1>7. disk' \in Disks
  BY <1>3, <1>6 DEF Save, Disks
<1>8. store' \in Stores
  BY <1>3, Versions DEF Save, Stores
<1>9. UNCHANGED <<hub, eng, session>>
  BY DEF Save
<1>10. TypeOK'
  BY <1>2, <1>3, <1>5, <1>7, <1>8, <1>9, TypeNext DEF Sound
<1> QED BY <1>2, <1>5, <1>9, <1>10, MovesKept DEF MoveInv, SameMoves

LEMMA UnlinkKeeps ==
  ASSUME MoveInv, NEW d \in Dirs, Unlink(d)
  PROVE  MoveInv'
<1>1. Job("Delete", d) \in Jobs /\ Job("Delete", d).kind # "RenameDir"
  BY JobIs
<1>2. Sound(WithoutFile(jobs, d)) /\ MovesOf(WithoutFile(jobs, d)) = MovesOf(jobs)
  BY PartsAre DEF MoveInv
<1>3. Sound(jobs') /\ MovesOf(jobs') = MovesOf(jobs)
  <2>1. \/ jobs' = jobs
        \/ jobs' = WithoutFile(jobs, d)
        \/ jobs' = Enqueue(WithoutFile(jobs, d), Job("Delete", d))
    BY DEF Unlink
  <2>2. CASE jobs' = jobs
    BY <2>2 DEF MoveInv
  <2>3. CASE jobs' = WithoutFile(jobs, d)
    BY <1>2, <2>3
  <2>4. CASE jobs' = Enqueue(WithoutFile(jobs, d), Job("Delete", d))
    BY <1>1, <1>2, <2>4, EnqueueIs
  <2> QED BY <2>1, <2>2, <2>3, <2>4
<1>4. /\ disk \in Disks /\ store \in Stores /\ ghost \in Ghosts
      /\ hub \in Hubs /\ eng \in Engines /\ session \in Sessions
  BY TypeIs DEF MoveInv
<1>5. /\ ghost.removals < MaxRemovals
      /\ \E f \in SUBSET Flaws :
           ghost' = [ghost EXCEPT !.removals = ghost.removals + 1,
                                  !.flaws = ghost.flaws \cup f]
  BY DEF Unlink, Flaw, Flaws
<1>6. ghost' \in Ghosts /\ ghost'.moves = ghost.moves /\ ghost.flaws \subseteq ghost'.flaws
  <2>1. PICK f \in SUBSET Flaws :
          ghost' = [ghost EXCEPT !.removals = ghost.removals + 1,
                                 !.flaws = ghost.flaws \cup f]
    BY <1>5
  <2>2. ghost.removals + 1 \in 0..MaxRemovals /\ ghost.flaws \cup f \in SUBSET Flaws
    BY <1>4, <1>5, Limits DEF Ghosts
  <2> QED BY <1>4, <2>1, <2>2 DEF Ghosts
<1>7. disk' \in Disks
  <2>1. disk' = [disk EXCEPT !.file[d] = Missing]
    BY DEF Unlink
  <2> QED BY <1>4, <2>1, Versions DEF Disks
<1>8. store' \in Stores
  <2>1. \/ store' = store
        \/ store' = [store EXCEPT !.entry[d].state = "tombstone"]
        \/ store' = [store EXCEPT !.entry[d] = NoEntry, !.base[d] = Missing]
    BY DEF Unlink
  <2>2. CASE store' = store
    BY <1>4, <2>2
  <2>3. CASE store' = [store EXCEPT !.entry[d].state = "tombstone"]
    <3>1. [store.entry[d] EXCEPT !.state = "tombstone"] \in Entry
      BY <1>4 DEF Stores, Entry
    <3>2. store' = [store EXCEPT !.entry[d] = [store.entry[d] EXCEPT !.state = "tombstone"]]
      BY <2>3
    <3> QED BY <1>4, <3>1, <3>2 DEF Stores
  <2>4. CASE store' = [store EXCEPT !.entry[d] = NoEntry, !.base[d] = Missing]
    BY <1>4, <2>4, Versions DEF Stores
  <2> QED BY <2>1, <2>2, <2>3, <2>4
<1>9. UNCHANGED <<hub, eng, session>>
  BY DEF Unlink
<1>10. TypeOK'
  BY <1>3, <1>4, <1>6, <1>7, <1>8, <1>9, TypeNext DEF Sound
<1> QED BY <1>3, <1>6, <1>9, <1>10, MovesKept DEF MoveInv

LEMMA MkdirKeeps ==
  ASSUME MoveInv, NEW d \in Dirs, Mkdir(d)
  PROVE  MoveInv'
<1>1. Job("Mkdir", d) \in Jobs /\ Job("Mkdir", d).kind # "RenameDir"
  BY JobIs
<1>2. Sound(jobs') /\ MovesOf(jobs') = MovesOf(jobs)
  BY <1>1, EnqueueIs DEF Mkdir, MoveInv
<1>3. /\ disk \in Disks /\ store \in Stores /\ ghost \in Ghosts
      /\ hub \in Hubs /\ eng \in Engines /\ session \in Sessions
  BY TypeIs DEF MoveInv
<1>4. ghost.removals < MaxRemovals /\ ghost' = [ghost EXCEPT !.removals = ghost.removals + 1]
  BY DEF Mkdir
<1>5. ghost' \in Ghosts /\ SameMoves
  BY <1>3, <1>4, Limits DEF Ghosts, SameMoves
<1>6. disk' \in Disks /\ store' \in Stores
  BY <1>3 DEF Mkdir, Disks, Stores
<1>7. UNCHANGED <<hub, eng, session>>
  BY DEF Mkdir
<1>8. TypeOK'
  BY <1>2, <1>3, <1>5, <1>6, <1>7, TypeNext DEF Sound
<1> QED BY <1>2, <1>5, <1>7, <1>8, MovesKept DEF MoveInv, SameMoves

LEMMA RecoverJobKeeps ==
  ASSUME MoveInv, NEW d \in Dirs, RecoverJob(d)
  PROVE  MoveInv'
<1>1. Repair(d) \in Jobs /\ Repair(d).kind # "RenameDir"
  BY JobIs DEF Repair
<1>2. Sound(jobs') /\ MovesOf(jobs') = MovesOf(jobs)
  BY <1>1, EnqueueIs DEF RecoverJob, MoveInv
<1>3. /\ disk \in Disks /\ store \in Stores /\ ghost \in Ghosts
      /\ hub \in Hubs /\ eng \in Engines /\ session \in Sessions
  BY TypeIs DEF MoveInv
<1>4. \E f \in SUBSET Flaws : ghost' = [ghost EXCEPT !.flaws = ghost.flaws \cup f]
  BY DEF RecoverJob, Flaw, Flaws
<1>5. ghost' \in Ghosts /\ ghost'.moves = ghost.moves /\ ghost.flaws \subseteq ghost'.flaws
  BY <1>3, <1>4 DEF Ghosts
<1>6. UNCHANGED <<disk, store, hub, eng, session>>
  BY DEF RecoverJob
<1>7. TypeOK'
  BY <1>2, <1>3, <1>5, <1>6, TypeNext DEF Sound
<1> QED BY <1>2, <1>5, <1>6, <1>7, MovesKept DEF MoveInv

LEMMA RmdirKeeps ==
  ASSUME MoveInv, NEW d \in Dirs, Rmdir(d)
  PROVE  MoveInv'
<1> DEFINE rest == WithoutDir(jobs, d)
<1>1. Job("Rmdir", d) \in Jobs /\ Job("Rmdir", d).kind # "RenameDir"
  BY JobIs
<1>2. Sound(rest) /\ MovesOf(rest) = {j \in MovesOf(jobs) : j.at # d}
  BY PartsAre DEF MoveInv
<1>3. jobs' = Enqueue(rest, Job("Rmdir", d))
  BY DEF Rmdir
<1> HIDE DEF rest
<1>4. Sound(jobs') /\ MovesOf(jobs') = {j \in MovesOf(jobs) : j.at # d}
  BY <1>1, <1>2, <1>3, EnqueueIs
<1>5. /\ disk \in Disks /\ store \in Stores /\ ghost \in Ghosts /\ Sound(jobs)
      /\ hub \in Hubs /\ eng \in Engines /\ session \in Sessions
  BY TypeIs DEF MoveInv
<1>6. /\ ghost.removals < MaxRemovals
      /\ ghost' = [ghost EXCEPT !.removals = ghost.removals + 1,
                                !.flaws = ghost.flaws \cup Flaw("forgot", LeftByMove(d, 0))
                                                      \cup Flaw("stray", DeleteStrays(d))]
  BY DEF Rmdir
<1>7. /\ Flaw("forgot", LeftByMove(d, 0)) \in SUBSET Flaws
      /\ Flaw("stray", DeleteStrays(d)) \in SUBSET Flaws
  BY DEF Flaw, Flaws
<1>8. ghost.removals + 1 \in 0..MaxRemovals
  BY <1>5, <1>6, Limits DEF Ghosts
<1>9. /\ ghost' \in Ghosts /\ ghost'.moves = ghost.moves
      /\ ghost'.flaws = ghost.flaws \cup Flaw("forgot", LeftByMove(d, 0))
                                    \cup Flaw("stray", DeleteStrays(d))
  BY <1>5, <1>6, <1>7, <1>8 DEF Ghosts
<1>10. \A j \in MovesOf(jobs) : j.at = d /\ j.remote => "forgot" \in ghost'.flaws
  <2> TAKE j \in MovesOf(jobs)
  <2>1. j \in Moves /\ j.seq >= 0
    BY <1>5 DEF MovesOf, Moves, Sound, Jobs
  <2>2. j.at = d /\ j.remote => LeftByMove(d, 0)
    BY <2>1 DEF LeftByMove
  <2> QED BY <1>9, <2>2 DEF Flaw
<1>11. disk' \in Disks /\ store' \in Stores
  BY <1>5 DEF Rmdir, Disks, Stores
<1>12. UNCHANGED <<hub, eng, session>> /\ session.pc = "idle" /\ LogOps' = LogOps
  BY DEF Rmdir, Unlocked, LogOps
<1>13. TypeOK'
  BY <1>4, <1>5, <1>9, <1>11, <1>12, TypeNext DEF Sound
<1>14. MovesOf(jobs') \subseteq MovesOf(jobs)
  BY <1>4
<1>15. Numbered'
  BY <1>9, <1>12, <1>14 DEF MoveInv, Numbered
<1>16. Wired'
  <2> SUFFICES ASSUME MoveOnWire PROVE Wired'
    BY <1>12 DEF Wired, MoveOnWire
  <2>1. \/ eng.job.op \in LogOps \/ "forgot" \in ghost'.flaws
        \/ \E j \in MovesOf(jobs') : j.op = eng.job.op
    <3>1. CASE eng.job.op \in LogOps \/ "forgot" \in ghost.flaws
      BY <1>9, <3>1
    <3>2. CASE \E j \in MovesOf(jobs) : j.op = eng.job.op
      <4>1. PICK j \in MovesOf(jobs) : j.op = eng.job.op
        BY <3>2
      <4>2. j.remote
        BY <4>1 DEF MoveInv, Wired
      <4> QED BY <1>4, <1>10, <4>1, <4>2
    <3> QED BY <3>1, <3>2 DEF MoveInv, Wired
  <2> QED BY <1>9, <1>12, <1>14, <2>1 DEF MoveInv, Wired, MoveOnWire
<1>17. Requested'
  BY <1>12, <1>14 DEF MoveInv, Requested, MoveOnWire
<1>18. Intended'
  BY <1>9, <1>12, <1>14 DEF MoveInv, Intended
<1> QED BY <1>4, <1>13, <1>15, <1>16, <1>17, <1>18 DEF MoveInv

\* What is put down of a new move.
LEMMA IntentIs ==
  ASSUME MoveInv, NEW from \in Dirs, NEW to \in Dirs, Intend(from, to)
  PROVE  \E m \in Jobs :
           /\ m.kind = "RenameDir" /\ m.at = from /\ m.to = to /\ from # to
           /\ m.op = ghost.moves + 1 /\ ~m.applied /\ ~m.run
           /\ \A k \in jobs : Overlap(m, k) => k.seq < m.seq
           /\ jobs' = jobs \cup {m} /\ session' = [pc |-> "intent", job |-> m]
<1> DEFINE j == [Job("RenameDir", from) EXCEPT !.to = to, !.op = ghost.moves + 1,
                                               !.remote = ~LocalOnly(from)]
           m == Behind(jobs, j)
<1>1. ghost \in Ghosts /\ ghost.moves < MaxMoves
  BY TypeIs DEF MoveInv, Intend
<1>2. ghost.moves + 1 \in 0..MaxMoves
  BY <1>1, Limits DEF Ghosts
<1>3. j \in Jobs
  BY <1>2, DirMoveAssumption DEF Job, Jobs
<1>4. /\ j.kind = "RenameDir" /\ j.at = from /\ j.to = to /\ j.op = ghost.moves + 1
      /\ ~j.applied /\ ~j.run
  BY DEF Job
<1>5. jobs' = jobs \cup {m} /\ session' = [pc |-> "intent", job |-> m] /\ from # to
  BY DEF Intend
<1> HIDE DEF j
<1>6. Sound(jobs)
  BY DEF MoveInv
<1>7. /\ m \in Jobs /\ m.kind = j.kind /\ m.at = j.at /\ m.to = j.to /\ m.op = j.op
      /\ m.applied = j.applied /\ m.run = j.run
      /\ \A k \in jobs : Overlap(j, k) => k.seq < m.seq
  BY <1>3, <1>6, BehindIs
<1> HIDE DEF m
<1>8. \A k \in jobs : Overlap(m, k) => k.seq < m.seq
  BY <1>7 DEF Overlap
<1> QED BY <1>4, <1>5, <1>7, <1>8

LEMMA IntendKeeps ==
  ASSUME MoveInv, NEW from \in Dirs, NEW to \in Dirs, Intend(from, to)
  PROVE  MoveInv'
<1>1. PICK m \in Jobs :
        /\ m.kind = "RenameDir" /\ m.at = from /\ m.to = to /\ from # to
        /\ m.op = ghost.moves + 1 /\ ~m.applied /\ ~m.run
        /\ \A k \in jobs : Overlap(m, k) => k.seq < m.seq
        /\ jobs' = jobs \cup {m} /\ session' = [pc |-> "intent", job |-> m]
  BY IntentIs
<1>2. /\ disk \in Disks /\ store \in Stores /\ ghost \in Ghosts /\ Sound(jobs)
      /\ hub \in Hubs /\ eng \in Engines /\ session \in Sessions
  BY TypeIs DEF MoveInv
<1>3. /\ ghost.moves < MaxMoves /\ ghost' = [ghost EXCEPT !.moves = ghost.moves + 1]
      /\ session.pc = "idle" /\ UNCHANGED <<disk, store, hub, eng>> /\ LogOps' = LogOps
  BY DEF Intend, Unlocked, LogOps
<1>4. /\ ghost' \in Ghosts /\ ghost'.moves = ghost.moves + 1 /\ ghost'.flaws = ghost.flaws
      /\ ghost.moves \in Nat
  BY <1>2, <1>3, Limits DEF Ghosts
<1>5. Sound(jobs')
  BY <1>1, <1>2, SoundOne, SoundUnion
<1>6. session' \in Sessions /\ session'.pc = "intent" /\ session'.job = m
  BY <1>1 DEF Sessions
<1>7. TypeOK'
  BY <1>2, <1>3, <1>4, <1>5, <1>6, TypeNext DEF Sound
<1>8. MovesOf(jobs') = MovesOf(jobs) \cup {m}
  BY <1>1 DEF MovesOf
<1>9. \A j \in MovesOf(jobs) : j.op \in 1..ghost.moves /\ j.op < m.op /\ j \in jobs
  BY <1>1, <1>4 DEF MoveInv, Numbered, MovesOf
<1>10. \A o \in LogOps : o \in 1..ghost.moves /\ o < m.op
  BY <1>1, <1>4 DEF MoveInv, Numbered
<1>11. Numbered'
  <2>1. \A j \in MovesOf(jobs') : j.op \in 1..ghost'.moves
    BY <1>1, <1>4, <1>8, <1>9
  <2>2. \A j, k \in MovesOf(jobs') : j.op = k.op => j = k
    BY <1>1, <1>4, <1>8, <1>9 DEF MoveInv, Numbered
  <2>3. ASSUME NEW j \in MovesOf(jobs'), NEW k \in MovesOf(jobs'), Overlap(j, k),
               j.op < k.op
        PROVE  j.seq < k.seq
    <3>1. j # m
      <4>1. m.op \in Nat
        BY <1>1, <1>4
      <4>2. CASE k = m
        BY <2>3, <4>1, <4>2
      <4>3. CASE k \in MovesOf(jobs)
        <5>1. k.op \in Nat /\ k.op < m.op
          BY <1>4, <1>9, <4>3
        <5> QED BY <2>3, <4>1, <5>1
      <4> QED BY <1>8, <4>2, <4>3
    <3>2. CASE k = m
      BY <1>1, <1>8, <1>9, <2>3, <3>1, <3>2 DEF Overlap
    <3>3. CASE k # m
      BY <1>8, <2>3, <3>1, <3>3 DEF MoveInv, Numbered
    <3> QED BY <3>2, <3>3
  <2>4. LogOps' \subseteq 1..ghost'.moves /\ hub'.receipts \subseteq LogOps'
    BY <1>3, <1>4, <1>10 DEF MoveInv, Numbered
  <2> QED BY <2>1, <2>2, <2>3, <2>4 DEF Numbered
<1>12. Wired'
  <2> SUFFICES ASSUME MoveOnWire PROVE Wired'
    BY <1>3 DEF Wired, MoveOnWire
  <2>1. eng.job.op \in 1..ghost.moves /\ eng.job.op < m.op
    BY <1>1, <1>4 DEF MoveInv, Wired
  <2>2. eng.job.op \in 1..ghost'.moves /\ eng.job.op <= m.op /\ eng.job.op # m.op
    BY <1>1, <1>4, <2>1
  <2>3. /\ eng.job.remote
        /\ \/ eng.job.op \in LogOps \/ "forgot" \in ghost.flaws
           \/ \E j \in MovesOf(jobs') : j.op = eng.job.op
        /\ eng.pc = "answered" /\ eng.out = "ok" => eng.job.op \in LogOps
    BY <1>8 DEF MoveInv, Wired
  <2>4. \A j \in MovesOf(jobs') : j.op = eng.job.op =>
          j.at = eng.job.at /\ j.to = eng.job.to /\ j.remote /\ j.applied
    BY <1>8, <2>2 DEF MoveInv, Wired
  <2>5. \A j \in MovesOf(jobs') : Overlap(j, eng.job) => eng.job.op <= j.op
    BY <1>8, <2>2 DEF MoveInv, Wired
  <2> QED BY <1>3, <1>4, <2>2, <2>3, <2>4, <2>5 DEF Wired
<1>13. Requested'
  BY <1>1, <1>3, <1>8 DEF MoveInv, Requested, MoveOnWire
<1>14. Intended'
  <2>1. \A j \in MovesOf(jobs) : j.applied
    BY <1>3 DEF MoveInv, Intended
  <2>2. m.op \notin LogOps
    BY <1>1, <1>4, <1>10
  <2> QED BY <1>1, <1>3, <1>4, <1>6, <1>8, <2>1, <2>2 DEF Intended
<1> QED BY <1>5, <1>7, <1>11, <1>12, <1>13, <1>14 DEF MoveInv

LEMMA SyscallKeeps ==
  ASSUME MoveInv, Syscall
  PROVE  MoveInv'
<1>1. /\ disk \in Disks /\ store \in Stores /\ ghost \in Ghosts
      /\ hub \in Hubs /\ eng \in Engines /\ session \in Sessions
  BY TypeIs DEF MoveInv
<1>2. /\ session.pc = "intent" /\ disk' = Moved(session.job)
      /\ session' = [session EXCEPT !.pc = "renamed"]
      /\ UNCHANGED <<store, jobs, hub, eng, ghost>> /\ LogOps' = LogOps
  BY DEF Syscall, LogOps
<1>3. session' \in Sessions /\ session'.pc = "renamed" /\ session'.job = session.job
  BY <1>1, <1>2 DEF Sessions
<1>4. disk' \in Disks
  <2>1. session.job.at \in Dirs /\ session.job.to \in Dirs
    BY <1>1 DEF Sessions, Jobs
  <2>2. Rekey(disk.file, Missing, session.job) \in [Dirs -> Content]
    BY <1>1, <2>1, Versions DEF Rekey, Disks
  <2> QED BY <1>1, <1>2, <2>1, <2>2 DEF Moved, Disks
<1>5. TypeOK'
  BY <1>1, <1>2, <1>3, <1>4, TypeIs, TypeNext DEF MoveInv
<1>6. Sound(jobs') /\ Numbered' /\ Wired' /\ Requested'
  BY <1>2 DEF MoveInv, Numbered, Wired, Requested, MoveOnWire
<1>7. Intended'
  BY <1>2, <1>3 DEF MoveInv, Intended
<1> QED BY <1>5, <1>6, <1>7 DEF MoveInv

LEMMA SyscallFailsKeeps ==
  ASSUME MoveInv, SyscallFails
  PROVE  MoveInv'
<1>1. /\ disk \in Disks /\ store \in Stores /\ ghost \in Ghosts /\ Sound(jobs)
      /\ hub \in Hubs /\ eng \in Engines /\ session \in Sessions
  BY TypeIs DEF MoveInv
<1>2. /\ session.pc = "intent" /\ ghost.faults < MaxFaults
      /\ ghost' = [ghost EXCEPT !.faults = ghost.faults + 1]
      /\ jobs' = {j \in jobs : j.op # session.job.op} /\ session' = NoMove
      /\ UNCHANGED <<disk, store, hub, eng>> /\ LogOps' = LogOps
  BY DEF SyscallFails, LogOps
<1>3. ghost' \in Ghosts /\ SameMoves
  BY <1>1, <1>2, Limits DEF Ghosts, SameMoves
<1>4. session' \in Sessions /\ session'.pc = "idle"
  BY <1>2, JobIs, DirMoveAssumption DEF NoMove, Sessions
<1>5. Sound(jobs') /\ MovesOf(jobs') = {j \in MovesOf(jobs) : j.op # session.job.op}
  BY <1>1, <1>2, SoundParts DEF MovesOf
<1>6. TypeOK'
  BY <1>1, <1>2, <1>3, <1>4, <1>5, TypeNext DEF Sound
<1>7. session.job \in MovesOf(jobs) /\ ~session.job.applied
  BY <1>2 DEF MoveInv, Intended
<1>8. Numbered'
  BY <1>2, <1>3, <1>5 DEF MoveInv, Numbered, SameMoves
<1>9. Wired'
  <2>1. MoveOnWire => eng.job.op # session.job.op
    BY <1>7 DEF MoveInv, Wired
  <2> QED BY <1>2, <1>3, <1>5, <2>1 DEF MoveInv, Wired, MoveOnWire, SameMoves
<1>10. Requested'
  BY <1>2, <1>5 DEF MoveInv, Requested, MoveOnWire
<1>11. Intended'
  <2>1. \A j \in MovesOf(jobs') : j.applied
    BY <1>5, <1>7 DEF MoveInv, Intended, Numbered
  <2> QED BY <1>4, <2>1 DEF Intended
<1> QED BY <1>5, <1>6, <1>8, <1>9, <1>10, <1>11 DEF MoveInv

LEMMA RekeyedStoreIs ==
  ASSUME store \in Stores, NEW m \in Jobs
  PROVE  RekeyedStore(m) \in Stores
<1>1. m.at \in Dirs /\ m.to \in Dirs
  BY DEF Jobs
<1>2. Rekey(store.entry, NoEntry, m) \in [Dirs -> Entry]
  BY <1>1, Versions DEF Rekey, Stores
<1>3. Rekey(store.base, Missing, m) \in [Dirs -> Digest]
  BY <1>1, Versions DEF Rekey, Stores
<1> QED BY <1>1, <1>2, <1>3 DEF RekeyedStore, Stores

LEMMA RekeyedJobsAre ==
  ASSUME Sound(jobs), NEW m \in Jobs, m.kind = "RenameDir"
  PROVE  /\ Sound(RekeyedJobs(m))
         /\ MovesOf(RekeyedJobs(m)) =
              {j \in MovesOf(jobs) : j.op # m.op} \cup {[m EXCEPT !.applied = TRUE]}
<1> DEFINE near == {j \in jobs : m.to \in {j.at, j.to}}
           last == Top(near)
           stay == {j \in jobs : ~Follows(j, m) /\ j.op # m.op}
           put(j) == [j EXCEPT !.seq = @ + last, !.at = m.to, !.to = m.to, !.run = FALSE]
           goes == {put(j) : j \in {k \in jobs : Follows(k, m)}}
<1>1. RekeyedJobs(m) = stay \cup {[m EXCEPT !.applied = TRUE]} \cup goes
  BY DEF RekeyedJobs
<1>2. last \in Nat
  BY SoundParts, TopOf
<1> HIDE DEF last
<1>3. Sound(stay) /\ MovesOf(stay) = {j \in MovesOf(jobs) : j.op # m.op}
  <2>1. Sound(stay)
    BY SoundParts
  <2>2. \A j \in jobs : j.kind = "RenameDir" => ~Follows(j, m)
    BY DEF Follows
  <2> QED BY <2>1, <2>2 DEF MovesOf
<1>4. /\ [m EXCEPT !.applied = TRUE] \in Jobs
      /\ [m EXCEPT !.applied = TRUE].kind = "RenameDir"
  BY DEF Jobs
<1>5. \A j \in jobs : /\ put(j) \in Jobs /\ put(j).seq = j.seq + last
                      /\ put(j).kind = j.kind /\ j.seq \in Nat
  <2> TAKE j \in jobs
  <2>1. j \in Jobs /\ j.seq \in Nat /\ m.to \in Dirs
    BY DEF Sound, Jobs
  <2>2. j.seq + last \in Nat
    BY <1>2, <2>1
  <2> QED BY <2>1, <2>2 DEF Jobs
<1> HIDE DEF put
<1>6. Sound(goes) /\ MovesOf(goes) = {}
  <2>1. PICK n \in Nat : \A j \in jobs : j.seq <= n
    BY DEF Sound
  <2>2. \A j \in jobs : put(j).seq <= n + last
    <3> TAKE j \in jobs
    <3>1. j.seq \in Nat /\ j.seq <= n
      BY <1>5, <2>1
    <3> QED BY <1>2, <1>5, <3>1
  <2>3. n + last \in Nat
    BY <1>2
  <2>4. Sound(goes)
    BY <1>5, <2>2, <2>3 DEF Sound
  <2>5. \A j \in jobs : Follows(j, m) => j.kind # "RenameDir"
    BY DEF Follows
  <2> QED BY <1>5, <2>4, <2>5 DEF MovesOf
<1> HIDE DEF stay, goes
<1>7. Sound(RekeyedJobs(m))
  <2>1. Sound({[m EXCEPT !.applied = TRUE]})
    BY <1>4, SoundOne
  <2>2. Sound(stay \cup {[m EXCEPT !.applied = TRUE]})
    BY <1>3, <2>1, SoundUnion
  <2> QED BY <1>1, <1>6, <2>2, SoundUnion
<1>8. MovesOf(RekeyedJobs(m)) =
        MovesOf(stay) \cup {[m EXCEPT !.applied = TRUE]} \cup MovesOf(goes)
  BY <1>1, <1>4 DEF MovesOf
<1> QED BY <1>3, <1>6, <1>7, <1>8

LEMMA CommitKeeps ==
  ASSUME MoveInv, Commit
  PROVE  MoveInv'
<1> DEFINE m == session.job
           n == [m EXCEPT !.applied = TRUE]
<1>1. /\ disk \in Disks /\ store \in Stores /\ ghost \in Ghosts /\ Sound(jobs)
      /\ hub \in Hubs /\ eng \in Engines /\ session \in Sessions
  BY TypeIs DEF MoveInv
<1>2. /\ session.pc = "renamed" /\ store' = RekeyedStore(m) /\ jobs' = RekeyedJobs(m)
      /\ session' = NoMove /\ UNCHANGED <<disk, hub, eng>> /\ LogOps' = LogOps
      /\ \E f \in SUBSET Flaws : ghost' = [ghost EXCEPT !.flaws = ghost.flaws \cup f]
  BY DEF Commit, LogOps, Flaw, Flaws
<1>3. m \in Jobs /\ m \in MovesOf(jobs) /\ m.kind = "RenameDir" /\ ~m.applied
  BY <1>1, <1>2 DEF MoveInv, Intended, MovesOf, Sound
<1>4. ghost' \in Ghosts /\ ghost'.moves = ghost.moves /\ ghost.flaws \subseteq ghost'.flaws
  <2>1. PICK f \in SUBSET Flaws : ghost' = [ghost EXCEPT !.flaws = ghost.flaws \cup f]
    BY <1>2
  <2> QED BY <1>1, <2>1 DEF Ghosts
<1>5. session' \in Sessions /\ session'.pc = "idle"
  BY <1>2, JobIs, DirMoveAssumption DEF NoMove, Sessions
<1>6. /\ n.kind = m.kind /\ n.at = m.at /\ n.to = m.to /\ n.op = m.op /\ n.seq = m.seq
      /\ n.remote = m.remote /\ n.run = m.run /\ n.applied
  BY <1>3 DEF Jobs
<1> HIDE DEF m, n
<1>7. /\ Sound(jobs')
      /\ MovesOf(jobs') = {j \in MovesOf(jobs) : j.op # m.op} \cup {n}
  BY <1>1, <1>2, <1>3, RekeyedJobsAre DEF n
<1>8. store' \in Stores
  BY <1>1, <1>2, <1>3, RekeyedStoreIs
<1>9. TypeOK'
  BY <1>1, <1>2, <1>4, <1>5, <1>7, <1>8, TypeNext DEF Sound
<1>10. Numbered'
  <2>1. \A j \in MovesOf(jobs') : j.op \in 1..ghost'.moves
    BY <1>3, <1>4, <1>6, <1>7 DEF MoveInv, Numbered
  <2>2. \A j, k \in MovesOf(jobs') : j.op = k.op => j = k
    BY <1>6, <1>7 DEF MoveInv, Numbered
  <2>3. \A j, k \in MovesOf(jobs') : Overlap(j, k) /\ j.op < k.op => j.seq < k.seq
    <3>1. \A j \in MovesOf(jobs') : \E i \in MovesOf(jobs) :
            i.at = j.at /\ i.to = j.to /\ i.op = j.op /\ i.seq = j.seq
      BY <1>3, <1>6, <1>7
    <3> QED BY <3>1 DEF MoveInv, Numbered, Overlap
  <2> QED BY <1>2, <1>4, <2>1, <2>2, <2>3 DEF MoveInv, Numbered
<1>11. Wired'
  <2>1. MoveOnWire => eng.job.op # m.op
    BY <1>3 DEF MoveInv, Wired
  <2>2. MoveOnWire /\ Overlap(n, eng.job) => eng.job.op <= n.op
    BY <1>3, <1>6 DEF MoveInv, Wired, Overlap
  <2> SUFFICES ASSUME MoveOnWire PROVE Wired'
    BY <1>2 DEF Wired, MoveOnWire
  <2>3. \A j \in MovesOf(jobs') : Overlap(j, eng.job) => eng.job.op <= j.op
    BY <1>7, <2>2 DEF MoveInv, Wired
  <2>4. \A j \in MovesOf(jobs') : j.op = eng.job.op =>
          j.at = eng.job.at /\ j.to = eng.job.to /\ j.remote /\ j.applied
    BY <1>6, <1>7, <2>1 DEF MoveInv, Wired
  <2>5. \/ eng.job.op \in LogOps \/ "forgot" \in ghost'.flaws
        \/ \E j \in MovesOf(jobs') : j.op = eng.job.op
    BY <1>4, <1>7, <2>1 DEF MoveInv, Wired
  <2> QED BY <1>2, <1>4, <2>3, <2>4, <2>5 DEF MoveInv, Wired
<1>12. Requested'
  <2>1. ~m.run
    BY <1>3 DEF MoveInv, Requested, Wired
  <2> QED BY <1>2, <1>6, <1>7, <2>1 DEF MoveInv, Requested, MoveOnWire
<1>13. Intended'
  <2>1. \A j \in MovesOf(jobs') : j.applied
    BY <1>3, <1>6, <1>7 DEF MoveInv, Intended, Numbered
  <2> QED BY <1>5, <2>1 DEF Intended
<1> QED BY <1>7, <1>9, <1>10, <1>11, <1>12, <1>13 DEF MoveInv

LEMMA IdleIs == Idle \in Engines /\ Idle.pc = "idle" /\ NoMove \in Sessions /\ NoMove.pc = "idle"
<1>1. Job("Mkdir", Home) \in Jobs
  BY JobIs, DirMoveAssumption
<1> QED BY <1>1, Versions DEF Idle, Engines, NoMove, Sessions

\* The request is over and its job stays in the queue.
LEMMA RetriedKeeps ==
  ASSUME MoveInv, jobs' = Retried(jobs), eng' = Idle, hub' = hub,
         ghost'.moves = ghost.moves,
         session' = session \/ session'.pc = "down"
  PROVE  Sound(jobs') /\ Numbered' /\ Wired' /\ Requested' /\ Intended'
<1>1. Sound(jobs) /\ MovesOf(jobs) \subseteq Jobs
  BY DEF MoveInv, Sound, MovesOf
<1>2. /\ Sound(jobs')
      /\ MovesOf(jobs') = {[j EXCEPT !.run = FALSE] : j \in MovesOf(jobs)}
  BY <1>1, RetriedIs
<1>3. eng'.pc = "idle" /\ LogOps' = LogOps
  BY IdleIs DEF LogOps
<1>4. \A j \in Jobs : LET k == [j EXCEPT !.run = FALSE]
                      IN /\ k.at = j.at /\ k.to = j.to /\ k.op = j.op /\ k.seq = j.seq
                         /\ k.applied = j.applied /\ ~k.run /\ (~j.run => k = j)
  BY DEF Jobs
<1>5. \A k \in MovesOf(jobs') : ~k.run /\ \E j \in MovesOf(jobs) :
         /\ j.at = k.at /\ j.to = k.to /\ j.op = k.op /\ j.seq = k.seq
         /\ j.applied = k.applied /\ k = [j EXCEPT !.run = FALSE]
  <2> TAKE k \in MovesOf(jobs')
  <2>1. PICK j \in MovesOf(jobs) : k = [j EXCEPT !.run = FALSE]
    BY <1>2
  <2>2. j \in Jobs
    BY <1>1
  <2> QED BY <1>4, <2>1, <2>2
<1>6. Numbered'
  <2>1. ASSUME NEW j \in MovesOf(jobs'), NEW k \in MovesOf(jobs'), j.op = k.op
        PROVE  j = k
    <3>1. PICK a \in MovesOf(jobs) : a.op = j.op /\ j = [a EXCEPT !.run = FALSE]
      BY <1>5
    <3>2. PICK b \in MovesOf(jobs) : b.op = k.op /\ k = [b EXCEPT !.run = FALSE]
      BY <1>5
    <3>3. a = b
      BY <2>1, <3>1, <3>2 DEF MoveInv, Numbered
    <3> QED BY <3>1, <3>2, <3>3
  <2>2. \A j, k \in MovesOf(jobs') : Overlap(j, k) /\ j.op < k.op => j.seq < k.seq
    BY <1>5 DEF MoveInv, Numbered, Overlap
  <2> QED BY <1>3, <1>5, <2>1, <2>2 DEF MoveInv, Numbered
<1>7. Wired'
  BY <1>3 DEF Wired, MoveOnWire
<1>8. Requested'
  BY <1>3, <1>5 DEF Requested
<1>9. Intended'
  <2>1. \A j \in MovesOf(jobs) : ~j.applied => ~j.run
    BY DEF MoveInv, Requested, Wired
  <2>2. \A j \in MovesOf(jobs) : ~j.applied => j \in MovesOf(jobs')
    BY <1>1, <1>2, <1>4, <2>1
  <2>3. session'.pc \in {"intent", "renamed"} =>
          session'.job \in MovesOf(jobs') /\ ~session'.job.applied
    BY <2>2 DEF MoveInv, Intended
  <2>4. \A k \in MovesOf(jobs') : ~k.applied =>
          session'.pc # "idle" /\ k.op = ghost'.moves /\ k.op \notin LogOps'
    BY <1>3, <1>5 DEF MoveInv, Intended
  <2> QED BY <2>3, <2>4 DEF Intended
<1> QED BY <1>2, <1>6, <1>7, <1>8, <1>9

LEMMA FaultIs ==
  ASSUME MoveInv, ghost.faults < MaxFaults,
         ghost' = [ghost EXCEPT !.faults = @ + 1, !.unanswered = @ \cup Unanswered]
  PROVE  ghost' \in Ghosts /\ SameMoves
<1>1. ghost \in Ghosts /\ eng \in Engines
  BY TypeIs DEF MoveInv
<1>2. Unanswered \subseteq Version
  <2>1. eng.pc # "idle" /\ eng.job.kind = "Push" => eng.sha \in Version
    BY <1>1, Versions DEF MoveInv, Requested, Engines
  <2> QED BY <2>1 DEF Unanswered
<1>3. ghost.faults + 1 \in 0..MaxFaults
  BY <1>1, Limits DEF Ghosts
<1> QED BY <1>1, <1>2, <1>3 DEF Ghosts, SameMoves

LEMMA LostKeeps ==
  ASSUME MoveInv, Lost
  PROVE  MoveInv'
<1>1. /\ disk \in Disks /\ store \in Stores /\ hub \in Hubs /\ session \in Sessions
  BY TypeIs DEF MoveInv
<1>2. ghost' \in Ghosts /\ SameMoves
  BY FaultIs DEF Lost
<1>3. /\ jobs' = Retried(jobs) /\ eng' = Idle /\ UNCHANGED <<disk, store, hub, session>>
  BY DEF Lost
<1>4. Sound(jobs') /\ Numbered' /\ Wired' /\ Requested' /\ Intended'
  BY <1>2, <1>3, RetriedKeeps DEF SameMoves
<1>5. TypeOK'
  BY <1>1, <1>2, <1>3, <1>4, IdleIs, TypeNext DEF Sound
<1> QED BY <1>4, <1>5 DEF MoveInv

LEMMA CrashKeeps ==
  ASSUME MoveInv, Crash
  PROVE  MoveInv'
<1>1. /\ disk \in Disks /\ store \in Stores /\ hub \in Hubs /\ session \in Sessions
  BY TypeIs DEF MoveInv
<1>2. ghost' \in Ghosts /\ SameMoves
  BY FaultIs DEF Crash
<1>3. /\ jobs' = Retried(jobs) /\ eng' = Idle /\ UNCHANGED <<disk, store, hub>>
      /\ session' = [NoMove EXCEPT !.pc = "down"]
  BY DEF Crash
<1>4. session' \in Sessions /\ session'.pc = "down"
  BY <1>3, IdleIs DEF Sessions
<1>5. Sound(jobs') /\ Numbered' /\ Wired' /\ Requested' /\ Intended'
  BY <1>2, <1>3, <1>4, RetriedKeeps DEF SameMoves
<1>6. TypeOK'
  BY <1>1, <1>2, <1>3, <1>4, <1>5, IdleIs, TypeNext DEF Sound
<1> QED BY <1>5, <1>6 DEF MoveInv

LEMMA RestartKeeps ==
  ASSUME MoveInv, Restart
  PROVE  MoveInv'
<1>1. /\ disk \in Disks /\ store \in Stores /\ ghost \in Ghosts /\ Sound(jobs)
      /\ hub \in Hubs /\ eng \in Engines /\ session \in Sessions
  BY TypeIs DEF MoveInv
<1>2. /\ session.pc = "down" /\ jobs' = Scanned(jobs)
      /\ store' = [store EXCEPT !.dirs = @ \cup disk.dirs]
      /\ UNCHANGED <<disk, hub, eng, ghost>> /\ LogOps' = LogOps
  BY DEF Restart, LogOps
<1>3. Sound(jobs') /\ MovesOf(jobs') = MovesOf(jobs)
  BY <1>1, <1>2, ScannedIs DEF Disks
<1>4. store' \in Stores
  BY <1>1, <1>2 DEF Stores, Disks
<1>5. Unapplied = {j \in MovesOf(jobs) : ~j.applied}
  BY DEF Unapplied, Moves, MovesOf
<1>6. /\ session' \in Sessions
      /\ Unapplied # {} => session'.pc # "idle"
      /\ session'.pc \in {"intent", "renamed"} => session'.job \in Unapplied
  <2>1. CASE Unapplied = {}
    <3>1. session' = NoMove
      BY <2>1 DEF Restart
    <3> QED BY <2>1, <3>1, IdleIs
  <2>2. CASE Unapplied # {}
    <3> DEFINE m == CHOOSE j \in Unapplied : TRUE
    <3>1. m \in Unapplied
      BY <2>2
    <3>2. session' = [pc |-> IF m.at \in disk.dirs THEN "intent" ELSE "renamed", job |-> m]
      BY <2>2 DEF Restart
    <3> HIDE DEF m
    <3>3. m \in Jobs
      BY <1>1, <1>5, <3>1 DEF Sound, MovesOf
    <3> QED BY <3>1, <3>2, <3>3 DEF Sessions
  <2> QED BY <2>1, <2>2
<1>7. TypeOK'
  BY <1>1, <1>2, <1>3, <1>4, <1>6, TypeNext DEF Sound
<1>8. Numbered' /\ Wired' /\ Requested'
  BY <1>2, <1>3 DEF MoveInv, Numbered, Wired, Requested, MoveOnWire
<1>9. Intended'
  BY <1>2, <1>3, <1>5, <1>6 DEF MoveInv, Intended
<1> QED BY <1>3, <1>7, <1>8, <1>9 DEF MoveInv

LEMMA LandedIs ==
  ASSUME MoveInv, NEW d \in Dirs
  PROVE  Landed(d) \in Dirs
<1>1. Sound({j \in Moves : j.applied})
  BY SoundParts DEF MoveInv, Moves
<1> QED BY <1>1, AlongIs DEF Landed

LEMMA SendKeeps ==
  ASSUME MoveInv, eng.pc = "idle", NEW j \in jobs, Ready(j),
         j.kind = "RenameDir" => j.applied /\ j.remote,
         NEW sha \in Content, NEW match \in Digest, j.kind = "Push" => sha # Missing,
         Send(j, sha, match), UNCHANGED <<session, hub, ghost>>
  PROVE  /\ eng' \in Engines
         /\ Sound(jobs') /\ Numbered' /\ Wired' /\ Requested' /\ Intended'
<1> DEFINE n == [j EXCEPT !.run = TRUE]
<1>1. /\ jobs' = (jobs \ {j}) \cup {n} /\ LogOps' = LogOps
      /\ eng' = [Idle EXCEPT !.pc = "sent", !.job = j, !.sha = sha, !.match = match]
  BY DEF Send, LogOps
<1>2. Sound(jobs) /\ j \in Jobs
  BY DEF MoveInv, Sound
<1>3. /\ n \in Jobs /\ n.kind = j.kind /\ n.at = j.at /\ n.to = j.to /\ n.op = j.op
      /\ n.seq = j.seq /\ n.remote = j.remote /\ n.applied = j.applied
  BY <1>2 DEF Jobs
<1> HIDE DEF n
<1>4. eng' \in Engines /\ eng'.pc = "sent" /\ eng'.job = j /\ eng'.sha = sha
  BY <1>1, <1>2, IdleIs DEF Engines
<1>5. Sound(jobs')
  <2>1. Sound(jobs \ {j}) /\ Sound({n})
    BY <1>2, <1>3, SoundParts, SoundOne
  <2> QED BY <1>1, <2>1, SoundUnion
<1>6. \A k \in MovesOf(jobs') : \E i \in MovesOf(jobs) :
        /\ i.at = k.at /\ i.to = k.to /\ i.op = k.op /\ i.seq = k.seq
        /\ i.remote = k.remote /\ i.applied = k.applied
        /\ (k = i /\ i # j) \/ (k = n /\ i = j)
  BY <1>1, <1>3 DEF MovesOf
<1>7. \A i \in MovesOf(jobs) : ~i.run
  BY DEF MoveInv, Requested, MoveOnWire
<1>8. \A i \in MovesOf(jobs) \ {j} : i \in MovesOf(jobs')
  BY <1>1 DEF MovesOf
<1>9. Numbered'
  <2>1. ASSUME NEW k \in MovesOf(jobs'), NEW l \in MovesOf(jobs'), k.op = l.op
        PROVE  k = l
    BY <1>6, <2>1 DEF MoveInv, Numbered
  <2>2. \A k, l \in MovesOf(jobs') : Overlap(k, l) /\ k.op < l.op => k.seq < l.seq
    BY <1>6 DEF MoveInv, Numbered, Overlap
  <2>3. \A k \in MovesOf(jobs') : k.op \in 1..ghost'.moves
    BY <1>6 DEF MoveInv, Numbered
  <2>4. LogOps' \subseteq 1..ghost'.moves /\ hub'.receipts \subseteq LogOps'
    BY <1>1 DEF MoveInv, Numbered
  <2> QED BY <2>1, <2>2, <2>3, <2>4 DEF Numbered
<1>10. Wired'
  <2> SUFFICES ASSUME j.kind = "RenameDir" PROVE Wired'
    BY <1>4 DEF Wired, MoveOnWire
  <2>1. j \in MovesOf(jobs) /\ n \in MovesOf(jobs')
    BY <1>1, <1>3 DEF MovesOf
  <2>2. j.op \in 1..ghost.moves
    BY <2>1 DEF MoveInv, Numbered
  <2>3. \A k \in MovesOf(jobs') : k.op = j.op =>
          k.at = j.at /\ k.to = j.to /\ k.remote /\ k.applied
    BY <1>6, <2>1 DEF MoveInv, Numbered
  <2>4. \A k \in MovesOf(jobs') : Overlap(k, j) => j.op <= k.op
    <3> TAKE k \in MovesOf(jobs')
    <3>1. PICK i \in MovesOf(jobs) : i.at = k.at /\ i.to = k.to /\ i.op = k.op
      BY <1>6
    <3>2. Overlap(k, j) => Overlap(i, j)
      BY <3>1 DEF Overlap
    <3>3. Overlap(i, j) => ~(i.seq < j.seq)
      BY <3>1 DEF Ready, MovesOf
    <3>4. Overlap(i, j) => ~(i.op < j.op)
      BY <2>1, <3>1, <3>3 DEF MoveInv, Numbered
    <3>5. i.op \in Nat /\ j.op \in Nat
      BY <2>1, <3>1 DEF MoveInv, Numbered
    <3> QED BY <3>1, <3>2, <3>4, <3>5
  <2>5. n.op = j.op
    BY <1>3
  <2> QED BY <1>4, <2>1, <2>2, <2>3, <2>4, <2>5 DEF Wired
<1>11. Requested'
  <2>1. \A k \in MovesOf(jobs') : k.run => k = n /\ j.kind = "RenameDir"
    BY <1>3, <1>6, <1>7 DEF MovesOf
  <2> QED BY <1>3, <1>4, <2>1 DEF Requested, MoveOnWire
<1>12. Intended'
  <2>1. \A k \in MovesOf(jobs') : ~k.applied => k \in MovesOf(jobs)
    BY <1>3, <1>6 DEF MovesOf
  <2>2. \A i \in MovesOf(jobs) : ~i.applied => i \in MovesOf(jobs')
    BY <1>8 DEF MovesOf
  <2> QED BY <1>1, <2>1, <2>2 DEF MoveInv, Intended
<1> QED BY <1>4, <1>5, <1>9, <1>10, <1>11, <1>12

LEMMA DropKeeps ==
  ASSUME MoveInv, eng.pc = "idle", NEW j \in jobs,
         j.kind = "RenameDir" => j.applied,
         jobs' = jobs \ {j}, UNCHANGED <<session, hub, eng, ghost>>
  PROVE  Sound(jobs') /\ Numbered' /\ Wired' /\ Requested' /\ Intended'
<1>1. Sound(jobs') /\ LogOps' = LogOps
  BY SoundParts DEF MoveInv, LogOps
<1>2. MovesOf(jobs') = MovesOf(jobs) \ {j}
  BY DEF MovesOf
<1>3. Numbered'
  BY <1>1, <1>2 DEF MoveInv, Numbered
<1>4. Wired' /\ Requested'
  BY <1>2 DEF MoveInv, Wired, Requested, MoveOnWire
<1>5. Intended'
  <2>1. session.pc \in {"intent", "renamed"} => session.job \in MovesOf(jobs')
    BY <1>2 DEF MoveInv, Intended, MovesOf
  <2> QED BY <1>1, <1>2, <2>1 DEF MoveInv, Intended
<1> QED BY <1>1, <1>3, <1>4, <1>5

LEMMA StartKeeps ==
  ASSUME MoveInv, Start
  PROVE  MoveInv'
<1>1. PICK j \in jobs : Ready(j) /\ (StartPush(j) \/ StartDelete(j) \/ StartOther(j))
  BY DEF Start
<1>2. eng.pc = "idle" /\ UNCHANGED <<disk, hub, session, ghost>>
  BY DEF Start
<1>3. /\ disk \in Disks /\ store \in Stores /\ ghost \in Ghosts
      /\ hub \in Hubs /\ eng \in Engines /\ session \in Sessions
  BY TypeIs DEF MoveInv
<1>4. j.at \in Dirs
  BY DEF MoveInv, Sound, Jobs
<1>5. /\ eng' \in Engines /\ store' \in Stores
      /\ Sound(jobs') /\ Numbered' /\ Wired' /\ Requested' /\ Intended'
  <2>1. CASE StartPush(j)
    <3> DEFINE d == j.at
    <3>1. CASE store.entry[d].state # "dirty" \/ PendingMove(d)
      <4>1. j.kind = "Push" /\ jobs' = jobs \ {j} /\ UNCHANGED <<store, eng>>
        BY <2>1, <3>1 DEF StartPush
      <4> QED BY <1>2, <1>3, <4>1, DropKeeps
    <3>2. CASE ~(store.entry[d].state # "dirty" \/ PendingMove(d))
      <4>1. /\ j.kind = "Push" /\ Snapshot(d) # Missing
            /\ Send(j, Snapshot(d), store.base[d])
            /\ store' = [store EXCEPT !.entry[d].sha = Snapshot(d), !.mark[d] = Snapshot(d)]
        BY <2>1, <3>2 DEF StartPush
      <4>2. Snapshot(d) \in Content /\ store.base[d] \in Digest
        BY <1>3, <1>4 DEF Snapshot, Disks, Stores
      <4>3. store' \in Stores
        <5>1. store.entry[d] \in Entry
          BY <1>3, <1>4 DEF Stores
        <5>2. [store.entry[d] EXCEPT !.sha = Snapshot(d)] \in Entry
          BY <4>2, <5>1, Versions DEF Entry
        <5> HIDE DEF d
        <5>3. [store.entry EXCEPT ![d].sha = Snapshot(d)] \in [Dirs -> Entry]
          BY <1>3, <5>2 DEF Stores
        <5>4. [store.mark EXCEPT ![d] = Snapshot(d)] \in [Dirs -> Content]
          BY <1>3, <4>2 DEF Stores
        <5> QED BY <1>3, <4>1, <5>3, <5>4 DEF Stores
      <4> HIDE DEF d
      <4> QED BY <1>1, <1>2, <4>1, <4>2, <4>3, SendKeeps
    <3> QED BY <3>1, <3>2
  <2>2. CASE StartDelete(j)
    <3>1. j.kind = "Delete"
      BY <2>2 DEF StartDelete
    <3>2. Landed(j.at) \in Dirs
      BY <1>4, LandedIs
    <3>3. CASE Expected(j.at) = Missing
      <4>1. jobs' = jobs \ {j} /\ eng' = eng
        BY <2>2, <3>3 DEF StartDelete
      <4>2. store' = store \/ store' = [store EXCEPT !.entry[Landed(j.at)] = NoEntry]
        BY <2>2, <3>3 DEF StartDelete
      <4>3. store' \in Stores
        BY <1>3, <4>2, Versions DEF Stores
      <4> QED BY <1>2, <1>3, <3>1, <4>1, <4>3, DropKeeps
    <3>4. CASE Expected(j.at) # Missing
      <4>1. Send(j, Missing, Expected(j.at)) /\ store' = store
        BY <2>2, <3>4 DEF StartDelete
      <4>2. Expected(j.at) \in Digest
        BY <1>3, <1>4, <3>2, Versions DEF Expected, Stores
      <4> QED BY <1>1, <1>2, <1>3, <3>1, <4>1, <4>2, SendKeeps, Versions
    <3> QED BY <3>3, <3>4
  <2>3. CASE StartOther(j)
    <3>1. /\ j.kind \notin {"Push", "Delete"} /\ store' = store
          /\ j.kind = "RenameDir" => j.applied
      BY <2>3 DEF StartOther, IsFileJob
    <3>2. CASE j.remote
      <4>1. Send(j, Missing, Missing)
        BY <2>3, <3>2 DEF StartOther
      <4>2. Missing \in Content /\ Missing \in Digest
        BY Versions
      <4> QED BY <1>1, <1>2, <1>3, <3>1, <3>2, <4>1, <4>2, SendKeeps
    <3>3. CASE ~j.remote
      <4>1. jobs' = jobs \ {j} /\ eng' = eng
        BY <2>3, <3>3 DEF StartOther
      <4> QED BY <1>2, <1>3, <3>1, <4>1, DropKeeps
    <3> QED BY <3>2, <3>3
  <2> QED BY <1>1, <2>1, <2>2, <2>3
<1>6. TypeOK'
  BY <1>2, <1>3, <1>5, TypeNext DEF Sound
<1> QED BY <1>5, <1>6 DEF MoveInv

LEMMA PerformedIs ==
  ASSUME hub.log \in Log, NEW j \in Jobs, j.op \in 1..MaxMoves
  PROVE  /\ Performed(j) \in Log
         /\ j.op \in LogOps => Performed(j) = hub.log
         /\ j.op \notin LogOps =>
              Performed(j) = Append(hub.log, [op |-> j.op, from |-> j.at, to |-> j.to])
         /\ {Performed(j)[i].op : i \in DOMAIN Performed(j)} = LogOps \cup {j.op}
<1> DEFINE m == [op |-> j.op, from |-> j.at, to |-> j.to]
<1>1. j.op \in LogOps <=> \E i \in DOMAIN hub.log : hub.log[i].op = j.op
  BY DEF LogOps
<1>2. j.op \in LogOps => Performed(j) = hub.log
  BY <1>1 DEF Performed
<1>3. j.op \notin LogOps => Performed(j) = Append(hub.log, m)
  BY <1>1 DEF Performed
<1>4. m \in [op : 1..MaxMoves, from : Dirs, to : Dirs] /\ m.op = j.op
  BY DEF Jobs
<1> HIDE DEF m
<1>5. CASE j.op \in LogOps
  BY <1>2, <1>5 DEF LogOps
<1>6. CASE j.op \notin LogOps
  <2> DEFINE new == Append(hub.log, m)
             n   == Len(hub.log)
  <2>1. /\ new \in Log /\ n \in Nat /\ DOMAIN hub.log = 1..n /\ DOMAIN new = 1..n + 1
        /\ new[n + 1] = m /\ \A i \in 1..n : new[i] = hub.log[i]
    BY <1>4 DEF Log
  <2> HIDE DEF new, n
  <2>2. {new[i].op : i \in DOMAIN new} \subseteq LogOps \cup {j.op}
    <3> SUFFICES ASSUME NEW i \in 1..n + 1 PROVE new[i].op \in LogOps \cup {j.op}
      BY <2>1
    <3>1. CASE i = n + 1
      BY <1>4, <2>1, <3>1
    <3>2. CASE i # n + 1
      <4>1. i \in 1..n
        BY <2>1, <3>2
      <4> QED BY <2>1, <4>1 DEF LogOps
    <3> QED BY <3>1, <3>2
  <2>3. LogOps \cup {j.op} \subseteq {new[i].op : i \in DOMAIN new}
    <3>1. n + 1 \in DOMAIN new /\ \A i \in 1..n : i \in DOMAIN new
      BY <2>1
    <3>2. \A o \in LogOps : \E i \in 1..n : new[i].op = o
      BY <2>1 DEF LogOps
    <3> QED BY <1>4, <2>1, <3>1, <3>2
  <2>4. Performed(j) = new
    BY <1>3, <1>6 DEF new
  <2>5. {new[i].op : i \in DOMAIN new} = LogOps \cup {j.op}
    BY <2>2, <2>3
  <2> QED BY <1>3, <1>6, <2>1, <2>4, <2>5 DEF m
<1> QED BY <1>5, <1>6

LEMMA AnswerKeeps ==
  ASSUME MoveInv, eng.pc # "idle",
         NEW out \in {"ok", "missing", "mismatch", "exists"}, Answer(out),
         UNCHANGED <<disk, store, jobs, session, ghost>>,
         hub' \in Hubs, hub'.receipts \subseteq LogOps',
         \/ LogOps' = LogOps /\ (MoveOnWire /\ out = "ok" => eng.job.op \in LogOps)
         \/ LogOps' = LogOps \cup {eng.job.op} /\ MoveOnWire
  PROVE  MoveInv'
<1>1. /\ disk \in Disks /\ store \in Stores /\ ghost \in Ghosts
      /\ hub \in Hubs /\ eng \in Engines /\ session \in Sessions
  BY TypeIs DEF MoveInv
<1>2. /\ eng' \in Engines /\ eng'.pc = "answered" /\ eng'.out = out
      /\ eng'.job = eng.job /\ eng'.sha = eng.sha
  <2>1. hub.file[eng.job.at] \in Content /\ Missing \in Content
    BY <1>1, Versions DEF Engines, Jobs, Hubs
  <2> QED BY <1>1, <2>1 DEF Answer, Engines
<1>3. MoveOnWire' = MoveOnWire
  BY <1>2 DEF MoveOnWire
<1>4. TypeOK' /\ Sound(jobs')
  BY <1>1, <1>2, TypeIs, TypeNext DEF MoveInv
<1>5. MoveOnWire => eng.job.op \in 1..ghost.moves
  BY DEF MoveInv, Wired
<1>6. Numbered'
  BY <1>5 DEF MoveInv, Numbered
<1>7. Wired'
  BY <1>2, <1>3 DEF MoveInv, Wired
<1>8. Requested'
  BY <1>2, <1>3 DEF MoveInv, Requested
<1>9. Intended'
  <2>1. \A j \in MovesOf(jobs) : ~j.applied /\ MoveOnWire => j.op # eng.job.op
    BY DEF MoveInv, Wired
  <2> QED BY <2>1 DEF MoveInv, Intended
<1> QED BY <1>4, <1>6, <1>7, <1>8, <1>9 DEF MoveInv

LEMMA HubKeeps ==
  ASSUME MoveInv, HubAnswers
  PROVE  MoveInv'
<1>1. hub \in Hubs /\ eng \in Engines /\ hub.log \in Log
  BY TypeIs DEF MoveInv, Hubs
<1>2. UNCHANGED <<disk, store, jobs, session, ghost>>
  BY DEF HubAnswers
<1>3. /\ eng.job \in Jobs /\ eng.job.at \in Dirs /\ eng.job.to \in Dirs
      /\ eng.sha \in Content
  BY <1>1 DEF Engines, Jobs
<1>4. hub.receipts \subseteq LogOps
  BY DEF MoveInv, Numbered
<1>5. ASSUME eng.pc = "sent", HubPut \/ HubDelete \/ HubMkdir \/ HubRmdir
      PROVE  MoveInv'
  <2>1. ~MoveOnWire
    BY <1>5 DEF HubPut, HubDelete, HubMkdir, HubRmdir, MoveOnWire
  <2>2. \E out \in {"ok", "missing", "mismatch", "exists"} : Answer(out)
    BY <1>5 DEF HubPut, HubDelete, HubMkdir, HubRmdir
  <2>3. \/ hub' = hub
        \/ hub' = [hub EXCEPT !.file[eng.job.at] = eng.sha]
        \/ hub' = [hub EXCEPT !.file[eng.job.at] = Missing]
        \/ hub' = [hub EXCEPT !.made = @ \cup {eng.job.at}]
        \/ hub' = [hub EXCEPT !.made = @ \ {eng.job.at}]
    BY <1>5 DEF HubPut, HubDelete, HubMkdir, HubRmdir
  <2>4. hub' \in Hubs /\ hub'.log = hub.log /\ hub'.receipts = hub.receipts
    BY <1>1, <1>3, <2>3, Versions DEF Hubs
  <2>5. LogOps' = LogOps
    BY <2>4 DEF LogOps
  <2> QED BY <1>2, <1>4, <1>5, <2>1, <2>2, <2>4, <2>5, AnswerKeeps
<1>6. ASSUME eng.pc = "sent", HubRenameDir
      PROVE  MoveInv'
  <2>1. MoveOnWire /\ eng.job.op \in 1..MaxMoves
    <3>1. MoveOnWire
      BY <1>6 DEF MoveOnWire, HubRenameDir
    <3>2. eng.job.op \in 1..ghost.moves /\ eng.job.op \in 0..MaxMoves
      BY <1>3, <3>1 DEF MoveInv, Wired, Jobs
    <3>3. ghost.moves \in Nat
      BY TypeIs, Limits DEF MoveInv, Ghosts
    <3> QED BY <3>1, <3>2, <3>3, Limits
  <2>2. CASE hub' = hub
    <3>1. \E out \in {"ok", "missing", "mismatch", "exists"} :
            Answer(out) /\ (out = "ok" => eng.job.op \in hub.receipts)
      BY <1>6, <2>2 DEF HubRenameDir
    <3>2. LogOps' = LogOps
      BY <2>2 DEF LogOps
    <3> QED BY <1>1, <1>2, <1>4, <1>6, <2>2, <3>1, <3>2, AnswerKeeps
  <2>3. CASE hub' # hub
    <3>1. /\ Answer("ok")
          /\ hub' = [file |-> Rekey(hub.file, Missing, eng.job),
                     made |-> IF eng.job.at \in hub.made
                                THEN (hub.made \ {eng.job.at}) \cup {eng.job.to}
                                ELSE hub.made,
                     receipts |-> hub.receipts \cup {eng.job.op},
                     log |-> Performed(eng.job)]
      BY <1>6, <2>3 DEF HubRenameDir
    <3>2. Rekey(hub.file, Missing, eng.job) \in [Dirs -> Content]
      BY <1>1, <1>3, Versions DEF Rekey, Hubs
    <3>3. /\ Performed(eng.job) \in Log
          /\ {Performed(eng.job)[i].op : i \in DOMAIN Performed(eng.job)}
               = LogOps \cup {eng.job.op}
      BY <1>1, <1>3, <2>1, PerformedIs
    <3>4. hub' \in Hubs
      BY <1>1, <1>3, <2>1, <3>1, <3>2, <3>3 DEF Hubs
    <3>5. LogOps' = LogOps \cup {eng.job.op}
      BY <3>1, <3>3 DEF LogOps
    <3>6. hub'.receipts \subseteq LogOps'
      BY <1>4, <3>1, <3>5
    <3> QED BY <1>2, <1>6, <2>1, <3>1, <3>4, <3>5, <3>6, AnswerKeeps
  <2> QED BY <2>2, <2>3
<1>7. ASSUME HubMkdirInstead
      PROVE  MoveInv'
  <2>1. /\ eng.pc = "mkdir" /\ Answer("ok")
        /\ hub' = [hub EXCEPT !.made = @ \cup {eng.job.to}, !.log = Performed(eng.job)]
    BY <1>7 DEF HubMkdirInstead
  <2>2. MoveOnWire /\ eng.job.op \in 1..MaxMoves
    <3>1. MoveOnWire
      BY <2>1 DEF MoveOnWire, MoveInv, Requested
    <3>2. eng.job.op \in 1..ghost.moves /\ eng.job.op \in 0..MaxMoves
      BY <1>3, <3>1 DEF MoveInv, Wired, Jobs
    <3>3. ghost.moves \in Nat
      BY TypeIs, Limits DEF MoveInv, Ghosts
    <3> QED BY <3>1, <3>2, <3>3, Limits
  <2>3. /\ Performed(eng.job) \in Log
        /\ {Performed(eng.job)[i].op : i \in DOMAIN Performed(eng.job)}
             = LogOps \cup {eng.job.op}
    BY <1>1, <1>3, <2>2, PerformedIs
  <2>4. /\ hub' \in Hubs /\ hub'.receipts = hub.receipts /\ hub'.log = Performed(eng.job)
    BY <1>1, <1>3, <2>1, <2>3 DEF Hubs
  <2>5. LogOps' = LogOps \cup {eng.job.op}
    BY <2>3, <2>4 DEF LogOps
  <2> QED BY <1>2, <1>4, <2>1, <2>2, <2>4, <2>5, AnswerKeeps
<1> QED BY <1>5, <1>6, <1>7 DEF HubAnswers

\* The request is over, and the queue has lost no move but the one it was for.
LEMMA IdleKeeps ==
  ASSUME MoveInv, session.pc = "idle", eng' = Idle, UNCHANGED <<hub, session>>,
         ghost'.moves = ghost.moves, Sound(jobs'),
         MovesOf(jobs') \subseteq {j \in MovesOf(jobs) : ~j.run}
  PROVE  Numbered' /\ Wired' /\ Requested' /\ Intended'
<1>1. LogOps' = LogOps /\ eng'.pc = "idle"
  BY IdleIs DEF LogOps
<1>2. \A j \in MovesOf(jobs') : j \in MovesOf(jobs) /\ ~j.run
  OBVIOUS
<1>3. Numbered'
  BY <1>1, <1>2 DEF MoveInv, Numbered
<1>4. Wired' /\ Requested'
  BY <1>1, <1>2 DEF Wired, Requested, MoveOnWire
<1>5. Intended'
  BY <1>1, <1>2 DEF MoveInv, Intended
<1> QED BY <1>3, <1>4, <1>5

LEMMA DecideIs ==
  ASSUME NEW l, NEW b, NEW r
  PROVE  R!Decide(l, b, r).act \in {"Nothing", "Push", "DeleteRemote", "Pull",
                                    "TrashLocal", "Adopt", "Conflict"}
BY DEF R!Decide, R!OneSideChanged, R!BothSidesChanged, R!Action

LEMMA RefusedIs ==
  ASSUME MoveInv, NEW d \in Dirs, NEW current \in Content, Refused(d, current)
  PROVE  /\ eng' = Idle /\ disk' \in Disks /\ store' \in Stores /\ Sound(jobs')
         /\ \E new \in SUBSET {"adopted"} : ghost' = [ghost EXCEPT !.flaws = @ \cup new]
         /\ \/ MovesOf(jobs') = MovesOf(jobs)
            \/ MovesOf(jobs') = {j \in MovesOf(jobs) : ~j.run}
<1> DEFINE e   == store.entry[d]
           l   == IF e.state \in {"clean", "dirty"} THEN e.sha ELSE Missing
           act == IF PendingMove(d) THEN "Nothing" ELSE R!Decide(l, store.base[d], current).act
           mv(entry, base) == [store EXCEPT !.entry[d] = entry, !.base[d] = base]
<1>1. /\ disk \in Disks /\ store \in Stores /\ Sound(jobs)
  BY TypeIs DEF MoveInv
<1>2. /\ eng' = Idle
      /\ \E new \in SUBSET {"adopted"} : ghost' = [ghost EXCEPT !.flaws = @ \cup new]
  <2>1. /\ eng' = Idle
        /\ ghost' = [ghost EXCEPT
                       !.flaws = @ \cup Flaw("adopted", act = "Adopt" /\ e.state = "tombstone")]
    BY DEF Refused
  <2>2. Flaw("adopted", act = "Adopt" /\ e.state = "tombstone") \in SUBSET {"adopted"}
    BY DEF Flaw
  <2> QED BY <2>1, <2>2
<1>3. act \in {"Nothing", "Push", "DeleteRemote", "Pull", "TrashLocal", "Adopt", "Conflict"}
  BY SMTT(60), DecideIs
<1>4. (CASE act = "Nothing" -> jobs' = Finished(jobs) /\ store' = store /\ disk' = disk
        [] act \in {"Pull", "Conflict"} ->
             /\ jobs' = WithoutFile(jobs, d)
             /\ store' = [mv([state |-> "clean", sha |-> current], current)
                            EXCEPT !.dirs = @ \cup {d}]
             /\ disk' = [dirs |-> disk.dirs \cup {d},
                         file |-> [disk.file EXCEPT ![d] = current]]
        [] act = "Adopt" ->
             /\ jobs' = WithoutFile(jobs, d)
             /\ store' = IF e.state = "none" THEN mv(NoEntry, Missing)
                                             ELSE mv([e EXCEPT !.state = "clean"], e.sha)
             /\ disk' = disk
        [] act = "Push" ->
             /\ jobs' = Finished(EnsureJob(jobs, Job("Push", d)))
             /\ store' = mv([e EXCEPT !.state = "dirty"], current) /\ disk' = disk
        [] act = "DeleteRemote" ->
             /\ jobs' = Finished(EnsureJob(jobs, Job("Delete", d)))
             /\ store' = store /\ disk' = disk
        [] act = "TrashLocal" ->
             /\ jobs' = WithoutFile(jobs, d) /\ store' = mv(NoEntry, Missing)
             /\ disk' = [disk EXCEPT !.file[d] = Missing])
  BY DEF Refused
<1>5. e \in Entry
  BY <1>1 DEF Stores
<1> HIDE DEF act, e
<1>6. \A entry \in Entry, base \in Digest : mv(entry, base) \in Stores
  BY <1>1 DEF Stores
<1>7. /\ Sound(Finished(jobs)) /\ Sound(WithoutFile(jobs, d))
      /\ MovesOf(Finished(jobs)) = {j \in MovesOf(jobs) : ~j.run}
      /\ MovesOf(WithoutFile(jobs, d)) = MovesOf(jobs)
  BY <1>1, PartsAre
<1>8. \A k \in {"Push", "Delete"} :
        /\ Sound(Finished(EnsureJob(jobs, Job(k, d))))
        /\ MovesOf(Finished(EnsureJob(jobs, Job(k, d)))) = {j \in MovesOf(jobs) : ~j.run}
  <2> TAKE k \in {"Push", "Delete"}
  <2>1. Job(k, d) \in Jobs /\ Job(k, d).kind # "RenameDir"
    BY JobIs
  <2>2. Sound(EnsureJob(jobs, Job(k, d))) /\ MovesOf(EnsureJob(jobs, Job(k, d))) = MovesOf(jobs)
    BY <1>1, <2>1, EnsureIs
  <2> QED BY <2>2, PartsAre
<1>9. current \in Digest /\ Missing \in Digest /\ NoEntry \in Entry
  BY Versions
<1>10. \A s \in {"clean", "dirty"} : [e EXCEPT !.state = s] \in Entry
  BY <1>5 DEF Entry
<1>11. e.sha \in Digest /\ [state |-> "clean", sha |-> current] \in Entry
  BY <1>5, <1>9 DEF Entry
<1>12. CASE act = "Nothing"
  BY <1>1, <1>2, <1>4, <1>7, <1>12
<1>13. CASE act \in {"Pull", "Conflict"}
  <2>1. /\ jobs' = WithoutFile(jobs, d)
        /\ store' = [mv([state |-> "clean", sha |-> current], current)
                       EXCEPT !.dirs = @ \cup {d}]
        /\ disk' = [dirs |-> disk.dirs \cup {d}, file |-> [disk.file EXCEPT ![d] = current]]
    BY <1>4, <1>13
  <2>2. mv([state |-> "clean", sha |-> current], current) \in Stores
    BY <1>6, <1>9, <1>11
  <2> HIDE DEF mv
  <2>3. store' \in Stores
    BY <2>1, <2>2 DEF Stores
  <2>4. disk' \in Disks
    BY <1>1, <2>1 DEF Disks
  <2> QED BY <1>2, <1>7, <2>1, <2>3, <2>4
<1> HIDE DEF mv
<1>14. CASE act = "Adopt"
  <2>1. store' = mv(NoEntry, Missing) \/ store' = mv([e EXCEPT !.state = "clean"], e.sha)
    BY <1>4, <1>14
  <2>2. store' \in Stores
    BY <1>6, <1>9, <1>10, <1>11, <2>1
  <2> QED BY <1>1, <1>2, <1>4, <1>7, <1>14, <2>2
<1>15. CASE act = "Push"
  <2>1. mv([e EXCEPT !.state = "dirty"], current) \in Stores
    BY <1>6, <1>9, <1>10
  <2> QED BY <1>1, <1>2, <1>4, <1>8, <1>15, <2>1
<1>16. CASE act = "DeleteRemote"
  BY <1>1, <1>2, <1>4, <1>8, <1>16
<1>17. CASE act = "TrashLocal"
  <2>1. mv(NoEntry, Missing) \in Stores
    BY <1>6, <1>9
  <2>2. [disk EXCEPT !.file[d] = Missing] \in Disks
    BY <1>1, Versions DEF Disks
  <2> QED BY <1>2, <1>4, <1>7, <1>17, <2>1, <2>2
<1> QED BY <1>3, <1>12, <1>13, <1>14, <1>15, <1>16, <1>17

\* A reply settles the request's job or leaves it for another attempt.
LEMMA ReplyIs ==
  ASSUME MoveInv, Reply
  PROVE  /\ eng.pc = "answered" /\ session.pc = "idle" /\ UNCHANGED <<hub, session>>
         /\ disk' \in Disks /\ store' \in Stores /\ ghost' \in Ghosts
         /\ ghost'.moves = ghost.moves
         /\ ghost.flaws \subseteq ghost'.flaws /\ ("forgot" \in ghost'.flaws => "forgot" \in ghost.flaws)
         /\ \/ eng' = Idle /\ jobs' = Retried(jobs)
            \/ /\ eng' = Idle /\ Sound(jobs')
               /\ MoveOnWire => eng.job.op \in LogOps
               /\ MovesOf(jobs') = {j \in MovesOf(jobs) : ~j.run}
            \/ eng' = [eng EXCEPT !.pc = "mkdir"] /\ jobs' = jobs /\ MoveOnWire
<1> DEFINE MoreFlaws == \E new \in SUBSET {"adopted", "stuck"} :
                         ghost' = [ghost EXCEPT !.flaws = @ \cup new]
<1>1. /\ disk \in Disks /\ store \in Stores /\ ghost \in Ghosts /\ Sound(jobs)
      /\ hub \in Hubs /\ eng \in Engines /\ session \in Sessions
  BY TypeIs DEF MoveInv
<1>0. /\ ghost' = ghost => MoreFlaws
      /\ ghost' = [ghost EXCEPT !.flaws = @ \cup {"stuck"}] => MoreFlaws
      /\ (\E new \in SUBSET {"adopted"} : ghost' = [ghost EXCEPT !.flaws = @ \cup new])
           => MoreFlaws
  <2>1. ghost' = ghost => ghost' = [ghost EXCEPT !.flaws = @ \cup {}]
    BY <1>1 DEF Ghosts
  <2>2. {} \in SUBSET {"adopted", "stuck"} /\ {"stuck"} \in SUBSET {"adopted", "stuck"}
        /\ SUBSET {"adopted"} \subseteq SUBSET {"adopted", "stuck"}
    OBVIOUS
  <2> QED BY <2>1, <2>2
<1> HIDE DEF MoreFlaws
<1>2. /\ eng.pc = "answered" /\ session.pc = "idle" /\ UNCHANGED <<hub, session>>
      /\ PushReply \/ DeleteReply \/ MoveReply
  BY DEF Reply, Unlocked
<1>3. eng.job \in Jobs /\ eng.job.at \in Dirs /\ eng.sha \in Content /\ eng.current \in Content
  BY <1>1 DEF Engines, Jobs
<1>4. Landed(eng.job.at) \in Dirs
  BY <1>3, LandedIs
<1>5. Sound(Finished(jobs)) /\ MovesOf(Finished(jobs)) = {j \in MovesOf(jobs) : ~j.run}
  BY <1>1, PartsAre
<1>6. ~MoveOnWire => MovesOf(jobs) = {j \in MovesOf(jobs) : ~j.run}
  BY DEF MoveInv, Requested
<1>7. ASSUME PushReply
      PROVE  /\ disk' \in Disks /\ store' \in Stores /\ MoreFlaws /\ ~MoveOnWire
             /\ \/ eng' = Idle /\ jobs' = Retried(jobs)
                \/ /\ eng' = Idle /\ Sound(jobs')
                   /\ MovesOf(jobs') = {j \in MovesOf(jobs) : ~j.run}
  <2> DEFINE d == eng.job.at
             l == Landed(d)
             e == store.entry[l]
  <2>1. ~MoveOnWire
    BY <1>7 DEF PushReply, MoveOnWire
  <2>2. CASE eng.out = "ok"
    <3>1. \E s \in {"none", "clean", "dirty", "tombstone"} :
            Done([store EXCEPT !.base[l] = eng.sha, !.mark[d] = Missing, !.entry[l].state = s])
      <4>1. e.state \in {"none", "clean", "dirty", "tombstone"}
        BY <1>1, <1>4 DEF Stores, Entry
      <4> QED BY <1>7, <2>2, <4>1 DEF PushReply
    <3>2. PICK s \in {"none", "clean", "dirty", "tombstone"} :
            Done([store EXCEPT !.base[l] = eng.sha, !.mark[d] = Missing, !.entry[l].state = s])
      BY <3>1
    <3>3. [e EXCEPT !.state = s] \in Entry
      BY <1>1, <1>4 DEF Stores, Entry
    <3>4. [store.entry EXCEPT ![l].state = s] \in [Dirs -> Entry]
      BY <1>1, <3>3 DEF Stores
    <3>5. [store.base EXCEPT ![l] = eng.sha] \in [Dirs -> Digest]
      BY <1>1, <1>3, Versions DEF Stores
    <3>6. [store.mark EXCEPT ![d] = Missing] \in [Dirs -> Content]
      BY <1>1, Versions DEF Stores
    <3>7. [store EXCEPT !.base[l] = eng.sha, !.mark[d] = Missing, !.entry[l].state = s]
            \in Stores
      BY <1>1, <3>4, <3>5, <3>6 DEF Stores
    <3> QED BY <1>0, <1>1, <1>5, <2>1, <3>2, <3>7 DEF Done
  <2>3. CASE eng.out = "mismatch" /\ l # d
    <3>1. Again /\ UNCHANGED ghost
      BY <1>7, <2>3 DEF PushReply
    <3> QED BY <1>0, <1>1, <2>1, <3>1 DEF Again
  <2>4. CASE ~(eng.out = "ok") /\ ~(eng.out = "mismatch" /\ l # d)
    <3>1. Refused(d, eng.current)
      BY <1>7, <2>4 DEF PushReply
    <3> QED BY <1>0, <1>3, <1>6, <2>1, <3>1, RefusedIs
  <2> QED BY <2>2, <2>3, <2>4
<1>8. ASSUME DeleteReply
      PROVE  /\ disk' \in Disks /\ store' \in Stores /\ ~MoveOnWire
             /\ MoreFlaws
             /\ \/ eng' = Idle /\ jobs' = Retried(jobs)
                \/ /\ eng' = Idle /\ Sound(jobs')
                   /\ MovesOf(jobs') = {j \in MovesOf(jobs) : ~j.run}
  <2> DEFINE d == eng.job.at
             l == Landed(d)
             gone == IF store.entry[l].state = "tombstone" THEN NoEntry ELSE store.entry[l]
  <2>1. ~MoveOnWire
    BY <1>8 DEF DeleteReply, MoveOnWire
  <2>2. CASE eng.out \in {"ok", "missing"}
    <3>1. Done([store EXCEPT !.entry[l] = gone, !.base[l] = Missing, !.mark[d] = Missing])
      BY <1>8, <2>2 DEF DeleteReply
    <3>2. gone \in Entry
      BY <1>1, <1>4, Versions DEF Stores
    <3> HIDE DEF gone
    <3>3. [store EXCEPT !.entry[l] = gone, !.base[l] = Missing, !.mark[d] = Missing] \in Stores
      BY <1>1, <3>2, Versions DEF Stores
    <3> QED BY <1>0, <1>1, <1>5, <2>1, <3>1, <3>3 DEF Done
  <2>3. CASE eng.out = "mismatch" /\ l # d
    <3>1. Again /\ ghost' = [ghost EXCEPT !.flaws = @ \cup {"stuck"}]
      BY <1>8, <2>3 DEF DeleteReply
    <3> QED BY <1>0, <1>1, <2>1, <3>1 DEF Again
  <2>4. CASE ~(eng.out \in {"ok", "missing"}) /\ ~(eng.out = "mismatch" /\ l # d)
    <3>1. Refused(d, eng.current)
      BY <1>8, <2>4 DEF DeleteReply
    <3> QED BY <1>0, <1>3, <1>6, <2>1, <3>1, RefusedIs
  <2> QED BY <2>2, <2>3, <2>4
<1>9. ASSUME MoveReply
      PROVE  /\ disk' = disk /\ store' = store /\ ghost' = ghost
             /\ \/ eng' = Idle /\ jobs' = Retried(jobs)
                \/ /\ eng' = Idle /\ Sound(jobs')
                   /\ MoveOnWire => eng.job.op \in LogOps
                   /\ MovesOf(jobs') = {j \in MovesOf(jobs) : ~j.run}
                \/ eng' = [eng EXCEPT !.pc = "mkdir"] /\ jobs' = jobs /\ MoveOnWire
  <2>1. CASE eng.job.kind # "RenameDir" \/ eng.out = "ok"
    <3>1. Done(store)
      BY <1>9, <2>1 DEF MoveReply
    <3>2. MoveOnWire => eng.job.op \in LogOps
      BY <1>2, <2>1 DEF MoveInv, Wired, MoveOnWire
    <3> QED BY <1>5, <3>1, <3>2 DEF Done
  <2>2. CASE ~(eng.job.kind # "RenameDir" \/ eng.out = "ok")
    <3>1. MoveOnWire
      BY <1>2, <2>2 DEF MoveOnWire
    <3>2. \/ eng' = [eng EXCEPT !.pc = "mkdir"] /\ UNCHANGED <<disk, store, jobs, ghost>>
          \/ Again /\ UNCHANGED ghost
      BY <1>9, <2>2 DEF MoveReply
    <3> QED BY <3>1, <3>2 DEF Again
  <2> QED BY <2>1, <2>2
<1>10. ASSUME MoreFlaws
       PROVE  /\ ghost' \in Ghosts /\ ghost'.moves = ghost.moves
              /\ ghost.flaws \subseteq ghost'.flaws
              /\ "forgot" \in ghost'.flaws => "forgot" \in ghost.flaws
  BY <1>1, <1>10 DEF Ghosts, Flaws, MoreFlaws
<1>11. CASE PushReply
  BY <1>2, <1>7, <1>10, <1>11
<1>12. CASE DeleteReply
  BY <1>2, <1>8, <1>10, <1>12
<1>13. CASE MoveReply
  BY <1>0, <1>1, <1>2, <1>9, <1>10, <1>13
<1> QED BY <1>2, <1>11, <1>12, <1>13

LEMMA ReplyKeeps ==
  ASSUME MoveInv, Reply
  PROVE  MoveInv'
<1>1. /\ eng.pc = "answered" /\ session.pc = "idle" /\ UNCHANGED <<hub, session>>
      /\ disk' \in Disks /\ store' \in Stores /\ ghost' \in Ghosts
      /\ ghost'.moves = ghost.moves /\ ghost.flaws \subseteq ghost'.flaws
  BY ReplyIs
<1>2. hub \in Hubs /\ eng \in Engines /\ session \in Sessions /\ Sound(jobs)
  BY TypeIs DEF MoveInv
<1>3. CASE eng' = Idle /\ jobs' = Retried(jobs)
  <2>1. Sound(jobs') /\ Numbered' /\ Wired' /\ Requested' /\ Intended'
    BY <1>1, <1>3, RetriedKeeps
  <2>2. TypeOK'
    BY <1>1, <1>2, <1>3, <2>1, IdleIs, TypeNext DEF Sound
  <2> QED BY <2>1, <2>2 DEF MoveInv
<1>4. CASE /\ eng' = Idle /\ Sound(jobs')
           /\ MovesOf(jobs') = {j \in MovesOf(jobs) : ~j.run}
  <2>1. Numbered' /\ Wired' /\ Requested' /\ Intended'
    BY <1>1, <1>4, IdleKeeps
  <2>2. TypeOK'
    BY <1>1, <1>2, <1>4, IdleIs, TypeNext DEF Sound
  <2> QED BY <1>4, <2>1, <2>2 DEF MoveInv
<1>5. CASE eng' = [eng EXCEPT !.pc = "mkdir"] /\ jobs' = jobs /\ MoveOnWire
  <2>1. eng' \in Engines /\ eng'.pc = "mkdir" /\ eng'.job = eng.job
    BY <1>2, <1>5 DEF Engines
  <2>2. TypeOK'
    BY <1>1, <1>2, <1>5, <2>1, TypeNext DEF Sound
  <2>3. LogOps' = LogOps /\ MoveOnWire' /\ eng'.job.kind = "RenameDir"
    BY <1>1, <1>5, <2>1 DEF LogOps, MoveOnWire
  <2>4. Numbered' /\ Intended'
    BY <1>1, <1>5, <2>3 DEF MoveInv, Numbered, Intended
  <2>5. Wired'
    BY <1>1, <1>5, <2>1, <2>3 DEF MoveInv, Wired
  <2>6. Requested'
    BY <1>5, <2>1, <2>3 DEF MoveInv, Requested
  <2> QED BY <1>2, <1>5, <2>2, <2>4, <2>5, <2>6 DEF MoveInv
<1> QED BY <1>3, <1>4, <1>5, ReplyIs

LEMMA MoveNext == MoveInv /\ [Next]_vars => MoveInv'
<1> SUFFICES ASSUME MoveInv, [Next]_vars PROVE MoveInv'
  OBVIOUS
<1>1. CASE User
  BY <1>1, SaveKeeps, UnlinkKeeps, MkdirKeeps, RmdirKeeps, IntendKeeps DEF User
<1>2. CASE Syscall \/ SyscallFails \/ Commit
  BY <1>2, SyscallKeeps, SyscallFailsKeeps, CommitKeeps
<1>3. CASE Crash \/ Restart \/ Lost
  BY <1>3, CrashKeeps, RestartKeeps, LostKeeps
<1>4. CASE \E d \in Dirs : RecoverJob(d)
  BY <1>4, RecoverJobKeeps
<1>5. CASE Start \/ HubAnswers \/ Reply
  BY <1>5, StartKeeps, HubKeeps, ReplyKeeps
<1>6. CASE UNCHANGED vars
  <2>1. UNCHANGED <<disk, store, jobs, hub, eng, session, ghost>>
    BY <1>6 DEF vars
  <2>2. TypeOK'
    BY <2>1, TypeIs, TypeNext DEF MoveInv
  <2>3. Sound(jobs') /\ MovesOf(jobs') = MovesOf(jobs)
    BY <2>1 DEF MoveInv
  <2> QED BY <2>1, <2>2, <2>3, MovesKept DEF MoveInv
<1> QED BY <1>1, <1>2, <1>3, <1>4, <1>5, <1>6 DEF Next

LEMMA MoveInvAlways == Spec => []MoveInv
<1> QED BY MoveInit, MoveNext, PTL DEF Spec

\* The types of the directory moves' state, for any directories and any bounds:
\* every handler, reply and recovery leaves records the next one can read.
THEOREM DirMoveTypes == Spec => []TypeOK
<1>1. MoveInv => TypeOK
  BY DEF MoveInv
<1> QED BY <1>1, MoveInvAlways, PTL

(***************************************************************************)
(* The refinement.                                                         *)
(***************************************************************************)
Queue  == {AsMove(j) : j \in Pending}
Lapsed == "forgot" \in ghost.flaws
Relayed == [Relay!Next]_(Relay!vars)

LEMMA PendingIs ==
  \A j : j \in Pending <=>
    /\ j \in MovesOf(jobs) \/ (MoveOnWire /\ j = eng.job)
    /\ j.remote /\ j.op \notin LogOps
BY DEF Pending, Unperformed, OnTheWire, MovesOf, MoveOnWire, LogOps

LEMMA PendingNext ==
  \A j : j \in Pending' <=>
    /\ j \in MovesOf(jobs') \/ (MoveOnWire' /\ j = eng'.job)
    /\ j.remote /\ j.op \notin LogOps'
BY DEF Pending, Unperformed, OnTheWire, MovesOf, MoveOnWire, LogOps

LEMMA QueueIs ==
  ASSUME MoveInv
  PROVE  \A j \in Pending : /\ j \in Jobs /\ j.op \in 1..ghost.moves
                            /\ AsMove(j) \in [op : 1..MaxMoves, from : Dirs, to : Dirs]
<1> SUFFICES ASSUME NEW j \in Pending
             PROVE  /\ j \in Jobs /\ j.op \in 1..ghost.moves
                    /\ AsMove(j) \in [op : 1..MaxMoves, from : Dirs, to : Dirs]
  OBVIOUS
<1>1. eng \in Engines /\ ghost \in Ghosts /\ Sound(jobs)
  BY TypeIs DEF MoveInv
<1>2. j \in MovesOf(jobs) \/ (MoveOnWire /\ j = eng.job)
  BY PendingIs
<1>3. j \in Jobs
  BY <1>1, <1>2 DEF Sound, MovesOf, Engines
<1>4. j.op \in 1..ghost.moves
  BY <1>2 DEF MoveInv, Numbered, Wired
<1>5. j.op \in 1..MaxMoves /\ j.at \in Dirs /\ j.to \in Dirs
  BY <1>1, <1>3, <1>4, Limits DEF Jobs, Ghosts
<1> QED BY <1>3, <1>4, <1>5 DEF AsMove

LEMMA Stutters ==
  ASSUME Queue' = Queue, hub'.log = hub.log, Lapsed' <=> Lapsed
  PROVE  Relayed
<1>1. Lapsed' = Lapsed
  BY DEF Lapsed
<1> QED BY <1>1 DEF Relayed, Relay!vars, Queue, Lapsed

\* No move is gained or lost when the queue holds the same moves as before.
LEMMA SameQueue ==
  ASSUME LogOps' = LogOps, MoveOnWire' = MoveOnWire, MoveOnWire => eng'.job = eng.job,
         \A j \in MovesOf(jobs) : \E k \in MovesOf(jobs') :
           AsMove(k) = AsMove(j) /\ k.remote = j.remote,
         \A k \in MovesOf(jobs') : \E j \in MovesOf(jobs) :
           AsMove(k) = AsMove(j) /\ k.remote = j.remote
  PROVE  Queue' = Queue
<1>1. \A j, k : AsMove(k) = AsMove(j) => k.op = j.op
  BY DEF AsMove
<1>2. \A j \in Pending : \E k \in Pending' : AsMove(k) = AsMove(j)
  <2> TAKE j \in Pending
  <2>1. CASE MoveOnWire /\ j = eng.job
    BY <2>1, PendingIs, PendingNext
  <2>2. CASE j \in MovesOf(jobs)
    <3>1. PICK k \in MovesOf(jobs') : AsMove(k) = AsMove(j) /\ k.remote = j.remote
      BY <2>2
    <3>2. k \in Pending'
      BY <1>1, <3>1, PendingIs, PendingNext
    <3> QED BY <3>1, <3>2
  <2> QED BY <2>1, <2>2, PendingIs, PendingNext
<1>3. \A k \in Pending' : \E j \in Pending : AsMove(k) = AsMove(j)
  <2> TAKE k \in Pending'
  <2>1. CASE MoveOnWire /\ k = eng.job
    BY <2>1, PendingIs, PendingNext
  <2>2. CASE k \in MovesOf(jobs')
    <3>1. PICK j \in MovesOf(jobs) : AsMove(k) = AsMove(j) /\ k.remote = j.remote
      BY <2>2
    <3>2. j \in Pending
      BY <1>1, <3>1, PendingIs, PendingNext
    <3> QED BY <3>1, <3>2
  <2> QED BY <2>1, <2>2, PendingIs, PendingNext
<1> QED BY <1>2, <1>3 DEF Queue

\* The handlers that queue nothing but work on files and directories.
LEMMA OthersStutter ==
  ASSUME MoveInv, MovesOf(jobs') = MovesOf(jobs), UNCHANGED <<eng, hub>>, Lapsed' <=> Lapsed
  PROVE  Relayed
<1>1. LogOps' = LogOps /\ MoveOnWire' = MoveOnWire
  BY DEF LogOps, MoveOnWire
<1>2. Queue' = Queue
  BY <1>1, SameQueue
<1> QED BY <1>2, Stutters

LEMMA UserRelays ==
  ASSUME MoveInv, NEW d \in Dirs, Save(d) \/ Unlink(d) \/ Mkdir(d) \/ RecoverJob(d)
  PROVE  Relayed
<1>1. Sound(jobs) /\ ghost \in Ghosts
  BY TypeIs DEF MoveInv
<1>2. MovesOf(jobs') = MovesOf(jobs)
  <2>1. /\ Job("Push", d) \in Jobs /\ Job("Push", d).kind # "RenameDir"
        /\ Job("Delete", d) \in Jobs /\ Job("Delete", d).kind # "RenameDir"
        /\ Job("Mkdir", d) \in Jobs /\ Job("Mkdir", d).kind # "RenameDir"
    BY JobIs
  <2>2. Sound(WithoutFile(jobs, d)) /\ MovesOf(WithoutFile(jobs, d)) = MovesOf(jobs)
    BY <1>1, PartsAre
  <2>3. \/ jobs' = jobs
        \/ jobs' = WithoutFile(jobs, d)
        \/ jobs' = Enqueue(WithoutFile(jobs, d), Job("Delete", d))
        \/ \E k \in {"Push", "Delete", "Mkdir"} : jobs' = Enqueue(jobs, Job(k, d))
    BY DEF Save, Unlink, Mkdir, RecoverJob, Repair
  <2>4. MovesOf(Enqueue(WithoutFile(jobs, d), Job("Delete", d))) = MovesOf(jobs)
    BY <2>1, <2>2, EnqueueIs
  <2>5. \A k \in {"Push", "Delete", "Mkdir"} : MovesOf(Enqueue(jobs, Job(k, d))) = MovesOf(jobs)
    BY <1>1, <2>1, EnqueueIs
  <2> QED BY <2>2, <2>3, <2>4, <2>5
<1>3. UNCHANGED <<eng, hub>>
  BY DEF Save, Unlink, Mkdir, RecoverJob
<1>4. Lapsed' <=> Lapsed
  <2>1. CASE Save(d)
    BY <1>1, <2>1 DEF Save, Ghosts, Lapsed
  <2>2. CASE Mkdir(d)
    BY <1>1, <2>2 DEF Mkdir, Ghosts, Lapsed
  <2>3. CASE Unlink(d)
    <3>1. \E seen \in BOOLEAN :
            ghost' = [ghost EXCEPT !.removals = @ + 1, !.flaws = @ \cup Flaw("returns", seen)]
      <4> DEFINE seen == (~(store.base[d] # Missing \/ store.mark[d] # Missing)
                            /\ UploadElsewhere(d)) = TRUE
      <4>1. ghost' = [ghost EXCEPT !.removals = @ + 1, !.flaws = @ \cup Flaw("returns", seen)]
        BY <2>3 DEF Unlink, Flaw
      <4> QED BY <4>1
    <3> QED BY <1>1, <3>1 DEF Flaw, Ghosts, Lapsed
  <2>4. CASE RecoverJob(d)
    <3>1. ghost' = [ghost EXCEPT !.flaws = @ \cup Flaw("doubled", DeletedElsewhere(d))]
      BY <2>4 DEF RecoverJob
    <3> QED BY <1>1, <3>1 DEF Flaw, Ghosts, Lapsed
  <2> QED BY <2>1, <2>2, <2>3, <2>4
<1> QED BY <1>2, <1>3, <1>4, OthersStutter

LEMMA RmdirRelays ==
  ASSUME MoveInv, NEW d \in Dirs, Rmdir(d)
  PROVE  Relayed
<1>1. Sound(jobs) /\ ghost \in Ghosts
  BY TypeIs DEF MoveInv
<1>2. MovesOf(jobs') = {j \in MovesOf(jobs) : j.at # d}
  <2>1. Job("Rmdir", d) \in Jobs /\ Job("Rmdir", d).kind # "RenameDir"
    BY JobIs
  <2>2. Sound(WithoutDir(jobs, d)) /\ MovesOf(WithoutDir(jobs, d)) = {j \in MovesOf(jobs) : j.at # d}
    BY <1>1, PartsAre
  <2>3. jobs' = Enqueue(WithoutDir(jobs, d), Job("Rmdir", d))
    BY DEF Rmdir
  <2> QED BY <2>1, <2>2, <2>3, EnqueueIs
<1>3. UNCHANGED <<eng, hub>> /\ LogOps' = LogOps /\ MoveOnWire' = MoveOnWire
  BY DEF Rmdir, LogOps, MoveOnWire
<1>4. Queue' \subseteq Queue
  <2>1. Pending' \subseteq Pending
    BY <1>2, <1>3, PendingIs, PendingNext
  <2> QED BY <2>1 DEF Queue
<1>5. Lapsed' <=> Lapsed \/ LeftByMove(d, 0)
  <2>1. ghost' = [ghost EXCEPT !.removals = @ + 1,
                               !.flaws = @ \cup Flaw("forgot", LeftByMove(d, 0))
                                          \cup Flaw("stray", DeleteStrays(d))]
    BY DEF Rmdir
  <2> QED BY <1>1, <2>1 DEF Flaw, Ghosts, Lapsed
<1>6. \A j \in Pending : j \in Pending' \/ (j.at = d /\ LeftByMove(d, 0))
  <2> TAKE j \in Pending
  <2>1. CASE MoveOnWire /\ j = eng.job
    BY <1>3, <2>1, PendingIs, PendingNext
  <2>2. CASE j \in MovesOf(jobs) /\ j.at # d
    BY <1>2, <1>3, <2>2, PendingIs, PendingNext
  <2>3. CASE j \in MovesOf(jobs) /\ j.at = d
    <3>1. j \in Moves /\ j.seq >= 0 /\ j.remote
      BY <1>1, <2>3, PendingIs DEF MovesOf, Moves, Sound, Jobs
    <3> QED BY <2>3, <3>1 DEF LeftByMove
  <2> QED BY <2>1, <2>2, <2>3, PendingIs
<1>7. CASE LeftByMove(d, 0)
  <2> DEFINE gone == Queue \ Queue'
  <2>1. gone \in SUBSET {m \in Queue : m.from = d}
    BY <1>6 DEF Queue, AsMove
  <2>2. Queue' = Queue \ gone
    BY <1>4
  <2>3. Relay!Forget
    BY <1>3, <1>5, <1>7, <2>1, <2>2 DEF Relay!Forget, Queue, Lapsed
  <2> QED BY <2>3 DEF Relayed, Relay!Next
<1>8. CASE ~LeftByMove(d, 0)
  <2>1. Queue' = Queue
    BY <1>4, <1>6, <1>8 DEF Queue
  <2> QED BY <1>3, <1>5, <1>8, <2>1, Stutters
<1> QED BY <1>7, <1>8

LEMMA IntendRelays ==
  ASSUME MoveInv, NEW from \in Dirs, NEW to \in Dirs, Intend(from, to)
  PROVE  Relayed
<1>1. PICK m \in Jobs :
        /\ m.kind = "RenameDir" /\ m.at = from /\ m.to = to /\ from # to
        /\ m.op = ghost.moves + 1 /\ ~m.applied /\ ~m.run
        /\ jobs' = jobs \cup {m}
  BY IntentIs
<1>2. UNCHANGED <<hub, eng>> /\ LogOps' = LogOps /\ MoveOnWire' = MoveOnWire
  BY DEF Intend, LogOps, MoveOnWire
<1>3. ghost \in Ghosts /\ ghost' = [ghost EXCEPT !.moves = @ + 1] /\ ghost.moves < MaxMoves
  BY TypeIs DEF MoveInv, Intend
<1>4. (Lapsed' <=> Lapsed) /\ Lapsed' = Lapsed
  BY <1>3 DEF Ghosts, Lapsed
<1>5. MovesOf(jobs') = MovesOf(jobs) \cup {m}
  BY <1>1 DEF MovesOf
<1>6. ghost.moves \in Nat /\ m.op \in 1..MaxMoves
  BY <1>1, <1>3, Limits DEF Ghosts
<1>7. LogOps \subseteq 1..ghost.moves
  BY DEF MoveInv, Numbered
<1>8. CASE m.remote
  <2>1. m.op \notin LogOps
    BY <1>1, <1>6, <1>7
  <2>2. \A j : j \in Pending' <=> j \in Pending \/ j = m
    BY <1>2, <1>5, <1>8, <2>1, PendingIs, PendingNext
  <2>3. Queue' = Queue \cup {AsMove(m)}
    BY <2>2 DEF Queue
  <2>4. \A n \in Queue : n.op < m.op
    <3> SUFFICES ASSUME NEW j \in Pending PROVE AsMove(j).op < m.op
      BY DEF Queue
    <3>1. j.op \in 1..ghost.moves
      BY QueueIs
    <3> QED BY <1>1, <1>6, <3>1 DEF AsMove
  <2>5. \A i \in DOMAIN hub.log : hub.log[i].op < m.op
    <3> TAKE i \in DOMAIN hub.log
    <3>1. hub.log[i].op \in 1..ghost.moves
      BY <1>7 DEF LogOps
    <3> QED BY <1>1, <1>6, <3>1
  <2>6. AsMove(m) \in Relay!Move /\ AsMove(m).from # AsMove(m).to /\ AsMove(m).op = m.op
    BY <1>1, <1>6 DEF AsMove, Relay!Move
  <2>7. Relay!Promise
    BY <1>2, <1>4, <2>3, <2>4, <2>5, <2>6 DEF Relay!Promise, Relay!Latest, Queue, Lapsed
  <2> QED BY <2>7 DEF Relayed, Relay!Next
<1>9. CASE ~m.remote
  <2>1. \A j : j \in Pending' <=> j \in Pending
    BY <1>2, <1>5, <1>9, PendingIs, PendingNext
  <2>2. Queue' = Queue
    BY <2>1 DEF Queue
  <2> QED BY <1>2, <1>4, <2>2, Stutters
<1> QED BY <1>8, <1>9

LEMMA SyscallFailsRelays ==
  ASSUME MoveInv, SyscallFails
  PROVE  Relayed
<1> DEFINE m == session.job
<1>1. /\ session.pc = "intent" /\ jobs' = {j \in jobs : j.op # m.op}
      /\ ghost' = [ghost EXCEPT !.faults = @ + 1] /\ UNCHANGED <<eng, hub>>
  BY DEF SyscallFails
<1>2. ghost \in Ghosts /\ eng \in Engines /\ Sound(jobs)
  BY TypeIs DEF MoveInv
<1>3. (Lapsed' <=> Lapsed) /\ Lapsed' = Lapsed
  BY <1>1, <1>2 DEF Ghosts, Lapsed
<1>4. LogOps' = LogOps /\ MoveOnWire' = MoveOnWire
  BY <1>1 DEF LogOps, MoveOnWire
<1>5. m \in MovesOf(jobs) /\ ~m.applied
  BY <1>1 DEF MoveInv, Intended
<1>6. m.op = ghost.moves /\ m.op \notin LogOps
  BY <1>5 DEF MoveInv, Intended
<1> HIDE DEF m
<1>7. MovesOf(jobs') = MovesOf(jobs) \ {m}
  <2>1. \A j \in MovesOf(jobs) : j.op = m.op => j = m
    BY <1>5 DEF MoveInv, Numbered
  <2> QED BY <1>1, <2>1 DEF MovesOf
<1>8. MoveOnWire => eng.job.op # m.op
  BY <1>5 DEF MoveInv, Wired
<1>9. CASE m.remote
  <2>1. m \in Pending
    BY <1>5, <1>6, <1>9, PendingIs
  <2>2. \A j : j \in Pending' <=> j \in Pending /\ j # m
    BY <1>1, <1>4, <1>7, <1>8, PendingIs, PendingNext
  <2>3. \A j \in Pending : AsMove(j) = AsMove(m) => j = m
    <3> SUFFICES ASSUME NEW j \in Pending, AsMove(j) = AsMove(m) PROVE j = m
      OBVIOUS
    <3>1. j.op = m.op
      BY DEF AsMove
    <3> QED BY <1>5, <1>8, <3>1, PendingIs DEF MoveInv, Numbered
  <2>4. Queue' = Queue \ {AsMove(m)} /\ AsMove(m) \in Queue
    BY <2>1, <2>2, <2>3 DEF Queue
  <2>5. AsMove(m).op = ghost.moves /\ ghost.moves \in Nat
    BY <1>2, <1>6, Limits DEF AsMove, Ghosts
  <2>6. \A n \in Queue : n.op <= AsMove(m).op
    <3> SUFFICES ASSUME NEW j \in Pending PROVE AsMove(j).op <= AsMove(m).op
      BY DEF Queue
    <3>1. j.op \in 1..ghost.moves
      BY QueueIs
    <3> QED BY <2>5, <3>1 DEF AsMove
  <2>7. \A i \in DOMAIN hub.log : hub.log[i].op < AsMove(m).op
    <3> TAKE i \in DOMAIN hub.log
    <3>1. hub.log[i].op \in 1..ghost.moves /\ hub.log[i].op # ghost.moves
      BY <1>6 DEF LogOps, MoveInv, Numbered
    <3> QED BY <2>5, <3>1
  <2>8. Relay!Withdraw
    BY <1>1, <1>3, <2>4, <2>6, <2>7 DEF Relay!Withdraw, Queue, Lapsed
  <2> QED BY <2>8 DEF Relayed, Relay!Next
<1>10. CASE ~m.remote
  <2>1. \A j : j \in Pending' <=> j \in Pending
    BY <1>1, <1>4, <1>7, <1>10, PendingIs, PendingNext
  <2>2. Queue' = Queue
    BY <2>1 DEF Queue
  <2> QED BY <1>1, <1>3, <2>2, Stutters
<1> QED BY <1>9, <1>10

LEMMA SessionRelays ==
  ASSUME MoveInv, Syscall \/ Restart
  PROVE  Relayed
<1>1. UNCHANGED <<hub, eng, ghost>> /\ (jobs' = jobs \/ jobs' = Scanned(jobs))
  BY DEF Syscall, Restart
<1>2. MovesOf(jobs') = MovesOf(jobs)
  <2>1. Sound(jobs) /\ disk.dirs \subseteq Dirs
    BY TypeIs DEF MoveInv, Disks
  <2> QED BY <1>1, <2>1, ScannedIs
<1>3. Lapsed' <=> Lapsed
  BY <1>1 DEF Lapsed
<1> QED BY <1>1, <1>2, <1>3, OthersStutter

LEMMA CommitRelays ==
  ASSUME MoveInv, Commit
  PROVE  Relayed
<1> DEFINE m == session.job
           n == [m EXCEPT !.applied = TRUE]
<1>1. /\ session.pc = "renamed" /\ jobs' = RekeyedJobs(m) /\ UNCHANGED <<hub, eng>>
      /\ ghost' = [ghost EXCEPT !.flaws = @ \cup Flaw("mixed", TakesNamesakes(m))]
  BY DEF Commit
<1>2. ghost \in Ghosts /\ Sound(jobs)
  BY TypeIs DEF MoveInv
<1>3. Lapsed' <=> Lapsed
  BY <1>1, <1>2 DEF Flaw, Ghosts, Lapsed
<1>4. m \in MovesOf(jobs) /\ m \in Jobs /\ m.kind = "RenameDir"
  BY <1>1, <1>2 DEF MoveInv, Intended, MovesOf, Sound
<1>5. AsMove(n) = AsMove(m) /\ n.remote = m.remote
  BY <1>4 DEF Jobs, AsMove
<1> HIDE DEF m, n
<1>6. MovesOf(jobs') = {j \in MovesOf(jobs) : j.op # m.op} \cup {n}
  BY <1>1, <1>2, <1>4, RekeyedJobsAre DEF n
<1>7. \A j \in MovesOf(jobs) : j.op = m.op => j = m
  BY <1>4 DEF MoveInv, Numbered
<1>8. LogOps' = LogOps /\ MoveOnWire' = MoveOnWire /\ eng'.job = eng.job
  BY <1>1 DEF LogOps, MoveOnWire
<1>9. \A j \in MovesOf(jobs) : \E k \in MovesOf(jobs') :
        AsMove(k) = AsMove(j) /\ k.remote = j.remote
  BY <1>5, <1>6, <1>7
<1>10. \A k \in MovesOf(jobs') : \E j \in MovesOf(jobs) :
        AsMove(k) = AsMove(j) /\ k.remote = j.remote
  BY <1>4, <1>5, <1>6
<1>11. Queue' = Queue
  BY <1>8, <1>9, <1>10, SameQueue
<1> QED BY <1>1, <1>3, <1>11, Stutters

\* A job goes on the wire and stays in the queue.
LEMMA SendRelays ==
  ASSUME MoveInv, eng.pc = "idle", NEW j \in jobs, NEW sha, NEW match,
         Send(j, sha, match), UNCHANGED <<hub, ghost>>
  PROVE  Relayed
<1> DEFINE n == [j EXCEPT !.run = TRUE]
<1>1. /\ jobs' = (jobs \ {j}) \cup {n} /\ ~MoveOnWire /\ LogOps' = LogOps
      /\ eng' = [Idle EXCEPT !.pc = "sent", !.job = j, !.sha = sha, !.match = match]
  BY DEF Send, MoveOnWire, LogOps
<1>2. j \in Jobs /\ (Lapsed' <=> Lapsed)
  BY DEF MoveInv, Sound, Lapsed
<1>3. AsMove(n) = AsMove(j) /\ n.remote = j.remote /\ n.kind = j.kind /\ n.op = j.op
  BY <1>2 DEF Jobs, AsMove
<1> HIDE DEF n
<1>4. eng'.pc = "sent" /\ eng'.job = j
  BY <1>1 DEF Idle
<1>5. MoveOnWire' <=> j.kind = "RenameDir"
  BY <1>4 DEF MoveOnWire
<1>6. \A i \in Pending : \E k \in Pending' : AsMove(k) = AsMove(i)
  <2> TAKE i \in Pending
  <2>1. CASE i = j
    <3>1. j \in Pending'
      BY <1>1, <1>4, <1>5, <2>1, PendingIs, PendingNext DEF MovesOf
    <3> QED BY <2>1, <3>1
  <2>2. CASE i # j
    <3>1. i \in Pending'
      BY <1>1, <2>2, PendingIs, PendingNext DEF MovesOf
    <3> QED BY <3>1
  <2> QED BY <2>1, <2>2
<1>7. \A k \in Pending' : \E i \in Pending : AsMove(k) = AsMove(i)
  <2> TAKE k \in Pending'
  <2>1. CASE k = j \/ k = n
    <3>1. j.kind = "RenameDir" /\ j.remote /\ j.op \notin LogOps
      BY <1>1, <1>3, <1>4, <1>5, <2>1, PendingNext DEF MovesOf
    <3>2. j \in Pending
      BY <3>1, PendingIs DEF MovesOf
    <3> QED BY <1>3, <2>1, <3>2
  <2>2. CASE k # j /\ k # n
    <3>1. k \in Pending
      BY <1>1, <1>4, <2>2, PendingIs, PendingNext DEF MovesOf
    <3> QED BY <3>1
  <2> QED BY <2>1, <2>2
<1>8. Queue' = Queue
  BY <1>6, <1>7 DEF Queue
<1> QED BY <1>2, <1>8, Stutters

LEMMA StartRelays ==
  ASSUME MoveInv, Start
  PROVE  Relayed
<1>1. PICK j \in jobs : StartPush(j) \/ StartDelete(j) \/ StartOther(j)
  BY DEF Start
<1>2. eng.pc = "idle" /\ UNCHANGED <<hub, ghost>>
  BY DEF Start
<1>3. \/ \E sha, match : Send(j, sha, match)
      \/ /\ jobs' = jobs \ {j} /\ eng' = eng
         /\ j.kind = "RenameDir" => ~j.remote
  <2>1. CASE StartPush(j)
    BY <2>1 DEF StartPush
  <2>2. CASE StartDelete(j)
    BY <2>2 DEF StartDelete
  <2>3. CASE StartOther(j)
    BY <2>3 DEF StartOther
  <2> QED BY <1>1, <2>1, <2>2, <2>3
<1>4. CASE \E sha, match : Send(j, sha, match)
  BY <1>2, <1>4, SendRelays
<1>5. CASE /\ jobs' = jobs \ {j} /\ eng' = eng
           /\ j.kind = "RenameDir" => ~j.remote
  <2>1. LogOps' = LogOps /\ MoveOnWire' = MoveOnWire /\ ~MoveOnWire /\ (Lapsed' <=> Lapsed)
    BY <1>2, <1>5 DEF LogOps, MoveOnWire, Lapsed
  <2>2. \A k : k \in Pending' <=> k \in Pending
    BY <1>5, <2>1, PendingIs, PendingNext DEF MovesOf
  <2>3. Queue' = Queue
    BY <2>2 DEF Queue
  <2> QED BY <1>2, <2>1, <2>3, Stutters
<1> QED BY <1>3, <1>4, <1>5

\* The hub performs the move that is on the wire, or has performed it.
LEMMA PerformRelays ==
  ASSUME MoveInv, MoveOnWire, hub'.log = Performed(eng.job),
         eng'.pc # "idle", eng'.job = eng.job, UNCHANGED <<jobs, ghost>>
  PROVE  Relayed
<1> DEFINE m == AsMove(eng.job)
<1>1. hub \in Hubs /\ eng \in Engines /\ ghost \in Ghosts
  BY TypeIs DEF MoveInv
<1>2. /\ MoveOnWire' /\ (Lapsed' <=> Lapsed) /\ Lapsed' = Lapsed
      /\ MovesOf(jobs') = MovesOf(jobs)
  BY DEF MoveOnWire, Lapsed
<1>3. eng.job \in Jobs /\ eng.job.op \in 1..MaxMoves /\ hub.log \in Log
  <2>1. eng.job \in Jobs /\ hub.log \in Log /\ ghost.moves \in 0..MaxMoves
    BY <1>1 DEF Engines, Hubs, Ghosts
  <2>2. eng.job.op \in 1..ghost.moves
    BY DEF MoveInv, Wired
  <2> QED BY <2>1, <2>2, Limits
<1>4. CASE eng.job.op \in LogOps
  <2>1. hub'.log = hub.log
    BY <1>3, <1>4, PerformedIs
  <2>2. LogOps' = LogOps
    BY <2>1 DEF LogOps
  <2>3. Queue' = Queue
    BY <1>2, <2>2, SameQueue
  <2> QED BY <1>2, <2>1, <2>3, Stutters
<1>5. CASE eng.job.op \notin LogOps
  <2>1. /\ hub'.log = Append(hub.log, m)
        /\ LogOps' = LogOps \cup {eng.job.op}
    BY SMTT(60), <1>3, <1>5, PerformedIs DEF AsMove, LogOps
  <2>2. eng.job \in Pending
    BY <1>5, PendingIs DEF MoveInv, Wired
  <2>3. \A j \in Pending : j.op = eng.job.op => AsMove(j) = m
    BY PendingIs DEF MoveInv, Wired, AsMove
  <2>4. \A j : j \in Pending' <=> j \in Pending /\ j.op # eng.job.op
    BY <1>2, <2>1, PendingIs, PendingNext
  <2>5. \A j : AsMove(j) = m => j.op = eng.job.op
    BY DEF AsMove
  <2>6. Queue' = Queue \ {m} /\ m \in Queue
    BY <2>2, <2>3, <2>4, <2>5 DEF Queue
  <2>7. \A n \in Queue : Relay!Shares(m, n) => m.op <= n.op
    <3> SUFFICES ASSUME NEW j \in Pending, Relay!Shares(m, AsMove(j))
                 PROVE  m.op <= AsMove(j).op
      BY DEF Queue
    <3>1. Overlap(j, eng.job) /\ m.op = eng.job.op /\ AsMove(j).op = j.op
      BY DEF Relay!Shares, Overlap, AsMove
    <3>2. eng.job.op <= j.op
      BY <1>3, <3>1, PendingIs DEF MoveInv, Wired
    <3> QED BY <3>1, <3>2
  <2>8. Relay!Perform
    BY <1>2, <2>1, <2>6, <2>7 DEF Relay!Perform, Queue, Lapsed
  <2> QED BY <2>8 DEF Relayed, Relay!Next
<1> QED BY <1>4, <1>5

LEMMA HubRelays ==
  ASSUME MoveInv, HubAnswers
  PROVE  Relayed
<1>1. UNCHANGED <<jobs, ghost>> /\ (Lapsed' <=> Lapsed) /\ MovesOf(jobs') = MovesOf(jobs)
  BY DEF HubAnswers, Lapsed
<1>2. hub \in Hubs /\ eng \in Engines
  BY TypeIs DEF MoveInv
<1>3. eng.pc # "idle" /\ \E out : Answer(out)
  BY DEF HubAnswers, HubPut, HubDelete, HubMkdir, HubRmdir, HubRenameDir, HubMkdirInstead
<1>4. eng'.pc # "idle" /\ eng'.job = eng.job
  BY <1>2, <1>3 DEF Answer, Engines
<1>5. MoveOnWire' = MoveOnWire
  BY <1>3, <1>4 DEF MoveOnWire
<1>6. CASE hub'.log = hub.log
  <2>1. LogOps' = LogOps
    BY <1>6 DEF LogOps
  <2>2. Queue' = Queue
    BY <1>1, <1>4, <1>5, <2>1, SameQueue
  <2> QED BY <1>1, <1>6, <2>2, Stutters
<1>7. CASE hub'.log = Performed(eng.job) /\ MoveOnWire
  BY <1>1, <1>4, <1>7, PerformRelays
<1>8. ASSUME HubPut \/ HubDelete \/ HubMkdir \/ HubRmdir
      PROVE  hub'.log = hub.log
  BY <1>2, <1>8 DEF HubPut, HubDelete, HubMkdir, HubRmdir, Hubs
<1>9. ASSUME HubRenameDir \/ HubMkdirInstead
      PROVE  hub'.log = hub.log \/ (hub'.log = Performed(eng.job) /\ MoveOnWire)
  <2>1. MoveOnWire
    BY <1>3, <1>9 DEF HubRenameDir, HubMkdirInstead, MoveOnWire, MoveInv, Requested
  <2>2. CASE HubRenameDir
    <3>1. \/ hub' = hub
          \/ \E file, made, receipts :
               hub' = [file |-> file, made |-> made, receipts |-> receipts,
                       log |-> Performed(eng.job)]
      BY <2>2 DEF HubRenameDir
    <3> QED BY <2>1, <3>1
  <2>3. CASE HubMkdirInstead
    <3>1. hub' = [hub EXCEPT !.made = @ \cup {eng.job.to}, !.log = Performed(eng.job)]
      BY <2>3 DEF HubMkdirInstead
    <3> QED BY <1>2, <2>1, <3>1 DEF Hubs
  <2> QED BY <1>9, <2>2, <2>3
<1> QED BY <1>6, <1>7, <1>8, <1>9 DEF HubAnswers

\* The request ends without an answer and its job is tried again; a move that
\* Rmdir took out of the queue meanwhile is not, and is forgotten now.
LEMMA RetryRelays ==
  ASSUME MoveInv, jobs' = Retried(jobs), eng' = Idle, hub' = hub, Lapsed' <=> Lapsed
  PROVE  Relayed
<1>1. Sound(jobs) /\ eng \in Engines
  BY TypeIs DEF MoveInv
<1>2. MovesOf(jobs') = {[j EXCEPT !.run = FALSE] : j \in MovesOf(jobs)}
  BY <1>1, RetriedIs
<1>3. \A j \in MovesOf(jobs) : LET k == [j EXCEPT !.run = FALSE]
                              IN AsMove(k) = AsMove(j) /\ k.remote = j.remote /\ k.op = j.op
  BY <1>1 DEF MovesOf, Sound, Jobs, AsMove
<1>4. LogOps' = LogOps /\ ~MoveOnWire' /\ Lapsed' = Lapsed
  BY IdleIs DEF LogOps, MoveOnWire, Lapsed
<1>5. Queue' \subseteq Queue
  <2> SUFFICES ASSUME NEW k \in Pending' PROVE AsMove(k) \in Queue
    BY DEF Queue
  <2>1. PICK j \in MovesOf(jobs) : k = [j EXCEPT !.run = FALSE]
    BY <1>2, <1>4, PendingNext
  <2>2. AsMove(k) = AsMove(j) /\ k.remote = j.remote /\ k.op = j.op
    BY <1>3, <2>1
  <2>3. k.remote /\ k.op \notin LogOps
    BY <1>4, PendingNext
  <2>4. j \in Pending
    BY <2>2, <2>3, PendingIs
  <2> QED BY <2>2, <2>4 DEF Queue
<1>6. \A j \in Pending : j \in MovesOf(jobs) => AsMove(j) \in Queue'
  <2> SUFFICES ASSUME NEW j \in Pending, j \in MovesOf(jobs) PROVE AsMove(j) \in Queue'
    OBVIOUS
  <2> DEFINE k == [j EXCEPT !.run = FALSE]
  <2>1. k \in MovesOf(jobs') /\ AsMove(k) = AsMove(j) /\ k.remote = j.remote /\ k.op = j.op
    BY <1>2, <1>3
  <2> HIDE DEF k
  <2>2. k \in Pending'
    BY <1>4, <2>1, PendingIs, PendingNext
  <2> QED BY <2>1, <2>2 DEF Queue
<1>7. CASE Queue' = Queue
  BY <1>4, <1>7, Stutters
<1>8. CASE Queue' # Queue
  <2> DEFINE m    == AsMove(eng.job)
             gone == {m}
  <2>1. PICK j \in Pending : AsMove(j) \notin Queue'
    BY <1>5, <1>8 DEF Queue
  <2>2. j = eng.job /\ MoveOnWire /\ j.op \notin LogOps
    BY <1>6, <2>1, PendingIs
  <2>3. Lapsed
    <3> SUFFICES ASSUME ~Lapsed PROVE FALSE
      OBVIOUS
    <3>1. PICK i \in MovesOf(jobs) : i.op = eng.job.op
      BY <2>2 DEF MoveInv, Wired, Lapsed
    <3>2. AsMove(i) = m /\ i.remote
      BY <2>2, <3>1 DEF MoveInv, Wired, AsMove
    <3>3. i \in Pending
      BY <2>2, <3>1, <3>2, PendingIs
    <3> QED BY <1>6, <2>1, <2>2, <3>1, <3>2, <3>3
  <2>4. \A n \in Queue : n \in Queue' \/ n = m
    BY <1>6, PendingIs DEF Queue
  <2>5. Queue' = Queue \ gone /\ m \in Queue
    BY <1>5, <2>1, <2>2, <2>4 DEF Queue
  <2>6. eng.job.at \in Dirs /\ m.from = eng.job.at
    BY <1>1 DEF Engines, Jobs, AsMove
  <2>7. gone \in SUBSET {n \in Queue : n.from = eng.job.at}
    BY <2>5, <2>6
  <2> HIDE DEF gone
  <2>8. Relay!Forget
    BY <1>4, <2>3, <2>5, <2>6, <2>7 DEF Relay!Forget, Queue, Lapsed
  <2> QED BY <2>8 DEF Relayed, Relay!Next
<1> QED BY <1>7, <1>8

LEMMA FaultRelays ==
  ASSUME MoveInv, Lost \/ Crash
  PROVE  Relayed
<1>1. SameMoves
  BY FaultIs DEF Lost, Crash
<1>2. jobs' = Retried(jobs) /\ eng' = Idle /\ hub' = hub
  BY DEF Lost, Crash
<1>3. Lapsed' <=> Lapsed
  BY <1>1 DEF SameMoves, Lapsed
<1> QED BY <1>2, <1>3, RetryRelays

LEMMA ReplyRelays ==
  ASSUME MoveInv, Reply
  PROVE  Relayed
<1>1. hub' = hub /\ eng.pc = "answered" /\ (Lapsed' <=> Lapsed) /\ LogOps' = LogOps
  BY ReplyIs DEF Lapsed, LogOps
<1>2. CASE eng' = Idle /\ jobs' = Retried(jobs)
  BY <1>1, <1>2, RetryRelays
<1>3. CASE /\ eng' = Idle
           /\ MoveOnWire => eng.job.op \in LogOps
           /\ MovesOf(jobs') = {j \in MovesOf(jobs) : ~j.run}
  <2>1. ~MoveOnWire'
    BY <1>3, IdleIs DEF MoveOnWire
  <2>2. \A j \in MovesOf(jobs) : j.run => j.op \in LogOps
    BY <1>3 DEF MoveInv, Requested
  <2>3. \A j : j \in Pending' <=> j \in Pending
    BY <1>1, <1>3, <2>1, <2>2, PendingIs, PendingNext
  <2>4. Queue' = Queue
    BY <2>3 DEF Queue
  <2> QED BY <1>1, <2>4, Stutters
<1>4. CASE eng' = [eng EXCEPT !.pc = "mkdir"] /\ jobs' = jobs /\ MoveOnWire
  <2>1. eng'.pc = "mkdir" /\ eng'.job = eng.job
    BY <1>4, TypeIs DEF MoveInv, Engines
  <2>2. MoveOnWire' = MoveOnWire /\ MovesOf(jobs') = MovesOf(jobs)
    BY <1>4, <2>1 DEF MoveOnWire
  <2>3. Queue' = Queue
    BY <1>1, <2>1, <2>2, SameQueue
  <2> QED BY <1>1, <2>3, Stutters
<1> QED BY <1>2, <1>3, <1>4, ReplyIs

LEMMA RelayStart == Init => Relay!Init
<1> SUFFICES ASSUME Init PROVE Relay!Init
  OBVIOUS
<1>1. /\ jobs = {} /\ eng.pc = "idle" /\ ghost.flaws = {} /\ hub.log = <<>>
  BY DEF Init, Idle
<1>2. Pending = {}
  BY <1>1, PendingIs DEF MovesOf, MoveOnWire
<1> QED BY <1>1, <1>2 DEF Relay!Init

LEMMA RelayNext == MoveInv /\ [Next]_vars => Relayed
<1> SUFFICES ASSUME MoveInv, [Next]_vars PROVE Relayed
  OBVIOUS
<1>1. CASE User
  BY <1>1, UserRelays, RmdirRelays, IntendRelays DEF User
<1>2. CASE Syscall \/ SyscallFails \/ Commit \/ Restart
  BY <1>2, SessionRelays, SyscallFailsRelays, CommitRelays
<1>3. CASE \E d \in Dirs : RecoverJob(d)
  BY <1>3, UserRelays
<1>4. CASE Start \/ HubAnswers \/ Lost \/ Crash \/ Reply
  BY <1>4, StartRelays, HubRelays, FaultRelays, ReplyRelays
<1>5. CASE UNCHANGED vars
  <2>1. UNCHANGED <<jobs, eng, hub, ghost>> /\ MovesOf(jobs') = MovesOf(jobs)
    BY <1>5 DEF vars
  <2>2. Lapsed' <=> Lapsed
    BY <2>1 DEF Lapsed
  <2> QED BY <2>1, <2>2, OthersStutter
<1> QED BY <1>1, <1>2, <1>3, <1>4, <1>5 DEF Next

\* For any directories, any number of moves, crashes, failed renames and lost
\* replies, and whatever else is queued: the hub performs each move of a synced
\* directory once, and in the device's order where moves share a name, and a
\* move is lost only where the directory it left is removed again (drain_jobs,
\* run_one, the receipts, finish_directory_move, remove_jobs_for).
THEOREM DirMoveRelays == Spec => MovesAreRelayed
<1>1. Init => Relay!Init
  BY RelayStart
<1>2. MoveInv /\ [Next]_vars => [Relay!Next]_(Relay!vars)
  BY RelayNext DEF Relayed
<1> QED BY <1>1, <1>2, MoveInvAlways, PTL DEF Spec, MovesAreRelayed, Relay!Spec

RelayOf == INSTANCE MoveRelayProofs WITH
  Names <- Dirs, Ops <- 1..MaxMoves, queue <- Queue, done <- hub.log, lapsed <- Lapsed

\* What the refinement is for: however the mirror crashes, retries and re-keys
\* its queue, the hub has performed no directory move twice, and of two that share
\* a name the one the user made first, first (drain_jobs, the receipts).
THEOREM HubMovesInOrder == Spec => []Relay!InOrder
<1>1. RelayOf!OpsAreNumbers
  BY DEF RelayOf!OpsAreNumbers
<1>2. RelayOf!Spec => []RelayOf!InOrder
  BY <1>1, RelayOf!PerformedInOrder
<1>3. (Relay!Init <=> RelayOf!Init) /\ (Relay!InOrder <=> RelayOf!InOrder)
  BY DEF Relay!Init, RelayOf!Init, Relay!InOrder, RelayOf!InOrder, Relay!Shares,
         RelayOf!Shares, Queue, Lapsed
<1>4. [Relay!Next]_(Relay!vars) => [RelayOf!Next]_(RelayOf!vars)
  <2>1. Relay!vars' = Relay!vars => RelayOf!vars' = RelayOf!vars
    BY DEF Relay!vars, RelayOf!vars, Queue, Lapsed
  <2>2. Relay!Promise => RelayOf!Promise
    BY DEF Relay!Promise, RelayOf!Promise, Relay!Latest, RelayOf!Latest, Relay!Move,
           RelayOf!Move, Queue, Lapsed
  <2>3. Relay!Withdraw => RelayOf!Withdraw
    BY DEF Relay!Withdraw, RelayOf!Withdraw, Queue, Lapsed
  <2>4. Relay!Perform => RelayOf!Perform
    BY DEF Relay!Perform, RelayOf!Perform, Relay!Shares, RelayOf!Shares, Queue, Lapsed
  <2>5. Relay!Forget => RelayOf!Forget
    BY DEF Relay!Forget, RelayOf!Forget, Queue, Lapsed
  <2> QED BY <2>1, <2>2, <2>3, <2>4, <2>5 DEF Relay!Next, RelayOf!Next
<1> QED BY <1>2, <1>3, <1>4, DirMoveRelays, PTL
        DEF MovesAreRelayed, Relay!Spec, RelayOf!Spec
==============================================================================
