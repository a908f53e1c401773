------------------------------ MODULE MoveRelay ------------------------------
(***************************************************************************)
(* What a directory move promises (mirror/sync.rs, "A directory move is    *)
(* one durable operation"): the device hands its moves over to the hub,    *)
(* which performs each of them once, and those that share a name in the    *)
(* order in which the device made them, through every crash, every lost    *)
(* reply and whatever else is queued.  DirMove is shown to implement this. *)
(***************************************************************************)
EXTENDS Integers, Sequences

CONSTANTS
  Names,   \* what a directory may be called
  Ops      \* numbers for the moves, in the order in which the device makes them

\* What the theorems assume of the numbers.
OpsAreNumbers == Ops \subseteq Nat

VARIABLES
  queue,   \* moves the hub has still to perform
  done,    \* moves it has performed, in its order
  lapsed   \* has a move been forgotten?

vars == <<queue, done, lapsed>>

Move == [op : Ops, from : Names, to : Names]

Shares(m, n) == {m.from, m.to} \cap {n.from, n.to} # {}

Init == queue = {} /\ done = <<>> /\ lapsed = FALSE

Latest(op) ==
  /\ \A n \in queue : n.op < op
  /\ \A i \in DOMAIN done : done[i].op < op

\* The device makes a move.
Promise ==
  \E m \in Move :
    /\ m.from # m.to /\ Latest(m.op)
    /\ queue' = queue \cup {m}
    /\ UNCHANGED <<done, lapsed>>

\* rename(2) failed: there was no move.
Withdraw ==
  \E m \in queue :
    /\ \A n \in queue : n.op <= m.op
    /\ \A i \in DOMAIN done : done[i].op < m.op
    /\ queue' = queue \ {m}
    /\ UNCHANGED <<done, lapsed>>

\* The hub performs a move, no earlier one on either of its names waiting.
Perform ==
  \E m \in queue :
    /\ \A n \in queue : Shares(m, n) => m.op <= n.op
    /\ queue' = queue \ {m}
    /\ done' = Append(done, m)
    /\ UNCHANGED lapsed

\* The directory at a name is removed, and moves that left it are forgotten
\* (remove_jobs_for): no promise of a document, but what the program does.
Forget ==
  \E name \in Names : \E gone \in SUBSET {m \in queue : m.from = name} :
    /\ queue' = queue \ gone
    /\ lapsed' = TRUE
    /\ UNCHANGED done

Next == Promise \/ Withdraw \/ Perform \/ Forget

Spec == Init /\ [][Next]_vars

TypeOK == queue \subseteq Move /\ done \in Seq(Move) /\ lapsed \in BOOLEAN

\* The hub performs no move twice, and moves that share a name in the order of
\* the device: a later one never overtakes (drain_jobs, run_one).
InOrder ==
  \A i, j \in DOMAIN done :
    i < j => /\ done[i].op # done[j].op
             /\ Shares(done[i], done[j]) => done[i].op < done[j].op

\* A performed move has left the queue and is not overtaken by one still there.
Settled ==
  /\ \A m, n \in queue : m.op = n.op => m = n
  /\ \A i \in DOMAIN done : \A m \in queue :
       /\ done[i].op # m.op
       /\ Shares(done[i], m) => done[i].op < m.op
==============================================================================
