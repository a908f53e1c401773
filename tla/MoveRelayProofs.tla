--------------------------- MODULE MoveRelayProofs ---------------------------
(***************************************************************************)
(* Theorems about MoveRelay: for any names and any number of moves the hub *)
(* performs none twice, and those that share a name in the device's order. *)
(***************************************************************************)
EXTENDS MoveRelay, SequenceTheorems, TLAPS

RelayInv == TypeOK /\ InOrder /\ Settled

LEMMA RelayInit == Init => RelayInv
<1> SUFFICES ASSUME Init PROVE RelayInv
  OBVIOUS
<1>1. queue = {} /\ done = <<>> /\ lapsed = FALSE
  BY DEF Init
<1>2. done \in Seq(Move) /\ Len(done) = 0
  <2>1. <<>> \in Seq(Move) /\ Len(<<>>) = 0
    BY EmptySeq
  <2> QED BY <1>1, <2>1, Zenon
<1>3. \A i : i \notin DOMAIN done
  BY <1>2
<1>4. TypeOK
  BY <1>1, <1>2 DEF TypeOK
<1>5. InOrder
  BY <1>3 DEF InOrder
<1>6. Settled
  BY <1>1, <1>3 DEF Settled
<1> QED BY <1>4, <1>5, <1>6 DEF RelayInv

LEMMA PromiseKeeps == ASSUME OpsAreNumbers, RelayInv, Promise PROVE RelayInv'
<1> USE DEF OpsAreNumbers
<1>1. PICK m \in Move : /\ Latest(m.op) /\ queue' = queue \cup {m}
                        /\ done' = done /\ lapsed' = lapsed
  BY DEF Promise
<1>2. TypeOK'
  BY <1>1 DEF RelayInv, TypeOK
<1>3. InOrder'
  BY <1>1 DEF RelayInv, InOrder
<1>4. m.op \in Nat /\ \A n \in queue : n.op \in Nat /\ n.op < m.op
  BY <1>1 DEF RelayInv, TypeOK, Move, Latest
<1>5. \A i \in DOMAIN done : done[i].op \in Nat /\ done[i].op < m.op
  <2> SUFFICES ASSUME NEW i \in DOMAIN done PROVE done[i].op \in Nat /\ done[i].op < m.op
    OBVIOUS
  <2>1. done[i] \in Move
    BY DEF RelayInv, TypeOK
  <2> QED BY <1>1, <2>1 DEF Move, Latest
<1>6. Settled'
  <2>1. \A n, o \in queue' : n.op = o.op => n = o
    BY <1>1, <1>4 DEF RelayInv, Settled
  <2>2. ASSUME NEW i \in DOMAIN done', NEW n \in queue'
        PROVE  done'[i].op # n.op /\ (Shares(done'[i], n) => done'[i].op < n.op)
    <3>1. i \in DOMAIN done /\ done'[i] = done[i]
      BY <1>1
    <3>2. CASE n = m
      BY <1>4, <1>5, <3>1, <3>2
    <3>3. CASE n \in queue
      BY <3>1, <3>3 DEF RelayInv, Settled
    <3> QED BY <1>1, <3>2, <3>3
  <2> QED BY <2>1, <2>2 DEF Settled
<1> QED BY <1>2, <1>3, <1>6 DEF RelayInv

\* Moves that leave the queue disturb nothing, whichever they are.
LEMMA FewerKeep ==
  ASSUME RelayInv, queue' \subseteq queue, done' = done, lapsed' \in BOOLEAN
  PROVE RelayInv'
<1>1. TypeOK'
  BY DEF RelayInv, TypeOK
<1>2. InOrder'
  BY DEF RelayInv, InOrder
<1>3. Settled'
  BY DEF RelayInv, Settled
<1> QED BY <1>1, <1>2, <1>3 DEF RelayInv

LEMMA PerformKeeps == ASSUME OpsAreNumbers, RelayInv, Perform PROVE RelayInv'
<1> USE DEF OpsAreNumbers
<1>1. PICK m \in queue : /\ \A n \in queue : Shares(m, n) => m.op <= n.op
                         /\ queue' = queue \ {m} /\ done' = Append(done, m)
                         /\ lapsed' = lapsed
  BY DEF Perform
<1>2. TypeOK'
  BY <1>1 DEF RelayInv, TypeOK
<1>3. /\ DOMAIN done = 1..Len(done) /\ DOMAIN done' = 1..Len(done) + 1
      /\ \A i \in 1..Len(done) : done'[i] = done[i]
      /\ done'[Len(done) + 1] = m /\ Len(done) \in Nat
  BY <1>1 DEF RelayInv, TypeOK
<1>4. InOrder'
  <2> SUFFICES ASSUME NEW i \in DOMAIN done', NEW j \in DOMAIN done', i < j
               PROVE  /\ done'[i].op # done'[j].op
                      /\ Shares(done'[i], done'[j]) => done'[i].op < done'[j].op
    BY DEF InOrder
  <2>1. CASE j = Len(done) + 1
    <3>1. i \in DOMAIN done /\ done'[i] = done[i] /\ done'[j] = m
      BY <1>3, <2>1
    <3>2. done[i].op # m.op /\ (Shares(done[i], m) => done[i].op < m.op)
      BY <3>1 DEF RelayInv, Settled
    <3> QED BY <3>1, <3>2
  <2>2. CASE j # Len(done) + 1
    <3>1. /\ i \in DOMAIN done /\ j \in DOMAIN done
          /\ done'[i] = done[i] /\ done'[j] = done[j]
      BY <1>3, <2>2
    <3> QED BY <3>1 DEF RelayInv, InOrder
  <2> QED BY <2>1, <2>2
<1>5. Settled'
  <2>1. \A n, o \in queue' : n.op = o.op => n = o
    BY <1>1 DEF RelayInv, Settled
  <2>2. ASSUME NEW i \in DOMAIN done', NEW n \in queue'
        PROVE  done'[i].op # n.op /\ (Shares(done'[i], n) => done'[i].op < n.op)
    <3>1. CASE i = Len(done) + 1
      <4>1. done'[i] = m /\ n \in queue /\ n # m /\ m \in queue
        BY <1>1, <1>3, <3>1
      <4>2. m.op # n.op
        BY <4>1 DEF RelayInv, Settled
      <4>3. m.op \in Nat /\ n.op \in Nat
        BY <4>1 DEF RelayInv, TypeOK, Move
      <4>4. Shares(m, n) => m.op < n.op
        BY <1>1, <4>1, <4>2, <4>3
      <4> QED BY <4>1, <4>2, <4>4
    <3>2. CASE i # Len(done) + 1
      <4>1. i \in DOMAIN done /\ done'[i] = done[i] /\ n \in queue
        BY <1>1, <1>3, <3>2
      <4> QED BY <4>1 DEF RelayInv, Settled
    <3> QED BY <3>1, <3>2
  <2> QED BY <2>1, <2>2 DEF Settled
<1> QED BY <1>2, <1>4, <1>5 DEF RelayInv

LEMMA RelayStep == ASSUME OpsAreNumbers PROVE RelayInv /\ [Next]_vars => RelayInv'
<1> SUFFICES ASSUME RelayInv, [Next]_vars PROVE RelayInv'
  OBVIOUS
<1>1. CASE Promise
  BY <1>1, PromiseKeeps
<1>2. CASE Withdraw
  <2>1. queue' \subseteq queue /\ done' = done /\ lapsed' \in BOOLEAN
    BY <1>2 DEF Withdraw, RelayInv, TypeOK
  <2> QED BY <2>1, FewerKeep
<1>3. CASE Perform
  BY <1>3, PerformKeeps
<1>4. CASE Forget
  <2>1. queue' \subseteq queue /\ done' = done /\ lapsed' \in BOOLEAN
    BY <1>4 DEF Forget
  <2> QED BY <2>1, FewerKeep
<1>5. CASE UNCHANGED vars
  <2>1. queue' \subseteq queue /\ done' = done /\ lapsed' \in BOOLEAN
    BY <1>5 DEF vars, RelayInv, TypeOK
  <2> QED BY <2>1, FewerKeep
<1> QED BY <1>1, <1>2, <1>3, <1>4, <1>5 DEF Next

\* Every state of the relay is well formed: the queue a set of moves, what the
\* hub performed a sequence of them.
THEOREM RelayTypeCorrect ==
  ASSUME OpsAreNumbers
  PROVE  Spec => []TypeOK
<1>1. RelayInv /\ [Next]_vars => RelayInv'
  BY RelayStep
<1>2. RelayInv => TypeOK
  BY DEF RelayInv
<1> QED BY RelayInit, <1>1, <1>2, PTL DEF Spec

\* The hub performs no directory move twice, and of two that share a name the
\* one the device made first, first (drain_jobs, run_one, the receipts): for
\* any names and any number of moves, whatever was forgotten or withdrawn.
THEOREM PerformedInOrder ==
  ASSUME OpsAreNumbers
  PROVE  Spec => []InOrder
<1>1. RelayInv /\ [Next]_vars => RelayInv'
  BY RelayStep
<1>2. RelayInv => InOrder
  BY DEF RelayInv
<1> QED BY RelayInit, <1>1, <1>2, PTL DEF Spec
==============================================================================
