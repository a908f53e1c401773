------------------------------ MODULE ViewTree ------------------------------
(***************************************************************************)
(* The in-memory tree of state.rs that a live mount serves: nodes by       *)
(* inode, a table of names per directory, and the inodes held for a real   *)
(* unlink.  The operators take a tree and return the tree the method       *)
(* leaves, so that a module that composes the tree with the threads that   *)
(* change it decides which of them happen in one step.                     *)
(*                                                                         *)
(* The code never reuses an inode; only their identity matters, so the     *)
(* model takes an unreferenced one from the pool `Inos` instead.           *)
(***************************************************************************)
EXTENDS Naturals, FiniteSets, FiniteSetsExt, SequencesExt

CONSTANTS
  Inos,     \* the pool of inodes
  Root,     \* the directory that is never removed
  Docs,     \* document ids of the workspace, ordered as numbers
  Bases     \* names a document or a folder may be given

ASSUME ViewTreeAssumption ==
  /\ Inos \subseteq Nat \ {0}
  /\ Docs \subseteq Nat \ {0}
  /\ Root \in Inos

NoIno == 0
NoDoc == 0

\* render::with_id_suffix: <<b, d>> is b with the id of d, <<b, 0>> plain b.
Names == Bases \X (Docs \cup {NoDoc})
Plain(b) == <<b, NoDoc>>
WithIdSuffix(b, d) == <<b, d>>

NoNode == [up |-> NoIno]

Nodes(V) == [up : Inos, name : Names, dir : BOOLEAN, val : V] \cup {NoNode}

TreesOf(V) ==
  [node : [Inos -> Nodes(V)],
   kids : [Inos -> [Names -> Inos \cup {NoIno}]],
   tomb : SUBSET Inos]

NoKids == [n \in Names |-> NoIno]

RootNode == [up |-> Root, name |-> Plain(CHOOSE b \in Bases : TRUE),
             dir |-> TRUE, val |-> 0]

BareTree ==
  [node |-> [i \in Inos |-> IF i = Root THEN RootNode ELSE NoNode],
   kids |-> [i \in Inos |-> NoKids],
   tomb |-> {}]

Exists(t, i) == i # NoIno /\ t.node[i] # NoNode

Lookup(t, d, n) ==
  IF Exists(t, t.kids[d][n]) THEN t.kids[d][n] ELSE NoIno

Entries(t, d) == {n \in Names : Lookup(t, d, n) # NoIno}

\* Listed under its own name in its own directory: what a user can reach.
Reachable(t, i) == Exists(t, i) /\ t.kids[t.node[i].up][t.node[i].name] = i

InsertNode(t, i, v) ==
  [t EXCEPT !.node[i] = v, !.kids[v.up][v.name] = i]

\* Takes the name out of the parent whatever inode it leads to by now.  The flag
\* of an inode without a node is never looked at again: the model drops it.
RemoveNode(t, i) ==
  IF ~Exists(t, i) THEN t
  ELSE [t EXCEPT !.kids[t.node[i].up][t.node[i].name] = NoIno,
                 !.kids[i] = NoKids,
                 !.node[i] = NoNode,
                 !.tomb = @ \ {i}]

MoveEntry(t, i, d, n) ==
  IF ~Exists(t, i) THEN t
  ELSE LET unlisted == [t EXCEPT !.kids[t.node[i].up][t.node[i].name] = NoIno]
       IN  [unlisted EXCEPT !.kids[d][n] = i,
                            !.node[i] = [@ EXCEPT !.up = d, !.name = n]]

RenameEntry(t, i, n) == IF Exists(t, i) THEN MoveEntry(t, i, t.node[i].up, n) ELSE t

SetContent(t, i, v) == IF Exists(t, i) THEN [t EXCEPT !.node[i].val = v] ELSE t

\* What is listed below a directory, to any depth the pool allows.
Below(t, i) ==
  LET step(S) == S \cup UNION {{t.kids[j][n] : n \in Names} : j \in S}
      reach[k \in 0..Cardinality(Inos)] ==
        IF k = 0 THEN {t.kids[i][n] : n \in Names} \ {NoIno}
                 ELSE step(reach[k - 1]) \ {NoIno}
  IN  reach[Cardinality(Inos)]

\* RemoveNode of each of them, in any order.
RemoveNodes(t, S) ==
  LET gone == {i \in S : Exists(t, i)}
      left(d) == {t.node[i].name : i \in {j \in gone : t.node[j].up = d}} IN
  [t EXCEPT !.node = [i \in Inos |-> IF i \in gone THEN NoNode ELSE @[i]],
            !.kids = [d \in Inos |-> IF d \in gone THEN NoKids
                                     ELSE [n \in Names |-> IF n \in left(d) THEN NoIno ELSE @[d][n]]],
            !.tomb = @ \ gone]

RemoveSubtree(t, i) == RemoveNodes(t, Below(t, i))

\* InsertNode of each of `new`, a function from inodes to nodes of different names.
InsertNodes(t, new) ==
  LET named(d, n) == {i \in DOMAIN new : new[i].up = d /\ new[i].name = n} IN
  [t EXCEPT !.node = [i \in Inos |-> IF i \in DOMAIN new THEN new[i] ELSE @[i]],
            !.kids = [d \in Inos |-> [n \in Names |->
               IF named(d, n) = {} THEN @[d][n] ELSE CHOOSE i \in named(d, n) : TRUE]]]

\* SetContent of each inode of `val`, a function from inodes to contents.
SetContents(t, val) ==
  [t EXCEPT !.node = [i \in Inos |-> IF i \in DOMAIN val /\ Exists(t, i)
                                       THEN [@[i] EXCEPT !.val = val[i]] ELSE @[i]]]

\* The inodes a tree still mentions.
InUse(t) ==
  {i \in Inos : Exists(t, i)}
    \cup {t.node[i].up : i \in {j \in Inos : Exists(t, j)}}
    \cup (UNION {{t.kids[i][n] : n \in Names} : i \in Inos})
    \cup {i \in Inos : t.kids[i] # NoKids}
    \cup t.tomb

AllocIno(t, held) == CHOOSE i \in Inos \ (InUse(t) \cup held) : TRUE

\* One of its own for each element of S, and the element it was taken for.
AllocInos(t, held, S) ==
  LET ino == CHOOSE f \in Injection(S, Inos \ (InUse(t) \cup held)) : TRUE IN
  [i \in {ino[x] : x \in S} |-> CHOOSE x \in S : ino[x] = i]

(***************************************************************************)
(* Names.  Documents are named in the order of by_placement, those filed   *)
(* at the listed folder first; a document whose plain name is taken gets   *)
(* its id appended.  `sticky[d]` is the name a document was given before,  *)
(* kept while it is still one of the document's two names.                 *)
(***************************************************************************)
PlacedBefore(here, d, e) ==
  \/ d \in here /\ e \notin here
  \/ (d \in here <=> e \in here) /\ d < e

ByPlacement(S, here) == SetToSortSeq(S, LAMBDA d, e : PlacedBefore(here, d, e))

NoName == <<>>

\* Slip: a sticky name is kept without a look at what the document is called now.
NameKept(base, d, taken, sticky) ==
  IF sticky \notin taken THEN sticky
  ELSE IF Plain(base) \in taken THEN WithIdSuffix(base, d)
  ELSE Plain(base)

NameOf(base, d, taken, sticky) ==
  IF /\ sticky \in {Plain(base), WithIdSuffix(base, d)}
     /\ sticky \notin taken
    THEN sticky
  ELSE IF Plain(base) \in taken THEN WithIdSuffix(base, d)
  ELSE Plain(base)

\* The name each document of a listing is to be shown under.
AssignNames(S, base, here, sticky) ==
  LET give(given, d) ==
        [given EXCEPT ![d] = NameOf(base[d], d, {given[e] : e \in S}, sticky[d])]
  IN  FoldLeft(give, [d \in Docs |-> NoName], ByPlacement(S, here))
==============================================================================
