------------------------- MODULE ContextViewProofs -------------------------
(***************************************************************************)
(* Theorems about ContextView, for any contexts, documents, inodes and     *)
(* bounds: a save an application was told is done is at the server, and,   *)
(* while inodes last, the tables of the tree agree.                        *)
(*                                                                         *)
(* The first argument follows contents only.  A buffer becomes clean when  *)
(* it is sent, and is the file's content at the server once that is        *)
(* answered; a file opened for writing starts with what the tree shows,    *)
(* and the tree shows nothing the server has not had.  Where a name leads, *)
(* and which inode stands for which document, plays no part in it.  The    *)
(* second is about just that, and rests on the first for the shape of the  *)
(* state.                                                                  *)
(***************************************************************************)
EXTENDS ContextView, WellFoundedInduction, TLAPS

(***************************************************************************)
(* The parts of the invariant.                                             *)
(***************************************************************************)
GhostOK == DOMAIN ghost = {"touched", "stored"} /\ 0 \in ghost.stored

\* The server has what it had.
ServerOK ==
  /\ DOMAIN srv = {"live", "born", "filed", "here", "base", "val"}
  /\ DOMAIN srv.filed = Contexts /\ DOMAIN srv.val = Docs
  /\ srv.born \subseteq Docs
  /\ \A c \in Contexts : srv.filed[c] \subseteq Docs
  /\ \A d \in Docs : srv.val[d] \in ghost.stored

\* A tree that shows contents of V alone.
NodeShows(x, V) == x = NoNode \/ (DOMAIN x = {"up", "name", "dir", "val"} /\ x.val \in V)
TreeShows(t, V) ==
  /\ DOMAIN t = {"node", "kids", "tomb"}
  /\ DOMAIN t.node = Inos
  /\ \A i \in Inos : NodeShows(t.node[i], V)

ViewOK ==
  /\ DOMAIN view = {"t", "ctx", "doc", "sticky"}
  /\ TreeShows(view.t, ghost.stored)

\* So does a listing that waits to be applied.
ListingOK ==
  /\ DOMAIN work = {"jobs", "at"}
  /\ DOMAIN work.at = {"pc", "todo", "ctx", "got", "gone"}
  /\ work.at.pc = "apply" =>
       work.at.got.docs \subseteq Docs
         /\ \A d \in Docs : work.at.got.val[d] \in ghost.stored

HandlerOK ==
  /\ DOMAIN fs = {"pc", "out", "ctx", "ino", "doc", "from", "over", "to", "val", "final"}
  /\ fs.pc = "flush" => fs.ino \in Inos /\ open[fs.ino] # NoHandle
  /\ fs.pc = "flush" /\ fs.out = "ok" => open[fs.ino].buf \in ghost.stored
  /\ (fs.pc = "replace" /\ fs.out = "ok") \/ fs.pc = "detach" => fs.val \in ghost.stored

\* A buffer that is neither dirty nor on its way is stored, and so is one whose
\* save was answered.
Flushing(i) == fs.pc = "flush" /\ fs.ino = i
HandleOK(h, flushing, V) ==
  \/ h = NoHandle
  \/ /\ DOMAIN h = {"ctx", "doc", "dir", "name", "buf", "dirty", "entry", "told"}
     /\ h.told = "ok" => h.buf \in V
     /\ ~h.dirty => flushing \/ h.buf \in V
OpenOK ==
  /\ DOMAIN open = Inos
  /\ \A i \in Inos : HandleOK(open[i], Flushing(i), ghost.stored)

StoredInv == GhostOK /\ ServerOK /\ ViewOK /\ ListingOK /\ HandlerOK /\ OpenOK

(***************************************************************************)
(* The tree.  No operation shows anything but what it is given.            *)
(***************************************************************************)
NodeFields == {"up", "name", "dir", "val"}

LEMMA ShowsMore ==
  ASSUME NEW V, NEW W, V \subseteq W, NEW t, TreeShows(t, V)
  PROVE  TreeShows(t, W)
BY DEF TreeShows, NodeShows

LEMMA InsertShows ==
  ASSUME NEW V, NEW t, TreeShows(t, V), NEW i, NEW v, DOMAIN v = NodeFields, v.val \in V
  PROVE  TreeShows(InsertNode(t, i, v), V)
BY DEF TreeShows, NodeShows, InsertNode, NodeFields

LEMMA RemoveShows ==
  ASSUME NEW V, NEW t, TreeShows(t, V), NEW i
  PROVE  TreeShows(RemoveNode(t, i), V)
BY DEF TreeShows, NodeShows, RemoveNode

LEMMA RemoveAllShows ==
  ASSUME NEW V, NEW t, TreeShows(t, V), NEW S
  PROVE  TreeShows(RemoveNodes(t, S), V)
<1> DEFINE gone == {i \in S : Exists(t, i)}
           r == RemoveNodes(t, S)
<1>1. /\ DOMAIN r = {"node", "kids", "tomb"}
      /\ r.node = [i \in Inos |-> IF i \in gone THEN NoNode ELSE t.node[i]]
  BY DEF TreeShows, RemoveNodes
<1> HIDE DEF r, gone
<1>2. TreeShows(r, V)
  BY <1>1 DEF TreeShows, NodeShows
<1> QED BY <1>2 DEF r

LEMMA MoveShows ==
  ASSUME NEW V, NEW t, TreeShows(t, V), NEW i, NEW d, NEW n
  PROVE  TreeShows(MoveEntry(t, i, d, n), V)
<1>1. CASE ~Exists(t, i)
  BY <1>1 DEF MoveEntry
<1>2. CASE Exists(t, i)
  <2> DEFINE u == [t EXCEPT !.kids[t.node[i].up][t.node[i].name] = NoIno]
             r == [u EXCEPT !.kids[d][n] = i, !.node[i] = [@ EXCEPT !.up = d, !.name = n]]
  <2>1. MoveEntry(t, i, d, n) = r
    BY <1>2 DEF MoveEntry
  <2>2. DOMAIN u = {"node", "kids", "tomb"} /\ u.node = t.node
    BY DEF TreeShows
  <2> HIDE DEF u
  <2>3. /\ DOMAIN r = {"node", "kids", "tomb"} /\ DOMAIN r.node = Inos
        /\ \A j \in Inos : r.node[j] = IF j = i THEN [t.node[i] EXCEPT !.up = d, !.name = n]
                                       ELSE t.node[j]
    BY <2>2 DEF TreeShows
  <2> HIDE DEF r
  <2>4. ASSUME i \in Inos PROVE NodeShows([t.node[i] EXCEPT !.up = d, !.name = n], V)
    BY <1>2, <2>4 DEF TreeShows, NodeShows, Exists
  <2> QED BY <2>1, <2>3, <2>4 DEF TreeShows
<1> QED BY <1>1, <1>2

LEMMA RenameShows ==
  ASSUME NEW V, NEW t, TreeShows(t, V), NEW i, NEW n
  PROVE  TreeShows(RenameEntry(t, i, n), V)
BY MoveShows DEF RenameEntry

LEMMA ContentShows ==
  ASSUME NEW V, NEW t, TreeShows(t, V), NEW i, NEW v \in V
  PROVE  TreeShows(SetContent(t, i, v), V)
<1> DEFINE r == [t EXCEPT !.node[i].val = v]
<1>1. CASE ~Exists(t, i)
  BY <1>1 DEF SetContent
<1>2. CASE Exists(t, i)
  <2>1. SetContent(t, i, v) = r
    BY <1>2 DEF SetContent
  <2>2. /\ DOMAIN r = {"node", "kids", "tomb"} /\ DOMAIN r.node = Inos
        /\ \A j \in Inos : r.node[j] = IF j = i THEN [t.node[i] EXCEPT !.val = v] ELSE t.node[j]
    BY DEF TreeShows
  <2> HIDE DEF r
  <2>3. ASSUME i \in Inos PROVE NodeShows([t.node[i] EXCEPT !.val = v], V)
    BY <1>2, <2>3 DEF TreeShows, NodeShows, Exists
  <2> QED BY <2>1, <2>2, <2>3 DEF TreeShows
<1> QED BY <1>1, <1>2

LEMMA InsertAllShows ==
  ASSUME NEW V, NEW t, TreeShows(t, V), NEW new,
         \A i \in DOMAIN new : DOMAIN new[i] = NodeFields /\ new[i].val \in V
  PROVE  TreeShows(InsertNodes(t, new), V)
<1> DEFINE r == InsertNodes(t, new)
<1>1. /\ DOMAIN r = {"node", "kids", "tomb"}
      /\ r.node = [i \in Inos |-> IF i \in DOMAIN new THEN new[i] ELSE t.node[i]]
  BY DEF TreeShows, InsertNodes
<1> HIDE DEF r
<1>2. TreeShows(r, V)
  BY <1>1 DEF TreeShows, NodeShows, NodeFields
<1> QED BY <1>2 DEF r

LEMMA ContentsShow ==
  ASSUME NEW V, NEW t, TreeShows(t, V), NEW val, \A i \in DOMAIN val : val[i] \in V
  PROVE  TreeShows(SetContents(t, val), V)
<1> DEFINE r == SetContents(t, val)
<1>1. /\ DOMAIN r = {"node", "kids", "tomb"}
      /\ r.node = [i \in Inos |-> IF i \in DOMAIN val /\ Exists(t, i)
                                  THEN [t.node[i] EXCEPT !.val = val[i]] ELSE t.node[i]]
  BY DEF TreeShows, SetContents
<1> HIDE DEF r
<1>2. ASSUME NEW i \in Inos, i \in DOMAIN val, Exists(t, i)
      PROVE  NodeShows([t.node[i] EXCEPT !.val = val[i]], V)
  BY <1>2 DEF TreeShows, NodeShows, Exists
<1>3. TreeShows(r, V)
  BY <1>1, <1>2 DEF TreeShows
<1> QED BY <1>3 DEF r

(***************************************************************************)
(* Frames.  What the server has had only grows.                            *)
(***************************************************************************)
Grows == GhostOK' /\ ghost.stored \subseteq ghost.stored'

LEMMA SameGhost ==
  ASSUME GhostOK, ghost' = ghost
  PROVE  Grows
BY DEF Grows, GhostOK

LEMMA ServerFrame ==
  ASSUME ServerOK, Grows, srv' = srv
  PROVE  ServerOK'
BY DEF ServerOK, Grows

LEMMA ViewFrame ==
  ASSUME ViewOK, Grows, view' = view
  PROVE  ViewOK'
BY ShowsMore DEF ViewOK, Grows

LEMMA ListingFrame ==
  ASSUME ListingOK, Grows, DOMAIN work' = DOMAIN work, work'.at = work.at
  PROVE  ListingOK'
BY DEF ListingOK, Grows

LEMMA FilesFrame ==
  ASSUME HandlerOK, OpenOK, Grows, fs' = fs, open' = open
  PROVE  HandlerOK' /\ OpenOK'
<1>1. HandlerOK'
  BY DEF HandlerOK, Grows
<1>2. OpenOK'
  BY DEF OpenOK, Grows, HandleOK, Flushing
<1> QED BY <1>1, <1>2

LEMMA AnnounceFrame ==
  ASSUME ListingOK, Grows, NEW S, Announce(S)
  PROVE  ListingOK'
<1>1. DOMAIN work' = DOMAIN work /\ work'.at = work.at
  BY DEF Announce, ListingOK
<1> QED BY <1>1, ListingFrame

(***************************************************************************)
(* The server and the other clients.                                       *)
(***************************************************************************)
LEMMA LeastDoc ==
  ASSUME NextDoc # {}
  PROVE  NewDoc \in Docs /\ NewDoc \notin srv.born
<1> DEFINE Less == {ss \in Nat \X Nat : ss[1] < ss[2]}
<1>1. IsWellFoundedOn(Less, Nat)
  BY NatLessThanWellFounded DEF OpToRel
<1>2. \A x, y \in Nat : <<y, x>> \in Less <=> y < x
  OBVIOUS
<1> HIDE DEF Less
<1>3. NextDoc \subseteq Nat /\ NextDoc \subseteq Docs
  BY ViewTreeAssumption DEF NextDoc
<1>4. PICK n \in NextDoc : \A m \in NextDoc : ~ (<<m, n>> \in Less)
  BY <1>1, <1>3, WFMin
<1>5. \A m \in NextDoc : n <= m
  <2> TAKE m \in NextDoc
  <2>1. n \in Nat /\ m \in Nat /\ ~ (m < n)
    BY <1>2, <1>3, <1>4
  <2> QED BY <2>1
<1> QED BY <1>3, <1>5 DEF NewDoc, NextDoc

LEMMA FiledServer ==
  ASSUME ServerOK, Grows, NEW c, NEW d \in Docs, NEW b, NEW v \in ghost.stored',
         srv' = Filed(srv, c, d, b, v)
  PROVE  ServerOK'
BY DEF ServerOK, Grows, Filed

LEMMA DetachedServer ==
  ASSUME ServerOK, Grows, NEW c, NEW d, srv' = [srv EXCEPT !.filed[c] = @ \ {d}]
  PROVE  ServerOK'
BY DEF ServerOK, Grows

LEMMA WrittenServer ==
  ASSUME ServerOK, Grows, NEW d, NEW v \in ghost.stored', srv' = [srv EXCEPT !.val[d] = v]
  PROVE  ServerOK'
BY DEF ServerOK, Grows

LEMMA NamedServer ==
  ASSUME ServerOK, Grows, NEW d, NEW b, srv' = [srv EXCEPT !.base[d] = b]
  PROVE  ServerOK'
BY DEF ServerOK, Grows

LEMMA PeerStep ==
  ASSUME StoredInv, Peers
  PROVE  StoredInv'
<1> USE DEF StoredInv
<1> SUFFICES ASSUME NEW c \in Contexts, NEW d \in Docs, NEW b \in Bases, NEW here \in BOOLEAN,
                    \/ PeerFiles(c, d, here) \/ PeerCreates(c, b) \/ PeerDetaches(c, d)
                    \/ PeerEdits(d) \/ PeerRenames(d, b) \/ PeerTogglesContext(c)
             PROVE  StoredInv'
  BY DEF Peers
<1>1. view' = view /\ open' = open /\ fs' = fs
  BY DEF PeerFiles, PeerCreates, PeerDetaches, PeerEdits, PeerRenames, PeerTogglesContext, Peer
<1> SUFFICES Grows /\ ServerOK' /\ ListingOK'
  BY <1>1, ViewFrame, FilesFrame DEF Grows
<1>2. Grows
  BY DEF PeerFiles, PeerCreates, PeerDetaches, PeerEdits, PeerRenames, PeerTogglesContext,
         Touched, Grows, GhostOK
<1>3. CASE PeerFiles(c, d, here)
  <2>1. ServerOK'
    BY <1>2, <1>3 DEF PeerFiles, ServerOK, Grows
  <2> QED BY <1>2, <1>3, <2>1, AnnounceFrame DEF PeerFiles
<1>4. CASE PeerCreates(c, b)
  <2>1. ServerOK'
    BY <1>2, <1>4, LeastDoc, FiledServer DEF PeerCreates, GhostOK, Grows
  <2> QED BY <1>2, <1>4, <2>1, AnnounceFrame DEF PeerCreates
<1>5. CASE PeerDetaches(c, d)
  BY <1>2, <1>5, DetachedServer, AnnounceFrame DEF PeerDetaches
<1>6. CASE PeerEdits(d)
  <2>1. Fresh \in ghost.stored'
    BY <1>6 DEF PeerEdits, Touched, GhostOK
  <2>2. ServerOK'
    BY <1>2, <1>6, <2>1, WrittenServer DEF PeerEdits
  <2> QED BY <1>2, <1>6, <2>2, AnnounceFrame DEF PeerEdits
<1>7. CASE PeerRenames(d, b)
  BY <1>2, <1>7, NamedServer, AnnounceFrame DEF PeerRenames
<1>8. CASE PeerTogglesContext(c)
  <2>1. ServerOK'
    BY <1>2, <1>8 DEF PeerTogglesContext, ServerOK, Grows
  <2>2. DOMAIN work' = DOMAIN work /\ work'.at = work.at
    BY <1>8 DEF PeerTogglesContext, ListingOK
  <2> QED BY <1>2, <2>1, <2>2, ListingFrame
<1> QED BY <1>3, <1>4, <1>5, <1>6, <1>7, <1>8

(***************************************************************************)
(* The user's operations.                                                  *)
(***************************************************************************)
HandleFields == {"ctx", "doc", "dir", "name", "buf", "dirty", "entry", "told"}

\* A step of the user: the server, the listing and the history are left alone.
LEMMA LocalStep ==
  ASSUME StoredInv, Local, ghost' = ghost, ViewOK', HandlerOK', OpenOK'
  PROVE  StoredInv'
BY SameGhost, ServerFrame, ListingFrame DEF StoredInv, Local, Grows

\* One in which no handler is under way, before or after.
LEMMA IdleStep ==
  ASSUME StoredInv, Local, ghost' = ghost, view' = view, fs' = fs, fs.pc = "idle", OpenOK'
  PROVE  StoredInv'
<1>1. HandlerOK'
  BY DEF StoredInv, HandlerOK
<1>2. ViewOK'
  BY SameGhost, ViewFrame DEF StoredInv
<1> QED BY <1>1, <1>2, LocalStep

LEMMA OpenStep ==
  ASSUME StoredInv, NEW c, NEW n, NEW truncate \in BOOLEAN, OpenExisting(c, n, truncate)
  PROVE  StoredInv'
<1> DEFINE i == FileAt(c, n)
           h == [ctx |-> c, doc |-> DocOf(c, i), dir |-> view.ctx[c], name |-> n,
                 buf |-> IF truncate THEN 0 ELSE view.t.node[i].val,
                 dirty |-> truncate, entry |-> "none", told |-> "nothing"]
<1>1. /\ open' = [open EXCEPT ![i] = h] /\ i # NoIno
      /\ Local /\ ghost' = ghost /\ view' = view /\ fs' = fs /\ fs.pc = "idle"
  BY DEF OpenExisting, Idling
<1>2. Exists(view.t, i)
  BY Zenon, <1>1 DEF FileAt, Lookup
<1>3. ASSUME i \in Inos PROVE HandleOK(h, FALSE, ghost.stored)
  <2>1. view.t.node[i].val \in ghost.stored
    BY <1>2, <1>3 DEF StoredInv, ViewOK, TreeShows, NodeShows, Exists
  <2>2. h.buf \in ghost.stored
    BY <2>1 DEF StoredInv, GhostOK
  <2>3. DOMAIN h = HandleFields /\ h.told # "ok"
    BY DEF HandleFields
  <2> HIDE DEF h
  <2> QED BY <2>2, <2>3 DEF HandleOK, HandleFields
<1> HIDE DEF i, h
<1>4. OpenOK'
  BY <1>1, <1>3 DEF StoredInv, OpenOK, HandleOK, Flushing
<1> QED BY <1>1, <1>4, IdleStep

LEMMA CreateStep ==
  ASSUME StoredInv, NEW c, NEW b, Create(c, b)
  PROVE  StoredInv'
<1> DEFINE i == AllocIno(view.t, Held)
           h == [ctx |-> c, doc |-> NoDoc, dir |-> view.ctx[c], name |-> Plain(b), buf |-> 0,
                 dirty |-> TRUE, entry |-> "listed", told |-> "nothing"]
<1>1. /\ open' = [open EXCEPT ![i] = h]
      /\ Local /\ ghost' = ghost /\ view' = view /\ fs' = fs /\ fs.pc = "idle"
  BY DEF Create, Idling
<1>2. HandleOK(h, FALSE, ghost.stored)
  BY DEF HandleOK
<1> HIDE DEF i, h
<1>3. OpenOK'
  BY <1>1, <1>2 DEF StoredInv, OpenOK, HandleOK, Flushing
<1> QED BY <1>1, <1>3, IdleStep

LEMMA WriteStep ==
  ASSUME StoredInv, NEW i \in Inos, Write(i)
  PROVE  StoredInv'
<1> DEFINE h == [open[i] EXCEPT !.buf = Fresh, !.dirty = TRUE, !.told = "nothing"]
<1>1. /\ open' = [open EXCEPT ![i] = h] /\ open[i] # NoHandle
      /\ Local /\ ghost' = ghost /\ view' = view /\ fs' = fs /\ fs.pc = "idle"
  BY DEF Write, Idling
<1>2. DOMAIN open[i] = HandleFields
  BY <1>1 DEF StoredInv, OpenOK, HandleOK, HandleFields
<1>3. HandleOK(h, FALSE, ghost.stored)
  BY <1>2 DEF HandleOK, HandleFields
<1> HIDE DEF h
<1>4. OpenOK'
  BY <1>1, <1>3 DEF StoredInv, OpenOK, HandleOK, Flushing
<1> QED BY <1>1, <1>4, IdleStep

\* What is not to be sent is the empty file, or has been.
LEMMA NothingStored ==
  ASSUME StoredInv, NEW i \in Inos, open[i] # NoHandle, fs.pc = "idle",
         NEW final \in BOOLEAN, NothingToSend(i, final)
  PROVE  open[i].buf \in ghost.stored
BY DEF StoredInv, GhostOK, OpenOK, HandleOK, Flushing, NothingToSend

\* A save sets out: the handle is clean, and stays so if the save succeeds.
LEMMA SaveStep ==
  ASSUME StoredInv, NEW i \in Inos, open[i] # NoHandle, fs.pc = "idle",
         Local, ghost' = ghost, view' = view,
         NEW final, fs' = [FsIdle EXCEPT !.pc = "flush", !.ino = i, !.final = final, !.out = "none"],
         open' = [open EXCEPT ![i].dirty = FALSE]
  PROVE  StoredInv'
<1> DEFINE h == [open[i] EXCEPT !.dirty = FALSE]
<1>1. /\ HandleOK(open[i], FALSE, ghost.stored) /\ DOMAIN open = Inos
      /\ open[i] # NoHandle
  BY DEF StoredInv, OpenOK, HandleOK, Flushing
<1>2. HandleOK(h, TRUE, ghost.stored) /\ h # NoHandle
  BY <1>1 DEF HandleOK, NoHandle
<1>3. DOMAIN open' = Inos /\ \A j \in Inos : open'[j] = IF j = i THEN h ELSE open[j]
  BY <1>1
<1> HIDE DEF h
<1>4. /\ fs'.pc = "flush" /\ fs'.ino = i /\ fs'.out = "none"
      /\ DOMAIN fs' = {"pc", "out", "ctx", "ino", "doc", "from", "over", "to", "val", "final"}
  BY DEF FsIdle
<1>5. HandlerOK'
  BY <1>2, <1>3, <1>4 DEF HandlerOK
<1>6. OpenOK'
  BY <1>2, <1>3, <1>4 DEF StoredInv, OpenOK, HandleOK, Flushing
<1>7. ViewOK'
  BY SameGhost, ViewFrame DEF StoredInv
<1> QED BY <1>5, <1>6, <1>7, LocalStep

LEMMA FlushStep ==
  ASSUME StoredInv, NEW i \in Inos, Flush(i)
  PROVE  StoredInv'
<1>1. /\ fs.pc = "idle" /\ open[i] # NoHandle /\ Local /\ ghost' = ghost /\ view' = view
  BY DEF Flush, SyncFree
<1>2. CASE NothingToSend(i, FALSE)
  <2> DEFINE h == [open[i] EXCEPT !.told = "ok"]
  <2>1. open' = [open EXCEPT ![i] = h] /\ fs' = fs
    BY <1>2 DEF Flush
  <2>2. open[i].buf \in ghost.stored
    BY <1>1, <1>2, NothingStored
  <2>3. DOMAIN open[i] = HandleFields
    BY <1>1 DEF StoredInv, OpenOK, HandleOK, HandleFields
  <2>4. HandleOK(h, FALSE, ghost.stored)
    BY <2>2, <2>3 DEF HandleOK, HandleFields
  <2> HIDE DEF h
  <2>5. OpenOK'
    BY <1>1, <2>1, <2>4 DEF StoredInv, OpenOK, HandleOK, Flushing
  <2> QED BY <1>1, <2>1, <2>5, IdleStep
<1>3. CASE ~NothingToSend(i, FALSE)
  <2>1. /\ fs' = [FsIdle EXCEPT !.pc = "flush", !.ino = i, !.final = FALSE, !.out = "none"]
        /\ open' = [open EXCEPT ![i].dirty = FALSE]
    BY ZenonT(60), <1>3 DEF Flush, Ask, FsIdle
  <2> QED BY <1>1, <2>1, SaveStep
<1> QED BY <1>2, <1>3

LEMMA ReleaseStep ==
  ASSUME StoredInv, NEW i \in Inos, Release(i)
  PROVE  StoredInv'
<1>1. /\ fs.pc = "idle" /\ open[i] # NoHandle /\ Local /\ ghost' = ghost /\ view' = view
  BY DEF Release, SyncFree
<1>2. CASE NothingToSend(i, TRUE)
  <2>1. open' = [open EXCEPT ![i] = NoHandle] /\ fs' = fs
    BY <1>2 DEF Release
  <2>2. OpenOK'
    BY <1>1, <2>1 DEF StoredInv, OpenOK, HandleOK, Flushing
  <2> QED BY <1>1, <2>1, <2>2, IdleStep
<1>3. CASE ~NothingToSend(i, TRUE)
  <2>1. /\ fs' = [FsIdle EXCEPT !.pc = "flush", !.ino = i, !.final = TRUE, !.out = "none"]
        /\ open' = [open EXCEPT ![i].dirty = FALSE]
    BY <1>3 DEF Release, Ask, FsIdle
  <2> QED BY <1>1, <2>1, SaveStep
<1> QED BY <1>2, <1>3

\* A handler that asks for something else than a save.
LEMMA AskStep ==
  ASSUME StoredInv, fs.pc = "idle", view' = view, open' = open, ghost' = ghost,
         DOMAIN fs' = DOMAIN FsIdle, fs'.pc \notin {"flush", "detach"}, fs'.out = "none"
  PROVE  ViewOK' /\ HandlerOK' /\ OpenOK'
<1>1. HandlerOK'
  BY DEF FsIdle, HandlerOK
<1>2. OpenOK'
  BY DEF StoredInv, OpenOK, HandleOK, Flushing
<1> QED BY <1>1, <1>2, SameGhost, ViewFrame DEF StoredInv

\* unlink(2), whoever it comes from.
LEMMA UnlinkStep ==
  ASSUME StoredInv, NEW c, NEW n, Unlink(c, n), ghost' = ghost
  PROVE  ViewOK' /\ HandlerOK' /\ OpenOK'
<1> USE DEF StoredInv
<1>1. CASE CollectTombstone(c, n)
  <2>1. view' = WithoutDocNode(Entry(c, n)) /\ open' = open /\ fs' = fs
    BY <1>1 DEF CollectTombstone
  <2>2. ViewOK'
    BY <2>1, RemoveShows DEF ViewOK, WithoutDocNode
  <2> QED BY <2>1, <2>2, SameGhost, FilesFrame
<1>2. CASE DropPending(c, n)
  <2>1. /\ view' = view /\ fs' = fs /\ fs.pc = "idle"
        /\ open' = [i \in Inos |-> IF i \in Pending(c, n) THEN NoHandle ELSE open[i]]
    BY <1>2 DEF DropPending, SyncFree
  <2>2. OpenOK'
    BY <2>1 DEF OpenOK, HandleOK, Flushing
  <2>3. HandlerOK'
    BY <2>1 DEF HandlerOK
  <2> QED BY <2>1, <2>2, <2>3, SameGhost, ViewFrame
<1>3. CASE AskUnlink(c, n)
  <2>1. /\ view' = view /\ open' = open /\ fs.pc = "idle"
        /\ DOMAIN fs' = DOMAIN FsIdle /\ fs'.pc = "unlink" /\ fs'.out = "none"
    BY <1>3 DEF AskUnlink, SyncFree, FsIdle
  <2> QED BY <2>1, AskStep
<1> QED BY <1>1, <1>2, <1>3 DEF Unlink

LEMMA RenameStep ==
  ASSUME StoredInv, NEW c, NEW n, NEW m, Rename(c, n, m)
  PROVE  StoredInv'
<1>1. fs.pc = "idle" /\ Local /\ ghost' = ghost /\ view' = view
  BY DEF Rename, SyncFree
<1>2. CASE RenamePending(c, n, m)
  <2> DEFINE d == IF FileAt(c, m) = NoIno THEN NoDoc ELSE DocOf(c, FileAt(c, m))
  <2>1. /\ fs' = fs
        /\ open' = [i \in Inos |->
             IF i \in Pending(c, n) /\ d # NoDoc
               THEN [open[i] EXCEPT !.doc = d, !.dirty = TRUE, !.name = m, !.entry = "hidden"]
             ELSE IF i \in Pending(c, n) THEN [open[i] EXCEPT !.name = m]
             ELSE IF i \in Pending(c, m) /\ d = NoDoc THEN [open[i] EXCEPT !.entry = "hidden"]
             ELSE open[i]]
    BY <1>2 DEF RenamePending
  <2> HIDE DEF d
  <2>2. \A i \in Pending(c, n) \cup Pending(c, m) : i \in Inos /\ open[i] # NoHandle
    BY DEF Pending, OpenInos
  <2>3. ASSUME NEW i \in Inos PROVE HandleOK(open'[i], FALSE, ghost.stored)
    <3>1. HandleOK(open[i], FALSE, ghost.stored)
      BY SMTT(60), <1>1 DEF StoredInv, OpenOK, HandleOK, Flushing
    <3> QED BY <2>1, <2>2, <3>1 DEF HandleOK
  <2>4. OpenOK'
    BY <1>1, <2>1, <2>3 DEF OpenOK, HandleOK, Flushing
  <2> QED BY <1>1, <2>1, <2>4, IdleStep
<1>3. CASE RenameFile(c, n, m)
  <2>1. /\ open' = open /\ DOMAIN fs' = DOMAIN FsIdle
        /\ fs'.pc \in {"filename", "replace"} /\ fs'.out = "none"
    BY <1>3 DEF RenameFile, FsIdle
  <2> QED BY <1>1, <2>1, AskStep, LocalStep
<1> QED BY <1>2, <1>3 DEF Rename

LEMMA UserStep ==
  ASSUME StoredInv, User
  PROVE  StoredInv'
<1>1. ASSUME NEW c, NEW n, UserUnlinks(c, n) PROVE StoredInv'
  BY <1>1, UnlinkStep, LocalStep DEF UserUnlinks
<1> QED BY <1>1, OpenStep, RenameStep, CreateStep, WriteStep, FlushStep, ReleaseStep DEF User

(***************************************************************************)
(* The requests.                                                           *)
(***************************************************************************)

\* Of the handler's state only the answer changes, and the new document's id.
Continues ==
  /\ DOMAIN fs' = DOMAIN fs /\ fs'.pc = fs.pc /\ fs'.ino = fs.ino /\ fs'.val = fs.val

LEMMA AskedStep ==
  ASSUME StoredInv, Continues, view' = view, open' = open, Grows, ServerOK', ListingOK',
         fs.pc = "flush" /\ fs'.out = "ok" => open[fs.ino].buf \in ghost.stored',
         fs.pc = "replace" /\ fs'.out = "ok" => fs.val \in ghost.stored'
  PROVE  StoredInv'
<1>1. HandlerOK'
  BY DEF StoredInv, HandlerOK, Continues, Grows
<1>2. OpenOK'
  BY DEF StoredInv, OpenOK, HandleOK, Flushing, Continues, Grows
<1> QED BY <1>1, <1>2, ViewFrame DEF StoredInv, Grows

LEMMA StoredGrows ==
  ASSUME GhostOK, NEW v, ghost' = Stored(v)
  PROVE  Grows /\ v \in ghost.stored'
BY DEF GhostOK, Stored, Grows

LEMMA PutStep ==
  ASSUME StoredInv, NEW c, NEW d, NEW v, PutContent(c, d, v)
  PROVE  /\ Continues /\ Grows /\ ServerOK' /\ ListingOK'
         /\ fs'.out = "ok" => v \in ghost.stored'
<1> USE DEF StoredInv
<1>1. /\ \/ fs' = [fs EXCEPT !.out = "ok"] \/ fs' = [fs EXCEPT !.out = "error"]
      /\ \/ srv' = [srv EXCEPT !.val[d] = v] /\ ghost' = Stored(v) /\ Announce(FiledIn(d))
         \/ /\ srv' = srv /\ work' = work /\ ghost' = ghost
            /\ fs' = [fs EXCEPT !.out = "error"]
  BY DEF PutContent, Answered
<1>2. Continues
  BY <1>1 DEF Continues, HandlerOK
<1>3. CASE srv' = [srv EXCEPT !.val[d] = v] /\ ghost' = Stored(v) /\ Announce(FiledIn(d))
  BY <1>2, <1>3, StoredGrows, WrittenServer, AnnounceFrame
<1>4. CASE /\ srv' = srv /\ work' = work /\ ghost' = ghost
           /\ fs' = [fs EXCEPT !.out = "error"]
  <2>1. fs'.out = "error"
    BY <1>4 DEF HandlerOK
  <2> QED BY <1>2, <1>4, <2>1, SameGhost, ServerFrame, ListingFrame
<1> QED BY <1>1, <1>3, <1>4

LEMMA RemovalStep ==
  ASSUME StoredInv, NEW c, NEW d, RemoveDocuments(c, d)
  PROVE  Continues /\ Grows /\ ServerOK' /\ ListingOK'
<1> USE DEF StoredInv
<1>1. /\ \/ fs' = [fs EXCEPT !.out = "ok"] \/ fs' = [fs EXCEPT !.out = "error"]
      /\ ghost' = ghost
      /\ \/ srv' = [srv EXCEPT !.filed[c] = @ \ {d}] /\ Announce({c})
         \/ srv' = srv /\ work' = work
  BY DEF RemoveDocuments, Answered
<1>2. Continues /\ Grows
  BY <1>1, SameGhost DEF Continues, HandlerOK
<1> QED BY <1>1, <1>2, DetachedServer, AnnounceFrame, ServerFrame, ListingFrame

LEMMA RequestStep ==
  ASSUME StoredInv,
         \/ FlushUpdate \/ UnlinkAtServer \/ FilenameAtServer
         \/ ReplaceAtServer \/ DetachAtServer
  PROVE  StoredInv'
<1>1. view' = view /\ open' = open
  BY DEF FlushUpdate, UnlinkAtServer, FilenameAtServer, ReplaceAtServer, DetachAtServer, Asking
<1>2. CASE FlushUpdate
  <2> DEFINE h == open[fs.ino]
  <2>1. fs.pc = "flush" /\ PutContent(h.ctx, h.doc, h.buf)
    BY <1>2 DEF FlushUpdate, Asking
  <2>2. /\ Continues /\ Grows /\ ServerOK' /\ ListingOK'
        /\ fs'.out = "ok" => h.buf \in ghost.stored'
    BY <2>1, PutStep
  <2> QED BY <1>1, <2>1, <2>2, AskedStep
<1>3. CASE ReplaceAtServer
  <2>1. fs.pc = "replace" /\ PutContent(fs.ctx, fs.doc, fs.val)
    BY <1>3 DEF ReplaceAtServer, Asking
  <2>2. /\ Continues /\ Grows /\ ServerOK' /\ ListingOK'
        /\ fs'.out = "ok" => fs.val \in ghost.stored'
    BY <2>1, PutStep
  <2> QED BY <1>1, <2>1, <2>2, AskedStep
<1>4. CASE UnlinkAtServer \/ DetachAtServer
  <2>1. /\ fs.pc \in {"unlink", "detach"}
        /\ \E c, d : RemoveDocuments(c, d)
    BY <1>4 DEF UnlinkAtServer, DetachAtServer, Asking
  <2> QED BY <1>1, <2>1, RemovalStep, AskedStep
<1>5. CASE FilenameAtServer
  <2>1. /\ fs.pc = "filename" /\ ghost' = ghost
        /\ \/ fs' = [fs EXCEPT !.out = "ok"] \/ fs' = [fs EXCEPT !.out = "error"]
        /\ \/ srv' = [srv EXCEPT !.base[fs.doc] = fs.to[1]] /\ Announce(FiledIn(fs.doc))
           \/ srv' = srv /\ work' = work
    BY <1>5 DEF FilenameAtServer, Asking, Answered
  <2>2. Continues /\ Grows
    BY <2>1, SameGhost DEF Continues, StoredInv, HandlerOK
  <2>3. ServerOK' /\ ListingOK'
    BY <2>1, <2>2, NamedServer, AnnounceFrame, ServerFrame, ListingFrame DEF StoredInv
  <2> QED BY <1>1, <2>1, <2>2, <2>3, AskedStep
<1> QED BY <1>2, <1>3, <1>4, <1>5

LEMMA FlushCreateStep ==
  ASSUME StoredInv, FlushCreate
  PROVE  StoredInv'
<1> USE DEF StoredInv
<1> DEFINE h == open[fs.ino]
<1>1. /\ view' = view /\ open' = open /\ fs.pc = "flush"
      /\ \/ /\ fs' = [fs EXCEPT !.out = "error"]
         \/ /\ fs' = [fs EXCEPT !.out = "ok", !.doc = NewDoc]
            /\ ghost' = Stored(h.buf)
      /\ \/ /\ NextDoc # {}
            /\ srv' = Filed(srv, h.ctx, NewDoc, h.name[1], h.buf)
            /\ ghost' = Stored(h.buf) /\ Announce({h.ctx})
         \/ srv' = srv /\ work' = work /\ ghost' = ghost
  BY DEF FlushCreate, Asking
<1>2. Continues
  BY <1>1 DEF Continues, HandlerOK
<1>3. Grows /\ ServerOK' /\ ListingOK'
  <2>1. CASE srv' = srv /\ work' = work /\ ghost' = ghost
    BY <2>1, SameGhost, ServerFrame, ListingFrame
  <2>2. CASE /\ NextDoc # {}
             /\ srv' = Filed(srv, h.ctx, NewDoc, h.name[1], h.buf)
             /\ ghost' = Stored(h.buf) /\ Announce({h.ctx})
    BY <2>2, StoredGrows, LeastDoc, FiledServer, AnnounceFrame
  <2> QED BY <1>1, <2>1, <2>2
<1>4. fs'.out = "ok" => h.buf \in ghost.stored'
  BY <1>1, StoredGrows DEF HandlerOK
<1> QED BY <1>1, <1>2, <1>3, <1>4, AskedStep

(***************************************************************************)
(* What the handlers do with the answers.                                  *)
(***************************************************************************)
LEMMA ToldStep ==
  ASSUME StoredInv, srv' = srv, work' = work, ghost' = ghost, ViewOK', OpenOK',
         fs' = FsIdle
  PROVE  StoredInv'
<1>1. HandlerOK'
  BY DEF FsIdle, HandlerOK
<1> QED BY <1>1, SameGhost, ServerFrame, ListingFrame DEF StoredInv, Grows

LEMMA FlushDoneStep ==
  ASSUME StoredInv, FlushDone
  PROVE  StoredInv'
<1> DEFINE i == fs.ino
           h == open[fs.ino]
<1>1. /\ fs' = FsIdle /\ srv' = srv /\ work' = work /\ ghost' = ghost
      /\ fs.pc = "flush"
  BY DEF FlushDone, Told
<1>2. /\ i \in Inos /\ h # NoHandle /\ DOMAIN h = HandleFields /\ DOMAIN open = Inos
      /\ h.told = "ok" => h.buf \in ghost.stored
      /\ fs.out = "ok" => h.buf \in ghost.stored
      /\ TreeShows(view.t, ghost.stored) /\ DOMAIN view = {"t", "ctx", "doc", "sticky"}
  BY <1>1 DEF StoredInv, HandlerOK, OpenOK, HandleOK, HandleFields, ViewOK
<1>3. ASSUME NEW j \in Inos, j # i PROVE HandleOK(open[j], FALSE, ghost.stored)
  BY <1>3 DEF StoredInv, OpenOK, HandleOK, Flushing
<1>4. fs'.pc = "idle"
  BY <1>1 DEF FsIdle
<1> SUFFICES ViewOK' /\ OpenOK'
  BY <1>1, ToldStep
<1>5. CASE fs.out = "ok" /\ fs.doc # NoDoc
  <2> DEFINE x == [up |-> h.dir, name |-> h.name, dir |-> FALSE, val |-> h.buf]
             a == [h EXCEPT !.doc = fs.doc, !.entry = "none", !.told = "ok"]
  <2>1. /\ view' = [view EXCEPT !.doc[h.ctx][fs.doc] = i, !.t = InsertNode(@, i, x)]
        /\ open' = [j \in Inos |->
             IF j = i /\ fs.final THEN NoHandle
             ELSE IF j = i THEN a
             ELSE IF open[j] # NoHandle /\ open[j].entry = "listed"
                     /\ open[j].dir = h.dir /\ open[j].name = h.name
                  THEN [open[j] EXCEPT !.entry = "hidden"]
             ELSE open[j]]
    BY <1>5 DEF FlushDone, AdoptDocument
  <2>2. DOMAIN x = NodeFields /\ x.val = h.buf
    BY DEF NodeFields
  <2>3. HandleOK(a, FALSE, ghost.stored)
    BY <1>2, <1>5 DEF HandleOK, HandleFields
  <2> HIDE DEF x, a, h, i
  <2>4. ViewOK'
    <3>1. DOMAIN view' = DOMAIN view /\ view'.t = InsertNode(view.t, i, x)
      BY <1>2, <2>1
    <3> QED BY <1>1, <1>2, <1>5, <2>2, <3>1, InsertShows DEF ViewOK
  <2>5. OpenOK'
    <3>1. ASSUME NEW j \in Inos PROVE HandleOK(open'[j], FALSE, ghost.stored)
      BY <1>3, <2>1, <2>3 DEF HandleOK
    <3> QED BY <1>1, <1>4, <2>1, <3>1 DEF OpenOK, HandleOK, Flushing
  <2> QED BY <2>4, <2>5
<1>6. CASE fs.out = "ok" /\ fs.doc = NoDoc
  <2> DEFINE a == IF fs.final THEN NoHandle ELSE [h EXCEPT !.told = "ok"]
             k == view.doc[h.ctx][h.doc]
  <2>1. /\ view' = [view EXCEPT !.t = SetContent(@, k, h.buf)]
        /\ open' = [open EXCEPT ![i] = a]
    BY <1>6 DEF FlushDone
  <2>2. HandleOK(a, FALSE, ghost.stored)
    BY <1>2, <1>6 DEF HandleOK, HandleFields
  <2> HIDE DEF a, h, i, k
  <2>3. ViewOK'
    <3>1. DOMAIN view' = DOMAIN view /\ view'.t = SetContent(view.t, k, h.buf)
      BY <1>2, <2>1
    <3> QED BY <1>1, <1>2, <1>6, <3>1, ContentShows DEF ViewOK
  <2>4. OpenOK'
    BY <1>1, <1>2, <1>3, <1>4, <2>1, <2>2 DEF OpenOK, HandleOK, Flushing
  <2> QED BY <2>3, <2>4
<1>7. CASE fs.out # "ok"
  <2> DEFINE a == IF fs.final THEN NoHandle ELSE Unsaved(h)
  <2>1. view' = view /\ open' = [open EXCEPT ![i] = a]
    BY <1>7 DEF FlushDone
  <2>2. HandleOK(a, FALSE, ghost.stored)
    BY <1>2 DEF HandleOK, HandleFields, Unsaved
  <2> HIDE DEF a, h, i
  <2>3. ViewOK'
    BY <1>1, <2>1, SameGhost, ViewFrame DEF StoredInv
  <2>4. OpenOK'
    BY <1>1, <1>2, <1>3, <1>4, <2>1, <2>2 DEF OpenOK, HandleOK, Flushing
  <2> QED BY <2>3, <2>4
<1> QED BY <1>5, <1>6, <1>7

LEMMA AnswerStep ==
  ASSUME StoredInv, UnlinkDone \/ FilenameDone \/ ReplaceDone \/ DetachDone
  PROVE  StoredInv'
<1> USE DEF StoredInv
<1>1. srv' = srv /\ work' = work /\ ghost' = ghost
  BY DEF UnlinkDone, FilenameDone, ReplaceDone, DetachDone, Told
<1>2. Grows
  BY <1>1, SameGhost
<1>3. \A x : DOMAIN x = DOMAIN view /\ TreeShows(x.t, ghost.stored) /\ view' = x => ViewOK'
  BY <1>1 DEF ViewOK
<1>4. ASSUME fs.pc # "flush", fs'.pc # "flush", open' = open PROVE OpenOK'
  BY <1>1, <1>4 DEF OpenOK, HandleOK, Flushing
<1>5. CASE UnlinkDone
  <2>1. /\ fs.pc = "unlink" /\ fs' = FsIdle
        /\ \/ view' = view /\ open' = open
           \/ view' = WithoutDocNode(fs.ino) /\ open' = [open EXCEPT ![fs.ino] = NoHandle]
    BY <1>5 DEF UnlinkDone, Told
  <2>2. ViewOK'
    <3>1. ASSUME view' = WithoutDocNode(fs.ino)
          PROVE  DOMAIN view' = DOMAIN view /\ view'.t = RemoveNode(view.t, fs.ino)
      BY <3>1 DEF WithoutDocNode, ViewOK
    <3> QED BY <1>1, <1>2, <2>1, <3>1, ViewFrame, RemoveShows DEF ViewOK
  <2>3. OpenOK'
    BY <1>1, <2>1 DEF OpenOK, HandleOK, Flushing, FsIdle
  <2> QED BY <1>1, <2>1, <2>2, <2>3, ToldStep
<1>6. CASE FilenameDone
  <2>1. /\ fs.pc = "filename" /\ fs' = FsIdle /\ open' = open
        /\ view' = view \/ view' = [view EXCEPT !.t = RenameEntry(@, fs.ino, fs.to)]
    BY <1>6 DEF FilenameDone, Told
  <2>2. ViewOK'
    <3>1. ASSUME view' = [view EXCEPT !.t = RenameEntry(@, fs.ino, fs.to)]
          PROVE  DOMAIN view' = DOMAIN view /\ view'.t = RenameEntry(view.t, fs.ino, fs.to)
      BY <3>1 DEF ViewOK
    <3> QED BY <1>1, <1>2, <2>1, <3>1, ViewFrame, RenameShows DEF ViewOK
  <2>3. OpenOK'
    BY <1>4, <2>1 DEF FsIdle
  <2> QED BY <1>1, <2>1, <2>2, <2>3, ToldStep
<1>7. CASE ReplaceDone
  <2> DEFINE k == view.doc[fs.ctx][fs.doc]
  <2>1. /\ fs.pc = "replace" /\ open' = open
        /\ \/ fs' = FsIdle /\ view' = view
           \/ /\ fs.out = "ok" /\ fs' = [fs EXCEPT !.pc = "detach", !.out = "none"]
              /\ view' = [view EXCEPT !.t = SetContent(@, k, fs.val)]
    BY <1>7 DEF ReplaceDone, Told
  <2>2. CASE fs' = FsIdle /\ view' = view
    <3>1. OpenOK'
      BY <1>4, <2>1, <2>2 DEF FsIdle
    <3> QED BY <1>1, <1>2, <2>2, <3>1, ViewFrame, ToldStep
  <2>3. CASE /\ fs.out = "ok" /\ fs' = [fs EXCEPT !.pc = "detach", !.out = "none"]
             /\ view' = [view EXCEPT !.t = SetContent(@, k, fs.val)]
    <3>1. fs.val \in ghost.stored
      BY <2>1, <2>3 DEF HandlerOK
    <3>2. DOMAIN view' = DOMAIN view /\ view'.t = SetContent(view.t, k, fs.val)
      BY <2>3 DEF ViewOK
    <3>3. ViewOK'
      BY <1>1, <3>1, <3>2, ContentShows DEF ViewOK
    <3>4. HandlerOK' /\ fs'.pc = "detach"
      BY <1>1, <2>3, <3>1 DEF HandlerOK
    <3>5. OpenOK'
      BY <1>4, <2>1, <3>4
    <3> QED BY <1>1, <1>2, <3>3, <3>4, <3>5, ServerFrame, ListingFrame DEF Grows
  <2> QED BY <2>1, <2>2, <2>3
<1>8. CASE DetachDone
  <2> DEFINE i == fs.ino
             w == WithoutDocNode(fs.over)
             t == SetContent(RenameEntry(w.t, i, fs.to), i, fs.val)
             v == [w EXCEPT !.t = t, !.doc[fs.ctx] = [@ EXCEPT ![fs.from] = NoIno, ![fs.doc] = i]]
             h == [open[i] EXCEPT !.ctx = fs.ctx, !.doc = fs.doc]
  <2>1. /\ fs.pc = "detach" /\ fs' = FsIdle
        /\ view' = view \/ view' = v
        /\ open' = open \/ (open[i] # NoHandle /\ open' = [open EXCEPT ![i] = h])
    BY <1>8 DEF DetachDone, Told
  <2>2. fs.val \in ghost.stored
    BY <2>1 DEF HandlerOK
  <2>3. DOMAIN w = DOMAIN view /\ w.t = RemoveNode(view.t, fs.over)
    BY DEF WithoutDocNode, ViewOK
  <2>4. TreeShows(t, ghost.stored)
    <3>1. TreeShows(w.t, ghost.stored)
      BY <2>3, RemoveShows DEF ViewOK
    <3> HIDE DEF w
    <3>2. TreeShows(RenameEntry(w.t, i, fs.to), ghost.stored)
      BY <3>1, RenameShows
    <3> QED BY <2>2, <3>2, ContentShows
  <2> HIDE DEF w, t
  <2>5. DOMAIN v = DOMAIN view /\ v.t = t
    BY <2>3 DEF ViewOK
  <2> HIDE DEF v
  <2>6. ViewOK'
    BY <1>1, <1>2, <2>1, <2>4, <2>5, ViewFrame DEF ViewOK
  <2>7. OpenOK'
    <3>1. ASSUME open[i] # NoHandle, i \in Inos PROVE HandleOK(h, FALSE, ghost.stored)
      BY <2>1, <3>1 DEF OpenOK, HandleOK, Flushing
    <3> HIDE DEF h
    <3> QED BY <1>1, <2>1, <3>1 DEF OpenOK, HandleOK, Flushing, FsIdle
  <2> QED BY <1>1, <2>1, <2>6, <2>7, ToldStep
<1> QED BY <1>5, <1>6, <1>7, <1>8
(***************************************************************************)
(* The refresh worker.                                                     *)
(***************************************************************************)
\* A step that leaves the server, the session thread and the history alone.
LEMMA AsideStep ==
  ASSUME StoredInv, srv' = srv, open' = open, fs' = fs, ghost' = ghost, ViewOK', ListingOK'
  PROVE  StoredInv'
BY SameGhost, ServerFrame, FilesFrame DEF StoredInv, Grows

\* One that takes the worker nowhere near the application of a listing.
LEMMA OtherwiseStep ==
  ASSUME StoredInv, WorkerOnly, view' = view, DOMAIN work' = DOMAIN work,
         DOMAIN work'.at = DOMAIN WorkIdle, work'.at.pc # "apply"
  PROVE  StoredInv'
<1>1. ListingOK'
  BY DEF StoredInv, ListingOK, WorkIdle
<1>2. ViewOK'
  BY SameGhost, ViewFrame DEF StoredInv, WorkerOnly
<1> QED BY <1>1, <1>2, AsideStep DEF WorkerOnly

\* And one that leaves its place alone.
LEMMA QueueStep ==
  ASSUME StoredInv, srv' = srv, open' = open, fs' = fs, ghost' = ghost, view' = view,
         DOMAIN work' = DOMAIN work, work'.at = work.at
  PROVE  StoredInv'
BY SameGhost, ViewFrame, ListingFrame, AsideStep DEF StoredInv

LEMMA OnwardPlace ==
  ASSUME NEW todo
  PROVE  DOMAIN Onward(todo) = DOMAIN WorkIdle /\ Onward(todo).pc # "apply"
BY DEF Onward, WorkIdle

LEMMA FetchStep ==
  ASSUME StoredInv, NEW c \in Contexts, FetchDocuments(c)
  PROVE  StoredInv'
<1> USE DEF StoredInv
<1>1. /\ srv' = srv /\ view' = view /\ open' = open /\ fs' = fs
      /\ ghost' = [ghost EXCEPT !.touched = {}]
      /\ work' = [work EXCEPT !.at.pc = "apply", !.at.ctx = c, !.at.got = Listing(c),
                              !.at.todo = @ \ {c}]
  BY DEF FetchDocuments
<1>2. ghost'.stored = ghost.stored /\ Grows
  BY <1>1 DEF Grows, GhostOK
<1>3. Listing(c).docs \subseteq Docs /\ \A d \in Docs : Listing(c).val[d] \in ghost.stored
  BY DEF Listing, ServerOK
<1>4. ListingOK'
  BY <1>1, <1>2, <1>3 DEF ListingOK
<1> QED BY <1>1, <1>2, <1>4, ServerFrame, ViewFrame, FilesFrame DEF Grows

LEMMA ContextsStep ==
  ASSUME StoredInv, ApplyContexts
  PROVE  StoredInv'
<1> USE DEF StoredInv
<1> DEFINE stale == {c \in Contexts \ work.at.todo : view.ctx[c] # NoIno}
           added == {c \in work.at.todo : view.ctx[c] = NoIno}
           v == WithoutContexts(view, stale)
           w == WithContexts(v, added)
<1>1. /\ srv' = srv /\ open' = open /\ fs' = fs /\ ghost' = ghost /\ view' = w
      /\ work' = [work EXCEPT !.at = Onward(work.at.todo)]
  BY DEF ApplyContexts, WorkerOnly
<1>2. DOMAIN v = DOMAIN view /\ TreeShows(v.t, ghost.stored)
  <2> DEFINE dirs == {view.ctx[c] : c \in stale}
             S == dirs \cup UNION {Below(view.t, i) : i \in dirs}
  <2>1. DOMAIN v = DOMAIN view /\ v.t = RemoveNodes(view.t, S)
    BY DEF WithoutContexts, ViewOK
  <2> HIDE DEF S, v
  <2> QED BY <2>1, RemoveAllShows DEF ViewOK
<1>3. DOMAIN w = DOMAIN view /\ TreeShows(w.t, ghost.stored)
  <2> HIDE DEF v
  <2> DEFINE new == AllocInos(v.t, Held, added)
             node == [i \in DOMAIN new |->
                       [up |-> Root, name |-> Plain(new[i]), dir |-> TRUE, val |-> 0]]
  <2>1. DOMAIN w = DOMAIN view /\ w.t = InsertNodes(v.t, node)
    BY <1>2 DEF WithContexts, ViewOK
  <2> HIDE DEF w, new
  <2>2. \A i \in DOMAIN node : DOMAIN node[i] = NodeFields /\ node[i].val \in ghost.stored
    BY DEF NodeFields, GhostOK
  <2> HIDE DEF node
  <2> QED BY <1>2, <2>1, <2>2, InsertAllShows
<1> HIDE DEF w
<1>4. ViewOK'
  BY <1>1, <1>3 DEF ViewOK
<1>5. ListingOK'
  BY <1>1, OnwardPlace DEF ListingOK, WorkIdle
<1> QED BY <1>1, <1>4, <1>5, AsideStep

\* What the contents of a listing are put under shows nothing else.
LEMMA MaterializeShows ==
  ASSUME ViewOK, NEW c, NEW dir, NEW named, NEW got, got.docs \subseteq Docs,
         \A d \in Docs : got.val[d] \in ghost.stored
  PROVE  LET made == Materialize(c, dir, named, got).view IN
         DOMAIN made = DOMAIN view /\ TreeShows(made.t, ghost.stored)
<1> DEFINE left == Departed(c, dir, named, got)
           gone == {view.t.kids[dir][n] : n \in left}
           kept == IF DeferRemovals THEN [view EXCEPT !.t.tomb = @ \cup gone]
                   ELSE [view EXCEPT !.t = RemoveNodes(@, gone),
                                     !.doc = [e \in Contexts |-> [d \in Docs |->
                                        IF @[e][d] \in gone THEN NoIno ELSE @[e][d]]]]
           at(d) == Lookup(kept.t, dir, named[d])
           shown == {d \in got.docs : at(d) # NoIno /\ kept.doc[c][d] = at(d)}
           val == [i \in {at(d) : d \in shown} |-> got.val[CHOOSE d \in shown : at(d) = i]]
           S == {d \in got.docs : at(d) = NoIno}
           new == AllocInos(kept.t, Held, S)
           node == [i \in DOMAIN new |-> [up |-> dir, name |-> named[new[i]], dir |-> FALSE,
                                          val |-> got.val[new[i]]]]
           made == Materialize(c, dir, named, got).view
<1>1. DOMAIN kept = DOMAIN view /\ TreeShows(kept.t, ghost.stored)
  <2>1. CASE DeferRemovals
    <3> HIDE DEF gone
    <3> QED BY <2>1 DEF ViewOK, TreeShows
  <2>2. CASE ~DeferRemovals
    <3> HIDE DEF gone
    <3>1. DOMAIN kept = DOMAIN view /\ kept.t = RemoveNodes(view.t, gone)
      BY <2>2 DEF ViewOK
    <3> HIDE DEF kept
    <3> QED BY <3>1, RemoveAllShows DEF ViewOK
  <2> QED BY <2>1, <2>2
<1>2. made = [kept EXCEPT !.t = InsertNodes(SetContents(@, val), node),
                          !.doc[c] = [d \in Docs |-> IF \E i \in DOMAIN new : new[i] = d
                                        THEN CHOOSE i \in DOMAIN new : new[i] = d ELSE @[d]]]
  BY Zenon DEF Materialize
<1> HIDE DEF made, kept
<1>3. DOMAIN made = DOMAIN view /\ made.t = InsertNodes(SetContents(kept.t, val), node)
  <2> HIDE DEF val, new, node
  <2> QED BY <1>1, <1>2 DEF ViewOK
<1>4. \A i \in DOMAIN val : val[i] \in ghost.stored
  <2> TAKE i \in DOMAIN val
  <2>1. \E d \in shown : at(d) = i
    OBVIOUS
  <2>2. (CHOOSE d \in shown : at(d) = i) \in shown
    BY <2>1
  <2> QED BY <2>2
<1>5. \A i \in DOMAIN new : new[i] \in S
  <2> HIDE DEF S
  <2> QED BY DEF AllocInos
<1>6. \A i \in DOMAIN node : DOMAIN node[i] = NodeFields /\ node[i].val \in ghost.stored
  <2> TAKE i \in DOMAIN node
  <2>1. new[i] \in Docs
    BY <1>5
  <2> HIDE DEF new
  <2> QED BY <2>1 DEF NodeFields
<1> HIDE DEF val, node, new, S
<1>7. TreeShows(SetContents(kept.t, val), ghost.stored)
  BY <1>1, <1>4, ContentsShow
<1>8. TreeShows(made.t, ghost.stored)
  BY <1>3, <1>6, <1>7, InsertAllShows
<1> QED BY <1>3, <1>8 DEF made

LEMMA DocumentsStep ==
  ASSUME StoredInv, ApplyDocuments
  PROVE  StoredInv'
<1> USE DEF StoredInv
<1> DEFINE c == work.at.ctx
           got == work.at.got
           dir == view.ctx[c]
           named == AssignNames(got.docs, got.base, got.here, view.sticky[c])
           made == Materialize(c, dir, named, got)
           v == [made.view EXCEPT !.sticky[c] =
                   [d \in Docs |-> IF d \in got.docs THEN named[d] ELSE @[d]]]
<1>1. /\ srv' = srv /\ open' = open /\ fs' = fs /\ ghost' = ghost
      /\ view' = view \/ view' = v
  BY ZenonT(60) DEF ApplyDocuments, WorkerOnly
<1>2. got.docs \subseteq Docs /\ \A d \in Docs : got.val[d] \in ghost.stored
  BY Zenon DEF ListingOK, ApplyDocuments, At
<1>6. ListingOK'
  <2>1. \/ work' = [work EXCEPT !.at.pc = "notify", !.at.got = NoListing]
        \/ work' = [work EXCEPT !.at.pc = "notify", !.at.got = NoListing, !.at.gone = made.gone]
    BY Zenon DEF ApplyDocuments
  <2> HIDE DEF made, c, got, dir, named, v
  <2>2. DOMAIN work = {"jobs", "at"} /\ DOMAIN work.at = {"pc", "todo", "ctx", "got", "gone"}
    BY DEF ListingOK
  <2>3. DOMAIN work' = {"jobs", "at"} /\ DOMAIN work'.at = {"pc", "todo", "ctx", "got", "gone"}
    BY <2>1, <2>2
  <2>4. work'.at.pc = "notify"
    <3>1. CASE work' = [work EXCEPT !.at.pc = "notify", !.at.got = NoListing]
      BY <2>2, <3>1
    <3>2. CASE work' = [work EXCEPT !.at.pc = "notify", !.at.got = NoListing, !.at.gone = made.gone]
      BY <2>2, <3>2
    <3> QED BY <2>1, <3>1, <3>2
  <2> QED BY <2>3, <2>4 DEF ListingOK
<1> HIDE DEF got, named
<1>3. DOMAIN made.view = DOMAIN view /\ TreeShows(made.view.t, ghost.stored)
  BY <1>2, MaterializeShows
<1> HIDE DEF made, c
<1>4. DOMAIN v = DOMAIN view /\ v.t = made.view.t
  BY <1>3 DEF ViewOK
<1> HIDE DEF v
<1>5. ViewOK'
  BY <1>1, <1>3, <1>4, SameGhost, ViewFrame DEF ViewOK
<1> QED BY <1>1, <1>5, <1>6, AsideStep

LEMMA WorkerStep ==
  ASSUME StoredInv, Worker
  PROVE  StoredInv'
<1>1. DOMAIN work = {"jobs", "at"} /\ DOMAIN work.at = DOMAIN WorkIdle
  BY DEF StoredInv, ListingOK, WorkIdle
<1>2. CASE Drain
  <2>1. /\ WorkerOnly /\ view' = view /\ DOMAIN work' = DOMAIN work
        /\ \/ work'.at = [WorkIdle EXCEPT !.pc = "list"]
           \/ work'.at = [WorkIdle EXCEPT !.pc = "refresh", !.todo = work.jobs]
    BY <1>1, <1>2 DEF Drain
  <2>2. DOMAIN work'.at = DOMAIN WorkIdle /\ work'.at.pc # "apply"
    BY <2>1 DEF WorkIdle
  <2> QED BY <2>1, <2>2, OtherwiseStep
<1>3. CASE ListContexts
  <2>1. /\ WorkerOnly /\ view' = view
        /\ \/ work' = [work EXCEPT !.at.pc = "contexts", !.at.todo = srv.live]
           \/ work' = [work EXCEPT !.at = WorkIdle]
    BY <1>3 DEF ListContexts
  <2>2. CASE work' = [work EXCEPT !.at.pc = "contexts", !.at.todo = srv.live]
    <3>1. DOMAIN work' = DOMAIN work /\ DOMAIN work'.at = DOMAIN work.at
      BY <1>1, <2>2
    <3>2. work'.at.pc = "contexts"
      BY <1>1, <2>2 DEF WorkIdle
    <3> QED BY <1>1, <2>1, <3>1, <3>2, OtherwiseStep
  <2>3. CASE work' = [work EXCEPT !.at = WorkIdle]
    <3>1. DOMAIN work' = DOMAIN work /\ work'.at = WorkIdle /\ WorkIdle.pc = "idle"
      BY <1>1, <2>3 DEF WorkIdle
    <3> HIDE DEF WorkIdle
    <3> QED BY <2>1, <3>1, OtherwiseStep
  <2> QED BY <2>1, <2>2, <2>3
<1>4. CASE ApplyContexts
  BY <1>4, ContextsStep
<1>5. CASE ApplyDocuments
  BY <1>5, DocumentsStep
<1>6. CASE Notify
  <2>1. /\ WorkerOnly /\ view' = view
        /\ work' = [work EXCEPT !.at = Onward(work.at.todo)]
    BY <1>6 DEF Notify
  <2>2. DOMAIN work' = DOMAIN work /\ work'.at = Onward(work.at.todo)
    BY <1>1, <2>1
  <2> QED BY <2>1, <2>2, OnwardPlace, OtherwiseStep
<1>7. ASSUME NEW c \in Contexts, FetchDocuments(c) \/ FetchFails(c)
      PROVE  StoredInv'
  <2>1. CASE FetchDocuments(c)
    BY <2>1, FetchStep
  <2>2. CASE FetchFails(c)
    <3>1. /\ WorkerOnly /\ view' = view
          /\ work' = [work EXCEPT !.at = Onward(work.at.todo \ {c})]
      BY <2>2 DEF FetchFails
    <3>2. DOMAIN work' = DOMAIN work /\ work'.at = Onward(work.at.todo \ {c})
      BY <1>1, <3>1
    <3> QED BY <3>1, <3>2, OnwardPlace, OtherwiseStep
  <2> QED BY <1>7, <2>1, <2>2
<1> QED BY <1>2, <1>3, <1>4, <1>5, <1>6, <1>7 DEF Worker

(***************************************************************************)
(* The nudge thread, the socket and the timer.                             *)
(***************************************************************************)
LEMMA NudgeStep ==
  ASSUME StoredInv, Nudger
  PROVE  StoredInv'
<1>1. CASE NudgeDrain
  BY <1>1, QueueStep DEF NudgeDrain, WorkerOnly
<1>2. ASSUME NEW c \in Contexts, NEW n \in Names, NudgeUnlink(c, n)
      PROVE  StoredInv'
  <2>1. srv' = srv /\ work' = work /\ ghost' = ghost
    BY <1>2 DEF NudgeUnlink
  <2>2. CASE Unlink(c, n)
    BY <2>1, <2>2, UnlinkStep, SameGhost, ServerFrame, ListingFrame DEF StoredInv, Grows
  <2>3. CASE NothingAt(c, n)
    BY <2>1, <2>3, QueueStep DEF NothingAt
  <2> QED BY <1>2, <2>2, <2>3 DEF NudgeUnlink
<1> QED BY <1>1, <1>2 DEF Nudger

LEMMA QuietStep ==
  ASSUME StoredInv, Socket \/ Disconnect \/ Resync \/ UNCHANGED vars
  PROVE  StoredInv'
<1>1. srv' = srv /\ open' = open /\ fs' = fs /\ ghost' = ghost /\ view' = view
  BY DEF Socket, Authenticate, WorkspaceReady, Disconnect, Resync, SocketOnly, WorkerOnly, vars
<1>2. work' = work \/ work' = [work EXCEPT !.jobs = @ \cup {All}]
  BY DEF Socket, Authenticate, WorkspaceReady, Disconnect, Resync, vars
<1>3. DOMAIN work' = DOMAIN work /\ work'.at = work.at
  BY <1>2 DEF StoredInv, ListingOK
<1> QED BY <1>1, <1>3, QueueStep

(***************************************************************************)
(* The theorem.                                                            *)
(***************************************************************************)
LEMMA StoredInit ==
  ASSUME Init
  PROVE  StoredInv
<1>1. GhostOK /\ ghost.stored = {0}
  BY DEF Init, GhostOK
<1>2. ServerOK
  <2> DEFINE first == {d \in Docs : \E e \in Docs : d < e}
  <2>1. /\ first \subseteq Docs
        /\ srv = [live |-> Contexts, born |-> first,
                  filed |-> [c \in Contexts |-> first], here |-> [c \in Contexts |-> first],
                  base |-> [d \in Docs |-> CHOOSE b \in Bases : TRUE],
                  val |-> [d \in Docs |-> 0]]
    BY DEF Init
  <2> HIDE DEF first
  <2> QED BY <1>1, <2>1 DEF ServerOK
<1>3. ViewOK
  <2>1. DOMAIN view = {"t", "ctx", "doc", "sticky"} /\ view.t = BareTree
    BY DEF Init
  <2> QED BY <1>1, <2>1 DEF ViewOK, TreeShows, NodeShows, BareTree, RootNode
<1>4. ListingOK
  BY DEF Init, ListingOK, WorkIdle
<1>5. HandlerOK
  BY DEF Init, HandlerOK, FsIdle
<1>6. OpenOK
  BY DEF Init, OpenOK, HandleOK
<1> QED BY <1>1, <1>2, <1>3, <1>4, <1>5, <1>6 DEF StoredInv

LEMMA StoredNext ==
  ASSUME StoredInv, [Next]_vars
  PROVE  StoredInv'
<1>1. CASE Session
  BY <1>1, RequestStep, FlushCreateStep, FlushDoneStep, AnswerStep DEF Session
<1> QED BY <1>1, PeerStep, UserStep, WorkerStep, NudgeStep, QuietStep DEF Next

\* Once flush(2) or fsync(2) returned success for an open file and nothing was
\* written to it since, its content has been at the server: the buffer was sent by
\* flush_update or flush_create (writes.rs) and acknowledged, or is what an earlier
\* one acknowledged, or what the file showed when it was opened.  It holds for any
\* number of files, clients, failed requests and lost replies.
THEOREM SavesStored == Spec => []SavesAreStored
<1>1. StoredInv => SavesAreStored
  BY DEF StoredInv, OpenOK, HandleOK, SavesAreStored, OpenInos
<1> QED BY <1>1, StoredInit, StoredNext, PTL DEF Spec

(***************************************************************************)
(* The tables of the tree.  While inodes last, every name of a directory   *)
(* leads to the node that carries it, and every file of a context's folder *)
(* is a document of that context, or waits for its unlink.                 *)
(***************************************************************************)
TreeFits(t) ==
  /\ DOMAIN t = {"node", "kids", "tomb"} /\ DOMAIN t.node = Inos /\ DOMAIN t.kids = Inos
  /\ \A i \in Inos : /\ DOMAIN t.kids[i] = Names
                     /\ t.node[i] = NoNode \/ DOMAIN t.node[i] = NodeFields
  /\ \A f \in Inos, n \in Names : LET i == t.kids[f][n] IN
       i # NoIno => i \in Inos /\ t.node[i] # NoNode /\ t.node[i].up = f /\ t.node[i].name = n

\* The file i of the folder of c is a document of c.
Stands(v, c, i) == i \in v.t.tomb \/ \E d \in Docs : v.doc[c][d] = i

ViewFits(v) ==
  /\ DOMAIN v = {"t", "ctx", "doc", "sticky"} /\ TreeFits(v.t)
  /\ DOMAIN v.ctx = Contexts /\ DOMAIN v.doc = Contexts
  /\ \A c \in Contexts : v.ctx[c] \in (Inos \ {Root}) \cup {NoIno} /\ DOMAIN v.doc[c] = Docs
  /\ \A c, e \in Contexts : v.ctx[c] = v.ctx[e] /\ v.ctx[c] # NoIno => c = e
  /\ \A c \in Contexts, n \in Names :
       v.ctx[c] # NoIno /\ v.t.kids[v.ctx[c]][n] # NoIno => Stands(v, c, v.t.kids[v.ctx[c]][n])

\* Only what the server has given an id is listed or shown.
BornFirst ==
  /\ srv.live \subseteq Contexts
  /\ \A c \in Contexts : srv.filed[c] \subseteq srv.born
  /\ \A c \in Contexts, d \in Docs : view.doc[c][d] # NoIno => d \in srv.born

\* The worker applies what it fetched of a context, and no handler asks meanwhile.
WorkFits ==
  /\ work.at.pc = "contexts" => work.at.todo \subseteq Contexts
  /\ work.at.pc = "apply" =>
       work.at.ctx \in Contexts /\ work.at.got.docs \subseteq srv.born /\ fs.pc = "idle"

\* A pending create is not in the tree, and its folder is its context's, if anybody's.
Creating(h) == h # NoHandle /\ h.doc = NoDoc
Apart(v, i, h) ==
  /\ v.t.node[i] = NoNode /\ h.ctx \in Contexts /\ h.dir # NoIno
  /\ \A c \in Contexts : v.ctx[c] = h.dir => c = h.ctx
CreatesFit == \A i \in Inos : Creating(open[i]) => Apart(view, i, open[i])

\* The file a handler is about to rename is still the document it was asked for.
Renames(v, d) ==
  /\ fs.ctx \in Contexts /\ d \in Docs /\ fs.ino \in Inos
  /\ v.doc[fs.ctx][d] \in {fs.ino, NoIno}
  /\ v.t.node[fs.ino] # NoNode => \A c \in Contexts :
       v.ctx[c] # NoIno /\ v.t.node[fs.ino].up = v.ctx[c] => c = fs.ctx /\ v.doc[c][d] = fs.ino

HandlerFits ==
  /\ fs.pc = "flush" /\ fs.doc # NoDoc =>
       /\ Creating(open[fs.ino]) /\ fs.doc \in srv.born
       /\ \A c \in Contexts : view.doc[c][fs.doc] = NoIno
  /\ fs.pc = "filename" => Renames(view, fs.doc)
  /\ fs.pc \in {"replace", "detach"} =>
       /\ Renames(view, fs.from)
       /\ fs.doc \in srv.born /\ view.doc[fs.ctx][fs.doc] \in {fs.over, NoIno}

FitInv == ViewFits(view) /\ BornFirst /\ WorkFits /\ CreatesFit /\ HandlerFits

\* The pool stands for the counter of inodes, which does not run out: there is
\* one left for every document, or for every context.
InosLast ==
  \A S \in (SUBSET Docs) \cup (SUBSET Contexts) : Injection(S, Inos \ (InUse(view.t) \cup Held)) # {}

USE DEF NoIno, NoDoc

LEMMA Numbers == 0 \notin Inos /\ 0 \notin Docs /\ Inos \subseteq Nat /\ Docs \subseteq Nat
BY ViewTreeAssumption

(***************************************************************************)
(* The operations of the tree.                                             *)
(***************************************************************************)
LEMMA NodesDiffer == \A v : DOMAIN v = NodeFields => v # NoNode
BY DEF NodeFields, NoNode

\* insert_node of an inode that has none yet.
LEMMA InsertFits ==
  ASSUME NEW t, TreeFits(t), NEW i \in Inos, t.node[i] = NoNode, NEW v, DOMAIN v = NodeFields
  PROVE  LET r == InsertNode(t, i, v) IN
         /\ TreeFits(r) /\ r.tomb = t.tomb
         /\ r.node[i] = v /\ \A j \in Inos \ {i} : r.node[j] = t.node[j]
         /\ \A f \in Inos, n \in Names :
              r.kids[f][n] = IF f = v.up /\ n = v.name THEN i ELSE t.kids[f][n]
<1> DEFINE r == InsertNode(t, i, v)
<1>1. /\ DOMAIN r = {"node", "kids", "tomb"} /\ DOMAIN r.node = Inos /\ DOMAIN r.kids = Inos
      /\ r.tomb = t.tomb /\ r.node[i] = v /\ \A j \in Inos \ {i} : r.node[j] = t.node[j]
      /\ \A f \in Inos : DOMAIN r.kids[f] = Names
      /\ \A f \in Inos, n \in Names :
           r.kids[f][n] = IF f = v.up /\ n = v.name THEN i ELSE t.kids[f][n]
  BY DEF TreeFits, InsertNode
<1> HIDE DEF r
<1>2. v # NoNode
  BY NodesDiffer
<1>3. \A f \in Inos, n \in Names : t.kids[f][n] # NoIno =>
        /\ t.kids[f][n] \in Inos \ {i} /\ t.node[t.kids[f][n]] # NoNode
        /\ t.node[t.kids[f][n]].up = f /\ t.node[t.kids[f][n]].name = n
  BY DEF TreeFits
<1>4. ASSUME NEW f \in Inos, NEW n \in Names, r.kids[f][n] # NoIno
      PROVE  /\ r.kids[f][n] \in Inos /\ r.node[r.kids[f][n]] # NoNode
             /\ r.node[r.kids[f][n]].up = f /\ r.node[r.kids[f][n]].name = n
  <2>1. CASE f = v.up /\ n = v.name
    BY <1>1, <1>2, <2>1
  <2>2. CASE ~(f = v.up /\ n = v.name)
    <3>1. r.kids[f][n] = t.kids[f][n]
      BY <1>1, <2>2
    <3> QED BY <1>1, <1>3, <1>4, <3>1
  <2> QED BY <2>1, <2>2
<1>5. \A j \in Inos : r.node[j] = NoNode \/ DOMAIN r.node[j] = NodeFields
  BY <1>1 DEF TreeFits
<1>6. TreeFits(r)
  BY <1>1, <1>4, <1>5 DEF TreeFits
<1> QED BY <1>1, <1>6 DEF r

\* A tree that lost nodes, and the names that led to them.
Thinner(r, t) ==
  /\ r.tomb \subseteq t.tomb
  /\ \A j \in Inos : r.node[j] \in {t.node[j], NoNode}
  /\ \A f \in Inos, n \in Names : r.kids[f][n] \in {t.kids[f][n], NoIno}
  /\ \A f \in Inos, n \in Names : r.kids[f][n] # NoIno /\ r.kids[f][n] \in t.tomb
                                    => r.kids[f][n] \in r.tomb

LEMMA RemoveFits ==
  ASSUME NEW t, TreeFits(t), NEW i
  PROVE  LET r == RemoveNode(t, i) IN
         TreeFits(r) /\ Thinner(r, t) /\ (i \in Inos => r.node[i] = NoNode)
<1> DEFINE r == RemoveNode(t, i)
<1>1. CASE ~Exists(t, i)
  BY <1>1, Numbers DEF RemoveNode, Thinner, Exists
<1>2. CASE Exists(t, i) /\ i \in Inos
  <2> DEFINE up == t.node[i].up
             name == t.node[i].name
  <2>1. r = [t EXCEPT !.kids[up][name] = NoIno, !.kids[i] = NoKids, !.node[i] = NoNode,
                      !.tomb = @ \ {i}]
    BY <1>2 DEF RemoveNode
  <2> HIDE DEF r, up, name
  <2>2. /\ DOMAIN r = {"node", "kids", "tomb"} /\ DOMAIN r.node = Inos /\ DOMAIN r.kids = Inos
        /\ r.tomb = t.tomb \ {i} /\ r.node[i] = NoNode
        /\ \A j \in Inos \ {i} : r.node[j] = t.node[j]
        /\ \A f \in Inos : DOMAIN r.kids[f] = Names
        /\ \A f \in Inos, n \in Names :
             r.kids[f][n] = IF f = i \/ (f = up /\ n = name) THEN NoIno ELSE t.kids[f][n]
    BY <1>2, <2>1 DEF TreeFits, NoKids
  <2>3. \A f \in Inos, n \in Names : t.kids[f][n] = i => f = up /\ n = name
    BY <1>2, Numbers DEF TreeFits, up, name
  <2>4. TreeFits(r)
    BY <2>2, <2>3 DEF TreeFits
  <2>5. Thinner(r, t)
    BY <2>2, <2>3 DEF Thinner
  <2> QED BY <2>2, <2>4, <2>5 DEF r
<1>3. CASE Exists(t, i) /\ i \notin Inos
  <2> DEFINE up == t.node[i].up
             name == t.node[i].name
  <2>1. r = [t EXCEPT !.kids[up][name] = NoIno, !.kids[i] = NoKids, !.node[i] = NoNode,
                      !.tomb = @ \ {i}]
    BY <1>3 DEF RemoveNode
  <2> HIDE DEF r, up, name
  <2>2. /\ DOMAIN r = {"node", "kids", "tomb"} /\ DOMAIN r.node = Inos /\ DOMAIN r.kids = Inos
        /\ r.tomb = t.tomb \ {i}
        /\ \A j \in Inos : r.node[j] = t.node[j]
        /\ \A f \in Inos : DOMAIN r.kids[f] = Names
        /\ \A f \in Inos, n \in Names :
             r.kids[f][n] = IF f = up /\ n = name THEN NoIno ELSE t.kids[f][n]
    BY <1>3, <2>1 DEF TreeFits
  <2>4. TreeFits(r)
    BY <2>2 DEF TreeFits
  <2>5. Thinner(r, t)
    BY <1>3, <2>2 DEF Thinner, TreeFits
  <2> QED BY <1>3, <2>4, <2>5 DEF r
<1> QED BY <1>1, <1>2, <1>3

LEMMA RemoveAllFits ==
  ASSUME NEW t, TreeFits(t), NEW S
  PROVE  LET r == RemoveNodes(t, S) IN
         TreeFits(r) /\ Thinner(r, t) /\ \A i \in S \cap Inos : r.node[i] = NoNode
<1> DEFINE gone == {i \in S : Exists(t, i)}
           left(f) == {t.node[i].name : i \in {j \in gone : t.node[j].up = f}}
           r == RemoveNodes(t, S)
<1>1. /\ DOMAIN r = {"node", "kids", "tomb"}
      /\ r.node = [i \in Inos |-> IF i \in gone THEN NoNode ELSE t.node[i]]
      /\ r.kids = [f \in Inos |-> IF f \in gone THEN NoKids
                    ELSE [n \in Names |-> IF n \in left(f) THEN NoIno ELSE t.kids[f][n]]]
      /\ r.tomb = t.tomb \ gone
  BY DEF TreeFits, RemoveNodes
<1>2. \A i \in Inos : i \in gone <=> i \in S /\ t.node[i] # NoNode
  BY Numbers DEF Exists
<1>3. \A f \in Inos, n \in Names : t.kids[f][n] \in gone => n \in left(f)
  BY Numbers DEF TreeFits, Exists
<1> HIDE DEF r, gone, left
<1>4. \A f \in Inos, n \in Names :
        r.kids[f][n] = IF f \in gone \/ n \in left(f) THEN NoIno ELSE t.kids[f][n]
  BY <1>1 DEF NoKids
<1>5. \A f \in Inos : DOMAIN r.kids[f] = Names
  BY <1>1 DEF NoKids
<1>6. TreeFits(r)
  BY <1>1, <1>3, <1>4, <1>5 DEF TreeFits
<1>7. Thinner(r, t)
  BY <1>1, <1>3, <1>4 DEF Thinner
<1>8. \A i \in S \cap Inos : r.node[i] = NoNode
  BY <1>1, <1>2
<1> QED BY <1>6, <1>7, <1>8 DEF r

\* rename_entry: the node takes another name of its directory.
LEMMA RenameFits ==
  ASSUME NEW t, TreeFits(t), NEW i \in Inos, NEW m
  PROVE  LET r == RenameEntry(t, i, m) IN
         /\ TreeFits(r) /\ r.tomb = t.tomb
         /\ \A j \in Inos : r.node[j] = NoNode <=> t.node[j] = NoNode
         /\ \A j \in Inos : t.node[j] # NoNode => r.node[j].up = t.node[j].up
         /\ \A f \in Inos, n \in Names :
              \/ r.kids[f][n] \in {t.kids[f][n], NoIno}
              \/ r.kids[f][n] = i /\ t.node[i] # NoNode /\ t.node[i].up = f
<1> DEFINE r == RenameEntry(t, i, m)
<1>1. CASE ~Exists(t, i)
  BY <1>1 DEF RenameEntry
<1>2. CASE Exists(t, i)
  <2> DEFINE up == t.node[i].up
             name == t.node[i].name
             x == [t.node[i] EXCEPT !.up = up, !.name = m]
             u == [t EXCEPT !.kids[up][name] = NoIno]
  <2>1. r = [u EXCEPT !.kids[up][m] = i, !.node[i] = [@ EXCEPT !.up = up, !.name = m]]
    BY <1>2 DEF RenameEntry, MoveEntry
  <2>2. /\ DOMAIN u = {"node", "kids", "tomb"} /\ u.node = t.node /\ DOMAIN u.kids = Inos
        /\ u.tomb = t.tomb
        /\ \A f \in Inos : DOMAIN u.kids[f] = Names
        /\ \A f \in Inos, n \in Names :
             u.kids[f][n] = IF f = up /\ n = name THEN NoIno ELSE t.kids[f][n]
    BY DEF TreeFits
  <2>3. t.node[i] # NoNode /\ DOMAIN t.node[i] = NodeFields
    BY <1>2 DEF Exists, TreeFits
  <2>4. DOMAIN x = NodeFields /\ x.up = up /\ x.name = m /\ x # NoNode
    BY <2>3, NodesDiffer DEF NodeFields
  <2> HIDE DEF u
  <2>5. /\ DOMAIN r = {"node", "kids", "tomb"} /\ DOMAIN r.node = Inos /\ DOMAIN r.kids = Inos
        /\ r.tomb = t.tomb /\ r.node[i] = x
        /\ \A j \in Inos \ {i} : r.node[j] = t.node[j]
        /\ \A f \in Inos : DOMAIN r.kids[f] = Names
        /\ \A f \in Inos, n \in Names : r.kids[f][n] =
             IF f = up /\ n = m THEN i
             ELSE IF f = up /\ n = name THEN NoIno ELSE t.kids[f][n]
    BY <2>1, <2>2 DEF TreeFits
  <2>6. \A f \in Inos, n \in Names : t.kids[f][n] = i => f = up /\ n = name
    BY Numbers DEF TreeFits
  <2> HIDE DEF r, x, up, name
  <2>7. TreeFits(r)
    BY <2>4, <2>5, <2>6 DEF TreeFits
  <2>8. \A j \in Inos : /\ r.node[j] = NoNode <=> t.node[j] = NoNode
                        /\ t.node[j] # NoNode => r.node[j].up = t.node[j].up
    BY <2>3, <2>4, <2>5 DEF up
  <2>9. \A f \in Inos, n \in Names :
           \/ r.kids[f][n] \in {t.kids[f][n], NoIno}
           \/ r.kids[f][n] = i /\ t.node[i] # NoNode /\ t.node[i].up = f
    BY <2>3, <2>5 DEF up
  <2> QED BY <2>5, <2>7, <2>8, <2>9 DEF r
<1> QED BY <1>1, <1>2

\* A change of contents alone.
SameTree(r, t) ==
  /\ r.kids = t.kids /\ r.tomb = t.tomb
  /\ \A j \in Inos : r.node[j] = NoNode <=> t.node[j] = NoNode
  /\ \A j \in Inos : t.node[j] # NoNode => r.node[j].up = t.node[j].up

LEMMA ContentFits ==
  ASSUME NEW t, TreeFits(t), NEW i, NEW v
  PROVE  LET r == SetContent(t, i, v) IN TreeFits(r) /\ SameTree(r, t)
<1> DEFINE r == SetContent(t, i, v)
<1>1. CASE ~Exists(t, i) \/ i \notin Inos
  <2>1. /\ DOMAIN r = {"node", "kids", "tomb"} /\ DOMAIN r.node = Inos /\ r.kids = t.kids
        /\ r.tomb = t.tomb /\ \A j \in Inos : r.node[j] = t.node[j]
    BY <1>1 DEF SetContent, TreeFits
  <2> HIDE DEF r
  <2> QED BY <2>1 DEF TreeFits, SameTree, r
<1>2. CASE Exists(t, i) /\ i \in Inos
  <2> DEFINE x == [t.node[i] EXCEPT !.val = v]
  <2>1. /\ DOMAIN r = {"node", "kids", "tomb"} /\ DOMAIN r.node = Inos /\ r.kids = t.kids
        /\ r.tomb = t.tomb /\ r.node[i] = x /\ \A j \in Inos \ {i} : r.node[j] = t.node[j]
    BY <1>2 DEF SetContent, TreeFits
  <2>2. t.node[i] # NoNode /\ DOMAIN t.node[i] = NodeFields
    BY <1>2 DEF Exists, TreeFits
  <2>3. DOMAIN x = NodeFields /\ x.up = t.node[i].up /\ x.name = t.node[i].name /\ x # NoNode
    BY <2>2, NodesDiffer DEF NodeFields
  <2> HIDE DEF r, x
  <2> QED BY <2>1, <2>2, <2>3 DEF TreeFits, SameTree, r
<1> QED BY <1>1, <1>2

LEMMA ContentsFit ==
  ASSUME NEW t, TreeFits(t), NEW val
  PROVE  LET r == SetContents(t, val) IN TreeFits(r) /\ SameTree(r, t)
<1> DEFINE r == SetContents(t, val)
<1>1. /\ DOMAIN r = {"node", "kids", "tomb"} /\ r.kids = t.kids /\ r.tomb = t.tomb
      /\ r.node = [i \in Inos |-> IF i \in DOMAIN val /\ Exists(t, i)
                                  THEN [t.node[i] EXCEPT !.val = val[i]] ELSE t.node[i]]
  BY DEF TreeFits, SetContents
<1> HIDE DEF r
<1>2. ASSUME NEW i \in Inos, t.node[i] # NoNode
      PROVE  /\ DOMAIN r.node[i] = NodeFields /\ r.node[i].up = t.node[i].up
             /\ r.node[i].name = t.node[i].name /\ r.node[i] # NoNode
  <2>1. DOMAIN t.node[i] = NodeFields
    BY <1>2 DEF TreeFits
  <2> DEFINE x == [t.node[i] EXCEPT !.val = val[i]]
  <2>2. DOMAIN x = NodeFields /\ x.up = t.node[i].up /\ x.name = t.node[i].name /\ x # NoNode
    BY <2>1, NodesDiffer DEF NodeFields
  <2>3. r.node[i] = x \/ r.node[i] = t.node[i]
    BY <1>1
  <2> HIDE DEF x
  <2> QED BY <1>2, <2>1, <2>2, <2>3
<1>3. ASSUME NEW i \in Inos, t.node[i] = NoNode PROVE r.node[i] = NoNode
  BY <1>1, <1>3 DEF Exists
<1>4. TreeFits(r)
  BY <1>1, <1>2, <1>3 DEF TreeFits
<1>5. SameTree(r, t)
  BY <1>1, <1>2, <1>3 DEF SameTree
<1> QED BY <1>4, <1>5 DEF r

LEMMA InsertAllFits ==
  ASSUME NEW t, TreeFits(t), NEW new, DOMAIN new \subseteq Inos,
         \A i \in DOMAIN new : t.node[i] = NoNode /\ DOMAIN new[i] = NodeFields
  PROVE  LET r == InsertNodes(t, new) IN
         /\ TreeFits(r) /\ r.tomb = t.tomb
         /\ \A j \in Inos \ DOMAIN new : r.node[j] = t.node[j]
         /\ \A f \in Inos, n \in Names :
              \/ r.kids[f][n] = t.kids[f][n]
              \/ r.kids[f][n] \in DOMAIN new /\ new[r.kids[f][n]].up = f
<1> DEFINE named(f, n) == {i \in DOMAIN new : new[i].up = f /\ new[i].name = n}
           r == InsertNodes(t, new)
<1>1. /\ DOMAIN r = {"node", "kids", "tomb"} /\ r.tomb = t.tomb
      /\ r.node = [i \in Inos |-> IF i \in DOMAIN new THEN new[i] ELSE t.node[i]]
      /\ r.kids = [f \in Inos |-> [n \in Names |->
            IF named(f, n) = {} THEN t.kids[f][n] ELSE CHOOSE i \in named(f, n) : TRUE]]
  BY DEF TreeFits, InsertNodes
<1> HIDE DEF r
<1>2. \A f \in Inos, n \in Names :
        \/ r.kids[f][n] = t.kids[f][n]
        \/ r.kids[f][n] \in DOMAIN new /\ new[r.kids[f][n]].up = f /\ new[r.kids[f][n]].name = n
  <2> TAKE f \in Inos, n \in Names
  <2>1. CASE named(f, n) = {}
    BY <1>1, <2>1
  <2>2. CASE named(f, n) # {}
    <3>1. r.kids[f][n] = CHOOSE i \in named(f, n) : TRUE
      BY <1>1, <2>2
    <3> QED BY <2>2, <3>1
  <2> QED BY <2>1, <2>2
<1>3. DOMAIN r.node = Inos /\ DOMAIN r.kids = Inos /\ \A f \in Inos : DOMAIN r.kids[f] = Names
  BY <1>1
<1>4. \A j \in Inos : r.node[j] = IF j \in DOMAIN new THEN new[j] ELSE t.node[j]
  BY SMTT(60), <1>1
<1>5. TreeFits(r)
  BY <1>1, <1>2, <1>3, <1>4, NodesDiffer DEF TreeFits
<1> QED BY <1>1, <1>2, <1>4, <1>5 DEF r

(***************************************************************************)
(* The operations of the view that bring nothing new into it.              *)
(***************************************************************************)
Milder(w, v) ==
  /\ ViewFits(w) /\ w.ctx = v.ctx
  /\ \A c \in Contexts, d \in Docs :
       \/ w.doc[c][d] = v.doc[c][d]
       \/ w.doc[c][d] = NoIno /\ (v.doc[c][d] \in Inos => w.t.node[v.doc[c][d]] = NoNode)
  /\ \A i \in Inos : v.t.node[i] = NoNode => w.t.node[i] = NoNode
  /\ \A i \in Inos : w.t.node[i] # NoNode => w.t.node[i].up = v.t.node[i].up

LEMMA SameMilder ==
  ASSUME NEW v, ViewFits(v)
  PROVE  Milder(v, v)
BY DEF Milder

\* remove_doc_node, and the table of documents without it.
LEMMA DropMilder ==
  ASSUME ViewFits(view), NEW i
  PROVE  Milder(WithoutDocNode(i), view)
<1> DEFINE r == RemoveNode(view.t, i)
           w == WithoutDocNode(i)
<1>1. /\ DOMAIN w = {"t", "ctx", "doc", "sticky"} /\ w.t = r /\ w.ctx = view.ctx
      /\ w.doc = [c \in Contexts |-> [d \in Docs |->
                    IF view.doc[c][d] = i THEN NoIno ELSE view.doc[c][d]]]
  BY DEF WithoutDocNode, Unbound, ViewFits
<1>2. TreeFits(r) /\ Thinner(r, view.t) /\ (i \in Inos => r.node[i] = NoNode)
  BY RemoveFits DEF ViewFits
<1> HIDE DEF r, w
<1>3. DOMAIN w.doc = Contexts /\ \A c \in Contexts : DOMAIN w.doc[c] = Docs
  BY <1>1
<1>4. \A c \in Contexts, d \in Docs :
        w.doc[c][d] = IF view.doc[c][d] = i THEN NoIno ELSE view.doc[c][d]
  BY <1>1
<1>5. ASSUME NEW c \in Contexts, NEW n \in Names, w.ctx[c] # NoIno, w.t.kids[w.ctx[c]][n] # NoIno
      PROVE  Stands(w, c, w.t.kids[w.ctx[c]][n])
  <2> DEFINE k == w.t.kids[w.ctx[c]][n]
  <2>1. w.ctx[c] \in Inos
    BY <1>1, <1>5 DEF ViewFits
  <2>2. k = view.t.kids[view.ctx[c]][n]
    BY <1>1, <1>2, <1>5, <2>1 DEF Thinner
  <2>3. Stands(view, c, k)
    BY <1>1, <1>5, <2>2 DEF ViewFits
  <2>4. k \in Inos /\ r.node[k] # NoNode
    BY <1>1, <1>2, <1>5, <2>1 DEF TreeFits
  <2>5. k \in view.t.tomb => k \in r.tomb
    BY <1>1, <1>2, <1>5, <2>1, <2>2 DEF Thinner
  <2> HIDE DEF k
  <2>6. Stands(w, c, k)
    BY <1>1, <1>2, <1>4, <2>3, <2>4, <2>5 DEF Stands
  <2> QED BY <2>6 DEF k
<1>6. ViewFits(w)
  BY <1>1, <1>2, <1>3, <1>5 DEF ViewFits
<1>7. Milder(w, view)
  BY <1>1, <1>2, <1>4, <1>6 DEF Milder, Thinner
<1> QED BY <1>7 DEF w

\* set_content.
LEMMA ContentMilder ==
  ASSUME NEW v, ViewFits(v), NEW i, NEW val
  PROVE  Milder([v EXCEPT !.t = SetContent(@, i, val)], v)
<1> DEFINE r == SetContent(v.t, i, val)
           w == [v EXCEPT !.t = SetContent(@, i, val)]
<1>1. /\ DOMAIN w = {"t", "ctx", "doc", "sticky"} /\ w.t = r /\ w.ctx = v.ctx /\ w.doc = v.doc
  BY DEF ViewFits
<1>2. TreeFits(r) /\ SameTree(r, v.t)
  BY ContentFits DEF ViewFits
<1> HIDE DEF r, w
<1>3. ViewFits(w)
  BY <1>1, <1>2 DEF ViewFits, SameTree, Stands
<1>4. Milder(w, v)
  BY <1>1, <1>2, <1>3 DEF Milder, SameTree
<1> QED BY <1>4 DEF w

\* rename_entry of a document's file.
LEMMA RenameMilder ==
  ASSUME NEW v, ViewFits(v), NEW i \in Inos, NEW m,
         v.t.node[i] # NoNode => \A c \in Contexts :
           v.ctx[c] # NoIno /\ v.t.node[i].up = v.ctx[c] => \E d \in Docs : v.doc[c][d] = i
  PROVE  Milder([v EXCEPT !.t = RenameEntry(@, i, m)], v)
<1> DEFINE r == RenameEntry(v.t, i, m)
           w == [v EXCEPT !.t = RenameEntry(@, i, m)]
<1>1. /\ DOMAIN w = {"t", "ctx", "doc", "sticky"} /\ w.t = r /\ w.ctx = v.ctx /\ w.doc = v.doc
  BY DEF ViewFits
<1>2. /\ TreeFits(r) /\ r.tomb = v.t.tomb
      /\ \A j \in Inos : r.node[j] = NoNode <=> v.t.node[j] = NoNode
      /\ \A j \in Inos : v.t.node[j] # NoNode => r.node[j].up = v.t.node[j].up
      /\ \A f \in Inos, n \in Names :
           \/ r.kids[f][n] \in {v.t.kids[f][n], NoIno}
           \/ r.kids[f][n] = i /\ v.t.node[i] # NoNode /\ v.t.node[i].up = f
  BY RenameFits DEF ViewFits
<1> HIDE DEF r, w
<1>3. ASSUME NEW c \in Contexts, NEW n \in Names, w.ctx[c] # NoIno, w.t.kids[w.ctx[c]][n] # NoIno
      PROVE  Stands(w, c, w.t.kids[w.ctx[c]][n])
  <2>1. v.ctx[c] \in Inos /\ v.ctx[c] # NoIno
    BY <1>1, <1>3 DEF ViewFits
  <2>2. CASE r.kids[v.ctx[c]][n] = v.t.kids[v.ctx[c]][n]
    BY <1>1, <1>2, <1>3, <2>1, <2>2 DEF ViewFits, Stands
  <2>3. CASE r.kids[v.ctx[c]][n] = i /\ v.t.node[i] # NoNode /\ v.t.node[i].up = v.ctx[c]
    BY <1>1, <2>1, <2>3 DEF Stands
  <2> QED BY <1>1, <1>2, <1>3, <2>1, <2>2, <2>3
<1>4. ViewFits(w)
  BY <1>1, <1>2, <1>3 DEF ViewFits
<1>5. Milder(w, v)
  BY <1>1, <1>2, <1>4 DEF Milder
<1> QED BY <1>5 DEF w

(***************************************************************************)
(* Frames.                                                                 *)
(***************************************************************************)
LEMMA RenamesOn ==
  ASSUME NEW v, NEW w, Milder(w, v), NEW d, Renames(v, d)
  PROVE  Renames(w, d)
<1>1. fs.ctx \in Contexts /\ d \in Docs /\ fs.ino \in Inos /\ w.doc[fs.ctx][d] \in {fs.ino, NoIno}
  BY DEF Renames, Milder
<1>2. ASSUME w.t.node[fs.ino] # NoNode, NEW c \in Contexts, w.ctx[c] # NoIno,
             w.t.node[fs.ino].up = w.ctx[c]
      PROVE  c = fs.ctx /\ w.doc[c][d] = fs.ino
  <2>1. c = fs.ctx /\ v.doc[c][d] = fs.ino
    BY <1>1, <1>2 DEF Renames, Milder
  <2> QED BY <1>1, <1>2, <2>1 DEF Milder
<1> QED BY <1>1, <1>2 DEF Renames

ServerMore ==
  /\ srv'.live \subseteq Contexts /\ srv.born \subseteq srv'.born
  /\ \A c \in Contexts : srv'.filed[c] \subseteq srv'.born

\* No pending create is added.
OpenLess ==
  \A i \in Inos : Creating(open'[i]) =>
    Creating(open[i]) /\ open'[i].ctx = open[i].ctx /\ open'[i].dir = open[i].dir

LEMMA MildStep ==
  ASSUME FitInv, Milder(view', view), ServerMore, OpenLess, WorkFits', HandlerFits'
  PROVE  FitInv'
<1>1. BornFirst'
  BY DEF FitInv, BornFirst, ServerMore, Milder
<1>2. CreatesFit'
  BY DEF FitInv, CreatesFit, Apart, OpenLess, Milder
<1> QED BY <1>1, <1>2 DEF FitInv, Milder

LEMMA SameServer ==
  ASSUME BornFirst, srv' = srv
  PROVE  ServerMore
BY DEF BornFirst, ServerMore

LEMMA SameOpen ==
  ASSUME open' = open
  PROVE  OpenLess
BY DEF OpenLess

LEMMA WorkStays ==
  ASSUME WorkFits, work'.at = work.at, srv.born \subseteq srv'.born,
         fs'.pc \in {fs.pc, "idle"} \/ work.at.pc # "apply"
  PROVE  WorkFits'
BY DEF WorkFits

LEMMA HandlerRests ==
  ASSUME \/ fs'.pc \in {"idle", "unlink"}
         \/ fs'.pc = "flush" /\ fs'.doc = NoDoc
  PROVE  HandlerFits'
BY DEF HandlerFits

\* The handler's request is the same, whatever the answer.
SameRequest ==
  /\ fs'.ctx = fs.ctx /\ fs'.ino = fs.ino /\ fs'.doc = fs.doc /\ fs'.from = fs.from
  /\ fs'.over = fs.over
  /\ fs'.pc = fs.pc \/ (fs.pc = "replace" /\ fs'.pc = "detach")

LEMMA HandlerGoesOn ==
  ASSUME HandlerFits, Milder(view', view), srv.born \subseteq srv'.born, SameRequest,
         srv.born \subseteq Docs,
         fs.pc = "flush" /\ Creating(open[fs.ino]) => Creating(open'[fs.ino])
  PROVE  HandlerFits'
<1>1. ASSUME NEW d, Renames(view, d) PROVE Renames(view, d)'
  BY <1>1, RenamesOn DEF Renames, SameRequest
<1>2. (fs.pc = "flush" /\ fs.doc # NoDoc =>
        /\ Creating(open[fs.ino]) /\ fs.doc \in srv.born
        /\ \A c \in Contexts : view.doc[c][fs.doc] = NoIno)'
  BY DEF HandlerFits, SameRequest, Milder
<1>3. (fs.pc = "filename" => Renames(view, fs.doc))'
  BY <1>1 DEF HandlerFits, SameRequest
<1>4. (fs.pc \in {"replace", "detach"} =>
        /\ Renames(view, fs.from)
        /\ fs.doc \in srv.born /\ view.doc[fs.ctx][fs.doc] \in {fs.over, NoIno})'
  <2>1. CASE fs.pc \in {"replace", "detach"}
    <3>1. /\ Renames(view, fs.from) /\ fs.doc \in srv.born
          /\ view.doc[fs.ctx][fs.doc] \in {fs.over, NoIno} /\ fs.ctx \in Contexts
      BY <2>1 DEF HandlerFits, Renames
    <3> QED BY <1>1, <3>1 DEF SameRequest, Milder
  <2> QED BY <2>1 DEF SameRequest
<1> QED BY <1>2, <1>3, <1>4 DEF HandlerFits

(***************************************************************************)
(* The other clients, the socket, the timer.                               *)
(***************************************************************************)

\* A step that neither the view, nor the files, nor the handler take part in.
LEMMA ElsewhereStep ==
  ASSUME StoredInv, FitInv, view' = view, open' = open, fs' = fs, ServerMore, WorkFits'
  PROVE  FitInv'
<1>1. Milder(view', view)
  BY SameMilder DEF FitInv
<1>2. SameRequest
  BY DEF SameRequest
<1>3. HandlerFits'
  BY <1>1, <1>2, HandlerGoesOn DEF FitInv, StoredInv, ServerOK, ServerMore
<1> QED BY <1>1, <1>3, SameOpen, MildStep

LEMMA NewBorn ==
  ASSUME StoredInv, FitInv, NEW c, NEW d, NEW b, NEW v, srv' = Filed(srv, c, d, b, v)
  PROVE  ServerMore /\ d \in srv'.born
BY DEF StoredInv, ServerOK, FitInv, BornFirst, ServerMore, Filed

LEMMA Announced ==
  ASSUME StoredInv, NEW S, Announce(S)
  PROVE  work'.at = work.at
BY DEF StoredInv, ListingOK, Announce

LEMMA PeerFits ==
  ASSUME StoredInv, FitInv, Peers
  PROVE  FitInv'
<1> SUFFICES ASSUME NEW c \in Contexts, NEW d \in Docs, NEW b \in Bases, NEW here \in BOOLEAN,
                    \/ PeerFiles(c, d, here) \/ PeerCreates(c, b) \/ PeerDetaches(c, d)
                    \/ PeerEdits(d) \/ PeerRenames(d, b) \/ PeerTogglesContext(c)
             PROVE  FitInv'
  BY DEF Peers
<1>1. view' = view /\ open' = open /\ fs' = fs
  BY DEF PeerFiles, PeerCreates, PeerDetaches, PeerEdits, PeerRenames, PeerTogglesContext, Peer
<1>2. ServerMore
  <2> USE DEF StoredInv, ServerOK, FitInv, BornFirst, ServerMore
  <2>1. CASE PeerFiles(c, d, here)
    BY <2>1 DEF PeerFiles
  <2>2. CASE PeerCreates(c, b)
    BY <2>2, NewBorn DEF PeerCreates
  <2>3. CASE PeerDetaches(c, d)
    BY <2>3 DEF PeerDetaches
  <2>4. CASE PeerEdits(d) \/ PeerRenames(d, b)
    BY <2>4 DEF PeerEdits, PeerRenames
  <2>5. CASE PeerTogglesContext(c)
    BY <2>5 DEF PeerTogglesContext
  <2> QED BY <2>1, <2>2, <2>3, <2>4, <2>5
<1>3. work'.at = work.at
  <2>1. CASE PeerTogglesContext(c)
    BY <2>1 DEF PeerTogglesContext, StoredInv, ListingOK
  <2>2. CASE \E S : Announce(S)
    BY <2>2, Announced
  <2> QED BY <2>1, <2>2 DEF PeerFiles, PeerCreates, PeerDetaches, PeerEdits, PeerRenames
<1>4. WorkFits'
  BY <1>1, <1>2, <1>3, WorkStays DEF FitInv, ServerMore
<1> QED BY <1>1, <1>2, <1>4, ElsewhereStep

\* A step of the worker, the nudge thread or the socket away from the view.
LEMMA PlaceStep ==
  ASSUME StoredInv, FitInv, srv' = srv, view' = view, open' = open, fs' = fs, WorkFits'
  PROVE  FitInv'
<1>1. ServerMore
  BY SameServer DEF FitInv
<1> QED BY <1>1, ElsewhereStep

LEMMA QuietFits ==
  ASSUME StoredInv, FitInv, Socket \/ Disconnect \/ Resync \/ UNCHANGED vars
  PROVE  FitInv'
<1>1. srv' = srv /\ open' = open /\ fs' = fs /\ view' = view
  BY DEF Socket, Authenticate, WorkspaceReady, Disconnect, Resync, SocketOnly, WorkerOnly, vars
<1>2. work' = work \/ work' = [work EXCEPT !.jobs = @ \cup {All}]
  BY DEF Socket, Authenticate, WorkspaceReady, Disconnect, Resync, vars
<1>3. work'.at = work.at
  BY <1>2 DEF StoredInv, ListingOK
<1> QED BY <1>1, <1>3, WorkStays, PlaceStep DEF FitInv

(***************************************************************************)
(* The user's operations.                                                  *)
(***************************************************************************)
LEMMA UserFrame ==
  ASSUME StoredInv, FitInv, srv' = srv, work' = work, Milder(view', view), OpenLess,
         fs'.pc = fs.pc \/ work.at.pc # "apply", HandlerFits'
  PROVE  FitInv'
<1>1. WorkFits'
  BY WorkStays DEF FitInv
<1> QED BY <1>1, SameServer, MildStep DEF FitInv

LEMMA OpenFits ==
  ASSUME StoredInv, FitInv, NEW c, NEW n, NEW truncate, OpenExisting(c, n, truncate)
  PROVE  FitInv'
<1> DEFINE i == FileAt(c, n)
           h == [ctx |-> c, doc |-> DocOf(c, i), dir |-> view.ctx[c], name |-> n,
                 buf |-> IF truncate THEN 0 ELSE view.t.node[i].val,
                 dirty |-> truncate, entry |-> "none", told |-> "nothing"]
<1>1. /\ open' = [open EXCEPT ![i] = h] /\ srv' = srv /\ work' = work /\ view' = view
      /\ fs' = fs /\ fs.pc = "idle" /\ DocOf(c, i) # NoDoc
  BY DEF OpenExisting, Idling, Local
<1>2. h.doc # NoDoc
  BY <1>1
<1> HIDE DEF h, i
<1>3. OpenLess
  BY SMTT(60), <1>1, <1>2 DEF OpenLess, Creating, StoredInv, OpenOK
<1> QED BY <1>1, <1>3, SameMilder, HandlerRests, UserFrame DEF FitInv

\* Where a name leads.
LEMMA Found ==
  ASSUME FitInv, NEW c \in Contexts, NEW n \in Names, FileAt(c, n) # NoIno
  PROVE  LET i == FileAt(c, n) IN
         /\ view.ctx[c] \in Inos /\ i = view.t.kids[view.ctx[c]][n] /\ i \in Inos
         /\ view.t.node[i] # NoNode /\ view.t.node[i].up = view.ctx[c]
BY ZenonT(60), Numbers DEF FileAt, Lookup, FitInv, ViewFits, TreeFits

LEMMA DocFound ==
  ASSUME NEW c, NEW i, DocOf(c, i) # NoDoc
  PROVE  DocOf(c, i) \in Docs /\ view.doc[c][DocOf(c, i)] = i
BY DEF DocOf, DocsOf

LEMMA DocStands ==
  ASSUME NEW c, NEW i, NEW d \in Docs, view.doc[c][d] = i
  PROVE  DocOf(c, i) # NoDoc
BY Numbers DEF DocOf, DocsOf

\* A file that has a name is asked about under the document it stands for.
LEMMA AskedToRename ==
  ASSUME FitInv, NEW c \in Contexts, NEW n \in Names, FileAt(c, n) # NoIno,
         NEW d \in Docs, view.doc[c][d] = FileAt(c, n),
         view' = view, fs'.ctx = c, fs'.ino = FileAt(c, n)
  PROVE  Renames(view, d)'
<1> DEFINE i == FileAt(c, n)
<1>1. /\ view.ctx[c] \in Inos /\ i \in Inos /\ view.t.node[i] # NoNode
      /\ view.t.node[i].up = view.ctx[c]
  BY Found
<1>2. \A e \in Contexts : view.ctx[e] # NoIno /\ view.t.node[i].up = view.ctx[e] => e = c
  BY <1>1 DEF FitInv, ViewFits
<1> HIDE DEF i
<1> QED BY <1>1, <1>2 DEF Renames, i

LEMMA RenamesPending ==
  ASSUME StoredInv, FitInv, NEW c \in Contexts, NEW n \in Names, NEW m \in Names,
         RenamePending(c, n, m)
  PROVE  OpenLess
<1> DEFINE d == IF FileAt(c, m) = NoIno THEN NoDoc ELSE DocOf(c, FileAt(c, m))
<1>1. open' = [i \in Inos |->
             IF i \in Pending(c, n) /\ d # NoDoc
               THEN [open[i] EXCEPT !.doc = d, !.dirty = TRUE, !.name = m, !.entry = "hidden"]
             ELSE IF i \in Pending(c, n) THEN [open[i] EXCEPT !.name = m]
             ELSE IF i \in Pending(c, m) /\ d = NoDoc THEN [open[i] EXCEPT !.entry = "hidden"]
             ELSE open[i]]
  BY DEF RenamePending
<1> HIDE DEF d
<1>2. ASSUME NEW i \in Inos, Creating(open'[i])
      PROVE  Creating(open[i]) /\ open'[i].ctx = open[i].ctx /\ open'[i].dir = open[i].dir
  <2>1. CASE open'[i] = open[i]
    BY <1>2, <2>1
  <2>2. CASE i \in Pending(c, n) \cup Pending(c, m)
    <3>1. open[i] # NoHandle /\ DOMAIN open[i] = HandleFields
      BY <2>2 DEF Pending, OpenInos, StoredInv, OpenOK, HandleOK, HandleFields
    <3>2. CASE i \in Pending(c, n) /\ d # NoDoc
      <4>1. open'[i] = [open[i] EXCEPT !.doc = d, !.dirty = TRUE, !.name = m, !.entry = "hidden"]
        BY <1>1, <3>2
      <4>2. open'[i].doc = d
        BY <3>1, <4>1 DEF HandleFields
      <4> QED BY <1>2, <3>2, <4>2 DEF Creating
    <3>3. CASE ~(i \in Pending(c, n) /\ d # NoDoc)
      <4>1. \/ open'[i] = [open[i] EXCEPT !.name = m] \/ open'[i] = [open[i] EXCEPT !.entry = "hidden"]
            \/ open'[i] = open[i]
        BY <1>1, <3>3
      <4>2. /\ open'[i].ctx = open[i].ctx /\ open'[i].dir = open[i].dir
            /\ open'[i].doc = open[i].doc
        BY <3>1, <4>1 DEF HandleFields
      <4> QED BY <1>2, <3>1, <4>2 DEF Creating
    <3> QED BY <3>2, <3>3
  <2> QED BY <1>1, <2>1, <2>2
<1> QED BY <1>2 DEF OpenLess

LEMMA RenameStepFits ==
  ASSUME StoredInv, FitInv, NEW c \in Contexts, NEW n \in Names, NEW m \in Names, Rename(c, n, m)
  PROVE  FitInv'
<1>1. /\ fs.pc = "idle" /\ work.at.pc # "apply" /\ srv' = srv /\ work' = work /\ view' = view
  BY DEF Rename, SyncFree, Local
<1>2. Milder(view', view)
  BY <1>1, SameMilder DEF FitInv
<1>3. CASE RenamePending(c, n, m)
  <2>1. OpenLess /\ fs' = fs
    BY Zenon, <1>3, RenamesPending DEF RenamePending
  <2> QED BY SMTT(60), <1>1, <1>2, <2>1, HandlerRests, UserFrame
<1>4. CASE RenameFile(c, n, m)
  <2> DEFINE i == FileAt(c, n)
             over == FileAt(c, m)
  <2>1. i # NoIno /\ DocOf(c, i) # NoDoc /\ open' = open
    BY <1>4 DEF RenameFile
  <2>2. PICK d \in Docs : d = DocOf(c, i) /\ view.doc[c][d] = i
    BY <2>1, DocFound
  <2>3. CASE fs' = [FsIdle EXCEPT !.pc = "filename", !.ino = i, !.ctx = c,
                                  !.doc = DocOf(c, i), !.to = m]
    <3>1. fs'.pc = "filename" /\ fs'.ino = i /\ fs'.ctx = c /\ fs'.doc = d
      BY <2>2, <2>3 DEF FsIdle
    <3>2. Renames(view, d)'
      BY <1>1, <2>1, <2>2, <3>1, AskedToRename
    <3>3. HandlerFits'
      BY <3>1, <3>2 DEF HandlerFits, Renames
    <3> QED BY <1>1, <1>2, <2>1, <3>3, SameOpen, UserFrame
  <2>4. CASE /\ over # NoIno /\ DocOf(c, over) # NoDoc
             /\ fs' = [FsIdle EXCEPT !.pc = "replace", !.ino = i, !.ctx = c, !.to = m,
                                !.over = over, !.doc = DocOf(c, over),
                                !.from = DocOf(c, i), !.val = view.t.node[i].val]
    <3>1. /\ fs'.pc = "replace" /\ fs'.ino = i /\ fs'.ctx = c /\ fs'.from = d
          /\ fs'.over = over /\ fs'.doc = DocOf(c, over)
      BY <2>2, <2>4 DEF FsIdle
    <3>2. Renames(view, d)'
      BY <1>1, <2>1, <2>2, <3>1, AskedToRename
    <3>3. DocOf(c, over) \in Docs /\ view.doc[c][DocOf(c, over)] = over
      BY <2>4, DocFound
    <3>4. DocOf(c, over) \in srv.born
      BY <2>4, <3>3 DEF FitInv, BornFirst
    <3>5. HandlerFits'
      BY <1>1, <3>1, <3>2, <3>3, <3>4 DEF HandlerFits, Renames
    <3> QED BY <1>1, <1>2, <2>1, <3>5, SameOpen, UserFrame
  <2> QED BY <1>4, <2>3, <2>4 DEF RenameFile
<1> QED BY <1>3, <1>4 DEF Rename

\* A new inode is one of the pool that nothing refers to.
LEMMA AllocFits ==
  ASSUME InosLast, NEW c \in Contexts
  PROVE  AllocIno(view.t, Held) \in Inos \ (InUse(view.t) \cup Held)
<1> DEFINE T == Inos \ (InUse(view.t) \cup Held)
<1>1. Injection({c}, T) # {}
  BY DEF InosLast
<1> HIDE DEF T
<1>2. T # {}
  BY <1>1 DEF Injection
<1> QED BY <1>2 DEF T, AllocIno

LEMMA CreateFits ==
  ASSUME StoredInv, FitInv, InosLast, NEW c \in Contexts, NEW b, Create(c, b)
  PROVE  FitInv'
<1> DEFINE i == AllocIno(view.t, Held)
           h == [ctx |-> c, doc |-> NoDoc, dir |-> view.ctx[c], name |-> Plain(b), buf |-> 0,
                 dirty |-> TRUE, entry |-> "listed", told |-> "nothing"]
<1>1. /\ open' = [open EXCEPT ![i] = h] /\ srv' = srv /\ work' = work /\ view' = view
      /\ fs' = fs /\ fs.pc = "idle" /\ view.ctx[c] # NoIno
  BY DEF Create, Idling, Local
<1>2. i \in Inos /\ view.t.node[i] = NoNode
  BY AllocFits, Numbers DEF InUse, Exists
<1>3. h.ctx = c /\ h.dir = view.ctx[c]
  OBVIOUS
<1> HIDE DEF i, h
<1>4. CreatesFit'
  <2> SUFFICES ASSUME NEW j \in Inos, Creating(open'[j])
               PROVE  Apart(view', j, open'[j])
    BY DEF CreatesFit
  <2>1. CASE j = i
    BY <1>1, <1>2, <1>3, <2>1 DEF Apart, StoredInv, OpenOK, FitInv, ViewFits
  <2>2. CASE j # i
    BY <1>1, <2>2 DEF Apart, StoredInv, OpenOK, FitInv, CreatesFit
  <2> QED BY <2>1, <2>2
<1>5. BornFirst' /\ WorkFits' /\ HandlerFits' /\ ViewFits(view)'
  BY <1>1, HandlerRests, WorkStays DEF FitInv, BornFirst
<1> QED BY <1>4, <1>5 DEF FitInv

\* Write, Flush and Release keep what a handle is.
LEMMA HandleKept ==
  ASSUME StoredInv, NEW i \in Inos, NEW h, open' = [open EXCEPT ![i] = h],
         h # NoHandle => /\ open[i] # NoHandle /\ h.doc = open[i].doc
                         /\ h.ctx = open[i].ctx /\ h.dir = open[i].dir
  PROVE  OpenLess
BY DEF OpenLess, Creating, StoredInv, OpenOK

LEMMA FieldsOf ==
  ASSUME StoredInv, NEW i \in Inos, open[i] # NoHandle
  PROVE  DOMAIN open[i] = HandleFields
BY DEF StoredInv, OpenOK, HandleOK, HandleFields

LEMMA WriteFits ==
  ASSUME StoredInv, FitInv, NEW i \in Inos, Write(i)
  PROVE  FitInv'
<1> DEFINE h == [open[i] EXCEPT !.buf = Fresh, !.dirty = TRUE, !.told = "nothing"]
<1>1. /\ open' = [open EXCEPT ![i] = h] /\ srv' = srv /\ work' = work /\ view' = view
      /\ fs' = fs /\ fs.pc = "idle" /\ open[i] # NoHandle
  BY DEF Write, Idling, Local
<1>2. h.doc = open[i].doc /\ h.ctx = open[i].ctx /\ h.dir = open[i].dir
  BY <1>1, FieldsOf DEF HandleFields
<1> HIDE DEF h
<1>3. OpenLess
  BY <1>1, <1>2, HandleKept
<1> QED BY <1>1, <1>3, SameMilder, HandlerRests, UserFrame DEF FitInv

\* The start of a save, or the end of a file that needs none.
LEMMA SaveFits ==
  ASSUME StoredInv, FitInv, NEW i \in Inos, Flush(i) \/ Release(i)
  PROVE  FitInv'
<1>1. /\ srv' = srv /\ work' = work /\ view' = view /\ fs.pc = "idle" /\ work.at.pc # "apply"
      /\ open[i] # NoHandle
  BY DEF Flush, Release, SyncFree, Local
<1>2. DOMAIN open[i] = HandleFields
  BY <1>1, FieldsOf
<1>3. \/ open' = [open EXCEPT ![i].told = "ok"] \/ open' = [open EXCEPT ![i].dirty = FALSE]
      \/ open' = [open EXCEPT ![i] = NoHandle]
  BY DEF Flush, Release
<1>4. OpenLess
  <2> DEFINE g == [open[i] EXCEPT !.told = "ok"]
             h == [open[i] EXCEPT !.dirty = FALSE]
  <2>1. /\ g.doc = open[i].doc /\ g.ctx = open[i].ctx /\ g.dir = open[i].dir
        /\ h.doc = open[i].doc /\ h.ctx = open[i].ctx /\ h.dir = open[i].dir
    BY <1>2 DEF HandleFields
  <2>2. \/ open' = [open EXCEPT ![i] = g] \/ open' = [open EXCEPT ![i] = h]
        \/ open' = [open EXCEPT ![i] = NoHandle]
    BY <1>3
  <2> HIDE DEF g, h
  <2> QED BY <1>1, <2>1, <2>2, HandleKept
<1>5. \/ fs' = fs \/ fs' = [[FsIdle EXCEPT !.pc = "flush", !.ino = i] EXCEPT !.out = "none"]
      \/ fs' = [[FsIdle EXCEPT !.pc = "flush", !.ino = i, !.final = TRUE] EXCEPT !.out = "none"]
  BY DEF Flush, Release, Ask
<1>6. fs'.pc = "idle" \/ (fs'.pc = "flush" /\ fs'.doc = NoDoc)
  BY <1>1, <1>5 DEF FsIdle
<1> QED BY <1>1, <1>4, <1>6, SameMilder, HandlerRests, UserFrame DEF FitInv

\* unlink(2), whoever it comes from.
LEMMA UnlinkFits ==
  ASSUME StoredInv, FitInv, NEW c, NEW n, Unlink(c, n), srv' = srv, work' = work
  PROVE  FitInv'
<1>1. fs.pc = "idle"
  BY DEF Unlink, Idling
<1>2. CASE CollectTombstone(c, n)
  <2>1. view' = WithoutDocNode(Entry(c, n)) /\ open' = open /\ fs' = fs
    BY <1>2 DEF CollectTombstone
  <2>2. Milder(view', view)
    BY <2>1, DropMilder DEF FitInv
  <2> QED BY <1>1, <2>1, <2>2, HandlerRests, SameOpen, UserFrame
<1>3. CASE DropPending(c, n)
  <2>1. /\ view' = view /\ fs' = fs
        /\ open' = [i \in Inos |-> IF i \in Pending(c, n) THEN NoHandle ELSE open[i]]
    BY <1>3 DEF DropPending
  <2>2. OpenLess
    BY <2>1 DEF OpenLess, Creating
  <2> QED BY <1>1, <2>1, <2>2, SameMilder, HandlerRests, UserFrame DEF FitInv
<1>4. CASE AskUnlink(c, n)
  <2>1. view' = view /\ open' = open /\ work.at.pc # "apply" /\ fs'.pc = "unlink"
    BY <1>4 DEF AskUnlink, SyncFree, FsIdle
  <2> QED BY <2>1, SameMilder, HandlerRests, SameOpen, UserFrame DEF FitInv
<1> QED BY <1>2, <1>3, <1>4 DEF Unlink

LEMMA UserFits ==
  ASSUME StoredInv, FitInv, InosLast, User
  PROVE  FitInv'
<1>1. ASSUME NEW c, NEW n, UserUnlinks(c, n) PROVE FitInv'
  BY <1>1, UnlinkFits DEF UserUnlinks, Local
<1>2. ASSUME NEW c \in Contexts, NEW b, Create(c, b) PROVE FitInv'
  BY <1>2, CreateFits
<1> QED BY <1>1, <1>2, OpenFits, RenameStepFits, WriteFits, SaveFits DEF User

LEMMA NudgeFits ==
  ASSUME StoredInv, FitInv, Nudger
  PROVE  FitInv'
<1>1. CASE NudgeDrain
  <2>1. srv' = srv /\ open' = open /\ fs' = fs /\ view' = view /\ work' = work
    BY <1>1 DEF NudgeDrain, WorkerOnly
  <2> QED BY <2>1, WorkStays, PlaceStep DEF FitInv
<1>2. ASSUME NEW c \in Contexts, NEW n \in Names, NudgeUnlink(c, n)
      PROVE  FitInv'
  <2>1. srv' = srv /\ work' = work
    BY <1>2 DEF NudgeUnlink
  <2>2. CASE Unlink(c, n)
    BY <2>1, <2>2, UnlinkFits
  <2>3. CASE NothingAt(c, n)
    <3>1. view' = view /\ open' = open /\ fs' = fs
      BY <2>3 DEF NothingAt
    <3> QED BY <2>1, <3>1, WorkStays, PlaceStep DEF FitInv
  <2> QED BY <1>2, <2>2, <2>3 DEF NudgeUnlink
<1> QED BY <1>1, <1>2 DEF Nudger

(***************************************************************************)
(* The requests.                                                           *)
(***************************************************************************)

\* One that is made or fails on the way: the handler has its answer.
LEMMA RequestFrame ==
  ASSUME StoredInv, FitInv, view' = view, open' = open, fs.pc # "idle",
         fs' = [fs EXCEPT !.out = "ok"] \/ fs' = [fs EXCEPT !.out = "error"],
         ServerMore, work'.at = work.at
  PROVE  FitInv'
<1>1. Milder(view', view)
  BY SameMilder DEF FitInv
<1>2. SameRequest /\ fs'.pc = fs.pc
  BY DEF SameRequest, StoredInv, HandlerOK
<1>3. HandlerFits'
  BY <1>1, <1>2, HandlerGoesOn DEF FitInv, StoredInv, ServerOK, ServerMore
<1>4. WorkFits'
  BY <1>2, WorkStays DEF FitInv, ServerMore
<1> QED BY <1>1, <1>3, <1>4, SameOpen, MildStep

\* What a request may do to the documents' ids and to the listings: nothing, or less.
LEMMA SameBorn ==
  ASSUME StoredInv, FitInv, NEW c, NEW d, NEW v, NEW b,
         \/ srv' = [srv EXCEPT !.val[d] = v] \/ srv' = [srv EXCEPT !.filed[c] = @ \ {d}]
         \/ srv' = [srv EXCEPT !.base[d] = b] \/ srv' = srv
  PROVE  ServerMore
BY DEF StoredInv, ServerOK, FitInv, BornFirst, ServerMore

LEMMA RequestFits ==
  ASSUME StoredInv, FitInv,
         \/ FlushUpdate \/ UnlinkAtServer \/ FilenameAtServer
         \/ ReplaceAtServer \/ DetachAtServer
  PROVE  FitInv'
<1>1. view' = view /\ open' = open /\ fs.pc # "idle"
  BY DEF FlushUpdate, UnlinkAtServer, FilenameAtServer, ReplaceAtServer, DetachAtServer, Asking
<1>2. ASSUME NEW c, NEW d, NEW v, PutContent(c, d, v) PROVE FitInv'
  <2>1. /\ fs' = [fs EXCEPT !.out = "ok"] \/ fs' = [fs EXCEPT !.out = "error"]
        /\ \/ srv' = srv /\ work' = work
           \/ srv' = [srv EXCEPT !.val[d] = v] /\ Announce(FiledIn(d))
    BY <1>2 DEF PutContent, Answered
  <2>2. ServerMore /\ work'.at = work.at
    BY <2>1, SameBorn, Announced
  <2> QED BY <1>1, <2>1, <2>2, RequestFrame
<1>3. ASSUME NEW c, NEW d, RemoveDocuments(c, d) PROVE FitInv'
  <2>1. /\ fs' = [fs EXCEPT !.out = "ok"] \/ fs' = [fs EXCEPT !.out = "error"]
        /\ \/ srv' = srv /\ work' = work
           \/ srv' = [srv EXCEPT !.filed[c] = @ \ {d}] /\ Announce({c})
    BY <1>3 DEF RemoveDocuments, Answered
  <2>2. ServerMore /\ work'.at = work.at
    BY <2>1, SameBorn, Announced
  <2> QED BY <1>1, <2>1, <2>2, RequestFrame
<1>4. CASE FilenameAtServer
  <2>1. /\ fs' = [fs EXCEPT !.out = "ok"] \/ fs' = [fs EXCEPT !.out = "error"]
        /\ \/ srv' = srv /\ work' = work
           \/ srv' = [srv EXCEPT !.base[fs.doc] = fs.to[1]] /\ Announce(FiledIn(fs.doc))
    BY <1>4 DEF FilenameAtServer, Answered
  <2>2. ServerMore
    BY <2>1 DEF StoredInv, ServerOK, FitInv, BornFirst, ServerMore
  <2>3. work'.at = work.at
    BY <2>1, Announced
  <2> QED BY <1>1, <2>1, <2>2, <2>3, RequestFrame
<1>5. CASE FlushUpdate \/ ReplaceAtServer
  BY <1>2, <1>5 DEF FlushUpdate, ReplaceAtServer
<1>6. CASE UnlinkAtServer \/ DetachAtServer
  BY <1>3, <1>6 DEF UnlinkAtServer, DetachAtServer
<1> QED BY <1>4, <1>5, <1>6

\* The server's new document has an id that nothing here stands for.
LEMMA FlushCreateFits ==
  ASSUME StoredInv, FitInv, FlushCreate
  PROVE  FitInv'
<1> DEFINE h == open[fs.ino]
<1>1. /\ view' = view /\ open' = open /\ fs.pc = "flush" /\ h.doc = NoDoc
      /\ \/ /\ fs' = [fs EXCEPT !.out = "error"]
            /\ \/ srv' = srv /\ work' = work
               \/ srv' = Filed(srv, h.ctx, NewDoc, h.name[1], h.buf) /\ Announce({h.ctx})
         \/ /\ fs' = [fs EXCEPT !.out = "ok", !.doc = NewDoc] /\ NextDoc # {}
            /\ srv' = Filed(srv, h.ctx, NewDoc, h.name[1], h.buf) /\ Announce({h.ctx})
  BY DEF FlushCreate, Asking
<1>2. ServerMore /\ work'.at = work.at
  BY <1>1, NewBorn, SameBorn, Announced
<1>3. CASE fs' = [fs EXCEPT !.out = "error"]
  BY <1>1, <1>2, <1>3, RequestFrame
<1>4. CASE /\ fs' = [fs EXCEPT !.out = "ok", !.doc = NewDoc] /\ NextDoc # {}
           /\ srv' = Filed(srv, h.ctx, NewDoc, h.name[1], h.buf)
  <2>1. PICK d \in Docs : d = NewDoc /\ d \notin srv.born
    BY <1>4, LeastDoc
  <2>2. fs'.pc = "flush" /\ fs'.doc = d /\ fs'.ino = fs.ino
    BY <1>1, <1>4, <2>1 DEF StoredInv, HandlerOK
  <2>3. d \in srv'.born
    BY <1>4, <2>1, NewBorn
  <2>4. \A c \in Contexts : view.doc[c][d] = NoIno
    BY <2>1 DEF FitInv, BornFirst
  <2>5. Creating(open[fs.ino])
    BY <1>1 DEF Creating, StoredInv, HandlerOK
  <2>6. HandlerFits'
    BY <1>1, <2>2, <2>3, <2>4, <2>5 DEF HandlerFits
  <2>7. WorkFits'
    BY <1>1, <1>2, <2>2, WorkStays DEF FitInv, ServerMore
  <2> QED BY <1>1, <1>2, <2>6, <2>7, SameMilder, SameOpen, MildStep DEF FitInv
<1> QED BY <1>1, <1>3, <1>4

(***************************************************************************)
(* What the handlers do with the answers.                                  *)
(***************************************************************************)
LEMMA DoneFrame ==
  ASSUME StoredInv, FitInv, srv' = srv, work' = work, fs'.pc = "idle",
         Milder(view', view), OpenLess
  PROVE  FitInv'
<1>1. WorkFits'
  BY WorkStays DEF FitInv
<1> QED BY <1>1, HandlerRests, SameServer, MildStep DEF FitInv

LEMMA AdoptFits ==
  ASSUME StoredInv, FitInv, srv' = srv, work' = work, fs' = FsIdle,
         fs.pc = "flush", fs.doc # NoDoc, AdoptDocument(fs.ino, open[fs.ino], fs.doc)
  PROVE  FitInv'
<1> DEFINE i == fs.ino
           h == open[i]
           d == fs.doc
           c == h.ctx
           node == [up |-> h.dir, name |-> h.name, dir |-> FALSE, val |-> h.buf]
           r == InsertNode(view.t, i, node)
<1>1. /\ i \in Inos /\ Creating(h) /\ d \in srv.born /\ d \in Docs
      /\ \A e \in Contexts : view.doc[e][d] = NoIno
  BY DEF StoredInv, HandlerOK, ServerOK, FitInv, HandlerFits
<1>2. /\ view.t.node[i] = NoNode /\ c \in Contexts
      /\ \A e \in Contexts : view.ctx[e] = h.dir => e = c
  BY <1>1 DEF FitInv, CreatesFit, Apart
<1>3. /\ view' = [view EXCEPT !.doc[c][d] = i, !.t = r]
      /\ open' = [j \in Inos |->
           IF j = i /\ fs.final THEN NoHandle
           ELSE IF j = i THEN [h EXCEPT !.doc = d, !.entry = "none", !.told = "ok"]
           ELSE IF open[j] # NoHandle /\ open[j].entry = "listed"
                   /\ open[j].dir = h.dir /\ open[j].name = h.name
                THEN [open[j] EXCEPT !.entry = "hidden"]
           ELSE open[j]]
  BY DEF AdoptDocument
<1>4. DOMAIN node = NodeFields /\ node.up = h.dir
  BY DEF NodeFields
<1>5. DOMAIN h = HandleFields
  BY <1>1, FieldsOf DEF Creating
<1> HIDE DEF i, h, node
<1>6. /\ TreeFits(r) /\ r.tomb = view.t.tomb
      /\ \A j \in Inos \ {i} : r.node[j] = view.t.node[j]
      /\ \A f \in Inos, n \in Names : r.kids[f][n] = view.t.kids[f][n] \/ (r.kids[f][n] = i /\ f = h.dir)
  BY <1>1, <1>2, <1>4, InsertFits DEF FitInv, ViewFits
<1> HIDE DEF r, d, c
<1>7. /\ DOMAIN view' = {"t", "ctx", "doc", "sticky"} /\ view'.t = r /\ view'.ctx = view.ctx
      /\ DOMAIN view'.doc = Contexts /\ \A e \in Contexts : DOMAIN view'.doc[e] = Docs
      /\ \A e \in Contexts, g \in Docs :
           view'.doc[e][g] = IF e = c /\ g = d THEN i ELSE view.doc[e][g]
  BY <1>1, <1>2, <1>3 DEF FitInv, ViewFits
<1>8. ViewFits(view')
  <2>1. ASSUME NEW e \in Contexts, NEW n \in Names, view'.ctx[e] # NoIno,
               view'.t.kids[view'.ctx[e]][n] # NoIno
        PROVE  Stands(view', e, view'.t.kids[view'.ctx[e]][n])
    <3> DEFINE k == r.kids[view.ctx[e]][n]
    <3>1. view.ctx[e] \in Inos /\ k # NoIno /\ view.ctx[e] # NoIno
      BY <1>7, <2>1 DEF FitInv, ViewFits
    <3>2. CASE k = i /\ view.ctx[e] = h.dir
      BY <1>1, <1>2, <1>7, <3>2 DEF Stands
    <3>3. CASE k = view.t.kids[view.ctx[e]][n]
      <4>1. Stands(view, e, k)
        BY <3>1, <3>3 DEF FitInv, ViewFits
      <4> HIDE DEF k
      <4>2. Stands(view', e, k)
        BY <1>1, <1>2, <1>6, <1>7, <3>1, <4>1 DEF Stands
      <4> QED BY <1>7, <4>2 DEF k
    <3> QED BY <1>6, <3>1, <3>2, <3>3
  <2> QED BY <1>6, <1>7, <2>1 DEF FitInv, ViewFits
<1>9. BornFirst'
  BY <1>1, <1>7 DEF FitInv, BornFirst
<1>10. ASSUME NEW j \in Inos, Creating(open'[j])
       PROVE  j # i /\ Creating(open[j]) /\ open'[j].ctx = open[j].ctx /\ open'[j].dir = open[j].dir
  <2>1. CASE j = i
    <3>1. open'[i] = NoHandle \/ open'[i] = [h EXCEPT !.doc = d, !.entry = "none", !.told = "ok"]
      BY <1>1, <1>3
    <3>2. [h EXCEPT !.doc = d, !.entry = "none", !.told = "ok"].doc = d
      BY <1>5 DEF HandleFields
    <3>3. d # NoDoc
      BY <1>1, Numbers
    <3> QED BY <1>10, <2>1, <3>1, <3>2, <3>3 DEF Creating
  <2>2. CASE j # i /\ open'[j] # open[j]
    <3>1. open[j] # NoHandle /\ open'[j] = [open[j] EXCEPT !.entry = "hidden"]
      BY <1>3, <2>2
    <3>2. DOMAIN open[j] = HandleFields
      BY <3>1, FieldsOf
    <3>3. /\ open'[j].ctx = open[j].ctx /\ open'[j].dir = open[j].dir
          /\ open'[j].doc = open[j].doc
      BY <3>1, <3>2 DEF HandleFields
    <3> QED BY <1>10, <2>2, <3>1, <3>3 DEF Creating
  <2> QED BY <1>10, <2>1, <2>2
<1>11. CreatesFit'
  BY <1>6, <1>7, <1>10 DEF FitInv, CreatesFit, Apart
<1>12. WorkFits' /\ HandlerFits'
  BY WorkStays, HandlerRests DEF FitInv, FsIdle
<1> QED BY <1>8, <1>9, <1>11, <1>12 DEF FitInv

LEMMA FlushDoneFits ==
  ASSUME StoredInv, FitInv, FlushDone
  PROVE  FitInv'
<1> DEFINE i == fs.ino
           h == open[fs.ino]
<1>1. fs' = FsIdle /\ srv' = srv /\ work' = work /\ fs.pc = "flush" /\ fs'.pc = "idle"
  BY DEF FlushDone, Told, FsIdle
<1>2. i \in Inos /\ h # NoHandle /\ DOMAIN h = HandleFields
  BY <1>1, FieldsOf DEF StoredInv, HandlerOK
<1>3. CASE fs.out = "ok" /\ fs.doc # NoDoc
  <2>1. AdoptDocument(fs.ino, open[fs.ino], fs.doc)
    BY <1>3 DEF FlushDone
  <2> QED BY <1>1, <1>3, <2>1, AdoptFits
<1>4. CASE fs.out = "ok" /\ fs.doc = NoDoc
  <2> DEFINE a == IF fs.final THEN NoHandle ELSE [h EXCEPT !.told = "ok"]
  <2>1. /\ view' = [view EXCEPT !.t = SetContent(@, view.doc[h.ctx][h.doc], h.buf)]
        /\ open' = [open EXCEPT ![i] = a]
    BY <1>4 DEF FlushDone
  <2>2. a # NoHandle => a.doc = h.doc /\ a.ctx = h.ctx /\ a.dir = h.dir
    BY <1>2 DEF HandleFields
  <2> HIDE DEF a
  <2>3. OpenLess
    BY <1>2, <2>1, <2>2, HandleKept
  <2>4. Milder(view', view)
    BY <2>1, ContentMilder DEF FitInv
  <2> QED BY <1>1, <2>3, <2>4, DoneFrame
<1>5. CASE fs.out # "ok"
  <2> DEFINE a == IF fs.final THEN NoHandle ELSE Unsaved(h)
  <2>1. view' = view /\ open' = [open EXCEPT ![i] = a]
    BY <1>5 DEF FlushDone
  <2>2. a # NoHandle => a.doc = h.doc /\ a.ctx = h.ctx /\ a.dir = h.dir
    BY <1>2 DEF HandleFields, Unsaved
  <2> HIDE DEF a
  <2>3. OpenLess
    BY <1>2, <2>1, <2>2, HandleKept
  <2> QED BY <1>1, <2>1, <2>3, SameMilder, DoneFrame DEF FitInv
<1> QED BY <1>3, <1>4, <1>5

\* A file about to be renamed is a document of every folder it is in.
LEMMA RenamesStand ==
  ASSUME NEW v, NEW d, Renames(v, d)
  PROVE  /\ fs.ino \in Inos
         /\ v.t.node[fs.ino] # NoNode => \A c \in Contexts :
              v.ctx[c] # NoIno /\ v.t.node[fs.ino].up = v.ctx[c] => \E e \in Docs : v.doc[c][e] = fs.ino
BY DEF Renames

LEMMA DetachDoneFits ==
  ASSUME StoredInv, FitInv, DetachDone, fs.out = "ok"
  PROVE  FitInv'
<1> DEFINE i == fs.ino
           c == fs.ctx
           d == fs.doc
           u == WithoutDocNode(fs.over)
           v == [u EXCEPT !.t = RenameEntry(@, i, fs.to)]
           w == [v EXCEPT !.t = SetContent(@, i, fs.val)]
<1>1. /\ fs.pc = "detach" /\ fs' = FsIdle /\ srv' = srv /\ work' = work
      /\ view' = [u EXCEPT !.t = SetContent(RenameEntry(u.t, i, fs.to), i, fs.val),
                     !.doc[c] = [@ EXCEPT ![fs.from] = NoIno, ![d] = i]]
      /\ open' = IF open[i] = NoHandle THEN open
                 ELSE [open EXCEPT ![i] = [@ EXCEPT !.ctx = c, !.doc = d]]
  BY DEF DetachDone, Told
<1>2. /\ Renames(view, fs.from) /\ d \in srv.born /\ d \in Docs
      /\ view.doc[c][d] \in {fs.over, NoIno}
  BY <1>1 DEF FitInv, HandlerFits, StoredInv, ServerOK
<1>3. c \in Contexts /\ i \in Inos /\ fs.from \in Docs
  BY <1>2 DEF Renames
<1>4. Milder(u, view)
  BY DropMilder DEF FitInv
<1>5. Renames(u, fs.from)
  BY <1>2, <1>4, RenamesOn
<1>6. u.doc[c][d] = NoIno /\ u.doc[c][fs.from] \in {i, NoIno}
  <2>1. u.doc[c][d] = IF view.doc[c][d] = fs.over THEN NoIno ELSE view.doc[c][d]
    BY <1>2, <1>3 DEF WithoutDocNode, Unbound, FitInv, ViewFits
  <2> QED BY <1>2, <1>5, <2>1 DEF Renames
<1> HIDE DEF u, i, c, d
<1>7. Milder(v, u)
  <2>1. ViewFits(u)
    BY <1>4 DEF Milder
  <2>2. u.t.node[i] # NoNode => \A e \in Contexts :
          u.ctx[e] # NoIno /\ u.t.node[i].up = u.ctx[e] => \E g \in Docs : u.doc[e][g] = i
    BY <1>5, RenamesStand DEF i
  <2> QED BY <1>3, <2>1, <2>2, RenameMilder DEF v
<1>8. v.doc = u.doc /\ v.ctx = u.ctx /\ v.t = RenameEntry(u.t, i, fs.to)
  BY <1>4 DEF Milder, ViewFits
<1> HIDE DEF v
<1>9. Milder(w, v)
  <2>1. ViewFits(v)
    BY <1>7 DEF Milder
  <2> QED BY <2>1, ContentMilder DEF w
<1>10. w.doc = v.doc /\ w.ctx = v.ctx /\ w.t = SetContent(v.t, i, fs.val)
  BY <1>7 DEF Milder, ViewFits
<1> HIDE DEF w
<1>11. /\ DOMAIN view' = {"t", "ctx", "doc", "sticky"} /\ view'.t = w.t /\ view'.ctx = w.ctx
       /\ DOMAIN view'.doc = Contexts /\ \A e \in Contexts : DOMAIN view'.doc[e] = Docs
       /\ \A e \in Contexts, g \in Docs : view'.doc[e][g] =
            IF e = c /\ g = d THEN i
            ELSE IF e = c /\ g = fs.from THEN NoIno ELSE w.doc[e][g]
  BY <1>1, <1>2, <1>3, <1>4, <1>8, <1>10 DEF Milder, ViewFits
<1>12. ViewFits(view')
  <2>1. ASSUME NEW e \in Contexts, NEW n \in Names, view'.ctx[e] # NoIno,
               view'.t.kids[view'.ctx[e]][n] # NoIno
        PROVE  Stands(view', e, view'.t.kids[view'.ctx[e]][n])
    <3> DEFINE k == w.t.kids[w.ctx[e]][n]
    <3>1. Stands(w, e, k) /\ k # NoIno
      BY <1>9, <1>11, <2>1 DEF Milder, ViewFits
    <3> HIDE DEF k
    <3>2. Stands(view', e, k)
      BY <1>2, <1>3, <1>6, <1>8, <1>10, <1>11, <3>1 DEF Stands
    <3> QED BY <1>11, <3>2 DEF k
  <2> QED BY <1>9, <1>11, <2>1 DEF Milder, ViewFits
<1>13. BornFirst'
  BY <1>1, <1>2, <1>3, <1>4, <1>8, <1>10, <1>11 DEF FitInv, BornFirst, Milder
<1>14. OpenLess
  <2>1. CASE open[i] = NoHandle
    BY <1>1, <2>1, SameOpen
  <2>2. CASE open[i] # NoHandle
    <3> DEFINE a == [open[i] EXCEPT !.ctx = c, !.doc = d]
    <3>1. open' = [open EXCEPT ![i] = a]
      BY <1>1, <2>2
    <3>2. DOMAIN open[i] = HandleFields
      BY <1>3, <2>2, FieldsOf
    <3>3. a.doc # NoDoc
      BY <1>2, <3>2, Numbers DEF HandleFields
    <3> HIDE DEF a
    <3> QED BY <3>1, <3>3 DEF OpenLess, Creating, StoredInv, OpenOK
  <2> QED BY <2>1, <2>2
<1>15. CreatesFit'
  BY <1>4, <1>7, <1>9, <1>11, <1>14 DEF FitInv, CreatesFit, Apart, OpenLess, Milder
<1>16. WorkFits' /\ HandlerFits'
  BY <1>1, WorkStays, HandlerRests DEF FitInv, FsIdle
<1> QED BY <1>12, <1>13, <1>15, <1>16 DEF FitInv

LEMMA AnswerFits ==
  ASSUME StoredInv, FitInv, UnlinkDone \/ FilenameDone \/ ReplaceDone \/ DetachDone
  PROVE  FitInv'
<1>1. srv' = srv /\ work' = work
  BY DEF UnlinkDone, FilenameDone, ReplaceDone, DetachDone, Told
<1>2. Milder(view, view)
  BY SameMilder DEF FitInv
<1>3. CASE UnlinkDone
  <2>1. /\ fs'.pc = "idle"
        /\ \/ view' = WithoutDocNode(fs.ino) /\ open' = [open EXCEPT ![fs.ino] = NoHandle]
           \/ view' = view /\ open' = open
    BY <1>3 DEF UnlinkDone, FsIdle
  <2>2. Milder(view', view)
    BY <1>2, <2>1, DropMilder DEF FitInv
  <2>3. OpenLess
    BY <2>1 DEF OpenLess, Creating, StoredInv, OpenOK
  <2> QED BY <1>1, <2>1, <2>2, <2>3, DoneFrame
<1>4. CASE FilenameDone
  <2>1. /\ fs.pc = "filename" /\ fs'.pc = "idle" /\ open' = open
        /\ \/ view' = [view EXCEPT !.t = RenameEntry(@, fs.ino, fs.to)]
           \/ view' = view
    BY <1>4 DEF FilenameDone, Told, FsIdle
  <2>2. Renames(view, fs.doc)
    BY <2>1 DEF FitInv, HandlerFits
  <2>3. Milder(view', view)
    BY SMTT(60), <1>2, <2>1, <2>2, RenamesStand, RenameMilder DEF FitInv
  <2> QED BY <1>1, <2>1, <2>3, SameOpen, DoneFrame
<1>5. CASE ReplaceDone
  <2>1. /\ fs.pc = "replace" /\ open' = open
        /\ \/ /\ view' = [view EXCEPT !.t = SetContent(@, view.doc[fs.ctx][fs.doc], fs.val)]
              /\ fs' = [fs EXCEPT !.pc = "detach", !.out = "none"]
           \/ view' = view /\ fs' = FsIdle
    BY <1>5 DEF ReplaceDone, Told
  <2>2. Milder(view', view)
    BY <1>2, <2>1, ContentMilder DEF FitInv
  <2>3. CASE fs' = [fs EXCEPT !.pc = "detach", !.out = "none"]
    <3>1. SameRequest /\ fs'.pc = "detach"
      BY <2>1, <2>3 DEF SameRequest, StoredInv, HandlerOK
    <3>2. HandlerFits'
      BY <1>1, <2>1, <2>2, <3>1, HandlerGoesOn DEF FitInv, StoredInv, ServerOK
    <3>3. work.at.pc # "apply"
      BY <2>1 DEF FitInv, WorkFits
    <3> QED BY <1>1, <2>1, <2>2, <3>2, <3>3, SameOpen, UserFrame
  <2>4. CASE fs' = FsIdle
    BY <1>1, <2>1, <2>2, <2>4, SameOpen, DoneFrame DEF FsIdle
  <2> QED BY <2>1, <2>3, <2>4
<1>6. CASE DetachDone
  <2>1. CASE fs.out = "ok"
    BY <1>6, <2>1, DetachDoneFits
  <2>2. CASE fs.out # "ok"
    <3>1. view' = view /\ open' = open /\ fs'.pc = "idle"
      BY <1>6, <2>2 DEF DetachDone, FsIdle
    <3> QED BY <1>1, <1>2, <3>1, SameOpen, DoneFrame
  <2> QED BY <2>1, <2>2
<1> QED BY <1>3, <1>4, <1>5, <1>6

LEMMA SessionFits ==
  ASSUME StoredInv, FitInv, Session
  PROVE  FitInv'
BY RequestFits, FlushCreateFits, FlushDoneFits, AnswerFits DEF Session

(***************************************************************************)
(* New inodes, for a listing.                                              *)
(***************************************************************************)
OneEach(new, S, T) ==
  /\ DOMAIN new \subseteq T
  /\ \A i \in DOMAIN new : new[i] \in S
  /\ \A i, j \in DOMAIN new : new[i] = new[j] => i = j
  /\ \A x \in S : \E i \in DOMAIN new : new[i] = x

LEMMA AllocsFit ==
  ASSUME NEW t, NEW held, NEW S, Injection(S, Inos \ (InUse(t) \cup held)) # {}
  PROVE  OneEach(AllocInos(t, held, S), S, Inos \ (InUse(t) \cup held))
<1> DEFINE T == Inos \ (InUse(t) \cup held)
           ino == CHOOSE f \in Injection(S, T) : TRUE
           new == AllocInos(t, held, S)
<1>1. new = [i \in {ino[x] : x \in S} |-> CHOOSE x \in S : ino[x] = i]
  BY DEF AllocInos
<1>2. ino \in Injection(S, T)
  OBVIOUS
<1> HIDE DEF ino, T, new
<1>3. /\ \A x \in S : ino[x] \in T
      /\ \A x, y \in S : ino[x] = ino[y] => x = y
  BY <1>2 DEF Injection, IsInjective
<1>4. \A i \in DOMAIN new : new[i] \in S /\ ino[new[i]] = i
  BY <1>1
<1>5. \A x \in S : ino[x] \in DOMAIN new
  BY <1>1
<1>6. \A x \in S : new[ino[x]] = x
  BY <1>3, <1>4, <1>5
<1>7. DOMAIN new \subseteq T
  BY <1>3, <1>4
<1>8. OneEach(new, S, T)
  BY <1>4, <1>5, <1>6, <1>7 DEF OneEach
<1> QED BY <1>8 DEF new, T

LEMMA MoreRoom ==
  ASSUME NEW S, NEW T, NEW U, T \subseteq U, Injection(S, T) # {}
  PROVE  Injection(S, U) # {}
<1>1. PICK f : f \in Injection(S, T)
  OBVIOUS
<1>2. f \in Injection(S, U)
  BY <1>1 DEF Injection
<1> QED BY <1>2

\* What is removed makes room.
LEMMA UseThins ==
  ASSUME NEW t, TreeFits(t), NEW S
  PROVE  InUse(RemoveNodes(t, S)) \subseteq InUse(t) \cup {NoIno}
<1> DEFINE gone == {i \in S : Exists(t, i)}
           left(f) == {t.node[i].name : i \in {j \in gone : t.node[j].up = f}}
           r == RemoveNodes(t, S)
<1>1. /\ r.node = [i \in Inos |-> IF i \in gone THEN NoNode ELSE t.node[i]]
      /\ r.kids = [f \in Inos |-> IF f \in gone THEN NoKids
                    ELSE [n \in Names |-> IF n \in left(f) THEN NoIno ELSE t.kids[f][n]]]
      /\ r.tomb = t.tomb \ gone
  BY DEF TreeFits, RemoveNodes
<1> HIDE DEF r, gone, left
<1>2. \A i \in Inos : Exists(r, i) => Exists(t, i) /\ r.node[i] = t.node[i]
  BY <1>1 DEF Exists
<1>3. \A f \in Inos, n \in Names : r.kids[f][n] \in {t.kids[f][n], NoIno}
  BY <1>1 DEF NoKids
<1>4. ASSUME NEW f \in Inos, t.kids[f] = NoKids PROVE r.kids[f] = NoKids
  <2>1. CASE f \in gone
    BY <1>1, <2>1
  <2>2. CASE f \notin gone
    <3>1. r.kids[f] = [n \in Names |-> IF n \in left(f) THEN NoIno ELSE NoKids[n]]
      BY <1>1, <1>4, <2>2
    <3>2. \A n \in Names : r.kids[f][n] = NoIno
      BY <3>1 DEF NoKids
    <3>3. r.kids[f] = [n \in Names |-> NoIno]
      BY <3>1, <3>2
    <3> QED BY <3>3 DEF NoKids
  <2> QED BY <2>1, <2>2
<1>5. {i \in Inos : Exists(r, i)} \subseteq {i \in Inos : Exists(t, i)}
  BY <1>2
<1>6. {r.node[i].up : i \in {j \in Inos : Exists(r, j)}}
        \subseteq {t.node[i].up : i \in {j \in Inos : Exists(t, j)}}
  BY <1>2
<1>7. UNION {{r.kids[i][n] : n \in Names} : i \in Inos}
        \subseteq (UNION {{t.kids[i][n] : n \in Names} : i \in Inos}) \cup {NoIno}
  BY <1>3
<1>8. {i \in Inos : r.kids[i] # NoKids} \subseteq {i \in Inos : t.kids[i] # NoKids}
  BY <1>4
<1>9. r.tomb \subseteq t.tomb
  BY <1>1
<1>10. InUse(r) \subseteq InUse(t) \cup {NoIno}
  BY <1>5, <1>6, <1>7, <1>8, <1>9 DEF InUse
<1> QED BY <1>10 DEF r

\* The inodes in use, one by one.
LEMMA Used ==
  ASSUME NEW t, NEW i \in Inos, t.node[i] # NoNode
  PROVE  i \in InUse(t) /\ t.node[i].up \in InUse(t)
<1>1. Exists(t, i)
  BY Numbers DEF Exists
<1> QED BY <1>1 DEF InUse

(***************************************************************************)
(* apply_contexts.                                                         *)
(***************************************************************************)
LEMMA ContextsGone ==
  ASSUME ViewFits(view), NEW S
  PROVE  LET v == WithoutContexts(view, S) IN
         /\ ViewFits(v)
         /\ \A c \in Contexts : v.ctx[c] = IF c \in S THEN NoIno ELSE view.ctx[c]
         /\ \A c \in Contexts, d \in Docs :
              v.doc[c][d] = IF c \in S THEN NoIno ELSE view.doc[c][d]
         /\ \A i \in Inos : v.t.node[i] \in {view.t.node[i], NoNode}
         /\ InUse(v.t) \subseteq InUse(view.t) \cup {NoIno}
<1> DEFINE dirs == {view.ctx[c] : c \in S}
           X == dirs \cup UNION {Below(view.t, i) : i \in dirs}
           r == RemoveNodes(view.t, X)
           v == WithoutContexts(view, S)
<1>1. /\ DOMAIN v = {"t", "ctx", "doc", "sticky"} /\ v.t = r
      /\ v.ctx = [c \in Contexts |-> IF c \in S THEN NoIno ELSE view.ctx[c]]
      /\ v.doc = [c \in Contexts |-> IF c \in S THEN [d \in Docs |-> NoIno] ELSE view.doc[c]]
  BY DEF WithoutContexts, ViewFits
<1> HIDE DEF X, v
<1>2. TreeFits(r) /\ Thinner(r, view.t) /\ InUse(r) \subseteq InUse(view.t) \cup {NoIno}
  BY RemoveAllFits, UseThins DEF ViewFits
<1> HIDE DEF r
<1>3. /\ \A c \in Contexts : v.ctx[c] = IF c \in S THEN NoIno ELSE view.ctx[c]
      /\ \A c \in Contexts, d \in Docs : v.doc[c][d] = IF c \in S THEN NoIno ELSE view.doc[c][d]
      /\ \A c \in Contexts : DOMAIN v.doc[c] = Docs
      /\ DOMAIN v.ctx = Contexts /\ DOMAIN v.doc = Contexts
  BY <1>1 DEF ViewFits
<1>4. ASSUME NEW c \in Contexts, NEW n \in Names, v.ctx[c] # NoIno, v.t.kids[v.ctx[c]][n] # NoIno
      PROVE  Stands(v, c, v.t.kids[v.ctx[c]][n])
  <2> DEFINE k == r.kids[v.ctx[c]][n]
  <2>1. c \notin S /\ v.ctx[c] = view.ctx[c] /\ view.ctx[c] \in Inos
    BY <1>3, <1>4 DEF ViewFits
  <2>2. k = view.t.kids[view.ctx[c]][n] /\ (k \in view.t.tomb => k \in r.tomb)
    BY <1>1, <1>2, <1>4, <2>1 DEF Thinner
  <2>3. Stands(view, c, k)
    BY <1>1, <1>4, <2>1, <2>2 DEF ViewFits
  <2> HIDE DEF k
  <2>4. Stands(v, c, k)
    BY <1>1, <1>3, <2>1, <2>2, <2>3 DEF Stands
  <2> QED BY <1>1, <2>4 DEF k
<1>5. ViewFits(v)
  BY <1>1, <1>2, <1>3, <1>4 DEF ViewFits
<1> QED BY <1>1, <1>2, <1>3, <1>5 DEF v, Thinner

LEMMA ContextsCome ==
  ASSUME NEW v, ViewFits(v), NEW S, S \subseteq Contexts,
         \A c \in Contexts : v.ctx[c] \in Held \cup {NoIno},
         Injection(S, Inos \ (InUse(v.t) \cup Held)) # {}
  PROVE  LET w == WithContexts(v, S) IN
         /\ ViewFits(w)
         /\ \A c \in Contexts \ S : w.ctx[c] = v.ctx[c]
         /\ \A c \in S : w.ctx[c] \in Inos \ (InUse(v.t) \cup Held)
         /\ w.doc = v.doc
         /\ \A i \in Inos \cap (InUse(v.t) \cup Held) : w.t.node[i] = v.t.node[i]
<1> DEFINE new == AllocInos(v.t, Held, S)
           node == [i \in DOMAIN new |->
                     [up |-> Root, name |-> Plain(new[i]), dir |-> TRUE, val |-> 0]]
           r == InsertNodes(v.t, node)
           w == WithContexts(v, S)
<1>1. /\ DOMAIN w = {"t", "ctx", "doc", "sticky"} /\ w.t = r /\ w.doc = v.doc
      /\ w.ctx = [c \in Contexts |-> IF c \in S THEN CHOOSE i \in DOMAIN new : new[i] = c
                                     ELSE v.ctx[c]]
  BY DEF WithContexts, ViewFits
<1>2. OneEach(new, S, Inos \ (InUse(v.t) \cup Held))
  <2> HIDE DEF node, r, w
  <2> QED BY AllocsFit
<1> HIDE DEF new, w
<1> USE DEF OneEach
<1>3. /\ DOMAIN node = DOMAIN new
      /\ \A i \in DOMAIN node : DOMAIN node[i] = NodeFields /\ node[i].up = Root
  BY DEF NodeFields
<1>4. \A i \in DOMAIN node : v.t.node[i] = NoNode
  BY <1>2, <1>3, Used
<1> HIDE DEF node
<1>5. /\ TreeFits(r) /\ r.tomb = v.t.tomb
      /\ \A j \in Inos \ DOMAIN node : r.node[j] = v.t.node[j]
      /\ \A f \in Inos, n \in Names :
           \/ r.kids[f][n] = v.t.kids[f][n]
           \/ r.kids[f][n] \in DOMAIN node /\ node[r.kids[f][n]].up = f
  BY <1>2, <1>3, <1>4, InsertAllFits DEF ViewFits
<1> HIDE DEF r
<1>6. ASSUME NEW c \in S PROVE w.ctx[c] \in DOMAIN new /\ new[w.ctx[c]] = c
  <2>1. w.ctx[c] = CHOOSE i \in DOMAIN new : new[i] = c
    BY <1>1
  <2> QED BY <1>2, <2>1
<1>7. \A c \in Contexts \ S : w.ctx[c] = v.ctx[c]
  BY <1>1
<1>8. \A c \in Contexts : w.ctx[c] \in (Inos \ {Root}) \cup {NoIno}
  <2>1. Root \in Held
    BY DEF Held
  <2> QED BY <1>2, <1>6, <1>7, <2>1 DEF ViewFits
<1>9. ASSUME NEW c \in Contexts, NEW e \in Contexts, w.ctx[c] = w.ctx[e], w.ctx[c] # NoIno
      PROVE  c = e
  <2>1. CASE c \in S /\ e \in S
    BY <1>6, <1>9, <2>1
  <2>2. CASE c \notin S /\ e \notin S
    BY <1>7, <1>9, <2>2 DEF ViewFits
  <2>3. CASE c \in S /\ e \notin S
    BY <1>2, <1>6, <1>7, <1>9, <2>3
  <2>4. CASE c \notin S /\ e \in S
    BY <1>2, <1>6, <1>7, <1>9, <2>4
  <2> QED BY <2>1, <2>2, <2>3, <2>4
<1>10. ASSUME NEW c \in Contexts, NEW n \in Names, w.ctx[c] # NoIno, w.t.kids[w.ctx[c]][n] # NoIno
       PROVE  Stands(w, c, w.t.kids[w.ctx[c]][n])
  <2>1. w.ctx[c] \in Inos /\ w.ctx[c] # Root
    BY <1>8, <1>10
  <2>2. r.kids[w.ctx[c]][n] = v.t.kids[w.ctx[c]][n]
    BY <1>3, <1>5, <2>1
  <2>3. CASE c \in S
    <3>1. w.ctx[c] \notin InUse(v.t)
      BY <1>2, <1>6, <2>3
    <3>2. v.t.kids[w.ctx[c]] = NoKids
      BY SMTT(60), <2>1, <3>1 DEF InUse
    <3> QED BY <1>1, <1>10, <2>2, <3>2 DEF NoKids
  <2>4. CASE c \notin S
    <3>1. Stands(v, c, v.t.kids[v.ctx[c]][n])
      BY <1>1, <1>7, <1>10, <2>2, <2>4 DEF ViewFits
    <3> QED BY <1>1, <1>5, <1>7, <2>2, <2>4, <3>1 DEF Stands
  <2> QED BY <2>3, <2>4
<1>11. DOMAIN w.ctx = Contexts
  BY <1>1
<1>12. ViewFits(w)
  BY <1>1, <1>5, <1>8, <1>9, <1>10, <1>11 DEF ViewFits
<1>13. \A c \in S : w.ctx[c] \in Inos \ (InUse(v.t) \cup Held)
  BY <1>2, <1>6
<1>14. \A i \in Inos \cap (InUse(v.t) \cup Held) : r.node[i] = v.t.node[i]
  BY <1>2, <1>3, <1>5
<1> QED BY <1>1, <1>7, <1>12, <1>13, <1>14 DEF w

LEMMA ContextsFits ==
  ASSUME StoredInv, FitInv, InosLast, ApplyContexts
  PROVE  FitInv'
<1> DEFINE stale == {c \in Contexts \ work.at.todo : view.ctx[c] # NoIno}
           added == {c \in work.at.todo : view.ctx[c] = NoIno}
           v == WithoutContexts(view, stale)
           w == WithContexts(v, added)
<1>1. /\ srv' = srv /\ open' = open /\ fs' = fs /\ view' = w
      /\ work' = [work EXCEPT !.at = Onward(work.at.todo)] /\ work.at.pc = "contexts"
  BY DEF ApplyContexts, WorkerOnly, At
<1>2. added \subseteq Contexts /\ stale \cap added = {}
  BY <1>1 DEF FitInv, WorkFits
<1> HIDE DEF stale
<1>3. /\ ViewFits(v)
      /\ \A c \in Contexts : v.ctx[c] = IF c \in stale THEN NoIno ELSE view.ctx[c]
      /\ \A c \in Contexts, d \in Docs : v.doc[c][d] = IF c \in stale THEN NoIno ELSE view.doc[c][d]
      /\ \A i \in Inos : v.t.node[i] \in {view.t.node[i], NoNode}
      /\ InUse(v.t) \subseteq InUse(view.t) \cup {NoIno}
  BY ContextsGone DEF FitInv
<1> HIDE DEF v, added
<1>4. Injection(added, Inos \ (InUse(v.t) \cup Held)) # {}
  <2>1. Injection(added, Inos \ (InUse(view.t) \cup Held)) # {}
    BY <1>2 DEF InosLast
  <2>2. Inos \ (InUse(view.t) \cup Held) \subseteq Inos \ (InUse(v.t) \cup Held)
    BY <1>3, Numbers
  <2> QED BY <2>1, <2>2, MoreRoom
<1>5. \A c \in Contexts : v.ctx[c] \in Held \cup {NoIno}
  BY <1>3 DEF Held
<1>6. /\ ViewFits(w)
      /\ \A c \in Contexts \ added : w.ctx[c] = v.ctx[c]
      /\ \A c \in added : w.ctx[c] \in Inos \ (InUse(v.t) \cup Held)
      /\ w.doc = v.doc
      /\ \A i \in Inos \cap (InUse(v.t) \cup Held) : w.t.node[i] = v.t.node[i]
  BY ZenonT(60), <1>2, <1>3, <1>4, <1>5, ContextsCome
<1> HIDE DEF w
<1>7. BornFirst'
  BY <1>1, <1>3, <1>6 DEF FitInv, BornFirst
<1>8. CreatesFit'
  <2> SUFFICES ASSUME NEW i \in Inos, Creating(open[i])
               PROVE  Apart(w, i, open[i])
    BY <1>1 DEF CreatesFit
  <2>1. i \in Held /\ open[i].dir \in Held
    BY DEF Creating, Held, OpenInos
  <2>2. Apart(view, i, open[i])
    BY DEF FitInv, CreatesFit
  <2>3. w.t.node[i] = NoNode
    BY <1>3, <1>6, <2>1, <2>2 DEF Apart
  <2>4. ASSUME NEW c \in Contexts, w.ctx[c] = open[i].dir PROVE c = open[i].ctx
    BY <1>3, <1>6, <2>1, <2>2, <2>4 DEF Apart
  <2> QED BY <2>2, <2>3, <2>4 DEF Apart
<1>9. ASSUME NEW d, Renames(view, d) PROVE Renames(w, d)
  <2>1. fs.ctx \in Contexts /\ d \in Docs /\ fs.ino \in Inos /\ w.doc[fs.ctx][d] \in {fs.ino, NoIno}
    BY <1>3, <1>6, <1>9 DEF Renames
  <2>2. ASSUME w.t.node[fs.ino] # NoNode, NEW c \in Contexts, w.ctx[c] # NoIno,
               w.t.node[fs.ino].up = w.ctx[c]
        PROVE  c = fs.ctx /\ w.doc[c][d] = fs.ino
    <3>1. fs.ino \in Held
      BY DEF Held
    <3>2. w.t.node[fs.ino] = v.t.node[fs.ino] /\ v.t.node[fs.ino] = view.t.node[fs.ino]
      BY <1>3, <1>6, <2>1, <2>2, <3>1
    <3>3. w.ctx[c] \in InUse(v.t)
      BY <2>1, <2>2, <3>2, Used
    <3>4. c \notin added /\ c \notin stale
      BY <1>3, <1>6, <2>2, <3>3
    <3>5. c = fs.ctx /\ view.doc[c][d] = fs.ino
      BY <1>3, <1>6, <1>9, <2>2, <3>2, <3>4 DEF Renames
    <3> QED BY <1>3, <1>6, <2>1, <3>4, <3>5
  <2> QED BY <2>1, <2>2 DEF Renames
<1>10. \A d : Renames(view, d) => Renames(view, d)'
  BY <1>1, <1>9 DEF Renames
<1>11. HandlerFits'
  <2>1. CASE fs.pc = "flush" /\ fs.doc # NoDoc
    <3>1. fs.doc \in Docs
      BY <2>1 DEF FitInv, HandlerFits, StoredInv, ServerOK
    <3> QED BY <1>1, <1>3, <1>6, <2>1, <3>1 DEF FitInv, HandlerFits
  <2>2. CASE fs.pc = "filename"
    BY <1>1, <1>10, <2>2 DEF FitInv, HandlerFits
  <2>3. CASE fs.pc \in {"replace", "detach"}
    <3>1. Renames(view, fs.from) /\ fs.doc \in srv.born /\ view.doc[fs.ctx][fs.doc] \in {fs.over, NoIno}
      BY <2>3 DEF FitInv, HandlerFits
    <3>2. fs.doc \in Docs /\ fs.ctx \in Contexts
      BY <3>1 DEF StoredInv, ServerOK, Renames
    <3>3. w.doc[fs.ctx][fs.doc] \in {fs.over, NoIno}
      BY <1>3, <1>6, <3>1, <3>2
    <3> QED BY <1>1, <1>10, <2>3, <3>1, <3>3 DEF HandlerFits
  <2> QED BY <1>1, <2>1, <2>2, <2>3 DEF HandlerFits
<1>12. WorkFits'
  BY <1>1 DEF WorkFits, Onward, WorkIdle, StoredInv, ListingOK
<1> QED BY <1>1, <1>6, <1>7, <1>8, <1>11, <1>12 DEF FitInv

(***************************************************************************)
(* apply_documents.                                                        *)
(***************************************************************************)

\* The departed are flagged, or removed at once.
Parts(w, gone) ==
  /\ Milder(w, view) /\ InUse(w.t) \subseteq InUse(view.t) \cup {NoIno}
  /\ \A f \in Inos, n \in Names : w.t.kids[f][n] \in {view.t.kids[f][n], NoIno}
  /\ \A k \in gone : k \in w.t.tomb \/ w.t.node[k] = NoNode

LEMMA FlagMilder ==
  ASSUME ViewFits(view), NEW gone, gone \subseteq InUse(view.t)
  PROVE  Parts([view EXCEPT !.t.tomb = @ \cup gone], gone)
<1> DEFINE w == [view EXCEPT !.t.tomb = @ \cup gone]
<1>1. /\ DOMAIN w = {"t", "ctx", "doc", "sticky"} /\ w.ctx = view.ctx /\ w.doc = view.doc
      /\ DOMAIN w.t = {"node", "kids", "tomb"} /\ w.t.node = view.t.node /\ w.t.kids = view.t.kids
      /\ w.t.tomb = view.t.tomb \cup gone
  BY DEF ViewFits, TreeFits
<1> HIDE DEF w
<1>2. TreeFits(w.t)
  BY <1>1 DEF ViewFits, TreeFits
<1>3. ViewFits(w)
  BY <1>1, <1>2 DEF ViewFits, Stands
<1>4. Milder(w, view)
  BY <1>1, <1>3 DEF Milder
<1>5. InUse(w.t) \subseteq InUse(view.t) \cup {NoIno}
  <2>1. \A i : Exists(w.t, i) <=> Exists(view.t, i)
    BY <1>1 DEF Exists
  <2>2. {i \in Inos : Exists(w.t, i)} = {i \in Inos : Exists(view.t, i)}
    BY <2>1
  <2> QED BY <1>1, <2>2 DEF InUse
<1>6. Parts(w, gone)
  BY <1>1, <1>4, <1>5 DEF Parts
<1> QED BY <1>6 DEF w

LEMMA PurgeMilder ==
  ASSUME ViewFits(view), NEW gone, gone \subseteq Inos
  PROVE  Parts([view EXCEPT !.t = RemoveNodes(@, gone),
                            !.doc = [e \in Contexts |-> [d \in Docs |->
                               IF @[e][d] \in gone THEN NoIno ELSE @[e][d]]]], gone)
<1> DEFINE r == RemoveNodes(view.t, gone)
           w == [view EXCEPT !.t = RemoveNodes(@, gone),
                             !.doc = [e \in Contexts |-> [d \in Docs |->
                                IF @[e][d] \in gone THEN NoIno ELSE @[e][d]]]]
<1>1. /\ DOMAIN w = {"t", "ctx", "doc", "sticky"} /\ w.t = r /\ w.ctx = view.ctx
      /\ w.doc = [e \in Contexts |-> [d \in Docs |->
                    IF view.doc[e][d] \in gone THEN NoIno ELSE view.doc[e][d]]]
  BY DEF ViewFits
<1>2. /\ TreeFits(r) /\ Thinner(r, view.t) /\ InUse(r) \subseteq InUse(view.t) \cup {NoIno}
      /\ \A k \in gone : r.node[k] = NoNode
  BY RemoveAllFits, UseThins DEF ViewFits
<1> HIDE DEF r, w
<1>3. /\ DOMAIN w.doc = Contexts /\ \A e \in Contexts : DOMAIN w.doc[e] = Docs
      /\ \A e \in Contexts, d \in Docs :
           w.doc[e][d] = IF view.doc[e][d] \in gone THEN NoIno ELSE view.doc[e][d]
  BY <1>1
<1>4. ASSUME NEW c \in Contexts, NEW n \in Names, w.ctx[c] # NoIno, w.t.kids[w.ctx[c]][n] # NoIno
      PROVE  Stands(w, c, w.t.kids[w.ctx[c]][n])
  <2> DEFINE k == r.kids[view.ctx[c]][n]
  <2>1. view.ctx[c] \in Inos
    BY <1>1, <1>4 DEF ViewFits
  <2>2. k = view.t.kids[view.ctx[c]][n] /\ (k \in view.t.tomb => k \in r.tomb)
    BY <1>1, <1>2, <1>4, <2>1 DEF Thinner
  <2>3. Stands(view, c, k)
    BY <1>1, <1>4, <2>1, <2>2 DEF ViewFits
  <2>4. r.node[k] # NoNode
    BY <1>1, <1>2, <1>4, <2>1 DEF TreeFits
  <2> HIDE DEF k
  <2>5. k \notin gone
    BY SMTT(60), <1>2, <2>4
  <2>6. Stands(w, c, k)
    BY <1>1, <1>3, <2>2, <2>3, <2>5 DEF Stands
  <2> QED BY <1>1, <2>6 DEF k
<1>5. ViewFits(w)
  BY <1>1, <1>2, <1>3, <1>4 DEF ViewFits
<1>6. Milder(w, view)
  BY <1>1, <1>2, <1>3, <1>5 DEF Milder, Thinner
<1>7. Parts(w, gone)
  BY <1>1, <1>2, <1>6 DEF Parts, Thinner
<1> QED BY <1>7 DEF w

\* Every file of the folder that stays is a listed document under its name; a new one
\* becomes the file of the document it was taken for.
LEMMA MaterializeFits ==
  ASSUME ViewFits(view), InosLast, NEW c \in Contexts, view.ctx[c] # NoIno, NEW named,
         NEW got, got.docs \subseteq Docs
  PROVE  LET w == Materialize(c, view.ctx[c], named, got).view IN
         /\ ViewFits(w) /\ w.ctx = view.ctx
         /\ \A e \in Contexts, d \in Docs :
              w.doc[e][d] \in {view.doc[e][d], NoIno} \/ d \in got.docs
         /\ \A i \in Inos \cap Held : view.t.node[i] = NoNode => w.t.node[i] = NoNode
<1> DEFINE dir == view.ctx[c]
           left == Departed(c, dir, named, got)
           gone == {view.t.kids[dir][n] : n \in left}
           kept == IF DeferRemovals THEN [view EXCEPT !.t.tomb = @ \cup gone]
                   ELSE [view EXCEPT !.t = RemoveNodes(@, gone),
                                     !.doc = [e \in Contexts |-> [d \in Docs |->
                                        IF @[e][d] \in gone THEN NoIno ELSE @[e][d]]]]
           at(d) == Lookup(kept.t, dir, named[d])
           shown == {d \in got.docs : at(d) # NoIno /\ kept.doc[c][d] = at(d)}
           val == [i \in {at(d) : d \in shown} |-> got.val[CHOOSE d \in shown : at(d) = i]]
           S == {d \in got.docs : at(d) = NoIno}
           new == AllocInos(kept.t, Held, S)
           node == [i \in DOMAIN new |-> [up |-> dir, name |-> named[new[i]], dir |-> FALSE,
                                          val |-> got.val[new[i]]]]
           w == Materialize(c, dir, named, got).view
<1>1. w = [kept EXCEPT !.t = InsertNodes(SetContents(@, val), node),
                       !.doc[c] = [d \in Docs |-> IF \E i \in DOMAIN new : new[i] = d
                                     THEN CHOOSE i \in DOMAIN new : new[i] = d ELSE @[d]]]
  BY Zenon DEF Materialize
<1>2. dir \in Inos
  BY DEF ViewFits
<1>3. /\ \A n \in left : view.t.kids[dir][n] \in Inos /\ n \in Names
      /\ \A n \in Names \ left : view.t.kids[dir][n] # NoIno =>
           \E d \in got.docs : named[d] = n /\ view.doc[c][d] = view.t.kids[dir][n]
  <2>1. \A n \in left : view.t.kids[dir][n] \in Inos /\ n \in Names
    BY <1>2 DEF Departed, ViewFits, TreeFits
  <2>2. ASSUME NEW n \in Names \ left, view.t.kids[dir][n] # NoIno
        PROVE  \E d \in got.docs : named[d] = n /\ view.doc[c][d] = view.t.kids[dir][n]
    <3>1. PICK d \in got.docs : named[d] = n /\ DocOf(c, view.t.kids[dir][n]) = d
      BY <2>2 DEF Departed
    <3>2. d # NoDoc
      BY Numbers
    <3> QED BY <3>1, <3>2, DocFound
  <2> QED BY <2>1, <2>2
<1> HIDE DEF w, left
<1>4. gone \subseteq Inos /\ gone \subseteq InUse(view.t)
  BY <1>2, <1>3 DEF InUse
<1>5. \A n \in left : view.t.kids[dir][n] \in gone
  OBVIOUS
<1> HIDE DEF gone
<1>6. Parts(kept, gone)
  <2>1. CASE DeferRemovals
    <3>1. kept = [view EXCEPT !.t.tomb = @ \cup gone]
      BY <2>1
    <3> HIDE DEF kept
    <3> QED BY <1>4, <3>1, FlagMilder
  <2>2. CASE ~DeferRemovals
    <3>1. kept = [view EXCEPT !.t = RemoveNodes(@, gone),
                              !.doc = [e \in Contexts |-> [d \in Docs |->
                                 IF @[e][d] \in gone THEN NoIno ELSE @[e][d]]]]
      BY <2>2
    <3> HIDE DEF kept
    <3> QED BY <1>4, <3>1, PurgeMilder
  <2> QED BY <2>1, <2>2
<1> HIDE DEF kept
<1>7. ViewFits(kept) /\ kept.ctx = view.ctx /\ TreeFits(kept.t)
  BY <1>6 DEF Parts, Milder, ViewFits
<1>8. ASSUME NEW n \in Names \ left, kept.t.kids[dir][n] # NoIno
      PROVE  \E d \in got.docs \ S : kept.doc[c][d] = kept.t.kids[dir][n]
  <2> DEFINE k == kept.t.kids[dir][n]
  <2>1. k \in Inos /\ kept.t.node[k] # NoNode
    BY <1>2, <1>7, <1>8 DEF TreeFits
  <2>2. k = view.t.kids[dir][n]
    BY SMTT(60), <1>2, <1>6, <1>8 DEF Parts
  <2>3. PICK d \in got.docs : named[d] = n /\ view.doc[c][d] = k
    BY <1>3, <1>8, <2>2
  <2>4. at(d) = k
    BY SMTT(60), <2>1, <2>3, Numbers DEF Lookup, Exists
  <2>5. kept.doc[c][d] = k
    BY <1>6, <2>1, <2>3 DEF Parts, Milder
  <2> HIDE DEF k, at
  <2>6. d \notin S
    BY <1>8, <2>1, <2>4, Numbers
  <2> QED BY <2>5, <2>6 DEF k
<1> HIDE DEF at, shown
<1>9. Injection(S, Inos \ (InUse(kept.t) \cup Held)) # {}
  <2> HIDE DEF new, node, val
  <2>1. S \in SUBSET Docs
    OBVIOUS
  <2> HIDE DEF S
  <2>2. Injection(S, Inos \ (InUse(view.t) \cup Held)) # {}
    BY <2>1 DEF InosLast
  <2>3. Inos \ (InUse(view.t) \cup Held) \subseteq Inos \ (InUse(kept.t) \cup Held)
    BY <1>6, Numbers DEF Parts
  <2> QED BY <2>2, <2>3, MoreRoom
<1> HIDE DEF val
<1>10. S \subseteq got.docs
  OBVIOUS
<1>11. OneEach(new, S, Inos \ (InUse(kept.t) \cup Held))
  <2> HIDE DEF S, node
  <2> QED BY <1>9, AllocsFit
<1> HIDE DEF S, new
<1> USE DEF OneEach
<1>12. /\ DOMAIN node = DOMAIN new
       /\ \A i \in DOMAIN node : DOMAIN node[i] = NodeFields /\ node[i].up = dir
  BY DEF NodeFields
<1> HIDE DEF node
<1> DEFINE s == SetContents(kept.t, val)
           r == InsertNodes(s, node)
<1>13. TreeFits(s) /\ SameTree(s, kept.t)
  BY <1>7, ContentsFit
<1>14. /\ DOMAIN w = {"t", "ctx", "doc", "sticky"} /\ w.t = r /\ w.ctx = view.ctx
       /\ DOMAIN w.doc = Contexts /\ \A e \in Contexts : DOMAIN w.doc[e] = Docs
       /\ \A e \in Contexts, d \in Docs : w.doc[e][d] =
            IF e = c /\ \E i \in DOMAIN new : new[i] = d
              THEN CHOOSE i \in DOMAIN new : new[i] = d ELSE kept.doc[e][d]
  BY <1>1, <1>7 DEF ViewFits
<1> HIDE DEF s
<1>15. \A i \in DOMAIN node : s.node[i] = NoNode
  BY <1>11, <1>12, <1>13, Used DEF SameTree
<1>16. /\ TreeFits(r) /\ r.tomb = s.tomb
       /\ \A j \in Inos \ DOMAIN node : r.node[j] = s.node[j]
       /\ \A f \in Inos, n \in Names :
            \/ r.kids[f][n] = s.kids[f][n]
            \/ r.kids[f][n] \in DOMAIN node /\ node[r.kids[f][n]].up = f
  BY <1>11, <1>12, <1>13, <1>15, InsertAllFits
<1> HIDE DEF r, dir
<1>17. ASSUME NEW e \in Contexts, NEW n \in Names, w.ctx[e] # NoIno, w.t.kids[w.ctx[e]][n] # NoIno
       PROVE  Stands(w, e, w.t.kids[w.ctx[e]][n])
  <2> DEFINE f == view.ctx[e]
             k == r.kids[f][n]
  <2>1. f \in Inos /\ f # NoIno /\ (e # c => f # dir)
    BY <1>14, <1>17 DEF ViewFits, dir
  <2>2. CASE k \in DOMAIN new
    <3>1. CASE k \notin DOMAIN node \/ node[k].up # f
      <4>1. k = kept.t.kids[f][n]
        BY <1>13, <1>16, <2>1, <3>1 DEF SameTree
      <4>2. k \in InUse(kept.t)
        <5>1. k \in Inos /\ k # NoIno
          BY SMTT(60), <1>11, <2>2, Numbers
        <5>2. kept.t.node[k] # NoNode
          BY SMTT(60), <1>7, <2>1, <4>1, <5>1 DEF TreeFits
        <5> QED BY <5>1, <5>2, Used
      <4> QED BY <1>11, <2>2, <4>2
    <3>2. CASE k \in DOMAIN node /\ node[k].up = f
      <4>1. e = c /\ new[k] \in Docs
        BY <1>10, <1>11, <1>12, <2>1, <3>2
      <4>2. w.doc[c][new[k]] = CHOOSE i \in DOMAIN new : new[i] = new[k]
        BY ZenonT(60), <1>14, <2>2, <4>1
      <4>3. w.doc[c][new[k]] = k
        BY ZenonT(60), <1>11, <2>2, <4>2
      <4> QED BY ZenonT(60), <1>14, <4>1, <4>3 DEF Stands
    <3> QED BY <3>1, <3>2
  <2>3. CASE k \notin DOMAIN new
    <3>1. k = kept.t.kids[f][n] /\ k # NoIno
      BY <1>12, <1>13, <1>14, <1>16, <1>17, <2>1, <2>3 DEF SameTree
    <3>2. Stands(kept, e, k)
      BY <1>7, <2>1, <3>1 DEF ViewFits
    <3>3. w.t.tomb = kept.t.tomb
      BY <1>13, <1>14, <1>16 DEF SameTree
    <3>4. CASE e # c
      <4> HIDE DEF k
      <4>1. Stands(w, e, k)
        BY <1>14, <3>2, <3>3, <3>4 DEF Stands
      <4> QED BY <1>14, <4>1 DEF k
    <3>5. CASE e = c /\ n \in left
      <4>1. k = view.t.kids[f][n]
        BY <1>6, <2>1, <3>1 DEF Parts
      <4>2. k \in gone
        BY SMTT(60), <1>5, <3>5, <4>1 DEF dir
      <4>3. kept.t.node[k] # NoNode
        BY SMTT(60), <1>7, <2>1, <3>1 DEF TreeFits
      <4>4. k \in w.t.tomb
        BY <1>6, <3>3, <4>2, <4>3 DEF Parts
      <4> QED BY <1>14, <4>4 DEF Stands
    <3>6. CASE e = c /\ n \notin left
      <4>1. PICK d \in got.docs \ S : kept.doc[c][d] = k
        BY <1>8, <3>1, <3>6 DEF dir
      <4>2. w.doc[c][d] = k
        BY <1>11, <1>14, <4>1
      <4> QED BY SMTT(60), <1>14, <3>6, <4>1, <4>2 DEF Stands
    <3> QED BY <3>4, <3>5, <3>6
  <2> QED BY <2>2, <2>3
<1>18. ViewFits(w)
  BY <1>7, <1>14, <1>16, <1>17 DEF ViewFits
<1>19. \A e \in Contexts, d \in Docs : w.doc[e][d] \in {view.doc[e][d], NoIno} \/ d \in got.docs
  BY SMTT(60), <1>6, <1>10, <1>11, <1>14 DEF Parts, Milder
<1>20. \A i \in Inos \cap Held : view.t.node[i] = NoNode => w.t.node[i] = NoNode
  BY <1>6, <1>11, <1>12, <1>13, <1>14, <1>16 DEF Parts, Milder, SameTree
<1> QED BY <1>14, <1>18, <1>19, <1>20 DEF w, dir

LEMMA DocumentsFits ==
  ASSUME StoredInv, FitInv, InosLast, ApplyDocuments
  PROVE  FitInv'
<1> DEFINE c == work.at.ctx
           got == work.at.got
           dir == view.ctx[c]
           named == AssignNames(got.docs, got.base, got.here, view.sticky[c])
           made == Materialize(c, dir, named, got)
           v == [made.view EXCEPT !.sticky[c] =
                   [d \in Docs |-> IF d \in got.docs THEN named[d] ELSE @[d]]]
<1>1. /\ srv' = srv /\ open' = open /\ fs' = fs /\ work.at.pc = "apply"
      /\ view' = view \/ (dir # NoIno /\ view' = v)
      /\ \/ work' = [work EXCEPT !.at.pc = "notify", !.at.got = NoListing]
         \/ work' = [work EXCEPT !.at.pc = "notify", !.at.got = NoListing, !.at.gone = made.gone]
  BY ZenonT(60) DEF ApplyDocuments, WorkerOnly, At
<1>2. c \in Contexts /\ got.docs \subseteq srv.born /\ fs.pc = "idle" /\ srv.born \subseteq Docs
  BY ZenonT(60), <1>1 DEF FitInv, WorkFits, StoredInv, ServerOK
<1> HIDE DEF named, got
<1>3. dir # NoIno =>
        /\ ViewFits(made.view) /\ made.view.ctx = view.ctx
        /\ \A e \in Contexts, d \in Docs :
             made.view.doc[e][d] \in {view.doc[e][d], NoIno} \/ d \in got.docs
        /\ \A i \in Inos \cap Held : view.t.node[i] = NoNode => made.view.t.node[i] = NoNode
  BY ZenonT(60), <1>2, MaterializeFits DEF FitInv
<1> HIDE DEF made, c
<1>4. work'.at.pc = "notify"
  <2>1. DOMAIN work = {"jobs", "at"} /\ DOMAIN work.at = {"pc", "todo", "ctx", "got", "gone"}
    BY DEF StoredInv, ListingOK
  <2>2. CASE work' = [work EXCEPT !.at.pc = "notify", !.at.got = NoListing]
    BY <2>1, <2>2
  <2>3. CASE work' = [work EXCEPT !.at.pc = "notify", !.at.got = NoListing, !.at.gone = made.gone]
    BY <2>1, <2>3
  <2> QED BY <1>1, <2>2, <2>3
<1>5. WorkFits'
  BY <1>4 DEF WorkFits
<1>6. CASE view' = view
  BY <1>1, <1>5, <1>6, PlaceStep
<1>7. CASE dir # NoIno /\ view' = v
  <2>1. /\ DOMAIN v = DOMAIN made.view /\ v.t = made.view.t /\ v.ctx = made.view.ctx
        /\ v.doc = made.view.doc
    BY SMTT(60), <1>3, <1>7 DEF ViewFits
  <2> HIDE DEF v, dir
  <2>2. ViewFits(view')
    BY <1>3, <1>7, <2>1 DEF ViewFits, Stands
  <2>3. BornFirst'
    BY <1>1, <1>2, <1>3, <1>7, <2>1 DEF FitInv, BornFirst
  <2>4. CreatesFit'
    <3>1. \A i \in Inos : Creating(open[i]) => i \in Held
      BY DEF Creating, Held, OpenInos
    <3> QED BY <1>1, <1>3, <1>7, <2>1, <3>1 DEF FitInv, CreatesFit, Apart
  <2>5. HandlerFits'
    BY <1>1, <1>2, HandlerRests
  <2> QED BY <1>5, <2>2, <2>3, <2>4, <2>5 DEF FitInv
<1> QED BY <1>1, <1>6, <1>7

LEMMA WorkerFits ==
  ASSUME StoredInv, FitInv, InosLast, Worker
  PROVE  FitInv'
<1>1. DOMAIN work = {"jobs", "at"} /\ DOMAIN work.at = DOMAIN WorkIdle
  BY DEF StoredInv, ListingOK, WorkIdle
<1>2. \A todo : Onward(todo).pc \notin {"apply", "contexts"}
  BY DEF Onward, WorkIdle
<1>3. CASE Drain
  <2>1. /\ WorkerOnly /\ view' = view
        /\ \/ work'.at = [WorkIdle EXCEPT !.pc = "list"]
           \/ work'.at = [WorkIdle EXCEPT !.pc = "refresh", !.todo = work.jobs]
    BY <1>1, <1>3 DEF Drain
  <2>2. WorkFits'
    BY <2>1 DEF WorkFits, WorkIdle
  <2> QED BY <2>1, <2>2, PlaceStep DEF WorkerOnly
<1>4. CASE ListContexts
  <2>1. /\ WorkerOnly /\ view' = view
        /\ \/ work' = [work EXCEPT !.at.pc = "contexts", !.at.todo = srv.live]
           \/ work' = [work EXCEPT !.at = WorkIdle]
    BY <1>4 DEF ListContexts
  <2>2. CASE work' = [work EXCEPT !.at.pc = "contexts", !.at.todo = srv.live]
    <3>1. work'.at.pc = "contexts" /\ work'.at.todo = srv.live
      BY <1>1, <2>2 DEF WorkIdle
    <3>2. WorkFits'
      BY <3>1 DEF WorkFits, FitInv, BornFirst
    <3> QED BY <2>1, <3>2, PlaceStep DEF WorkerOnly
  <2>3. CASE work' = [work EXCEPT !.at = WorkIdle]
    <3>1. work'.at.pc = "idle"
      BY <1>1, <2>3 DEF WorkIdle
    <3>2. WorkFits'
      BY <3>1 DEF WorkFits
    <3> QED BY <2>1, <3>2, PlaceStep DEF WorkerOnly
  <2> QED BY <2>1, <2>2, <2>3
<1>5. CASE Notify
  <2>1. /\ WorkerOnly /\ view' = view
        /\ work' = [work EXCEPT !.at = Onward(work.at.todo)]
    BY <1>5 DEF Notify
  <2>2. WorkFits'
    BY <1>1, <1>2, <2>1 DEF WorkFits
  <2> QED BY <2>1, <2>2, PlaceStep DEF WorkerOnly
<1>6. ASSUME NEW c \in Contexts, FetchDocuments(c)
      PROVE  FitInv'
  <2>1. /\ srv' = srv /\ view' = view /\ open' = open /\ fs' = fs /\ fs.pc = "idle"
        /\ work' = [work EXCEPT !.at.pc = "apply", !.at.ctx = c, !.at.got = Listing(c),
                                !.at.todo = @ \ {c}]
    BY <1>6 DEF FetchDocuments
  <2>2. work'.at.pc = "apply" /\ work'.at.ctx = c /\ work'.at.got = Listing(c)
    BY <1>1, <2>1 DEF WorkIdle
  <2>3. Listing(c).docs \subseteq srv.born
    BY DEF Listing, FitInv, BornFirst
  <2>4. WorkFits'
    BY <2>1, <2>2, <2>3 DEF WorkFits
  <2> QED BY <2>1, <2>4, PlaceStep
<1>7. ASSUME NEW c \in Contexts, FetchFails(c)
      PROVE  FitInv'
  <2>1. /\ WorkerOnly /\ view' = view
        /\ work' = [work EXCEPT !.at = Onward(work.at.todo \ {c})]
    BY <1>7 DEF FetchFails
  <2>2. WorkFits'
    BY <1>1, <1>2, <2>1 DEF WorkFits
  <2> QED BY <2>1, <2>2, PlaceStep DEF WorkerOnly
<1> QED BY <1>3, <1>4, <1>5, <1>6, <1>7, ContextsFits, DocumentsFits DEF Worker

(***************************************************************************)
(* The theorem.                                                            *)
(***************************************************************************)
LEMMA FitInit ==
  ASSUME Init
  PROVE  FitInv
<1>1. /\ DOMAIN view = {"t", "ctx", "doc", "sticky"} /\ view.t = BareTree
      /\ view.ctx = [c \in Contexts |-> NoIno]
      /\ view.doc = [c \in Contexts |-> [d \in Docs |-> NoIno]]
  BY DEF Init
<1>2. TreeFits(BareTree)
  <2>1. DOMAIN RootNode = NodeFields
    BY DEF RootNode, NodeFields
  <2> QED BY <2>1 DEF TreeFits, BareTree, NoKids
<1>3. ViewFits(view)
  BY <1>1, <1>2 DEF ViewFits
<1>4. BornFirst
  <2> DEFINE first == {d \in Docs : \E e \in Docs : d < e}
  <2>1. srv.live = Contexts /\ srv.born = first /\ srv.filed = [c \in Contexts |-> first]
    BY DEF Init
  <2> HIDE DEF first
  <2> QED BY <1>1, <2>1 DEF BornFirst
<1>5. WorkFits /\ HandlerFits /\ CreatesFit
  BY DEF Init, WorkIdle, FsIdle, WorkFits, HandlerFits, CreatesFit, Creating
<1> QED BY <1>3, <1>4, <1>5 DEF FitInv

LEMMA FitNext ==
  ASSUME StoredInv, FitInv, InosLast, [Next]_vars
  PROVE  FitInv'
BY SMTT(60), PeerFits, UserFits, SessionFits, WorkerFits, NudgeFits, QuietFits DEF Next

LEMMA FitConsistent ==
  ASSUME FitInv
  PROVE  TreeConsistent
<1>1. ViewFits(view) /\ TreeFits(view.t)
  BY DEF FitInv, ViewFits
<1>2. ASSUME NEW c \in Contexts, NEW n \in Names, NEW i, i = view.t.kids[view.ctx[c]][n],
             view.ctx[c] # NoIno, i # NoIno
      PROVE  /\ Exists(view.t, i) /\ view.t.node[i].up = view.ctx[c]
             /\ view.t.node[i].name = n
             /\ i \in view.t.tomb \/ DocOf(c, i) # NoDoc
  <2>1. view.ctx[c] \in Inos /\ Stands(view, c, i)
    BY Zenon, <1>1, <1>2 DEF ViewFits
  <2>2. /\ i \in Inos /\ view.t.node[i] # NoNode /\ view.t.node[i].up = view.ctx[c]
        /\ view.t.node[i].name = n
    BY Zenon, <1>1, <1>2, <2>1 DEF TreeFits
  <2>3. i \in view.t.tomb \/ DocOf(c, i) # NoDoc
    BY Zenon, <2>1, DocStands DEF Stands
  <2> QED BY Zenon, <1>2, <2>2, <2>3 DEF Exists
<1> HIDE DEF NoIno, NoDoc
<1> QED BY SMTT(60), <1>2 DEF TreeConsistent

\* Whatever the user, the nudge thread, the worker and other clients do, and wherever
\* between a request and its answer they do it, the names of a context's folder lead
\* to nodes that carry them, and each of its files is a document of that context or
\* waits for its unlink: the unwrap of reconcile_doc_dir and doc_for_ino (state.rs)
\* find what they look for.  `InosLast` stands for alloc_ino's counter of 64 bits,
\* which does not run out: there is an inode left for whatever a listing may bring.
THEOREM TreeStaysConsistent == Spec /\ []InosLast => []TreeConsistent
<1>1. StoredInv /\ FitInv /\ InosLast /\ [Next]_vars => StoredInv' /\ FitInv'
  BY StoredNext, FitNext
<1> QED BY <1>1, StoredInit, FitInit, FitConsistent, PTL DEF Spec
=============================================================================
