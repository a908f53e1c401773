------------------------ MODULE WorkspaceViewProofs ------------------------
(***************************************************************************)
(* Theorems about WorkspaceView, for any folders, documents and bounds: no *)
(* request of this mount, and no failure between two of them, leaves a     *)
(* document filed nowhere.                                                 *)
(*                                                                         *)
(* What the tables of the tree say is not reasoned about here: that they   *)
(* tell the folder a file is shown in (PathsIndexed) is a premise of the   *)
(* theorem about moves, and a run checks it.                               *)
(***************************************************************************)
EXTENDS WorkspaceView, WellFoundedInduction, TLAPS

(***************************************************************************)
(* The shape of the records the requests change.                           *)
(***************************************************************************)
ServerShape(s) ==
  /\ DOMAIN s = {"trees", "born", "dirs", "filed", "base", "val"}
  /\ DOMAIN s.filed = Docs
  /\ DOMAIN s.val = Docs
  /\ s.born \subseteq Docs

HandlerShape ==
  DOMAIN fs = {"pc", "out", "ino", "doc", "place", "dir", "to", "name", "over", "into",
               "val", "final"}

GhostShape == DOMAIN ghost = {"touched", "astray"}

Shapes == ServerShape(srv) /\ HandlerShape /\ GhostShape

(***************************************************************************)
(* What a handler between two of its requests relies on.                   *)
(***************************************************************************)

\* A file goes to another folder than the one its document is filed in.
Elsewhere ==
  fs.pc \in {"link", "name", "unfile"} =>
    fs.to # fs.place \/ <<fs.ino, fs.doc>> \in ghost.astray

\* From the answer to the link on, the document is filed at its destination.
LinkedFirst ==
  \/ fs.pc = "link" /\ fs.out = "ok"
  \/ fs.pc = "name"
  \/ fs.pc = "unfile" /\ fs.out = "none"
  => fs.doc \in ghost.touched \/ (fs.doc \in Docs /\ fs.to \in srv.filed[fs.doc])

\* From the answer to the PUT on, another document has the content.
Rewritten == srv.val[fs.into] = fs.val
ReplacedFirst ==
  \/ fs.pc = "replace" /\ fs.out = "ok"
  \/ fs.pc = "refile"
  \/ fs.pc = "supersede" /\ fs.out = "none"
  => \/ fs.into = fs.doc \/ fs.into \in ghost.touched
     \/ Alive(fs.into) /\ Rewritten

HandlerInv == Shapes /\ Elsewhere /\ LinkedFirst /\ ReplacedFirst

USE DEF NoIno, NoDoc

(***************************************************************************)
(* The server's operations.                                                *)
(***************************************************************************)
LEMMA LeastDoc ==
  ASSUME NextDoc # {}
  PROVE  NewDoc \in Docs
<1> DEFINE Less == {ss \in Nat \X Nat : ss[1] < ss[2]}
<1>1. IsWellFoundedOn(Less, Nat)
  BY NatLessThanWellFounded DEF OpToRel
<1>2. \A x, y \in Nat : <<y, x>> \in Less <=> y < x
  OBVIOUS
<1> HIDE DEF Less
<1>3. NextDoc \subseteq Nat /\ NextDoc \subseteq Docs
  BY ViewTreeAssumption DEF NextDoc
<1>4. PICK n \in NextDoc : \A m \in NextDoc : ~ (<<m, n>> \in Less)
  BY <1>1, <1>3, WFMin
<1>5. \A m \in NextDoc : n <= m
  <2> TAKE m \in NextDoc
  <2>1. n \in Nat /\ m \in Nat /\ ~ (m < n)
    BY <1>2, <1>3, <1>4
  <2> QED BY <2>1
<1> QED BY <1>3, <1>5 DEF NewDoc

LEMMA WithDirsKeeps ==
  ASSUME NEW s, ServerShape(s), NEW p
  PROVE  LET r == WithDirs(s, p) IN
         ServerShape(r) /\ r.filed = s.filed /\ r.val = s.val /\ r.born = s.born
BY DEF WithDirs, ServerShape

LEMMA WithPlaceKeeps ==
  ASSUME ServerShape(srv), NEW p, NEW s \in WithPlace(p)
  PROVE  ServerShape(s) /\ s.filed = srv.filed /\ s.val = srv.val /\ s.born = srv.born
BY WithDirsKeeps DEF WithPlace

LEMMA Files ==
  ASSUME NEW s, ServerShape(s), NEW d, NEW S
  PROVE  LET r == [s EXCEPT !.filed[d] = S] IN
         /\ ServerShape(r) /\ r.val = s.val /\ r.born = s.born
         /\ \A e \in Docs \ {d} : r.filed[e] = s.filed[e]
         /\ d \in Docs => r.filed[d] = S
BY DEF ServerShape

LEMMA LinkAdds ==
  ASSUME NEW s, ServerShape(s), NEW d, NEW p
  PROVE  LET r == Link(s, d, p) IN
         /\ ServerShape(r) /\ r.val = s.val /\ r.born = s.born
         /\ \A e \in Docs \ {d} : r.filed[e] = s.filed[e]
         /\ d \in Docs => r.filed[d] = s.filed[d] \cup {p}
BY DEF Link, ServerShape

LEMMA LinkGrows ==
  ASSUME NEW s, ServerShape(s), NEW d, NEW p
  PROVE  LET r == Link(s, d, p) IN
         /\ ServerShape(r) /\ r.born = s.born
         /\ \A e \in Docs : s.filed[e] \subseteq r.filed[e]
<1> DEFINE r == Link(s, d, p)
<1>1. /\ ServerShape(r) /\ r.born = s.born
      /\ \A e \in Docs \ {d} : r.filed[e] = s.filed[e]
      /\ d \in Docs => r.filed[d] = s.filed[d] \cup {p}
  BY LinkAdds
<1>2. \A e \in Docs : s.filed[e] \subseteq r.filed[e]
  <2> HIDE DEF r
  <2> QED BY <1>1
<1> QED BY <1>1, <1>2

LEMMA WithoutDirsKeeps ==
  ASSUME ServerShape(srv), NEW p
  PROVE  LET r == WithoutDirs(srv, p) IN
         /\ ServerShape(r) /\ r.val = srv.val /\ r.born = srv.born
         /\ \A e \in Docs \ FiledBelow(p) : r.filed[e] = srv.filed[e]
BY DEF WithoutDirs, ServerShape, FiledBelow

\* A folder takes what is filed below it along: nothing comes to be filed nowhere.
LEMMA MoveDirKeeps ==
  ASSUME ServerShape(srv), NEW p, NEW q
  PROVE  LET r == MoveDir(srv, p, q) IN
         /\ ServerShape(r) /\ r.val = srv.val /\ r.born = srv.born
         /\ \A e \in Docs : srv.filed[e] # {} => r.filed[e] # {}
         /\ \A e \in Docs \ FiledBelow(p) : r.filed[e] = srv.filed[e]
<1> DEFINE to(x) == IF x # TrashPlace /\ AtOrBelow(x, p) THEN Moved(x, p, q) ELSE x
           r == MoveDir(srv, p, q)
<1>1. /\ ServerShape(r) /\ r.val = srv.val /\ r.born = srv.born
      /\ \A e \in Docs : r.filed[e] = {to(x) : x \in srv.filed[e]}
  BY DEF MoveDir, ServerShape
<1>2. ASSUME NEW e \in Docs \ FiledBelow(p) PROVE r.filed[e] = srv.filed[e]
  <2>1. \A x \in srv.filed[e] : to(x) = x
    BY <1>2 DEF FiledBelow
  <2> HIDE DEF to
  <2> QED BY <1>1, <2>1
<1> HIDE DEF to
<1> QED BY <1>1, <1>2

(***************************************************************************)
(* Other clients.  Whatever they do to a document's places while a handler *)
(* is under way is on record.                                              *)
(***************************************************************************)
PeerFrame ==
  /\ Shapes' /\ fs' = fs
  /\ srv.val' = srv.val /\ srv.born' = srv.born /\ ghost.astray' = ghost.astray
  /\ fs.pc # "idle" =>
       /\ ghost.touched \subseteq ghost.touched'
       /\ \A d \in Docs : d \in ghost.touched' \/ srv.filed[d]' = srv.filed[d]

LEMMA TouchedAdds ==
  ASSUME GhostShape, NEW S, ghost' = Touched(S)
  PROVE  /\ GhostShape' /\ ghost.astray' = ghost.astray
         /\ fs.pc # "idle" => ghost.touched' = ghost.touched \cup S
BY DEF GhostShape, Touched

LEMMA PeerKeeps ==
  ASSUME Shapes, Peers
  PROVE  PeerFrame
<1> USE DEF Shapes
<1> SUFFICES HandlerShape' /\ fs' = fs => PeerFrame
  BY DEF Peers, Peer, PeerFiles, PeerUnfiles, PeerRenames, PeerMakesDir, PeerRemovesDir,
         PeerMovesDir, PeerTogglesTree, HandlerShape
<1> SUFFICES ASSUME HandlerShape', fs' = fs PROVE PeerFrame
  OBVIOUS
<1>1. ASSUME NEW d \in Docs, NEW p \in Places, PeerFiles(d, p) PROVE PeerFrame
  <2> DEFINE s == Link(srv, d, p)
  <2>1. /\ ServerShape(s) /\ s.val = srv.val /\ s.born = srv.born
        /\ \A e \in Docs \ {d} : s.filed[e] = srv.filed[e]
    BY LinkAdds
  <2> HIDE DEF s
  <2>2. srv' = [s EXCEPT !.filed[d] = @ \ {TrashPlace}] /\ ghost' = Touched({d})
    BY <1>1 DEF PeerFiles, Unlink, s
  <2>3. /\ ServerShape(srv') /\ srv'.val = s.val /\ srv'.born = s.born
        /\ \A e \in Docs \ {d} : srv'.filed[e] = s.filed[e]
    BY <2>1, <2>2, Files
  <2> QED BY <2>1, <2>2, <2>3, TouchedAdds DEF PeerFrame
<1>2. ASSUME NEW d \in Docs, NEW p \in Places, PeerUnfiles(d, p) PROVE PeerFrame
  <2> DEFINE left == IF srv.filed[d] = {p} THEN {TrashPlace} ELSE srv.filed[d] \ {p}
  <2>1. srv' = [srv EXCEPT !.filed[d] = left] /\ ghost' = Touched({d})
    BY <1>2 DEF PeerUnfiles, Unlink
  <2> HIDE DEF left
  <2>2. /\ ServerShape(srv') /\ srv'.val = srv.val /\ srv'.born = srv.born
        /\ \A e \in Docs \ {d} : srv'.filed[e] = srv.filed[e]
    BY <2>1, Files
  <2> QED BY <2>1, <2>2, TouchedAdds DEF PeerFrame
<1>3. ASSUME NEW d \in Docs, NEW b \in Titles, PeerRenames(d, b) PROVE PeerFrame
  <2>1. /\ ServerShape(srv') /\ srv'.val = srv.val /\ srv'.born = srv.born
        /\ srv'.filed = srv.filed /\ ghost' = ghost
    BY <1>3 DEF PeerRenames, ServerShape
  <2> QED BY <2>1 DEF PeerFrame, GhostShape
<1>4. ASSUME NEW p \in Places, PeerMakesDir(p) PROVE PeerFrame
  <2>1. /\ ServerShape(srv') /\ srv'.val = srv.val /\ srv'.born = srv.born
        /\ srv'.filed = srv.filed /\ ghost' = ghost
    BY <1>4 DEF PeerMakesDir, ServerShape
  <2> QED BY <2>1 DEF PeerFrame, GhostShape
<1>5. ASSUME NEW p \in Places, PeerRemovesDir(p) PROVE PeerFrame
  <2>1. srv' = WithoutDirs(srv, p) /\ ghost' = Touched(FiledBelow(p))
    BY <1>5 DEF PeerRemovesDir
  <2> QED BY <2>1, WithoutDirsKeeps, TouchedAdds DEF PeerFrame
<1>6. ASSUME NEW p \in Places, NEW q \in Places, PeerMovesDir(p, q) PROVE PeerFrame
  <2>1. srv' = MoveDir(srv, p, q) /\ ghost' = Touched(FiledBelow(p))
    BY <1>6 DEF PeerMovesDir
  <2> QED BY <2>1, MoveDirKeeps, TouchedAdds DEF PeerFrame
<1>7. ASSUME NEW t \in Trees, PeerTogglesTree(t) PROVE PeerFrame
  <2> DEFINE s == WithoutDirs(srv, RootOf(t))
             w == WithDirs(s, RootOf(t))
  <2>1. ghost' = Touched(FiledBelow(RootOf(t)))
    BY <1>7 DEF PeerTogglesTree
  <2>2. /\ ServerShape(s) /\ s.val = srv.val /\ s.born = srv.born
        /\ \A e \in Docs \ FiledBelow(RootOf(t)) : s.filed[e] = srv.filed[e]
    BY WithoutDirsKeeps
  <2>3. ServerShape(w) /\ w.filed = s.filed /\ w.val = s.val /\ w.born = s.born
    <3> HIDE DEF s
    <3> QED BY <2>2, WithDirsKeeps
  <2>4. \/ srv' = [w EXCEPT !.trees = @ \ {t}]
        \/ srv' = [srv EXCEPT !.trees = @ \cup {t}]
    BY <1>7 DEF PeerTogglesTree
  <2> HIDE DEF s, w
  <2>5. /\ ServerShape(srv') /\ srv'.val = srv.val /\ srv'.born = srv.born
        /\ \A e \in Docs \ FiledBelow(RootOf(t)) : srv'.filed[e] = srv.filed[e]
    BY <2>2, <2>3, <2>4 DEF ServerShape
  <2> QED BY <2>1, <2>5, TouchedAdds DEF PeerFrame
<1> QED BY <1>1, <1>2, <1>3, <1>4, <1>5, <1>6, <1>7 DEF Peers

LEMMA PeerStep ==
  ASSUME HandlerInv, Peers
  PROVE  HandlerInv' /\ fs' = fs
<1>1. PeerFrame
  BY PeerKeeps DEF HandlerInv
<1>2. Shapes' /\ Shapes
  BY <1>1 DEF PeerFrame, HandlerInv
<1>3. Elsewhere'
  BY <1>1 DEF PeerFrame, HandlerInv, Elsewhere
<1>4. LinkedFirst'
  BY <1>1 DEF PeerFrame, HandlerInv, LinkedFirst
<1>5. ReplacedFirst'
  BY <1>1, <1>2 DEF PeerFrame, HandlerInv, ReplacedFirst, Alive, Rewritten, Shapes, ServerShape
<1> QED BY <1>1, <1>2, <1>3, <1>4, <1>5 DEF HandlerInv, PeerFrame

(***************************************************************************)
(* The user and the refresh.  Neither asks the server for a change, and a  *)
(* handler starts with nothing done yet; where a file is moved from is     *)
(* where the tables say that it is.                                        *)
(***************************************************************************)
LEMMA MoveStep ==
  ASSUME HandlerInv, PathsIndexed,
         NEW p \in Places \cup {TrashPlace}, NEW n \in FilesIn(p), NEW q \in Places, NEW m,
         MoveFile(p, n, q, m)
  PROVE  HandlerInv'
<1> DEFINE i == FileAt(p, n)
           f == view.file[i]
<1>1. /\ p # q /\ i # NoIno /\ srv' = srv /\ ghost' = ghost
      /\ fs' = [FsIdle EXCEPT !.pc = "link", !.ino = i, !.doc = f.doc, !.place = f.place,
                              !.to = q, !.dir = DirOf(q), !.name = m]
  BY DEF MoveFile, User, Ask
<1>2. <<i, f.doc>> \in ghost.astray \/ f.place = p
  BY <1>1 DEF PathsIndexed, FilesIn
<1> HIDE DEF i, f
<1>3. /\ HandlerShape' /\ fs'.pc = "link" /\ fs'.out = "none" /\ fs'.ino = i /\ fs'.doc = f.doc
      /\ fs'.place = f.place /\ fs'.to = q
  BY <1>1 DEF FsIdle, HandlerShape
<1> QED
  BY <1>1, <1>2, <1>3
     DEF HandlerInv, Shapes, GhostShape, Elsewhere, LinkedFirst, ReplacedFirst

\* Every other handler starts with a request that nothing precedes.
LEMMA StartStep ==
  ASSUME HandlerInv, srv' = srv, ghost' = ghost, HandlerShape',
         fs'.pc \notin {"link", "name", "unfile", "refile", "supersede"}, fs'.out = "none"
  PROVE  HandlerInv'
BY DEF HandlerInv, Shapes, GhostShape, Elsewhere, LinkedFirst, ReplacedFirst

LEMMA SameStep ==
  ASSUME HandlerInv, srv' = srv, ghost' = ghost, fs' = fs
  PROVE  HandlerInv'
BY DEF HandlerInv, Shapes, HandlerShape, GhostShape, Elsewhere, LinkedFirst, ReplacedFirst,
       Alive, Rewritten

LEMMA UserStep ==
  ASSUME HandlerInv, PathsIndexed, Users
  PROVE  HandlerInv' /\ srv' = srv
<1>1. CASE \E p \in Places : Mkdir(p) \/ Rmdir(p) \/ \E q \in Places : MoveFolder(p, q)
  <2>1. /\ srv' = srv /\ ghost' = ghost /\ HandlerShape' /\ fs'.out = "none"
        /\ fs'.pc \in {"mkdir", "rmdir", "mvdir"}
    BY ZenonT(60), <1>1 DEF Mkdir, Rmdir, MoveFolder, User, Ask, FsIdle, HandlerShape
  <2> QED BY <2>1, StartStep
<1>2. CASE \E p \in Places \cup {TrashPlace}, n \in Names : RemoveFile(p, n)
  <2>1. /\ srv' = srv /\ ghost' = ghost /\ HandlerShape' /\ fs'.out = "none"
        /\ fs'.pc \in {"empty", "unlink"}
    BY <1>2 DEF RemoveFile, User, Ask, FsIdle, HandlerShape
  <2> QED BY <2>1, StartStep
<1>3. ASSUME NEW p \in Places \cup {TrashPlace}, NEW n \in Names, NEW m \in NewNames,
             RenameFile(p, n, m)
      PROVE  HandlerInv' /\ srv' = srv
  <2> DEFINE i == FileAt(p, n)
             f == view.file[i]
             over == FileAt(p, m)
             asked == [FsIdle EXCEPT !.ino = i, !.doc = f.doc, !.place = f.place, !.name = m]
  <2>1. /\ srv' = srv /\ ghost' = ghost
        /\ \/ fs' = [asked EXCEPT !.pc = "filename"]
           \/ fs' = [asked EXCEPT !.pc = "replace", !.over = over, !.into = view.file[over].doc,
                                  !.val = view.t.node[i].val]
    BY ZenonT(60), <1>3 DEF RenameFile, User, Ask, FsIdle
  <2> HIDE DEF i, f, over
  <2>2. HandlerShape' /\ fs'.out = "none" /\ fs'.pc \in {"filename", "replace"}
    BY ZenonT(60), <2>1 DEF FsIdle, HandlerShape
  <2> QED BY <2>1, <2>2, StartStep
<1>4. CASE \E i \in Inos, final \in BOOLEAN : FlushFile(i, final)
  <2>1. /\ srv' = srv /\ ghost' = ghost /\ HandlerShape' /\ fs'.out = "none"
        /\ fs'.pc = "flush"
    BY <1>4 DEF FlushFile, Local, FsIdle, HandlerShape
  <2> QED BY <2>1, StartStep
<1>5. CASE \E p \in Places \cup {TrashPlace} : \E n \in FilesIn(p) :
              \E q \in Places, m \in NewNames \cup {n} : MoveFile(p, n, q, m)
  <2>1. srv' = srv
    BY <1>5 DEF MoveFile, User
  <2> QED BY <1>5, <2>1, MoveStep
<1>6. CASE \/ \E p \in Places, b \in Titles : Create(p, b)
           \/ \E p \in Places \cup {TrashPlace}, n \in Names : OpenExisting(p, n)
           \/ \E p \in Places \cup {TrashPlace}, n \in {open[i].name : i \in OpenInos} :
                DropPending(p, n) \/ \E q \in Places, m \in NewNames \cup {n} : RenamePending(p, n, q, m)
           \/ \E i \in Inos : Write(i) \/ Release(i)
  <2>1. srv' = srv /\ ghost' = ghost /\ fs' = fs
    BY ZenonT(60), <1>6 DEF Create, OpenExisting, DropPending, RenamePending, Write, Release, Local
  <2> QED BY SMTT(60), <2>1, SameStep
<1> QED BY <1>1, <1>2, <1>3, <1>4, <1>5, <1>6 DEF Users, FilesIn

LEMMA RefreshStep ==
  ASSUME HandlerInv, Refreshing
  PROVE  HandlerInv' /\ srv' = srv
<1>1. srv' = srv /\ ghost' = ghost /\ fs' = fs
  BY DEF Refreshing, StartRefresh, ListTreePaths, ListTrash, ListTreeDocuments, Refresh
<1> QED BY <1>1, SameStep

(***************************************************************************)
(* What the handlers do with the answers.                                  *)
(***************************************************************************)
LEMMA HandledStep ==
  ASSUME HandlerInv, Handled
  PROVE  HandlerInv' /\ srv' = srv
<1> USE DEF HandlerInv, Shapes
<1>1. CASE \E S : DoneAstray(S) /\ srv' = srv
  <2>1. HandlerShape' /\ GhostShape' /\ fs'.pc = "idle" /\ srv' = srv
    BY <1>1 DEF DoneAstray, FsIdle, HandlerShape, GhostShape
  <2> QED BY <2>1 DEF Elsewhere, LinkedFirst, ReplacedFirst
<1>2. CASE Linked
  <2>1. /\ fs.pc = "link" /\ fs.out = "ok" /\ srv' = srv /\ ghost' = ghost
        /\ HandlerShape' /\ fs'.pc \in {"name", "unfile"}
        /\ fs'.to = fs.to /\ fs'.place = fs.place /\ fs'.ino = fs.ino /\ fs'.doc = fs.doc
    BY <1>2 DEF Linked, Told, Then, HandlerShape
  <2> QED BY <2>1 DEF GhostShape, Elsewhere, LinkedFirst, ReplacedFirst
<1>3. CASE Renamed
  <2>1. /\ fs.pc = "name" /\ fs.out = "ok" /\ srv' = srv /\ ghost' = ghost
        /\ HandlerShape' /\ fs'.pc = "unfile"
        /\ fs'.to = fs.to /\ fs'.place = fs.place /\ fs'.ino = fs.ino /\ fs'.doc = fs.doc
    BY <1>3 DEF Renamed, Told, Then, HandlerShape
  <2> QED BY <2>1 DEF GhostShape, Elsewhere, LinkedFirst, ReplacedFirst
<1>4. CASE Replaced \/ Refiled
  <2>1. /\ (fs.pc = "replace" /\ fs.out = "ok") \/ fs.pc = "refile"
        /\ srv' = srv /\ ghost' = ghost
        /\ HandlerShape' /\ fs'.pc \in {"refile", "supersede"}
        /\ fs'.into = fs.into /\ fs'.doc = fs.doc /\ fs'.val = fs.val
    BY <1>4 DEF Replaced, Refiled, Told, Then, HandlerShape
  <2> QED BY <2>1 DEF GhostShape, Elsewhere, LinkedFirst, ReplacedFirst, Alive, Rewritten
<1> QED
  BY <1>1, <1>2, <1>3, <1>4
     DEF Handled, DirMade, DirRemoved, FolderMoved, FileRemoved, FileMoved, FileRenamed,
         Superseded, Flushed, RequestFailed, GivesUp, Done, Told

(***************************************************************************)
(* The requests.                                                           *)
(***************************************************************************)

\* Of the handler's state only the answer changes.
Continues ==
  /\ ghost' = ghost /\ HandlerShape'
  /\ fs'.pc = fs.pc /\ fs'.ino = fs.ino /\ fs'.doc = fs.doc /\ fs'.place = fs.place
  /\ fs'.to = fs.to /\ fs'.into = fs.into /\ fs'.val = fs.val

LEMMA AnswerIs ==
  ASSUME HandlerShape, NEW R, Answered(R)
  PROVE  /\ Continues
         /\ \/ srv' \in R /\ fs'.out = "ok"
            \/ srv' \in R \cup {srv} /\ fs'.out = "error"
BY DEF Answered, AtServer, Continues, HandlerShape

LEMMA RefusalIs ==
  ASSUME HandlerShape, NEW p, NEW R, OrRefused(p, R)
  PROVE  /\ Continues
         /\ \/ srv' \in R /\ fs'.out = "ok"
            \/ srv' \in R \cup {srv} /\ fs'.out = "error"
<1>1. Answered(R) \/ Answered({})
  BY DEF OrRefused
<1>2. ASSUME Answered({}) PROVE Continues /\ srv' \in R \cup {srv} /\ fs'.out = "error"
  <2>1. /\ Continues
        /\ \/ srv' \in {} /\ fs'.out = "ok"
           \/ srv' \in {} \cup {srv} /\ fs'.out = "error"
    BY <1>2, AnswerIs
  <2> QED BY <2>1
<1> QED BY <1>1, <1>2, AnswerIs

\* What the property asks of a request.
KeptStep ==
  \A d \in Docs \ ghost.touched : Alive(d) /\ ~Alive(d)' =>
    \/ fs.pc = "empty"
    \/ /\ fs.pc = "supersede" /\ d = fs.doc
       /\ \/ fs.into = d \/ fs.into \in ghost.touched
          \/ Alive(fs.into)' /\ srv.val[fs.into]' = fs.val
    \/ <<fs.ino, d>> \in ghost.astray

\* No document is filed in fewer places, none is forgotten.
Grows(s) ==
  /\ ServerShape(s) /\ srv.born \subseteq s.born
  /\ \A e \in Docs : srv.filed[e] \subseteq s.filed[e]

LEMMA GrowthKeeps ==
  ASSUME HandlerInv, Grows(srv')
  PROVE  KeptStep
BY DEF KeptStep, Grows, Alive, HandlerInv, Shapes, ServerShape

\* A request that precedes no other of its handler.
LEMMA LastStep ==
  ASSUME HandlerInv, Continues, ServerShape(srv'),
         \/ fs.pc \notin {"link", "name", "unfile", "replace", "refile", "supersede"}
         \/ fs.pc \in {"unfile", "supersede"} /\ fs'.out # "none"
  PROVE  HandlerInv'
BY DEF Continues, HandlerInv, Shapes, GhostShape, Elsewhere, LinkedFirst, ReplacedFirst

LEMMA FolderStep ==
  ASSUME HandlerInv, InsertTreePath \/ RemoveTreePath \/ MoveTreePath
  PROVE  HandlerInv' /\ KeptStep
<1> USE DEF HandlerInv, Shapes
<1>1. CASE InsertTreePath \/ RemoveTreePath
  <2>1. /\ Continues /\ fs.pc \in {"mkdir", "rmdir"}
        /\ \/ srv' = srv \/ \E S : srv' = [srv EXCEPT !.dirs = S]
    BY <1>1, AnswerIs DEF InsertTreePath, RemoveTreePath, Asking, If
  <2>2. Grows(srv')
    BY <2>1 DEF Grows, ServerShape
  <2> QED BY <2>1, <2>2, LastStep, GrowthKeeps DEF Grows
<1>2. CASE MoveTreePath
  <2>1. /\ Continues /\ fs.pc = "mvdir"
        /\ srv' = srv \/ srv' = MoveDir(srv, fs.place, fs.to)
    BY <1>2, AnswerIs DEF MoveTreePath, Asking, If
  <2>2. /\ ServerShape(srv') /\ srv'.born = srv.born
        /\ \A e \in Docs : srv.filed[e] # {} => srv'.filed[e] # {}
    BY <2>1, MoveDirKeeps
  <2>3. HandlerInv'
    BY <2>1, <2>2, LastStep
  <2> QED BY <2>2, <2>3 DEF KeptStep, Alive
<1> QED BY <1>1, <1>2

LEMMA RemovalStep ==
  ASSUME HandlerInv, RemoveDocument
  PROVE  HandlerInv' /\ KeptStep
<1> USE DEF HandlerInv, Shapes
<1>1. CASE fs.pc = "unlink"
  <2> DEFINE left == IF srv.filed[fs.doc] = {fs.place} THEN {TrashPlace}
                     ELSE srv.filed[fs.doc] \ {fs.place}
             r == [srv EXCEPT !.filed[fs.doc] = left]
  <2>6. Answered(If(HasFolder(fs.place), Unlink(srv, fs.doc, fs.place, TRUE)))
    BY Zenon, <1>1 DEF RemoveDocument, Asking
  <2>7. Unlink(srv, fs.doc, fs.place, TRUE) = r
    BY DEF Unlink
  <2> HIDE DEF r
  <2>8. If(HasFolder(fs.place), r) \subseteq {r}
    BY Zenon DEF If
  <2>1. Continues /\ (srv' = srv \/ srv' = r)
    BY Zenon, <2>6, <2>7, <2>8, AnswerIs
  <2> USE DEF r
  <2>2. srv.filed[fs.doc] # {} => left # {}
    OBVIOUS
  <2> HIDE DEF left
  <2>5. /\ ServerShape(r) /\ r.val = srv.val /\ r.born = srv.born
        /\ \A e \in Docs \ {fs.doc} : r.filed[e] = srv.filed[e]
        /\ fs.doc \in Docs => r.filed[fs.doc] = left
    BY Files
  <2> HIDE DEF r
  <2>3. /\ ServerShape(srv') /\ srv'.born = srv.born
        /\ \A e \in Docs : srv.filed[e] # {} => srv'.filed[e] # {}
    BY <2>1, <2>2, <2>5
  <2>4. HandlerInv'
    BY <1>1, <2>1, <2>3, LastStep
  <2> QED BY <2>3, <2>4 DEF KeptStep, Alive
<1>2. CASE fs.pc = "empty"
  <2>1. /\ Continues
        /\ srv' = srv \/ srv' = [srv EXCEPT !.filed[fs.doc] = {}]
    BY <1>2, AnswerIs DEF RemoveDocument, Asking, If
  <2>2. ServerShape(srv')
    BY <2>1, Files
  <2> QED BY <1>2, <2>1, <2>2, LastStep DEF KeptStep
<1> QED BY <1>1, <1>2 DEF RemoveDocument, Asking

LEMMA LinkStep ==
  ASSUME HandlerInv, LinkDocument
  PROVE  HandlerInv' /\ KeptStep
<1> USE DEF HandlerInv, Shapes
<1> DEFINE R == IF Alive(fs.doc) THEN {Link(s, fs.doc, fs.to) : s \in WithPlace(fs.to)} ELSE {}
<1>1. OrRefused(fs.to, R) /\ fs.pc = "link"
  BY DEF LinkDocument, Asking
<1>2. ASSUME NEW r \in R
      PROVE  Grows(r) /\ fs.doc \in Docs /\ fs.to \in r.filed[fs.doc]
  <2>1. PICK s \in WithPlace(fs.to) : r = Link(s, fs.doc, fs.to) /\ Alive(fs.doc)
    BY <1>2
  <2>2. ServerShape(s) /\ s.filed = srv.filed /\ s.val = srv.val /\ s.born = srv.born
    BY WithPlaceKeeps
  <2>3. fs.doc \in Docs
    BY <2>1 DEF Alive, ServerShape
  <2> QED BY <2>1, <2>2, <2>3, LinkAdds DEF Grows
<1> HIDE DEF R
<1>3. /\ Continues
      /\ \/ srv' \in R /\ fs'.out = "ok"
         \/ srv' \in R \cup {srv} /\ fs'.out = "error"
  BY <1>1, RefusalIs
<1>4. Grows(srv)
  BY DEF Grows
<1>5. /\ Grows(srv') /\ fs'.pc = "link"
      /\ fs'.out # "ok" \/ (fs.doc \in Docs /\ fs.to \in srv'.filed[fs.doc])
  BY <1>1, <1>2, <1>3, <1>4 DEF Continues
<1>6. HandlerInv'
  BY <1>3, <1>5, <1>1 DEF Continues, GhostShape, Elsewhere, LinkedFirst, ReplacedFirst, Grows
<1> QED BY <1>5, <1>6, GrowthKeeps

LEMMA UnfileStep ==
  ASSUME HandlerInv, UnfileDocument
  PROVE  HandlerInv' /\ KeptStep
<1> USE DEF HandlerInv, Shapes
<1>1. /\ fs.pc \in {"unfile", "supersede"} /\ fs.out = "none"
      /\ Continues /\ fs'.out # "none"
      /\ srv' = srv \/ srv' = [srv EXCEPT !.filed[fs.doc] = @ \ {fs.place}]
  BY AnswerIs DEF UnfileDocument, Asking, If, Unlink
<1>2. /\ ServerShape(srv') /\ srv'.val = srv.val /\ srv'.born = srv.born
      /\ \A e \in Docs \ {fs.doc} : srv'.filed[e] = srv.filed[e]
      /\ fs.doc \in Docs => srv.filed[fs.doc] \ {fs.place} \subseteq srv'.filed[fs.doc]
  <2> DEFINE left == srv.filed[fs.doc] \ {fs.place}
             r == [srv EXCEPT !.filed[fs.doc] = left]
  <2>1. srv' = srv \/ srv' = r
    BY <1>1
  <2>2. /\ ServerShape(r) /\ r.val = srv.val /\ r.born = srv.born
        /\ \A e \in Docs \ {fs.doc} : r.filed[e] = srv.filed[e]
        /\ fs.doc \in Docs => r.filed[fs.doc] = left
    <3> HIDE DEF left
    <3> QED BY Files
  <2> HIDE DEF r
  <2> QED BY <2>1, <2>2
<1>3. HandlerInv'
  BY <1>1, <1>2, LastStep
<1>4. ASSUME NEW d \in Docs \ ghost.touched, Alive(d), ~Alive(d)'
      PROVE  \/ /\ fs.pc = "supersede" /\ d = fs.doc
                /\ \/ fs.into = d \/ fs.into \in ghost.touched
                   \/ Alive(fs.into)' /\ srv.val[fs.into]' = fs.val
             \/ <<fs.ino, d>> \in ghost.astray
  <2>1. d = fs.doc
    BY <1>2, <1>4 DEF Alive
  <2>2. CASE fs.pc = "unfile"
    <3>1. fs.to \in srv.filed[d] /\ srv'.filed[d] = {}
      BY <1>1, <1>2, <1>4, <2>1, <2>2 DEF LinkedFirst, Alive
    <3>2. fs.to = fs.place
      BY <1>2, <2>1, <3>1
    <3> QED BY <2>1, <2>2, <3>2 DEF Elsewhere
  <2>3. CASE fs.pc = "supersede" /\ fs.into # d /\ fs.into \notin ghost.touched
    <3>1. Alive(fs.into) /\ Rewritten
      BY <1>1, <2>1, <2>3 DEF ReplacedFirst
    <3>2. Alive(fs.into)' /\ srv.val[fs.into]' = fs.val
      BY <1>1, <1>2, <2>1, <2>3, <3>1 DEF Alive, Rewritten, Continues, ServerShape
    <3> QED BY <2>1, <2>3, <3>2
  <2> QED BY <1>1, <2>1, <2>2, <2>3
<1> QED BY <1>3, <1>4 DEF KeptStep

LEMMA FilenameStep ==
  ASSUME HandlerInv, SetFilename
  PROVE  HandlerInv' /\ KeptStep
<1> USE DEF HandlerInv, Shapes
<1>1. /\ fs.pc \in {"name", "filename", "refile"} /\ fs.out = "none" /\ Continues
      /\ srv' = srv \/ \E f : srv' = [srv EXCEPT !.base = f]
  <2>1. /\ fs.pc \in {"name", "filename", "refile"} /\ fs.out = "none" /\ Continues
        /\ srv' = srv \/ srv' = [srv EXCEPT !.base[Named] = fs.name[1]]
    BY AnswerIs DEF SetFilename, Asking, If
  <2> QED BY <2>1
<1>2. /\ ServerShape(srv') /\ srv'.val = srv.val /\ srv'.born = srv.born
      /\ srv'.filed = srv.filed
  BY <1>1 DEF ServerShape
<1>3. HandlerInv'
  BY <1>1, <1>2
     DEF Continues, GhostShape, Elsewhere, LinkedFirst, ReplacedFirst, Alive, Rewritten
<1> QED BY <1>2, <1>3, GrowthKeeps DEF Grows

LEMMA PutStep ==
  ASSUME HandlerInv, ReplaceContent \/ FlushUpdate
  PROVE  HandlerInv' /\ KeptStep
<1> USE DEF HandlerInv, Shapes
<1>1. CASE ReplaceContent
  <2>1. /\ fs.pc = "replace" /\ Continues
        /\ \/ Alive(fs.into) /\ srv' = [srv EXCEPT !.val[fs.into] = fs.val]
           \/ srv' = srv /\ fs'.out # "ok"
    BY <1>1, AnswerIs DEF ReplaceContent, PutContent, Asking, If
  <2>2. /\ ServerShape(srv') /\ srv'.born = srv.born /\ srv'.filed = srv.filed
        /\ fs'.out = "ok" => Alive(fs.into) /\ srv'.val[fs.into] = fs.val
    BY <2>1 DEF ServerShape, Alive
  <2>3. HandlerInv'
    BY <2>1, <2>2
       DEF Continues, GhostShape, Elsewhere, LinkedFirst, ReplacedFirst, Alive, Rewritten
  <2> QED BY <2>2, <2>3, GrowthKeeps DEF Grows
<1>2. CASE FlushUpdate
  <2>1. /\ fs.pc = "flush" /\ Continues
        /\ srv' = srv \/ srv' = [srv EXCEPT !.val[open[fs.ino].doc] = open[fs.ino].buf]
    BY <1>2, AnswerIs DEF FlushUpdate, PutContent, Asking, If
  <2>2. ServerShape(srv') /\ srv'.born = srv.born /\ srv'.filed = srv.filed
    BY <2>1 DEF ServerShape
  <2> QED BY <2>1, <2>2, LastStep, GrowthKeeps DEF Grows
<1> QED BY <1>1, <1>2

LEMMA CreateStep ==
  ASSUME HandlerInv, FlushCreate
  PROVE  HandlerInv' /\ KeptStep
<1> USE DEF HandlerInv, Shapes
<1> DEFINE h == open[fs.ino]
           born(s) == [Link(s, NewDoc, h.place) EXCEPT !.born = @ \cup {NewDoc},
                         !.base[NewDoc] = h.name[1], !.val[NewDoc] = h.buf]
           R == IF NextDoc = {} THEN {} ELSE {born(s) : s \in WithPlace(h.place)}
<1>1. OrRefused(h.place, R) /\ fs.pc = "flush"
  BY DEF FlushCreate, Asking
<1>2. ASSUME NEW r \in R PROVE Grows(r)
  <2>1. PICK s \in WithPlace(h.place) : r = born(s) /\ NextDoc # {}
    BY <1>2
  <2>2. ServerShape(s) /\ s.filed = srv.filed /\ s.val = srv.val /\ s.born = srv.born
    BY WithPlaceKeeps
  <2> DEFINE l == Link(s, NewDoc, h.place)
  <2>3. /\ ServerShape(l) /\ l.born = srv.born
        /\ \A e \in Docs : srv.filed[e] \subseteq l.filed[e]
    <3>1. /\ ServerShape(l) /\ l.born = s.born
          /\ \A e \in Docs : s.filed[e] \subseteq l.filed[e]
      BY ZenonT(60), <2>2, LinkGrows
    <3> HIDE DEF l
    <3> QED BY ZenonT(60), <2>2, <3>1
  <2>4. r = [l EXCEPT !.born = @ \cup {NewDoc}, !.base[NewDoc] = h.name[1],
                      !.val[NewDoc] = h.buf]
    BY <2>1
  <2> HIDE DEF l, h, born
  <2>5. /\ DOMAIN r = DOMAIN l /\ r.filed = l.filed /\ DOMAIN r.val = DOMAIN l.val
        /\ r.born = l.born \cup {NewDoc}
    BY <2>3, <2>4 DEF ServerShape
  <2>6. NewDoc \in Docs
    BY <2>1, LeastDoc
  <2> QED BY SMTT(60), <2>3, <2>5, <2>6 DEF Grows, ServerShape
<1> HIDE DEF R
<1>3. Continues /\ srv' \in R \cup {srv}
  BY <1>1, RefusalIs
<1>4. Grows(srv')
  BY <1>2, <1>3 DEF Grows
<1> QED BY SMTT(60), <1>1, <1>3, <1>4, LastStep, GrowthKeeps DEF Grows

LEMMA RequestStep ==
  ASSUME HandlerInv, Requested
  PROVE  HandlerInv' /\ KeptStep
BY FolderStep, RemovalStep, LinkStep, UnfileStep, FilenameStep, PutStep, CreateStep
   DEF Requested

(***************************************************************************)
(* The theorem.                                                            *)
(***************************************************************************)
LEMMA HandlerInit == Init => HandlerInv
<1> SUFFICES ASSUME Init PROVE HandlerInv
  OBVIOUS
<1>1. ServerShape(srv)
  BY DEF Init, ServerInit, ServerShape
<1>2. HandlerShape /\ GhostShape /\ fs.pc = "idle"
  BY DEF Init, FsIdle, HandlerShape, GhostShape
<1> QED BY <1>1, <1>2 DEF HandlerInv, Shapes, Elsewhere, LinkedFirst, ReplacedFirst

LEMMA HandlerNext ==
  ASSUME HandlerInv, PathsIndexed, [Next]_vars
  PROVE  HandlerInv' /\ (fs' # fs => srv' = srv \/ KeptStep)
<1>1. CASE Next
  BY <1>1, PeerStep, UserStep, RequestStep, HandledStep, RefreshStep DEF Next
<1>2. CASE UNCHANGED vars
  BY <1>2, SameStep DEF vars
<1> QED BY <1>1, <1>2

\* While the tables tell the folder each file is shown in, no move, removal or
\* replacement by this mount, and no failure halfway through one (writes.rs
\* rename_ws, unlink_ws), leaves a document filed nowhere.
THEOREM DocumentsKept == Spec /\ []PathsIndexed => MovesKeepDocuments
<1> DEFINE Step == \A d \in Docs \ ghost.touched : fs' # fs /\ Alive(d) /\ ~Alive(d)' =>
             \/ fs.pc = "empty"
             \/ /\ fs.pc = "supersede" /\ d = fs.doc
                /\ \/ fs.into = d \/ fs.into \in ghost.touched
                   \/ Alive(fs.into)' /\ srv.val[fs.into]' = fs.val
             \/ <<fs.ino, d>> \in ghost.astray
<1>1. HandlerInv /\ PathsIndexed /\ [Next]_vars => HandlerInv' /\ [Step]_vars
  <2> SUFFICES ASSUME HandlerInv, PathsIndexed, [Next]_vars PROVE HandlerInv' /\ Step
    OBVIOUS
  <2>1. HandlerInv' /\ (fs' # fs => srv' = srv \/ KeptStep)
    BY HandlerNext
  <2>2. CASE fs' = fs
    BY <2>1, <2>2
  <2>3. CASE srv' = srv
    BY <2>1, <2>3 DEF Alive
  <2>4. CASE KeptStep /\ fs' # fs
    BY <2>1, <2>4 DEF KeptStep
  <2> QED BY <2>1, <2>2, <2>3, <2>4
<1> QED BY <1>1, HandlerInit, PTL DEF Spec, MovesKeepDocuments
============================================================================
