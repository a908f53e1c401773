---------------------------- MODULE WorkspaceView ----------------------------
(***************************************************************************)
(* A live mount of a workspace: its trees of folders and its trash, the    *)
(* write path that works on them (writes.rs, the `_ws` functions), the     *)
(* refresh (worker.rs refresh_workspace) and the tables of state.rs that   *)
(* tell which folder and which document an inode stands for.               *)
(*                                                                         *)
(* One file operation is up to three requests, and the tables change only  *)
(* after the last of them: each request, and the rest of the handler, is a *)
(* step.  The refresh keeps the `sync` mutex from its first listing to its *)
(* last, so it meets open files and other clients but no other handler.    *)
(***************************************************************************)
EXTENDS ViewTree

CONSTANTS
  Trash,           \* the inode of the Trash folder
  Places,          \* bound: the folders there may be, each a tree and a path in it
  DefaultTree,     \* the tree whose hidden folder is the trash
  ContextTrees,    \* the trees that list a document in every folder above it, too
  MaxEvents,       \* bound: the user's operations on names
  MaxOthers,       \* bound: the changes of other clients, and failed requests
  MaxVal,          \* bound: contents ever written
  MaxOpen          \* bound: files open for writing at a time

Trees == {p[1] : p \in Places}
RootOf(t) == <<t, <<>>>>
Child(p, b) == <<p[1], Append(p[2], b)>>
ParentOf(p) == <<p[1], Front(p[2])>>
Leaf(p) == Last(p[2])
IsRoot(p) == p[2] = <<>>
AtOrBelow(r, p) == r[1] = p[1] /\ IsPrefix(p[2], r[2])
Folders == {Leaf(p) : p \in {q \in Places : ~IsRoot(q)}}

ASSUME WorkspaceViewAssumption ==
  /\ Trash \in Inos \ {Root}
  /\ \A p \in Places : IF IsRoot(p) THEN TRUE ELSE ParentOf(p) \in Places
  /\ Trees \cup Folders \subseteq Bases /\ Trees \cap Folders = {}
  /\ DefaultTree \in Trees /\ ContextTrees \subseteq Trees
  /\ {MaxEvents, MaxOthers, MaxVal, MaxOpen} \subseteq Nat

VARIABLES
  srv,      \* the server: trees, folders, where each document is filed
  view,     \* Tree: nodes, trees, path_inos, file_docs
  open,     \* WriteStore.states with the overlay of pending creates
  fs,       \* the handler the session thread is in, when it asks the server
  work,     \* the refresh's place
  ghost,    \* history the properties talk about; no action reads it
  spent     \* how much of each bound is used

vars == <<srv, view, open, fs, work, ghost, spent>>

Vals == 0..MaxVal
Titles == Bases \ (Trees \cup Folders)

TrashPlace == <<DefaultTree, <<".trash">>>>

\* Where r comes to be when the folder p is moved to q.
Moved(r, p, q) == <<q[1], q[2] \o SubSeq(r[2], Len(p[2]) + 1, Len(r[2]))>>

NoFile == [doc |-> NoDoc]
WsFiles == [doc : Docs, place : Places \cup {TrashPlace}]

\* An OpenWrite: doc = NoDoc is FlushTarget::WsCreate, another WsExisting.
Handles ==
  [doc : Docs \cup {NoDoc}, place : Places \cup {TrashPlace}, dir : Inos, name : Names,
   buf : Vals, dirty : BOOLEAN, entry : {"none", "listed", "hidden"}]
NoHandle == [doc |-> NoDoc]

\* `doc` at `place` is what the handler works on; the entry `ino` goes to the
\* folder `dir`, which is `to`, under the name `name`; the entry `over` is replaced,
\* and `into` is the document it stood for when the handler looked.
NoPlace == <<>>
FsIdle == [pc |-> "idle", out |-> "none", ino |-> NoIno, doc |-> NoDoc, place |-> NoPlace,
           dir |-> NoIno, to |-> NoPlace, name |-> NoName, over |-> NoIno, into |-> NoDoc,
           val |-> 0, final |-> FALSE]
Requests ==
  [pc : {"idle", "mkdir", "rmdir", "mvdir", "unlink", "empty", "link", "name", "unfile",
         "filename", "replace", "refile", "supersede", "flush"},
   out : {"none", "ok", "error"}, ino : Inos \cup {NoIno}, doc : Docs \cup {NoDoc},
   place : Places \cup {TrashPlace, NoPlace}, dir : Inos \cup {NoIno},
   to : Places \cup {NoPlace}, name : Names \cup {NoName}, over : Inos \cup {NoIno},
   into : Docs \cup {NoDoc}, val : Vals, final : BOOLEAN]

TypeOK ==
  /\ srv.trees \subseteq Trees /\ srv.dirs \subseteq Places /\ srv.born \subseteq Docs
  /\ srv.filed \in [Docs -> SUBSET (Places \cup {TrashPlace})]
  /\ srv.base \in [Docs -> Titles] /\ srv.val \in [Docs -> Vals]
  /\ view.t \in TreesOf(Vals)
  /\ view.root \in [Trees -> Inos \cup {NoIno}]
  /\ view.path \in [Places -> Inos \cup {NoIno}]
  /\ view.file \in [Inos -> WsFiles \cup {NoFile}]
  /\ open \in [Inos -> Handles \cup {NoHandle}]
  /\ \A i \in Inos : open[i] # NoHandle /\ open[i].entry = "listed" => open[i].doc = NoDoc
  /\ fs \in Requests
  /\ work.pc \in {"idle", "paths", "trash", "list", "docs"}
  /\ work.trees \subseteq Trees /\ work.places \subseteq Places

WorkIdle == [pc |-> "idle", trees |-> {}, places |-> {}]

Bound == [events |-> MaxEvents, others |-> MaxOthers, val |-> MaxVal]
Spend(S) ==
  /\ \A w \in S : spent[w] < Bound[w]
  /\ spent' = [w \in DOMAIN spent |-> IF w \in S THEN spent[w] + 1 ELSE spent[w]]
Fresh == spent.val + 1

Idling == fs.pc = "idle"
SyncFree == Idling /\ work.pc = "idle"

OpenInos == {i \in Inos : open[i] # NoHandle}

\* Inodes something refers to, whatever the tree says of them.
Held(v) ==
  OpenInos \cup {open[i].dir : i \in OpenInos} \cup {fs.ino, fs.over, fs.dir}
    \cup {v.path[p] : p \in Places} \cup {i \in Inos : v.file[i] # NoFile}

Pending(dir, n) ==
  {i \in OpenInos : open[i].entry = "listed" /\ open[i].dir = dir /\ open[i].name = n}

(***************************************************************************)
(* The tables of the tree.  What is at the end of a path is what the names *)
(* along it lead to; path_inos keeps that for every folder, and file_docs  *)
(* the folder and the document of every file.                              *)
(***************************************************************************)
Walk(v, p) ==
  LET step(i, b) == LET j == Lookup(v.t, i, Plain(b)) IN
        IF i # NoIno /\ j # NoIno /\ v.t.node[j].dir THEN j ELSE NoIno
  IN  FoldLeft(step, v.root[p[1]], p[2])

\* rename_tree_path, move_tree_path_node, move_tree_file: the index of a tree anew.
Reindexed(v, t) ==
  IF v.root[t] = NoIno THEN v
  ELSE LET walk == [p \in Places |-> IF p[1] = t THEN Walk(v, p) ELSE v.path[p]]
           folder(i) == {p \in Places : p[1] = t /\ walk[p] # NoIno /\ Exists(v.t, i)
                           /\ walk[p] = v.t.node[i].up /\ Reachable(v.t, i)}
       IN  [v EXCEPT !.path = walk,
                     !.file = [i \in Inos |->
                        IF @[i] # NoFile /\ folder(i) # {}
                          THEN [@[i] EXCEPT !.place = <<@[1], (CHOOSE p \in folder(i) : TRUE)[2]>>]
                        ELSE @[i]]]

\* Entries of inodes that have no node any more.
Pruned(v) ==
  [v EXCEPT !.path = [p \in Places |-> IF Exists(v.t, @[p]) THEN @[p] ELSE NoIno],
            !.file = [i \in Inos |-> IF Exists(v.t, i) THEN @[i] ELSE NoFile]]

WithoutFolder(v, i) == [v EXCEPT !.t = RemoveNode(RemoveSubtree(@, i), i)]
WithoutFile(v, i) == [v EXCEPT !.t = RemoveNode(@, i), !.file[i] = NoFile]

AdoptTreeDir(v, dir, p) ==
  LET i == AllocIno(v.t, Held(v)) IN
  [v EXCEPT !.path[p] = i,
            !.t = InsertNode(@, i, [up |-> dir, name |-> Plain(Leaf(p)), dir |-> TRUE, val |-> 0])]

AdoptTreeFile(v, i, dir, n, p, d, content) ==
  [v EXCEPT !.file[i] = [doc |-> d, place |-> p],
            !.t = InsertNode(@, i, [up |-> dir, name |-> n, dir |-> FALSE, val |-> content])]

MoveTreeFile(v, i, dir, n, from, to) ==
  LET moved == [v EXCEPT !.t = MoveEntry(@, i, dir, n), !.file[i].place[1] = to]
  IN  Reindexed(Reindexed(moved, to), from)

\* Slip: the index is left as it was.
MoveUnindexed(v, i, dir, n, t) == [v EXCEPT !.t = MoveEntry(@, i, dir, n)]

MoveTreePathNode(v, i, dir, n, t) == Reindexed([v EXCEPT !.t = MoveEntry(@, i, dir, n)], t)

(***************************************************************************)
(* The server.  A document it has given an id is alive while it is filed   *)
(* somewhere, be it in the trash.  Bound: other clients leave alone what   *)
(* is filed nowhere.                                                       *)
(***************************************************************************)
Alive(d) == d \in srv.born /\ srv.filed[d] # {}
HasFolder(p) == p = TrashPlace \/ (p[1] \in srv.trees /\ p \in srv.dirs)
NextDoc == Docs \ srv.born
NewDoc == CHOOSE d \in NextDoc : \A e \in NextDoc : d <= e

\* list_tree_documents: what is filed in the folder, and what a context tree
\* shows of the folders below it.
Listed(p) ==
  {d \in Docs : \E r \in srv.filed[d] \ {TrashPlace} :
     r = p \/ (p[1] \in ContextTrees /\ AtOrBelow(r, p))}

WithDirs(s, p) == [s EXCEPT !.dirs = @ \cup {r \in Places : AtOrBelow(p, r)}]
WithoutDirs(s, p) ==
  [s EXCEPT !.dirs = {r \in @ : ~AtOrBelow(r, p)},
            !.filed = [d \in Docs |-> {r \in @[d] : r = TrashPlace \/ ~AtOrBelow(r, p)}]]
Link(s, d, p) == [s EXCEPT !.filed[d] = @ \cup {p}]

\* trashIfOrphaned: the last placement goes to the trash instead.
Unlink(s, d, p, trash) ==
  [s EXCEPT !.filed[d] = IF trash /\ @ = {p} THEN {TrashPlace} ELSE @ \ {p}]

Fits(p, q) ==
  \A r \in Places : AtOrBelow(r, p) /\ (r \in srv.dirs \/ view.path[r] # NoIno)
                      => Moved(r, p, q) \in Places
CanMoveDir(p, q) ==
  HasFolder(p) /\ HasFolder(ParentOf(q)) /\ ~HasFolder(q) /\ Fits(p, q)
MoveDir(s, p, q) ==
  LET to(r) == IF r # TrashPlace /\ AtOrBelow(r, p) THEN Moved(r, p, q) ELSE r IN
  [s EXCEPT !.dirs = {to(r) : r \in @}, !.filed = [d \in Docs |-> {to(r) : r \in @[d]}]]

\* History: the documents another client changed since the handler began.
Touched(S) == IF fs.pc = "idle" THEN ghost ELSE [ghost EXCEPT !.touched = @ \cup S]
FiledBelow(p) == {d \in Docs : \E r \in srv.filed[d] \ {TrashPlace} : AtOrBelow(r, p)}

Peer == Spend({"others"}) /\ UNCHANGED <<view, open, fs, work>>

PeerFiles(d, p) ==
  /\ Peer /\ Alive(d) /\ HasFolder(p) /\ p \notin srv.filed[d]
  /\ srv' = Unlink(Link(srv, d, p), d, TrashPlace, FALSE)      \* or restores
  /\ ghost' = Touched({d})

PeerUnfiles(d, p) ==
  /\ Peer /\ p \in srv.filed[d] \ {TrashPlace}
  /\ srv' = Unlink(srv, d, p, TRUE)
  /\ ghost' = Touched({d})

PeerRenames(d, b) ==
  /\ Peer /\ Alive(d) /\ b # srv.base[d]
  /\ srv' = [srv EXCEPT !.base[d] = b]
  /\ UNCHANGED ghost

PeerMakesDir(p) ==
  /\ Peer /\ ~IsRoot(p) /\ ~HasFolder(p) /\ HasFolder(ParentOf(p))
  /\ srv' = [srv EXCEPT !.dirs = @ \cup {p}]
  /\ UNCHANGED ghost

PeerRemovesDir(p) ==
  /\ Peer /\ ~IsRoot(p) /\ HasFolder(p)
  /\ srv' = WithoutDirs(srv, p)
  /\ ghost' = Touched(FiledBelow(p))

PeerMovesDir(p, q) ==
  /\ Peer /\ ~IsRoot(p) /\ ~IsRoot(q) /\ p[1] = q[1] /\ ~AtOrBelow(q, p) /\ CanMoveDir(p, q)
  /\ srv' = MoveDir(srv, p, q)
  /\ ghost' = Touched(FiledBelow(p))

\* A tree is created with its root alone, and deleted with all there is in it.
PeerTogglesTree(t) ==
  /\ Peer /\ t # DefaultTree
  /\ srv' = IF t \in srv.trees
              THEN [WithDirs(WithoutDirs(srv, RootOf(t)), RootOf(t)) EXCEPT !.trees = @ \ {t}]
              ELSE [srv EXCEPT !.trees = @ \cup {t}]
  /\ ghost' = Touched(FiledBelow(RootOf(t)))

(***************************************************************************)
(* The user.  PathsIndexed says that path_inos[p] is the folder seen at p. *)
(***************************************************************************)
DirOf(p) == IF p = TrashPlace THEN Trash ELSE view.path[p]
FileAt(p, n) ==
  LET i == Lookup(view.t, DirOf(p), n) IN
  IF DirOf(p) # NoIno /\ i # NoIno /\ view.file[i] # NoFile THEN i ELSE NoIno
Free(dir, n) == dir # NoIno /\ Lookup(view.t, dir, n) = NoIno

User == Spend({"events"}) /\ UNCHANGED <<srv, view, work>>
Ask(request) == fs' = request /\ UNCHANGED <<open, ghost>>

Mkdir(p) ==
  /\ User /\ SyncFree
  /\ ~IsRoot(p) /\ Free(DirOf(ParentOf(p)), Plain(Leaf(p)))
  /\ Ask([FsIdle EXCEPT !.pc = "mkdir", !.to = p, !.dir = DirOf(ParentOf(p))])

Rmdir(p) ==
  /\ User /\ SyncFree
  /\ ~IsRoot(p) /\ DirOf(p) # NoIno
  /\ Ask([FsIdle EXCEPT !.pc = "rmdir", !.place = p, !.ino = DirOf(p)])

\* Within a tree, and not below itself (the kernel sees to that).
MoveFolder(p, q) ==
  /\ User /\ SyncFree
  /\ ~IsRoot(p) /\ ~IsRoot(q) /\ p[1] = q[1] /\ ~AtOrBelow(q, p) /\ Fits(p, q)
  /\ DirOf(p) # NoIno /\ Free(DirOf(ParentOf(q)), Plain(Leaf(q)))
  /\ Ask([FsIdle EXCEPT !.pc = "mvdir", !.ino = DirOf(p), !.place = p, !.to = q,
                        !.dir = DirOf(ParentOf(q))])

\* unlink_ws: in the trash it is the permanent one.
RemoveFile(p, n) ==
  LET i == FileAt(p, n)  f == view.file[FileAt(p, n)] IN
  /\ User /\ SyncFree
  /\ Pending(DirOf(p), n) = {} /\ i # NoIno /\ view.root[f.place[1]] # NoIno
  /\ Ask([FsIdle EXCEPT !.pc = IF f.place = TrashPlace THEN "empty" ELSE "unlink",
                        !.ino = i, !.doc = f.doc, !.place = f.place])

\* rename_ws of a file into another folder: link, perhaps a new name, unfile.
MoveFile(p, n, q, m) ==
  LET i == FileAt(p, n)  f == view.file[FileAt(p, n)] IN
  /\ User /\ SyncFree
  /\ p # q /\ Pending(DirOf(p), n) = {} /\ i # NoIno /\ view.root[f.place[1]] # NoIno
  /\ Free(DirOf(q), m)
  /\ Ask([FsIdle EXCEPT !.pc = "link", !.ino = i, !.doc = f.doc, !.place = f.place,
                        !.to = q, !.dir = DirOf(q), !.name = m])

\* In its own folder it takes a free name, or the place of another document,
\* which then gets its content.
RenameFile(p, n, m) ==
  LET i == FileAt(p, n)  f == view.file[FileAt(p, n)]  over == FileAt(p, m) IN
  /\ User /\ SyncFree
  /\ n # m /\ Pending(DirOf(p), n) = {} /\ i # NoIno /\ view.root[f.place[1]] # NoIno
  /\ \/ /\ Free(DirOf(p), m)
        /\ Ask([FsIdle EXCEPT !.pc = "filename", !.ino = i, !.doc = f.doc, !.place = f.place,
                              !.name = m])
     \/ /\ over # NoIno
        /\ Ask([FsIdle EXCEPT !.pc = "replace", !.ino = i, !.doc = f.doc, !.place = f.place,
                              !.name = m, !.over = over, !.into = view.file[over].doc,
                              !.val = view.t.node[i].val])

(* Open files.                                                              *)
Local == UNCHANGED <<srv, view, work>>

OpenExisting(p, n) ==
  LET i == FileAt(p, n)  f == view.file[FileAt(p, n)] IN
  /\ Idling /\ Spend({"events"}) /\ Local /\ UNCHANGED <<fs, ghost>>
  /\ i # NoIno /\ open[i] = NoHandle /\ view.root[f.place[1]] # NoIno
  /\ Cardinality(OpenInos) < MaxOpen
  /\ open' = [open EXCEPT ![i] = [doc |-> f.doc, place |-> f.place, dir |-> DirOf(p), name |-> n,
                                  buf |-> view.t.node[i].val, dirty |-> FALSE, entry |-> "none"]]

Create(p, b) ==
  LET i == AllocIno(view.t, Held(view)) IN
  /\ Idling /\ Spend({"events"}) /\ Local /\ UNCHANGED <<fs, ghost>>
  /\ p # TrashPlace /\ Free(DirOf(p), Plain(b)) /\ Pending(DirOf(p), Plain(b)) = {}
  /\ Cardinality(OpenInos) < MaxOpen
  /\ open' = [open EXCEPT ![i] = [doc |-> NoDoc, place |-> p, dir |-> DirOf(p), name |-> Plain(b),
                                  buf |-> 0, dirty |-> TRUE, entry |-> "listed"]]

Write(i) ==
  /\ Idling /\ Spend({"val"}) /\ Local /\ UNCHANGED <<fs, ghost>>
  /\ open[i] # NoHandle
  /\ open' = [open EXCEPT ![i] = [@ EXCEPT !.buf = Fresh, !.dirty = TRUE]]

\* The rm of a pending create is a local matter.
DropPending(p, n) ==
  /\ SyncFree /\ Spend({"events"}) /\ Local /\ UNCHANGED <<fs, ghost>>
  /\ DirOf(p) # NoIno /\ Pending(DirOf(p), n) # {}
  /\ open' = [i \in Inos |-> IF i \in Pending(DirOf(p), n) THEN NoHandle ELSE open[i]]

\* So is its rename; over a document it becomes an update of that document.
RenamePending(p, n, q, m) ==
  LET over == FileAt(q, m)  moving == Pending(DirOf(p), n) IN
  /\ SyncFree /\ Spend({"events"}) /\ Local /\ UNCHANGED <<fs, ghost>>
  /\ DirOf(p) # NoIno /\ DirOf(q) # NoIno /\ q # TrashPlace
  /\ moving # {} /\ <<p, n>> # <<q, m>>
  /\ open' = [i \in Inos |->
       IF i \in moving
         THEN IF over # NoIno
                THEN [open[i] EXCEPT !.doc = view.file[over].doc, !.place = q, !.dir = DirOf(q),
                                     !.name = m, !.dirty = TRUE, !.entry = "hidden"]
              ELSE [open[i] EXCEPT !.place = q, !.dir = DirOf(q), !.name = m]
       ELSE IF over = NoIno /\ i \in Pending(DirOf(q), m)
         THEN [open[i] EXCEPT !.entry = "hidden"]
       ELSE open[i]]

\* flush_inner: nothing to send, or an empty create that waits for the close.
NothingToSend(h, final) == ~h.dirty \/ (~final /\ h.doc = NoDoc /\ h.buf = 0)

FlushFile(i, final) ==
  /\ SyncFree /\ open[i] # NoHandle /\ ~NothingToSend(open[i], final)
  /\ fs' = [FsIdle EXCEPT !.pc = "flush", !.ino = i, !.final = final]
  /\ open' = [open EXCEPT ![i].dirty = FALSE]
  /\ Local /\ UNCHANGED <<ghost, spent>>

\* The last handle of a clean file is closed; a dirty one is flushed first.
Release(i) ==
  /\ SyncFree /\ open[i] # NoHandle /\ NothingToSend(open[i], TRUE)
  /\ open' = [open EXCEPT ![i] = NoHandle]
  /\ Local /\ UNCHANGED <<fs, ghost, spent>>

(***************************************************************************)
(* Requests.  Each is done and answered, refused, or fails on the way      *)
(* there or back.  To file a document in a folder the server no longer has *)
(* is refused, or brings the folder back: the client relies on neither.    *)
(***************************************************************************)
Asking(pc) == fs.pc = pc /\ fs.out = "none"
AtServer == UNCHANGED <<view, open, work, ghost>>

Answered(results) ==
  /\ AtServer
  /\ \/ \E s \in results : srv' = s /\ fs' = [fs EXCEPT !.out = "ok"] /\ UNCHANGED spent
     \/ /\ results = {} /\ fs' = [fs EXCEPT !.out = "error"] /\ UNCHANGED <<srv, spent>>
     \/ /\ Spend({"others"}) /\ fs' = [fs EXCEPT !.out = "error"]
        /\ srv' \in results \cup {srv}

\* What a server that has to file something in p may have become before.
WithPlace(p) ==
  IF HasFolder(p) THEN {srv}
  ELSE IF p[1] \in srv.trees THEN {WithDirs(srv, p)} ELSE {}
OrRefused(p, results) ==
  IF HasFolder(p) THEN Answered(results) ELSE Answered(results) \/ Answered({})

If(possible, s) == IF possible THEN {s} ELSE {}

InsertTreePath ==
  /\ Asking("mkdir")
  /\ Answered(If(HasFolder(ParentOf(fs.to)), [srv EXCEPT !.dirs = @ \cup {fs.to}]))

\* recursive = false
RemoveTreePath ==
  /\ Asking("rmdir")
  /\ Answered(If(/\ HasFolder(fs.place) /\ FiledBelow(fs.place) = {}
                 /\ \A r \in srv.dirs : AtOrBelow(r, fs.place) => r = fs.place,
                 [srv EXCEPT !.dirs = @ \ {fs.place}]))

MoveTreePath ==
  /\ Asking("mvdir")
  /\ Answered(If(CanMoveDir(fs.place, fs.to), MoveDir(srv, fs.place, fs.to)))

\* rm detaches; in the trash it destroys.
RemoveDocument ==
  \/ /\ Asking("unlink")
     /\ Answered(If(HasFolder(fs.place), Unlink(srv, fs.doc, fs.place, TRUE)))
  \/ /\ Asking("empty")
     /\ Answered(If(TrashPlace \in srv.filed[fs.doc], [srv EXCEPT !.filed[fs.doc] = {}]))

LinkDocument ==
  /\ Asking("link")
  /\ OrRefused(fs.to, IF Alive(fs.doc) THEN {Link(s, fs.doc, fs.to) : s \in WithPlace(fs.to)}
                      ELSE {})

\* The source of a move, and the document a replacing rename made superfluous.
UnfileDocument ==
  /\ Asking("unfile") \/ Asking("supersede")
  /\ Answered(If(HasFolder(fs.place), Unlink(srv, fs.doc, fs.place, FALSE)))

\* ws_set_filename's GET and PUT: of the file itself, or of the one it replaced.
Named == IF fs.pc = "refile" THEN fs.into ELSE fs.doc
SetFilename ==
  /\ Asking("name") \/ Asking("filename") \/ Asking("refile")
  /\ Answered(If(Alive(Named), [srv EXCEPT !.base[Named] = fs.name[1]]))

\* flush_ws_update's GET and PUT, of a replacing rename and of a save.
PutContent(d, content) == Answered(If(Alive(d), [srv EXCEPT !.val[d] = content]))
ReplaceContent == Asking("replace") /\ PutContent(fs.into, fs.val)
FlushUpdate ==
  LET h == open[fs.ino] IN
  /\ Asking("flush") /\ h.doc # NoDoc
  /\ PutContent(h.doc, h.buf)

\* flush_ws_create's upload and POST.
FlushCreate ==
  LET h == open[fs.ino]
      born(s) == [Link(s, NewDoc, h.place) EXCEPT !.born = @ \cup {NewDoc},
                    !.base[NewDoc] = h.name[1], !.val[NewDoc] = h.buf]
      results == IF NextDoc = {} THEN {} ELSE {born(s) : s \in WithPlace(h.place)} IN
  /\ Asking("flush") /\ h.doc = NoDoc
  /\ OrRefused(h.place, results)

(***************************************************************************)
(* What the handlers do with the answers.                                  *)
(***************************************************************************)
Told(pc) == fs.pc = pc /\ fs.out = "ok" /\ UNCHANGED <<srv, work, spent>>
Then(pc) == fs' = [fs EXCEPT !.pc = pc, !.out = "none"]
DoneAstray(S) == fs' = FsIdle /\ ghost' = [touched |-> {}, astray |-> ghost.astray \cup S]
Done == DoneAstray({})

Linked ==
  /\ Told("link") /\ UNCHANGED <<view, open, ghost>>
  /\ Then(IF fs.name # view.t.node[fs.ino].name THEN "name" ELSE "unfile")

Renamed == Told("name") /\ Then("unfile") /\ UNCHANGED <<view, open, ghost>>

FileMoved ==
  /\ Told("unfile") /\ Done /\ UNCHANGED open
  /\ view' = MoveTreeFile(view, fs.ino, fs.dir, fs.name, fs.place[1], fs.to[1])

DirMade ==
  /\ Told("mkdir") /\ Done /\ UNCHANGED open
  /\ view' = AdoptTreeDir(view, fs.dir, fs.to)

DirRemoved ==
  /\ Told("rmdir") /\ Done /\ UNCHANGED open
  /\ view' = Pruned(WithoutFolder(view, fs.ino))

FolderMoved ==
  /\ Told("mvdir") /\ Done /\ UNCHANGED open
  /\ view' = MoveTreePathNode(view, fs.ino, fs.dir, Plain(Leaf(fs.to)), fs.place[1])

FileRemoved ==
  /\ Told("unlink") \/ Told("empty")
  /\ Done
  /\ view' = WithoutFile(view, fs.ino)
  /\ open' = [open EXCEPT ![fs.ino] = NoHandle]

FileRenamed ==
  /\ Told("filename") /\ Done /\ UNCHANGED open
  /\ view' = [view EXCEPT !.t = RenameEntry(@, fs.ino, fs.name)]

\* ws_ino_for_doc: a file of that document in that folder, one of them.
WithContent(v, p, d, content) ==
  LET shown == {i \in Inos : v.file[i] # NoFile /\ v.file[i].place = p /\ v.file[i].doc = d} IN
  IF shown = {} THEN {v} ELSE {[v EXCEPT !.t = SetContent(@, i, content)] : i \in shown}

Replaced ==
  /\ Told("replace") /\ Then("refile") /\ UNCHANGED <<open, ghost>>
  /\ view' \in WithContent(view, fs.place, fs.into, fs.val)

Refiled == Told("refile") /\ Then("supersede") /\ UNCHANGED <<view, open, ghost>>

\* The source's inode, which the kernel has under the new name, becomes the
\* replaced document's file, and so does its open handle.
Superseded ==
  LET i == fs.ino  d == fs.into  v == WithoutFile(view, fs.over) IN
  /\ Told("supersede")
  /\ DoneAstray(If(<<i, fs.doc>> \in ghost.astray, <<i, d>>))
  /\ view' = [v EXCEPT !.t = SetContent(RenameEntry(@, i, fs.name), i, fs.val), !.file[i].doc = d]
  /\ open' = IF open[i] = NoHandle THEN open
             ELSE [open EXCEPT ![i] = [@ EXCEPT !.doc = d, !.place = fs.place]]

\* A create's first save makes it an ordinary file.  Slip: it stays an overlay entry.
CreatedListed(h, d) == [h EXCEPT !.doc = d]

Created(h, d) == [h EXCEPT !.doc = d, !.entry = "none"]

Flushed ==
  LET i == fs.ino  h == open[fs.ino]  d == CHOOSE e \in srv.born : \A f \in srv.born : f <= e IN
  /\ Told("flush")
  /\ IF h.doc # NoDoc
       THEN /\ view' \in WithContent(view, h.place, h.doc, h.buf)
            /\ open' = IF fs.final THEN [open EXCEPT ![i] = NoHandle] ELSE open
            /\ Done
       ELSE /\ view' = AdoptTreeFile(view, i, h.dir, h.name, h.place, d, h.buf)
            /\ open' = [j \in Inos |->
                 IF j = i THEN IF fs.final THEN NoHandle ELSE Created(h, d)
                 ELSE IF j \in Pending(h.dir, h.name) THEN [open[j] EXCEPT !.entry = "hidden"]
                 ELSE open[j]]
            /\ DoneAstray(If(view.path[h.place] # h.dir, <<i, d>>))

\* Every handler returns the error and leaves the tables alone; a failed save
\* keeps its data unless the file is closed.
GivesUp ==
  /\ fs.out = "error" /\ Done
  /\ open' = IF fs.pc # "flush" THEN open
             ELSE [open EXCEPT ![fs.ino] = IF fs.final THEN NoHandle ELSE [@ EXCEPT !.dirty = TRUE]]
  /\ UNCHANGED <<srv, view, work, spent>>

\* Slip: a link that failed is taken for done.
LinkErrorDropped ==
  \/ fs.pc # "link" /\ GivesUp
  \/ /\ fs.pc = "link" /\ fs.out = "error" /\ Then("unfile")
     /\ UNCHANGED <<srv, view, open, work, ghost, spent>>

RequestFailed == GivesUp

(***************************************************************************)
(* The refresh: trees, the folders of each, the trash, the documents of    *)
(* each folder.  A listing and what is made of it are one step: nobody     *)
(* else changes the tree meanwhile, and a change at the server after the   *)
(* listing is a change after the step.                                     *)
(***************************************************************************)
Refresh == UNCHANGED <<srv, open, fs, ghost>>
At(pc) == work.pc = pc

\* The names of a listing; each document the first time by its plain name.
NamesOf(S, here) == AssignNames(S, srv.base, here, [d \in Docs |-> NoName])

WithoutFiles(v, left) == FoldSet(LAMBDA i, u : WithoutFile(u, i), v, left)

\* The documents of a listing whose name nothing holds yet.
WithFiles(v, dir, p, S, named) ==
  LET show(u, d) ==
        IF Lookup(u.t, dir, named[d]) # NoIno THEN u
        ELSE AdoptTreeFile(u, AllocIno(u.t, Held(u)), dir, named[d], p, d, srv.val[d])
  IN  FoldLeft(show, v, SetToSortSeq(S, <))

\* Slip: an entry stays as long as its name does.
KeptByName(v, i, S, named) == \E d \in S : named[d] = v.t.node[i].name

\* An entry stays if it is the document the listing names so.
Kept(v, i, S, named) ==
  v.file[i].doc \in S /\ named[v.file[i].doc] = v.t.node[i].name

ApplyTreeDocuments(v, p) ==
  LET dir == v.path[p]
      S == Listed(p)
      named == NamesOf(S, {d \in S : p \in srv.filed[d]})
      files == {i \in Inos : \E n \in Names : v.t.kids[dir][n] = i /\ v.file[i] # NoFile}
      stays == {i \in files : Kept(v, i, S, named)}
      update(u, i) == [u EXCEPT !.t = SetContent(@, i, srv.val[v.file[i].doc])]
      kept == FoldSet(LAMBDA i, u : update(u, i), v, stays)
  IN  IF dir = NoIno THEN v
      ELSE WithFiles(WithoutFiles(kept, files \ stays), dir, p, S, named)

\* apply_trash_documents: an entry stays if the listing has a document of its name.
ApplyTrashDocuments(v) ==
  LET S == {d \in Docs : TrashPlace \in srv.filed[d]}
      named == NamesOf(S, S)
      left == {v.t.kids[Trash][n] : n \in Names \ {named[d] : d \in S}} \ {NoIno}
  IN  WithFiles(WithoutFiles(v, left), Trash, TrashPlace, S, named)

ApplyTrees(v, live) ==
  LET stale == {t \in Trees \ live : v.root[t] # NoIno}
      drop(u, t) == [WithoutFolder(u, u.root[t]) EXCEPT
                       !.root[t] = NoIno,
                       !.path = [p \in Places |-> IF p[1] = t THEN NoIno ELSE u.path[p]]]
      add(u, t) == LET i == AllocIno(u.t, Held(u)) IN
        [u EXCEPT !.root[t] = i, !.path[RootOf(t)] = i,
                  !.t = InsertNode(@, i, [up |-> Root, name |-> Plain(t), dir |-> TRUE, val |-> 0])]
      kept == FoldSet(LAMBDA t, u : drop(u, t), v, stale)
  IN  Pruned(FoldSet(LAMBDA t, u : add(u, t), kept, {t \in live : v.root[t] = NoIno}))

Depth(p, q) == Len(p[2]) < Len(q[2])

ApplyTreePaths(v, t) ==
  LET wanted == {p \in srv.dirs : p[1] = t} \ {RootOf(t)}
      stale == {p \in Places \ wanted : p[1] = t /\ ~IsRoot(p) /\ v.path[p] # NoIno}
      drop(u, p) == [WithoutFolder(u, u.path[p]) EXCEPT !.path[p] = NoIno]
      add(u, p) == IF u.path[p] # NoIno \/ u.path[ParentOf(p)] = NoIno THEN u
                   ELSE AdoptTreeDir(u, u.path[ParentOf(p)], p)
      kept == FoldSet(LAMBDA p, u : drop(u, p), v, stale)
  IN  IF v.root[t] = NoIno THEN v
      ELSE Pruned(FoldLeft(add, kept, SetToSortSeq(wanted, Depth)))

\* Where the server starts: one folder, all documents but one filed in it.
ServerInit ==
  LET home == CHOOSE p \in Places : p[1] = DefaultTree /\ Len(p[2]) = 1
      first == {d \in Docs : \E e \in Docs : d < e} IN
  [trees |-> Trees, born |-> first, dirs |-> {p \in Places : IsRoot(p)} \cup {home},
   filed |-> [d \in Docs |-> IF d \in first THEN {home} ELSE {}],
   base |-> [d \in Docs |-> CHOOSE title \in Titles : TRUE],
   val |-> [d \in Docs |-> 0]]

\* The Trash folder is beside the trees from the start.
EmptyView ==
  [t |-> [BareTree EXCEPT !.node[Trash] = RootNode],
   root |-> [t \in Trees |-> NoIno], path |-> [p \in Places |-> NoIno],
   file |-> [i \in Inos |-> NoFile]]

\* The first refresh comes before the mount (bound: nothing disturbs it).  `u` is
\* a value, so that no step is evaluated more than once.
Bootstrapped ==
  LET after(op(_, _), v, x) == CHOOSE w \in {op(u, x) : u \in {v}} : TRUE
      trees == FoldSet(LAMBDA t, v : after(ApplyTreePaths, v, t),
                       ApplyTrees(EmptyView, srv.trees), srv.trees)
      trash == after(LAMBDA v, x : ApplyTrashDocuments(v), trees, Trash)
  IN  FoldSet(LAMBDA p, v : after(ApplyTreeDocuments, v, p), trash, srv.dirs)

Init ==
  /\ srv = ServerInit
  /\ open = [i \in Inos |-> NoHandle]
  /\ fs = FsIdle
  /\ view = Bootstrapped
  /\ work = WorkIdle
  /\ ghost = [touched |-> {}, astray |-> {}]
  /\ spent = [events |-> 0, others |-> 0, val |-> 0]

\* refresh_workspace, at an event or at the next resync.  Bound: it takes the trees
\* and the folders in one order, out of those a hash map may give.
StartRefresh ==
  /\ SyncFree /\ Refresh
  /\ view' = ApplyTrees(view, srv.trees)
  /\ work' = [WorkIdle EXCEPT !.pc = IF srv.trees = {} THEN "trash" ELSE "paths", !.trees = srv.trees]
  /\ UNCHANGED spent

Onward(w) ==
  CASE w.pc = "paths" /\ w.trees = {} -> [w EXCEPT !.pc = "trash"]
    [] w.pc = "docs" /\ w.places = {} -> WorkIdle
    [] OTHER -> w

ListingFails == Spend({"others"}) /\ UNCHANGED view

ListTreePaths ==
  LET t == CHOOSE t \in work.trees : TRUE IN
  /\ At("paths") /\ Refresh
  /\ work' = Onward([work EXCEPT !.trees = @ \ {t}])
  /\ \/ t \in srv.trees /\ view' = ApplyTreePaths(view, t) /\ UNCHANGED spent
     \/ t \notin srv.trees /\ UNCHANGED <<view, spent>>
     \/ ListingFails

KnownPaths == {p \in Places : view.path[p] # NoIno}

ListTrash ==
  /\ At("trash") /\ Refresh
  /\ work' = Onward([work EXCEPT !.pc = "docs", !.places = KnownPaths])
  /\ \/ view' = ApplyTrashDocuments(view) /\ UNCHANGED spent
     \/ ListingFails

ListTreeDocuments ==
  LET p == CHOOSE p \in work.places : TRUE IN
  /\ At("docs") /\ Refresh
  /\ work' = Onward([work EXCEPT !.places = @ \ {p}])
  /\ \/ HasFolder(p) /\ view' = ApplyTreeDocuments(view, p) /\ UNCHANGED spent
     \/ ~HasFolder(p) /\ UNCHANGED <<view, spent>>
     \/ ListingFails

(***************************************************************************)
(* Properties.                                                             *)
(***************************************************************************)

\* path_inos has exactly the folders that can be walked to, each under the path
\* of the walk, and a file's record names the folder it is shown in: every request
\* is addressed by them.  (A create that was pending while its folder moved is the
\* exception: it is filed where the folder was.)
PathsIndexed ==
  /\ \A p \in Places : view.path[p] = Walk(view, p)
  /\ \A p \in Places \cup {TrashPlace}, n \in Names :
       LET i == FileAt(p, n) IN
       i # NoIno /\ <<i, view.file[i].doc>> \notin ghost.astray => view.file[i].place = p

\* A document stays filed somewhere, in a folder or in the trash, through every
\* move, removal and replacement by this mount and every failure halfway through,
\* unless others unfile it at that moment.  Only an rm in the trash ends it, and a
\* replacing rename, whose document's content another one has by then.  Excepted
\* are a file that was created in a folder under way and a document that replaces
\* itself.
MovesKeepDocuments ==
  [][\A d \in Docs \ ghost.touched : fs' # fs /\ Alive(d) /\ ~Alive(d)' =>
       \/ fs.pc = "empty"
       \/ /\ fs.pc = "supersede" /\ d = fs.doc
          /\ \/ fs.into = d \/ fs.into \in ghost.touched
             \/ Alive(fs.into)' /\ srv.val[fs.into]' = fs.val
       \/ <<fs.ino, d>> \in ghost.astray]_vars

\* What a mount shows once nobody changes anything any more.
ShownAt(p) ==
  {view.file[i].doc : i \in {Lookup(view.t, view.path[p], n) : n \in Names}
                              \ ({NoIno} \cup {view.path[q] : q \in Places})}
ShowsServer ==
  /\ {t \in Trees : view.root[t] # NoIno} = srv.trees
  /\ KnownPaths = {p \in srv.dirs : p[1] \in srv.trees}
  /\ \A p \in KnownPaths :
       /\ ShownAt(p) = Listed(p)
       /\ \A n \in Names : LET i == FileAt(p, n) IN i # NoIno =>
            /\ view.t.node[i].val = srv.val[view.file[i].doc]
            /\ n \in {Plain(srv.base[view.file[i].doc]),
                      WithIdSuffix(srv.base[view.file[i].doc], view.file[i].doc)}

WorkspaceConverges == <>[]ShowsServer

(***************************************************************************)
(* Next.                                                                   *)
(***************************************************************************)
Peers ==
  \/ \E d \in Docs :
       \/ \E p \in Places : PeerFiles(d, p) \/ PeerUnfiles(d, p)
       \/ \E b \in Titles : PeerRenames(d, b)
  \/ \E p \in Places :
       PeerMakesDir(p) \/ PeerRemovesDir(p) \/ \E q \in Places : PeerMovesDir(p, q)
  \/ \E t \in Trees : PeerTogglesTree(t)

\* Bound: a new name is given without an id suffix.
NewNames == {Plain(b) : b \in Titles}
FilesIn(p) == {n \in Names : FileAt(p, n) # NoIno}

Users ==
  \/ \E p \in Places :
       \/ Mkdir(p) \/ Rmdir(p) \/ \E q \in Places : MoveFolder(p, q)
       \/ \E b \in Titles : Create(p, b)
  \/ \E p \in Places \cup {TrashPlace} :
       \/ \E n \in FilesIn(p) :
            \/ RemoveFile(p, n) \/ OpenExisting(p, n)
            \/ \E q \in Places, m \in NewNames \cup {n} : MoveFile(p, n, q, m)
            \/ \E m \in NewNames : RenameFile(p, n, m)
       \/ \E n \in {open[i].name : i \in OpenInos} :
            \/ DropPending(p, n)
            \/ \E q \in Places, m \in NewNames \cup {n} : RenamePending(p, n, q, m)
  \/ \E i \in Inos : Write(i) \/ Release(i) \/ \E final \in BOOLEAN : FlushFile(i, final)

Requested ==
  \/ InsertTreePath \/ RemoveTreePath \/ MoveTreePath \/ RemoveDocument
  \/ LinkDocument \/ UnfileDocument \/ SetFilename \/ ReplaceContent
  \/ FlushUpdate \/ FlushCreate

Handled ==
  \/ DirMade \/ DirRemoved \/ FolderMoved \/ FileRemoved \/ Linked \/ Renamed \/ FileMoved
  \/ FileRenamed \/ Replaced \/ Refiled \/ Superseded \/ Flushed \/ RequestFailed

Refreshing == StartRefresh \/ ListTreePaths \/ ListTrash \/ ListTreeDocuments

Next == Peers \/ Users \/ Requested \/ Handled \/ Refreshing

Spec == Init /\ [][Next]_vars

\* Every request is answered and every listing too.  The resync timer fires again
\* and again, and the `sync` mutex, eventually fair, lets the refresh in: that is
\* strong fairness of StartRefresh, which is enabled when SyncFree holds and the
\* only step that ends work.pc = "idle".
FairSpec ==
  /\ Spec
  /\ []<>Idling /\ []<>(work.pc = "idle")
  /\ []<>SyncFree => []<>(work.pc # "idle")
==============================================================================
