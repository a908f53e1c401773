----------------------------- MODULE ContextView -----------------------------
(***************************************************************************)
(* A live mount of contexts: the FUSE session thread and its open files    *)
(* (fsimpl.rs, writes.rs), the refresh worker (worker.rs), the nudge       *)
(* thread (nudge.rs), the event socket (events.rs) and the server with its *)
(* other clients, around the tree they share (state.rs).                   *)
(*                                                                         *)
(* The `sync` mutex is held by the worker from the fetch of a listing to   *)
(* its application, and by a handler that asks the server for something;   *)
(* a request and what the mount does with its answer are separate steps,   *)
(* so peers, and whoever does not take the mutex, may come in between.     *)
(***************************************************************************)
EXTENDS ViewTree

CONSTANTS
  Contexts,        \* ids of contexts; as folders they carry them as names
  DeferRemovals,   \* is there a nudge thread (set_deferred_removals)?
  MaxEvents,       \* bound: the user's operations on names, the changes of other
                   \* clients, failed requests, lost replies and connections
  MaxRetries,      \* bound: saves tried again after an error
  MaxVal,          \* bound: contents ever written, by anybody
  MaxOpen          \* bound: files open for writing at a time

ASSUME ContextViewAssumption ==
  /\ Contexts \subseteq Bases
  /\ DeferRemovals \in BOOLEAN
  /\ {MaxEvents, MaxRetries, MaxVal, MaxOpen} \subseteq Nat

VARIABLES
  srv,      \* the server: contexts, what is filed in them, the documents
  view,     \* Tree: nodes, ctx_inos, doc_inos, and the sticky names
  open,     \* WriteStore.states with the overlay of pending creates
  fs,       \* the handler the session thread is in, when it asks the server
  work,     \* the worker's queue and its place
  nudge,    \* unlinks queued for the nudge thread, and its current batch
  sock,     \* the event socket and the subscriptions
  ghost,    \* history the properties talk about; no action reads it
  spent     \* how much of each bound is used

vars == <<srv, view, open, fs, work, nudge, sock, ghost, spent>>

Vals == 0..MaxVal      \* 0 is the empty file
All  == "RefreshAll"

\* An OpenWrite.  doc = NoDoc is FlushTarget::Create; `entry` says whether the
\* overlay still has the file, and whether a lookup finds it there.
Handles ==
  [ctx : Contexts, doc : Docs \cup {NoDoc}, dir : Inos, name : Names,
   buf : Vals, dirty : BOOLEAN, entry : {"none", "listed", "hidden"},
   told : {"nothing", "ok", "error"}]       \* by flush, since the last write
NoHandle == [doc |-> NoDoc]

\* `doc` is the document asked about; a replacing rename moves `from`'s content
\* `val` into it, and the file `ino` takes the place of `over`.
Requests ==
  [pc : {"idle", "flush", "unlink", "filename", "replace", "detach"},
   out : {"none", "ok", "error"}, ctx : Contexts \cup {""}, ino : Inos \cup {NoIno},
   doc : Docs \cup {NoDoc}, from : Docs \cup {NoDoc}, over : Inos \cup {NoIno},
   to : Names \cup {NoName}, val : Vals, final : BOOLEAN]
FsIdle == [pc |-> "idle", out |-> "none", ctx |-> "", ino |-> NoIno, doc |-> NoDoc,
           from |-> NoDoc, over |-> NoIno, to |-> NoName, val |-> 0, final |-> FALSE]

NoListing == [docs |-> {}, here |-> {}, base |-> <<>>, val |-> <<>>]
WorkIdle  == [pc |-> "idle", todo |-> {}, ctx |-> "", got |-> NoListing, gone |-> {}]

TypeOK ==
  /\ srv.live \subseteq Contexts /\ srv.born \subseteq Docs
  /\ srv.filed \in [Contexts -> SUBSET srv.born] /\ srv.here \in [Contexts -> SUBSET Docs]
  /\ srv.base \in [Docs -> Bases] /\ srv.val \in [Docs -> Vals]
  /\ view.t \in TreesOf(Vals)
  /\ view.ctx \in [Contexts -> Inos \cup {NoIno}]
  /\ view.doc \in [Contexts -> [Docs -> Inos \cup {NoIno}]]
  /\ view.sticky \in [Contexts -> [Docs -> Names \cup {NoName}]]
  /\ open \in [Inos -> Handles \cup {NoHandle}]
  /\ fs \in Requests
  /\ work.jobs \subseteq Contexts \cup {All}
  /\ work.at.pc \in {"idle", "list", "contexts", "refresh", "apply", "notify"}
  /\ work.at.todo \subseteq Contexts /\ work.at.ctx \in Contexts \cup {""}
  /\ work.at.got.docs \subseteq Docs /\ work.at.gone \subseteq Inos
  /\ nudge \in [queue : SUBSET (Contexts \X Names), batch : SUBSET (Contexts \X Names)]
  /\ sock \in [up : BOOLEAN, ready : BOOLEAN, subs : SUBSET Contexts,
               confirmed : SUBSET Contexts]

Init ==
  /\ LET first == {d \in Docs : \E e \in Docs : d < e} IN     \* all but the last so far
       srv = [live |-> Contexts, born |-> first,
              filed |-> [c \in Contexts |-> first], here |-> [c \in Contexts |-> first],
              base |-> [d \in Docs |-> CHOOSE b \in Bases : TRUE],
              val |-> [d \in Docs |-> 0]]
  /\ view = [t |-> BareTree, ctx |-> [c \in Contexts |-> NoIno],
             doc |-> [c \in Contexts |-> [d \in Docs |-> NoIno]],
             sticky |-> [c \in Contexts |-> [d \in Docs |-> NoName]]]
  /\ open = [i \in Inos |-> NoHandle]
  /\ fs = FsIdle
  /\ work = [jobs |-> {All}, at |-> WorkIdle]
  /\ nudge = [queue |-> {}, batch |-> {}]
  /\ sock = [up |-> TRUE, ready |-> FALSE, subs |-> {}, confirmed |-> {}]
  /\ ghost = [touched |-> {}, stored |-> {0}]
  /\ spent = [events |-> 0, retries |-> 0, val |-> 0]

Bound == [events |-> MaxEvents, retries |-> MaxRetries, val |-> MaxVal]
Spend(S) ==
  /\ \A w \in S : spent[w] < Bound[w]
  /\ spent' = [w \in DOMAIN spent |-> IF w \in S THEN spent[w] + 1 ELSE spent[w]]
Fresh == spent.val + 1     \* contents are told apart by who wrote them when

SyncFree == fs.pc = "idle" /\ work.at.pc # "apply"

OpenInos == {i \in Inos : open[i] # NoHandle}

\* Inodes something refers to, whatever the tree says of them.
Held ==
  OpenInos \cup {open[i].dir : i \in OpenInos} \cup {Root, fs.ino, fs.over}
    \cup work.at.gone \cup {view.ctx[c] : c \in Contexts}
    \cup UNION {{view.doc[c][d] : d \in Docs} : c \in Contexts}

\* doc_for_ino, and the file under a name of a context's folder.
DocsOf(c, i) == {d \in Docs : view.doc[c][d] = i}
DocOf(c, i) == IF DocsOf(c, i) = {} THEN NoDoc ELSE CHOOSE d \in DocsOf(c, i) : TRUE
FileAt(c, n) == IF view.ctx[c] = NoIno THEN NoIno ELSE Lookup(view.t, view.ctx[c], n)

\* lookup_overlay: the pending create under a name.
Pending(c, n) ==
  {i \in OpenInos : open[i].entry = "listed" /\ open[i].dir = view.ctx[c] /\ open[i].name = n}

\* The doc_inos table without an inode: remove_doc_node, drop_tombstoned.
Unbound(i) ==
  [c \in Contexts |-> [d \in Docs |-> IF view.doc[c][d] = i THEN NoIno ELSE view.doc[c][d]]]

WithoutDocNode(i) ==
  [view EXCEPT !.t = RemoveNode(@, i), !.doc = Unbound(i)]

(***************************************************************************)
(* The server.  A change is announced on the channel of each context that  *)
(* lists the document, to whoever is subscribed to it (events.rs on_any).  *)
(***************************************************************************)
Announce(S) == work' = [work EXCEPT !.jobs = @ \cup (S \cap sock.subs)]

Listing(c) == [docs |-> srv.filed[c], here |-> srv.here[c],
               base |-> srv.base, val |-> srv.val]

FiledIn(d) == {c \in Contexts : d \in srv.filed[c]}
NextDoc == Docs \ srv.born
NewDoc == CHOOSE d \in NextDoc : \A e \in NextDoc : d <= e

Filed(s, c, d, b, v) ==
  [s EXCEPT !.born = @ \cup {d}, !.filed[c] = @ \cup {d}, !.here[c] = @ \cup {d},
            !.base[d] = b, !.val[d] = v]

\* History: every content the server ever had, and the documents somebody else
\* changed since the last listing was fetched.
Stored(v) == [ghost EXCEPT !.stored = @ \cup {v}]
Touched(d) == [ghost EXCEPT !.touched = @ \cup {d}]

Peer == UNCHANGED <<view, open, fs, nudge, sock>>

PeerFiles(c, d, here) ==
  /\ Peer /\ Spend({"events"})
  /\ c \in srv.live /\ d \in srv.born \ srv.filed[c]
  /\ srv' = [srv EXCEPT !.filed[c] = @ \cup {d},
                        !.here[c] = IF here THEN @ \cup {d} ELSE @ \ {d}]
  /\ ghost' = Touched(d)
  /\ Announce({c})

PeerCreates(c, b) ==
  /\ Peer /\ Spend({"events"})
  /\ c \in srv.live /\ NextDoc # {}
  /\ srv' = Filed(srv, c, NewDoc, b, 0)
  /\ Announce({c})
  /\ UNCHANGED ghost

PeerDetaches(c, d) ==
  /\ Peer /\ Spend({"events"})
  /\ c \in srv.live /\ d \in srv.filed[c]
  /\ srv' = [srv EXCEPT !.filed[c] = @ \ {d}]
  /\ ghost' = Touched(d)
  /\ Announce({c})

PeerEdits(d) ==
  /\ Peer /\ Spend({"events", "val"})
  /\ d \in srv.born
  /\ srv' = [srv EXCEPT !.val[d] = Fresh]
  /\ ghost' = [Touched(d) EXCEPT !.stored = @ \cup {Fresh}]
  /\ Announce(FiledIn(d))

PeerRenames(d, b) ==
  /\ Peer /\ Spend({"events"})
  /\ d \in srv.born /\ b # srv.base[d]
  /\ srv' = [srv EXCEPT !.base[d] = b]
  /\ ghost' = Touched(d)
  /\ Announce(FiledIn(d))

\* context.deleted and context.created ask for a RefreshAll.
PeerTogglesContext(c) ==
  /\ Peer /\ Spend({"events"})
  /\ srv' = [srv EXCEPT !.live = IF c \in @ THEN @ \ {c} ELSE @ \cup {c}]
  /\ UNCHANGED ghost
  /\ work' = IF sock.up THEN [work EXCEPT !.jobs = @ \cup {All}] ELSE work

(***************************************************************************)
(* The session thread: one handler at a time.  Only the user's operations  *)
(* count against MaxEvents; those of the nudge thread do not.                 *)
(***************************************************************************)
Idling == fs.pc = "idle"
Local == UNCHANGED <<srv, work, nudge, sock>>
Ask(request) == fs' = [request EXCEPT !.out = "none"]

\* open_existing: documents only, one handle per file.
OpenExisting(c, n, truncate) ==
  LET i == FileAt(c, n) IN
  /\ Idling /\ Spend({"events"})
  /\ i # NoIno /\ open[i] = NoHandle /\ DocOf(c, i) # NoDoc
  /\ Cardinality(OpenInos) < MaxOpen
  /\ open' = [open EXCEPT ![i] =
       [ctx |-> c, doc |-> DocOf(c, i), dir |-> view.ctx[c], name |-> n,
        buf |-> IF truncate THEN 0 ELSE view.t.node[i].val,
        dirty |-> truncate, entry |-> "none", told |-> "nothing"]]
  /\ Local /\ UNCHANGED <<view, fs, ghost>>

\* A name taken in the tree or by another pending create is refused.
Create(c, b) ==
  LET i == AllocIno(view.t, Held) IN
  /\ Idling /\ Spend({"events"})
  /\ view.ctx[c] # NoIno
  /\ FileAt(c, Plain(b)) = NoIno /\ Pending(c, Plain(b)) = {}
  /\ Cardinality(OpenInos) < MaxOpen
  /\ open' = [open EXCEPT ![i] =
       [ctx |-> c, doc |-> NoDoc, dir |-> view.ctx[c], name |-> Plain(b), buf |-> 0,
        dirty |-> TRUE, entry |-> "listed", told |-> "nothing"]]
  /\ Local /\ UNCHANGED <<view, fs, ghost>>

Write(i) ==
  /\ Idling /\ Spend({"val"})
  /\ open[i] # NoHandle
  /\ open' = [open EXCEPT ![i] = [@ EXCEPT !.buf = Fresh, !.dirty = TRUE,
                                          !.told = "nothing"]]
  /\ Local /\ UNCHANGED <<view, fs, ghost>>

\* flush_inner: nothing to send, or an empty create that waits for the close.
NothingToSend(i, final) ==
  \/ ~open[i].dirty
  \/ ~final /\ open[i].doc = NoDoc /\ open[i].buf = 0

\* fsync and the flush of every close(2); a save that failed may be tried again.
Flush(i) ==
  /\ SyncFree /\ open[i] # NoHandle
  /\ \/ open[i].told = "nothing" /\ UNCHANGED spent
     \/ open[i].told = "error" /\ Spend({"retries"})
  /\ IF NothingToSend(i, FALSE)
       THEN /\ open' = [open EXCEPT ![i].told = "ok"]
            /\ UNCHANGED fs
       ELSE /\ Ask([FsIdle EXCEPT !.pc = "flush", !.ino = i])
            /\ open' = [open EXCEPT ![i].dirty = FALSE]
  /\ Local /\ UNCHANGED <<view, ghost>>

\* The kernel releases a handle after its flush; flush_final, then release.
Release(i) ==
  /\ SyncFree /\ open[i] # NoHandle /\ open[i].told # "nothing"
  /\ IF NothingToSend(i, TRUE)
       THEN /\ open' = [open EXCEPT ![i] = NoHandle]
            /\ UNCHANGED fs
       ELSE /\ Ask([FsIdle EXCEPT !.pc = "flush", !.ino = i, !.final = TRUE])
            /\ open' = [open EXCEPT ![i].dirty = FALSE]
  /\ Local /\ UNCHANGED <<view, ghost, spent>>

\* How a request ends: done and answered, refused, or failed on the way there
\* or back.
Answered(possible, effect) ==
  \/ /\ possible /\ effect /\ UNCHANGED spent
     /\ fs' = [fs EXCEPT !.out = "ok"]
  \/ /\ ~possible
     /\ fs' = [fs EXCEPT !.out = "error"]
     /\ UNCHANGED <<srv, work, ghost, spent>>
  \/ /\ Spend({"events"}) /\ fs' = [fs EXCEPT !.out = "error"]
     /\ \/ UNCHANGED <<srv, work, ghost>>
        \/ possible /\ effect

Asking(pc) == fs.pc = pc /\ fs.out = "none" /\ UNCHANGED <<view, open, nudge, sock>>
Told(pc)   == fs.pc = pc /\ fs.out # "none"
              /\ UNCHANGED <<srv, work, nudge, sock, ghost, spent>>

\* Every per-document request goes through the context that lists it.
Listed(c, d) == c \in srv.live /\ d \in srv.filed[c]

\* flush_update's GET and PUT.
PutContent(c, d, v) ==
  Answered(Listed(c, d), /\ srv' = [srv EXCEPT !.val[d] = v]
                         /\ ghost' = Stored(v)
                         /\ Announce(FiledIn(d)))

FlushUpdate ==
  LET h == open[fs.ino] IN
  /\ Asking("flush") /\ h.doc # NoDoc
  /\ PutContent(h.ctx, h.doc, h.buf)

\* flush_create's upload and POST.
FlushCreate ==
  LET h == open[fs.ino] IN
  /\ Asking("flush") /\ h.doc = NoDoc
  /\ IF h.ctx \in srv.live /\ NextDoc # {}
       THEN \/ /\ srv' = Filed(srv, h.ctx, NewDoc, h.name[1], h.buf)
               /\ ghost' = Stored(h.buf)
               /\ Announce({h.ctx})
               /\ \/ fs' = [fs EXCEPT !.out = "ok", !.doc = NewDoc] /\ UNCHANGED spent
                  \/ fs' = [fs EXCEPT !.out = "error"] /\ Spend({"events"})
            \/ /\ fs' = [fs EXCEPT !.out = "error"] /\ Spend({"events"})
               /\ UNCHANGED <<srv, work, ghost>>
       ELSE fs' = [fs EXCEPT !.out = "error"] /\ UNCHANGED <<srv, work, ghost, spent>>

\* adopt_document under the inode the kernel has; the handle becomes an update.
AdoptDocument(i, h, d) ==
  /\ view' = [view EXCEPT !.doc[h.ctx][d] = i,
                          !.t = InsertNode(@, i, [up |-> h.dir, name |-> h.name,
                                                  dir |-> FALSE, val |-> h.buf])]
  /\ open' = [j \in Inos |->
       IF j = i /\ fs.final THEN NoHandle
       ELSE IF j = i THEN [h EXCEPT !.doc = d, !.entry = "none", !.told = "ok"]
       ELSE IF open[j] # NoHandle /\ open[j].entry = "listed"
               /\ open[j].dir = h.dir /\ open[j].name = h.name
            THEN [open[j] EXCEPT !.entry = "hidden"]
       ELSE open[j]]

\* Slip: the error is reported and the buffer taken for clean.
Forgotten(h) == [h EXCEPT !.told = "error"]

\* What a failed flush leaves: the data, so that the save can be tried again.
Unsaved(h) == [h EXCEPT !.dirty = TRUE, !.told = "error"]

\* The rest of flush_inner and, for the last flush, of release.
FlushDone ==
  LET i == fs.ino  h == open[fs.ino] IN
  /\ Told("flush")
  /\ fs' = FsIdle
  /\ CASE fs.out = "ok" /\ fs.doc # NoDoc -> AdoptDocument(i, h, fs.doc)
       [] fs.out = "ok" /\ fs.doc = NoDoc ->
            /\ view' = [view EXCEPT !.t = SetContent(@, view.doc[h.ctx][h.doc], h.buf)]
            /\ open' = [open EXCEPT ![i] = IF fs.final THEN NoHandle ELSE [h EXCEPT !.told = "ok"]]
       [] OTHER ->
            /\ open' = [open EXCEPT ![i] = IF fs.final THEN NoHandle ELSE Unsaved(h)]
            /\ UNCHANGED view

(* unlink(2), by the user or by the nudge thread.  A tombstone is dropped   *)
(* from the tree alone, before the write path and without its mutex.        *)
Entry(c, n) == IF view.ctx[c] = NoIno THEN NoIno ELSE view.t.kids[view.ctx[c]][n]

CollectTombstone(c, n) ==
  /\ Entry(c, n) \in view.t.tomb
  /\ view' = WithoutDocNode(Entry(c, n))
  /\ UNCHANGED <<open, fs>>

DropPending(c, n) ==
  /\ SyncFree
  /\ Entry(c, n) \notin view.t.tomb /\ Pending(c, n) # {}
  /\ open' = [i \in Inos |-> IF i \in Pending(c, n) THEN NoHandle ELSE open[i]]
  /\ UNCHANGED <<view, fs>>

AskUnlink(c, n) ==
  LET i == FileAt(c, n) IN
  /\ SyncFree
  /\ Entry(c, n) \notin view.t.tomb /\ Pending(c, n) = {}
  /\ i # NoIno /\ DocOf(c, i) # NoDoc
  /\ fs' = [FsIdle EXCEPT !.pc = "unlink", !.ino = i, !.ctx = c, !.doc = DocOf(c, i)]
  /\ UNCHANGED <<view, open>>

Unlink(c, n) ==
  /\ Idling
  /\ \/ CollectTombstone(c, n) \/ DropPending(c, n) \/ AskUnlink(c, n)

UserUnlinks(c, n) ==
  Unlink(c, n) /\ Spend({"events"}) /\ Local /\ UNCHANGED ghost

RemoveDocuments(c, d) ==
  Answered(Listed(c, d),
           /\ srv' = [srv EXCEPT !.filed[c] = @ \ {d}]
           /\ UNCHANGED ghost
           /\ Announce({c}))

UnlinkAtServer == Asking("unlink") /\ RemoveDocuments(fs.ctx, fs.doc)

UnlinkDone ==
  /\ Told("unlink")
  /\ fs' = FsIdle
  /\ IF fs.out = "ok"
       THEN view' = WithoutDocNode(fs.ino) /\ open' = [open EXCEPT ![fs.ino] = NoHandle]
       ELSE UNCHANGED <<view, open>>

(* rename(2) within the context's folder; between folders it is EXDEV.      *)

\* A pending create is renamed in the overlay; over a document it becomes an
\* update of that document.
RenamePending(c, n, m) ==
  LET d == IF FileAt(c, m) = NoIno THEN NoDoc ELSE DocOf(c, FileAt(c, m)) IN
  /\ Pending(c, n) # {}
  /\ open' = [i \in Inos |->
       IF i \in Pending(c, n) /\ d # NoDoc
         THEN [open[i] EXCEPT !.doc = d, !.dirty = TRUE, !.name = m, !.entry = "hidden"]
       ELSE IF i \in Pending(c, n) THEN [open[i] EXCEPT !.name = m]
       ELSE IF i \in Pending(c, m) /\ d = NoDoc THEN [open[i] EXCEPT !.entry = "hidden"]
       ELSE open[i]]
  /\ UNCHANGED fs

\* A document's file takes a free name, or the place of another document.
RenameFile(c, n, m) ==
  LET i == FileAt(c, n)  over == FileAt(c, m) IN
  /\ Pending(c, n) = {}
  /\ i # NoIno /\ DocOf(c, i) # NoDoc
  /\ \/ /\ over = NoIno
        /\ fs' = [FsIdle EXCEPT !.pc = "filename", !.ino = i, !.ctx = c,
                                !.doc = DocOf(c, i), !.to = m]
     \/ /\ over # NoIno /\ DocOf(c, over) # NoDoc
        /\ fs' = [FsIdle EXCEPT !.pc = "replace", !.ino = i, !.ctx = c, !.to = m,
                                !.over = over, !.doc = DocOf(c, over),
                                !.from = DocOf(c, i), !.val = view.t.node[i].val]
  /\ UNCHANGED open

\* Bound: a free name is given without an id suffix.
Rename(c, n, m) ==
  /\ SyncFree /\ Spend({"events"})
  /\ n # m /\ (m[2] = NoDoc \/ FileAt(c, m) # NoIno)
  /\ RenamePending(c, n, m) \/ RenameFile(c, n, m)
  /\ Local /\ UNCHANGED <<view, ghost>>

FilenameAtServer ==
  /\ Asking("filename")
  /\ Answered(Listed(fs.ctx, fs.doc),
              /\ srv' = [srv EXCEPT !.base[fs.doc] = fs.to[1]]
              /\ UNCHANGED ghost
              /\ Announce(FiledIn(fs.doc)))

FilenameDone ==
  /\ Told("filename")
  /\ fs' = FsIdle
  /\ view' = IF fs.out = "ok" THEN [view EXCEPT !.t = RenameEntry(@, fs.ino, fs.to)] ELSE view
  /\ UNCHANGED open

ReplaceAtServer == Asking("replace") /\ PutContent(fs.ctx, fs.doc, fs.val)

\* flush_update's local write; then the source is detached.
ReplaceDone ==
  /\ Told("replace")
  /\ IF fs.out = "ok"
       THEN /\ view' = [view EXCEPT !.t = SetContent(@, view.doc[fs.ctx][fs.doc], fs.val)]
            /\ fs' = [fs EXCEPT !.pc = "detach", !.out = "none"]
       ELSE fs' = FsIdle /\ UNCHANGED view
  /\ UNCHANGED open

DetachAtServer == Asking("detach") /\ RemoveDocuments(fs.ctx, fs.from)

\* Slip: bind_doc forgotten, the surviving inode stands for no document.
DetachedOnly ==
  LET replaced == WithoutDocNode(fs.over) IN
  /\ Told("detach")
  /\ fs' = FsIdle
  /\ IF fs.out = "ok"
       THEN view' = [replaced EXCEPT !.t = RenameEntry(replaced.t, fs.ino, fs.to),
                                     !.doc[fs.ctx][fs.from] = NoIno]
       ELSE UNCHANGED view
  /\ UNCHANGED open

\* The source's inode, which the kernel now has under the new name, becomes the
\* replaced document's file.
DetachDone ==
  LET i == fs.ino
      replaced == WithoutDocNode(fs.over)
      t == SetContent(RenameEntry(replaced.t, i, fs.to), i, fs.val) IN
  /\ Told("detach")
  /\ fs' = FsIdle
  /\ IF fs.out = "ok"
       THEN /\ view' = [replaced EXCEPT !.t = t,
                          !.doc[fs.ctx] = [@ EXCEPT ![fs.from] = NoIno, ![fs.doc] = i]]
            /\ open' = IF open[i] = NoHandle THEN open
                       ELSE [open EXCEPT ![i] = [@ EXCEPT !.ctx = fs.ctx, !.doc = fs.doc]]
       ELSE UNCHANGED <<view, open>>

(***************************************************************************)
(* The refresh worker.  It takes everything queued at once; RefreshAll     *)
(* stands for the refresh of every context there is.                       *)
(***************************************************************************)
WorkerOnly == UNCHANGED <<srv, open, fs, ghost>>
At(pc) == work.at.pc = pc

\* What a refresh leaves to do, back in the loop of its caller.
Onward(todo) ==
  IF todo = {} THEN WorkIdle ELSE [WorkIdle EXCEPT !.pc = "refresh", !.todo = todo]

\* Slip: RefreshAll is not told from the jobs that name a context.
DrainNames ==
  /\ At("idle") /\ work.jobs # {}
  /\ work' = [jobs |-> {}, at |-> [WorkIdle EXCEPT !.pc = "refresh", !.todo = work.jobs]]
  /\ WorkerOnly /\ UNCHANGED <<view, nudge, sock, spent>>

Drain ==
  /\ At("idle") /\ work.jobs # {}
  /\ work' = [jobs |-> {},
              at |-> IF All \in work.jobs THEN [WorkIdle EXCEPT !.pc = "list"]
                     ELSE [WorkIdle EXCEPT !.pc = "refresh", !.todo = work.jobs]]
  /\ WorkerOnly /\ UNCHANGED <<view, nudge, sock, spent>>

ListContexts ==
  /\ At("list")
  /\ \/ work' = [work EXCEPT !.at.pc = "contexts", !.at.todo = srv.live] /\ UNCHANGED spent
     \/ work' = [work EXCEPT !.at = WorkIdle] /\ Spend({"events"})
  /\ WorkerOnly /\ UNCHANGED <<view, nudge, sock>>

WithoutContexts(v, S) ==
  LET dirs == {v.ctx[c] : c \in S} IN
  [v EXCEPT !.t = RemoveNodes(@, dirs \cup UNION {Below(@, i) : i \in dirs}),
            !.ctx = [c \in Contexts |-> IF c \in S THEN NoIno ELSE @[c]],
            !.doc = [c \in Contexts |-> IF c \in S THEN [d \in Docs |-> NoIno] ELSE @[c]]]

WithContexts(v, S) ==
  LET new == AllocInos(v.t, Held, S) IN
  [v EXCEPT !.ctx = [c \in Contexts |-> IF c \in S THEN CHOOSE i \in DOMAIN new : new[i] = c
                                        ELSE @[c]],
            !.t = InsertNodes(@, [i \in DOMAIN new |->
                    [up |-> Root, name |-> Plain(new[i]), dir |-> TRUE, val |-> 0]])]

\* apply_contexts takes the tree's lock and not the sync mutex.
ApplyContexts ==
  LET stale == {c \in Contexts \ work.at.todo : view.ctx[c] # NoIno}
      added == {c \in work.at.todo : view.ctx[c] = NoIno} IN
  /\ At("contexts")
  /\ view' = WithContexts(WithoutContexts(view, stale), added)
  /\ work' = [work EXCEPT !.at = Onward(work.at.todo)]
  /\ WorkerOnly /\ UNCHANGED <<nudge, sock, spent>>

\* Slip: the listing is fetched before the mutex is taken.
FetchUnlocked(c) ==
  /\ At("refresh") /\ c \in work.at.todo /\ c \in srv.live
  /\ work' = [work EXCEPT !.at.pc = "apply", !.at.ctx = c, !.at.got = Listing(c),
                          !.at.todo = @ \ {c}]
  /\ ghost' = [ghost EXCEPT !.touched = {}]
  /\ UNCHANGED <<srv, view, open, fs, nudge, sock, spent>>

\* refresh_context takes the mutex before it fetches, and keeps it.
FetchDocuments(c) ==
  /\ At("refresh") /\ c \in work.at.todo /\ fs.pc = "idle" /\ c \in srv.live
  /\ work' = [work EXCEPT !.at.pc = "apply", !.at.ctx = c, !.at.got = Listing(c),
                          !.at.todo = @ \ {c}]
  /\ ghost' = [ghost EXCEPT !.touched = {}]
  /\ UNCHANGED <<srv, view, open, fs, nudge, sock, spent>>

FetchFails(c) ==
  /\ At("refresh") /\ c \in work.at.todo
  /\ \/ c \notin srv.live /\ UNCHANGED spent
     \/ Spend({"events"})
  /\ work' = [work EXCEPT !.at = Onward(work.at.todo \ {c})]
  /\ WorkerOnly /\ UNCHANGED <<view, nudge, sock>>

\* reconcile_doc_dir: the entries that are not the document the listing names so.
Departed(c, dir, named, got) ==
  {n \in Names : LET i == view.t.kids[dir][n] IN
     i # NoIno /\ \A d \in got.docs : named[d] # n \/ DocOf(c, i) # d}

\* The listed documents get their content if they are shown under their name, and
\* a node if nothing is.
Materialize(c, dir, named, got) ==
  LET left == Departed(c, dir, named, got)
      gone == {view.t.kids[dir][n] : n \in left}
      kept == IF DeferRemovals THEN [view EXCEPT !.t.tomb = @ \cup gone]
              ELSE [view EXCEPT !.t = RemoveNodes(@, gone),
                                !.doc = [e \in Contexts |-> [d \in Docs |->
                                   IF @[e][d] \in gone THEN NoIno ELSE @[e][d]]]]
      at(d) == Lookup(kept.t, dir, named[d])
      shown == {d \in got.docs : at(d) # NoIno /\ kept.doc[c][d] = at(d)}
      val == [i \in {at(d) : d \in shown} |-> got.val[CHOOSE d \in shown : at(d) = i]]
      new == AllocInos(kept.t, Held, {d \in got.docs : at(d) = NoIno})
      node == [i \in DOMAIN new |-> [up |-> dir, name |-> named[new[i]], dir |-> FALSE,
                                    val |-> got.val[new[i]]]]
  IN  [view |-> [kept EXCEPT !.t = InsertNodes(SetContents(@, val), node),
                             !.doc[c] = [d \in Docs |-> IF \E i \in DOMAIN new : new[i] = d
                                           THEN CHOOSE i \in DOMAIN new : new[i] = d ELSE @[d]]],
       gone |-> IF DeferRemovals THEN gone ELSE {}]

ApplyDocuments ==
  LET c == work.at.ctx  got == work.at.got  dir == view.ctx[c]
      named == AssignNames(got.docs, got.base, got.here, view.sticky[c])
      made == Materialize(c, dir, named, got) IN
  /\ At("apply")
  /\ IF dir = NoIno
       THEN /\ work' = [work EXCEPT !.at.pc = "notify", !.at.got = NoListing]
            /\ UNCHANGED view
       ELSE /\ view' = [made.view EXCEPT !.sticky[c] =
                          [d \in Docs |-> IF d \in got.docs THEN named[d] ELSE @[d]]]
            /\ work' = [work EXCEPT !.at.pc = "notify", !.at.got = NoListing,
                                    !.at.gone = made.gone]
  /\ WorkerOnly /\ UNCHANGED <<nudge, sock, spent>>

\* A poke carries the path the node has by the time it is queued.
Pokes(c, gone) ==
  {<<c, view.t.node[i].name>> : i \in {j \in gone : Exists(view.t, j) /\ view.t.node[j].up = view.ctx[c]}}

\* subscribe_raw, with the server's acknowledgement: only a running workspace
\* accepts a subscription, and a confirmed one is not asked for again.
Subscribed(s, C) ==
  LET asked == IF s.up /\ s.ready THEN C \ s.confirmed ELSE {} IN
  [s EXCEPT !.subs = @ \cup asked, !.confirmed = @ \cup asked]

Notify ==
  LET c == work.at.ctx IN
  /\ At("notify")
  /\ nudge' = [nudge EXCEPT !.queue = @ \cup Pokes(c, work.at.gone)]
  /\ sock' = Subscribed(sock, {c})
  /\ work' = [work EXCEPT !.at = Onward(work.at.todo)]
  /\ WorkerOnly /\ UNCHANGED <<view, spent>>

\* The periodic resync.  One that fires while the worker is busy, or has work,
\* is drained as one that fires when it is idle.
Resync ==
  /\ At("idle") /\ work.jobs = {}
  /\ work' = [work EXCEPT !.jobs = @ \cup {All}]
  /\ WorkerOnly /\ UNCHANGED <<view, nudge, sock, spent>>

(* The nudge thread: a batch at a time, each unlink through the mount.      *)
NudgeDrain ==
  /\ nudge.batch = {} /\ nudge.queue # {}
  /\ nudge' = [queue |-> {}, batch |-> nudge.queue]
  /\ WorkerOnly /\ UNCHANGED <<view, work, sock, spent>>

NothingAt(c, n) ==
  /\ Pending(c, n) = {} /\ (FileAt(c, n) = NoIno \/ DocOf(c, FileAt(c, n)) = NoDoc)
  /\ Entry(c, n) \notin view.t.tomb
  /\ UNCHANGED <<view, open, fs>>

NudgeUnlink(c, n) ==
  /\ <<c, n>> \in nudge.batch /\ Idling
  /\ Unlink(c, n) \/ NothingAt(c, n)
  /\ nudge' = [nudge EXCEPT !.batch = @ \ {<<c, n>>}]
  /\ UNCHANGED <<srv, work, sock, ghost, spent>>

(* The event socket.                                                        *)
SocketOnly == UNCHANGED <<srv, view, open, fs, nudge, ghost>>
Known == {c \in Contexts : view.ctx[c] # NoIno}

\* Slip: confirmations of the old socket are believed.
AuthenticateAgain ==
  /\ ~sock.up
  /\ sock' = Subscribed([sock EXCEPT !.up = TRUE], Known)
  /\ work' = [work EXCEPT !.jobs = @ \cup {All}]
  /\ SocketOnly /\ UNCHANGED spent

\* on_authenticated: a fresh socket has confirmed nothing.
Authenticate ==
  /\ ~sock.up
  /\ sock' = Subscribed([sock EXCEPT !.up = TRUE, !.confirmed = {}], Known)
  /\ work' = [work EXCEPT !.jobs = @ \cup {All}]
  /\ SocketOnly /\ UNCHANGED spent

Disconnect ==
  /\ sock.up /\ Spend({"events"})
  /\ sock' = [sock EXCEPT !.up = FALSE, !.subs = {}]
  /\ SocketOnly /\ UNCHANGED work

WorkspaceReady ==
  /\ ~sock.ready
  /\ sock' = [sock EXCEPT !.ready = TRUE]
  /\ SocketOnly /\ UNCHANGED <<work, spent>>

(***************************************************************************)
(* Properties.                                                             *)
(***************************************************************************)

\* Every name of a folder leads to the node that carries it, and every file of a
\* context's folder, unless it is only kept for its unlink, is a document of
\* that context: what reconcile_doc_dir's unwrap and doc_for_ino rely on.
TreeConsistent ==
  \A c \in Contexts : view.ctx[c] # NoIno =>
    \A n \in Names : LET i == view.t.kids[view.ctx[c]][n] IN
      i # NoIno =>
        /\ Exists(view.t, i) /\ view.t.node[i].up = view.ctx[c] /\ view.t.node[i].name = n
        /\ i \in view.t.tomb \/ DocOf(c, i) # NoDoc

\* An application that was told its file is saved has its content at the server,
\* whatever failed before and was tried again.
SavesAreStored ==
  \A i \in OpenInos : open[i].told = "ok" => open[i].buf \in ghost.stored

\* A folder shows a document as the server has it: its name, its content, and not
\* only until its unlink.
Current(c, d) ==
  LET i == view.doc[c][d] IN
  /\ view.ctx[c] # NoIno /\ Reachable(view.t, i) /\ i \notin view.t.tomb
  /\ view.t.node[i].val = srv.val[d]
  /\ view.t.node[i].name \in {Plain(srv.base[d]), WithIdSuffix(srv.base[d], d)}

\* A refresh never takes away, nor puts an older content in the place of, a
\* document that is shown as the server has it, whatever this mount itself saved,
\* created or renamed before and while the listing was fetched.  (Not so while a
\* departed document still holds its name for its unlink: see the README.)
RefreshKeepsCurrent ==
  [][\A c \in Contexts : \A d \in srv.filed[c] \ ghost.touched :
       At("apply") /\ ~At("apply")' /\ view.t.tomb = {} /\ Current(c, d)
         => Current(c, d)']_vars

\* What a mount shows once nobody changes anything any more.
ShowsServer ==
  \A c \in Contexts :
    IF c \notin srv.live THEN view.ctx[c] = NoIno
    ELSE /\ view.ctx[c] # NoIno
         /\ {DocOf(c, FileAt(c, n)) : n \in Entries(view.t, view.ctx[c])} = srv.filed[c]
         /\ \A d \in srv.filed[c] : Current(c, d)

ViewConverges == <>[]ShowsServer

\* However late the workspace or the socket came up, and however often it broke.
EventuallySubscribed == <>[](srv.live \subseteq sock.subs)

(***************************************************************************)
(* Next.                                                                   *)
(***************************************************************************)
Peers ==
  \E c \in Contexts, d \in Docs, b \in Bases, here \in BOOLEAN :
    \/ PeerFiles(c, d, here) \/ PeerCreates(c, b) \/ PeerDetaches(c, d)
    \/ PeerEdits(d) \/ PeerRenames(d, b) \/ PeerTogglesContext(c)

User ==
  \/ \E c \in Contexts, n \in Names :
       \/ UserUnlinks(c, n)
       \/ \E truncate \in BOOLEAN : OpenExisting(c, n, truncate)
       \/ \E m \in Names : Rename(c, n, m)
  \/ \E c \in Contexts, b \in Bases : Create(c, b)
  \/ \E i \in Inos : Write(i) \/ Flush(i) \/ Release(i)

Session ==
  \/ FlushUpdate \/ FlushCreate \/ FlushDone
  \/ UnlinkAtServer \/ UnlinkDone \/ FilenameAtServer \/ FilenameDone
  \/ ReplaceAtServer \/ ReplaceDone \/ DetachAtServer \/ DetachDone

Worker ==
  \/ Drain \/ ListContexts \/ ApplyContexts \/ ApplyDocuments \/ Notify
  \/ \E c \in Contexts : FetchDocuments(c) \/ FetchFails(c)

Nudger == NudgeDrain \/ \E c \in Contexts, n \in Names : NudgeUnlink(c, n)
Socket == Authenticate \/ WorkspaceReady

Next == Peers \/ User \/ Session \/ Worker \/ Nudger \/ Socket \/ Disconnect \/ Resync

Spec == Init /\ [][Next]_vars

\* The worker can go on: it has work, and the mutex where it takes it.
WorkerReady ==
  /\ ~At("idle") \/ work.jobs # {}
  /\ At("refresh") => fs.pc = "idle" \/ ~(work.at.todo \subseteq srv.live)

\* Weak fairness of Worker, whose every step changes work.at.  (Spelled out because
\* ENABLED Worker would have TLC compute whole refreshes in every state.)
WorkerRuns == []<>~WorkerReady \/ []<><<TRUE>>_(work.at)

\* Every thread keeps running, and the resync timer fires again and again.  An
\* unlink of the nudge thread gets the mutex in the end although the worker takes
\* it again and again: parking_lot's mutex is eventually fair.
FairSpec ==
  /\ Spec
  /\ WF_vars(Session) /\ SF_vars(Nudger) /\ WF_vars(Socket) /\ WF_vars(Resync)
  /\ WorkerRuns
==============================================================================
