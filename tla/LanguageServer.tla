--------------------------- MODULE LanguageServer ---------------------------
(***************************************************************************)
(* The language server: the document store, the analysis service with its  *)
(* snapshot cache, and the pull diagnostics the server answers from them.  *)
(* The server reads one message at a time, so every handler is one step.   *)
(* Files change on disk behind its back; the client tells it later.        *)
(*                                                                         *)
(* A file is a text, and an import of a file that is missing, or whose     *)
(* text differs from the importer's, is a diagnostic: what the front end   *)
(* finds is a function of the texts it read, which is all that matters     *)
(* here.  The hash of a text is the text.                                  *)
(***************************************************************************)
EXTENDS Integers, Sequences, SequencesExt

CONSTANTS
    Uris,          \* the files of the workspace
    Far,           \* the ones only a search in the workspace folder finds
    imports,       \* the files each file imports
    Texts,         \* what a file may hold
    MaxRevision,   \* bound: documents opened or changed
    MaxSaves       \* bound: files changed on disk

(* The workspace has finitely many files. *)
ServerAssumption == IsFiniteSet(Uris)

VARIABLES
    initialized_,
    shutdown_requested_,
    documents_,            \* the open documents: version, text, revision
    next_revision_,
    workspace_revision_,
    workspace_roots_,      \* is the workspace folder one of the roots?
    cache_,                \* the analysis snapshot of each document
    disk,                  \* the text of each file on disk
    saves,                 \* how often files changed on disk
    unannounced,           \* has the disk changed since the client last said so?
    client                 \* per file: the result id the client holds, the
                           \* diagnostics the server had found with that id,
                           \* the ones the client shows, and whether the disk
                           \* or the roots have changed since it was made

store    == <<documents_, next_revision_, workspace_revision_>>
outside  == <<disk, saves, unannounced>>
flags    == <<initialized_, shutdown_requested_>>
server   == <<flags, store, workspace_roots_, cache_, outside, client>>

ServerInit ==
    /\ initialized_ = FALSE
    /\ shutdown_requested_ = FALSE
    /\ documents_ = <<>>
    /\ next_revision_ = 1
    /\ workspace_revision_ = 0
    /\ workspace_roots_ = FALSE
    /\ cache_ = <<>>
    /\ disk \in [Uris -> Texts]
    /\ saves = 0
    /\ unannounced = FALSE
    /\ client = <<>>

Opened == DOMAIN documents_

(* open_document_overlays(): an open document hides the file. *)
Overlaid(u) == IF u \in Opened THEN documents_[u].text ELSE disk[u]

(* The files an import may find with the search roots that are inferred,   *)
(* and what parse_project() loads: the ones reached from u by imports of   *)
(* files that are found.                                                   *)
Findable == {v \in Uris : v \notin Far \/ workspace_roots_}
ReachedIn(found, u) ==
    LET step[n \in 0..Cardinality(Uris)] ==
            IF n = 0 THEN {u}
            ELSE step[n - 1] \cup (UNION {imports[v] : v \in step[n - 1]} \cap found)
    IN  step[Cardinality(Uris)]
Reached(u) == ReachedIn(Findable, u)

(* build_snapshot(): the key the snapshot is kept under, and the sources   *)
(* the project was parsed from.  With a descriptor, with inferred roots    *)
(* and for a single file it is the same but for where imports are found.   *)
BuildSnapshot(u) ==
    [version            |-> documents_[u].version,
     revision           |-> documents_[u].revision,
     text               |-> documents_[u].text,
     workspace_revision |-> workspace_revision_,
     sources            |-> [v \in Reached(u) |-> Overlaid(v)]]

(* snapshot_for_uri(): the cached snapshot is served when it was built for *)
(* this document as it is, and for this revision of the store.             *)
Served(u) ==
    /\ u \in DOMAIN cache_
    /\ cache_[u].version = documents_[u].version
    /\ cache_[u].revision = documents_[u].revision
    /\ cache_[u].text = documents_[u].text
    /\ cache_[u].workspace_revision = workspace_revision_
SnapshotFor(u) == IF Served(u) THEN cache_[u] ELSE BuildSnapshot(u)

(* Until the client says that files have changed, a cached snapshot may be *)
(* of the disk as it was.                                                  *)
Outdated(u) == unannounced /\ SnapshotFor(u) # BuildSnapshot(u)

(* diagnostics_for_uri() of a snapshot. *)
Diagnostics(snapshot, v) ==
    {w \in imports[v] : \/ w \notin DOMAIN snapshot.sources
                        \/ snapshot.sources[w] # snapshot.sources[v]}

(* compute_document_result_id() *)
ResultId(snapshot, v) ==
    <<v, snapshot.version, snapshot.revision, snapshot.workspace_revision,
      snapshot.sources[v]>>

Without(f, u) == [v \in DOMAIN f \ {u} |-> f[v]]
With(f, u, x) == [v \in DOMAIN f \cup {u} |-> IF v = u THEN x ELSE f[v]]
-----------------------------------------------------------------------------
(* Whatever the ids the client holds were computed from has changed. *)
Aged == [v \in DOMAIN client |-> [client[v] EXCEPT !.aged = TRUE]]

(* set_workspace_roots() *)
SetWorkspaceRoots(roots) ==
    /\ workspace_roots_' = roots
    /\ cache_' = <<>>
    /\ client' = IF roots = workspace_roots_ THEN client ELSE Aged

Initialize(roots) ==
    /\ ~initialized_
    /\ initialized_' = TRUE
    /\ SetWorkspaceRoots(roots)
    /\ UNCHANGED <<shutdown_requested_, store, outside>>

WorkspaceFoldersChanged ==
    /\ initialized_
    /\ SetWorkspaceRoots(~workspace_roots_)
    /\ UNCHANGED <<flags, store, outside>>

DidOpen(u, t) ==
    /\ initialized_
    /\ u \notin Opened
    /\ next_revision_ <= MaxRevision
    /\ documents_' = With(documents_, u, [version |-> 1, text |-> t,
                                          revision |-> next_revision_])
    /\ next_revision_' = next_revision_ + 1
    /\ workspace_revision_' = workspace_revision_ + 1
    /\ cache_' = <<>>
    /\ UNCHANGED <<flags, workspace_roots_, outside, client>>

(* A change of a document that is not open is ignored by the store. *)
DidChange(u, t) ==
    /\ initialized_
    /\ u \in Opened
    /\ t # documents_[u].text
    /\ next_revision_ <= MaxRevision
    /\ documents_' = [documents_ EXCEPT ![u].version = @ + 1, ![u].text = t,
                                        ![u].revision = next_revision_]
    /\ next_revision_' = next_revision_ + 1
    /\ workspace_revision_' = workspace_revision_ + 1
    /\ cache_' = <<>>
    /\ UNCHANGED <<flags, workspace_roots_, outside, client>>

(* The client forgets what it knew of a document it closes. *)
DidClose(u) ==
    /\ initialized_
    /\ u \in Opened
    /\ documents_' = Without(documents_, u)
    /\ workspace_revision_' = workspace_revision_ + 1
    /\ cache_' = <<>>
    /\ client' = Without(client, u)
    /\ UNCHANGED <<flags, next_revision_, workspace_roots_, outside>>

(* A file is written on disk; the server hears of it with the next         *)
(* workspace/didChangeWatchedFiles.                                        *)
Save(u, t) ==
    /\ saves < MaxSaves
    /\ disk[u] # t
    /\ disk' = [disk EXCEPT ![u] = t]
    /\ saves' = saves + 1
    /\ unannounced' = TRUE
    /\ client' = Aged
    /\ UNCHANGED <<flags, store, workspace_roots_, cache_>>

(* Slip: only the refresh is sent. *)
WatchedFilesChangedQuietly ==
    /\ unannounced
    /\ unannounced' = FALSE
    /\ UNCHANGED <<flags, store, workspace_roots_, cache_, disk, saves, client>>

WatchedFilesChanged ==
    /\ unannounced
    /\ unannounced' = FALSE
    /\ cache_' = <<>>
    /\ UNCHANGED <<flags, store, workspace_roots_, disk, saves, client>>
-----------------------------------------------------------------------------
Holds(v, id) == v \in DOMAIN client /\ client[v].id = id

(* textDocument/diagnostic with the id the client holds as                 *)
(* previousResultId: when it is the id of the answer, the answer is a full *)
(* report with no items.  For a document that is not open the answer has   *)
(* an id without versions and no items, and the server keeps nothing.      *)
TextDocumentDiagnostic(u) ==
    LET snapshot    == SnapshotFor(u)
        diagnostics == Diagnostics(snapshot, u)
        id          == ResultId(snapshot, u)
    IN  /\ u \in Opened
        /\ cache_' = With(cache_, u, snapshot)
        /\ client' = With(client, u,
               IF Holds(u, id) THEN [client[u] EXCEPT !.shown = {}]
               ELSE [id |-> id, reported |-> diagnostics, shown |-> diagnostics,
                     aged |-> Outdated(u)])
        /\ UNCHANGED <<flags, store, workspace_roots_, outside>>

(* workspace/diagnostic: every source of every open document's snapshot,   *)
(* the documents in the order of a hash map, each source once; one whose   *)
(* id the client holds is left out of the answer.                          *)
WorkspaceDiagnostic ==
    \E order \in SetToSeqs(Opened) :
        LET snapshots == [u \in Opened |-> SnapshotFor(u)]
            emitted   == UNION {DOMAIN snapshots[u].sources : u \in Opened}
            owner(v)  == order[CHOOSE i \in DOMAIN order :
                             /\ v \in DOMAIN snapshots[order[i]].sources
                             /\ \A j \in 1..(i - 1) :
                                    v \notin DOMAIN snapshots[order[j]].sources]
            first(v)  == snapshots[owner(v)]
        IN  /\ Opened # {}
            /\ cache_' = snapshots
            /\ client' = [v \in DOMAIN client \cup emitted |->
                   IF v \notin emitted \/ Holds(v, ResultId(first(v), v)) THEN client[v]
                   ELSE [id       |-> ResultId(first(v), v),
                         reported |-> Diagnostics(first(v), v),
                         shown    |-> Diagnostics(first(v), v),
                         aged     |-> Outdated(owner(v))]]
            /\ UNCHANGED <<flags, store, workspace_roots_, outside>>

(* shutdown and exit end the loop alike. *)
Shutdown ==
    /\ shutdown_requested_' = TRUE
    /\ UNCHANGED <<initialized_, store, workspace_roots_, cache_, outside, client>>

ServerNext ==
    /\ ~shutdown_requested_
    /\ \/ \E roots \in BOOLEAN : Initialize(roots)
       \/ WorkspaceFoldersChanged
       \/ \E u \in Uris, t \in Texts : DidOpen(u, t) \/ DidChange(u, t) \/ Save(u, t)
       \/ \E u \in Uris : DidClose(u) \/ TextDocumentDiagnostic(u)
       \/ WatchedFilesChanged
       \/ WorkspaceDiagnostic
       \/ Shutdown

ServerSpec == ServerInit /\ [][ServerNext]_server
-----------------------------------------------------------------------------
(* The client holds the id the server would now answer with, for a         *)
(* document of which neither the files on disk nor the roots changed.      *)
StillValid(u) ==
    /\ Holds(u, ResultId(BuildSnapshot(u), u))
    /\ ~client[u].aged

(* A snapshot the analysis service would serve from its cache is the one   *)
(* it would build now, once the client has announced the changes of files  *)
(* on disk: open, change and close, of this document or of one it imports, *)
(* and a change of the folders never leave a stale one behind.  A result   *)
(* id stands for one set of diagnostics: what the server found under the   *)
(* id the client still holds is what it would find now, even if it was an  *)
(* imported document that was edited.                                      *)
AnswersAreCurrent ==
    /\ ~unannounced => \A u \in Opened : Served(u) => cache_[u] = BuildSnapshot(u)
    /\ \A u \in Opened : StillValid(u) =>
          client[u].reported = Diagnostics(BuildSnapshot(u), u)

(* While the client's id is still valid, the client shows the diagnostics  *)
(* of the document: asking again does not lose them, "if unchanged, we     *)
(* still send full for now" (server.cpp 1604).                             *)
DiagnosticsSurvive ==
    \A u \in Opened : StillValid(u) =>
        client[u].shown = Diagnostics(BuildSnapshot(u), u)
-----------------------------------------------------------------------------
(* For the proof of AnswersAreCurrent.  Every open document has a revision *)
(* of its own, which the store has not given out again.                    *)
StoreInv ==
    /\ Opened \subseteq Uris
    /\ next_revision_ \in Nat /\ workspace_revision_ \in Nat
    /\ \A u \in Opened :
          /\ DOMAIN documents_[u] = {"version", "text", "revision"}
          /\ documents_[u].revision \in Nat
          /\ documents_[u].revision < next_revision_
    /\ \A u, w \in Opened : documents_[u].revision = documents_[w].revision => u = w

(* What is in the cache has the key of its document; it differs from what  *)
(* would be built by unannounced changes only.                             *)
CacheInv ==
    \A u \in DOMAIN cache_ :
        /\ u \in Opened
        /\ Served(u)
        /\ ~unannounced => cache_[u] = BuildSnapshot(u)

(* The id the client holds of a file was made of some snapshot; while the  *)
(* store is at the revision the id names, and neither the disk nor the     *)
(* roots have changed, that snapshot is one that would be built now.       *)
ClientInv ==
    \A v \in DOMAIN client :
        /\ DOMAIN client[v] = {"id", "reported", "shown", "aged"}
        /\ client[v].id[4] \in Nat
        /\ client[v].id[4] <= workspace_revision_
        /\ client[v].id[4] = workspace_revision_ /\ ~client[v].aged =>
              \E w \in Opened :
                  /\ client[v].id[3] = documents_[w].revision
                  /\ client[v].id = ResultId(BuildSnapshot(w), v)
                  /\ client[v].reported = Diagnostics(BuildSnapshot(w), v)

ServerInv == StoreInv /\ CacheInv /\ ClientInv
=============================================================================
