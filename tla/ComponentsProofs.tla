-------------------------- MODULE ComponentsProofs --------------------------
(***************************************************************************)
(* Proofs about three components that run alone: LanguageServer, for every *)
(* workspace, every imports and every sequence of messages and of changes  *)
(* on disk; SecretRotation, for every set of keys, every interval and      *)
(* width of the counters; and LlmProvider, for every set of fallback       *)
(* providers, budgets, prompts, contexts and limits.                       *)
(***************************************************************************)
EXTENDS LanguageServer, SecretRotation, LlmProvider, DagProofs
-----------------------------------------------------------------------------
(*                            LanguageServer                               *)

(* An order of a finite set has every member of it somewhere. *)
LEMMA OrderReaches ==
    ASSUME NEW S, IsFiniteSet(S), NEW order \in SetToSeqs(S), NEW x \in S
    PROVE  /\ Cardinality(S) \in Nat
           /\ order \in [1..Cardinality(S) -> S]
           /\ \E i \in 1..Cardinality(S) : order[i] = x
<1> DEFINE D == 1..Cardinality(S)
<1>1. Cardinality(S) \in Nat
  BY FS_CardinalityType
<1>2. order \in Injection(D, S)
  BY DEF SetToSeqs, Injection, IsInjective
<1>3. Cardinality(D) = Cardinality(S)
  BY <1>1, FS_Interval
<1>4. order \in Surjection(D, S)
  BY <1>2, <1>3, FS_Injection
<1> QED
  BY <1>1, <1>2, <1>4 DEF Injection, Surjection

(* A set of positions that is not empty has a first one. *)
LEMMA FirstPosition ==
    ASSUME NEW n \in Nat, NEW T \in SUBSET (1..n), T # {}
    PROVE  \E i \in T : \A j \in 1..(i - 1) : j \notin T
<1>1. PICK i \in T : \A j \in T : <<j, i>> \notin OpToRel(<, Nat)
  <2>1. IsWellFoundedOn(OpToRel(<, Nat), Nat)
    BY NatLessThanWellFounded
  <2>2. T \subseteq Nat
    OBVIOUS
  <2> QED
    BY <2>1, <2>2, WFMin
<1>2. \A j \in T : ~(j < i)
  <2> SUFFICES ASSUME NEW j \in T, j < i PROVE FALSE
    OBVIOUS
  <2>1. j \in Nat /\ i \in Nat
    OBVIOUS
  <2>2. <<j, i>> \in OpToRel(<, Nat)
    BY <2>1, Zenon DEF OpToRel
  <2> QED
    BY <1>1, <2>2
<1> QED
  BY <1>2
-----------------------------------------------------------------------------
(* A snapshot is built of the open documents, the files and the roots. *)
LEMMA SameSnapshots ==
    ASSUME UNCHANGED <<documents_, workspace_revision_, disk, workspace_roots_>>, NEW u
    PROVE  /\ Opened' = Opened
           /\ Reached(u)' = Reached(u)
           /\ BuildSnapshot(u)' = BuildSnapshot(u)
<1>1. Opened' = Opened
  BY DEF Opened
<1>2. Findable' = Findable
  BY DEF Findable
<1>3. Reached(u)' = Reached(u)
  BY <1>2 DEF Reached
<1>4. \A v : Overlaid(v)' = Overlaid(v)
  BY <1>1 DEF Overlaid, Opened
<1> QED
  BY <1>1, <1>3, <1>4 DEF BuildSnapshot

(* The snapshot served for a document has the document's key, and is the   *)
(* one that would be built unless it is outdated.                          *)
LEMMA ServedSnapshot ==
    ASSUME ServerInv, NEW u \in Opened
    PROVE  /\ SnapshotFor(u).version = documents_[u].version
           /\ SnapshotFor(u).revision = documents_[u].revision
           /\ SnapshotFor(u).text = documents_[u].text
           /\ SnapshotFor(u).workspace_revision = workspace_revision_
           /\ ~unannounced => SnapshotFor(u) = BuildSnapshot(u)
           /\ ~Outdated(u) => SnapshotFor(u) = BuildSnapshot(u)
<1>1. CASE Served(u)
  <2>1. SnapshotFor(u) = cache_[u]
    BY <1>1 DEF SnapshotFor
  <2> QED
    BY <1>1, <2>1 DEF ServerInv, CacheInv, Served, Outdated
<1>2. CASE ~Served(u)
  <2>1. SnapshotFor(u) = BuildSnapshot(u)
    BY <1>2 DEF SnapshotFor
  <2> QED
    BY <2>1 DEF BuildSnapshot
<1> QED
  BY <1>1, <1>2

(* Distinct ids for distinct documents: the id of a snapshot of u that     *)
(* names u's revision is not the id of another document's snapshot.        *)
LEMMA IdNamesItsDocument ==
    ASSUME StoreInv, NEW u \in Opened, NEW w \in Opened, NEW v,
           ResultId(BuildSnapshot(u), v) = ResultId(BuildSnapshot(w), v)
    PROVE  u = w
<1>1. documents_[u].revision = documents_[w].revision
  BY DEF ResultId, BuildSnapshot
<1> QED
  BY <1>1 DEF StoreInv

(* What the invariant says is what AnswersAreCurrent needs. *)
LEMMA InvariantAnswers ==
    ASSUME ServerInv
    PROVE  AnswersAreCurrent
<1>1. ASSUME ~unannounced, NEW u \in Opened, Served(u)
      PROVE  cache_[u] = BuildSnapshot(u)
  BY <1>1 DEF ServerInv, CacheInv, Served
<1>2. ASSUME NEW u \in Opened, StillValid(u)
      PROVE  client[u].reported = Diagnostics(BuildSnapshot(u), u)
  <2>1. /\ u \in DOMAIN client
        /\ client[u].id = ResultId(BuildSnapshot(u), u)
        /\ ~client[u].aged
    BY <1>2 DEF StillValid, Holds
  <2>2. client[u].id[4] = workspace_revision_
    BY <2>1 DEF ResultId, BuildSnapshot
  <2>3. PICK w \in Opened : /\ client[u].id = ResultId(BuildSnapshot(w), u)
                            /\ client[u].reported = Diagnostics(BuildSnapshot(w), u)
    BY <2>1, <2>2 DEF ServerInv, ClientInv
  <2>4. u = w
    BY <2>1, <2>3, IdNamesItsDocument DEF ServerInv
  <2> QED
    BY <2>3, <2>4
<1> QED
  BY <1>1, <1>2 DEF AnswersAreCurrent
-----------------------------------------------------------------------------
(* A step that leaves documents, files and roots alone keeps what is known *)
(* of the ids the client holds.                                            *)
LEMMA ClientKept ==
    ASSUME ServerInv,
           UNCHANGED <<documents_, workspace_revision_, disk, workspace_roots_, client>>
    PROVE  ClientInv'
<1> SUFFICES ASSUME NEW v \in DOMAIN client
             PROVE  /\ DOMAIN client[v] = {"id", "reported", "shown", "aged"}
                    /\ client[v].id[4] \in Nat
                    /\ client[v].id[4] <= workspace_revision_
                    /\ client[v].id[4] = workspace_revision_ /\ ~client[v].aged =>
                         \E w \in Opened' :
                             /\ client[v].id[3] = documents_[w].revision
                             /\ client[v].id = ResultId(BuildSnapshot(w)', v)
                             /\ client[v].reported = Diagnostics(BuildSnapshot(w)', v)
  BY DEF ClientInv, ResultId, Diagnostics
<1> QED
  BY SameSnapshots DEF ServerInv, ClientInv

(* A change of a document makes every id the client holds an old one. *)
LEMMA ClientLeftBehind ==
    ASSUME ServerInv, workspace_revision_' = workspace_revision_ + 1,
           \A v \in DOMAIN client' : v \in DOMAIN client /\ client'[v] = client[v]
    PROVE  ClientInv'
<1> SUFFICES ASSUME NEW v \in DOMAIN client'
             PROVE  /\ DOMAIN client'[v] = {"id", "reported", "shown", "aged"}
                    /\ client'[v].id[4] \in Nat
                    /\ client'[v].id[4] <= workspace_revision_'
                    /\ client'[v].id[4] # workspace_revision_'
  BY DEF ClientInv
<1> QED
  BY DEF ServerInv, ClientInv, StoreInv

(* So does a change of the files or of the roots. *)
LEMMA ClientAged ==
    ASSUME ServerInv, client' = Aged, UNCHANGED workspace_revision_
    PROVE  ClientInv'
<1> SUFFICES ASSUME NEW v \in DOMAIN client'
             PROVE  /\ DOMAIN client'[v] = {"id", "reported", "shown", "aged"}
                    /\ client'[v].id[4] \in Nat
                    /\ client'[v].id[4] <= workspace_revision_'
                    /\ client'[v].aged
  BY DEF ClientInv
<1>1. v \in DOMAIN client /\ client'[v] = [client[v] EXCEPT !.aged = TRUE]
  BY DEF Aged
<1>2. /\ DOMAIN client[v] = {"id", "reported", "shown", "aged"}
      /\ client[v].id[4] \in Nat
      /\ client[v].id[4] <= workspace_revision_
  BY <1>1 DEF ServerInv, ClientInv
<1>3. /\ DOMAIN client'[v] = DOMAIN client[v]
      /\ client'[v].id = client[v].id
      /\ client'[v].aged = TRUE
  BY <1>1, <1>2
<1> QED
  BY <1>2, <1>3

LEMMA EmptyCache ==
    ASSUME cache_' = <<>>
    PROVE  CacheInv'
BY DEF CacheInv

LEMMA RootsStep ==
    ASSUME ServerInv, NEW roots, SetWorkspaceRoots(roots), UNCHANGED <<store, outside>>
    PROVE  ServerInv'
<1>1. StoreInv'
  BY DEF ServerInv, StoreInv, store, Opened
<1>2. CacheInv'
  BY EmptyCache DEF SetWorkspaceRoots
<1>3. ClientInv'
  <2>1. CASE roots = workspace_roots_
    BY <2>1, ClientKept DEF SetWorkspaceRoots, store, outside
  <2>2. CASE roots # workspace_roots_
    BY <2>2, ClientAged DEF SetWorkspaceRoots, store
  <2> QED
    BY <2>1, <2>2
<1> QED
  BY <1>1, <1>2, <1>3 DEF ServerInv

LEMMA DidOpenStep ==
    ASSUME ServerInv, NEW u \in Uris, NEW t, DidOpen(u, t)
    PROVE  ServerInv'
<1>1. StoreInv'
  <2>1. /\ Opened' = Opened \cup {u}
        /\ documents_'[u].revision = next_revision_
        /\ DOMAIN documents_'[u] = {"version", "text", "revision"}
        /\ \A w \in Opened : documents_'[w] = documents_[w]
    BY DEF DidOpen, With, Opened
  <2>2. next_revision_' = next_revision_ + 1 /\ workspace_revision_' = workspace_revision_ + 1
    BY DEF DidOpen
  <2> QED
    BY <2>1, <2>2 DEF ServerInv, StoreInv
<1>2. CacheInv'
  BY EmptyCache DEF DidOpen
<1>3. ClientInv'
  BY ClientLeftBehind DEF DidOpen
<1> QED
  BY <1>1, <1>2, <1>3 DEF ServerInv

LEMMA DidChangeStep ==
    ASSUME ServerInv, NEW u \in Uris, NEW t, DidChange(u, t)
    PROVE  ServerInv'
<1>1. StoreInv'
  <2>1. u \in Opened /\ DOMAIN documents_[u] = {"version", "text", "revision"}
    BY DEF DidChange, ServerInv, StoreInv
  <2>2. /\ Opened' = Opened
        /\ documents_'[u].revision = next_revision_
        /\ DOMAIN documents_'[u] = {"version", "text", "revision"}
        /\ \A w \in Opened \ {u} : documents_'[w] = documents_[w]
    BY <2>1 DEF DidChange, Opened
  <2>3. next_revision_' = next_revision_ + 1 /\ workspace_revision_' = workspace_revision_ + 1
    BY DEF DidChange
  <2> QED
    BY <2>1, <2>2, <2>3 DEF ServerInv, StoreInv
<1>2. CacheInv'
  BY EmptyCache DEF DidChange
<1>3. ClientInv'
  BY ClientLeftBehind DEF DidChange
<1> QED
  BY <1>1, <1>2, <1>3 DEF ServerInv

LEMMA DidCloseStep ==
    ASSUME ServerInv, NEW u \in Uris, DidClose(u)
    PROVE  ServerInv'
<1>1. StoreInv'
  <2>1. /\ Opened' = Opened \ {u}
        /\ \A w \in Opened' : documents_'[w] = documents_[w]
    BY DEF DidClose, Without, Opened
  <2>2. next_revision_' = next_revision_ /\ workspace_revision_' = workspace_revision_ + 1
    BY DEF DidClose
  <2> QED
    BY <2>1, <2>2 DEF ServerInv, StoreInv
<1>2. CacheInv'
  BY EmptyCache DEF DidClose
<1>3. ClientInv'
  BY ClientLeftBehind DEF DidClose, Without
<1> QED
  BY <1>1, <1>2, <1>3 DEF ServerInv

(* A change on disk nobody announced yet: the cache keeps its keys. *)
LEMMA SaveStep ==
    ASSUME ServerInv, NEW u \in Uris, NEW t, Save(u, t)
    PROVE  ServerInv'
<1>1. StoreInv'
  BY DEF Save, ServerInv, StoreInv, store, Opened
<1>2. CacheInv'
  BY DEF Save, ServerInv, CacheInv, Served, store, Opened
<1>3. ClientInv'
  BY ClientAged DEF Save, store
<1> QED
  BY <1>1, <1>2, <1>3 DEF ServerInv

LEMMA WatchedStep ==
    ASSUME ServerInv, WatchedFilesChanged
    PROVE  ServerInv'
<1>1. StoreInv'
  BY DEF WatchedFilesChanged, ServerInv, StoreInv, store, Opened
<1>2. CacheInv'
  BY EmptyCache DEF WatchedFilesChanged
<1>3. ClientInv'
  BY ClientKept DEF WatchedFilesChanged, store
<1> QED
  BY <1>1, <1>2, <1>3 DEF ServerInv

(* A step that touches none of this: shutdown, or none at all. *)
LEMMA IdleStep ==
    ASSUME ServerInv, UNCHANGED <<store, workspace_roots_, cache_, outside, client>>
    PROVE  ServerInv'
<1>1. StoreInv'
  BY DEF ServerInv, StoreInv, store, Opened
<1>2. CacheInv'
  <2>1. \A w : BuildSnapshot(w)' = BuildSnapshot(w)
    BY SameSnapshots DEF store, outside
  <2> QED
    BY <2>1 DEF ServerInv, CacheInv, Served, store, outside, Opened
<1>3. ClientInv'
  BY ClientKept DEF store, outside
<1> QED
  BY <1>1, <1>2, <1>3 DEF ServerInv
-----------------------------------------------------------------------------
(* An answer made of the snapshot served for w leaves the client with an   *)
(* id that stands for it.                                                  *)
LEMMA FreshAnswer ==
    ASSUME ServerInv, NEW w \in Opened, NEW v,
           NEW c, c = [id |-> ResultId(SnapshotFor(w), v),
                       reported |-> Diagnostics(SnapshotFor(w), v),
                       shown |-> Diagnostics(SnapshotFor(w), v), aged |-> Outdated(w)]
    PROVE  /\ DOMAIN c = {"id", "reported", "shown", "aged"}
           /\ c.id[4] \in Nat
           /\ c.id[4] <= workspace_revision_
           /\ ~c.aged => /\ c.id[3] = documents_[w].revision
                         /\ c.id = ResultId(BuildSnapshot(w), v)
                         /\ c.reported = Diagnostics(BuildSnapshot(w), v)
<1>1. /\ c.id[3] = documents_[w].revision
      /\ c.id[4] = workspace_revision_
      /\ workspace_revision_ \in Nat
  BY ServedSnapshot DEF ResultId, ServerInv, StoreInv
<1>2. ASSUME ~c.aged PROVE SnapshotFor(w) = BuildSnapshot(w)
  <2>1. ~Outdated(w)
    BY <1>2
  <2> QED
    BY <2>1, ServedSnapshot
<1> QED
  BY <1>1, <1>2

(* The cache after an answer: what was served, or what was there before. *)
LEMMA AnswerCache ==
    ASSUME ServerInv, UNCHANGED <<store, workspace_roots_, outside>>,
           \A u \in DOMAIN cache_' : \/ u \in Opened /\ cache_'[u] = SnapshotFor(u)
                                     \/ u \in DOMAIN cache_ /\ cache_'[u] = cache_[u]
    PROVE  CacheInv'
<1> SUFFICES ASSUME NEW u \in DOMAIN cache_'
             PROVE  /\ u \in Opened'
                    /\ Served(u)'
                    /\ ~unannounced' => cache_'[u] = BuildSnapshot(u)'
  BY DEF CacheInv
<1>1. BuildSnapshot(u)' = BuildSnapshot(u) /\ Opened' = Opened
  BY SameSnapshots DEF store, outside
<1>2. CASE u \in Opened /\ cache_'[u] = SnapshotFor(u)
  BY <1>1, <1>2, ServedSnapshot DEF Served, store, outside, Opened
<1>3. CASE u \in DOMAIN cache_ /\ cache_'[u] = cache_[u]
  BY <1>1, <1>3 DEF ServerInv, CacheInv, Served, store, outside, Opened
<1> QED
  BY <1>2, <1>3

(* An answer leaves documents, files and roots alone, so that what is said *)
(* of the ids the client holds afterwards may be said with the snapshots   *)
(* of before.                                                              *)
LEMMA AnsweredClient ==
    ASSUME UNCHANGED <<store, workspace_roots_, outside>>,
           \A v \in DOMAIN client' :
               /\ DOMAIN client'[v] = {"id", "reported", "shown", "aged"}
               /\ client'[v].id[4] \in Nat
               /\ client'[v].id[4] <= workspace_revision_
               /\ client'[v].id[4] = workspace_revision_ /\ ~client'[v].aged =>
                    \E w \in Opened :
                        /\ client'[v].id[3] = documents_[w].revision
                        /\ client'[v].id = ResultId(BuildSnapshot(w), v)
                        /\ client'[v].reported = Diagnostics(BuildSnapshot(w), v)
    PROVE  ClientInv'
<1> SUFFICES ASSUME NEW v \in DOMAIN client'
             PROVE  /\ DOMAIN client'[v] = {"id", "reported", "shown", "aged"}
                    /\ client'[v].id[4] \in Nat
                    /\ client'[v].id[4] <= workspace_revision_
                    /\ client'[v].id[4] = workspace_revision_ /\ ~client'[v].aged =>
                         \E w \in Opened' :
                             /\ client'[v].id[3] = documents_[w].revision
                             /\ client'[v].id = ResultId(BuildSnapshot(w)', v)
                             /\ client'[v].reported = Diagnostics(BuildSnapshot(w)', v)
  BY DEF ClientInv, ResultId, Diagnostics, store
<1>1. Opened' = Opened /\ \A w : BuildSnapshot(w)' = BuildSnapshot(w)
  BY SameSnapshots DEF store, outside
<1> QED
  BY <1>1

LEMMA TextDocumentDiagnosticStep ==
    ASSUME ServerInv, NEW u \in Uris, TextDocumentDiagnostic(u)
    PROVE  ServerInv'
<1> DEFINE id    == ResultId(SnapshotFor(u), u)
           fresh == [id |-> id, reported |-> Diagnostics(SnapshotFor(u), u),
                     shown |-> Diagnostics(SnapshotFor(u), u), aged |-> Outdated(u)]
<1>1. /\ u \in Opened
      /\ cache_' = With(cache_, u, SnapshotFor(u))
      /\ client' = With(client, u, IF Holds(u, id) THEN [client[u] EXCEPT !.shown = {}]
                                   ELSE fresh)
      /\ UNCHANGED <<flags, store, workspace_roots_, outside>>
  BY DEF TextDocumentDiagnostic
<1>2. StoreInv'
  BY <1>1 DEF ServerInv, StoreInv, store, Opened
<1>3. CacheInv'
  BY <1>1, AnswerCache DEF With
<1>4. ASSUME NEW v \in DOMAIN client'
      PROVE  /\ DOMAIN client'[v] = {"id", "reported", "shown", "aged"}
             /\ client'[v].id[4] \in Nat
             /\ client'[v].id[4] <= workspace_revision_
             /\ client'[v].id[4] = workspace_revision_ /\ ~client'[v].aged =>
                  \E w \in Opened :
                      /\ client'[v].id[3] = documents_[w].revision
                      /\ client'[v].id = ResultId(BuildSnapshot(w), v)
                      /\ client'[v].reported = Diagnostics(BuildSnapshot(w), v)
  <2>1. CASE v # u
    <3>1. v \in DOMAIN client /\ client'[v] = client[v]
      BY <1>1, <2>1 DEF With
    <3> QED
      BY <3>1 DEF ServerInv, ClientInv
  <2>2. CASE v = u /\ Holds(u, id)
    <3>1. v \in DOMAIN client /\ client'[v] = [client[v] EXCEPT !.shown = {}]
      BY <1>1, <2>2 DEF With, Holds
    <3>2. DOMAIN client[v] = {"id", "reported", "shown", "aged"}
      BY <3>1 DEF ServerInv, ClientInv
    <3>3. /\ DOMAIN client'[v] = DOMAIN client[v]
          /\ client'[v].id = client[v].id
          /\ client'[v].reported = client[v].reported
          /\ client'[v].aged = client[v].aged
      BY <3>1, <3>2
    <3> QED
      BY <3>1, <3>3 DEF ServerInv, ClientInv
  <2>3. CASE v = u /\ ~Holds(u, id)
    <3>1. client'[v] = fresh
      BY <1>1, <2>3 DEF With
    <3> HIDE DEF fresh
    <3>2. /\ DOMAIN fresh = {"id", "reported", "shown", "aged"}
          /\ fresh.id[4] \in Nat
          /\ fresh.id[4] <= workspace_revision_
          /\ ~fresh.aged => /\ fresh.id[3] = documents_[u].revision
                            /\ fresh.id = ResultId(BuildSnapshot(u), u)
                            /\ fresh.reported = Diagnostics(BuildSnapshot(u), u)
      BY <1>1, FreshAnswer DEF fresh
    <3> QED
      BY <1>1, <2>3, <3>1, <3>2
  <2> QED
    BY <2>1, <2>2, <2>3
<1>5. ClientInv'
  BY <1>1, <1>4, AnsweredClient
<1> QED
  BY <1>2, <1>3, <1>5 DEF ServerInv

(* Of the snapshots of the open documents, the first in the order that has *)
(* a source is the one that reports it.                                    *)
LEMMA OwnerIsOpen ==
    ASSUME ServerInv, ServerAssumption, NEW order \in SetToSeqs(Opened), NEW f, NEW v,
           \E u \in Opened : v \in DOMAIN f[u].sources
    PROVE  order[CHOOSE i \in DOMAIN order :
                     /\ v \in DOMAIN f[order[i]].sources
                     /\ \A j \in 1..(i - 1) : v \notin DOMAIN f[order[j]].sources] \in Opened
<1> DEFINE n == Cardinality(Opened)
           T == {i \in 1..n : v \in DOMAIN f[order[i]].sources}
<1>1. IsFiniteSet(Opened)
  BY FS_Subset DEF ServerInv, StoreInv, ServerAssumption
<1>2. PICK u \in Opened : v \in DOMAIN f[u].sources
  OBVIOUS
<1>3. /\ n \in Nat
      /\ order \in [1..n -> Opened]
      /\ \E i \in 1..n : order[i] = u
  BY <1>1, <1>2, OrderReaches
<1>4. T # {} /\ T \in SUBSET (1..n)
  BY <1>2, <1>3
<1>5. PICK i \in T : \A j \in 1..(i - 1) : j \notin T
  <2> HIDE DEF T, n
  <2> QED
    BY <1>3, <1>4, FirstPosition
<1>6. /\ i \in DOMAIN order
      /\ v \in DOMAIN f[order[i]].sources
      /\ \A j \in 1..(i - 1) : v \notin DOMAIN f[order[j]].sources
  BY <1>3, <1>5
<1> QED
  BY <1>3, <1>6

LEMMA WorkspaceDiagnosticStep ==
    ASSUME ServerInv, ServerAssumption, WorkspaceDiagnostic
    PROVE  ServerInv'
<1> DEFINE snapshots == [u \in Opened |-> SnapshotFor(u)]
           emitted   == UNION {DOMAIN snapshots[u].sources : u \in Opened}
<1>1. PICK order \in SetToSeqs(Opened) :
        LET owner(v) == order[CHOOSE i \in DOMAIN order :
                                /\ v \in DOMAIN snapshots[order[i]].sources
                                /\ \A j \in 1..(i - 1) :
                                     v \notin DOMAIN snapshots[order[j]].sources]
            first(v) == snapshots[owner(v)]
        IN  /\ cache_' = snapshots
            /\ client' = [v \in DOMAIN client \cup emitted |->
                   IF v \notin emitted \/ Holds(v, ResultId(first(v), v)) THEN client[v]
                   ELSE [id       |-> ResultId(first(v), v),
                         reported |-> Diagnostics(first(v), v),
                         shown    |-> Diagnostics(first(v), v),
                         aged     |-> Outdated(owner(v))]]
            /\ UNCHANGED <<flags, store, workspace_roots_, outside>>
  BY DEF WorkspaceDiagnostic
<1> DEFINE owner(v) == order[CHOOSE i \in DOMAIN order :
                                /\ v \in DOMAIN snapshots[order[i]].sources
                                /\ \A j \in 1..(i - 1) :
                                     v \notin DOMAIN snapshots[order[j]].sources]
           fresh(v, u) == [id       |-> ResultId(SnapshotFor(u), v),
                           reported |-> Diagnostics(SnapshotFor(u), v),
                           shown    |-> Diagnostics(SnapshotFor(u), v),
                           aged     |-> Outdated(u)]
<1>2. \A v \in emitted : owner(v) \in Opened
  <2> TAKE v \in emitted
  <2>1. \E u \in Opened : v \in DOMAIN snapshots[u].sources
    OBVIOUS
  <2> HIDE DEF snapshots
  <2> QED
    BY <2>1, OwnerIsOpen
<1>3. StoreInv'
  BY <1>1 DEF ServerInv, StoreInv, store, Opened
<1>4. CacheInv'
  BY <1>1, AnswerCache
<1>5. ASSUME NEW v \in DOMAIN client'
      PROVE  /\ DOMAIN client'[v] = {"id", "reported", "shown", "aged"}
             /\ client'[v].id[4] \in Nat
             /\ client'[v].id[4] <= workspace_revision_
             /\ client'[v].id[4] = workspace_revision_ /\ ~client'[v].aged =>
                  \E w \in Opened :
                      /\ client'[v].id[3] = documents_[w].revision
                      /\ client'[v].id = ResultId(BuildSnapshot(w), v)
                      /\ client'[v].reported = Diagnostics(BuildSnapshot(w), v)
  <2>1. CASE v \in DOMAIN client /\ client'[v] = client[v]
    BY <2>1 DEF ServerInv, ClientInv
  <2>2. CASE \E u \in Opened : client'[v] = fresh(v, u)
    <3>1. PICK u \in Opened : client'[v] = fresh(v, u)
      BY <2>2
    <3>2. /\ DOMAIN fresh(v, u) = {"id", "reported", "shown", "aged"}
          /\ fresh(v, u).id[4] \in Nat
          /\ fresh(v, u).id[4] <= workspace_revision_
          /\ ~fresh(v, u).aged =>
               /\ fresh(v, u).id[3] = documents_[u].revision
               /\ fresh(v, u).id = ResultId(BuildSnapshot(u), v)
               /\ fresh(v, u).reported = Diagnostics(BuildSnapshot(u), v)
      BY FreshAnswer
    <3> HIDE DEF fresh
    <3> QED
      BY <3>1, <3>2
  <2>3. \/ v \in DOMAIN client /\ client'[v] = client[v]
        \/ \E u \in Opened : client'[v] = fresh(v, u)
    <3>1. CASE v \in emitted
      <4>1. owner(v) \in Opened /\ snapshots[owner(v)] = SnapshotFor(owner(v))
        BY <1>2, <3>1
      <4>2. client'[v] = IF Holds(v, ResultId(snapshots[owner(v)], v)) THEN client[v]
                         ELSE [id       |-> ResultId(snapshots[owner(v)], v),
                               reported |-> Diagnostics(snapshots[owner(v)], v),
                               shown    |-> Diagnostics(snapshots[owner(v)], v),
                               aged     |-> Outdated(owner(v))]
        BY <1>1, <3>1
      <4> HIDE DEF owner, snapshots
      <4> QED
        BY <4>1, <4>2 DEF Holds
    <3>2. CASE v \notin emitted
      BY <1>1, <3>2
    <3> QED
      BY <3>1, <3>2
  <2> QED
    BY <2>1, <2>2, <2>3
<1>6. ClientInv'
  BY <1>1, <1>5, AnsweredClient
<1> QED
  BY <1>3, <1>4, <1>6 DEF ServerInv
-----------------------------------------------------------------------------
LEMMA ServerStep ==
    ASSUME ServerInv, ServerAssumption, [ServerNext]_server
    PROVE  ServerInv'
<1>1. ASSUME NEW roots \in BOOLEAN, Initialize(roots) PROVE ServerInv'
  BY <1>1, RootsStep DEF Initialize
<1>2. CASE WorkspaceFoldersChanged
  BY <1>2, RootsStep DEF WorkspaceFoldersChanged
<1>3. ASSUME NEW u \in Uris, NEW t \in Texts, DidOpen(u, t) \/ DidChange(u, t) \/ Save(u, t)
      PROVE  ServerInv'
  BY <1>3, DidOpenStep, DidChangeStep, SaveStep
<1>4. ASSUME NEW u \in Uris, DidClose(u) \/ TextDocumentDiagnostic(u) PROVE ServerInv'
  BY <1>4, DidCloseStep, TextDocumentDiagnosticStep
<1>5. CASE WatchedFilesChanged
  BY <1>5, WatchedStep
<1>6. CASE WorkspaceDiagnostic
  BY <1>6, WorkspaceDiagnosticStep
<1>7. CASE Shutdown
  BY <1>7, IdleStep DEF Shutdown
<1>8. CASE UNCHANGED server
  BY <1>8, IdleStep DEF server
<1> QED
  BY <1>1, <1>2, <1>3, <1>4, <1>5, <1>6, <1>7, <1>8 DEF ServerNext

(* However many files there are, whatever they import and in whatever      *)
(* order the client opens, edits, closes and asks and the files change on  *)
(* disk: a snapshot served from the cache is the one that would be built,  *)
(* once changes on disk are announced, and a result id stands for one set  *)
(* of diagnostics.                                                         *)
THEOREM CurrentAnswers ==
    ASSUME ServerAssumption
    PROVE  ServerSpec => []AnswersAreCurrent
<1>1. ServerInit => ServerInv
  BY DEF ServerInit, ServerInv, StoreInv, CacheInv, ClientInv, Opened
<1>2. ServerInv /\ [ServerNext]_server => ServerInv'
  BY ServerStep
<1>3. ServerInv => AnswersAreCurrent
  BY InvariantAnswers
<1> QED
  BY <1>1, <1>2, <1>3, PTL DEF ServerSpec
-----------------------------------------------------------------------------
(*                            SecretRotation                               *)

LEMMA AnyKeyIsKey ==
    ASSUME SecretsAssumption
    PROVE  AnyKey \in AllKeys
BY DEF SecretsAssumption, AnyKey, AllKeys

(* max(1, n) *)
LEMMA MaxWithOne ==
    ASSUME NEW n \in Nat
    PROVE  Max({1, n}) \in Nat /\ Max({1, n}) >= 1
<1>1. \E x \in {1, n} : \A y \in {1, n} : x >= y
  <2>1. CASE n >= 1
    BY <2>1
  <2>2. CASE ~(n >= 1)
    BY <2>2
  <2>3. QED
    BY <2>1, <2>2
<1>2. Max({1, n}) \in {1, n} /\ \A y \in {1, n} : Max({1, n}) >= y
  BY <1>1 DEF Max
<1>3. QED
  BY <1>2

(* Every rotation makes an attempt, even when the count of them wraps. *)
LEMMA AttemptsPositive ==
    ASSUME SecretsAssumption, TypeOK, NEW k
    PROVE  MaxAttempts(k) \in Nat /\ MaxAttempts(k) >= 1
<1>1. CASE k \in DOMAIN policies
  <2>1. policies[k] \in Nat /\ Width \in Nat \ {0}
    BY <1>1 DEF TypeOK, SecretsAssumption
  <2>2. (policies[k] + 1) % Width \in Nat
    BY <2>1
  <2>3. QED
    BY <1>1, <2>2, MaxWithOne DEF MaxAttempts
<1>2. CASE k \notin DOMAIN policies
  BY <1>2 DEF MaxAttempts
<1>3. QED
  BY <1>1, <1>2

(* What the chain may answer, and what it then keeps. *)
LEMMA ResolvedValue ==
    ASSUME TypeOK, NEW k \in AllKeys, NEW kept \in [Cached -> SUBSET Nat],
           NEW value \in Resolutions(k, kept)
    PROVE  /\ value \subseteq Nat
           /\ Keep(k, kept, value) \in [Cached -> SUBSET Nat]
           /\ \A j \in Cached : j # k => Keep(k, kept, value)[j] = kept[j]
           /\ value = {} => Keep(k, kept, value) = kept
           /\ k \in Cached /\ value # {} => Keep(k, kept, value)[k] = value
           /\ \A v \in value : v = service[k] \/ (k \in Cached /\ v \in kept[k])
           /\ k \in Vaulted /\ ~authenticated => value = {}
<1>1. /\ \/ value = {} \/ value = {service[k]} \/ (k \in Cached /\ value = kept[k])
      /\ k \in Vaulted /\ ~authenticated => value = {}
  BY DEF Resolutions, AllKeys, Cached
<1>2. value \subseteq Nat
  BY <1>1 DEF TypeOK
<1>3. QED
  BY <1>1, <1>2 DEF Keep

(* Asking for a key keeps the caches no older than the last good rotation, *)
(* and an empty vault empty.                                               *)
LEMMA CacheKept ==
    ASSUME TypeOK, NEW k \in AllKeys, NEW kept \in [Cached -> SUBSET Nat],
           NEW value \in Resolutions(k, kept),
           \A j \in AllKeys : floor[j] <= service[j],
           \A j \in Cached : \A v \in kept[j] : v >= floor[j],
           ~authenticated => \A j \in Vaulted : kept[j] = {}
    PROVE  /\ \A j \in Cached : \A v \in Keep(k, kept, value)[j] : v >= floor[j]
           /\ ~authenticated => \A j \in Vaulted : Keep(k, kept, value)[j] = {}
<1>1. ASSUME NEW j \in Cached, NEW v \in Keep(k, kept, value)[j] PROVE v >= floor[j]
  <2>1. CASE j # k \/ value = {}
    BY <2>1, ResolvedValue
  <2>2. CASE j = k /\ value # {}
    <3>1. v \in value
      BY <2>2, <1>1, ResolvedValue
    <3>2. v = service[k] \/ v \in kept[k]
      BY <3>1, ResolvedValue
    <3>3. service[k] >= floor[k]
      BY DEF TypeOK
    <3>4. QED
      BY <2>2, <3>2, <3>3
  <2>3. QED
    BY <2>1, <2>2
<1>2. ASSUME ~authenticated, NEW j \in Vaulted PROVE Keep(k, kept, value)[j] = {}
  <2>1. j \in Cached
    BY DEF Cached
  <2>2. CASE j # k
    BY <1>2, <2>1, <2>2, ResolvedValue
  <2>3. CASE j = k
    BY <1>2, <2>3, ResolvedValue
  <2>4. QED
    BY <2>2, <2>3
<1>3. QED
  BY <1>1, <1>2

LEMMA DroppedFacts ==
    ASSUME TypeOK, NEW k
    PROVE  /\ Dropped(k) \in [Cached -> SUBSET Nat]
           /\ k \in Cached => Dropped(k)[k] = {}
           /\ \A j \in Cached : j # k => Dropped(k)[j] = cache[j]
BY DEF Dropped, TypeOK

LEMMA FreshInit ==
    ASSUME SecretsAssumption, RotationInit
    PROVE  FreshInv
<1>1. /\ AnyKey \in AllKeys /\ DOMAIN policies = {}
      /\ now = {} /\ todo = {} /\ pc = "idle" /\ event.status = "Idle"
      /\ service = [k \in AllKeys |-> 1] /\ floor = [k \in AllKeys |-> 0]
      /\ cache = [k \in Cached |-> {}]
  BY AnyKeyIsKey DEF RotationInit
<1>2. TypeOK
  BY <1>1 DEF RotationInit, TypeOK
<1>3. \A k \in Cached : cache[k] = {}
  BY <1>1
<1>4. RotationIsFresh
  BY <1>1, <1>3 DEF RotationIsFresh, Cached
<1>5. QED
  BY <1>1, <1>2, <1>4 DEF FreshInv, Rotating

(* What the invariant says of the caches. *)
LEMMA FreshCaches ==
    ASSUME FreshInv
    PROVE  /\ TypeOK
           /\ \A j \in AllKeys : floor[j] <= service[j]
           /\ \A j \in Cached : \A v \in cache[j] : v >= floor[j]
           /\ ~authenticated => \A j \in Vaulted : cache[j] = {}
           /\ \A k : /\ \A j \in Cached : \A v \in Dropped(k)[j] : v >= floor[j]
                     /\ ~authenticated => \A j \in Vaulted : Dropped(k)[j] = {}
<1>1. /\ TypeOK
      /\ \A j \in AllKeys : floor[j] <= service[j]
      /\ \A j \in Cached : \A v \in cache[j] : v >= floor[j]
      /\ ~authenticated => \A j \in Vaulted : cache[j] = {}
  BY DEF FreshInv, RotationIsFresh
<1>2. ASSUME NEW k, NEW j \in Cached PROVE Dropped(k)[j] \in {cache[j], {}}
  BY <1>1, DroppedFacts
<1>3. Vaulted \subseteq Cached
  BY DEF Cached
<1>4. QED
  BY <1>1, <1>2, <1>3

(* An operation between two rotations touches caches, the session and the  *)
(* policies alone.                                                         *)
LEMMA IdleFresh ==
    ASSUME FreshInv, pc = "idle",
           UNCHANGED <<rotation, world, last_rotation, floor>>,
           cache' \in [Cached -> SUBSET Nat],
           DOMAIN policies' \subseteq AllKeys,
           \A k \in DOMAIN policies' : policies'[k] \in Retries,
           \A j \in Cached : \A v \in cache'[j] : v >= floor[j],
           ~authenticated' => \A j \in Vaulted : cache'[j] = {}
    PROVE  FreshInv'
<1>1. /\ pc' = "idle" /\ now = {} /\ ~Rotating'
      /\ UNCHANGED <<key, attempts, old, new, began, todo, now, failed, event, started,
                     service, clock, last_rotation, floor>>
  BY DEF FreshInv, rotation, world, Rotating
<1>2. TypeOK'
  BY <1>1 DEF FreshInv, TypeOK
<1>3. RotationIsFresh'
  BY <1>1 DEF FreshInv, RotationIsFresh
<1>4. QED
  BY <1>1, <1>2, <1>3 DEF FreshInv

LEMMA OperationsFresh ==
    ASSUME SecretsAssumption, FreshInv, NEW k \in AllKeys,
           Get(k) \/ Refresh(k) \/ RemovePolicy(k) \/ \E r \in Retries : AddPolicy(k, r)
    PROVE  FreshInv'
<1>1. /\ cache \in [Cached -> SUBSET Nat] /\ Dropped(k) \in [Cached -> SUBSET Nat]
      /\ DOMAIN policies \subseteq AllKeys /\ \A j \in DOMAIN policies : policies[j] \in Retries
  BY FreshCaches, DroppedFacts DEF TypeOK
<1>2. CASE Get(k)
  <2>1. PICK value \in Resolutions(k, cache) : cache' = Keep(k, cache, value)
    BY <1>2 DEF Get
  <2>2. /\ cache' \in [Cached -> SUBSET Nat]
        /\ \A j \in Cached : \A v \in cache'[j] : v >= floor[j]
        /\ ~authenticated => \A j \in Vaulted : cache'[j] = {}
    BY <1>1, <2>1, FreshCaches, ResolvedValue, CacheKept
  <2>3. /\ pc = "idle" /\ UNCHANGED <<rotation, world, last_rotation, floor>>
        /\ UNCHANGED <<policies, authenticated>>
    BY <1>2 DEF Get, Begin, manager
  <2>4. QED
    BY <1>1, <2>2, <2>3, IdleFresh
<1>3. CASE Refresh(k)
  <2>1. PICK value \in Resolutions(k, Dropped(k)) : cache' = Keep(k, Dropped(k), value)
    BY <1>3 DEF Refresh
  <2>2. /\ cache' \in [Cached -> SUBSET Nat]
        /\ \A j \in Cached : \A v \in cache'[j] : v >= floor[j]
        /\ ~authenticated => \A j \in Vaulted : cache'[j] = {}
    BY <1>1, <2>1, FreshCaches, ResolvedValue, CacheKept
  <2>3. /\ pc = "idle" /\ UNCHANGED <<rotation, world, last_rotation, floor>>
        /\ UNCHANGED <<policies, authenticated>>
    BY <1>3 DEF Refresh, Begin, manager
  <2>4. QED
    BY <1>1, <2>2, <2>3, IdleFresh
<1>4. CASE RemovePolicy(k) \/ \E r \in Retries : AddPolicy(k, r)
  <2>1. /\ pc = "idle" /\ UNCHANGED <<rotation, world, last_rotation, floor>>
        /\ UNCHANGED <<cache, authenticated>>
    BY <1>4 DEF RemovePolicy, AddPolicy, Begin
  <2>2. DOMAIN policies' \subseteq AllKeys /\ \A j \in DOMAIN policies' : policies'[j] \in Retries
    BY <1>1, <1>4 DEF RemovePolicy, AddPolicy
  <2>3. QED
    BY <1>1, <2>1, <2>2, FreshCaches, IdleFresh
<1>5. QED
  BY <1>2, <1>3, <1>4

LEMMA SessionFresh ==
    ASSUME FreshInv, Authenticate \/ RevokeToken
    PROVE  FreshInv'
<1>1. /\ cache \in [Cached -> SUBSET Nat]
      /\ DOMAIN policies \subseteq AllKeys /\ \A j \in DOMAIN policies : policies[j] \in Retries
      /\ Vaulted \subseteq Cached
  BY FreshCaches DEF TypeOK, Cached
<1>2. CASE Authenticate
  <2>1. /\ pc = "idle" /\ UNCHANGED <<rotation, world, last_rotation, floor>>
        /\ UNCHANGED <<policies, cache>>
    BY <1>2 DEF Authenticate, Begin, manager
  <2>2. ~authenticated' => ~authenticated
    BY <1>2, Zenon DEF Authenticate
  <2>3. QED
    BY <1>1, <2>1, <2>2, FreshCaches, IdleFresh
<1>3. CASE RevokeToken
  <2>1. /\ pc = "idle" /\ UNCHANGED <<rotation, world, last_rotation, floor>>
        /\ UNCHANGED policies
        /\ cache' = [k \in Cached |-> IF k \in Vaulted THEN {} ELSE cache[k]]
    BY <1>3 DEF RevokeToken, Begin, manager
  <2>2. /\ cache' \in [Cached -> SUBSET Nat]
        /\ \A j \in Cached : \A v \in cache'[j] : v >= floor[j]
        /\ \A j \in Vaulted : cache'[j] = {}
    BY <1>1, <2>1, FreshCaches
  <2>3. QED
    BY <1>1, <2>1, <2>2, IdleFresh
<1>4. QED
  BY <1>2, <1>3

(* A rotation begins. *)
LEMMA StartFacts ==
    ASSUME FreshInv, NEW k \in AllKeys, StartRotation(k)
    PROVE  /\ cache' \in [Cached -> SUBSET Nat]
           /\ \A j \in Cached : \A v \in cache'[j] : v >= floor[j]
           /\ ~authenticated => \A j \in Vaulted : cache'[j] = {}
           /\ key' = k /\ attempts' = 0 /\ new' = {} /\ began' = clock
           /\ started' = service[k] /\ pc' = "refresh"
<1>1. old' \in Resolutions(k, cache) /\ cache' = Keep(k, cache, old')
  BY DEF StartRotation
<1>2. cache \in [Cached -> SUBSET Nat]
  BY FreshCaches DEF TypeOK
<1>3. /\ cache' \in [Cached -> SUBSET Nat]
      /\ \A j \in Cached : \A v \in cache'[j] : v >= floor[j]
      /\ ~authenticated => \A j \in Vaulted : cache'[j] = {}
  BY <1>1, <1>2, FreshCaches, ResolvedValue, CacheKept
<1>4. QED
  BY <1>3 DEF StartRotation

LEMMA RotateKeyFresh ==
    ASSUME FreshInv, NEW k \in AllKeys, RotateKey(k)
    PROVE  FreshInv'
<1>1. /\ pc = "idle" /\ now = {} /\ StartRotation(k)
      /\ UNCHANGED <<todo, now, failed, event, service, clock, policies, last_rotation, floor,
                     authenticated>>
  BY DEF RotateKey, Begin, world, manager, FreshInv
<1>2. /\ cache' \in [Cached -> SUBSET Nat]
      /\ \A j \in Cached : \A v \in cache'[j] : v >= floor[j]
      /\ ~authenticated => \A j \in Vaulted : cache'[j] = {}
      /\ key' = k /\ attempts' = 0 /\ new' = {} /\ began' = clock
      /\ started' = service[k] /\ pc' = "refresh"
  BY <1>1, StartFacts
<1>3. TypeOK'
  BY <1>1, <1>2 DEF FreshInv, TypeOK
<1>4. RotationIsFresh'
  BY <1>1, <1>2 DEF FreshInv, RotationIsFresh
<1>5. started' <= service'[key']
  BY <1>1, <1>2, <1>3 DEF TypeOK
<1>6. QED
  BY <1>1, <1>2, <1>3, <1>4, <1>5 DEF FreshInv

LEMMA CheckAndRotateFresh ==
    ASSUME FreshInv, CheckAndRotate
    PROVE  FreshInv'
<1>1. /\ pc' = "check" /\ todo' = DOMAIN policies /\ now' = {clock} /\ failed' = {}
      /\ UNCHANGED <<key, attempts, new, began, event, started, service, clock, policies,
                     last_rotation, floor, cache, authenticated>>
  BY DEF CheckAndRotate, world, manager
<1>2. TypeOK'
  BY <1>1 DEF FreshInv, TypeOK
<1>3. RotationIsFresh'
  BY <1>1 DEF FreshInv, RotationIsFresh
<1>4. \A n \in now' : n <= clock'
  BY <1>1 DEF FreshInv, TypeOK
<1>5. QED
  BY <1>1, <1>2, <1>3, <1>4 DEF FreshInv, Rotating

LEMMA CheckKeyFresh ==
    ASSUME SecretsAssumption, FreshInv, NEW k \in AllKeys, CheckKey(k)
    PROVE  FreshInv'
<1>1. /\ pc = "check" /\ k \in todo /\ todo' = todo \ {k}
      /\ UNCHANGED <<now, failed, event, service, clock, policies, last_rotation, floor,
                     authenticated>>
  BY DEF CheckKey, world, manager
<1>2. /\ TypeOK /\ RotationIsFresh /\ \A j \in AllKeys : floor[j] <= service[j]
      /\ \A n \in now : n <= clock
      /\ \A j \in DOMAIN policies \ todo : Settled(j)
  BY <1>1 DEF FreshInv
<1>3. \A j : Settled(j)' <=> Settled(j)
  BY <1>1 DEF Settled
<1>4. CASE Due(k)
  <2>1. /\ cache' \in [Cached -> SUBSET Nat]
        /\ \A j \in Cached : \A v \in cache'[j] : v >= floor[j]
        /\ ~authenticated => \A j \in Vaulted : cache'[j] = {}
        /\ key' = k /\ attempts' = 0 /\ new' = {} /\ began' = clock
        /\ started' = service[k] /\ pc' = "refresh"
    BY <1>4, StartFacts DEF CheckKey
  <2>2. TypeOK'
    BY <1>1, <1>2, <2>1 DEF TypeOK
  <2>3. RotationIsFresh'
    BY <1>1, <1>2, <2>1 DEF RotationIsFresh
  <2>4. started' <= service'[key'] /\ \A n \in now' : n <= began'
    BY <1>1, <1>2, <2>1, <2>2 DEF TypeOK
  <2>5. \A j \in DOMAIN policies' \ (todo' \cup {key'}) : Settled(j)'
    BY <1>1, <1>2, <1>3, <2>1
  <2>6. QED
    BY <1>1, <1>2, <2>1, <2>2, <2>3, <2>4, <2>5 DEF FreshInv
<1>5. CASE ~Due(k)
  <2>1. UNCHANGED <<key, attempts, new, began, started, cache, pc>>
    BY <1>5 DEF CheckKey
  <2>2. Settled(k)
    <3>1. PICK t \in last_rotation[k], n \in now : ~(n - t >= Interval)
      BY <1>5 DEF Due
    <3>2. t \in Int /\ n \in Int /\ Interval \in Int
      BY <1>2 DEF TypeOK, SecretsAssumption
    <3>3. n - t < Interval
      BY <3>1, <3>2
    <3>4. QED
      BY <3>3 DEF Settled
  <2>3. TypeOK' /\ RotationIsFresh'
    BY <1>1, <1>2, <2>1 DEF TypeOK, RotationIsFresh
  <2>4. \A j \in DOMAIN policies' \ todo' : Settled(j)'
    BY <1>1, <1>2, <1>3, <2>2
  <2>5. pc' = "check" /\ ~Rotating'
    BY <1>1, <2>1 DEF Rotating
  <2>6. QED
    BY <1>1, <1>2, <2>1, <2>3, <2>4, <2>5 DEF FreshInv
<1>6. QED
  BY <1>4, <1>5

LEMMA CheckEndsFresh ==
    ASSUME FreshInv, CheckDone \/ CheckReturned
    PROVE  FreshInv'
<1>1. CASE CheckDone
  <2>1. /\ pc = "check" /\ todo = {} /\ pc' = "checked"
        /\ UNCHANGED <<key, attempts, new, began, todo, now, failed, event, started, service,
                       clock, policies, last_rotation, floor, cache, authenticated>>
    BY <1>1 DEF CheckDone, world, manager
  <2>2. \A j \in DOMAIN policies' : Settled(j)'
    BY <2>1 DEF FreshInv, Settled
  <2>3. TypeOK' /\ RotationIsFresh' /\ ~Rotating'
    BY <2>1, <2>2 DEF FreshInv, TypeOK, RotationIsFresh, Rotating
  <2>4. QED
    BY <2>1, <2>2, <2>3 DEF FreshInv
<1>2. CASE CheckReturned
  <2>1. /\ pc' = "idle" /\ now' = {}
        /\ UNCHANGED <<key, attempts, new, began, todo, event, started, service,
                       clock, policies, last_rotation, floor, cache, authenticated>>
    BY <1>2 DEF CheckReturned, world, manager
  <2>2. TypeOK' /\ RotationIsFresh' /\ ~Rotating'
    BY <2>1 DEF FreshInv, TypeOK, RotationIsFresh, Rotating
  <2>3. QED
    BY <2>1, <2>2 DEF FreshInv
<1>3. QED
  BY <1>1, <1>2

(* What stays while a rotation goes on. *)
LEMMA RotatingFresh ==
    ASSUME FreshInv, Rotating, Rotating',
           UNCHANGED <<key, began, todo, now, failed, event, started, service, clock,
                       policies, last_rotation, floor, authenticated>>,
           cache' \in [Cached -> SUBSET Nat], attempts' \in Nat, new' \subseteq Nat,
           \A j \in Cached : \A v \in cache'[j] : v >= floor[j],
           ~authenticated => \A j \in Vaulted : cache'[j] = {},
           pc' = "resolve" => \A k \in Cached \cap {key} : \A v \in cache'[k] : v >= started,
           pc' = "record" =>
              /\ \A v \in new' : v >= started
              /\ IF new' = {} THEN attempts' = MaxAttempts(key)
                 ELSE \A k \in Cached \cap {key} : cache'[k] = new'
    PROVE  FreshInv'
<1>1. TypeOK' /\ pc' \in {"refresh", "resolve", "record"}
  BY DEF FreshInv, TypeOK, Rotating
<1>2. RotationIsFresh'
  BY <1>1 DEF FreshInv, RotationIsFresh
<1>3. /\ MaxAttempts(key)' = MaxAttempts(key)
      /\ \A k : Settled(k)' <=> Settled(k)
  BY DEF MaxAttempts, Settled
<1>4. QED
  BY <1>1, <1>2, <1>3 DEF FreshInv

LEMMA TryRefreshFresh ==
    ASSUME FreshInv, TryRefresh
    PROVE  FreshInv'
<1>1. /\ pc = "refresh" /\ pc' = "resolve" /\ attempts' = attempts + 1
      /\ UNCHANGED <<key, new, began, todo, now, failed, event, started, service, clock,
                     policies, last_rotation, floor, authenticated>>
  BY DEF TryRefresh, world, manager
<1>2. PICK value \in Resolutions(key, Dropped(key)) : cache' = Keep(key, Dropped(key), value)
  BY DEF TryRefresh
<1>3. /\ TypeOK /\ key \in AllKeys /\ Dropped(key) \in [Cached -> SUBSET Nat]
      /\ started <= service[key] /\ started \in Nat /\ service[key] \in Nat
  BY <1>1, FreshCaches, DroppedFacts DEF TypeOK, FreshInv, Rotating
<1>4. /\ cache' \in [Cached -> SUBSET Nat]
      /\ \A j \in Cached : \A v \in cache'[j] : v >= floor[j]
      /\ ~authenticated => \A j \in Vaulted : cache'[j] = {}
  BY <1>2, <1>3, FreshCaches, ResolvedValue, CacheKept
<1>5. ASSUME key \in Cached, NEW v \in cache'[key] PROVE v >= started
  <2>1. Dropped(key)[key] = {}
    BY <1>3, <1>5, DroppedFacts
  <2>2. value # {} => cache'[key] = value
    BY <1>2, <1>3, <1>5, ResolvedValue
  <2>3. value = {} => cache'[key] = {}
    BY <1>2, <1>3, <2>1, ResolvedValue
  <2>4. \A u \in value : u = service[key]
    BY <1>3, <2>1, ResolvedValue
  <2>5. QED
    BY <1>3, <1>5, <2>2, <2>3, <2>4
<1>6. attempts' \in Nat /\ new' \subseteq Nat /\ Rotating /\ Rotating'
  BY <1>1, <1>3 DEF TypeOK, Rotating
<1>7. QED
  BY <1>1, <1>4, <1>5, <1>6, RotatingFresh

LEMMA TryResolveFresh ==
    ASSUME FreshInv, TryResolve
    PROVE  FreshInv'
<1>1. /\ pc = "resolve" /\ new' \in Resolutions(key, cache) /\ cache' = Keep(key, cache, new')
      /\ pc' = IF new' # {} \/ attempts = MaxAttempts(key) THEN "record" ELSE "refresh"
      /\ UNCHANGED <<key, attempts, began, todo, now, failed, event, started, service, clock,
                     policies, last_rotation, floor, authenticated>>
  BY DEF TryResolve, world, manager
<1>2. /\ TypeOK /\ key \in AllKeys /\ cache \in [Cached -> SUBSET Nat]
      /\ started <= service[key] /\ started \in Nat /\ service[key] \in Nat
      /\ \A k \in Cached \cap {key} : \A v \in cache[k] : v >= started
  BY <1>1, FreshCaches DEF TypeOK, FreshInv, Rotating
<1>3. /\ cache' \in [Cached -> SUBSET Nat] /\ new' \subseteq Nat
      /\ \A j \in Cached : \A v \in cache'[j] : v >= floor[j]
      /\ ~authenticated => \A j \in Vaulted : cache'[j] = {}
  BY <1>1, <1>2, FreshCaches, ResolvedValue, CacheKept
<1>4. \A v \in new' : v >= started
  <2>1. \A v \in new' : v = service[key] \/ (key \in Cached /\ v \in cache[key])
    BY <1>1, <1>2, ResolvedValue
  <2>2. QED
    BY <1>2, <2>1
<1>5. new' # {} => \A k \in Cached \cap {key} : cache'[k] = new'
  BY <1>1, <1>2, ResolvedValue
<1>6. attempts' \in Nat /\ Rotating /\ Rotating' /\ pc' # "resolve"
  BY <1>1, <1>2 DEF TypeOK, Rotating
<1>7. pc' = "record" =>
        /\ \A v \in new' : v >= started
        /\ IF new' = {} THEN attempts' = MaxAttempts(key)
           ELSE \A k \in Cached \cap {key} : cache'[k] = new'
  BY <1>1, <1>4, <1>5
<1>8. QED
  BY <1>1, <1>3, <1>6, <1>7, RotatingFresh

LEMMA RecordFresh ==
    ASSUME SecretsAssumption, FreshInv, RecordRotation
    PROVE  FreshInv'
<1>1. /\ pc = "record" /\ pc' = IF now # {} THEN "check" ELSE "idle"
      /\ event' = [status |-> IF new # {} THEN "Completed" ELSE "Failed",
                   attempts |-> attempts, limit |-> MaxAttempts(key), value |-> new,
                   since |-> started]
      /\ key' = AnyKey /\ attempts' = 0 /\ new' = {} /\ began' = 0 /\ started' = 0
      /\ UNCHANGED <<todo, now, service, clock, policies, cache, authenticated>>
  BY DEF RecordRotation, world
<1>2. /\ TypeOK /\ RotationIsFresh /\ \A j \in AllKeys : floor[j] <= service[j]
      /\ \A n \in now : n <= clock /\ n <= began
      /\ started <= service[key]
      /\ \A v \in new : v >= started
      /\ IF new = {} THEN attempts = MaxAttempts(key)
         ELSE \A k \in Cached \cap {key} : cache[k] = new
      /\ now # {} => \A k \in DOMAIN policies \ (todo \cup {key}) : Settled(k)
  BY <1>1 DEF FreshInv, Rotating
<1>3. MaxAttempts(key) \in Nat /\ MaxAttempts(key) >= 1
  BY <1>2, AttemptsPositive
<1>4. /\ event'.status = "Completed" => \A v \in event'.value : v >= event'.since
      /\ event'.status = "Failed" => event'.attempts = event'.limit /\ event'.attempts >= 1
  BY <1>1, <1>2, <1>3
<1>5. CASE new # {}
  <2>1. /\ last_rotation' = [last_rotation EXCEPT ![key] = {began}]
        /\ floor' = [floor EXCEPT ![key] = started] /\ failed' = failed
    BY <1>5 DEF RecordRotation
  <2>2. TypeOK'
    BY <1>1, <1>2, <2>1, AnyKeyIsKey DEF TypeOK
  <2>3. /\ \A j \in AllKeys : floor'[j] <= service'[j]
        /\ \A j \in Cached : \A v \in cache'[j] : v >= floor'[j]
    BY <1>1, <1>2, <1>5, <2>1 DEF TypeOK, RotationIsFresh, Cached, AllKeys
  <2>4. ASSUME NEW k \in DOMAIN policies \ todo, now # {} PROVE Settled(k)'
    <3>1. CASE k = key
      <4>1. PICK n \in now : TRUE
        BY <2>4
      <4>2. began \in last_rotation'[k] /\ began >= n /\ n \in now'
        BY <1>1, <1>2, <2>1, <3>1 DEF TypeOK
      <4>3. QED
        BY <4>2 DEF Settled
    <3>2. CASE k # key
      <4>1. Settled(k) /\ last_rotation'[k] = last_rotation[k]
        BY <1>2, <2>1, <2>4, <3>2 DEF TypeOK
      <4>2. QED
        BY <1>1, <2>1, <4>1 DEF Settled
    <3>3. QED
      BY <3>1, <3>2
  <2>5. RotationIsFresh' /\ ~Rotating'
    BY <1>1, <1>2, <1>4, <2>3 DEF RotationIsFresh, Rotating
  <2>6. QED
    BY <1>1, <1>2, <2>2, <2>3, <2>4, <2>5 DEF FreshInv
<1>6. CASE new = {}
  <2>1. UNCHANGED <<last_rotation, floor>> /\ failed' = failed \cup {key}
    BY <1>6 DEF RecordRotation
  <2>2. TypeOK'
    BY <1>1, <1>2, <2>1, AnyKeyIsKey DEF TypeOK
  <2>3. ASSUME NEW k \in DOMAIN policies \ todo, now # {} PROVE Settled(k)'
    BY <1>1, <1>2, <2>1, <2>3 DEF Settled
  <2>4. RotationIsFresh' /\ ~Rotating'
    BY <1>1, <1>2, <1>4, <2>1 DEF RotationIsFresh, Rotating
  <2>5. QED
    BY <1>1, <1>2, <2>1, <2>2, <2>3, <2>4 DEF FreshInv
<1>7. QED
  BY <1>5, <1>6

(* The surroundings: a newer secret, a later time. *)
LEMMA WorldFresh ==
    ASSUME FreshInv,
           UNCHANGED <<rotation, policies, last_rotation, floor, cache, authenticated>>,
           service' \in [AllKeys -> Nat], clock' \in Int, clock' >= clock,
           \A k \in AllKeys : service'[k] >= service[k]
    PROVE  FreshInv'
<1>1. UNCHANGED <<pc, key, attempts, new, began, todo, now, failed, event, started>>
  BY DEF rotation
<1>2. TypeOK /\ TypeOK'
  BY <1>1 DEF FreshInv, TypeOK
<1>3. RotationIsFresh' /\ (Rotating' <=> Rotating) /\ MaxAttempts(key)' = MaxAttempts(key)
      /\ \A k : Settled(k)' <=> Settled(k)
  BY <1>1 DEF FreshInv, RotationIsFresh, Rotating, MaxAttempts, Settled
<1>4. \A k \in AllKeys : floor'[k] <= service'[k]
  BY <1>2 DEF FreshInv, TypeOK
<1>5. /\ \A n \in now' : n <= clock'
      /\ Rotating' => started' <= service'[key'] /\ \A n \in now' : n <= began'
  BY <1>1, <1>2, <1>3 DEF FreshInv, TypeOK
<1>6. QED
  BY <1>1, <1>2, <1>3, <1>4, <1>5 DEF FreshInv

LEMMA FreshNext ==
    ASSUME SecretsAssumption, FreshInv, [RotationNext]_secrets
    PROVE  FreshInv'
<1>1. TypeOK
  BY DEF FreshInv
<1>2. ASSUME NEW k \in AllKeys, Get(k) \/ Refresh(k) \/ RemovePolicy(k) \/ RotateKey(k)
                                \/ CheckKey(k) \/ \E r \in Retries : AddPolicy(k, r)
      PROVE  FreshInv'
  BY <1>2, OperationsFresh, RotateKeyFresh, CheckKeyFresh
<1>3. ASSUME NEW k \in AllKeys, ServiceChanges(k) PROVE FreshInv'
  <2>1. /\ service' \in [AllKeys -> Nat] /\ clock' \in Int /\ clock' >= clock
        /\ \A j \in AllKeys : service'[j] >= service[j]
    BY <1>1, <1>3 DEF ServiceChanges, TypeOK
  <2>2. UNCHANGED <<rotation, policies, last_rotation, floor, cache, authenticated>>
    BY <1>3 DEF ServiceChanges, manager
  <2>3. QED
    BY <2>1, <2>2, WorldFresh
<1>4. CASE Tick \/ UNCHANGED secrets
  <2>1. /\ service' \in [AllKeys -> Nat] /\ clock' \in Int /\ clock' >= clock
        /\ \A j \in AllKeys : service'[j] >= service[j]
    BY <1>1, <1>4 DEF Tick, TypeOK, secrets
  <2>2. UNCHANGED <<rotation, policies, last_rotation, floor, cache, authenticated>>
    BY <1>4 DEF Tick, manager, secrets, rotation
  <2>3. QED
    BY <2>1, <2>2, WorldFresh
<1>5. CASE \/ Authenticate \/ RevokeToken \/ CheckAndRotate \/ CheckDone \/ CheckReturned
           \/ TryRefresh \/ TryResolve \/ RecordRotation
  BY <1>5, SessionFresh, CheckAndRotateFresh, CheckEndsFresh, TryRefreshFresh, TryResolveFresh,
     RecordFresh
<1>6. QED
  BY <1>2, <1>3, <1>4, <1>5 DEF RotationNext

(* A completed rotation served a secret at least as new as its beginning,  *)
(* and no cache holds an older one afterwards; a failed one made all its   *)
(* attempts, at least one; and a check leaves no due key behind, however   *)
(* the service changes and fails meanwhile (key_rotation.cpp,              *)
(* vault_provider.cpp, cloud_secret_provider.cpp).                         *)
THEOREM FreshRotation ==
    ASSUME SecretsAssumption
    PROVE  RotationSpec => []RotationIsFresh
<1>1. RotationInit => FreshInv
  BY FreshInit
<1>2. FreshInv /\ [RotationNext]_secrets => FreshInv'
  BY FreshNext
<1>3. FreshInv => RotationIsFresh
  BY DEF FreshInv
<1>4. QED
  BY <1>1, <1>2, <1>3, PTL DEF RotationSpec
-----------------------------------------------------------------------------
(*                              LlmProvider                                *)

(* Where a call stands, and its settings. *)
StandInv ==
    /\ settings \in [tools : BOOLEAN, stream : BOOLEAN, max_retries : RetryLimits,
                     max_tool_rounds : RoundLimits]
    /\ at \in {"idle", "round", "send", "answer", "tool"}
    /\ call.context \in Contexts
    /\ total \in Nat /\ sent \in Nat /\ vain \in Nat /\ round \in Nat

(* The requests made for each candidate. *)
Tries == settings.max_retries + 1

(* In a round, the requests are counted through candidates and retries;    *)
(* between rounds they are in the total.                                   *)
RequestsInv ==
    /\ at = "idle" => result.attempts = sent
    /\ at \in {"round", "answer", "tool"} => vain = 0 /\ sent = total
    /\ at = "send" =>
          /\ candidate \in 1 .. Len(Candidates)
          /\ attempt \in 1 .. Tries
          /\ round_attempts = (candidate - 1) * Tries + (attempt - 1)
          /\ vain = round_attempts
          /\ sent = total + round_attempts

(* Exhaustion ends the call, and nothing else says so. *)
HealthInv ==
    /\ health \in Seq([kind : {"Degraded", "Selected", "Exhausted"}, after : Nat])
    /\ IF at = "idle" /\ vain > 0
         THEN /\ health # <<>>
              /\ health[Len(health)].kind = "Exhausted"
              /\ health[Len(health)].after = vain
              /\ vain = Len(Candidates) * Tries
         ELSE \A i \in DOMAIN health : health[i].kind # "Exhausted"

BudgetInv ==
    at # "idle" =>
        Estimate(call.prompt.system) + Estimate(call.prompt.user)
            + Budgets[call.capability].response <= Budgets[call.capability].total

LedgerInv ==
    /\ billed \in [Contexts -> Nat]
    /\ workflow_totals \in [Workflows -> Nat]
    /\ node_totals \in [Nodes -> Nat]
    /\ \A w \in Workflows : /\ IsFiniteSet(Charged(w))
                            /\ workflow_totals[w] = Cardinality(Charged(w))
    /\ \A n \in Nodes : node_totals[n] = billed[n]

(* The conversation as it will be when the pending calls are answered. *)
ResultOf(id) == [role |-> "tool", ids |-> <<id>>]
ResultsOf(ids) == [k \in DOMAIN ids |-> ResultOf(ids[k])]

ToolIds == Nat \X Nat
Message == [role : {"assistant", "tool"}, ids : Seq(ToolIds)]

TalkInv ==
    /\ conversation \in Seq(Message)
    /\ pending \in Seq(ToolIds)
    /\ at # "idle" =>
          /\ at = "tool" <=> pending # <<>>
          /\ Complete(conversation \o ResultsOf(pending), IF at = "tool" THEN round + 1 ELSE round)

LlmInv == StandInv /\ RequestsInv /\ HealthInv /\ BudgetInv /\ LedgerInv /\ TalkInv
-----------------------------------------------------------------------------
(* There is a provider to try: the primary one. *)
LEMMA CandidatesCount == Len(Candidates) \in Nat \ {0}
<1> DEFINE n == Cardinality(Usable)
           S == {Candidates[i] : i \in 1 .. n}
<1>1. IsFiniteSet(Usable)
  <2>1. IsFiniteSet(Fallbacks \cup {Primary})
    BY LlmAssumption, FS_AddElement
  <2>2. QED
    BY <2>1, FS_Subset DEF Usable
<1>2. Primary \in Usable
  BY DEF Usable, Primary
<1>3. n \in Nat \ {0}
  BY <1>1, <1>2, FS_CardinalityType, FS_EmptySet
<1>4. Candidates \in [1 .. n -> S]
  BY DEF Candidates
<1> HIDE DEF n, S
<1>5. Len(Candidates) = n
  BY <1>3, <1>4
<1>6. QED
  BY <1>3, <1>5

(* A prompt that is cut to its budget leaves room for the response. *)
LEMMA FittedFits ==
    ASSUME NEW b \in [prompt : Nat, response : Nat, total : Nat],
           NEW p \in [system : Nat, user : Nat],
           BudgetIsValid(b), Estimate(p.system) < b.prompt
    PROVE  Estimate(Fitted(b, p).system) + Estimate(Fitted(b, p).user) + b.response <= b.total
<1> DEFINE room == b.prompt - Estimate(p.system)
<1>1. /\ b.prompt \in Nat /\ b.response \in Nat /\ b.total \in Nat
      /\ p.system \in Nat /\ p.user \in Nat
  OBVIOUS
<1>2. Estimate(p.system) \in Nat /\ Estimate(p.user) \in Nat /\ room \in Nat
  BY <1>1 DEF Estimate
<1>3. b.prompt + b.response <= b.total
  BY DEF BudgetIsValid
<1>4. CASE Estimate(p.user) <= room
  <2>1. Fitted(b, p) = p
    BY <1>4 DEF Fitted
  <2>2. QED
    BY <1>1, <1>2, <1>3, <1>4, <2>1
<1>5. CASE ~(Estimate(p.user) <= room)
  <2>1. Fitted(b, p).system = p.system /\ Fitted(b, p).user = room * 4
    BY <1>5 DEF Fitted
  <2>2. Estimate(room * 4) = room
    <3> HIDE DEF room
    <3>1. QED
      BY <1>2 DEF Estimate
  <2>3. QED
    BY <1>1, <1>2, <1>3, <2>1, <2>2
<1>6. QED
  BY <1>4, <1>5

(* The results of a list of calls. *)
LEMMA ResultsAreMessages ==
    ASSUME NEW ids \in Seq(ToolIds)
    PROVE  /\ ResultsOf(ids) \in Seq(Message)
           /\ Len(ResultsOf(ids)) = Len(ids)
           /\ Len(ids) \in Nat /\ DOMAIN ids = 1 .. Len(ids)
           /\ \A k \in 1 .. Len(ids) : ResultsOf(ids)[k] = ResultOf(ids[k])
<1>1. /\ Len(ids) \in Nat /\ DOMAIN ids = 1 .. Len(ids)
      /\ \A k \in 1 .. Len(ids) : ids[k] \in ToolIds
  BY LenProperties, ElementOfSeq
<1>2. ASSUME NEW k \in 1 .. Len(ids) PROVE ResultOf(ids[k]) \in Message
  <2>1. <<ids[k]>> \in Seq(ToolIds)
    BY <1>1
  <2>2. QED
    BY <2>1 DEF ResultOf, Message
<1>3. /\ ResultsOf(ids) \in [1 .. Len(ids) -> Message]
      /\ \A k \in 1 .. Len(ids) : ResultsOf(ids)[k] = ResultOf(ids[k])
  BY <1>1, <1>2 DEF ResultsOf
<1>4. ResultsOf(ids) \in Seq(Message) /\ Len(ResultsOf(ids)) = Len(ids)
  BY <1>1, <1>3
<1>5. QED
  BY <1>1, <1>3, <1>4

(* Nothing is pending: the conversation is what it is. *)
LEMMA NothingPending ==
    ASSUME NEW talk \in Seq(Message)
    PROVE  talk \o ResultsOf(<<>>) = talk
<1>1. <<>> \in Seq(ToolIds) /\ Len(<<>>) = 0
  BY EmptySeq
<1>2. ResultsOf(<<>>) \in Seq(Message) /\ Len(ResultsOf(<<>>)) = 0
  BY <1>1, ResultsAreMessages
<1>3. ResultsOf(<<>>) = <<>>
  BY <1>2, EmptySeq
<1>4. QED
  BY <1>3, ConcatEmptySeq

(* An answer takes its place in the conversation that was expected. *)
LEMMA AnswerExpected ==
    ASSUME NEW talk \in Seq(Message), NEW ids \in Seq(ToolIds), ids # <<>>
    PROVE  /\ Append(talk, ResultOf(Head(ids))) \in Seq(Message)
           /\ Tail(ids) \in Seq(ToolIds)
           /\ Append(talk, ResultOf(Head(ids))) \o ResultsOf(Tail(ids)) = talk \o ResultsOf(ids)
<1> DEFINE m == ResultOf(Head(ids))
           L == Len(talk)
           l == Append(talk, m) \o ResultsOf(Tail(ids))
           r == talk \o ResultsOf(ids)
<1>1. /\ Head(ids) \in ToolIds /\ Tail(ids) \in Seq(ToolIds)
      /\ Len(Tail(ids)) = Len(ids) - 1 /\ Head(ids) = ids[1]
      /\ \A i \in 1 .. Len(Tail(ids)) : Tail(ids)[i] = ids[i + 1]
  BY HeadTailProperties
<1>2. Len(ids) \in Nat \ {0} /\ L \in Nat
  BY EmptySeq, LenProperties
<1>3. m \in Message
  <2>1. <<Head(ids)>> \in Seq(ToolIds)
    BY <1>1
  <2>2. QED
    BY <2>1 DEF ResultOf, Message
<1>4. /\ Append(talk, m) \in Seq(Message) /\ Len(Append(talk, m)) = L + 1
      /\ \A i \in 1 .. L : Append(talk, m)[i] = talk[i]
      /\ Append(talk, m)[L + 1] = m
  BY <1>3, AppendProperties
<1>5. /\ ResultsOf(ids) \in Seq(Message) /\ Len(ResultsOf(ids)) = Len(ids)
      /\ \A k \in 1 .. Len(ids) : ResultsOf(ids)[k] = ResultOf(ids[k])
      /\ ResultsOf(Tail(ids)) \in Seq(Message) /\ Len(ResultsOf(Tail(ids))) = Len(Tail(ids))
      /\ \A k \in 1 .. Len(Tail(ids)) : ResultsOf(Tail(ids))[k] = ResultOf(Tail(ids)[k])
  BY <1>1, ResultsAreMessages
<1> HIDE DEF m
<1>6. /\ l \in Seq(Message) /\ Len(l) = (L + 1) + (Len(ids) - 1)
      /\ \A i \in 1 .. (L + 1) + (Len(ids) - 1) :
            l[i] = IF i <= L + 1 THEN Append(talk, m)[i] ELSE ResultsOf(Tail(ids))[i - (L + 1)]
  <2> DEFINE a == Append(talk, m)
             b == ResultsOf(Tail(ids))
  <2>1. a \in Seq(Message) /\ Len(a) = L + 1 /\ b \in Seq(Message) /\ Len(b) = Len(ids) - 1
    BY <1>1, <1>4, <1>5
  <2> HIDE DEF a, b
  <2>2. /\ a \o b \in Seq(Message) /\ Len(a \o b) = Len(a) + Len(b)
        /\ \A i \in 1 .. Len(a) + Len(b) :
              (a \o b)[i] = IF i <= Len(a) THEN a[i] ELSE b[i - Len(a)]
    BY <2>1, ConcatProperties
  <2>3. QED
    BY <2>1, <2>2, Zenon DEF a, b
<1>7. /\ r \in Seq(Message) /\ Len(r) = L + Len(ids)
      /\ \A i \in 1 .. L + Len(ids) : r[i] = IF i <= L THEN talk[i] ELSE ResultsOf(ids)[i - L]
  <2> DEFINE b == ResultsOf(ids)
  <2>1. b \in Seq(Message) /\ Len(b) = Len(ids)
    BY <1>5
  <2> HIDE DEF b
  <2>2. /\ talk \o b \in Seq(Message) /\ Len(talk \o b) = Len(talk) + Len(b)
        /\ \A i \in 1 .. Len(talk) + Len(b) :
              (talk \o b)[i] = IF i <= Len(talk) THEN talk[i] ELSE b[i - Len(talk)]
    BY <2>1, ConcatProperties
  <2>3. QED
    BY <2>1, <2>2, Zenon DEF b
<1> HIDE DEF l, r, L
<1>8. Len(l) = Len(r)
  BY <1>2, <1>6, <1>7
<1>9. ASSUME NEW i \in 1 .. Len(l) PROVE l[i] = r[i]
  <2>1. CASE i <= L
    <3>1. i \in 1 .. (L + 1) + (Len(ids) - 1) /\ i \in 1 .. L + Len(ids) /\ i \in 1 .. L
      BY <2>1, <1>2, <1>6
    <3>2. l[i] = Append(talk, m)[i]
      <4>1. i <= L + 1
        BY <2>1, <3>1, <1>2
      <4>2. QED
        BY <3>1, <4>1, <1>6, Zenon
    <3>3. r[i] = talk[i]
      BY <2>1, <3>1, <1>7, Zenon
    <3>4. QED
      BY <3>1, <3>2, <3>3, <1>4
  <2>2. CASE i = L + 1
    <3>1. l[i] = m /\ r[i] = ResultsOf(ids)[1]
      <4>1. /\ i \in 1 .. (L + 1) + (Len(ids) - 1) /\ i \in 1 .. L + Len(ids)
            /\ i <= L + 1 /\ ~(i <= L) /\ i - L = 1
        BY <2>2, <1>2
      <4>2. l[i] = Append(talk, m)[i] /\ r[i] = ResultsOf(ids)[i - L]
        BY <4>1, <1>6, <1>7, Zenon
      <4>3. QED
        BY <2>2, <4>1, <4>2, <1>4, Zenon
    <3>2. QED
      BY <3>1, <1>1, <1>2, <1>5 DEF m
  <2>3. CASE i > L + 1
    <3>1. /\ l[i] = ResultsOf(Tail(ids))[i - (L + 1)] /\ r[i] = ResultsOf(ids)[i - L]
          /\ i - (L + 1) \in 1 .. Len(Tail(ids)) /\ i - L \in 1 .. Len(ids)
          /\ (i - (L + 1)) + 1 = i - L
      <4>1. /\ i \in 1 .. (L + 1) + (Len(ids) - 1) /\ i \in 1 .. L + Len(ids)
            /\ ~(i <= L + 1) /\ ~(i <= L)
            /\ i - (L + 1) \in 1 .. Len(ids) - 1 /\ i - L \in 1 .. Len(ids)
            /\ (i - (L + 1)) + 1 = i - L
        <5>1. i \in 1 .. (L + 1) + (Len(ids) - 1)
          BY <1>6, Zenon
        <5>2. QED
          BY <5>1, <2>3, <1>2
      <4>2. l[i] = ResultsOf(Tail(ids))[i - (L + 1)] /\ r[i] = ResultsOf(ids)[i - L]
        BY <4>1, <1>6, <1>7, Zenon
      <4>3. QED
        BY <4>1, <4>2, <1>1, Zenon
    <3>2. Tail(ids)[i - (L + 1)] = ids[i - L]
      BY <3>1, <1>1
    <3>3. QED
      BY <3>1, <3>2, <1>5
  <2>4. QED
    BY <2>1, <2>2, <2>3, <1>2, <1>6
<1>10. l = r
  BY <1>6, <1>7, <1>8, <1>9, SeqEqual
<1>11. QED
  BY <1>1, <1>4, <1>10 DEF l, r, m

(* The model asks once more. *)
LEMMA AskedOnceMore ==
    ASSUME NEW talk \in Seq(Message), NEW n \in Nat, Complete(talk, n),
           NEW ids \in Seq(ToolIds), NEW message, message = [role |-> "assistant", ids |-> ids]
    PROVE  /\ Append(talk, message) \in Seq(Message)
           /\ Complete(Append(talk, message) \o ResultsOf(ids), n + 1)
<1> DEFINE L == Len(talk)
           longer == Append(talk, message) \o ResultsOf(ids)
<1>1. message \in Message /\ message.role = "assistant" /\ message.ids = ids
  BY DEF Message
<1>2. L \in Nat /\ DOMAIN talk = 1 .. L /\ \A i \in 1 .. L : talk[i] \in Message
  BY LenProperties, ElementOfSeq
<1>3. /\ Append(talk, message) \in Seq(Message) /\ Len(Append(talk, message)) = L + 1
      /\ \A i \in 1 .. L : Append(talk, message)[i] = talk[i]
      /\ Append(talk, message)[L + 1] = message
  BY <1>1, AppendProperties
<1>4. /\ ResultsOf(ids) \in Seq(Message) /\ Len(ResultsOf(ids)) = Len(ids)
      /\ Len(ids) \in Nat /\ DOMAIN ids = 1 .. Len(ids)
      /\ \A k \in 1 .. Len(ids) : ResultsOf(ids)[k] = ResultOf(ids[k])
  BY ResultsAreMessages
<1>5. /\ longer \in Seq(Message) /\ Len(longer) = (L + 1) + Len(ids)
      /\ \A i \in 1 .. (L + 1) + Len(ids) :
            longer[i] = IF i <= L + 1 THEN Append(talk, message)[i] ELSE ResultsOf(ids)[i - (L + 1)]
  <2> DEFINE a == Append(talk, message)
             b == ResultsOf(ids)
  <2>1. a \in Seq(Message) /\ Len(a) = L + 1 /\ b \in Seq(Message) /\ Len(b) = Len(ids)
    BY <1>3, <1>4
  <2> HIDE DEF a, b
  <2>2. /\ a \o b \in Seq(Message) /\ Len(a \o b) = Len(a) + Len(b)
        /\ \A i \in 1 .. Len(a) + Len(b) :
              (a \o b)[i] = IF i <= Len(a) THEN a[i] ELSE b[i - Len(a)]
    <3>1. a \in Seq(Message) /\ b \in Seq(Message)
      BY <2>1
    <3>2. QED
      BY <3>1, ConcatProperties
  <2>3. QED
    BY <2>1, <2>2, Zenon DEF a, b
<1>6. DOMAIN longer = 1 .. (L + 1) + Len(ids)
  BY <1>5, LenProperties
<1> HIDE DEF L, longer
<1>7. /\ \A i \in 1 .. L : longer[i] = talk[i]
      /\ longer[L + 1] = message
  BY <1>2, <1>3, <1>4, <1>5
<1>8. ASSUME NEW k \in 1 .. Len(ids)
      PROVE  (L + 1) + k \in DOMAIN longer /\ longer[(L + 1) + k] = [role |-> "tool", ids |-> <<ids[k]>>]
  <2>1. /\ (L + 1) + k \in 1 .. (L + 1) + Len(ids) /\ ~((L + 1) + k <= L + 1)
        /\ ((L + 1) + k) - (L + 1) = k
    BY <1>2, <1>4
  <2>2. QED
    BY <2>1, <1>4, <1>5, <1>6 DEF ResultOf
<1>9. /\ Asking(longer) = Asking(talk) \cup {L + 1} /\ L + 1 \notin Asking(talk)
  <2>1. Asking(talk) \subseteq 1 .. L /\ L + 1 \notin 1 .. L
    BY <1>2 DEF Asking
  <2>2. ASSUME NEW i \in 1 .. (L + 1) + Len(ids)
        PROVE  longer[i].role = "assistant" <=> i \in Asking(talk) \cup {L + 1}
    <3>1. CASE i \in 1 .. L
      BY <3>1, <1>2, <1>7, <2>1 DEF Asking
    <3>2. CASE i = L + 1
      BY <3>2, <1>1, <1>7
    <3>3. CASE i > L + 1
      <4>1. i - (L + 1) \in 1 .. Len(ids) /\ (L + 1) + (i - (L + 1)) = i
        BY <3>3, <1>2, <1>4
      <4>2. longer[i].role = "tool"
        <5>1. longer[(L + 1) + (i - (L + 1))] = [role |-> "tool", ids |-> <<ids[i - (L + 1)]>>]
          BY <4>1, <1>8
        <5>2. QED
          BY <4>1, <5>1
      <4>3. i \notin 1 .. L /\ i # L + 1
        BY <3>3, <1>2
      <4>4. QED
        BY <4>2, <4>3, <2>1
    <3>4. QED
      BY <3>1, <3>2, <3>3, <1>2
  <2>3. Asking(talk) \cup {L + 1} \subseteq 1 .. (L + 1) + Len(ids)
    BY <2>1, <1>2, <1>4
  <2>4. Asking(longer) = Asking(talk) \cup {L + 1}
    BY <2>2, <2>3, <1>6 DEF Asking
  <2>5. QED
    BY <2>1, <2>4
<1>10. Cardinality(Asking(longer)) = n + 1
  <2>1. IsFiniteSet(1 .. L)
    BY <1>2, FS_Interval
  <2>2. IsFiniteSet(Asking(talk))
    BY <2>1, <1>2, FS_Subset DEF Asking
  <2>3. Cardinality(Asking(talk) \cup {L + 1}) = Cardinality(Asking(talk)) + 1
    BY <2>2, <1>9, FS_AddElement
  <2>4. QED
    BY <2>3, <1>9 DEF Complete
<1>11. ASSUME NEW i \in Asking(longer), NEW k \in DOMAIN longer[i].ids
       PROVE  i + k \in DOMAIN longer /\ longer[i + k] = [role |-> "tool", ids |-> <<longer[i].ids[k]>>]
  <2>1. CASE i \in Asking(talk)
    <3>1. i \in 1 .. L /\ longer[i] = talk[i]
      BY <2>1, <1>2, <1>7 DEF Asking
    <3>2. i + k \in 1 .. L /\ talk[i + k] = [role |-> "tool", ids |-> <<talk[i].ids[k]>>]
      BY <2>1, <3>1, <1>2 DEF Complete
    <3>3. QED
      BY <3>1, <3>2, <1>2, <1>4, <1>6, <1>7
  <2>2. CASE i = L + 1
    <3>1. k \in 1 .. Len(ids) /\ longer[i].ids = ids
      BY <2>2, <1>1, <1>4, <1>7
    <3>2. QED
      BY <2>2, <3>1, <1>8
  <2>3. QED
    BY <2>1, <2>2, <1>9
<1>12. ASSUME NEW j \in DOMAIN longer \ Asking(longer)
       PROVE  \E i \in Asking(longer) : j - i \in DOMAIN longer[i].ids
  <2>1. CASE j \in 1 .. L
    <3>1. j \in DOMAIN talk \ Asking(talk)
      BY <2>1, <1>2, <1>9
    <3>2. PICK i \in Asking(talk) : j - i \in DOMAIN talk[i].ids
      BY <3>1 DEF Complete
    <3>3. longer[i] = talk[i]
      BY <1>2, <1>7 DEF Asking
    <3>4. QED
      BY <3>2, <3>3, <1>9
  <2>2. CASE j \notin 1 .. L
    <3>1. j \in 1 .. (L + 1) + Len(ids) /\ j # L + 1
      BY <1>6, <1>9
    <3>2. j - (L + 1) \in 1 .. Len(ids)
      BY <2>2, <3>1, <1>2, <1>4
    <3>3. j - (L + 1) \in DOMAIN longer[L + 1].ids /\ L + 1 \in Asking(longer)
      BY <3>2, <1>1, <1>4, <1>7, <1>9
    <3>4. QED
      BY <3>3
  <2>3. QED
    BY <2>1, <2>2
<1>13. Complete(longer, n + 1)
  BY <1>10, <1>11, <1>12 DEF Complete
<1>14. QED
  BY <1>3, <1>13 DEF longer
-----------------------------------------------------------------------------
(* What an answer reports is charged to its context, its workflow and its  *)
(* node, and to no other.                                                  *)
LEMMA ChargeInv ==
    ASSUME LedgerInv, NEW c \in Contexts, c = call.context, NEW t \in Nat, RecordUsage(t)
    PROVE  LedgerInv'
<1> DEFINE b == billed[c]
<1>1. /\ billed \in [Contexts -> Nat] /\ workflow_totals \in [Workflows -> Nat]
      /\ node_totals \in [Nodes -> Nat] /\ b \in Nat
      /\ c.workflow \in Workflows /\ Nodes \subseteq Contexts
  BY DEF LedgerInv, Workflows, Nodes
<1>2. /\ billed' = [billed EXCEPT ![c] = b + t]
      /\ workflow_totals' = [workflow_totals EXCEPT ![c.workflow] = workflow_totals[c.workflow] + t]
      /\ node_totals' = [n \in Nodes |-> node_totals[n] + (IF n = c THEN t ELSE 0)]
  BY DEF RecordUsage
<1>3. /\ billed' \in [Contexts -> Nat] /\ billed'[c] = b + t
      /\ \A x \in Contexts \ {c} : billed'[x] = billed[x]
  BY <1>1, <1>2
<1>4. workflow_totals' \in [Workflows -> Nat]
  BY <1>1, <1>2
<1>5. /\ node_totals' \in [Nodes -> Nat]
      /\ \A n \in Nodes : node_totals'[n] = billed'[n]
  <2>1. ASSUME NEW n \in Nodes
        PROVE  /\ node_totals[n] + (IF n = c THEN t ELSE 0) \in Nat
               /\ node_totals[n] + (IF n = c THEN t ELSE 0) = billed'[n]
    <3>1. node_totals[n] = billed[n] /\ billed[n] \in Nat
      BY <1>1 DEF LedgerInv
    <3>2. QED
      BY <3>1, <1>1, <1>3
  <2>2. QED
    BY <1>2, <2>1
<1>6. ASSUME NEW w \in Workflows
      PROVE  IsFiniteSet(Charged(w)') /\ workflow_totals'[w] = Cardinality(Charged(w)')
  <2>1. /\ IsFiniteSet(Charged(w)) /\ workflow_totals[w] = Cardinality(Charged(w))
        /\ Cardinality(Charged(w)) \in Nat
    BY FS_CardinalityType DEF LedgerInv
  <2> DEFINE X == {x \in Contexts : x.workflow = w}
  <2>2. /\ Charged(w) = UNION {{x} \X (1 .. billed[x]) : x \in X}
        /\ Charged(w)' = UNION {{x} \X (1 .. billed'[x]) : x \in X}
    BY DEF Charged
  <2>3. CASE w # c.workflow
    <3>1. \A x \in X : billed'[x] = billed[x]
      BY <2>3, <1>3
    <3>2. Charged(w)' = Charged(w)
      BY <2>2, <3>1
    <3>3. workflow_totals'[w] = workflow_totals[w]
      BY <2>3, <1>1, <1>2
    <3>4. QED
      BY <2>1, <3>2, <3>3
  <2>4. CASE w = c.workflow
    <3> DEFINE I == (b + 1) .. (b + t)
               D == {c} \X I
    <3>1. 1 .. b + t = (1 .. b) \cup I /\ (1 .. b) \cap I = {}
      BY <1>1
    <3>2. ASSUME NEW p
          PROVE  p \in Charged(w)' <=> p \in Charged(w) \/ p \in D
      <4>1. p \in Charged(w)' <=> \E x \in X : p \in {x} \X (1 .. billed'[x])
        BY <2>2
      <4>2. p \in Charged(w) <=> \E x \in X : p \in {x} \X (1 .. billed[x])
        BY <2>2
      <4>3. c \in X
        BY <2>4
      <4>4. p \in {c} \X (1 .. billed'[c]) <=> p \in {c} \X (1 .. billed[c]) \/ p \in D
        <5> HIDE DEF I
        <5>1. QED
          BY <3>1, <1>3
      <4>5. \A x \in X \ {c} : billed'[x] = billed[x]
        BY <1>3
      <4> HIDE DEF D, X
      <4>6. QED
        BY <4>1, <4>2, <4>3, <4>4, <4>5
    <3>3. Charged(w)' = Charged(w) \cup D
      BY <3>2
    <3>4. Charged(w) \cap D = {}
      <4>1. ASSUME NEW p \in Charged(w), p \in D PROVE FALSE
        <5>1. PICK x \in X : p \in {x} \X (1 .. billed[x])
          BY <2>2
        <5>2. p[1] = c /\ p[1] = x /\ p[2] \in 1 .. b /\ p[2] \in I
          BY <4>1, <5>1
        <5>3. QED
          BY <5>2, <3>1
      <4>2. QED
        BY <4>1
    <3>5. IsFiniteSet(I) /\ Cardinality(I) = t
      <4>1. b + 1 \in Int /\ b + t \in Int
        BY <1>1
      <4>2. /\ IsFiniteSet((b + 1) .. (b + t))
            /\ Cardinality((b + 1) .. (b + t)) =
                  IF b + 1 > b + t THEN 0 ELSE (b + t) - (b + 1) + 1
        BY <4>1, FS_Interval
      <4>3. (IF b + 1 > b + t THEN 0 ELSE (b + t) - (b + 1) + 1) = t
        BY <1>1
      <4>4. QED
        BY <4>2, <4>3
    <3>6. IsFiniteSet(D) /\ Cardinality(D) = t
      <4> HIDE DEF I
      <4>1. IsFiniteSet({c}) /\ Cardinality({c}) = 1
        BY FS_Singleton
      <4>2. IsFiniteSet({c} \X I) /\ Cardinality({c} \X I) = Cardinality({c}) * Cardinality(I)
        BY <4>1, <3>5, FS_Product
      <4>3. QED
        BY <4>1, <4>2, <3>5
    <3> HIDE DEF D, I
    <3>7. IsFiniteSet(Charged(w) \cup D)
      BY <2>1, <3>6, FS_Union
    <3>8. Cardinality(Charged(w) \cup D) =
              Cardinality(Charged(w)) + Cardinality(D) - Cardinality(Charged(w) \cap D)
      BY <2>1, <3>6, FS_Union
    <3>9. Cardinality(Charged(w) \cap D) = 0
      BY <3>4, FS_EmptySet
    <3>10. Cardinality(Charged(w) \cup D) = workflow_totals[w] + t
      BY <2>1, <3>6, <3>8, <3>9
    <3>11. workflow_totals'[w] = workflow_totals[w] + t
      BY <2>4, <1>1, <1>2
    <3>12. QED
      BY <3>3, <3>7, <3>10, <3>11
  <2>5. QED
    BY <2>3, <2>4
<1>7. QED
  BY <1>3, <1>4, <1>5, <1>6 DEF LedgerInv

LEMMA LlmInitInv == LlmInit => LlmInv
<1> SUFFICES ASSUME LlmInit PROVE LlmInv
  OBVIOUS
<1>1. StandInv
  BY LlmAssumption DEF LlmInit, StandInv
<1>2. RequestsInv
  BY DEF LlmInit, RequestsInv
<1>3. HealthInv
  <2>1. health = <<>> /\ vain = 0 /\ DOMAIN <<>> = {}
    BY DEF LlmInit
  <2>2. QED
    BY <2>1, EmptySeq DEF HealthInv
<1>4. BudgetInv
  BY DEF LlmInit, BudgetInv
<1>5. LedgerInv
  <2>1. ASSUME NEW w \in Workflows PROVE Charged(w) = {}
    <3>1. \A c \in Contexts : 1 .. billed[c] = {}
      BY DEF LlmInit
    <3>2. QED
      BY <3>1 DEF Charged
  <2>2. IsFiniteSet({}) /\ Cardinality({}) = 0
    BY FS_EmptySet
  <2>3. /\ billed = [c \in Contexts |-> 0] /\ workflow_totals = [w \in Workflows |-> 0]
        /\ node_totals = [c \in Nodes |-> 0] /\ Nodes \subseteq Contexts
    BY DEF LlmInit, Nodes
  <2>4. QED
    BY <2>1, <2>2, <2>3 DEF LedgerInv
<1>6. TalkInv
  BY EmptySeq DEF LlmInit, TalkInv
<1>7. QED
  BY <1>1, <1>2, <1>3, <1>4, <1>5, <1>6 DEF LlmInv

(* The tables are as they were. *)
LEMMA LedgerKept ==
    ASSUME LedgerInv, UNCHANGED Ledger
    PROVE  LedgerInv'
<1>1. billed' = billed /\ workflow_totals' = workflow_totals /\ node_totals' = node_totals
  BY DEF Ledger
<1>2. \A w \in Workflows : Charged(w)' = Charged(w)
  BY <1>1 DEF Charged
<1>3. QED
  BY <1>1, <1>2 DEF LedgerInv

(* An empty conversation is complete. *)
LEMMA NothingSaid == Complete(<<>> \o ResultsOf(<<>>), 0)
<1>1. <<>> \in Seq(Message) /\ DOMAIN <<>> = {}
  BY EmptySeq
<1>2. <<>> \o ResultsOf(<<>>) = <<>>
  BY <1>1, NothingPending
<1>3. Asking(<<>>) = {} /\ Cardinality({}) = 0
  BY <1>1, FS_EmptySet DEF Asking
<1>4. QED
  BY <1>1, <1>2, <1>3 DEF Complete
-----------------------------------------------------------------------------
(* The parts that a step of a running call leaves alone. *)
LEMMA BudgetKept ==
    ASSUME BudgetInv, at # "idle", call' = call
    PROVE  BudgetInv'
BY DEF BudgetInv

LEMMA HealthKept ==
    ASSUME HealthInv, at # "idle", health' = health, at' = "idle" => ~(vain' > 0)
    PROVE  HealthInv'
BY DEF HealthInv

LEMMA TalkKept ==
    ASSUME TalkInv, at # "idle", UNCHANGED Talk,
           at' = "idle" \/ (at' = "tool" <=> at = "tool")
    PROVE  TalkInv'
<1>1. round' = round /\ conversation' = conversation /\ pending' = pending
  BY DEF Talk
<1>2. CASE at' = "idle"
  BY <1>1, <1>2 DEF TalkInv
<1>3. CASE at' # "idle" /\ at = "tool"
  BY <1>1, <1>3 DEF TalkInv
<1>4. CASE at' # "idle" /\ at # "tool"
  BY <1>1, <1>4 DEF TalkInv
<1>5. QED
  BY <1>2, <1>3, <1>4

(* A call begins: it is refused or answered from the cache, or its prompt  *)
(* fits the budget and its first request is to be sent.                    *)
LEMMA InvokedInv ==
    ASSUME LlmInv, NEW c, NEW context \in Contexts, NEW p, Invoked(c, context, p),
           at' \in {"idle", "round", "send"},
           at' = "idle" => result'.attempts = 0,
           at' # "idle" => Estimate(p.system) + Estimate(p.user) + Budgets[c].response
                               <= Budgets[c].total
    PROVE  LlmInv'
<1>1. /\ candidate' = 1 /\ attempt' = 1 /\ round_attempts' = 0 /\ total' = 0 /\ round' = 0
      /\ conversation' = <<>> /\ pending' = <<>> /\ health' = <<>>
      /\ sent' = 0 /\ vain' = 0 /\ settings' = settings
      /\ call' = [capability |-> c, context |-> context, prompt |-> p]
      /\ UNCHANGED Ledger
  BY DEF Invoked, Ledger
<1>2. StandInv'
  BY <1>1 DEF LlmInv, StandInv
<1>3. RequestsInv'
  <2>1. Len(Candidates)' = Len(Candidates)
    BY DEF Candidates, Usable
  <2>2. Tries' = settings.max_retries + 1 /\ settings.max_retries \in Nat
    BY <1>1, LlmAssumption DEF LlmInv, StandInv, Tries
  <2>3. 1 \in 1 .. Len(Candidates) /\ 1 \in 1 .. Tries' /\ (1 - 1) * Tries' + (1 - 1) = 0
    BY <2>2, CandidatesCount
  <2>4. QED
    BY <1>1, <2>1, <2>3 DEF RequestsInv
<1>4. HealthInv'
  <2>1. DOMAIN <<>> = {} /\ ~(0 > 0)
    OBVIOUS
  <2>2. QED
    BY <1>1, <2>1, EmptySeq DEF HealthInv
<1>5. BudgetInv'
  BY <1>1 DEF BudgetInv
<1>6. LedgerInv'
  BY <1>1, LedgerKept DEF LlmInv
<1>7. TalkInv'
  BY <1>1, NothingSaid, EmptySeq DEF TalkInv
<1>8. QED
  BY <1>2, <1>3, <1>4, <1>5, <1>6, <1>7 DEF LlmInv

LEMMA InvokeInv ==
    ASSUME LlmInv, NEW context \in Contexts, NEW p \in Prompts,
           \/ InvokeUnknown(context, p)
           \/ \E c \in DOMAIN Budgets : InvokeRejected(c, context, p) \/ InvokeAccepted(c, context, p)
    PROVE  LlmInv'
<1>1. CASE InvokeUnknown(context, p)
  BY <1>1, InvokedInv DEF InvokeUnknown, Return
<1>2. ASSUME NEW c \in DOMAIN Budgets, InvokeRejected(c, context, p) PROVE LlmInv'
  BY <1>2, InvokedInv DEF InvokeRejected, Return
<1>3. ASSUME NEW c \in DOMAIN Budgets, InvokeAccepted(c, context, p) PROVE LlmInv'
  <2> DEFINE prompt == Fitted(Budgets[c], p)
  <2>1. /\ BudgetIsValid(Budgets[c]) /\ Estimate(p.system) < Budgets[c].prompt
        /\ Invoked(c, context, prompt)
        /\ at' \in {"idle", "round", "send"}
        /\ at' = "idle" => result'.attempts = 0
    BY <1>3 DEF InvokeAccepted, Return
  <2>2. /\ Budgets[c] \in [prompt : Nat, response : Nat, total : Nat]
        /\ p \in [system : Nat, user : Nat]
    BY LlmAssumption
  <2>3. Estimate(prompt.system) + Estimate(prompt.user) + Budgets[c].response <= Budgets[c].total
    BY <2>1, <2>2, FittedFits
  <2> HIDE DEF prompt
  <2>4. QED
    BY <2>1, <2>3, InvokedInv
<1>4. QED
  BY <1>1, <1>2, <1>3

(* A step of a running call after which it waits for no answer: the next   *)
(* round is begun, or the call returns.                                    *)
LEMMA ReturnInv ==
    ASSUME LlmInv, at \in {"round", "answer", "tool"}, NEW status, Return(status, total),
           UNCHANGED <<Rest, Ledger, Talk, total, health, sent, vain>>
    PROVE  LlmInv'
<1>1. at' = "idle" /\ result'.attempts = total
  BY DEF Return
<1>2. /\ settings' = settings /\ call' = call /\ total' = total /\ round' = round
      /\ health' = health /\ sent' = sent /\ vain' = vain
      /\ UNCHANGED Ledger /\ UNCHANGED Talk
  BY DEF Rest, Talk
<1>3. vain = 0 /\ sent = total
  BY DEF LlmInv, RequestsInv
<1>4. StandInv'
  BY <1>1, <1>2 DEF LlmInv, StandInv
<1>5. RequestsInv'
  BY <1>1, <1>2, <1>3 DEF RequestsInv
<1>6. HealthInv'
  BY <1>2, <1>3, HealthKept DEF LlmInv
<1>7. BudgetInv'
  BY <1>2, BudgetKept DEF LlmInv
<1>8. LedgerInv'
  BY <1>2, LedgerKept DEF LlmInv
<1>9. TalkInv'
  BY <1>1, <1>2, TalkKept DEF LlmInv
<1>10. QED
  BY <1>4, <1>5, <1>6, <1>7, <1>8, <1>9 DEF LlmInv

LEMMA BeginRoundInv ==
    ASSUME LlmInv, BeginRound
    PROVE  LlmInv'
<1>1. at = "round" /\ UNCHANGED <<Rest, Ledger, Talk, total, health, sent, vain>>
  BY DEF BeginRound
<1>2. CASE round < settings.max_tool_rounds
  <2>1. /\ at' = "send" /\ candidate' = 1 /\ attempt' = 1 /\ round_attempts' = 0
        /\ settings' = settings /\ call' = call /\ total' = total /\ round' = round
        /\ health' = health /\ sent' = sent /\ vain' = vain
        /\ UNCHANGED Ledger /\ UNCHANGED Talk
    BY <1>1, <1>2 DEF BeginRound, Rest, Talk
  <2>2. vain = 0 /\ sent = total /\ total \in Nat
    BY <1>1 DEF LlmInv, RequestsInv, StandInv
  <2>3. StandInv'
    BY <2>1 DEF LlmInv, StandInv
  <2>4. RequestsInv'
    <3>1. Len(Candidates)' = Len(Candidates)
      BY DEF Candidates, Usable
    <3>2. Tries' = settings.max_retries + 1 /\ settings.max_retries \in Nat
      BY <2>1, LlmAssumption DEF LlmInv, StandInv, Tries
    <3>3. 1 \in 1 .. Len(Candidates) /\ 1 \in 1 .. Tries' /\ (1 - 1) * Tries' + (1 - 1) = 0
      BY <3>2, CandidatesCount
    <3>4. QED
      BY <2>1, <2>2, <3>1, <3>3 DEF RequestsInv
  <2>5. HealthInv'
    BY <1>1, <2>1, HealthKept DEF LlmInv
  <2>6. BudgetInv'
    BY <1>1, <2>1, BudgetKept DEF LlmInv
  <2>7. LedgerInv'
    BY <2>1, LedgerKept DEF LlmInv
  <2>8. TalkInv'
    BY <1>1, <2>1, TalkKept DEF LlmInv
  <2>9. QED
    BY <2>3, <2>4, <2>5, <2>6, <2>7, <2>8 DEF LlmInv
<1>3. CASE ~(round < settings.max_tool_rounds)
  <2>1. Return("Error", total)
    BY <1>3 DEF BeginRound
  <2>2. QED
    BY <1>1, <2>1, ReturnInv
<1>4. QED
  BY <1>2, <1>3

(* A request fails. *)
LEMMA SendFailsInv ==
    ASSUME LlmInv, SendFails
    PROVE  LlmInv'
<1> DEFINE n == Len(Candidates)
           T == Tries
           H == [kind : {"Degraded", "Selected", "Exhausted"}, after : Nat]
<1>1. /\ at = "send" /\ sent' = sent + 1 /\ vain' = vain + 1
      /\ settings' = settings /\ call' = call /\ round' = round
      /\ UNCHANGED Ledger /\ UNCHANGED Talk
  BY DEF SendFails, Rest, Talk
<1>2. /\ candidate \in 1 .. n /\ attempt \in 1 .. T /\ vain = round_attempts
      /\ round_attempts = (candidate - 1) * T + (attempt - 1)
      /\ sent = total + round_attempts
  BY <1>1 DEF LlmInv, RequestsInv
<1>3. settings.max_retries \in Nat /\ T = settings.max_retries + 1 /\ T \in Nat \ {0}
  <2>1. settings.max_retries \in Nat
    BY LlmAssumption DEF LlmInv, StandInv
  <2>2. QED
    BY <2>1 DEF Tries
<1>4. n \in Nat \ {0} /\ Len(Candidates)' = n
  BY CandidatesCount DEF Candidates, Usable
<1>5. Tries' = T
  BY <1>1 DEF Tries
<1>6. /\ total \in Nat /\ sent \in Nat /\ vain \in Nat /\ round_attempts \in Nat
      /\ health \in Seq(H) /\ \A i \in DOMAIN health : health[i].kind # "Exhausted"
  BY <1>1, <1>2 DEF LlmInv, StandInv, HealthInv
<1>7. BudgetInv'
  BY <1>1, BudgetKept DEF LlmInv
<1>8. LedgerInv'
  BY <1>1, LedgerKept DEF LlmInv
<1>9. ASSUME NEW e \in H
      PROVE  /\ Append(health, e) \in Seq(H)
             /\ Len(Append(health, e)) = Len(health) + 1 /\ Len(health) \in Nat
             /\ DOMAIN Append(health, e) = 1 .. Len(health) + 1
             /\ DOMAIN health = 1 .. Len(health)
             /\ \A i \in 1 .. Len(health) : Append(health, e)[i] = health[i]
             /\ Append(health, e)[Len(health) + 1] = e
  BY <1>6, AppendProperties, LenProperties
<1> HIDE DEF n, T
<1>10. CASE Retry
  <2>1. /\ attempt <= settings.max_retries /\ attempt' = attempt + 1
        /\ round_attempts' = round_attempts + 1
        /\ candidate' = candidate /\ health' = health /\ total' = total /\ at' = at
    BY <1>10 DEF Retry
  <2>2. StandInv'
    BY <1>1, <1>6, <2>1 DEF LlmInv, StandInv
  <2>3. RequestsInv'
    <3>1. attempt + 1 \in 1 .. T
      BY <1>2, <1>3, <2>1
    <3>2. (candidate - 1) * T \in Int
      BY <1>2, <1>3
    <3>3. round_attempts + 1 = (candidate - 1) * T + ((attempt + 1) - 1)
      BY <1>2, <1>3, <3>2
    <3>4. sent + 1 = total + (round_attempts + 1)
      BY <1>2, <1>6
    <3>5. QED
      BY <1>1, <1>2, <1>4, <1>5, <2>1, <3>1, <3>3, <3>4 DEF RequestsInv, n
  <2>4. HealthInv'
    BY <1>1, <2>1, HealthKept DEF LlmInv
  <2>5. TalkInv'
    BY <1>1, <2>1, TalkKept DEF LlmInv
  <2>6. QED
    BY <1>7, <1>8, <2>2, <2>3, <2>4, <2>5 DEF LlmInv
<1>11. CASE NextProvider
  <2> DEFINE e == [kind |-> "Degraded", after |-> round_attempts + 1]
  <2>1. /\ attempt > settings.max_retries /\ candidate < Len(Candidates)
        /\ candidate' = candidate + 1 /\ attempt' = 1
        /\ round_attempts' = round_attempts + 1
        /\ health' = Append(health, e)
        /\ total' = total /\ at' = at
    BY <1>11 DEF NextProvider
  <2>2. StandInv'
    BY <1>1, <1>6, <2>1 DEF LlmInv, StandInv
  <2>3. RequestsInv'
    <3>1. candidate + 1 \in 1 .. n /\ 1 \in 1 .. T
      <4>1. candidate \in 1 .. n
        BY <1>2
      <4>2. QED
        BY <4>1, <1>3, <1>4, <2>1 DEF n
    <3>2. attempt = T /\ T \in Int /\ candidate \in Int
      <4>1. attempt \in 1 .. T /\ candidate \in 1 .. n
        BY <1>2
      <4>2. QED
        BY <4>1, <1>3, <1>4, <2>1
    <3>3. (candidate - 1) * T + T = candidate * T
      BY <3>2
    <3>4. (candidate - 1) * T \in Int
      BY <3>2
    <3>5. round_attempts + 1 = ((candidate + 1) - 1) * T + (1 - 1)
      <4>1. round_attempts + 1 = (candidate - 1) * T + T
        BY <1>2, <3>2, <3>4
      <4>2. (candidate + 1) - 1 = candidate /\ candidate * T \in Int
        BY <3>2
      <4>3. QED
        BY <3>3, <4>1, <4>2
    <3>6. sent + 1 = total + (round_attempts + 1)
      BY <1>2, <1>6
    <3>7. QED
      BY <1>1, <1>2, <1>4, <1>5, <2>1, <3>1, <3>5, <3>6 DEF RequestsInv, n
  <2>4. HealthInv'
    <3>1. e \in H /\ e.kind # "Exhausted"
      BY <1>6
    <3> HIDE DEF e
    <3>2. \A i \in DOMAIN health' : health'[i].kind # "Exhausted"
      BY <1>6, <1>9, <2>1, <3>1
    <3>3. health' \in Seq(H)
      BY <1>9, <2>1, <3>1
    <3>4. at' # "idle"
      BY <1>1, <2>1
    <3>5. QED
      BY <3>2, <3>3, <3>4 DEF HealthInv
  <2>5. TalkInv'
    BY <1>1, <2>1, TalkKept DEF LlmInv
  <2>6. QED
    BY <1>7, <1>8, <2>2, <2>3, <2>4, <2>5 DEF LlmInv
<1>12. CASE FallbackExhausted
  <2> DEFINE d == [kind |-> "Degraded", after |-> round_attempts']
             x == [kind |-> "Exhausted", after |-> round_attempts']
  <2>1. /\ attempt > settings.max_retries /\ candidate = Len(Candidates)
        /\ round_attempts' = round_attempts + 1
        /\ total' = total + round_attempts'
        /\ health' = health \o <<d, x>>
        /\ at' = "idle" /\ result'.attempts = total'
    BY <1>12 DEF FallbackExhausted, Return
  <2>2. StandInv'
    BY <1>1, <1>6, <2>1 DEF LlmInv, StandInv
  <2>3. sent' = total' /\ vain' = round_attempts' /\ vain' > 0
    <3>1. vain = round_attempts /\ sent = total + round_attempts
      BY <1>2
    <3>2. QED
      BY <1>1, <1>6, <2>1, <3>1
  <2>4. RequestsInv'
    BY <2>1, <2>3 DEF RequestsInv
  <2>5. vain' = n * T
    <3>1. attempt = T /\ T \in Int /\ n \in Int /\ candidate = n
      <4>1. attempt \in 1 .. T
        BY <1>2
      <4>2. QED
        BY <4>1, <1>3, <1>4, <2>1 DEF n
    <3>2. (n - 1) * T + T = n * T
      BY <3>1
    <3>3. (n - 1) * T \in Int /\ n * T \in Int
      BY <3>1
    <3>4. QED
      BY <1>2, <2>1, <2>3, <3>1, <3>2, <3>3
  <2>6. HealthInv'
    <3>1. d \in H /\ x \in H /\ x.kind = "Exhausted" /\ x.after = vain'
      BY <1>6, <2>1, <2>3
    <3> HIDE DEF d, x
    <3>2. <<d, x>> \in Seq(H) /\ Len(<<d, x>>) = 2 /\ <<d, x>>[2] = x
      BY <3>1
    <3> DEFINE tail == <<d, x>>
    <3>3. health \o tail \in Seq(H) /\ Len(health \o tail) = Len(health) + Len(tail)
          /\ \A i \in 1 .. Len(health) + Len(tail) :
                (health \o tail)[i] = IF i <= Len(health) THEN health[i] ELSE tail[i - Len(health)]
      <4>1. health \in Seq(H) /\ tail \in Seq(H)
        BY <1>6, <3>2
      <4> HIDE DEF tail
      <4>2. QED
        BY <4>1, ConcatProperties
    <3>4. Len(health) \in Nat
      BY <1>6, LenProperties
    <3>5. health' \in Seq(H) /\ Len(health') = Len(health) + 2 /\ health'[Len(health')] = x
      <4>1. health' = health \o tail /\ Len(tail) = 2 /\ tail[2] = x
        BY <2>1, <3>2
      <4> HIDE DEF tail
      <4>2. QED
        BY <4>1, <3>3, <3>4
    <3>6. health' # <<>>
      BY <3>4, <3>5, EmptySeq
    <3>7. QED
      BY <1>4, <1>5, <2>1, <2>3, <2>5, <3>1, <3>5, <3>6 DEF HealthInv, n
  <2>7. TalkInv'
    BY <1>1, <2>1, TalkKept DEF LlmInv
  <2>8. QED
    BY <1>7, <1>8, <2>2, <2>4, <2>6, <2>7 DEF LlmInv
<1>13. QED
  BY <1>10, <1>11, <1>12 DEF SendFails

(* A request is answered. *)
LEMMA SendSucceedsInv ==
    ASSUME LlmInv, NEW tokens \in Usages, SendSucceeds(tokens)
    PROVE  LlmInv'
<1> DEFINE H == [kind : {"Degraded", "Selected", "Exhausted"}, after : Nat]
<1>1. /\ at = "send" /\ at' = "answer" /\ round_attempts' = round_attempts + 1
      /\ total' = total + round_attempts' /\ sent' = sent + 1 /\ vain' = 0
      /\ settings' = settings /\ call' = call /\ round' = round
      /\ RecordUsage(tokens) /\ UNCHANGED Talk
  BY DEF SendSucceeds, Rest, Talk
<1>2. /\ vain = round_attempts /\ sent = total + round_attempts
      /\ total \in Nat /\ sent \in Nat /\ round_attempts \in Nat
  BY <1>1 DEF LlmInv, StandInv, RequestsInv
<1>3. StandInv'
  BY <1>1, <1>2 DEF LlmInv, StandInv
<1>4. RequestsInv'
  BY <1>1, <1>2 DEF RequestsInv
<1>5. HealthInv'
  <2>1. health \in Seq(H) /\ \A i \in DOMAIN health : health[i].kind # "Exhausted"
    BY <1>1 DEF LlmInv, HealthInv
  <2>2. CASE candidate = 1
    <3>1. health' = health
      BY <2>2 DEF SendSucceeds
    <3>2. QED
      BY <1>1, <3>1, HealthKept DEF LlmInv
  <2>3. CASE candidate # 1
    <3> DEFINE e == [kind |-> "Selected", after |-> round_attempts']
    <3>1. health' = Append(health, e)
      BY <2>3 DEF SendSucceeds
    <3>2. e \in H /\ e.kind # "Exhausted"
      BY <1>1, <1>2
    <3> HIDE DEF e
    <3>3. /\ Append(health, e) \in Seq(H)
          /\ Len(Append(health, e)) = Len(health) + 1 /\ Len(health) \in Nat
          /\ DOMAIN Append(health, e) = 1 .. Len(health) + 1
          /\ DOMAIN health = 1 .. Len(health)
          /\ \A i \in 1 .. Len(health) : Append(health, e)[i] = health[i]
          /\ Append(health, e)[Len(health) + 1] = e
      BY <2>1, <3>2, AppendProperties, LenProperties
    <3>4. \A i \in DOMAIN health' : health'[i].kind # "Exhausted"
      BY <2>1, <3>1, <3>2, <3>3
    <3>5. QED
      BY <1>1, <3>1, <3>3, <3>4 DEF HealthInv
  <2>4. QED
    BY <2>2, <2>3
<1>6. BudgetInv'
  BY <1>1, BudgetKept DEF LlmInv
<1>7. LedgerInv'
  <2>1. tokens \in Nat /\ call.context \in Contexts
    BY LlmAssumption DEF LlmInv, StandInv
  <2>2. QED
    BY <1>1, <2>1, ChargeInv DEF LlmInv
<1>8. TalkInv'
  BY <1>1, TalkKept DEF LlmInv
<1>9. QED
  BY <1>3, <1>4, <1>5, <1>6, <1>7, <1>8 DEF LlmInv

(* The model asks for tools. *)
LEMMA AnswerCallsToolsInv ==
    ASSUME LlmInv, NEW n \in 1 .. MaxTools, AnswerCallsTools(n)
    PROVE  LlmInv'
<1> DEFINE ids == [i \in 1..n |-> <<round, i>>]
           message == [role |-> "assistant", ids |-> ids]
<1>1. /\ at = "answer" /\ at' = "tool"
      /\ conversation' = Append(conversation, message) /\ pending' = ids
      /\ settings' = settings /\ call' = call /\ total' = total /\ round' = round
      /\ health' = health /\ sent' = sent /\ vain' = vain
      /\ UNCHANGED Ledger
  BY DEF AnswerCallsTools, Rest
<1>2. StandInv'
  BY <1>1 DEF LlmInv, StandInv
<1>3. RequestsInv'
  BY <1>1 DEF LlmInv, RequestsInv
<1>4. HealthInv'
  BY <1>1, HealthKept DEF LlmInv
<1>5. BudgetInv'
  BY <1>1, BudgetKept DEF LlmInv
<1>6. LedgerInv'
  BY <1>1, LedgerKept DEF LlmInv
<1>7. TalkInv'
  <2>1. /\ conversation \in Seq(Message) /\ round \in Nat /\ pending = <<>>
        /\ Complete(conversation \o ResultsOf(pending), round)
    BY <1>1 DEF LlmInv, StandInv, TalkInv
  <2>2. Complete(conversation, round)
    BY <2>1, NothingPending
  <2>3. n \in Nat \ {0}
    BY LlmAssumption
  <2>4. ids \in Seq(ToolIds) /\ Len(ids) = n
    <3>1. ids \in [1 .. n -> ToolIds]
      BY <2>1, <2>3 DEF ToolIds
    <3> HIDE DEF ids
    <3>2. QED
      BY <2>3, <3>1
  <2>5. ids # <<>>
    BY <2>3, <2>4, EmptySeq
  <2> HIDE DEF ids
  <2>6. /\ Append(conversation, message) \in Seq(Message)
        /\ Complete(Append(conversation, message) \o ResultsOf(ids), round + 1)
    BY <2>1, <2>2, <2>4, AskedOnceMore
  <2> HIDE DEF message
  <2>7. QED
    BY <1>1, <2>4, <2>5, <2>6 DEF TalkInv
<1>8. QED
  BY <1>2, <1>3, <1>4, <1>5, <1>6, <1>7 DEF LlmInv

(* A tool answers; with the last answer the next round is due. *)
LEMMA ToolSucceedsInv ==
    ASSUME LlmInv, ToolSucceeds
    PROVE  LlmInv'
<1>1. /\ at = "tool" /\ pending' = Tail(pending)
      /\ conversation' = Append(conversation, ResultOf(Head(pending)))
      /\ settings' = settings /\ call' = call /\ total' = total
      /\ health' = health /\ sent' = sent /\ vain' = vain
      /\ UNCHANGED Ledger
  BY DEF ToolSucceeds, AfterTool, Rest, ResultOf
<1>2. /\ Tail(pending) = <<>> => at' = "round" /\ round' = round + 1
      /\ Tail(pending) # <<>> => at' = "tool" /\ round' = round
  BY <1>1 DEF ToolSucceeds, AfterTool
<1>3. at' \in {"round", "tool"}
  BY <1>2
<1>4. StandInv'
  BY <1>1, <1>2 DEF LlmInv, StandInv
<1>5. RequestsInv'
  BY <1>1, <1>3 DEF LlmInv, RequestsInv
<1>6. HealthInv'
  BY <1>1, <1>3, HealthKept DEF LlmInv
<1>7. BudgetInv'
  BY <1>1, BudgetKept DEF LlmInv
<1>8. LedgerInv'
  BY <1>1, LedgerKept DEF LlmInv
<1>9. TalkInv'
  <2>1. /\ conversation \in Seq(Message) /\ pending \in Seq(ToolIds) /\ pending # <<>>
        /\ Complete(conversation \o ResultsOf(pending), round + 1)
    BY <1>1 DEF LlmInv, TalkInv
  <2>2. /\ conversation' \in Seq(Message) /\ pending' \in Seq(ToolIds)
        /\ conversation' \o ResultsOf(pending') = conversation \o ResultsOf(pending)
    BY <1>1, <2>1, AnswerExpected
  <2>3. Complete(conversation' \o ResultsOf(pending'), round + 1)
    BY <2>1, <2>2
  <2>4. CASE Tail(pending) = <<>>
    BY <1>1, <1>2, <2>2, <2>3, <2>4 DEF TalkInv
  <2>5. CASE Tail(pending) # <<>>
    BY <1>1, <1>2, <2>2, <2>3, <2>5 DEF TalkInv
  <2>6. QED
    BY <2>4, <2>5
<1>10. QED
  BY <1>4, <1>5, <1>6, <1>7, <1>8, <1>9 DEF LlmInv

(* Nothing happens. *)
LEMMA LlmStutters ==
    ASSUME LlmInv, UNCHANGED llm
    PROVE  LlmInv'
<1>1. LedgerInv'
  BY LedgerKept DEF LlmInv, llm, Ledger
<1>2. StandInv' /\ RequestsInv'
  BY DEF LlmInv, llm, StandInv, RequestsInv, Tries, Candidates, Usable
<1>3. HealthInv' /\ BudgetInv'
  BY DEF LlmInv, llm, HealthInv, BudgetInv, Tries, Candidates, Usable
<1>4. TalkInv'
  BY DEF LlmInv, llm, TalkInv
<1>5. QED
  BY <1>1, <1>2, <1>3, <1>4 DEF LlmInv

LEMMA LlmStepInv ==
    ASSUME LlmInv, [LlmNext]_llm
    PROVE  LlmInv'
<1>1. CASE BeginRound
  BY <1>1, BeginRoundInv
<1>2. CASE SendFails
  BY <1>2, SendFailsInv
<1>3. CASE AnswerRefused
  BY <1>3, ReturnInv DEF AnswerRefused
<1>4. CASE AnswerAccepted
  BY <1>4, ReturnInv DEF AnswerAccepted
<1>5. CASE ToolSucceeds
  BY <1>5, ToolSucceedsInv
<1>6. CASE ToolFails
  BY <1>6, ReturnInv DEF ToolFails
<1>7. CASE UNCHANGED llm
  BY <1>7, LlmStutters
<1>8. QED
  BY <1>1, <1>2, <1>3, <1>4, <1>5, <1>6, <1>7, InvokeInv, SendSucceedsInv, AnswerCallsToolsInv
     DEF LlmNext

LEMMA LlmInvariant == LlmSpec => []LlmInv
<1>1. LlmInv /\ [LlmNext]_llm => LlmInv'
  BY LlmStepInv
<1>2. QED
  BY <1>1, LlmInitInv, PTL DEF LlmSpec

(* For every set of fallback providers, every budget and every setting: a  *)
(* call reports the requests it made, is exhausted exactly when the last   *)
(* round tried every provider max_retries + 1 times in vain, begins with a *)
(* prompt that fits its budget, and is charged to its workflow and node    *)
(* with the tokens its answers reported.                                   *)
THEOREM CallsAreAccounted == LlmSpec => []CallIsAccounted
<1>1. LlmInv => CallIsAccounted
  <2> SUFFICES ASSUME LlmInv PROVE CallIsAccounted
    OBVIOUS
  <2>1. at = "idle" => result.attempts = sent
    BY DEF LlmInv, RequestsInv
  <2>2. /\ health # <<>> /\ Last(health).kind = "Exhausted" <=> at = "idle" /\ vain > 0
        /\ at = "idle" /\ vain > 0 =>
              vain = Len(Candidates) * (settings.max_retries + 1) /\ Last(health).after = vain
    <3>1. health # <<>> => Len(health) \in DOMAIN health
      BY EmptySeq, LenProperties DEF LlmInv, HealthInv
    <3>2. Last(health) = health[Len(health)]
      BY DEF Last
    <3>3. QED
      BY <3>1, <3>2 DEF LlmInv, HealthInv, Tries
  <2>3. at # "idle" =>
          LET b == Budgets[call.capability]
          IN  Estimate(call.prompt.system) + Estimate(call.prompt.user) + b.response <= b.total
    BY DEF LlmInv, BudgetInv
  <2>4. /\ \A w \in Workflows : workflow_totals[w] = Cardinality(Charged(w))
        /\ \A n \in Nodes : node_totals[n] = billed[n]
    BY DEF LlmInv, LedgerInv
  <2>5. QED
    BY <2>1, <2>2, <2>3, <2>4 DEF CallIsAccounted
<1>2. QED
  BY <1>1, LlmInvariant, PTL

(* Whatever tools are asked for, in however many rounds: every request     *)
(* carries, after each message in which the model asked for tools, the     *)
(* results of exactly those calls, in their order.                         *)
THEOREM ToolCallsAreAnswered == LlmSpec => []ToolsAreAnswered
<1>1. LlmInv => ToolsAreAnswered
  <2> SUFFICES ASSUME LlmInv, at = "send" PROVE Complete(conversation, round)
    BY DEF ToolsAreAnswered
  <2>1. /\ conversation \in Seq(Message) /\ pending = <<>>
        /\ Complete(conversation \o ResultsOf(pending), round)
    BY DEF LlmInv, TalkInv
  <2>2. QED
    BY <2>1, NothingPending
<1>2. QED
  BY <1>1, LlmInvariant, PTL
=============================================================================
