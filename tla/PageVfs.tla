------------------------------ MODULE PageVfs -------------------------------
(***************************************************************************)
(* The page store of the Circle program (octra_sqlite_circle.c): a VFS     *)
(* that keeps one SQLite file in the Circle's key-value storage.           *)
(*                                                                         *)
(* One update call runs at a time and starts from the storage alone        *)
(* (reset_runtime).  SQLite reads and writes pages of a dirty buffer; when *)
(* it has committed, flush_dirty_pages puts the dirty pages under keys of  *)
(* the next generation, then a manifest that names the generation of every *)
(* page, then the metadata key, and deletes what the flush replaced.       *)
(* Nothing here takes a call's puts to be atomic: each put or delete is a  *)
(* step, a put may be refused, and the call may be cut off between any two *)
(* of them (the host traps when its fuel is spent).                        *)
(*                                                                         *)
(* A page is one value, so sizes and offsets are counted in whole pages:   *)
(* SQLite writes whole pages of PAGE_SIZE bytes.                           *)
(***************************************************************************)
EXTENDS Integers, FiniteSets

CONSTANTS
    MaxVfsPages,     \* MAX_VFS_PAGES: pages the runtime arrays hold
    MaxDbPages,      \* MAX_DB_PAGES: pages a flushed file may have
    MaxDirtyPages,   \* MAX_DIRTY_PAGES: entries of the dirty buffer
    MaxGeneration,   \* the largest generation, 2^64-1 in the code
    MaxSequence,     \* the largest owner sequence, 2^64-1 in the code
    Data,            \* what a page can hold
    Zero,            \* the page of zero bytes
    Absent,          \* no value under a key, or no entry in the buffer
    Configured,      \* TRUE iff the program carries an owner key
    AutoVacuum,      \* TRUE iff SQLite shrinks the file at a commit
    Faults           \* what the host may do: refuse a "put", refuse a
                     \* "delete", "cut" a call off

PageNo == 1..MaxVfsPages
Gen == 0..MaxGeneration
Sequence == 0..MaxSequence
Versions == {"none", "v1", "v2", "v3", "v4"}
Metas == [version : Versions, size : 0..MaxVfsPages, gen : Gen, seq : Sequence]
Manifests == [count : 0..MaxVfsPages, gens : [PageNo -> Gen]]

ASSUME SizesAssumption ==
    /\ MaxVfsPages \in Nat \ {0}
    /\ MaxDbPages \in 1..MaxVfsPages
    /\ MaxDirtyPages \in Nat \ {0}
    /\ MaxGeneration \in Nat \ {0}
    /\ MaxSequence \in Nat \ {0}

ASSUME ValuesAssumption ==
    /\ Zero \in Data
    /\ Absent \notin Data
    /\ Absent \notin Manifests

ASSUME ModeAssumption ==
    /\ {Configured, AutoVacuum} \subseteq BOOLEAN
    /\ Faults \subseteq {"put", "delete", "cut"}

VARIABLES
    \* the Circle's key-value storage
    meta,        \* the metadata key; version "none" when there is none
    pageKv,      \* pageKv[g][p]: page p of generation g; generation 0 is the
                 \* key without a generation that v1 databases use
    manifestKv,  \* manifestKv[g]: the manifest of generation g
    \* the call in progress
    phase,
    loaded,      \* the metadata the call has read
    gens,        \* page_generations: the generation of every page, 0 past the end
    fileSize,    \* main_file_size
    dirty,       \* the dirty buffer
    pending,     \* pending_owner_sequence, 0 when inactive
    todo,        \* pages the current phase has still to put or delete
    reply,       \* what the caller of the last call was told
    \* history
    holes,       \* pages the file has grown over and SQLite has not written
    torn         \* a reset has deleted something and has not ended

storage == <<meta, pageKv, manifestKv>>
transaction == <<gens, fileSize, dirty, pending, holes>>
vars == <<storage, phase, loaded, transaction, todo, reply, torn>>

Phases == {"idle", "sql", "putPages", "putMeta", "gc", "resetPages", "resetMeta"}
Replies == {"none", "ok", "auth_replay", "sql_failed", "flush_failed",
            "reset_failed", "lost"}

NoMeta == [version |-> "none", size |-> 0, gen |-> 0, seq |-> 0]
NoGens == [p \in PageNo |-> 0]
NoPages == [p \in PageNo |-> Absent]

TypeOK ==
    /\ meta \in Metas
    /\ pageKv \in [Gen -> [PageNo -> Data \cup {Absent}]]
    /\ manifestKv \in [Gen -> Manifests \cup {Absent}]
    /\ phase \in Phases
    /\ loaded \in Metas
    /\ gens \in [PageNo -> Gen]
    /\ fileSize \in 0..MaxVfsPages
    /\ dirty \in [PageNo -> Data \cup {Absent}]
    /\ pending \in Sequence
    /\ todo \in SUBSET PageNo
    /\ reply \in Replies
    /\ holes \in SUBSET PageNo
    /\ torn \in BOOLEAN

-----------------------------------------------------------------------------
(* Reading the storage                                                     *)

HasManifest(m) == m.version \in {"v3", "v4"}

(* load_manifest succeeds *)
ManifestReadable(m) ==
    (HasManifest(m) /\ m.size > 0) =>
        /\ manifestKv[m.gen] # Absent
        /\ manifestKv[m.gen].count = m.size
        /\ \A p \in 1..m.size : manifestKv[m.gen].gens[p] <= m.gen

(* what load_manifest then leaves in page_generations *)
LoadedGens(m) ==
    [p \in PageNo |->
        IF p > m.size \/ m.version \in {"none", "v1"} THEN 0
        ELSE IF m.version = "v2" THEN m.gen
        ELSE manifestKv[m.gen].gens[p]]

(* read_page_version_from_kv: a missing key is an error, except that a page
   without generation reads as zeros *)
PageReadable(g, p) == g = 0 \/ pageKv[g][p] # Absent
PageContent(g, p) == IF pageKv[g][p] = Absent THEN Zero ELSE pageKv[g][p]

(* what octra_read returns to SQLite during a call, page by page *)
View == [p \in 1..fileSize |->
            IF dirty[p] # Absent THEN dirty[p] ELSE PageContent(gens[p], p)]

(* what a query or a backup that starts now reads *)
CommittedFile == [p \in 1..meta.size |-> PageContent(LoadedGens(meta)[p], p)]

-----------------------------------------------------------------------------
(* Storage left by this release or by an earlier one: the metadata, the    *)
(* page versions it names, and nothing else.                               *)

InitialGens(m, g) ==
    /\ \A p \in PageNo : p > m.size => g[p] = 0
    /\ m.version \in {"none", "v1"} => g = NoGens
    /\ m.version = "v2" => \A p \in 1..m.size : g[p] = m.gen
    /\ \A p \in PageNo : g[p] <= m.gen

InitialMeta(m) ==
    /\ m.version \in {"none", "v4"} => m.size <= MaxDbPages
    /\ m.version = "none" => m = NoMeta
    /\ m.version = "v1" => m.gen = 0
    /\ m.version \in {"v2", "v3", "v4"} => m.gen > 0
    /\ m.version # "v4" => m.seq = 0

InitialStorage(m, g, content) ==
    /\ InitialMeta(m)
    /\ InitialGens(m, g)
    /\ \A p \in PageNo :
          /\ p > m.size => content[p] = Absent
          /\ (p <= m.size /\ g[p] > 0) => content[p] # Absent
    /\ meta = m
    /\ pageKv = [h \in Gen |-> [p \in PageNo |->
                    IF g[p] = h THEN content[p] ELSE Absent]]
    /\ manifestKv = [h \in Gen |->
                        IF HasManifest(m) /\ m.size > 0 /\ h = m.gen
                        THEN [count |-> m.size, gens |-> g] ELSE Absent]

(* reset_runtime *)
Idle ==
    /\ phase = "idle"
    /\ loaded = NoMeta
    /\ gens = NoGens
    /\ fileSize = 0
    /\ dirty = NoPages
    /\ pending = 0
    /\ todo = {}
    /\ holes = {}

Init ==
    /\ \E m \in Metas, g \in [PageNo -> Gen],
          content \in [PageNo -> Data \cup {Absent}] : InitialStorage(m, g, content)
    /\ Idle
    /\ reply = "none"
    /\ torn = FALSE

(* The call ends with reply r; the next call starts from the storage alone. *)
Finish(r) ==
    /\ phase' = "idle"
    /\ loaded' = NoMeta
    /\ gens' = NoGens
    /\ fileSize' = 0
    /\ dirty' = NoPages
    /\ pending' = 0
    /\ todo' = {}
    /\ holes' = {}
    /\ reply' = r

-----------------------------------------------------------------------------
(* Opening a call                                                          *)

(* SQLite reads the header page as soon as it begins. *)
Openable ==
    /\ ManifestReadable(meta)
    /\ meta.size > 0 => PageReadable(LoadedGens(meta)[1], 1)

(* Mutant: the stored sequence itself is accepted again. *)
AcceptableAgain(s) == IF Configured THEN s > 0 /\ s >= meta.seq ELSE s = 0

(* The sequences a call may come with: verify_signed_exec_params wants a
   positive one above the stored one, an unpersonalized program takes none. *)
Acceptable(s) == IF Configured THEN s > meta.seq ELSE s = 0

(* octra_update, exec: verify, open_db, "begin immediate". *)
BeginExec(s) ==
    /\ phase = "idle"
    /\ Acceptable(s)
    /\ Openable
    /\ phase' = "sql"
    /\ loaded' = meta
    /\ gens' = LoadedGens(meta)
    /\ fileSize' = meta.size
    /\ pending' = s
    /\ reply' = "none"
    /\ UNCHANGED <<storage, dirty, todo, holes, torn>>

RefuseReplay(s) ==
    /\ phase = "idle"
    /\ Configured
    /\ s > 0
    /\ ~Acceptable(s)
    /\ reply' = "auth_replay"
    /\ UNCHANGED <<storage, phase, loaded, transaction, todo, torn>>

OpenFails(s) ==
    /\ phase = "idle"
    /\ Acceptable(s)
    /\ ~Openable
    /\ reply' = "sql_failed"
    /\ UNCHANGED <<storage, phase, loaded, transaction, todo, torn>>

-----------------------------------------------------------------------------
(* SQLite at work on the file                                              *)

DirtyPages == {p \in PageNo : dirty[p] # Absent}

(* "pragma max_page_count" stops SQLite from growing the file past the limit. *)
Allowed(p) == p <= MaxDbPages \/ p <= loaded.size

(* get_dirty_page: the buffer has room and the stored page can be read. *)
Bufferable(p) ==
    dirty[p] = Absent =>
        /\ Cardinality(DirtyPages) < MaxDirtyPages
        /\ PageReadable(gens[p], p)

WritePage(p, d) ==
    /\ phase = "sql"
    /\ Allowed(p)
    /\ Bufferable(p)
    /\ dirty' = [dirty EXCEPT ![p] = d]
    /\ fileSize' = IF p > fileSize THEN p ELSE fileSize
    /\ holes' = (holes \cup fileSize + 1..p) \ {p}
    /\ UNCHANGED <<storage, phase, loaded, gens, pending, todo, reply, torn>>

(* Without auto_vacuum SQLite truncates only what the transaction added. *)
Truncate(n) ==
    /\ phase = "sql"
    /\ n < fileSize
    /\ AutoVacuum \/ n >= loaded.size
    /\ fileSize' = n
    /\ holes' = holes \cap 1..n
    /\ UNCHANGED <<storage, phase, loaded, gens, dirty, pending, todo, reply, torn>>

(* An error in the SQL, the work budget, a full buffer, an unreadable page:
   SQLite rolls back and the buffer is dropped with the call. *)
SqlFails ==
    /\ phase = "sql"
    /\ Finish("sql_failed")
    /\ UNCHANGED <<storage, torn>>

-----------------------------------------------------------------------------
(* flush_dirty_pages, after SQLite has committed.  SQLite commits a file    *)
(* whose every page was written (secure_delete is on).                      *)

(* Mutant: a generation is skipped. *)
NextGenerationSkipping == loaded.gen + 2

NextGeneration == loaded.gen + 1

(* Mutant: a page appended by the transaction keeps generation 0. *)
NextGensOldPagesOnly ==
    [p \in PageNo |->
        IF p > fileSize \/ p > loaded.size THEN 0
        ELSE IF dirty[p] # Absent THEN NextGeneration ELSE gens[p]]

(* next_page_generations, as the manifest put records them *)
NextGens ==
    [p \in PageNo |->
        IF p > fileSize THEN 0
        ELSE IF dirty[p] # Absent THEN NextGeneration
        ELSE IF p <= loaded.size THEN gens[p] ELSE 0]

NothingToFlush == DirtyPages = {} /\ fileSize = loaded.size /\ pending = 0

(* Mutant: the generation counter is allowed to pass its last value. *)
FlushRefusedByPagesOnly == fileSize > MaxDbPages

(* SQLITE_FULL: the file is too large, or the generations are used up. *)
FlushRefused ==
    \/ fileSize > MaxDbPages
    \/ ~NothingToFlush /\ loaded.gen = MaxGeneration

SkipFlush ==
    /\ phase = "sql"
    /\ holes = {}
    /\ NothingToFlush
    /\ ~FlushRefused
    /\ Finish("ok")
    /\ UNCHANGED <<storage, torn>>

RefuseFlush ==
    /\ phase = "sql"
    /\ holes = {}
    /\ FlushRefused
    /\ Finish("flush_failed")
    /\ UNCHANGED <<storage, torn>>

(* Mutant: only pages of the old file are put. *)
BeginFlushOldPages ==
    /\ phase = "sql"
    /\ holes = {}
    /\ ~NothingToFlush
    /\ ~FlushRefused
    /\ phase' = "putPages"
    /\ todo' = {p \in DirtyPages : p <= fileSize /\ p <= loaded.size}
    /\ UNCHANGED <<storage, loaded, transaction, reply, torn>>

BeginFlush ==
    /\ phase = "sql"
    /\ holes = {}
    /\ ~NothingToFlush
    /\ ~FlushRefused
    /\ phase' = "putPages"
    /\ todo' = {p \in DirtyPages : p <= fileSize}
    /\ UNCHANGED <<storage, loaded, transaction, reply, torn>>

PutPage(p) ==
    /\ phase = "putPages"
    /\ p \in todo
    /\ pageKv' = [pageKv EXCEPT ![NextGeneration][p] = dirty[p]]
    /\ todo' = todo \ {p}
    /\ UNCHANGED <<meta, manifestKv, phase, loaded, transaction, reply, torn>>

(* Mutant: the manifest is taken to be unchanged when no page is dirty. *)
PutManifestWhenDirty ==
    /\ phase = "putPages"
    /\ todo = {}
    /\ manifestKv' =
           IF fileSize = 0 \/ DirtyPages = {} THEN manifestKv
           ELSE [manifestKv EXCEPT ![NextGeneration] =
                    [count |-> fileSize, gens |-> NextGens]]
    /\ phase' = "putMeta"
    /\ UNCHANGED <<meta, pageKv, loaded, transaction, todo, reply, torn>>

(* persist_manifest puts nothing for an empty file. *)
PutManifest ==
    /\ phase = "putPages"
    /\ todo = {}
    /\ manifestKv' =
           IF fileSize = 0 THEN manifestKv
           ELSE [manifestKv EXCEPT ![NextGeneration] =
                    [count |-> fileSize, gens |-> NextGens]]
    /\ phase' = "putMeta"
    /\ UNCHANGED <<meta, pageKv, loaded, transaction, todo, reply, torn>>

(* Mutant: every page of the old file counts as replaced. *)
ReplacedAll == 1..loaded.size

Replaced == {p \in 1..loaded.size : gens[p] # NextGens[p]}

(* The step that commits: readers follow the metadata key. *)
PutMeta ==
    /\ phase = "putMeta"
    /\ meta' = [version |-> "v4", size |-> fileSize, gen |-> NextGeneration,
                seq |-> IF pending > 0 THEN pending ELSE loaded.seq]
    /\ phase' = "gc"
    /\ todo' = Replaced
    /\ UNCHANGED <<pageKv, manifestKv, loaded, transaction, reply, torn>>

IsFirst(p) == p \in todo /\ \A q \in todo : p <= q

(* Deleting is best effort: nobody looks at what host_kv_del returns. *)
DeletePageVersion(g, p) ==
    \/ pageKv' = [pageKv EXCEPT ![g][p] = Absent]
    \/ "delete" \in Faults /\ UNCHANGED pageKv

DeleteManifest(m) ==
    IF HasManifest(m)
    THEN \/ manifestKv' = [manifestKv EXCEPT ![m.gen] = Absent]
         \/ "delete" \in Faults /\ UNCHANGED manifestKv
    ELSE UNCHANGED manifestKv

(* Mutant: replaced pages are looked for under the old file's generation. *)
CollectPageOfOldGeneration(p) ==
    /\ phase = "gc"
    /\ IsFirst(p)
    /\ DeletePageVersion(loaded.gen, p)
    /\ todo' = todo \ {p}
    /\ UNCHANGED <<meta, manifestKv, phase, loaded, transaction, reply, torn>>

CollectPage(p) ==
    /\ phase = "gc"
    /\ IsFirst(p)
    /\ DeletePageVersion(gens[p], p)
    /\ todo' = todo \ {p}
    /\ UNCHANGED <<meta, manifestKv, phase, loaded, transaction, reply, torn>>

CollectManifest ==
    /\ phase = "gc"
    /\ todo = {}
    /\ DeleteManifest(loaded)
    /\ Finish("ok")
    /\ UNCHANGED <<meta, pageKv, torn>>

(* Mutant: the code of a refused put is dropped and the call reports success. *)
PutFailsUnnoticed ==
    /\ "put" \in Faults
    /\ \/ phase = "putPages" /\ (todo # {} \/ fileSize > 0)
       \/ phase = "putMeta"
    /\ Finish("ok")
    /\ UNCHANGED <<storage, torn>>

(* host_kv_put refuses; what was put before stays. *)
PutFails ==
    /\ "put" \in Faults
    /\ \/ phase = "putPages" /\ (todo # {} \/ fileSize > 0)
       \/ phase = "putMeta"
    /\ Finish("flush_failed")
    /\ UNCHANGED <<storage, torn>>

(* The host stops the call; what was put or deleted before stays. *)
CutOff ==
    /\ "cut" \in Faults
    /\ phase # "idle"
    /\ Finish("lost")
    /\ UNCHANGED <<storage, torn>>

-----------------------------------------------------------------------------
(* reset_storage, open only to an unpersonalized program                   *)

(* Without a readable manifest only the metadata is deleted. *)
BeginReset ==
    /\ phase = "idle"
    /\ ~Configured
    /\ loaded' = meta
    /\ IF ManifestReadable(meta)
       THEN /\ phase' = "resetPages"
            /\ gens' = LoadedGens(meta)
            /\ todo' = 1..meta.size
       ELSE phase' = "resetMeta" /\ UNCHANGED <<gens, todo>>
    /\ reply' = "none"
    /\ UNCHANGED <<storage, fileSize, dirty, pending, holes, torn>>

ResetPage(p) ==
    /\ phase = "resetPages"
    /\ IsFirst(p)
    /\ DeletePageVersion(gens[p], p)
    /\ todo' = todo \ {p}
    /\ torn' = TRUE
    /\ UNCHANGED <<meta, manifestKv, phase, loaded, transaction, reply>>

ResetManifest ==
    /\ phase = "resetPages"
    /\ todo = {}
    /\ DeleteManifest(loaded)
    /\ phase' = "resetMeta"
    /\ torn' = (torn \/ HasManifest(loaded))
    /\ UNCHANGED <<meta, pageKv, loaded, transaction, todo, reply>>

ResetMeta ==
    /\ phase = "resetMeta"
    /\ meta' = NoMeta
    /\ torn' = FALSE
    /\ Finish("ok")
    /\ UNCHANGED <<pageKv, manifestKv>>

ResetFails ==
    /\ "delete" \in Faults
    /\ phase = "resetMeta"
    /\ Finish("reset_failed")
    /\ UNCHANGED <<storage, torn>>

-----------------------------------------------------------------------------
Next ==
    \/ \E s \in Sequence : BeginExec(s) \/ RefuseReplay(s) \/ OpenFails(s)
    \/ \E p \in PageNo, d \in Data : WritePage(p, d)
    \/ \E n \in 0..MaxVfsPages : Truncate(n)
    \/ SqlFails
    \/ SkipFlush
    \/ RefuseFlush
    \/ BeginFlush
    \/ \E p \in PageNo : PutPage(p)
    \/ PutManifest
    \/ PutMeta
    \/ \E p \in PageNo : CollectPage(p)
    \/ CollectManifest
    \/ PutFails
    \/ CutOff
    \/ BeginReset
    \/ \E p \in PageNo : ResetPage(p)
    \/ ResetManifest
    \/ ResetMeta
    \/ ResetFails

Spec == Init /\ [][Next]_vars

-----------------------------------------------------------------------------
(* Properties                                                              *)

(* At every instant - between two puts, after a cut-off, in the middle of   *)
(* garbage collection - the metadata names a manifest that is there and     *)
(* fits, and the manifest names page versions that are there: load_meta,    *)
(* load_manifest and read_page_version_from_kv of a call that starts now    *)
(* succeed.  Only an interrupted reset may break this.                      *)
CommittedReadable ==
    ~torn => /\ ManifestReadable(meta)
             /\ \A p \in 1..meta.size : PageReadable(LoadedGens(meta)[p], p)

(* When no put fails, no call is cut off and SQLite never shrinks the file, *)
(* the storage holds one version of each page of the file and one manifest, *)
(* and nothing else, between calls: gc_replaced_pages and reset_storage     *)
(* leave nothing behind, whichever release wrote the database.              *)
NothingButLive ==
    phase = "idle" =>
        /\ \A g \in Gen, p \in PageNo :
              pageKv[g][p] # Absent => p <= meta.size /\ LoadedGens(meta)[p] = g
        /\ \A g \in Gen :
              manifestKv[g] # Absent => g = meta.gen /\ HasManifest(meta)

(* What the storage model document says of the steady state: after a        *)
(* successful exec the storage holds one version of each page and one       *)
(* manifest.                                                                *)
SteadyStateBounded == reply = "ok" => NothingButLive

(* Whatever fails, a personalized program stores nothing above the          *)
(* generation after the committed one, so that a later flush overwrites     *)
(* what a failed one left under the keys it uses.                           *)
NoKeyBeyondNextGeneration ==
    Configured =>
        \A g \in Gen : g > meta.gen + 1 =>
            pageKv[g] = NoPages /\ manifestKv[g] = Absent

(* What the caller is told is what happened: after any reported failure the *)
(* metadata is that from which the call started, so neither pages nor the   *)
(* owner sequence were taken; after a signed exec that reports success the  *)
(* sequence is the stored one and its pages are the next generation.        *)
ReplyIsTrue ==
    (phase # "idle" /\ phase' = "idle") =>
        /\ reply' \in {"sql_failed", "flush_failed", "reset_failed"} => meta' = loaded
        /\ (reply' = "ok" /\ pending > 0) =>
              meta'.seq = pending /\ meta'.gen = NextGeneration

RepliesAreTrue == [][ReplyIsTrue]_vars

(* In a personalized program the metadata moves one way only: each          *)
(* promotion takes the next generation and a sequence above every one used  *)
(* before.  So no signed intent is applied twice, and a generation that a   *)
(* backup has pinned never comes back with other pages.                     *)
PromotionAdvances ==
    (Configured /\ meta' # meta) =>
        meta'.gen = meta.gen + 1 /\ meta'.seq > meta.seq

PromotionsAdvance == [][PromotionAdvances]_vars

-----------------------------------------------------------------------------
(* The inductive invariant behind TypeOK and CommittedReadable             *)

Transacting == phase \in {"sql", "putPages", "putMeta"}

(* The sequence of a transaction that may still commit was never used. *)
PendingFresh == IF Configured THEN Transacting => pending > loaded.seq ELSE pending = 0

(* Until it puts the metadata key, a call works on the storage it loaded. *)
LoadedIsCurrent ==
    /\ phase \in {"sql", "putPages", "putMeta", "resetPages", "resetMeta"} => loaded = meta
    /\ Transacting => ManifestReadable(meta) /\ gens = LoadedGens(meta)

(* A flush has a generation left to use. *)
GenerationLeft == phase \in {"putPages", "putMeta", "gc"} => loaded.gen < MaxGeneration

ToPut == {p \in DirtyPages : p <= fileSize}

(* What a flush has put so far is there, under the next generation. *)
PutSoFar ==
    /\ phase = "putPages" => todo \subseteq ToPut
    /\ phase = "putMeta" => todo = {}
    /\ phase \in {"putPages", "putMeta"} =>
          \A p \in ToPut \ todo : pageKv[NextGeneration][p] = dirty[p]

NextManifestPut ==
    fileSize > 0 =>
        manifestKv[NextGeneration] = [count |-> fileSize, gens |-> NextGens]

ManifestBeforeMeta == phase = "putMeta" => NextManifestPut

(* Garbage collection deletes only what the new manifest does not name. *)
Promoted ==
    phase = "gc" =>
        /\ meta.version = "v4"
        /\ meta.size = fileSize
        /\ meta.gen = NextGeneration
        /\ pending > 0 => meta.seq = pending
        /\ NextManifestPut
        /\ todo \subseteq Replaced

(* Gens of a call never lie above the generation it loaded. *)
GensLoaded == phase \in {"sql", "putPages", "putMeta", "gc"} =>
                  \A p \in PageNo : gens[p] <= loaded.gen

OwnerHasNoReset == phase \in {"resetPages", "resetMeta"} => ~Configured

IInv ==
    /\ TypeOK
    /\ LoadedIsCurrent
    /\ GenerationLeft
    /\ PutSoFar
    /\ ManifestBeforeMeta
    /\ Promoted
    /\ GensLoaded
    /\ PendingFresh
    /\ OwnerHasNoReset
    /\ CommittedReadable

-----------------------------------------------------------------------------
(* The inductive invariant behind NothingButLive, for a host without        *)
(* faults: what each phase may find in the storage besides the version and  *)
(* the manifest that the metadata names.                                    *)

Named(g, p) == p <= meta.size /\ LoadedGens(meta)[p] = g

Resetting == phase \in {"resetPages", "resetMeta"}

VersionsAccounted ==
    \A g \in Gen, p \in PageNo :
        pageKv[g][p] # Absent =>
            \/ ~Resetting /\ Named(g, p)
            \/ phase \in {"putPages", "putMeta"} /\ g = NextGeneration /\ p \in ToPut \ todo
            \/ phase \in {"gc", "resetPages"} /\ g = gens[p] /\ p \in todo

ManifestsAccounted ==
    \A g \in Gen :
        manifestKv[g] # Absent =>
            \/ phase # "resetMeta" /\ g = meta.gen /\ HasManifest(meta)
            \/ phase = "putMeta" /\ g = NextGeneration
            \/ phase = "gc" /\ g = loaded.gen /\ HasManifest(loaded)

(* SQLite kept every page of the file it opened. *)
NeverShrunk == phase \in {"sql", "putPages", "putMeta", "gc"} => fileSize >= loaded.size

StorageAccounted ==
    /\ IInv
    /\ VersionsAccounted
    /\ ManifestsAccounted
    /\ NeverShrunk
    /\ torn => Resetting
=============================================================================
