--------------------------- MODULE PageVfs_proofs ---------------------------
(***************************************************************************)
(* Proofs about the page store, for every file size, generation bound,     *)
(* page content, program mode and set of faults.  The argument: IInv holds *)
(* initially and every step preserves it (one lemma per action); its       *)
(* conjuncts say how far the flush in progress has come, which is what     *)
(* makes TypeOK and CommittedReadable inductive.                           *)
(***************************************************************************)
EXTENDS PageVfs, TLAPS

(* What load_manifest leaves in page_generations is a generation for each  *)
(* page, none above the generation of the metadata.                        *)
LEMMA LoadedGensBounded ==
    ASSUME meta \in Metas, manifestKv \in [Gen -> Manifests \cup {Absent}],
           ManifestReadable(meta)
    PROVE  /\ LoadedGens(meta) \in [PageNo -> Gen]
           /\ \A p \in PageNo : LoadedGens(meta)[p] <= meta.gen
<1> USE SizesAssumption, ValuesAssumption
<1> SUFFICES ASSUME NEW p \in PageNo
             PROVE  LoadedGens(meta)[p] \in Gen /\ LoadedGens(meta)[p] <= meta.gen
    BY DEF LoadedGens
<1>1. CASE p > meta.size \/ meta.version \in {"none", "v1"}
    BY <1>1 DEF LoadedGens, Metas, Gen
<1>2. CASE ~(p > meta.size \/ meta.version \in {"none", "v1"}) /\ meta.version = "v2"
    BY <1>2 DEF LoadedGens, Metas, Gen
<1>3. CASE ~(p > meta.size \/ meta.version \in {"none", "v1", "v2"})
    <2>1. HasManifest(meta) /\ meta.size > 0 /\ p \in 1..meta.size
        BY <1>3 DEF HasManifest, Metas, Versions, PageNo
    <2>2. manifestKv[meta.gen] \in Manifests /\ manifestKv[meta.gen].gens[p] <= meta.gen
        BY <2>1 DEF ManifestReadable, Metas
    <2>3. LoadedGens(meta)[p] = manifestKv[meta.gen].gens[p]
        BY <1>3 DEF LoadedGens
    <2> QED
        BY <2>2, <2>3 DEF Manifests
<1> QED
    BY <1>1, <1>2, <1>3

(* The manifest a flush puts names generations up to the next one.         *)
LEMMA NextGensBounded ==
    ASSUME TypeOK, GensLoaded, phase \in {"sql", "putPages", "putMeta", "gc"},
           loaded.gen < MaxGeneration
    PROVE  /\ NextGeneration \in Gen
           /\ NextGens \in [PageNo -> Gen]
           /\ \A p \in PageNo : NextGens[p] <= NextGeneration
<1> USE SizesAssumption
<1>1. NextGeneration \in Gen /\ loaded.gen \in Gen /\ loaded.gen < NextGeneration
    BY DEF TypeOK, Metas, Gen, NextGeneration
<1>2. \A p \in PageNo : NextGens[p] \in Gen /\ NextGens[p] <= NextGeneration
    BY <1>1 DEF TypeOK, GensLoaded, NextGens, Gen, PageNo
<1> QED
    BY <1>1, <1>2 DEF NextGens

(* What a call leaves behind is well typed.                                *)
LEMMA IdleValuesTyped ==
    /\ NoMeta \in Metas
    /\ NoGens \in [PageNo -> Gen]
    /\ NoPages \in [PageNo -> Data \cup {Absent}]
    /\ 0 \in Sequence
    /\ 0 \in 0..MaxVfsPages
    BY SizesAssumption DEF NoMeta, NoGens, NoPages, Metas, Versions, Gen, Sequence

(* A call that ends leaves an idle store behind.                           *)
LEMMA FinishKeepsIInv ==
    ASSUME IInv, NEW r \in Replies, Finish(r), UNCHANGED <<storage, torn>>
    PROVE  IInv'
<1> USE SizesAssumption, ValuesAssumption DEF Finish, storage
<1>1. TypeOK'
    BY DEF IInv, TypeOK, Phases, NoMeta, NoGens, NoPages, Metas, Versions, Gen, Sequence
<1>2. CommittedReadable'
    BY DEF IInv, CommittedReadable, ManifestReadable, HasManifest, LoadedGens, PageReadable
<1>3. LoadedIsCurrent' /\ GenerationLeft' /\ PutSoFar' /\ ManifestBeforeMeta' /\ Promoted'
        /\ GensLoaded'
    BY DEF LoadedIsCurrent, Transacting, GenerationLeft, PutSoFar, ManifestBeforeMeta,
           Promoted, GensLoaded
<1>4. PendingFresh' /\ OwnerHasNoReset'
    BY DEF IInv, PendingFresh, OwnerHasNoReset, Transacting
<1> QED
    BY <1>1, <1>2, <1>3, <1>4 DEF IInv

(* Steps that change neither the storage nor the call in progress, and     *)
(* stuttering.                                                             *)
LEMMA StutterKeepsIInv ==
    ASSUME IInv, reply' \in Replies,
           UNCHANGED <<storage, phase, loaded, transaction, todo, torn>>
    PROVE  IInv'
<1> USE DEF storage, transaction
<1>1. TypeOK'
    BY DEF IInv, TypeOK
<1>2. CommittedReadable' /\ LoadedIsCurrent'
    BY DEF IInv, CommittedReadable, ManifestReadable, HasManifest, LoadedGens, PageReadable,
           LoadedIsCurrent, Transacting
<1>3. GenerationLeft' /\ GensLoaded'
    BY DEF IInv, GenerationLeft, GensLoaded
<1>4. PutSoFar' /\ ManifestBeforeMeta' /\ Promoted'
    BY DEF IInv, PutSoFar, ManifestBeforeMeta, Promoted, NextManifestPut, NextGeneration,
           NextGens, ToPut, DirtyPages, Replaced
<1>5. PendingFresh' /\ OwnerHasNoReset'
    BY DEF IInv, PendingFresh, OwnerHasNoReset, Transacting
<1> QED
    BY <1>1, <1>2, <1>3, <1>4, <1>5 DEF IInv

(* Steps of SQLite on the dirty buffer: the call stays in its SQL phase    *)
(* and nothing is stored.                                                  *)
LEMMA SqlStepKeepsIInv ==
    ASSUME IInv, phase = "sql", TypeOK',
           UNCHANGED <<storage, phase, loaded, gens, pending, torn>>
    PROVE  IInv'
<1> USE DEF storage
<1>1. CommittedReadable' /\ LoadedIsCurrent'
    BY DEF IInv, CommittedReadable, ManifestReadable, HasManifest, LoadedGens, PageReadable,
           LoadedIsCurrent, Transacting
<1>2. GenerationLeft' /\ GensLoaded'
    BY DEF IInv, GenerationLeft, GensLoaded
<1>3. PutSoFar' /\ ManifestBeforeMeta' /\ Promoted'
    BY DEF PutSoFar, ManifestBeforeMeta, Promoted
<1>4. PendingFresh' /\ OwnerHasNoReset'
    BY DEF IInv, PendingFresh, OwnerHasNoReset, Transacting
<1> QED
    BY <1>1, <1>2, <1>3, <1>4 DEF IInv

LEMMA BeginExecKeepsIInv ==
    ASSUME IInv, NEW s \in Sequence, BeginExec(s)
    PROVE  IInv'
<1> USE SizesAssumption, ValuesAssumption DEF storage, BeginExec
<1>1. /\ meta \in Metas /\ ManifestReadable(meta)
      /\ manifestKv \in [Gen -> Manifests \cup {Absent}]
    BY DEF IInv, TypeOK, Openable
<1>2. /\ LoadedGens(meta) \in [PageNo -> Gen]
      /\ \A p \in PageNo : LoadedGens(meta)[p] <= meta.gen
    BY <1>1, LoadedGensBounded
<1>3. TypeOK'
    BY <1>1, <1>2 DEF IInv, TypeOK, Phases, Replies, Metas
<1>4. CommittedReadable' /\ LoadedIsCurrent'
    BY <1>1 DEF IInv, CommittedReadable, ManifestReadable, HasManifest, LoadedGens,
                PageReadable, LoadedIsCurrent, Transacting
<1>5. GensLoaded'
    BY <1>2 DEF GensLoaded
<1>6. GenerationLeft' /\ PutSoFar' /\ ManifestBeforeMeta' /\ Promoted'
    BY DEF GenerationLeft, PutSoFar, ManifestBeforeMeta, Promoted
<1>7. PendingFresh' /\ OwnerHasNoReset'
    BY DEF IInv, PendingFresh, OwnerHasNoReset, Transacting, Acceptable
<1> QED
    BY <1>3, <1>4, <1>5, <1>6, <1>7 DEF IInv

LEMMA WritePageKeepsIInv ==
    ASSUME IInv, NEW p \in PageNo, NEW d \in Data, WritePage(p, d)
    PROVE  IInv'
<1>1. TypeOK'
    BY SizesAssumption DEF IInv, TypeOK, WritePage, storage, PageNo
<1> QED
    BY <1>1, SqlStepKeepsIInv DEF WritePage

LEMMA TruncateKeepsIInv ==
    ASSUME IInv, NEW n \in 0..MaxVfsPages, Truncate(n)
    PROVE  IInv'
<1>1. TypeOK'
    BY DEF IInv, TypeOK, Truncate, storage
<1> QED
    BY <1>1, SqlStepKeepsIInv DEF Truncate

LEMMA BeginFlushKeepsIInv ==
    ASSUME IInv, BeginFlush
    PROVE  IInv'
<1> USE SizesAssumption DEF storage, transaction, BeginFlush
<1>1. TypeOK'
    BY DEF IInv, TypeOK, Phases, DirtyPages
<1>2. CommittedReadable' /\ LoadedIsCurrent'
    BY DEF IInv, CommittedReadable, ManifestReadable, HasManifest, LoadedGens, PageReadable,
           LoadedIsCurrent, Transacting
<1>3. GenerationLeft' /\ GensLoaded'
    <2>1. loaded.gen # MaxGeneration
        BY DEF FlushRefused
    <2> QED
        BY <2>1 DEF IInv, GenerationLeft, GensLoaded, TypeOK, Metas, Gen
<1>4. PutSoFar' /\ ManifestBeforeMeta' /\ Promoted'
    BY DEF PutSoFar, ManifestBeforeMeta, Promoted, ToPut, DirtyPages
<1>5. PendingFresh' /\ OwnerHasNoReset'
    BY DEF IInv, PendingFresh, OwnerHasNoReset, Transacting
<1> QED
    BY <1>1, <1>2, <1>3, <1>4, <1>5 DEF IInv

(* A page put goes to a generation that nothing names yet.                 *)
LEMMA PutPageKeepsIInv ==
    ASSUME IInv, NEW p \in PageNo, PutPage(p)
    PROVE  IInv'
<1> USE SizesAssumption, ValuesAssumption DEF PutPage, transaction
<1>1. /\ phase = "putPages" /\ p \in todo /\ p \in ToPut
      /\ loaded = meta /\ NextGeneration \in Gen /\ NextGeneration > meta.gen
      /\ NextGeneration' = NextGeneration
    BY NextGensBounded DEF IInv, PutSoFar, LoadedIsCurrent, GenerationLeft, NextGeneration,
                           TypeOK, Metas, Gen
<1>2. dirty[p] \in Data
    BY <1>1 DEF IInv, TypeOK, ToPut, DirtyPages
<1>3. TypeOK'
    BY <1>1, <1>2 DEF IInv, TypeOK, Phases
<1>4. ManifestReadable(meta) /\ ManifestReadable(meta)' /\ LoadedGens(meta)' = LoadedGens(meta)
    BY <1>1 DEF IInv, LoadedIsCurrent, Transacting, ManifestReadable, LoadedGens, HasManifest
<1>5. \A g \in Gen, q \in PageNo : PageReadable(g, q) => PageReadable(g, q)'
    BY <1>1, <1>2 DEF IInv, TypeOK, PageReadable
<1>6. LoadedGens(meta) \in [PageNo -> Gen]
    BY <1>4, LoadedGensBounded DEF IInv, TypeOK
<1>7. CommittedReadable'
    BY <1>4, <1>5, <1>6 DEF IInv, CommittedReadable, TypeOK, Metas, PageNo
<1>8. LoadedIsCurrent' /\ GenerationLeft' /\ GensLoaded' /\ ManifestBeforeMeta' /\ Promoted'
    BY <1>1, <1>4 DEF IInv, LoadedIsCurrent, Transacting, GenerationLeft, GensLoaded,
                      ManifestBeforeMeta, Promoted
<1>9. PutSoFar'
    <2>1. ToPut' = ToPut /\ todo' = todo \ {p}
        BY DEF ToPut, DirtyPages
    <2>2. \A q \in ToPut \ (todo \ {p}) : pageKv'[NextGeneration][q] = dirty[q]
        BY <1>1 DEF IInv, TypeOK, PutSoFar, ToPut, DirtyPages
    <2> QED
        BY <1>1, <2>1, <2>2 DEF IInv, PutSoFar
<1>10. PendingFresh' /\ OwnerHasNoReset'
    BY DEF IInv, PendingFresh, OwnerHasNoReset, Transacting
<1> QED
    BY <1>3, <1>7, <1>8, <1>9, <1>10 DEF IInv

LEMMA PutManifestKeepsIInv ==
    ASSUME IInv, PutManifest
    PROVE  IInv'
<1> USE SizesAssumption, ValuesAssumption DEF PutManifest, transaction
<1>1. /\ phase = "putPages" /\ todo = {} /\ loaded = meta
      /\ NextGeneration \in Gen /\ NextGeneration > meta.gen
      /\ NextGens \in [PageNo -> Gen]
      /\ NextGeneration' = NextGeneration /\ NextGens' = NextGens
    BY NextGensBounded DEF IInv, LoadedIsCurrent, GenerationLeft, NextGeneration, NextGens,
                           TypeOK, Metas, Gen
<1>2. TypeOK'
    BY <1>1 DEF IInv, TypeOK, Phases, Manifests
<1>3. manifestKv'[meta.gen] = manifestKv[meta.gen]
    BY <1>1 DEF IInv, TypeOK, Metas, Gen
<1>4. /\ ManifestReadable(meta) /\ ManifestReadable(meta)'
      /\ LoadedGens(meta)' = LoadedGens(meta)
    BY <1>1, <1>3 DEF IInv, LoadedIsCurrent, Transacting, ManifestReadable, LoadedGens,
                      HasManifest
<1>5. CommittedReadable'
    BY <1>4 DEF IInv, CommittedReadable, PageReadable
<1>6. LoadedIsCurrent' /\ GenerationLeft' /\ GensLoaded' /\ Promoted'
    BY <1>1, <1>4 DEF IInv, LoadedIsCurrent, Transacting, GenerationLeft, GensLoaded, Promoted
<1>7. PutSoFar'
    BY <1>1 DEF IInv, PutSoFar, ToPut, DirtyPages
<1>8. ManifestBeforeMeta'
    BY <1>1 DEF IInv, TypeOK, ManifestBeforeMeta, NextManifestPut
<1>9. PendingFresh' /\ OwnerHasNoReset'
    BY DEF IInv, PendingFresh, OwnerHasNoReset, Transacting
<1> QED
    BY <1>2, <1>5, <1>6, <1>7, <1>8, <1>9 DEF IInv

(* The step that commits: what the new manifest names was put by this      *)
(* flush or was readable before.                                           *)
LEMMA PutMetaKeepsIInv ==
    ASSUME IInv, PutMeta
    PROVE  IInv'
<1> USE SizesAssumption, ValuesAssumption DEF PutMeta, transaction
<1>1. /\ phase = "putMeta" /\ todo = {} /\ loaded = meta
      /\ gens = LoadedGens(meta)
      /\ NextGeneration \in Gen /\ NextGeneration > meta.gen
      /\ NextGens \in [PageNo -> Gen]
      /\ \A p \in PageNo : NextGens[p] <= NextGeneration
      /\ NextGeneration' = NextGeneration /\ NextGens' = NextGens
    BY NextGensBounded DEF IInv, PutSoFar, LoadedIsCurrent, Transacting, GenerationLeft,
                           NextGeneration, NextGens, TypeOK, Metas, Gen
<1>2. TypeOK'
    BY <1>1 DEF IInv, TypeOK, Phases, Metas, Versions, Replaced, PageNo, Sequence
<1>3. NextManifestPut /\ NextManifestPut'
    BY <1>1 DEF IInv, ManifestBeforeMeta, NextManifestPut
<1>4. /\ meta'.version = "v4" /\ meta'.size = fileSize /\ meta'.gen = NextGeneration
      /\ HasManifest(meta')
    BY DEF HasManifest
<1>5. ManifestReadable(meta)'
    <2> SUFFICES ASSUME fileSize > 0
                 PROVE  /\ manifestKv[NextGeneration] # Absent
                        /\ manifestKv[NextGeneration].count = fileSize
                        /\ \A p \in 1..fileSize :
                              manifestKv[NextGeneration].gens[p] <= NextGeneration
        BY <1>4 DEF ManifestReadable
    <2>1. manifestKv[NextGeneration] = [count |-> fileSize, gens |-> NextGens]
        BY <1>3 DEF NextManifestPut
    <2>2. manifestKv[NextGeneration] \in Manifests
        BY <1>1, <2>1 DEF Manifests, IInv, TypeOK
    <2> QED
        BY <1>1, <2>1, <2>2 DEF IInv, TypeOK, PageNo
<1>6. \A p \in 1..fileSize : LoadedGens(meta)'[p] = NextGens[p]
    BY <1>3, <1>4 DEF LoadedGens, NextManifestPut, IInv, TypeOK, PageNo
<1>7. CommittedReadable'
    <2> SUFFICES ASSUME ~torn, NEW p \in 1..fileSize
                 PROVE  PageReadable(NextGens[p], p)
        BY <1>4, <1>5, <1>6 DEF CommittedReadable, PageReadable
    <2>1. p \in PageNo
        BY DEF IInv, TypeOK, PageNo
    <2>2. CASE dirty[p] # Absent
        <3>1. pageKv[NextGeneration][p] = dirty[p]
            BY <1>1, <2>1, <2>2 DEF IInv, PutSoFar, ToPut, DirtyPages
        <3> QED
            BY <2>1, <2>2, <3>1 DEF PageReadable, NextGens, IInv, TypeOK
    <2>3. CASE dirty[p] = Absent /\ p <= loaded.size
        <3>1. p \in 1..meta.size /\ NextGens[p] = LoadedGens(meta)[p]
            BY <1>1, <2>1, <2>3 DEF NextGens, IInv, TypeOK, Metas, PageNo
        <3> QED
            BY <3>1 DEF IInv, CommittedReadable
    <2>4. CASE dirty[p] = Absent /\ ~(p <= loaded.size)
        BY <2>1, <2>4 DEF NextGens, PageReadable, IInv, TypeOK
    <2> QED
        BY <2>2, <2>3, <2>4
<1>8. Promoted'
    BY <1>3, <1>4, <1>1 DEF Promoted, Replaced
<1>9. LoadedIsCurrent' /\ GenerationLeft' /\ GensLoaded' /\ PutSoFar' /\ ManifestBeforeMeta'
    BY <1>1 DEF IInv, LoadedIsCurrent, Transacting, GenerationLeft, GensLoaded, PutSoFar,
                ManifestBeforeMeta
<1>10. PendingFresh' /\ OwnerHasNoReset'
    BY DEF IInv, PendingFresh, OwnerHasNoReset, Transacting
<1> QED
    BY <1>2, <1>7, <1>8, <1>9, <1>10 DEF IInv

(* A deletion disturbs at most the version it is about.                    *)
LEMMA DeletePageVersionEffect ==
    ASSUME NEW g \in Gen, NEW p \in PageNo,
           pageKv \in [Gen -> [PageNo -> Data \cup {Absent}]],
           DeletePageVersion(g, p)
    PROVE  /\ pageKv' \in [Gen -> [PageNo -> Data \cup {Absent}]]
           /\ \A h \in Gen, q \in PageNo :
                 ~(h = g /\ q = p) => pageKv'[h][q] = pageKv[h][q]
<1>1. CASE pageKv' = [pageKv EXCEPT ![g][p] = Absent]
    BY <1>1
<1>2. CASE UNCHANGED pageKv
    BY <1>2
<1> QED
    BY <1>1, <1>2 DEF DeletePageVersion

(* Collecting a replaced version never touches the one the metadata names. *)
LEMMA CollectPageKeepsIInv ==
    ASSUME IInv, NEW p \in PageNo, CollectPage(p)
    PROVE  IInv'
<1> USE SizesAssumption, ValuesAssumption DEF CollectPage, transaction
<1>1. /\ phase = "gc" /\ p \in Replaced /\ gens[p] \in Gen
      /\ meta.version = "v4" /\ meta.size = fileSize /\ meta.gen = NextGeneration
      /\ NextManifestPut
      /\ NextGens' = NextGens /\ NextGeneration' = NextGeneration
    BY DEF IInv, Promoted, IsFirst, NextGens, NextGeneration, TypeOK
<1>2. \A g \in Gen, q \in PageNo :
          ~(g = gens[p] /\ q = p) => pageKv'[g][q] = pageKv[g][q]
    BY <1>1, DeletePageVersionEffect DEF IInv, TypeOK
<1>3. TypeOK'
    <2>1. pageKv' \in [Gen -> [PageNo -> Data \cup {Absent}]]
        BY <1>1, DeletePageVersionEffect DEF IInv, TypeOK
    <2> QED
        BY <2>1 DEF IInv, TypeOK
<1>4. NextGens \in [PageNo -> Gen]
    BY <1>1, NextGensBounded DEF IInv, GenerationLeft
<1>5. \A q \in 1..meta.size : LoadedGens(meta)[q] = NextGens[q]
    BY <1>1 DEF LoadedGens, NextManifestPut, IInv, TypeOK, PageNo
<1>6. ManifestReadable(meta)' = ManifestReadable(meta) /\ LoadedGens(meta)' = LoadedGens(meta)
    BY DEF ManifestReadable, LoadedGens, HasManifest
<1>7. CommittedReadable'
    <2> SUFFICES ASSUME ~torn, NEW q \in 1..meta.size
                 PROVE  NextGens[q] = 0 \/ pageKv'[NextGens[q]][q] # Absent
        BY <1>1, <1>5, <1>6 DEF IInv, CommittedReadable, PageReadable
    <2>1. q \in PageNo /\ NextGens[q] \in Gen /\ PageReadable(NextGens[q], q)
        BY <1>4, <1>5 DEF IInv, CommittedReadable, TypeOK, Metas, PageNo
    <2>2. ~(NextGens[q] = gens[p] /\ q = p)
        BY <1>1 DEF Replaced
    <2> QED
        BY <1>1, <1>2, <2>1, <2>2 DEF PageReadable
<1>8. LoadedIsCurrent' /\ GenerationLeft' /\ GensLoaded' /\ PutSoFar' /\ ManifestBeforeMeta'
    BY <1>1 DEF IInv, LoadedIsCurrent, Transacting, GenerationLeft, GensLoaded, PutSoFar,
                ManifestBeforeMeta
<1>9. Promoted'
    BY <1>1 DEF IInv, Promoted, NextManifestPut, Replaced
<1>10. PendingFresh' /\ OwnerHasNoReset'
    BY DEF IInv, PendingFresh, OwnerHasNoReset, Transacting
<1> QED
    BY <1>3, <1>7, <1>8, <1>9, <1>10 DEF IInv

LEMMA CollectManifestKeepsIInv ==
    ASSUME IInv, CollectManifest
    PROVE  IInv'
<1> USE SizesAssumption, ValuesAssumption DEF CollectManifest, Finish
<1>1. /\ phase = "gc"
      /\ meta.version = "v4" /\ meta.gen = NextGeneration /\ loaded.gen # meta.gen
      /\ loaded.gen \in Gen
    BY DEF IInv, Promoted, NextGeneration, TypeOK, Metas, Gen
<1>2. /\ manifestKv' \in [Gen -> Manifests \cup {Absent}]
      /\ manifestKv'[meta.gen] = manifestKv[meta.gen]
    BY <1>1 DEF DeleteManifest, IInv, TypeOK, Metas
<1>3. TypeOK'
    BY <1>2 DEF IInv, TypeOK, Phases, Replies, NoMeta, NoGens, NoPages, Metas, Versions, Gen,
                Sequence
<1>4. CommittedReadable'
    BY <1>2 DEF IInv, CommittedReadable, ManifestReadable, HasManifest, LoadedGens,
                PageReadable
<1>5. LoadedIsCurrent' /\ GenerationLeft' /\ PutSoFar' /\ ManifestBeforeMeta' /\ Promoted'
        /\ GensLoaded'
    BY DEF LoadedIsCurrent, Transacting, GenerationLeft, PutSoFar, ManifestBeforeMeta,
           Promoted, GensLoaded
<1>6. PendingFresh' /\ OwnerHasNoReset'
    BY DEF IInv, PendingFresh, OwnerHasNoReset, Transacting
<1> QED
    BY <1>3, <1>4, <1>5, <1>6 DEF IInv

(* Reset steps keep everything but readability, which the first deletion   *)
(* gives up by raising torn.                                               *)
LEMMA BeginResetKeepsIInv ==
    ASSUME IInv, BeginReset
    PROVE  IInv'
<1> USE SizesAssumption, ValuesAssumption DEF storage, BeginReset
<1>1. meta \in Metas /\ manifestKv \in [Gen -> Manifests \cup {Absent}]
    BY DEF IInv, TypeOK
<1>2. ManifestReadable(meta) => LoadedGens(meta) \in [PageNo -> Gen]
    BY <1>1, LoadedGensBounded
<1>3. TypeOK'
    <2>1. gens' \in [PageNo -> Gen]
        BY <1>2 DEF IInv, TypeOK
    <2>2. todo' \subseteq PageNo
        <3>1. 1..meta.size \subseteq PageNo
            BY <1>1 DEF Metas, PageNo
        <3>2. todo \subseteq PageNo
            BY DEF IInv, TypeOK
        <3> QED
            BY <3>1, <3>2
    <2> QED
        BY <2>1, <2>2 DEF IInv, TypeOK, Phases, Replies
<1>4. CommittedReadable' /\ LoadedIsCurrent'
    BY DEF IInv, CommittedReadable, ManifestReadable, HasManifest, LoadedGens, PageReadable,
           LoadedIsCurrent, Transacting
<1>5. GenerationLeft' /\ PutSoFar' /\ ManifestBeforeMeta' /\ Promoted' /\ GensLoaded'
    BY DEF GenerationLeft, PutSoFar, ManifestBeforeMeta, Promoted, GensLoaded
<1>6. PendingFresh' /\ OwnerHasNoReset'
    BY DEF IInv, PendingFresh, OwnerHasNoReset, Transacting
<1> QED
    BY <1>3, <1>4, <1>5, <1>6 DEF IInv

LEMMA ResetPageKeepsIInv ==
    ASSUME IInv, NEW p \in PageNo, ResetPage(p)
    PROVE  IInv'
<1> USE DEF ResetPage, transaction
<1>1. pageKv' \in [Gen -> [PageNo -> Data \cup {Absent}]]
    BY DeletePageVersionEffect DEF IInv, TypeOK
<1>2. TypeOK'
    BY <1>1 DEF IInv, TypeOK
<1>3. CommittedReadable' /\ LoadedIsCurrent'
    BY DEF IInv, CommittedReadable, LoadedIsCurrent, Transacting
<1>4. GenerationLeft' /\ PutSoFar' /\ ManifestBeforeMeta' /\ Promoted' /\ GensLoaded'
    BY DEF GenerationLeft, PutSoFar, ManifestBeforeMeta, Promoted, GensLoaded
<1>5. PendingFresh' /\ OwnerHasNoReset'
    BY DEF IInv, PendingFresh, OwnerHasNoReset, Transacting
<1> QED
    BY <1>2, <1>3, <1>4, <1>5 DEF IInv

LEMMA ResetManifestKeepsIInv ==
    ASSUME IInv, ResetManifest
    PROVE  IInv'
<1> USE ValuesAssumption DEF ResetManifest, transaction
<1>1. loaded = meta /\ manifestKv' \in [Gen -> Manifests \cup {Absent}]
    BY DEF IInv, LoadedIsCurrent, DeleteManifest, TypeOK, Metas
<1>2. TypeOK'
    BY <1>1 DEF IInv, TypeOK, Phases
<1>3. CommittedReadable'
    <2>1. CASE HasManifest(loaded)
        BY <2>1 DEF CommittedReadable
    <2>2. CASE ~HasManifest(loaded)
        <3>1. UNCHANGED manifestKv /\ (torn => torn')
            BY <2>2 DEF DeleteManifest
        <3> QED
            BY <1>1, <3>1 DEF IInv, CommittedReadable, ManifestReadable, HasManifest,
                              LoadedGens, PageReadable
    <2> QED
        BY <2>1, <2>2
<1>4. LoadedIsCurrent' /\ GenerationLeft' /\ PutSoFar' /\ ManifestBeforeMeta' /\ Promoted'
        /\ GensLoaded'
    BY <1>1 DEF LoadedIsCurrent, Transacting, GenerationLeft, PutSoFar, ManifestBeforeMeta,
                Promoted, GensLoaded
<1>5. PendingFresh' /\ OwnerHasNoReset'
    BY DEF IInv, PendingFresh, OwnerHasNoReset, Transacting
<1> QED
    BY <1>2, <1>3, <1>4, <1>5 DEF IInv

LEMMA ResetMetaKeepsIInv ==
    ASSUME IInv, ResetMeta
    PROVE  IInv'
<1> USE SizesAssumption DEF ResetMeta, Finish
<1>1. TypeOK'
    BY IdleValuesTyped DEF IInv, TypeOK, Phases, Replies
<1>2. CommittedReadable'
    BY DEF CommittedReadable, ManifestReadable, HasManifest, NoMeta
<1>3. LoadedIsCurrent' /\ GenerationLeft' /\ PutSoFar' /\ ManifestBeforeMeta' /\ Promoted'
        /\ GensLoaded'
    BY DEF LoadedIsCurrent, Transacting, GenerationLeft, PutSoFar, ManifestBeforeMeta,
           Promoted, GensLoaded
<1>4. PendingFresh' /\ OwnerHasNoReset'
    BY DEF IInv, PendingFresh, OwnerHasNoReset, Transacting
<1> QED
    BY <1>1, <1>2, <1>3, <1>4 DEF IInv

(* A database of any release starts with every version it names in place.  *)
LEMMA InitialIInv == Init => IInv
<1> SUFFICES ASSUME NEW m \in Metas, NEW g \in [PageNo -> Gen],
                    NEW content \in [PageNo -> Data \cup {Absent}],
                    InitialStorage(m, g, content), Idle, reply = "none", torn = FALSE
             PROVE  IInv
    BY DEF Init
<1> USE SizesAssumption, ValuesAssumption DEF InitialStorage, Idle
<1>1. TypeOK
    <2>1. pageKv \in [Gen -> [PageNo -> Data \cup {Absent}]]
        OBVIOUS
    <2>2. manifestKv \in [Gen -> Manifests \cup {Absent}]
        BY DEF Manifests, Metas
    <2> QED
        BY <2>1, <2>2, IdleValuesTyped DEF TypeOK, Phases, Replies
<1>2. HasManifest(m) /\ m.size > 0 => manifestKv[m.gen] = [count |-> m.size, gens |-> g]
    BY DEF Metas
<1>3. ManifestReadable(meta)
    <2> SUFFICES ASSUME HasManifest(m), m.size > 0
                 PROVE  /\ manifestKv[m.gen] # Absent
                        /\ manifestKv[m.gen].count = m.size
                        /\ \A p \in 1..m.size : manifestKv[m.gen].gens[p] <= m.gen
        BY DEF ManifestReadable
    <2>1. [count |-> m.size, gens |-> g] \in Manifests
        BY DEF Manifests, Metas
    <2> QED
        BY <1>2, <2>1 DEF InitialGens, Metas, PageNo
<1>4. CommittedReadable
    <2> SUFFICES ASSUME NEW p \in 1..m.size
                 PROVE  PageReadable(LoadedGens(m)[p], p)
        BY <1>3 DEF CommittedReadable
    <2>1. p \in PageNo
        BY DEF Metas, PageNo
    <2>2. LoadedGens(m)[p] = g[p]
        BY <1>2, <2>1 DEF LoadedGens, InitialGens, NoGens, HasManifest, Metas, Versions
    <2>3. g[p] > 0 => pageKv[g[p]][p] = content[p] /\ content[p] # Absent
        BY <2>1
    <2> QED
        BY <2>1, <2>2, <2>3 DEF PageReadable, Gen
<1>5. LoadedIsCurrent /\ GenerationLeft /\ PutSoFar /\ ManifestBeforeMeta /\ Promoted
        /\ GensLoaded
    BY DEF LoadedIsCurrent, Transacting, GenerationLeft, PutSoFar, ManifestBeforeMeta,
           Promoted, GensLoaded
<1>6. PendingFresh /\ OwnerHasNoReset
    BY DEF IInv, PendingFresh, OwnerHasNoReset, Transacting
<1> QED
    BY <1>1, <1>4, <1>5, <1>6 DEF IInv

LEMMA StepKeepsIInv == IInv /\ [Next]_vars => IInv'
<1> SUFFICES ASSUME IInv, [Next]_vars PROVE IInv'
    OBVIOUS
<1> USE DEF storage, transaction
<1>1. ASSUME NEW s \in Sequence, BeginExec(s) PROVE IInv'
    BY <1>1, BeginExecKeepsIInv
<1>2. ASSUME NEW s \in Sequence, RefuseReplay(s) \/ OpenFails(s) PROVE IInv'
    BY <1>2, StutterKeepsIInv DEF RefuseReplay, OpenFails, Replies
<1>3. ASSUME NEW p \in PageNo, NEW d \in Data, WritePage(p, d) PROVE IInv'
    BY <1>3, WritePageKeepsIInv
<1>4. ASSUME NEW n \in 0..MaxVfsPages, Truncate(n) PROVE IInv'
    BY <1>4, TruncateKeepsIInv
<1>5. CASE SqlFails \/ SkipFlush \/ RefuseFlush \/ PutFails \/ CutOff \/ ResetFails
    <2>1. PICK r \in Replies : Finish(r) /\ UNCHANGED <<storage, torn>>
        BY <1>5 DEF SqlFails, SkipFlush, RefuseFlush, PutFails, CutOff, ResetFails, Replies
    <2> QED
        BY <2>1, FinishKeepsIInv
<1>6. CASE BeginFlush
    BY <1>6, BeginFlushKeepsIInv
<1>7. ASSUME NEW p \in PageNo, PutPage(p) PROVE IInv'
    BY <1>7, PutPageKeepsIInv
<1>8. CASE PutManifest
    BY <1>8, PutManifestKeepsIInv
<1>9. CASE PutMeta
    BY <1>9, PutMetaKeepsIInv
<1>10. ASSUME NEW p \in PageNo, CollectPage(p) PROVE IInv'
    BY <1>10, CollectPageKeepsIInv
<1>11. CASE CollectManifest
    BY <1>11, CollectManifestKeepsIInv
<1>12. CASE BeginReset
    BY <1>12, BeginResetKeepsIInv
<1>13. ASSUME NEW p \in PageNo, ResetPage(p) PROVE IInv'
    BY <1>13, ResetPageKeepsIInv
<1>14. CASE ResetManifest
    BY <1>14, ResetManifestKeepsIInv
<1>15. CASE ResetMeta
    BY <1>15, ResetMetaKeepsIInv
<1>16. CASE UNCHANGED vars
    BY <1>16, StutterKeepsIInv DEF vars, IInv, TypeOK
<1> QED
    BY <1>1, <1>2, <1>3, <1>4, <1>5, <1>6, <1>7, <1>8, <1>9, <1>10, <1>11, <1>12, <1>13,
       <1>14, <1>15, <1>16 DEF Next

(* The inductive invariant holds throughout.                               *)
THEOREM InvariantHolds == Spec => []IInv
<1> QED
    BY InitialIInv, StepKeepsIInv, PTL DEF Spec

(* Type correctness: in particular the generation never passes its bound   *)
(* and a flush never names a page beyond the file.                         *)
THEOREM TypeCorrect == Spec => []TypeOK
<1>1. IInv => TypeOK
    BY DEF IInv
<1> QED
    BY <1>1, InvariantHolds, PTL

(* Wherever a flush is cut off or refused, a reader that starts then finds *)
(* the manifest and every page version it needs.                           *)
THEOREM CommittedAlwaysReadable == Spec => []CommittedReadable
<1>1. IInv => CommittedReadable
    BY DEF IInv
<1> QED
    BY <1>1, InvariantHolds, PTL

(* What a call is told is what happened to the metadata and the sequence:  *)
(* no failure is reported after the commit, and no success before it.      *)
THEOREM RepliesAlwaysTrue == Spec => RepliesAreTrue
<1>1. ASSUME IInv, [Next]_vars PROVE [ReplyIsTrue]_vars
    <2> SUFFICES ASSUME phase # "idle", phase' = "idle" PROVE ReplyIsTrue
        BY DEF ReplyIsTrue
    <2> USE DEF Finish, ReplyIsTrue
    <2>1. CASE SqlFails \/ SkipFlush \/ RefuseFlush \/ PutFails \/ CutOff \/ ResetFails
        <3>1. UNCHANGED meta
            BY <2>1 DEF SqlFails, SkipFlush, RefuseFlush, PutFails, CutOff, ResetFails, storage
        <3>2. CASE SkipFlush
            BY <1>1, <3>2 DEF SkipFlush, NothingToFlush, IInv, TypeOK, Sequence
        <3>3. CASE SqlFails \/ RefuseFlush \/ PutFails \/ ResetFails
            BY <1>1, <3>1, <3>3 DEF SqlFails, RefuseFlush, PutFails, ResetFails, IInv,
                              LoadedIsCurrent
        <3>4. CASE CutOff
            BY <3>4 DEF CutOff
        <3> QED
            BY <2>1, <3>2, <3>3, <3>4
    <2>2. CASE CollectManifest
        BY <1>1, <2>2 DEF CollectManifest, IInv, Promoted
    <2>3. CASE ResetMeta
        BY <1>1, <2>3 DEF ResetMeta, IInv, OwnerHasNoReset, PendingFresh
    <2>4. SqlFails \/ SkipFlush \/ RefuseFlush \/ PutFails \/ CutOff \/ ResetFails
              \/ CollectManifest \/ ResetMeta
        BY <1>1 DEF Next, vars, BeginExec, RefuseReplay, OpenFails, WritePage, Truncate,
                    BeginFlush, PutPage, PutManifest, PutMeta, CollectPage, BeginReset,
                    ResetPage, ResetManifest
    <2> QED
        BY <2>1, <2>2, <2>3, <2>4
<1> QED
    BY <1>1, InvariantHolds, PTL DEF Spec, RepliesAreTrue

LEMMA PromotionStep ==
    ASSUME IInv, [Next]_vars
    PROVE  [PromotionAdvances]_vars
<1> SUFFICES ASSUME Configured, meta' # meta
             PROVE  meta'.gen = meta.gen + 1 /\ meta'.seq > meta.seq
    BY DEF PromotionAdvances
<1>1. CASE PutMeta
    BY <1>1 DEF PutMeta, NextGeneration, IInv, TypeOK, Metas, Sequence, LoadedIsCurrent,
                PendingFresh, Transacting
<1>2. CASE ResetMeta
    BY <1>2 DEF ResetMeta, IInv, OwnerHasNoReset
<1>3. PutMeta \/ ResetMeta
    BY DEF Next, vars, storage, BeginExec, RefuseReplay, OpenFails, WritePage,
                Truncate, SqlFails, SkipFlush, RefuseFlush, BeginFlush, PutPage,
                PutManifest, CollectPage, CollectManifest, PutFails, CutOff, BeginReset,
                ResetPage, ResetManifest, ResetFails
<1> QED
    BY <1>1, <1>2, <1>3

(* Every promotion of a personalized program takes the next generation and *)
(* a sequence never used before, so no signed intent commits twice.        *)
THEOREM PromotionsAlwaysAdvance == Spec => PromotionsAdvance
<1> QED
    BY PromotionStep, InvariantHolds, PTL DEF Spec, PromotionsAdvance

(* What a failed flush left behind lies under the keys of the next flush.  *)
THEOREM NeverBeyondNextGeneration == Spec => []NoKeyBeyondNextGeneration
<1> DEFINE Clean(g) == pageKv[g] = NoPages /\ manifestKv[g] = Absent
<1>1. Init => NoKeyBeyondNextGeneration
    <2> SUFFICES ASSUME NEW m \in Metas, NEW h \in [PageNo -> Gen],
                        NEW content \in [PageNo -> Data \cup {Absent}],
                        InitialStorage(m, h, content),
                        NEW g \in Gen, g > meta.gen + 1
                 PROVE  Clean(g)
        BY DEF Init, NoKeyBeyondNextGeneration
    <2>1. \A p \in PageNo : h[p] # g
        BY DEF InitialStorage, InitialGens, Metas, Gen
    <2> QED
        BY <2>1 DEF InitialStorage, NoPages, Metas, Gen
<1>2. ASSUME IInv, NoKeyBeyondNextGeneration, [Next]_vars
      PROVE  NoKeyBeyondNextGeneration'
    <2> SUFFICES ASSUME Configured, NEW g \in Gen, g > meta'.gen + 1
                 PROVE  Clean(g)'
        BY DEF NoKeyBeyondNextGeneration
    <2>1. /\ meta.gen \in Int /\ meta'.gen \in Int /\ g \in Int /\ meta'.gen >= meta.gen
          /\ phase \notin {"resetPages", "resetMeta"}
        <3>1. IInv'
            BY <1>2, StepKeepsIInv
        <3>2. CASE meta' = meta
            BY <3>1, <3>2, <1>2 DEF IInv, TypeOK, Metas, Gen, OwnerHasNoReset
        <3>3. CASE meta' # meta
            <4>1. PutMeta
                BY <1>2, <3>3 DEF Next, vars, storage, BeginExec, RefuseReplay, OpenFails,
                    WritePage, Truncate, SqlFails, SkipFlush, RefuseFlush, BeginFlush,
                    PutPage, PutManifest, CollectPage, CollectManifest, PutFails, CutOff,
                    BeginReset, ResetPage, ResetManifest, ResetFails, ResetMeta, IInv,
                    OwnerHasNoReset
            <4> QED
                BY <4>1, <1>2 DEF PutMeta, NextGeneration, IInv, TypeOK, Metas, Gen,
                    LoadedIsCurrent, OwnerHasNoReset
        <3> QED
            BY <3>2, <3>3
    <2>2. Clean(g)
        BY <1>2, <2>1 DEF NoKeyBeyondNextGeneration
    <2>3. CASE UNCHANGED <<pageKv, manifestKv>>
        BY <2>2, <2>3 DEF NoPages
    <2>4. ASSUME NEW p \in PageNo, PutPage(p) PROVE Clean(g)'
        BY <2>1, <2>2, <2>4, <1>2 DEF PutPage, NextGeneration, IInv, TypeOK, Metas, Gen,
                                      LoadedIsCurrent, NoPages
    <2>5. CASE PutManifest
        BY <2>1, <2>2, <2>5, <1>2 DEF PutManifest, NextGeneration, IInv, TypeOK, Metas, Gen,
                                      LoadedIsCurrent, NoPages
    <2>6. ASSUME NEW p \in PageNo, CollectPage(p) PROVE Clean(g)'
        BY <2>2, <2>6, <1>2 DEF CollectPage, DeletePageVersion, IInv, TypeOK, NoPages
    <2>7. CASE CollectManifest
        BY <2>2, <2>7, <1>2 DEF CollectManifest, DeleteManifest, IInv, TypeOK, NoPages
    <2> QED
        BY <1>2, <2>1, <2>3, <2>4, <2>5, <2>6, <2>7 DEF Next, vars, storage, BeginExec,
           RefuseReplay, OpenFails, WritePage, Truncate, SqlFails, SkipFlush, RefuseFlush,
           BeginFlush, PutMeta, PutFails, CutOff, BeginReset, ResetPage, ResetManifest,
           ResetMeta, ResetFails
<1> QED
    BY <1>1, <1>2, InvariantHolds, PTL DEF Spec

-----------------------------------------------------------------------------
(* What the storage holds when the host does not fail                      *)

(* The generations that the metadata gives its pages depend on nothing but *)
(* the metadata and its manifest.                                          *)
LEMMA NamedStable ==
    ASSUME UNCHANGED meta, UNCHANGED manifestKv[meta.gen]
    PROVE  \A g \in Gen, p \in PageNo : Named(g, p)' <=> Named(g, p)
    BY DEF Named, LoadedGens

LEMMA FinishKeepsStorageAccounted ==
    ASSUME StorageAccounted, IInv', phase = "sql", NEW r \in Replies, Finish(r),
           UNCHANGED <<storage, torn>>
    PROVE  StorageAccounted'
<1> USE DEF Finish, storage, StorageAccounted, Resetting
<1>1. VersionsAccounted'
    BY NamedStable DEF VersionsAccounted
<1>2. ManifestsAccounted'
    BY DEF ManifestsAccounted
<1>3. NeverShrunk'
    BY DEF NeverShrunk
<1> QED
    BY <1>1, <1>2, <1>3

(* Steps before the first put, and stuttering of an idle program.          *)
LEMMA NoPutKeepsStorageAccounted ==
    ASSUME StorageAccounted, IInv', UNCHANGED <<storage, torn>>,
           phase \in {"idle", "sql"}, phase' \in {"idle", "sql"}, NeverShrunk'
    PROVE  StorageAccounted'
<1> USE DEF storage, StorageAccounted, Resetting
<1>1. VersionsAccounted'
    BY NamedStable DEF VersionsAccounted
<1>2. ManifestsAccounted'
    BY DEF ManifestsAccounted
<1> QED
    BY <1>1, <1>2

LEMMA PuttingKeepsStorageAccounted ==
    ASSUME StorageAccounted, IInv', NEW p \in PageNo,
           BeginFlush \/ PutPage(p) \/ PutManifest
    PROVE  StorageAccounted'
<1> USE SizesAssumption, ValuesAssumption DEF StorageAccounted, Resetting, transaction, storage
<1>1. /\ UNCHANGED <<meta, loaded, gens, fileSize, dirty, torn>>
      /\ phase \in {"sql", "putPages"} /\ phase' \in {"putPages", "putMeta"}
      /\ loaded = meta
      /\ NextGeneration' = NextGeneration /\ ToPut' = ToPut
    BY DEF BeginFlush, PutPage, PutManifest, NextGeneration, ToPut, DirtyPages, IInv,
           LoadedIsCurrent
<1>2. NeverShrunk'
    BY <1>1 DEF NeverShrunk
<1>3. CASE BeginFlush
    <2>1. VersionsAccounted'
        BY <1>3, NamedStable DEF BeginFlush, VersionsAccounted
    <2>2. ManifestsAccounted'
        BY <1>3 DEF BeginFlush, ManifestsAccounted
    <2> QED
        BY <1>1, <1>2, <2>1, <2>2
<1>4. CASE PutPage(p)
    <2>1. NextGeneration \in Gen /\ p \in ToPut
        BY <1>4, NextGensBounded DEF PutPage, IInv, GenerationLeft, PutSoFar
    <2>2. VersionsAccounted'
        <3> SUFFICES ASSUME NEW g \in Gen, NEW q \in PageNo, pageKv'[g][q] # Absent
                     PROVE  Named(g, q)' \/ (g = NextGeneration /\ q \in ToPut \ todo')
            BY <1>1, <1>4 DEF PutPage, VersionsAccounted
        <3>1. CASE g = NextGeneration /\ q = p
            BY <1>4, <2>1, <3>1 DEF PutPage
        <3>2. CASE ~(g = NextGeneration /\ q = p)
            <4>1. pageKv[g][q] # Absent
                BY <1>4, <2>1, <3>2 DEF PutPage, IInv, TypeOK
            <4> QED
                BY <1>4, <4>1, NamedStable DEF PutPage, VersionsAccounted
        <3> QED
            BY <3>1, <3>2
    <2>3. ManifestsAccounted'
        BY <1>4 DEF PutPage, ManifestsAccounted
    <2> QED
        BY <1>1, <1>2, <2>2, <2>3
<1>5. CASE PutManifest
    <2>1. /\ NextGeneration \in Gen /\ NextGeneration # meta.gen /\ meta.gen \in Gen
          /\ UNCHANGED pageKv /\ todo = {} /\ todo' = {} /\ phase = "putPages"
        BY <1>1, <1>5, NextGensBounded DEF PutManifest, IInv, GenerationLeft, NextGeneration,
           TypeOK, Metas, Gen
    <2>2. \A g \in Gen : g # NextGeneration => manifestKv'[g] = manifestKv[g]
        BY <1>5 DEF PutManifest, IInv, TypeOK
    <2>3. VersionsAccounted'
        BY <1>1, <2>1, <2>2, NamedStable DEF VersionsAccounted
    <2>4. ManifestsAccounted'
        BY <1>1, <1>5, <2>2 DEF PutManifest, ManifestsAccounted
    <2> QED
        BY <1>1, <1>2, <2>3, <2>4
<1> QED
    BY <1>3, <1>4, <1>5

(* The commit turns what was put into what is named, and what it replaces  *)
(* into what is to be collected.  A file that never shrinks replaces pages *)
(* only by new versions of them.                                           *)
LEMMA PutMetaKeepsStorageAccounted ==
    ASSUME StorageAccounted, IInv', PutMeta
    PROVE  StorageAccounted'
<1> USE SizesAssumption, ValuesAssumption DEF StorageAccounted, Resetting, transaction, PutMeta
<1>1. /\ loaded = meta /\ gens = LoadedGens(meta) /\ todo = {} /\ ~torn
      /\ NextGeneration \in Gen /\ loaded.gen \in Gen /\ loaded.gen < NextGeneration
    BY NextGensBounded DEF IInv, LoadedIsCurrent, Transacting, PutSoFar, GenerationLeft,
       NextGeneration, TypeOK, Metas, Gen
<1>2. fileSize >= loaded.size /\ loaded.size \in Nat /\ fileSize \in 0..MaxVfsPages
    BY DEF NeverShrunk, IInv, TypeOK, Metas
<1>3. /\ NextManifestPut /\ UNCHANGED <<NextGens, NextGeneration>>
    BY DEF IInv, ManifestBeforeMeta, NextGens, NextGeneration
<1>4. \A p \in PageNo : p <= fileSize => LoadedGens(meta)'[p] = NextGens[p]
    BY <1>2, <1>3 DEF LoadedGens, NextManifestPut, PageNo
<1>4a. \A p \in PageNo : p <= fileSize =>
          NextGens[p] = IF dirty[p] # Absent THEN NextGeneration
                        ELSE IF p <= loaded.size THEN gens[p] ELSE 0
    BY <1>2 DEF NextGens, PageNo
<1>5. VersionsAccounted'
    <2> SUFFICES ASSUME NEW g \in Gen, NEW p \in PageNo, pageKv[g][p] # Absent
                 PROVE  \/ p <= fileSize /\ NextGens[p] = g
                        \/ g = gens[p] /\ p \in Replaced
        BY <1>4 DEF VersionsAccounted, Named
    <2>1. CASE g = NextGeneration /\ p \in ToPut
        BY <1>4a, <2>1 DEF ToPut, DirtyPages
    <2>2. CASE p <= meta.size /\ gens[p] = g
        <3>1. p <= fileSize /\ p \in 1..loaded.size
            BY <1>1, <1>2, <2>2 DEF PageNo
        <3>2. CASE dirty[p] = Absent
            BY <1>1, <1>4a, <2>2, <3>1, <3>2 DEF PageNo
        <3>3. CASE dirty[p] # Absent
            <4>1. NextGens[p] = NextGeneration
                BY <1>4a, <3>1, <3>3
            <4>2. gens[p] <= loaded.gen
                BY DEF IInv, GensLoaded
            <4> QED
                BY <1>1, <2>2, <3>1, <4>1, <4>2 DEF Replaced, Gen
        <3> QED
            BY <3>2, <3>3
    <2> QED
        BY <1>1, <2>1, <2>2 DEF VersionsAccounted, Named
<1>6. ManifestsAccounted'
    BY <1>1 DEF ManifestsAccounted, HasManifest
<1>7. NeverShrunk'
    BY <1>2 DEF NeverShrunk
<1> QED
    BY <1>1, <1>5, <1>6, <1>7

LEMMA CollectingKeepsStorageAccounted ==
    ASSUME StorageAccounted, IInv', Faults = {}, NEW p \in PageNo,
           CollectPage(p) \/ CollectManifest
    PROVE  StorageAccounted'
<1> USE SizesAssumption, ValuesAssumption DEF StorageAccounted, Resetting, transaction
<1>1. /\ phase = "gc" /\ UNCHANGED <<meta, torn>> /\ ~torn
      /\ meta.gen = NextGeneration /\ loaded.gen # meta.gen
      /\ loaded.gen \in Gen /\ meta.gen \in Gen
    BY DEF CollectPage, CollectManifest, IInv, Promoted, NextGeneration, TypeOK, Metas, Gen
<1>2. CASE CollectPage(p)
    <2> USE DEF CollectPage
    <2>1. /\ gens[p] \in Gen /\ p \in todo
          /\ pageKv' = [pageKv EXCEPT ![gens[p]][p] = Absent]
        BY <1>2 DEF DeletePageVersion, IsFirst, IInv, TypeOK
    <2>2. VersionsAccounted'
        <3> SUFFICES ASSUME NEW g \in Gen, NEW q \in PageNo, pageKv'[g][q] # Absent
                     PROVE  Named(g, q)' \/ (g = gens[q] /\ q \in todo')
            BY <1>2 DEF VersionsAccounted
        <3>1. ~(g = gens[p] /\ q = p) /\ pageKv[g][q] # Absent
            BY <2>1 DEF IInv, TypeOK
        <3> QED
            BY <1>1, <1>2, <3>1, NamedStable DEF VersionsAccounted
    <2>3. ManifestsAccounted' /\ NeverShrunk'
        BY <1>2 DEF ManifestsAccounted, NeverShrunk
    <2> QED
        BY <1>1, <2>2, <2>3
<1>3. CASE CollectManifest
    <2> USE DEF CollectManifest, Finish
    <2>1. /\ manifestKv'[meta.gen] = manifestKv[meta.gen]
          /\ \A g \in Gen : manifestKv'[g] # Absent =>
                manifestKv[g] # Absent /\ ~(g = loaded.gen /\ HasManifest(loaded))
        BY <1>1, <1>3 DEF DeleteManifest, IInv, TypeOK
    <2>2. VersionsAccounted'
        BY <1>1, <1>3, <2>1, NamedStable DEF VersionsAccounted
    <2>3. ManifestsAccounted'
        BY <1>1, <1>3, <2>1 DEF ManifestsAccounted
    <2>4. NeverShrunk'
        BY <1>3 DEF NeverShrunk
    <2> QED
        BY <1>1, <1>3, <2>2, <2>3, <2>4
<1> QED
    BY <1>2, <1>3

(* A reset that runs to its end deletes every version and the manifest     *)
(* before the metadata that names them.                                    *)
LEMMA ResettingKeepsStorageAccounted ==
    ASSUME StorageAccounted, IInv', Faults = {}, NEW p \in PageNo,
           BeginReset \/ ResetPage(p) \/ ResetManifest \/ ResetMeta
    PROVE  StorageAccounted'
<1> USE SizesAssumption, ValuesAssumption DEF StorageAccounted, Resetting, transaction, storage
<1>1. CASE BeginReset
    <2>1. /\ phase = "idle" /\ ~torn /\ ManifestReadable(meta)
          /\ phase' = "resetPages" /\ UNCHANGED <<meta, pageKv, manifestKv, torn>>
          /\ gens' = LoadedGens(meta) /\ todo' = 1..meta.size
        BY <1>1 DEF BeginReset, IInv, CommittedReadable
    <2>2. VersionsAccounted'
        BY <2>1 DEF VersionsAccounted, Named, PageNo, IInv, TypeOK, Metas
    <2>3. ManifestsAccounted' /\ NeverShrunk'
        BY <2>1 DEF ManifestsAccounted, NeverShrunk
    <2> QED
        BY <2>1, <2>2, <2>3
<1>2. CASE ResetPage(p)
    <2> USE DEF ResetPage
    <2>1. pageKv' = [pageKv EXCEPT ![gens[p]][p] = Absent] /\ gens[p] \in Gen
        BY <1>2 DEF DeletePageVersion, IInv, TypeOK
    <2>2. VersionsAccounted'
        BY <1>2, <2>1 DEF VersionsAccounted, IInv, TypeOK
    <2>3. ManifestsAccounted' /\ NeverShrunk'
        BY <1>2 DEF ManifestsAccounted, NeverShrunk
    <2> QED
        BY <1>2, <2>2, <2>3
<1>3. CASE ResetManifest
    <2> USE DEF ResetManifest
    <2>1. loaded = meta
        BY <1>3 DEF IInv, LoadedIsCurrent
    <2>2. VersionsAccounted'
        BY <1>3 DEF VersionsAccounted
    <2>3. ManifestsAccounted'
        BY <1>3, <2>1 DEF ManifestsAccounted, DeleteManifest, IInv, TypeOK
    <2>4. NeverShrunk'
        BY <1>3 DEF NeverShrunk
    <2> QED
        BY <1>3, <2>2, <2>3, <2>4
<1>4. CASE ResetMeta
    BY <1>4 DEF ResetMeta, Finish, VersionsAccounted, ManifestsAccounted, NeverShrunk
<1> QED
    BY <1>1, <1>2, <1>3, <1>4

(* A database of any release holds nothing but what its metadata names.    *)
LEMMA InitialStorageAccounted == Init => StorageAccounted
<1> SUFFICES ASSUME NEW m \in Metas, NEW g \in [PageNo -> Gen],
                    NEW content \in [PageNo -> Data \cup {Absent}],
                    InitialStorage(m, g, content), Idle, torn = FALSE, IInv
             PROVE  StorageAccounted
    BY InitialIInv DEF Init
<1> USE SizesAssumption, ValuesAssumption DEF InitialStorage, Idle
<1>1. \A h \in Gen : manifestKv[h] # Absent => HasManifest(m) /\ m.size > 0 /\ h = m.gen
    OBVIOUS
<1>2. ASSUME NEW h \in Gen, NEW p \in PageNo, pageKv[h][p] # Absent
      PROVE  Named(h, p)
    <2>1. h = g[p] /\ p <= m.size
        BY <1>2 DEF Metas, PageNo
    <2>2. HasManifest(m) /\ m.size > 0 => manifestKv[m.gen].gens = g
        BY DEF Metas
    <2> QED
        BY <2>1, <2>2 DEF Named, LoadedGens, InitialGens, NoGens, HasManifest, Metas,
                          Versions, PageNo
<1> QED
    BY <1>1, <1>2 DEF StorageAccounted, VersionsAccounted, ManifestsAccounted, NeverShrunk,
                      Resetting

LEMMA StepKeepsStorageAccounted ==
    ASSUME Faults = {}, ~AutoVacuum, StorageAccounted, [Next]_vars
    PROVE  StorageAccounted'
<1> USE DEF storage, transaction
<1>1. IInv /\ IInv'
    BY StepKeepsIInv DEF StorageAccounted
<1>2. CASE \E s \in Sequence : BeginExec(s) \/ RefuseReplay(s) \/ OpenFails(s)
    <2>1. /\ UNCHANGED <<storage, torn>> /\ phase = "idle" /\ phase' \in {"idle", "sql"}
          /\ phase' = "sql" => fileSize' = loaded'.size /\ fileSize' \in Int
        BY <1>1, <1>2 DEF BeginExec, RefuseReplay, OpenFails, IInv, TypeOK
    <2> QED
        BY <1>1, <2>1, NoPutKeepsStorageAccounted DEF NeverShrunk
<1>3. CASE \E p \in PageNo, d \in Data : WritePage(p, d)
    <2>1. /\ UNCHANGED <<storage, torn, loaded>> /\ phase = "sql" /\ phase' = "sql"
          /\ fileSize' >= fileSize
        BY <1>1, <1>3 DEF WritePage, IInv, TypeOK, PageNo
    <2>2. NeverShrunk'
        BY <1>1, <2>1 DEF StorageAccounted, NeverShrunk, IInv, TypeOK, Metas
    <2> QED
        BY <1>1, <2>1, <2>2, NoPutKeepsStorageAccounted
<1>4. CASE \E n \in 0..MaxVfsPages : Truncate(n)
    <2>1. /\ UNCHANGED <<storage, torn, loaded>> /\ phase = "sql" /\ phase' = "sql"
          /\ fileSize' >= loaded.size
        BY <1>4 DEF Truncate
    <2> QED
        BY <1>1, <2>1, NoPutKeepsStorageAccounted DEF NeverShrunk
<1>5. CASE SqlFails \/ SkipFlush \/ RefuseFlush
    <2>1. PICK r \in Replies : phase = "sql" /\ Finish(r) /\ UNCHANGED <<storage, torn>>
        BY <1>5 DEF SqlFails, SkipFlush, RefuseFlush, Replies
    <2> QED
        BY <1>1, <2>1, FinishKeepsStorageAccounted
<1>6. ASSUME NEW p \in PageNo, BeginFlush \/ PutPage(p) \/ PutManifest
      PROVE  StorageAccounted'
    BY <1>1, <1>6, PuttingKeepsStorageAccounted
<1>7. CASE PutMeta
    BY <1>1, <1>7, PutMetaKeepsStorageAccounted
<1>8. ASSUME NEW p \in PageNo, CollectPage(p) \/ CollectManifest
      PROVE  StorageAccounted'
    BY <1>1, <1>8, CollectingKeepsStorageAccounted
<1>9. ASSUME NEW p \in PageNo, BeginReset \/ ResetPage(p) \/ ResetManifest \/ ResetMeta
      PROVE  StorageAccounted'
    BY <1>1, <1>9, ResettingKeepsStorageAccounted
<1>10. CASE UNCHANGED vars
    BY <1>1, <1>10, NamedStable DEF vars, StorageAccounted, VersionsAccounted,
       ManifestsAccounted, NeverShrunk, Resetting, NextGeneration, ToPut, DirtyPages,
       HasManifest
<1>11. ~PutFails /\ ~CutOff /\ ~ResetFails
    BY DEF PutFails, CutOff, ResetFails
<1>12. 1 \in PageNo
    BY SizesAssumption DEF PageNo
<1> QED
    BY <1>2, <1>3, <1>4, <1>5, <1>6, <1>7, <1>8, <1>9, <1>10, <1>11, <1>12 DEF Next

LEMMA AccountedIsLive == StorageAccounted => NothingButLive
    BY DEF StorageAccounted, VersionsAccounted, ManifestsAccounted, NothingButLive, Named,
           Resetting

(* Garbage collection leaks nothing: when no put or delete fails, no call  *)
(* is cut off and SQLite never shrinks the file, the storage between two   *)
(* calls is the versions and the manifest that the metadata names, after   *)
(* any number of transactions, rollbacks, refused flushes and resets, and  *)
(* whichever release wrote the database.  With CommittedAlwaysReadable the *)
(* two are equal.                                                          *)
THEOREM NothingLeftBehind ==
    ASSUME Faults = {}, ~AutoVacuum
    PROVE  Spec => []NothingButLive
<1>1. StorageAccounted /\ [Next]_vars => StorageAccounted'
    BY StepKeepsStorageAccounted
<1> QED
    BY <1>1, InitialStorageAccounted, AccountedIsLive, PTL DEF Spec
=============================================================================
