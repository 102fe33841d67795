---------------------- MODULE PageVfsRefinement_proofs ----------------------
(***************************************************************************)
(* Proof that the page store implements the atomic database, for every     *)
(* instance: every step of PageVfs is a step of AtomicDatabase or leaves   *)
(* the mapped variables alone.                                             *)
(***************************************************************************)
EXTENDS PageVfsRefinement, PageVfs_proofs

(* The extra invariants of the refinement. *)
LEMMA RefInvHolds == Spec => []RefInv
<1>1. Init => FreshCall /\ HolesFilled /\ OnlyResetTears
    BY DEF Init, Idle, FreshCall, HolesFilled, OnlyResetTears
<1>2. ASSUME FreshCall, HolesFilled, [Next]_vars
      PROVE  FreshCall' /\ HolesFilled'
    <2> USE DEF FreshCall, HolesFilled
    <2>1. CASE UNCHANGED <<phase, dirty, holes>>
        BY <1>2, <2>1 DEF NoPages
    <2>2. CASE phase' = "idle" /\ dirty' = NoPages /\ holes' = {}
        BY <2>2 DEF NoPages
    <2>3. CASE phase' \in {"sql", "gc", "resetPages", "resetMeta"}
        BY <2>3
    <2>4. CASE phase' \in {"putPages", "putMeta"} /\ UNCHANGED holes /\ (holes = {})
        BY <2>4
    <2> QED
        BY <1>2, <2>1, <2>2, <2>3, <2>4 DEF Next, vars, storage, transaction, Finish,
           BeginExec, RefuseReplay, OpenFails, WritePage, Truncate, SqlFails, SkipFlush,
           RefuseFlush, BeginFlush, PutPage, PutManifest, PutMeta, CollectPage,
           CollectManifest, PutFails, CutOff, BeginReset, ResetPage, ResetManifest,
           ResetMeta, ResetFails
<1>3. ASSUME IInv, OnlyResetTears, [Next]_vars
      PROVE  OnlyResetTears'
    BY <1>3 DEF Next, vars, BeginExec, RefuseReplay, OpenFails, WritePage, Truncate,
       SqlFails, SkipFlush, RefuseFlush, BeginFlush, PutPage, PutManifest, PutMeta,
       CollectPage, CollectManifest, PutFails, CutOff, BeginReset, ResetPage,
       ResetManifest, ResetMeta, ResetFails, IInv, OwnerHasNoReset, OnlyResetTears
<1> QED
    BY <1>1, <1>2, <1>3, InvariantHolds, PTL DEF Spec, RefInv

-----------------------------------------------------------------------------
(* Types of the mapped values                                              *)

LEMMA ViewTyped ==
    ASSUME TypeOK
    PROVE  /\ View \in [1..fileSize -> Data]
           /\ WorkingFile \in [1..fileSize -> Data \cup {Unwritten}]
           /\ fileSize \in 0..MaxVfsPages
           /\ WorkingFile \in Database!WorkingFiles
<1> USE SizesAssumption, ValuesAssumption
<1>1. \A p \in 1..fileSize : View[p] \in Data
    <2> TAKE p \in 1..fileSize
    <2>1. p \in PageNo
        BY DEF TypeOK, PageNo
    <2>2. PageContent(gens[p], p) \in Data
        BY <2>1 DEF TypeOK, PageContent
    <2> QED
        BY <2>1, <2>2 DEF TypeOK, View
<1>2. View \in [1..fileSize -> Data]
    BY <1>1 DEF View
<1>3. WorkingFile \in [1..fileSize -> Data \cup {Unwritten}]
    BY <1>1 DEF WorkingFile
<1> QED
    BY <1>2, <1>3 DEF TypeOK, Database!WorkingFiles

LEMMA CommittedFileTyped ==
    ASSUME TypeOK, ManifestReadable(meta)
    PROVE  CommittedFile \in [1..meta.size -> Data] /\ CommittedFile \in Database!Files
<1> USE SizesAssumption, ValuesAssumption
<1>1. LoadedGens(meta) \in [PageNo -> Gen]
    BY LoadedGensBounded DEF TypeOK
<1>2. meta.size \in 0..MaxVfsPages
    BY DEF TypeOK, Metas
<1>3. \A p \in 1..meta.size : CommittedFile[p] \in Data
    <2> TAKE p \in 1..meta.size
    <2>1. p \in PageNo
        BY <1>2 DEF PageNo
    <2> QED
        BY <1>1, <2>1 DEF TypeOK, PageContent, CommittedFile
<1>4. CommittedFile \in [1..meta.size -> Data]
    BY <1>3 DEF CommittedFile
<1> QED
    BY <1>2, <1>4 DEF Database!Files

(* An open transaction is not NoTxn, and a visible file is not Torn.       *)
LEMMA MarkersDiffer ==
    ASSUME TypeOK
    PROVE  /\ InTransaction => OpenTransaction # NoTxn
           /\ (~torn /\ ManifestReadable(meta)) => VisibleFile # Torn
    BY ViewTyped, CommittedFileTyped, MarkersAssumption
       DEF TypeOK, OpenTransaction, VisibleFile

-----------------------------------------------------------------------------
(* Steps that leave both mapped values alone, or end a transaction         *)

LEMMA VisibleUnchanged ==
    ASSUME UNCHANGED <<storage, torn>>
    PROVE  VisibleFile' = VisibleFile /\ meta'.seq = meta.seq
    BY DEF storage, VisibleFile, CommittedFile, LoadedGens, PageContent

LEMMA FinishSimulates ==
    ASSUME RefInv, NEW r \in Replies, Finish(r), UNCHANGED <<storage, torn>>
    PROVE  [Database!Next]_Database!vars
<1>1. OpenTransaction' = NoTxn
    BY DEF Finish, OpenTransaction, InTransaction, Transacting
<1>2. VisibleFile' = VisibleFile /\ meta'.seq = meta.seq
    BY VisibleUnchanged
<1>3. CASE InTransaction
    <2>1. OpenTransaction # NoTxn
        BY <1>3, MarkersDiffer DEF RefInv, IInv
    <2> QED
        BY <1>1, <1>2, <2>1 DEF Database!Next, Database!Abort
<1>4. CASE ~InTransaction
    BY <1>1, <1>2, <1>4 DEF OpenTransaction, Database!vars
<1> QED
    BY <1>3, <1>4

LEMMA BeginExecSimulates ==
    ASSUME RefInv, NEW s \in Sequence, BeginExec(s)
    PROVE  [Database!Next]_Database!vars
<1>1. phase = "idle" /\ phase' = "sql" /\ dirty = NoPages /\ holes = {} /\ TypeOK
      /\ ManifestReadable(meta)
    BY DEF BeginExec, Openable, RefInv, FreshCall, IInv
<1>2. VisibleFile' = VisibleFile /\ meta'.seq = meta.seq /\ torn' = torn
    BY VisibleUnchanged DEF BeginExec
<1>3. OpenTransaction = NoTxn
    BY <1>1 DEF OpenTransaction, InTransaction, Transacting
<1>4. CASE torn
    BY <1>2, <1>3, <1>4 DEF OpenTransaction, InTransaction, Database!vars
<1>5. CASE ~torn
    <2>1. WorkingFile' = CommittedFile
        <3>1. /\ fileSize' = meta.size /\ holes' = {} /\ gens' = LoadedGens(meta)
              /\ pageKv' = pageKv /\ dirty' = NoPages
            BY <1>1 DEF BeginExec, storage
        <3>2. \A p \in 1..meta.size : p \in PageNo
            BY <1>1, SizesAssumption DEF TypeOK, Metas, PageNo
        <3>3. View' = CommittedFile
            BY <3>1, <3>2 DEF View, CommittedFile, PageContent, NoPages
        <3> QED
            BY <3>1, <3>3 DEF WorkingFile, CommittedFile
    <2>2. OpenTransaction' = [file |-> VisibleFile, seq |-> s]
        BY <1>1, <1>2, <1>5, <2>1 DEF OpenTransaction, InTransaction, Transacting,
                                      VisibleFile, BeginExec
    <2>3. VisibleFile # Torn
        BY <1>1, <1>5, MarkersDiffer
    <2>4. s = 0 \/ s > meta.seq
        BY DEF BeginExec, Acceptable
    <2>5. Database!Begin(s)
        BY <1>2, <1>3, <2>2, <2>3, <2>4 DEF Database!Begin
    <2> QED
        BY <2>5 DEF Database!Next, Sequence
<1> QED
    BY <1>4, <1>5

LEMMA WritePageSimulates ==
    ASSUME RefInv, NEW p \in PageNo, NEW d \in Data, WritePage(p, d)
    PROVE  [Database!Next]_Database!vars
<1> USE SizesAssumption, ValuesAssumption
<1>1. phase = "sql" /\ phase' = "sql" /\ TypeOK /\ p \in 1..MaxVfsPages /\ p \in Nat
    BY DEF WritePage, RefInv, IInv, PageNo
<1>2. VisibleFile' = VisibleFile /\ meta'.seq = meta.seq /\ torn' = torn
    BY VisibleUnchanged DEF WritePage
<1>3. CASE torn
    BY <1>2, <1>3 DEF OpenTransaction, InTransaction, Database!vars
<1>4. CASE ~torn
    <2> DEFINE F == WorkingFile
               W == [q \in 1..p \cup DOMAIN F |->
                        CASE q = p -> d
                          [] q # p /\ q \in DOMAIN F -> F[q]
                          [] OTHER -> Unwritten]
    <2>1. fileSize \in 0..MaxVfsPages /\ DOMAIN F = 1..fileSize
        BY <1>1 DEF TypeOK, WorkingFile
    <2>2. fileSize' = IF p > fileSize THEN p ELSE fileSize
        BY DEF WritePage
    <2>3. 1..fileSize' = 1..p \cup DOMAIN F
        BY <1>1, <2>1, <2>2
    <2>4. ASSUME NEW q \in 1..fileSize' PROVE WorkingFile'[q] = W[q]
        <3>1. q \in PageNo /\ q \in Nat
            BY <1>1, <2>1, <2>2, <2>4 DEF PageNo
        <3>2. /\ dirty' = [dirty EXCEPT ![p] = d]
              /\ holes' = (holes \cup fileSize + 1..p) \ {p}
              /\ gens' = gens /\ pageKv' = pageKv
            BY DEF WritePage, storage
        <3>3. CASE q = p
            <4>1. q \notin holes' /\ dirty'[q] = d /\ d # Absent
                BY <1>1, <3>2, <3>3 DEF TypeOK
            <4> QED
                BY <2>3, <2>4, <3>3, <4>1 DEF WorkingFile, View
        <3>4. CASE q # p /\ q \in DOMAIN F
            <4>1. q \in holes' <=> q \in holes
                BY <2>1, <3>1, <3>2, <3>4
            <4>2. dirty'[q] = dirty[q]
                BY <1>1, <3>1, <3>2, <3>4 DEF TypeOK
            <4>3. View'[q] = View[q]
                BY <2>1, <2>4, <3>2, <3>4, <4>2 DEF View, PageContent
            <4>4. WorkingFile'[q] = WorkingFile[q]
                BY <2>1, <2>4, <3>4, <4>1, <4>3 DEF WorkingFile
            <4> QED
                BY <2>3, <2>4, <3>4, <4>4
        <3>5. CASE q # p /\ q \notin DOMAIN F
            <4>1. q \in holes'
                BY <1>1, <2>1, <2>3, <2>4, <3>1, <3>2, <3>5
            <4> QED
                BY <2>3, <2>4, <3>5, <4>1 DEF WorkingFile
        <3> QED
            BY <3>3, <3>4, <3>5
    <2>5. WorkingFile' = W
        BY <2>3, <2>4 DEF WorkingFile
    <2>6. OpenTransaction = [file |-> F, seq |-> pending]
        BY <1>1, <1>4 DEF OpenTransaction, InTransaction, Transacting
    <2>7. OpenTransaction' = [file |-> W, seq |-> pending]
        BY <1>1, <1>2, <1>4, <2>5 DEF OpenTransaction, InTransaction, Transacting, WritePage
    <2>8. OpenTransaction' = [OpenTransaction EXCEPT !.file = W]
        BY <2>6, <2>7
    <2>9. OpenTransaction # NoTxn
        BY <1>1, <1>4, MarkersDiffer DEF InTransaction, Transacting
    <2>10. Database!Write(p, d)
        BY <1>2, <2>6, <2>8, <2>9 DEF Database!Write, Database!PagesOf
    <2> QED
        BY <1>1, <2>10 DEF Database!Next
<1> QED
    BY <1>3, <1>4

LEMMA TruncateSimulates ==
    ASSUME RefInv, NEW n \in 0..MaxVfsPages, Truncate(n)
    PROVE  [Database!Next]_Database!vars
<1> USE SizesAssumption
<1>1. phase = "sql" /\ phase' = "sql" /\ TypeOK /\ fileSize \in Nat /\ n < fileSize
    BY DEF Truncate, RefInv, IInv, TypeOK
<1>2. VisibleFile' = VisibleFile /\ meta'.seq = meta.seq /\ torn' = torn
    BY VisibleUnchanged DEF Truncate
<1>3. CASE torn
    BY <1>2, <1>3 DEF OpenTransaction, InTransaction, Database!vars
<1>4. CASE ~torn
    <2> DEFINE F == WorkingFile
               W == [q \in 1..n |-> F[q]]
    <2>1. DOMAIN F = 1..fileSize /\ 1..n \subseteq DOMAIN F
        BY <1>1 DEF WorkingFile
    <2>2. fileSize' = n /\ holes' = holes \cap 1..n /\ gens' = gens /\ pageKv' = pageKv
              /\ dirty' = dirty
        BY DEF Truncate, storage
    <2>3. \A q \in 1..n : WorkingFile'[q] = F[q]
        BY <2>1, <2>2 DEF WorkingFile, View, PageContent
    <2>4. WorkingFile' = W
        BY <2>2, <2>3 DEF WorkingFile
    <2>5. OpenTransaction = [file |-> F, seq |-> pending]
        BY <1>1, <1>4 DEF OpenTransaction, InTransaction, Transacting
    <2>6. OpenTransaction' = [file |-> W, seq |-> pending]
        BY <1>1, <1>2, <1>4, <2>4 DEF OpenTransaction, InTransaction, Transacting, Truncate
    <2>7. OpenTransaction' = [OpenTransaction EXCEPT !.file = W]
        <3> HIDE DEF F, W
        <3> QED
            BY <2>5, <2>6
    <2>8. OpenTransaction # NoTxn
        BY <1>1, <1>4, MarkersDiffer DEF InTransaction, Transacting
    <2>9. Database!Truncate(n)
        BY <1>2, <2>1, <2>5, <2>7, <2>8 DEF Database!Truncate, Database!PagesOf
    <2> QED
        BY <2>9 DEF Database!Next
<1> QED
    BY <1>3, <1>4

-----------------------------------------------------------------------------
(* The flush: only the metadata put is visible                             *)

LEMMA BeginFlushSimulates ==
    ASSUME RefInv, BeginFlush
    PROVE  UNCHANGED Database!vars
<1>1. VisibleFile' = VisibleFile /\ meta'.seq = meta.seq
    BY VisibleUnchanged DEF BeginFlush
<1>2. OpenTransaction' = OpenTransaction
    BY DEF BeginFlush, storage, transaction, OpenTransaction, InTransaction, Transacting,
           WorkingFile, View, PageContent
<1> QED
    BY <1>1, <1>2 DEF Database!vars

(* No page named by the metadata or by the call has the next generation.   *)
LEMMA NextGenerationUnnamed ==
    ASSUME IInv, phase \in {"putPages", "putMeta"}
    PROVE  /\ NextGeneration \in Gen /\ meta.gen \in Gen /\ NextGeneration # meta.gen
           /\ gens = LoadedGens(meta)
           /\ \A p \in PageNo : gens[p] \in Gen /\ gens[p] # NextGeneration
<1> USE SizesAssumption
<1>1. loaded = meta /\ gens = LoadedGens(meta) /\ loaded.gen < MaxGeneration
    BY DEF IInv, LoadedIsCurrent, Transacting, GenerationLeft
<1>2. loaded.gen \in Gen /\ NextGeneration \in Gen /\ NextGeneration > loaded.gen
    BY <1>1 DEF IInv, TypeOK, Metas, Gen, NextGeneration
<1>3. \A p \in PageNo : gens[p] \in Gen /\ gens[p] <= loaded.gen
    BY DEF IInv, TypeOK, GensLoaded
<1> QED
    BY <1>1, <1>2, <1>3 DEF Gen

LEMMA PutPageSimulates ==
    ASSUME RefInv, NEW p \in PageNo, PutPage(p)
    PROVE  UNCHANGED Database!vars
<1> USE SizesAssumption
<1>1. /\ phase = "putPages" /\ phase' = phase /\ torn' = torn /\ meta' = meta
      /\ TypeOK /\ IInv
    BY DEF PutPage, RefInv, IInv
<1>2. /\ NextGeneration \in Gen /\ gens = LoadedGens(meta)
      /\ \A q \in PageNo : gens[q] \in Gen /\ gens[q] # NextGeneration
    BY <1>1, NextGenerationUnnamed
<1>3. \A q \in PageNo : PageContent(gens[q], q)' = PageContent(gens[q], q)
    BY <1>1, <1>2 DEF PutPage, transaction, PageContent, TypeOK
<1>4. WorkingFile' = WorkingFile
    <2>1. 1..fileSize \subseteq PageNo
        BY <1>1 DEF TypeOK, PageNo
    <2> QED
        BY <1>3, <2>1 DEF PutPage, transaction, WorkingFile, View
<1>5. CommittedFile' = CommittedFile
    <2>1. 1..meta.size \subseteq PageNo
        BY <1>1 DEF TypeOK, Metas, PageNo
    <2>2. LoadedGens(meta)' = LoadedGens(meta) /\ gens' = gens
        BY DEF PutPage, transaction, LoadedGens
    <2> QED
        BY <1>1, <1>2, <1>3, <2>1, <2>2 DEF CommittedFile, PageContent
<1> QED
    BY <1>1, <1>4, <1>5 DEF PutPage, transaction, VisibleFile, OpenTransaction,
                           InTransaction, Transacting, Database!vars

LEMMA PutManifestSimulates ==
    ASSUME RefInv, PutManifest
    PROVE  UNCHANGED Database!vars
<1>1. /\ phase = "putPages" /\ phase' = "putMeta" /\ torn' = torn /\ meta' = meta
      /\ TypeOK /\ IInv
    BY DEF PutManifest, RefInv, IInv
<1>2. manifestKv'[meta.gen] = manifestKv[meta.gen]
    BY <1>1, NextGenerationUnnamed DEF PutManifest, TypeOK
<1>3. CommittedFile' = CommittedFile
    <2>1. LoadedGens(meta)' = LoadedGens(meta)
        BY <1>1, <1>2 DEF LoadedGens
    <2> QED
        BY <1>1, <2>1 DEF PutManifest, CommittedFile, PageContent
<1>4. WorkingFile' = WorkingFile
    BY DEF PutManifest, transaction, WorkingFile, View, PageContent
<1> QED
    BY <1>1, <1>3, <1>4 DEF PutManifest, transaction, VisibleFile, OpenTransaction,
                           InTransaction, Transacting, Database!vars

(* The committed file is the working file, page by page: a dirty page was  *)
(* put under the next generation, the others keep their version.           *)
LEMMA PutMetaSimulates ==
    ASSUME RefInv, PutMeta
    PROVE  [Database!Next]_Database!vars
<1> USE SizesAssumption, ValuesAssumption
<1>1. /\ phase = "putMeta" /\ phase' = "gc" /\ todo = {} /\ torn' = torn /\ holes = {}
      /\ TypeOK /\ IInv /\ loaded = meta /\ gens = LoadedGens(meta)
      /\ meta'.version = "v4" /\ meta'.size = fileSize /\ meta'.gen = NextGeneration
    BY DEF PutMeta, RefInv, IInv, HolesFilled, PutSoFar, LoadedIsCurrent, Transacting
<1>2. OpenTransaction' = NoTxn
    BY <1>1 DEF OpenTransaction, InTransaction, Transacting
<1>3. CASE torn
    <2>1. meta'.seq = meta.seq
        BY <1>1, <1>3 DEF PutMeta, RefInv, OnlyResetTears, IInv, PendingFresh
    <2> QED
        BY <1>1, <1>2, <1>3, <2>1 DEF VisibleFile, OpenTransaction, InTransaction,
                                      Database!vars
<1>4. CASE ~torn
    <2>1. \A p \in 1..fileSize : p \in PageNo
        BY <1>1 DEF TypeOK, PageNo
    <2>2. \A p \in 1..fileSize : LoadedGens(meta)'[p] = NextGens[p]
        BY <1>1, <2>1 DEF PutMeta, LoadedGens, IInv, ManifestBeforeMeta, NextManifestPut,
                          TypeOK
    <2>3. ASSUME NEW p \in 1..fileSize PROVE PageContent(NextGens[p], p) = View[p]
        <3>1. CASE dirty[p] # Absent
            <4>1. pageKv[NextGeneration][p] = dirty[p]
                BY <1>1, <2>1, <3>1 DEF IInv, PutSoFar, ToPut, DirtyPages, TypeOK
            <4> QED
                BY <1>1, <2>1, <3>1, <4>1 DEF NextGens, PageContent, View, TypeOK
        <3>2. CASE dirty[p] = Absent
            <4>1. NextGens[p] = gens[p]
                BY <1>1, <2>1, <3>2 DEF NextGens, LoadedGens, TypeOK, Metas
            <4> QED
                BY <3>2, <4>1 DEF View
        <3> QED
            BY <3>1, <3>2
    <2>4. CommittedFile' = View
        BY <1>1, <2>2, <2>3 DEF PutMeta, CommittedFile, PageContent, View
    <2>5. WorkingFile = View
        BY <1>1 DEF WorkingFile, View
    <2>6. OpenTransaction = [file |-> View, seq |-> pending]
        BY <1>1, <1>4, <2>5 DEF OpenTransaction, InTransaction, Transacting
    <2>7. View \in Database!Files
        BY <1>1, ViewTyped DEF Database!Files
    <2>8. VisibleFile' = View
        BY <1>1, <1>4, <2>4 DEF VisibleFile
    <2>9. meta'.seq = IF pending = 0 THEN meta.seq ELSE pending
        BY <1>1 DEF PutMeta, TypeOK, Sequence
    <2>10. OpenTransaction # NoTxn
        BY <1>1, <1>4, MarkersDiffer DEF InTransaction, Transacting
    <2>11. Database!Commit
        BY <1>2, <2>6, <2>7, <2>8, <2>9, <2>10 DEF Database!Commit
    <2> QED
        BY <2>11 DEF Database!Next
<1> QED
    BY <1>3, <1>4

(* Garbage collection is invisible.                                        *)
LEMMA CollectPageSimulates ==
    ASSUME RefInv, NEW p \in PageNo, CollectPage(p)
    PROVE  UNCHANGED Database!vars
<1> USE SizesAssumption, ValuesAssumption
<1>1. /\ phase = "gc" /\ phase' = "gc" /\ p \in Replaced /\ gens[p] \in Gen
      /\ torn' = torn /\ meta' = meta /\ manifestKv' = manifestKv
      /\ meta.version = "v4" /\ meta.size = fileSize /\ meta.gen = NextGeneration
      /\ NextManifestPut /\ IInv /\ TypeOK
    BY DEF RefInv, IInv, Promoted, CollectPage, IsFirst, TypeOK
<1>2. \A g \in Gen, q \in PageNo :
          ~(g = gens[p] /\ q = p) => pageKv'[g][q] = pageKv[g][q]
    BY <1>1, DeletePageVersionEffect DEF CollectPage, TypeOK
<1>3. NextGens \in [PageNo -> Gen]
    BY <1>1, NextGensBounded DEF IInv, GenerationLeft
<1>4. \A q \in 1..meta.size : q \in PageNo
    BY <1>1 DEF TypeOK, PageNo
<1>5. \A q \in 1..meta.size : LoadedGens(meta)[q] = NextGens[q]
    BY <1>1, <1>4 DEF LoadedGens, NextManifestPut, TypeOK
<1>6. LoadedGens(meta)' = LoadedGens(meta)
    BY <1>1 DEF LoadedGens
<1>7. \A q \in 1..meta.size :
          PageContent(LoadedGens(meta)[q], q)' = PageContent(LoadedGens(meta)[q], q)
    <2> TAKE q \in 1..meta.size
    <2>1. ~(NextGens[q] = gens[p] /\ q = p)
        BY <1>1 DEF Replaced
    <2> QED
        BY <1>2, <1>3, <1>4, <1>5, <1>6, <2>1 DEF PageContent
<1>8. CommittedFile' = CommittedFile
    BY <1>1, <1>6, <1>7 DEF CommittedFile, PageContent
<1> QED
    BY <1>1, <1>8 DEF VisibleFile, OpenTransaction, InTransaction, Transacting,
                      Database!vars

LEMMA CollectManifestSimulates ==
    ASSUME RefInv, CollectManifest
    PROVE  UNCHANGED Database!vars
<1> USE SizesAssumption
<1>1. /\ phase = "gc" /\ phase' = "idle" /\ torn' = torn /\ meta' = meta
      /\ pageKv' = pageKv /\ loaded.gen # meta.gen /\ meta.gen \in Gen /\ TypeOK
    BY DEF RefInv, IInv, Promoted, NextGeneration, TypeOK, Metas, Gen, CollectManifest,
           Finish
<1>2. manifestKv'[meta.gen] = manifestKv[meta.gen]
    BY <1>1 DEF CollectManifest, DeleteManifest, TypeOK
<1>3. CommittedFile' = CommittedFile
    BY <1>1, <1>2 DEF CommittedFile, LoadedGens, PageContent
<1> QED
    BY <1>1, <1>3 DEF VisibleFile, OpenTransaction, InTransaction, Transacting,
                      Database!vars

-----------------------------------------------------------------------------
(* The reset is the wipe of the abstract database                          *)

LEMMA BeginResetSimulates ==
    ASSUME BeginReset
    PROVE  UNCHANGED Database!vars
<1>1. VisibleFile' = VisibleFile /\ meta'.seq = meta.seq
    BY VisibleUnchanged DEF BeginReset
<1>2. phase = "idle" /\ phase' \in {"resetPages", "resetMeta"}
    BY DEF BeginReset
<1> QED
    BY <1>1, <1>2 DEF OpenTransaction, InTransaction, Transacting, Database!vars

LEMMA ResetPageSimulates ==
    ASSUME NEW p \in PageNo, ResetPage(p)
    PROVE  [Database!Next]_Database!vars
<1>1. OpenTransaction = NoTxn /\ OpenTransaction' = NoTxn /\ meta' = meta
          /\ VisibleFile' = Torn
    BY DEF ResetPage, OpenTransaction, InTransaction, Transacting, VisibleFile
<1>2. Database!Wipe
    BY <1>1 DEF Database!Wipe
<1> QED
    BY <1>2 DEF Database!Next

LEMMA ResetManifestSimulates ==
    ASSUME ResetManifest
    PROVE  [Database!Next]_Database!vars
<1>1. OpenTransaction = NoTxn /\ OpenTransaction' = NoTxn /\ meta' = meta
          /\ pageKv' = pageKv
    BY DEF ResetManifest, OpenTransaction, InTransaction, Transacting
<1>2. CASE torn'
    <2>1. Database!Wipe
        BY <1>1, <1>2 DEF Database!Wipe, VisibleFile
    <2> QED
        BY <2>1 DEF Database!Next
<1>3. CASE ~torn'
    <2>1. manifestKv' = manifestKv /\ ~torn
        BY <1>3 DEF ResetManifest, DeleteManifest
    <2>2. CommittedFile' = CommittedFile
        BY <1>1, <2>1 DEF CommittedFile, LoadedGens, PageContent
    <2> QED
        BY <1>1, <1>3, <2>1, <2>2 DEF VisibleFile, Database!vars
<1> QED
    BY <1>2, <1>3

LEMMA ResetMetaSimulates ==
    ASSUME ResetMeta
    PROVE  [Database!Next]_Database!vars
<1>1. OpenTransaction = NoTxn /\ OpenTransaction' = NoTxn /\ meta' = NoMeta /\ ~torn'
    BY DEF ResetMeta, Finish, OpenTransaction, InTransaction, Transacting
<1>2. CommittedFile' = << >>
    BY <1>1 DEF CommittedFile, NoMeta
<1>3. Database!FinishWipe
    BY <1>1, <1>2 DEF Database!FinishWipe, VisibleFile, NoMeta
<1> QED
    BY <1>3 DEF Database!Next

LEMMA StutterSimulates ==
    ASSUME UNCHANGED <<storage, phase, transaction, torn>>
    PROVE  UNCHANGED Database!vars
<1>1. VisibleFile' = VisibleFile /\ meta'.seq = meta.seq
    BY VisibleUnchanged
<1>2. OpenTransaction' = OpenTransaction
    BY DEF storage, transaction, OpenTransaction, InTransaction, Transacting, WorkingFile,
           View, PageContent
<1> QED
    BY <1>1, <1>2 DEF Database!vars

-----------------------------------------------------------------------------
LEMMA InitSimulates == Init => Database!Init
<1> SUFFICES ASSUME Init PROVE Database!Init
    OBVIOUS
<1>1. TypeOK /\ ~torn /\ phase = "idle" /\ ManifestReadable(meta)
    BY InitialIInv DEF Init, Idle, IInv, CommittedReadable
<1>2. VisibleFile \in Database!Files
    BY <1>1, CommittedFileTyped DEF VisibleFile
<1>3. meta.seq \in 0..MaxSequence
    BY <1>1 DEF TypeOK, Metas, Sequence
<1>4. OpenTransaction = NoTxn
    BY <1>1 DEF OpenTransaction, InTransaction, Transacting
<1> QED
    BY <1>2, <1>3, <1>4 DEF Database!Init

LEMMA StepSimulates == RefInv /\ [Next]_vars => [Database!Next]_Database!vars
<1> SUFFICES ASSUME RefInv, [Next]_vars PROVE [Database!Next]_Database!vars
    OBVIOUS
<1>1. ASSUME NEW s \in Sequence, BeginExec(s) PROVE [Database!Next]_Database!vars
    BY <1>1, BeginExecSimulates
<1>2. ASSUME NEW s \in Sequence, RefuseReplay(s) \/ OpenFails(s)
      PROVE  UNCHANGED Database!vars
    BY <1>2, StutterSimulates DEF RefuseReplay, OpenFails
<1>3. ASSUME NEW p \in PageNo, NEW d \in Data, WritePage(p, d)
      PROVE  [Database!Next]_Database!vars
    BY <1>3, WritePageSimulates
<1>4. ASSUME NEW n \in 0..MaxVfsPages, Truncate(n) PROVE [Database!Next]_Database!vars
    BY <1>4, TruncateSimulates
<1>5. CASE SqlFails \/ SkipFlush \/ RefuseFlush \/ PutFails \/ CutOff \/ ResetFails
    <2>1. PICK r \in Replies : Finish(r) /\ UNCHANGED <<storage, torn>>
        BY <1>5 DEF SqlFails, SkipFlush, RefuseFlush, PutFails, CutOff, ResetFails, Replies
    <2> QED
        BY <2>1, FinishSimulates
<1>6. CASE BeginFlush
    BY <1>6, BeginFlushSimulates
<1>7. ASSUME NEW p \in PageNo, PutPage(p) PROVE UNCHANGED Database!vars
    BY <1>7, PutPageSimulates
<1>8. CASE PutManifest
    BY <1>8, PutManifestSimulates
<1>9. CASE PutMeta
    BY <1>9, PutMetaSimulates
<1>10. ASSUME NEW p \in PageNo, CollectPage(p) PROVE UNCHANGED Database!vars
    BY <1>10, CollectPageSimulates
<1>11. CASE CollectManifest
    BY <1>11, CollectManifestSimulates
<1>12. CASE BeginReset
    BY <1>12, BeginResetSimulates
<1>13. ASSUME NEW p \in PageNo, ResetPage(p) PROVE [Database!Next]_Database!vars
    BY <1>13, ResetPageSimulates
<1>14. CASE ResetManifest
    BY <1>14, ResetManifestSimulates
<1>15. CASE ResetMeta
    BY <1>15, ResetMetaSimulates
<1>16. CASE UNCHANGED vars
    BY <1>16, StutterSimulates DEF vars
<1> QED
    BY <1>1, <1>2, <1>3, <1>4, <1>5, <1>6, <1>7, <1>8, <1>9, <1>10, <1>11, <1>12, <1>13,
       <1>14, <1>15, <1>16 DEF Next

(* The page store implements the atomic database: whatever fails and       *)
(* wherever a call stops, readers see whole transactions only.             *)
THEOREM Refinement == Spec => ImplementsAtomicDatabase
<1> QED
    BY InitSimulates, StepSimulates, RefInvHolds, PTL
       DEF Spec, Database!Spec, ImplementsAtomicDatabase
=============================================================================
