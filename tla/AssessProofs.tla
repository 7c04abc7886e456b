---------------------------- MODULE AssessProofs ----------------------------
(***************************************************************************)
(* Proofs about what is made of the runs: EstateIndex, for any number of   *)
(* runs and writes (the extracts kept by mtime are fresh as long as no two *)
(* writes of run.json fall into one tick of the file system's clock),      *)
(* CostReport, for any bills, prices and settings (the service is not      *)
(* asked too often, and the amounts are those of the bills),               *)
(* FabricValidation, for any pools and warehouses (what matches was read), *)
(* FabricMapping, for any artefacts and rate cards (every finding has its  *)
(* step, the SKU covers the estimate, the hours add up), and EstateReport, *)
(* for any runs (the page counts each of them once).                       *)
(***************************************************************************)
EXTENDS EstateIndex, EstateReport, CostReport, FabricValidation, FabricMapping, SequenceTheorems, SumTheorems

MetaType == [on : BOOLEAN, ver : Nat, mtime : Nat]
ExtractType == [on : BOOLEAN, mtime : Nat, ver : Nat, art : Nat]
BuildType == [pc : {"idle", "scan", "meta", "artefacts"}, run : SUBSET Runs,
              left : SUBSET Runs, seen : SUBSET Runs, mtime : Nat, ver : Nat]

\* Every mtime seen so far is behind the clock.
Behind ==
    \A r \in Runs : /\ meta[r].on => meta[r].mtime < clock
                    /\ cache[r].on => cache[r].mtime < clock
                    /\ r \in build.run => build.mtime < clock

\* A build reads one run at a time, and as long as the mtime is the one it took,
\* what it read is on disk.
ReadIsCurrent ==
    \A r \in Runs :
        /\ r \in build.run => build.run = {r}
        /\ build.pc = "artefacts" /\ r \in build.run /\ meta[r].on /\ meta[r].mtime = build.mtime
               => build.ver = meta[r].ver

IInv == CacheTypeOK /\ Behind /\ ReadIsCurrent /\ CacheFresh

LEMMA Constants == NoMeta \in MetaType /\ NoExtract \in ExtractType /\ NoBuild \in BuildType
BY DEF NoMeta, NoExtract, NoBuild, MetaType, ExtractType, BuildType

LEMMA InitInv == ASSUME CacheInit PROVE IInv
<1>1. \A r \in Runs : ~meta[r].on /\ ~cache[r].on
  BY DEF CacheInit, NoMeta, NoExtract
<1>2. build = NoBuild /\ build.run = {} /\ build.pc = "idle"
  BY DEF CacheInit, NoBuild
<1>3. CacheTypeOK
  BY <1>1, <1>2, Constants DEF CacheInit, CacheTypeOK, MetaType, ExtractType, BuildType
<1> QED
  BY <1>1, <1>2, <1>3 DEF IInv, Behind, ReadIsCurrent, CacheFresh, Hit

\* A write of run.json, of an import or of a removal: the run's mtime is a new
\* one, or it has no run.json.
LEMMA MetaStep ==
    ASSUME IInv, CacheTypeOK', NEW r \in Runs, NEW d \in MetaType,
           meta' = [meta EXCEPT ![r] = d], d.on => d.mtime = clock /\ clock < clock',
           clock <= clock', clock' \in Nat,
           \A q \in Runs \ {r} : art'[q] = art[q],
           \A q \in Runs \ {r} : q \in pending => q \in pending',
           UNCHANGED <<cache, build>>
    PROVE  IInv'
<1>1. /\ meta \in [Runs -> MetaType] /\ cache \in [Runs -> ExtractType]
      /\ build \in BuildType /\ clock \in Nat
  BY DEF IInv, CacheTypeOK, MetaType, ExtractType, BuildType
<1>2. meta'[r] = d /\ \A q \in Runs \ {r} : meta'[q] = meta[q]
  BY <1>1
<1>3. Behind'
  <2> SUFFICES ASSUME NEW q \in Runs
               PROVE  /\ meta'[q].on => meta'[q].mtime < clock'
                      /\ cache[q].on => cache[q].mtime < clock'
                      /\ q \in build.run => build.mtime < clock'
    BY DEF Behind
  <2>1. /\ meta[q].on => meta[q].mtime < clock
        /\ cache[q].on => cache[q].mtime < clock
        /\ q \in build.run => build.mtime < clock
    BY DEF IInv, Behind
  <2>2. meta[q].mtime \in Nat /\ cache[q].mtime \in Nat /\ build.mtime \in Nat
    BY <1>1 DEF MetaType, ExtractType, BuildType
  <2> QED
    BY <1>1, <1>2, <2>1, <2>2
<1>4. r \in build.run /\ d.on => d.mtime # build.mtime
  BY <1>1 DEF IInv, Behind, BuildType
<1>5. cache[r].on /\ d.on => d.mtime # cache[r].mtime
  <2>1. cache[r].on => cache[r].mtime < clock /\ cache[r].mtime \in Nat
    BY <1>1 DEF IInv, Behind, ExtractType
  <2> QED
    BY <1>1, <2>1
<1>6. ReadIsCurrent'
  BY <1>2, <1>4 DEF IInv, ReadIsCurrent
<1>7. CacheFresh'
  <2> SUFFICES ASSUME NEW q \in Runs, meta'[q].on, Hit(q)', q \notin pending'
               PROVE  cache[q].ver = meta'[q].ver /\ cache[q].art = art'[q]
    BY DEF CacheFresh
  <2>1. q # r
    BY <1>2, <1>5 DEF Hit
  <2>2. Hit(q) /\ q \notin pending /\ meta[q].on
    BY <1>2, <2>1 DEF Hit
  <2> QED
    BY <1>2, <2>1, <2>2 DEF IInv, CacheFresh
<1> QED
  BY <1>3, <1>6, <1>7 DEF IInv

\* A step of a build, or an invalidation: the run directories stay.
LEMMA CacheStep ==
    ASSUME IInv, CacheTypeOK', Behind', ReadIsCurrent',
           UNCHANGED <<meta, art, pending, clock>>,
           \A r \in Runs : \/ cache'[r] = cache[r] \/ ~cache'[r].on
                           \/ /\ cache'[r].art = art[r]
                              /\ meta[r].on /\ meta[r].mtime = cache'[r].mtime
                                     => cache'[r].ver = meta[r].ver
    PROVE  IInv'
<1> SUFFICES ASSUME NEW q \in Runs, meta[q].on, cache'[q].on, cache'[q].mtime = meta[q].mtime,
                    q \notin pending
             PROVE  cache'[q].ver = meta[q].ver /\ cache'[q].art = art[q]
  BY DEF IInv, CacheFresh, Hit
<1>1. cache'[q] = cache[q] => cache[q].ver = meta[q].ver /\ cache[q].art = art[q]
  BY DEF IInv, CacheFresh, Hit
<1> QED
  BY <1>1

\* What happens to the run directories.
LEMMA DirectoryStep ==
    ASSUME IInv, ~SameTick, NEW r \in Runs,
           WriteArtefact(r) \/ WriteMeta(r) \/ RemoveRun(r) \/ Import(r)
    PROVE  IInv'
<1>1. /\ meta \in [Runs -> MetaType] /\ art \in [Runs -> Nat] /\ clock \in Nat /\ writes \in Nat
      /\ pending \in SUBSET {q \in Runs : meta[q].on}
      /\ cache \in [Runs -> ExtractType] /\ build \in BuildType
  BY DEF IInv, CacheTypeOK, MetaType, ExtractType, BuildType
<1>2. writes' \in Nat /\ UNCHANGED <<cache, build>>
  BY <1>1 DEF WriteArtefact, WriteMeta, RemoveRun, Import, Write
<1>3. CASE WriteArtefact(r)
  <2>1. /\ art' = [art EXCEPT ![r] = writes'] /\ pending' = pending \cup {r} /\ meta[r].on
        /\ UNCHANGED <<meta, clock>>
    BY <1>3 DEF WriteArtefact
  <2>2. CacheTypeOK'
    BY <1>1, <1>2, <2>1 DEF CacheTypeOK, MetaType, ExtractType, BuildType
  <2>3. Behind' /\ ReadIsCurrent'
    BY <1>2, <2>1 DEF IInv, Behind, ReadIsCurrent
  <2>4. CacheFresh'
    <3> SUFFICES ASSUME NEW q \in Runs, meta[q].on, Hit(q)', q \notin pending'
                 PROVE  cache[q].ver = meta[q].ver /\ cache[q].art = art'[q]
      BY <1>2, <2>1 DEF CacheFresh
    <3>1. q # r /\ q \notin pending /\ Hit(q)
      BY <1>2, <2>1 DEF Hit
    <3>2. art'[q] = art[q]
      BY <1>1, <2>1, <3>1
    <3> QED
      BY <3>1, <3>2 DEF IInv, CacheFresh
  <2> QED
    BY <2>2, <2>3, <2>4 DEF IInv
<1>4. CASE WriteMeta(r)
  <2> DEFINE d == [on |-> TRUE, ver |-> writes', mtime |-> clock]
  <2>1. /\ meta' = [meta EXCEPT ![r] = d] /\ pending' = pending \ {r}
        /\ clock' = clock + 1 /\ art' = art
    BY <1>4 DEF WriteMeta, Tick
  <2>2. d \in MetaType
    BY <1>1, <1>2 DEF MetaType
  <2>3. clock' \in Nat /\ clock < clock' /\ clock <= clock'
    BY <1>1, <2>1
  <2>4. CacheTypeOK'
    BY <1>1, <1>2, <2>1, <2>2, <2>3 DEF CacheTypeOK, MetaType, ExtractType, BuildType
  <2>5. d.mtime = clock
    OBVIOUS
  <2> HIDE DEF d
  <2> QED
    BY <1>2, <2>1, <2>2, <2>3, <2>4, <2>5, MetaStep
<1>5. CASE RemoveRun(r)
  <2>1. /\ meta' = [meta EXCEPT ![r] = NoMeta] /\ pending' = pending \ {r}
        /\ art' = [art EXCEPT ![r] = 0] /\ clock' = clock
    BY <1>5 DEF RemoveRun
  <2>2. ~NoMeta.on /\ NoMeta \in MetaType
    BY Constants DEF NoMeta
  <2>3. CacheTypeOK'
    BY <1>1, <1>2, <2>1, <2>2 DEF CacheTypeOK, MetaType, ExtractType, BuildType
  <2>4. \A q \in Runs \ {r} : art'[q] = art[q]
    BY <1>1, <2>1
  <2>5. clock <= clock' /\ clock' \in Nat
    BY <1>1, <2>1
  <2>6. \A q \in Runs \ {r} : q \in pending => q \in pending'
    BY <2>1
  <2> QED
    BY <1>2, <2>1, <2>2, <2>3, <2>4, <2>5, <2>6, MetaStep
<1>6. CASE Import(r)
  <2> DEFINE d == [on |-> TRUE, ver |-> writes', mtime |-> clock]
  <2>1. /\ meta' = [meta EXCEPT ![r] = d] /\ pending' = pending
        /\ art' = [art EXCEPT ![r] = writes'] /\ clock' = clock + 1
    BY <1>6 DEF Import, Tick
  <2>2. d \in MetaType
    BY <1>1, <1>2 DEF MetaType
  <2>3. clock' \in Nat /\ clock < clock' /\ clock <= clock'
    BY <1>1, <2>1
  <2>4. CacheTypeOK'
    BY <1>1, <1>2, <2>1, <2>2, <2>3 DEF CacheTypeOK, MetaType, ExtractType, BuildType
  <2>5. d.mtime = clock /\ \A q \in Runs \ {r} : art'[q] = art[q]
    BY <1>1, <2>1
  <2> HIDE DEF d
  <2> QED
    BY <1>2, <2>1, <2>2, <2>3, <2>4, <2>5, MetaStep
<1> QED
  BY <1>3, <1>4, <1>5, <1>6

\* The steps of a build, and invalidate.
LEMMA BuildStep ==
    ASSUME IInv,
           \/ \E r \in Runs : Build(r)
           \/ BuildBegins \/ BuildEnds \/ \E S \in SUBSET Runs : Invalidate(S)
    PROVE  IInv'
<1>1. /\ meta \in [Runs -> MetaType] /\ art \in [Runs -> Nat]
      /\ cache \in [Runs -> ExtractType] /\ build \in BuildType
  BY DEF IInv, CacheTypeOK, MetaType, ExtractType, BuildType
<1>2. UNCHANGED <<meta, art, pending, clock, writes>>
  BY DEF Build, BuildKeeps, BuildStats, BuildReadsMeta, BuildStores, BuildBegins, BuildEnds, Invalidate
<1>3. ASSUME cache' \in [Runs -> ExtractType], build' \in BuildType PROVE CacheTypeOK'
  BY <1>2, <1>3 DEF IInv, CacheTypeOK, ExtractType, BuildType
<1>4. ASSUME build' = build, cache' \in [Runs -> ExtractType],
             \A r \in Runs : cache'[r] = cache[r] \/ cache'[r] = NoExtract
      PROVE  IInv'
  <2>1. ~NoExtract.on
    BY DEF NoExtract
  <2>2. Behind' /\ ReadIsCurrent'
    BY <1>2, <1>4, <2>1 DEF IInv, Behind, ReadIsCurrent
  <2> QED
    BY <1>1, <1>2, <1>3, <1>4, <2>1, <2>2, CacheStep
<1>5. ASSUME cache' = cache, build' \in BuildType, build'.pc # "artefacts",
             build'.run = {} \/ (build'.run = build.run /\ build'.mtime = build.mtime)
      PROVE  IInv'
  <2>1. Behind' /\ ReadIsCurrent'
    BY <1>2, <1>5 DEF IInv, Behind, ReadIsCurrent
  <2> QED
    BY <1>1, <1>2, <1>3, <1>5, <2>1, CacheStep
<1>6. CASE BuildBegins
  <2> DEFINE there == {r \in Runs : meta[r].on}
  <2>1. build' = [NoBuild EXCEPT !.pc = "scan", !.left = there, !.seen = there] /\ cache' = cache
    BY <1>6 DEF BuildBegins
  <2>2. build' \in BuildType /\ build'.run = {} /\ build'.pc = "scan"
    BY <2>1 DEF NoBuild, BuildType
  <2> QED
    BY <1>5, <2>1, <2>2
<1>7. ASSUME NEW r \in Runs, BuildKeeps(r) PROVE IInv'
  <2>1. build' = [build EXCEPT !.left = @ \ {r}] /\ cache' = cache /\ build.pc = "scan"
    BY <1>7 DEF BuildKeeps
  <2>2. /\ build' \in BuildType /\ build'.run = build.run /\ build'.mtime = build.mtime
        /\ build'.pc = "scan"
    BY <1>1, <2>1 DEF BuildType
  <2> QED
    BY <1>5, <2>1, <2>2
<1>8. ASSUME NEW r \in Runs, BuildStats(r) PROVE IInv'
  <2>1. /\ build' = [build EXCEPT !.pc = "meta", !.run = {r}, !.left = @ \ {r},
                                  !.mtime = meta[r].mtime]
        /\ cache' = cache /\ meta[r].on
    BY <1>8 DEF BuildStats
  <2>2. /\ build' \in BuildType /\ build'.run = {r} /\ build'.mtime = meta[r].mtime
        /\ build'.pc = "meta"
    BY <1>1, <2>1 DEF BuildType, MetaType
  <2>3. Behind' /\ ReadIsCurrent'
    BY <1>2, <2>1, <2>2 DEF IInv, Behind, ReadIsCurrent
  <2> QED
    BY <1>1, <1>2, <1>3, <2>1, <2>2, <2>3, CacheStep
<1>9. ASSUME NEW r \in Runs, BuildReadsMeta(r) PROVE IInv'
  <2>1. cache' = cache
    BY <1>9 DEF BuildReadsMeta
  <2>2. CASE ~meta[r].on
    <3>1. build' = [build EXCEPT !.pc = "scan", !.run = {}]
      BY <1>9, <2>2 DEF BuildReadsMeta
    <3>2. build' \in BuildType /\ build'.run = {} /\ build'.pc = "scan"
      BY <1>1, <3>1 DEF BuildType
    <3> QED
      BY <1>5, <2>1, <3>2
  <2>3. CASE meta[r].on
    <3>1. build' = [build EXCEPT !.pc = "artefacts", !.ver = meta[r].ver]
      BY <1>9, <2>3 DEF BuildReadsMeta
    <3>2. /\ build' \in BuildType /\ build'.run = build.run /\ build'.mtime = build.mtime
          /\ build'.ver = meta[r].ver
      BY <1>1, <3>1 DEF BuildType, MetaType
    <3>3. build.run = {r}
      BY <1>9 DEF BuildReadsMeta, IInv, ReadIsCurrent
    <3>4. Behind' /\ ReadIsCurrent'
      BY <1>2, <2>1, <3>2, <3>3 DEF IInv, Behind, ReadIsCurrent
    <3> QED
      BY <1>1, <1>2, <1>3, <2>1, <3>2, <3>4, CacheStep
  <2> QED
    BY <2>2, <2>3
<1>10. ASSUME NEW r \in Runs, BuildStores(r) PROVE IInv'
  <2> DEFINE e == [on |-> TRUE, mtime |-> build.mtime, ver |-> build.ver, art |-> art[r]]
  <2>1. /\ build.pc = "artefacts" /\ r \in build.run
        /\ cache' = [cache EXCEPT ![r] = e]
        /\ build' = [build EXCEPT !.pc = "scan", !.run = {}]
    BY <1>10 DEF BuildStores
  <2>2. build' \in BuildType /\ build'.run = {} /\ build'.pc = "scan"
    BY <1>1, <2>1 DEF BuildType
  <2>3. e \in ExtractType
    BY <1>1 DEF ExtractType, BuildType
  <2>4. build.mtime < clock
    BY <2>1 DEF IInv, Behind
  <2>5. meta[r].on /\ meta[r].mtime = build.mtime => build.ver = meta[r].ver
    BY <2>1 DEF IInv, ReadIsCurrent
  <2>6. e.mtime = build.mtime /\ e.ver = build.ver /\ e.art = art[r]
    OBVIOUS
  <2> HIDE DEF e
  <2>7. cache' \in [Runs -> ExtractType] /\ cache'[r] = e /\ \A q \in Runs \ {r} : cache'[q] = cache[q]
    BY <1>1, <2>1, <2>3
  <2>8. Behind' /\ ReadIsCurrent'
    BY <1>2, <2>2, <2>4, <2>6, <2>7 DEF IInv, Behind, ReadIsCurrent
  <2> QED
    BY <1>2, <1>3, <2>2, <2>5, <2>6, <2>7, <2>8, CacheStep
<1>11. CASE BuildEnds
  <2>1. build' = NoBuild /\ cache' = [r \in Runs |-> IF Evicted(r) THEN NoExtract ELSE cache[r]]
    BY <1>11 DEF BuildEnds
  <2>2. cache' \in [Runs -> ExtractType]
    BY <1>1, <2>1, Constants
  <2>3. build' \in BuildType /\ build'.run = {} /\ build'.pc = "idle" /\ ~NoExtract.on
    BY <2>1, Constants DEF NoBuild, NoExtract
  <2>4. \A r \in Runs : cache'[r] = cache[r] \/ cache'[r] = NoExtract
    BY <2>1
  <2>5. Behind' /\ ReadIsCurrent'
    BY <1>2, <2>3, <2>4 DEF IInv, Behind, ReadIsCurrent
  <2> QED
    BY <1>2, <1>3, <2>2, <2>3, <2>4, <2>5, CacheStep
<1>12. ASSUME NEW S \in SUBSET Runs, Invalidate(S) PROVE IInv'
  <2>1. build' = build /\ cache' = [r \in Runs |-> IF r \in S THEN NoExtract ELSE cache[r]]
    BY <1>12 DEF Invalidate
  <2> QED
    BY <1>1, <1>4, <2>1, Constants
<1> QED
  BY <1>6, <1>7, <1>8, <1>9, <1>10, <1>11, <1>12 DEF Build

LEMMA Invariance == ~SameTick => (CacheSpec => []IInv)
<1>1. ~SameTick /\ IInv /\ [CacheNext]_cacheVars => IInv'
  <2> SUFFICES ASSUME ~SameTick, IInv, [CacheNext]_cacheVars PROVE IInv'
    OBVIOUS
  <2>1. CASE UNCHANGED cacheVars
    BY <2>1 DEF cacheVars, IInv, CacheTypeOK, Behind, ReadIsCurrent, CacheFresh, Hit
  <2> QED
    BY <2>1, DirectoryStep, BuildStep DEF CacheNext
<1>2. CASE SameTick
  BY <1>2
<1>3. CASE ~SameTick
  <2>1. IInv /\ [CacheNext]_cacheVars => IInv'
    BY <1>1, <1>3
  <2> QED
    BY <2>1, InitInv, PTL DEF CacheSpec
<1> QED
  BY <1>2, <1>3

\* Unless two writes of run.json share a tick, an extract that the next build
\* takes for current is the one of what is on disk, whatever was written,
\* removed or imported while a build was reading.
THEOREM CacheIsFresh == ~SameTick => (CacheSpec => []CacheFresh)
<1>1. IInv => CacheFresh
  BY DEF IInv
<1> QED
  BY <1>1, Invariance, PTL

(***************************************************************************)
(* The amounts of a bill.                                                  *)
(***************************************************************************)
RowsTyped(rows) == IsFiniteSet(rows) /\ \A r \in rows : r.cost \in Int /\ r.month \in Int
ByMonth(rows) == [k \in {r.month : r \in rows} |-> SumCost({r \in rows : r.month = k})]
ByKind(rows) == [k \in {r.kind : r \in rows} |-> SumCost({r \in rows : r.kind = k})]

\* The sum of the costs, as the sum of a function.
CostOf(rows) == [r \in rows |-> r.cost]
\* The cost of a set of rows is a total in the sense of SumTheorems.
LEMMA CostTotal == ASSUME NEW rows PROVE SumCost(rows) = Total(CostOf(rows), rows)
<1> DEFINE A(g) == g = [s \in SUBSET rows |-> IF s = {} THEN 0 ELSE Pick(s).cost + g[s \ {Pick(s)}]]
           B(g) == g = [s \in SUBSET rows |-> IF s = {} THEN 0 ELSE CostOf(rows)[Pick(s)] + g[s \ {Pick(s)}]]
<1>1. ASSUME NEW g
      PROVE  A(g) <=> B(g)
  BY Picked DEF CostOf
<1>2. (CHOOSE g : A(g)) = (CHOOSE g : B(g))
  <2> HIDE DEF A, B
  <2> QED
    BY <1>1
<1>3. SumCost(rows) = (CHOOSE g : A(g))[rows]
  BY DEF SumCost, MapThenSumSet, MapThenFoldSet, Pick
<1>4. Total(CostOf(rows), rows) = (CHOOSE g : B(g))[rows]
  BY DEF Total, MapThenSumSet, MapThenFoldSet, Pick
<1> QED
  BY <1>2, <1>3, <1>4

\* Rows whose costs are integers cost an integer.
LEMMA CostInt == ASSUME NEW rows, RowsTyped(rows) PROVE SumCost(rows) \in Int
<1>1. \A r \in rows : CostOf(rows)[r] \in Int
  BY DEF RowsTyped, CostOf
<1> QED
  BY <1>1, CostTotal, TotalInt DEF RowsTyped

\* Sums by a key add up, whatever the key.
LEMMA KeysAddUp ==
    ASSUME NEW rows, RowsTyped(rows), NEW key, NEW K, IsFiniteSet(K), \A r \in rows : key[r] \in K,
           NEW by, \A k \in K : by[k] = SumCost({r \in rows : key[r] = k})
    PROVE  Total(by, K) = SumCost(rows)
<1>1. ASSUME NEW k \in K
      PROVE  by[k] = Total(CostOf(rows), {r \in rows : key[r] = k})
  <2> DEFINE of == {r \in rows : key[r] = k}
  <2>1. IsFiniteSet(of) /\ \A r \in of : CostOf(of)[r] = CostOf(rows)[r]
    BY FS_Subset DEF RowsTyped, CostOf
  <2>2. Total(CostOf(of), of) = Total(CostOf(rows), of)
    BY <2>1, TotalSame
  <2>3. by[k] = SumCost(of)
    OBVIOUS
  <2> QED
    BY <2>2, <2>3, CostTotal
<1>2. IsFiniteSet(rows) /\ \A r \in rows : CostOf(rows)[r] \in Int
  BY DEF RowsTyped, CostOf
<1>3. Total(by, K) = Total(CostOf(rows), rows)
  BY <1>1, <1>2, TotalByKey
<1> QED
  BY <1>3, CostTotal

\* The months' costs, and the kinds', each add up to the cost of the rows.
LEMMA MonthsAddUp ==
    ASSUME NEW rows, RowsTyped(rows)
    PROVE  /\ Total(ByMonth(rows), DOMAIN ByMonth(rows)) = SumCost(rows)
           /\ Total(ByKind(rows), DOMAIN ByKind(rows)) = SumCost(rows)
<1>1. Total(ByMonth(rows), DOMAIN ByMonth(rows)) = SumCost(rows)
  <2> DEFINE key == [r \in rows |-> r.month]
             K == {key[r] : r \in rows}
             by == ByMonth(rows)
  <2>1. IsFiniteSet(K) /\ \A r \in rows : key[r] \in K
    BY FiniteImage DEF RowsTyped
  <2>2. DOMAIN by = K /\ \A k \in K : by[k] = SumCost({r \in rows : key[r] = k})
    <3>1. K = {r.month : r \in rows}
      OBVIOUS
    <3>2. \A k : {r \in rows : key[r] = k} = {r \in rows : r.month = k}
      OBVIOUS
    <3> HIDE DEF K, key
    <3> QED
      BY <3>1, <3>2 DEF ByMonth
  <2> HIDE DEF key, K, by
  <2>3. Total(by, K) = SumCost(rows)
    BY <2>1, <2>2, KeysAddUp
  <2> QED
    BY <2>2, <2>3 DEF by
<1>2. Total(ByKind(rows), DOMAIN ByKind(rows)) = SumCost(rows)
  <2> DEFINE key == [r \in rows |-> r.kind]
             K == {key[r] : r \in rows}
             by == ByKind(rows)
  <2>1. IsFiniteSet(K) /\ \A r \in rows : key[r] \in K
    BY FiniteImage DEF RowsTyped
  <2>2. DOMAIN by = K /\ \A k \in K : by[k] = SumCost({r \in rows : key[r] = k})
    <3>1. K = {r.kind : r \in rows}
      OBVIOUS
    <3>2. \A k : {r \in rows : key[r] = k} = {r \in rows : r.kind = k}
      OBVIOUS
    <3> HIDE DEF K, key
    <3> QED
      BY <3>1, <3>2 DEF ByKind
  <2> HIDE DEF key, K, by
  <2>3. Total(by, K) = SumCost(rows)
    BY <2>1, <2>2, KeysAddUp
  <2> QED
    BY <2>2, <2>3 DEF by
<1> QED
  BY <1>1, <1>2

\* The latest month has a cost.
LEMMA LatestInt == ASSUME NEW rows, RowsTyped(rows) PROVE LatestMonthlyCost(ByMonth(rows)) \in Int
<1> DEFINE months == {r.month : r \in rows}
           month == [r \in rows |-> r.month]
<1>1. DOMAIN ByMonth(rows) = months
  BY DEF ByMonth
<1>2. IsFiniteSet(months) /\ months \subseteq Int
  <2>1. IsFiniteSet({month[r] : r \in rows})
    BY FiniteImage DEF RowsTyped
  <2>2. {month[r] : r \in rows} = months
    OBVIOUS
  <2> QED
    BY <2>1, <2>2 DEF RowsTyped
<1>3. CASE rows = {}
  <2>1. ByMonth(rows) = <<>>
    BY <1>3 DEF ByMonth
  <2> QED
    BY <2>1 DEF LatestMonthlyCost
<1>4. CASE rows # {}
  <2>1. months # {}
    BY <1>4
  <2>2. Max(months) \in months
    BY <1>2, <2>1, Largest DEF Numbers
  <2>3. ByMonth(rows) # <<>>
    BY <1>1, <2>1
  <2>4. \A k \in months : ByMonth(rows)[k] \in Int
    <3> SUFFICES ASSUME NEW k \in months
                 PROVE  SumCost({r \in rows : r.month = k}) \in Int
      BY DEF ByMonth
    <3>1. RowsTyped({r \in rows : r.month = k})
      BY FS_Subset DEF RowsTyped
    <3> QED
      BY <3>1, CostInt
  <2> QED
    BY <1>1, <2>2, <2>3, <2>4 DEF LatestMonthlyCost
<1> QED
  BY <1>3, <1>4

(***************************************************************************)
(* The rows of a report.                                                   *)
(***************************************************************************)
LEMMA RowsOfBills ==
    ASSUME NEW s \in Scopes
    PROVE  RowsTyped(ParseQueryResponse(s.bills)) /\ RowsTyped(ParseBillingRows(s.bills))
<1>1. IsFiniteSet(s.bills) /\ \A b \in s.bills : b.cost \in Int /\ b.month \in Int
  BY CostAssumption
<1>2. RowsTyped(ParseQueryResponse(s.bills))
  <2> DEFINE row == [b \in s.bills |-> MonthlyCostRow(b.n, b, ClassifyResource(b), b.cost, 0)]
  <2>1. IsFiniteSet({row[b] : b \in s.bills})
    BY <1>1, FiniteImage
  <2>2. {row[b] : b \in s.bills} = ParseQueryResponse(s.bills)
    BY DEF ParseQueryResponse
  <2>3. \A b \in s.bills : row[b].cost \in Int /\ row[b].month \in Int
    BY <1>1 DEF MonthlyCostRow
  <2> HIDE DEF row
  <2> QED
    BY <2>1, <2>2, <2>3 DEF RowsTyped
<1>3. RowsTyped(ParseBillingRows(s.bills))
  <2> DEFINE row == [b \in s.bills |-> MonthlyCostRow(b.n, b, ClassifyService(b), b.cost, 0)]
  <2>1. IsFiniteSet({row[b] : b \in s.bills})
    BY <1>1, FiniteImage
  <2>2. {row[b] : b \in s.bills} = ParseBillingRows(s.bills)
    BY DEF ParseBillingRows
  <2>3. \A b \in s.bills : row[b].cost \in Int /\ row[b].month \in Int
    BY <1>1 DEF MonthlyCostRow
  <2> HIDE DEF row
  <2> QED
    BY <2>1, <2>2, <2>3 DEF RowsTyped
<1> QED
  BY <1>2, <1>3

\* The rows priced from a meter of credits and storage are finitely many, with integer costs.
LEMMA RowsOfMeter ==
    ASSUME NEW s \in Scopes, NEW shown \in BOOLEAN
    PROVE  RowsTyped(SnowflakeRows(s.meter, shown))
<1> DEFINE rate == CreditRate(s.meter, shown)
           compute == {b \in s.meter.credits : b.credits > 0 \/ b.name # ""}
           stored == {b \in s.meter.storage : b.cost > 0}
<1>1. /\ IsFiniteSet(s.meter.credits) /\ \A b \in s.meter.credits : b.credits \in Int /\ b.month \in Int
      /\ IsFiniteSet(s.meter.storage) /\ \A b \in s.meter.storage : b.cost \in Int /\ b.month \in Int
      /\ s.meter.ratedCost \in Int /\ s.meter.ratedCredits \in Int
  BY CostAssumption
<1>2. rate \in Int
  BY <1>1 DEF CreditRate
<1>3. RowsTyped(ComputeRows(s.meter, rate))
  <2> HIDE DEF rate
  <2> DEFINE row == [b \in compute |->
                       MonthlyCostRow(b.n, b, IF b.name = "CLOUD_SERVICES" THEN "cloud_services" ELSE "snowflake_warehouse",
                                      b.credits * rate, b.credits)]
  <2>1. IsFiniteSet(compute)
    BY <1>1, FS_Subset
  <2>2. IsFiniteSet({row[b] : b \in compute})
    <3> HIDE DEF compute, row
    <3> QED
      BY <2>1, FiniteImage
  <2>3. {row[b] : b \in compute} = ComputeRows(s.meter, rate)
    BY DEF ComputeRows
  <2>4. \A b \in compute : b.credits * rate \in Int /\ b.month \in Int
    <3>1. \A x, y \in Int : x * y \in Int
      OBVIOUS
    <3> QED
      BY <1>1, <1>2, <3>1
  <2>5. \A b \in compute : row[b].cost \in Int /\ row[b].month \in Int
    BY <2>4 DEF MonthlyCostRow
  <2> QED
    BY <2>2, <2>3, <2>5 DEF RowsTyped
<1>4. RowsTyped(StorageRows(s.meter, shown))
  <2> DEFINE row == [b \in stored |-> MonthlyCostRow(b.n, b, "storage", b.cost, 0)]
  <2>1. IsFiniteSet(stored)
    BY <1>1, FS_Subset
  <2>2. IsFiniteSet({row[b] : b \in stored})
    <3> HIDE DEF stored, row
    <3> QED
      BY <2>1, FiniteImage
  <2>3. CASE ~shown
    BY <2>3, FS_EmptySet DEF StorageRows, RowsTyped
  <2>4. CASE shown
    <3>1. {row[b] : b \in stored} = StorageRows(s.meter, shown)
      BY <2>4 DEF StorageRows
    <3>2. \A b \in stored : row[b].cost \in Int /\ row[b].month \in Int
      BY <1>1 DEF MonthlyCostRow
    <3> QED
      BY <2>2, <3>1, <3>2 DEF RowsTyped
  <2> QED
    BY <2>3, <2>4
<1> QED
  BY <1>3, <1>4, FS_Union DEF SnowflakeRows, RowsTyped

\* Filtering keeps some of the parsed rows and changes none of them.
LEMMA RowsKept ==
    ASSUME NEW rows, RowsTyped(rows), NEW s
    PROVE  RowsTyped(FilterRowsForScope(rows, s))
BY FS_Subset DEF RowsTyped, FilterRowsForScope

(* The bills of a scope are among its rows, each as a row of the same cost.  *)
Billed(s) == {b \in s.bills : b.id \in {<<>>, s.id} \/ IsPrefix(s.id \o <<"/">>, b.id)}
OwnRows(s) == FilterRowsForScope(ParseQueryResponse(s.bills), s)
BillCost(s) == [b \in Billed(s) |-> b.cost]

\* A resource id that extends the workspace's by a slash and more has it as a prefix.
LEMMA LongerPrefix ==
    ASSUME NEW S, NEW s \in Seq(S), NEW t \in Seq(S), NEW x, IsPrefix(s \o <<x>>, t)
    PROVE  IsPrefix(s, t)
<1> DEFINE T == S \cup {x}
           u == <<x>>
<1>0. s \in Seq(T) /\ u \in Seq(T) /\ t \in Seq(T)
  OBVIOUS
<1> HIDE DEF u, T
<1>1. /\ Len(s) \in Nat /\ Len(t) \in Nat /\ Len(u) \in Nat /\ s \o u \in Seq(T) /\ Len(s \o u) = Len(s) + Len(u)
      /\ \A i \in 1..Len(s) : (s \o u)[i] = s[i]
  BY <1>0, ConcatProperties
<1>2. Len(s) <= Len(t)
  <2>1. Len(s \o u) <= Len(t)
    BY DEF IsPrefix, u
  <2> QED
    BY <1>1, <2>1
<1>3. \A i \in 1..Len(s) : s[i] = t[i]
  <2> SUFFICES ASSUME NEW i \in 1..Len(s)
               PROVE  s[i] = t[i]
    OBVIOUS
  <2>1. Len(s \o u) <= Len(t) /\ SubSeq(s \o u, 1, Len(s \o u)) = SubSeq(t, 1, Len(s \o u))
    BY DEF IsPrefix, u
  <2>2. SubSeq(s \o u, 1, Len(s \o u))[i] = (s \o u)[i] /\ SubSeq(t, 1, Len(s \o u))[i] = t[i]
    BY <1>0, <1>1, <2>1, SubSeqProperties
  <2> QED
    BY <1>1, <2>1, <2>2
<1>4. SubSeq(s, 1, Len(s)) = SubSeq(t, 1, Len(s))
  BY <1>0, <1>1, <1>2, <1>3, SubSeqProperties
<1> QED
  BY <1>2, <1>4 DEF IsPrefix

LEMMA BilledRows ==
    ASSUME NEW s \in Scopes, s.source = "azure"
    PROVE  /\ {b.n : b \in Billed(s)} \subseteq {r.n : r \in OwnRows(s)}
           /\ SumCost({r \in OwnRows(s) : r.n \in {b.n : b \in Billed(s)}}) = Total(BillCost(s), Billed(s))
<1> DEFINE row == [b \in s.bills |-> MonthlyCostRow(b.n, b, ClassifyResource(b), b.cost, 0)]
           ns == {b.n : b \in Billed(s)}
           of == {r \in OwnRows(s) : r.n \in ns}
<1>1. /\ s.id \in Seq(STRING) /\ IsFiniteSet(s.bills) /\ \A b, c \in s.bills : b.n = c.n => b = c
      /\ \A b \in s.bills : b.id \in Seq(STRING) /\ b.cost \in Int
  BY CostAssumption
<1>2. \A b \in s.bills : row[b].n = b.n /\ row[b].cost = b.cost /\ row[b].id = b.id
  BY DEF MonthlyCostRow
<1>3. OwnRows(s) = {r \in {row[b] : b \in s.bills} : r.id = <<>> \/ IsPrefix(s.id, r.id)}
  BY DEF OwnRows, FilterRowsForScope, ParseQueryResponse
<1>4. Billed(s) \subseteq s.bills /\ \A b \in Billed(s) : row[b] \in OwnRows(s)
  <2> SUFFICES ASSUME NEW b \in Billed(s)
               PROVE  b \in s.bills /\ row[b] \in OwnRows(s)
    OBVIOUS
  <2>1. b \in s.bills
    BY DEF Billed
  <2>2. b.id = <<>> \/ IsPrefix(s.id, b.id)
    <3>1. CASE b.id = s.id
      BY <1>1, <3>1 DEF IsPrefix
    <3>2. CASE IsPrefix(s.id \o <<"/">>, b.id)
      BY <1>1, <2>1, <3>2, LongerPrefix
    <3> QED
      BY <3>1, <3>2 DEF Billed
  <2> HIDE DEF row
  <2> QED
    BY <1>2, <1>3, <2>1, <2>2
<1> HIDE DEF row
<1>5. ns \subseteq {r.n : r \in OwnRows(s)}
  BY <1>2, <1>4
<1>6. of = {row[b] : b \in Billed(s)}
  <2>1. \A b \in Billed(s) : row[b] \in of
    BY <1>2, <1>4
  <2>2. ASSUME NEW r \in of
        PROVE  \E b \in Billed(s) : r = row[b]
    <3>1. PICK b \in s.bills : r = row[b]
      BY <1>3
    <3>2. PICK c \in Billed(s) : c.n = row[b].n
      BY <3>1
    <3> QED
      BY <1>1, <1>2, <1>4, <3>1, <3>2
  <2> HIDE DEF of
  <2> QED
    BY <2>1, <2>2
<1>7. IsFiniteSet(Billed(s)) /\ \A b \in Billed(s) : BillCost(s)[b] = b.cost /\ b.cost \in Int
  BY <1>1, <1>4, FS_Subset DEF BillCost
<1>8. \A b, c \in Billed(s) : row[b] = row[c] => b = c
  BY <1>1, <1>2, <1>4
<1>9. \A b \in Billed(s) : CostOf(of)[row[b]] = BillCost(s)[b]
  <2>1. \A b \in Billed(s) : row[b] \in of /\ row[b].cost = b.cost
    BY <1>2, <1>4
  <2> HIDE DEF of
  <2> QED
    BY <1>7, <2>1 DEF CostOf
<1>10. Total(CostOf(of), {row[b] : b \in Billed(s)}) = Total(BillCost(s), Billed(s))
  <2> DEFINE f == CostOf(of)
             h == BillCost(s)
             B == Billed(s)
  <2>1. /\ IsFiniteSet(B) /\ \A b \in B : h[b] \in Int
        /\ \A b, c \in B : row[b] = row[c] => b = c
        /\ \A b \in B : f[row[b]] = h[b]
    BY <1>7, <1>8, <1>9
  <2> HIDE DEF f, h, B
  <2>2. Total(f, {row[b] : b \in B}) = Total(h, B)
    BY <2>1, TotalRenamed
  <2> QED
    BY <2>2 DEF f, h, B
<1>11. SumCost(of) = Total(CostOf(of), of)
  BY CostTotal
<1> QED
  BY <1>5, <1>6, <1>10, <1>11

\* The bills of a scope, as a total in the sense of SumTheorems.
LEMMA BillsTotal == ASSUME NEW s PROVE MapThenSumSet(LAMBDA b : b.cost, Billed(s)) = Total(BillCost(s), Billed(s))
<1> DEFINE S == Billed(s)
           A(g) == g = [t \in SUBSET S |-> IF t = {} THEN 0 ELSE Pick(t).cost + g[t \ {Pick(t)}]]
           B(g) == g = [t \in SUBSET S |-> IF t = {} THEN 0 ELSE BillCost(s)[Pick(t)] + g[t \ {Pick(t)}]]
<1>1. ASSUME NEW g
      PROVE  A(g) <=> B(g)
  BY Picked DEF BillCost
<1>2. (CHOOSE g : A(g)) = (CHOOSE g : B(g))
  <2> HIDE DEF A, B
  <2> QED
    BY <1>1
<1>3. MapThenSumSet(LAMBDA b : b.cost, S) = (CHOOSE g : A(g))[S]
  <2> HIDE DEF S
  <2> QED
    BY DEF MapThenSumSet, MapThenFoldSet, Pick
<1>4. Total(BillCost(s), S) = (CHOOSE g : B(g))[S]
  <2> HIDE DEF S
  <2> QED
    BY DEF Total, MapThenSumSet, MapThenFoldSet, Pick
<1> QED
  BY <1>2, <1>3, <1>4

(***************************************************************************)
(* The comparison with Fabric.                                             *)
(***************************************************************************)
PricesInv == \A region \in DOMAIN priceCache.entries : priceCache.entries[region].payg \in Int

\* What a comparison may say of its amount.
Priced(c, spent, offline) ==
  /\ c.cost \in Int /\ c.delta = c.cost - spent
  /\ c.cost # NoPrice => c.source \in {"live", "cache", "static"}
  /\ c.cost # NoPrice /\ c.sku > 64 => c.source # "static"
  /\ offline => c.source \in {"offline", "static", "none"}

\* A comparison says where its price is from, and the fixed table stops at F64.
LEMMA ComparedWell ==
    ASSUME NEW spent \in Int, NEW sku \in Nat, NEW rates, rates.payg \in Int, NEW offline,
           NEW source, source \in {"live", "cache", "none", "offline"},
           rates.payg # NoPrice => source \in {"live", "cache"},
           offline => source \in {"none", "offline"}
    PROVE  Priced(CompareToFabric(spent, sku, rates, source), spent, offline)
<1> DEFINE live == IF sku \in FabricSkuTable THEN rates.payg * sku ELSE NoPrice
           cost == IF live # NoPrice THEN live ELSE StaticMonthly(sku)
           c == CompareToFabric(spent, sku, rates, source)
<1>1. live \in Int /\ (live # NoPrice => rates.payg # NoPrice)
  <2>1. rates.payg * sku \in Int /\ (rates.payg = 0 => rates.payg * sku = 0)
    OBVIOUS
  <2> QED
    BY <2>1 DEF NoPrice
<1>2. StaticMonthly(sku) \in Int /\ (StaticMonthly(sku) # NoPrice => ~(sku > 64))
  BY DEF StaticMonthly, StaticSkus, NoPrice, StaticPrice
<1>3. c.cost = cost /\ c.sku = sku /\ c.delta = cost - spent
      /\ c.source = IF live = NoPrice /\ cost # NoPrice THEN "static" ELSE source
  BY DEF CompareToFabric
<1> HIDE DEF live, c
<1>4. c.cost \in Int
  BY <1>1, <1>2, <1>3
<1> QED
  BY <1>1, <1>2, <1>3, <1>4 DEF Priced, c

\* The cheapest of the prices found is one of them, or there is none.
LEMMA CheapestInt ==
    ASSUME NEW items, \A i \in items : i.price \in Int, NEW unit
    PROVE  Cheapest(items, unit) \in Int
<1> DEFINE prices == {i.price : i \in {i \in items : i.unit = unit /\ i.price > 0}}
<1>1. \A p \in prices : p \in Nat
  OBVIOUS
<1>2. CASE prices = {}
  BY <1>2 DEF Cheapest, NoPrice
<1>3. CASE prices # {}
  <2>1. \E p \in prices : \A q \in prices : p <= q
    <3>1. prices \subseteq Nat
      BY <1>1
    <3> HIDE DEF prices
    <3>2. PICK p \in prices : \A q \in prices : ~(<<q, p>> \in OpToRel(<, Nat))
      BY <1>3, <3>1, NatLessThanWellFounded, WFMin
    <3>3. \A q \in Nat : q < p => <<q, p>> \in OpToRel(<, Nat)
      BY <3>1 DEF OpToRel
    <3>4. \A q \in prices : ~(q < p)
      BY <3>1, <3>2, <3>3
    <3> QED
      BY <3>1, <3>4
  <2>2. Min(prices) \in prices
    <3> HIDE DEF prices
    <3> QED
      BY <2>1 DEF Min
  <2> QED
    BY <1>1, <1>3, <2>2 DEF Cheapest
<1> QED
  BY <1>2, <1>3

\* What is read of the pages of prices has integer prices.
LEMMA ItemsInt ==
    ASSUME NEW pages \in Seq(Seq(PricedItem)), NEW k \in 0..Min({MaxPages, Len(pages)})
    PROVE  \A i \in Items(pages, k) : i.price \in Int
<1>1. Min({MaxPages, Len(pages)}) <= Len(pages) /\ Min({MaxPages, Len(pages)}) \in Int
  <2>1. MaxPages \in Int /\ Len(pages) \in Int
    BY DEF MaxPages
  <2>2. \E x \in {MaxPages, Len(pages)} : \A y \in {MaxPages, Len(pages)} : x <= y
    BY <2>1
  <2> QED
    BY <2>1, <2>2 DEF Min
<1>2. ASSUME NEW n \in 1..k
      PROVE  \A i \in ToSet(pages[n]) : i.price \in Int
  <2>1. n \in 1..Len(pages)
    <3>1. Len(pages) \in Int
      OBVIOUS
    <3> QED
      BY <1>1, <3>1
  <2>2. pages[n] \in Seq(PricedItem)
    BY <2>1
  <2>3. \A i \in ToSet(pages[n]) : i \in PricedItem
    BY <2>2 DEF ToSet
  <2> QED
    BY <2>3 DEF PricedItem
<1> QED
  BY <1>2 DEF Items

(***************************************************************************)
(* The analysis, from the question to the findings.                        *)
(***************************************************************************)
Fields == {"scope", "stage", "attempt", "slept", "throttled", "rows", "status", "errors", "monthly", "byKind", "byName",
           "comparison", "findings"}
CostDefects == {"live_disabled", "missing_config", "sdk_missing"}
CostStages == {"query", "add", "compare", "judge", "done"}
CostStatuses == {"none", "skipped", "ok", "empty_window", "error"} \cup CostDefects

Retried(a) ==
  /\ a.attempt \in 1..MaxAttempts /\ a.throttled = a.attempt - 1
  /\ a.slept \in Int /\ a.slept <= CapDelay * (a.attempt - 1)
Read(a) ==
  /\ RowsTyped(a.rows) /\ a.status \in CostStatuses
  /\ a.stage = "query" <=> a.status = "none"
  /\ a.status = "skipped" => a.stage = "done"
  /\ a.status # "ok" => a.rows = {}
  /\ a.scope.source = "azure" /\ a.status = "ok" =>
       a.rows = IF a.stage = "add" THEN ParseQueryResponse(a.scope.bills) ELSE OwnRows(a.scope)
Added(a) == a.stage \in {"compare", "judge", "done"} /\ a.status # "skipped"
Judged(a) ==
  /\ a.rows = {} => a.findings \cap {"sdk_missing", "live_disabled", "missing_config", "collection_error", "no_data"} # {}
  /\ a.status = "error" <=> "collection_error" \in a.findings
AnalysisInv(a) ==
  /\ DOMAIN a = Fields /\ a.scope \in Scopes /\ a.stage \in CostStages
  /\ Retried(a) /\ Read(a)
  /\ Added(a) => a.monthly = ByMonth(a.rows) /\ a.byKind = ByKind(a.rows)
  /\ a.comparison # NoComparison => Added(a) /\ Priced(a.comparison, LatestMonthlyCost(a.monthly), a.scope.offline)
  /\ a.stage = "done" /\ a.status # "skipped" => Judged(a)
CostInv == (analysis.stage = "idle" \/ AnalysisInv(analysis)) /\ PricesInv

\* The settings are positive numbers, the server's hints are numbers.
LEMMA CostNumbers == MaxAttempts \in Nat \ {0} /\ BaseDelay \in Nat \ {0} /\ CapDelay \in Nat \ {0} /\ Hints \subseteq Int
BY CostAssumption, Zenon

\* One wait is at most the cap, whatever the attempt and the server's hint.
LEMMA BackoffBounded ==
    ASSUME NEW attempt \in Nat \ {0}, NEW hint \in Hints, NEW delay \in Delays(attempt, hint)
    PROVE  delay \in Int /\ delay <= CapDelay
<1>1. CapDelay \in Int /\ CapDelay >= 0 /\ hint \in Int
  BY CostNumbers
<1>2. ASSUME NEW x \in Int
      PROVE  Min({x, CapDelay}) \in Int /\ Min({x, CapDelay}) <= CapDelay /\ Min({CapDelay, x}) = Min({x, CapDelay})
  <2>1. \E m \in {x, CapDelay} : \A y \in {x, CapDelay} : m <= y
    BY <1>1
  <2>2. {CapDelay, x} = {x, CapDelay}
    OBVIOUS
  <2>3. Min({CapDelay, x}) = Min({x, CapDelay})
    BY <2>2, Zenon
  <2> QED
    BY <1>1, <2>1, <2>3 DEF Min
<1>3. BaseDelay * 2 ^ (attempt - 1) \in Int
  <2>1. \A n \in Nat : 2 ^ n \in Int
    OBVIOUS
  <2>2. attempt - 1 \in Nat
    OBVIOUS
  <2>3. 2 ^ (attempt - 1) \in Int
    BY <2>1, <2>2
  <2>4. \A x, y \in Int : x * y \in Int
    OBVIOUS
  <2> QED
    BY <2>3, <2>4, CostNumbers
<1>4. Backoff(attempt) \in Int /\ Backoff(attempt) <= CapDelay
  BY <1>2, <1>3 DEF Backoff
<1>5. delay \in {Min({hint, CapDelay}), 0, Backoff(attempt)}
  BY DEF Delays
<1> QED
  BY <1>1, <1>2, <1>4, <1>5

\* No rows are well typed, and cost nothing.
LEMMA NoneTyped == RowsTyped({})
BY FS_EmptySet DEF RowsTyped

\* Each step keeps the invariant: one lemma per action of CostNext.
LEMMA StartCostStep == ASSUME CostInv, NEW s \in Scopes, StartCost(s) PROVE CostInv'
<1>1. PricesInv'
  BY DEF CostInv, StartCost, PricesInv
<1>2. /\ DOMAIN analysis' = Fields /\ analysis'.scope = s /\ analysis'.attempt = 1 /\ analysis'.slept = 0
      /\ analysis'.throttled = 0 /\ analysis'.rows = {} /\ analysis'.comparison = NoComparison
      /\ \/ analysis'.stage = "done" /\ analysis'.status = "skipped"
         \/ analysis'.stage = "query" /\ analysis'.status = "none"
         \/ analysis'.stage = "add" /\ Defects(s) # {} /\ analysis'.status = FirstDefect(s)
  BY DEF StartCost, Begin, Fields
<1>3. Defects(s) # {} => FirstDefect(s) \in CostDefects
  BY DEF FirstDefect, CostDefects
<1>4. Retried(analysis')
  BY <1>2, CostNumbers DEF Retried
<1>5. Read(analysis')
  BY <1>2, <1>3, NoneTyped DEF Read, CostStatuses, CostDefects
<1>6. ~Added(analysis') /\ analysis'.stage \in CostStages
      /\ (analysis'.stage = "done" => analysis'.status = "skipped")
  BY <1>2 DEF Added, CostStages
<1>7. AnalysisInv(analysis')
  BY <1>2, <1>4, <1>5, <1>6 DEF AnalysisInv
<1> QED
  BY <1>1, <1>7 DEF CostInv

LEMMA ThrottledStep == ASSUME CostInv, NEW h \in Hints, Throttled(h) PROVE CostInv'
<1>1. AnalysisInv(analysis) /\ analysis.stage = "query" /\ analysis.attempt < MaxAttempts /\ PricesInv /\ PricesInv'
  BY DEF CostInv, Throttled, PricesInv
<1>2. PICK delay \in Delays(analysis.attempt, h) :
        analysis' = [analysis EXCEPT !.attempt = @ + 1, !.slept = @ + delay, !.throttled = @ + 1]
  BY DEF Throttled
<1>3. /\ DOMAIN analysis' = Fields /\ analysis'.attempt = analysis.attempt + 1 /\ analysis'.slept = analysis.slept + delay
      /\ analysis'.throttled = analysis.throttled + 1 /\ analysis'.scope = analysis.scope /\ analysis'.stage = analysis.stage
      /\ analysis'.rows = analysis.rows /\ analysis'.status = analysis.status /\ analysis'.comparison = analysis.comparison
  BY <1>1, <1>2 DEF AnalysisInv, Fields
<1>4. delay \in Int /\ delay <= CapDelay
  <2>1. analysis.attempt \in Nat \ {0}
    BY <1>1, CostNumbers DEF AnalysisInv, Retried
  <2> QED
    BY <2>1, BackoffBounded
<1>5. Retried(analysis')
  <2>1. /\ analysis.attempt \in 1..MaxAttempts /\ analysis.throttled = analysis.attempt - 1 /\ analysis.slept \in Int
        /\ analysis.slept <= CapDelay * (analysis.attempt - 1)
        /\ CapDelay \in Int /\ MaxAttempts \in Int
    BY <1>1, CostNumbers DEF AnalysisInv, Retried
  <2>2. \A c, x, d, a \in Int : x <= c * (a - 1) /\ d <= c =>
          \A y, b \in Int : y = x + d /\ b = a + 1 => y <= c * (b - 1)
    <3>1. \A c, a \in Int : c * (a + 1 - 1) = c * (a - 1) + c /\ c * (a - 1) \in Int
      OBVIOUS
    <3> QED
      BY <3>1
  <2>3. analysis.attempt \in Int
    BY <2>1
  <2>4. analysis'.slept \in Int /\ analysis'.attempt \in Int
    BY <1>3, <1>4, <2>1
  <2>5. analysis'.attempt \in 1..MaxAttempts /\ analysis'.throttled = analysis'.attempt - 1 /\ analysis'.slept \in Int
    BY <1>1, <1>3, <1>4, <2>1
  <2>6. analysis'.slept <= CapDelay * (analysis'.attempt - 1)
    BY <1>3, <1>4, <2>1, <2>2, <2>3, <2>4
  <2> QED
    BY <2>5, <2>6, Zenon DEF Retried
<1>6. Read(analysis') /\ ~Added(analysis') /\ ~Added(analysis)
  BY <1>1, <1>3 DEF AnalysisInv, Read, Added
<1>7. AnalysisInv(analysis')
  BY <1>1, <1>3, <1>5, <1>6 DEF AnalysisInv, CostStages
<1> QED
  BY <1>1, <1>7 DEF CostInv

\* The answer of the service, or none.
LEMMA ReceivedStep ==
    ASSUME CostInv, analysis.stage = "query", NEW rows, RowsTyped(rows), Received(rows), UNCHANGED priceCache,
           analysis.scope.source = "azure" => rows = ParseQueryResponse(analysis.scope.bills)
    PROVE  CostInv'
<1>1. AnalysisInv(analysis) /\ PricesInv'
  BY DEF CostInv, PricesInv
<1>2. /\ DOMAIN analysis' = Fields /\ analysis'.attempt = analysis.attempt /\ analysis'.slept = analysis.slept
      /\ analysis'.throttled = analysis.throttled /\ analysis'.scope = analysis.scope /\ analysis'.stage = "add"
      /\ analysis'.rows = rows /\ analysis'.status = IF rows = {} THEN "empty_window" ELSE "ok"
      /\ analysis'.comparison = analysis.comparison
  BY <1>1 DEF Received, AnalysisInv, Fields
<1>3. Retried(analysis')
  BY <1>1, <1>2 DEF AnalysisInv, Retried
<1>4. Read(analysis') /\ ~Added(analysis') /\ ~Added(analysis)
  BY <1>2 DEF Read, Added, CostStatuses
<1>5. AnalysisInv(analysis')
  BY <1>1, <1>2, <1>3, <1>4 DEF AnalysisInv, CostStages
<1> QED
  BY <1>1, <1>5 DEF CostInv

LEMMA AnsweredStep == ASSUME CostInv, Answered PROVE CostInv'
<1>1. analysis.stage = "query" /\ analysis.scope \in Scopes /\ UNCHANGED priceCache
  BY DEF Answered, CostInv, AnalysisInv
<1>2. CASE analysis.scope.source = "azure" /\ Received(ParseQueryResponse(analysis.scope.bills))
  BY <1>1, <1>2, RowsOfBills, ReceivedStep
<1>3. CASE analysis.scope.source = "bigquery" /\ Received(ParseBillingRows(analysis.scope.bills))
  BY <1>1, <1>3, RowsOfBills, ReceivedStep
<1>4. ASSUME NEW shown \in BOOLEAN, analysis.scope.source = "snowflake", Received(SnowflakeRows(analysis.scope.meter, shown))
      PROVE  CostInv'
  BY <1>1, <1>4, RowsOfMeter, ReceivedStep
<1> QED
  BY <1>2, <1>3, <1>4 DEF Answered

LEMMA GaveUpStep == ASSUME CostInv, GaveUp PROVE CostInv'
<1>1. AnalysisInv(analysis) /\ PricesInv' /\ analysis.stage = "query"
  BY DEF CostInv, PricesInv, GaveUp
<1>2. /\ DOMAIN analysis' = Fields /\ analysis'.attempt = analysis.attempt /\ analysis'.slept = analysis.slept
      /\ analysis'.throttled = analysis.throttled /\ analysis'.scope = analysis.scope /\ analysis'.stage = "add"
      /\ analysis'.rows = analysis.rows /\ analysis'.status = "error" /\ analysis'.comparison = analysis.comparison
  BY <1>1 DEF GaveUp, Failed, AnalysisInv, Fields
<1>3. Retried(analysis')
  BY <1>1, <1>2 DEF AnalysisInv, Retried
<1>4. Read(analysis') /\ ~Added(analysis') /\ ~Added(analysis)
  BY <1>1, <1>2 DEF AnalysisInv, Read, Added, CostStatuses
<1>5. AnalysisInv(analysis')
  BY <1>1, <1>2, <1>3, <1>4 DEF AnalysisInv, CostStages
<1> QED
  BY <1>1, <1>5 DEF CostInv

LEMMA AggregateStep == ASSUME CostInv, Aggregate PROVE CostInv'
<1>1. AnalysisInv(analysis) /\ PricesInv' /\ analysis.stage = "add"
  BY DEF CostInv, PricesInv, Aggregate
<1> DEFINE own == FilterRowsForScope(analysis.rows, analysis.scope)
<1>2. /\ DOMAIN analysis' = Fields /\ analysis'.attempt = analysis.attempt /\ analysis'.slept = analysis.slept
      /\ analysis'.throttled = analysis.throttled /\ analysis'.scope = analysis.scope /\ analysis'.stage = "compare"
      /\ analysis'.rows = own /\ analysis'.status = analysis.status /\ analysis'.comparison = analysis.comparison
      /\ analysis'.monthly = ByMonth(own) /\ analysis'.byKind = ByKind(own)
  <2> DEFINE monthly == SumBy(own, LAMBDA r : r.month)
             byKind == SumBy(own, LAMBDA r : r.kind)
             byName == SumBy({r \in own : r.name # ""}, LAMBDA r : r.name)
  <2>1. analysis' = [analysis EXCEPT !.stage = "compare", !.rows = own, !.monthly = monthly, !.byKind = byKind, !.byName = byName]
    BY DEF Aggregate
  <2>2. monthly = ByMonth(own) /\ byKind = ByKind(own)
    BY DEF SumBy, ByMonth, ByKind
  <2> HIDE DEF own, monthly, byKind, byName
  <2> QED
    BY <1>1, <2>1, <2>2 DEF AnalysisInv, Fields
<1>3. Retried(analysis')
  BY <1>1, <1>2 DEF AnalysisInv, Retried
<1>4. RowsTyped(own)
  BY <1>1, RowsKept DEF AnalysisInv, Read
<1>5. analysis.rows = {} => own = {}
  BY DEF FilterRowsForScope
<1>6. analysis.rows = ParseQueryResponse(analysis.scope.bills) => own = OwnRows(analysis.scope)
  BY DEF OwnRows
<1> HIDE DEF own
<1>7. Read(analysis')
  BY <1>1, <1>2, <1>4, <1>5, <1>6 DEF AnalysisInv, Read
<1>8. ~Added(analysis)
  BY <1>1 DEF Added
<1>9. AnalysisInv(analysis')
  BY <1>1, <1>2, <1>3, <1>7, <1>8 DEF AnalysisInv, CostStages
<1> QED
  BY <1>1, <1>9 DEF CostInv

LEMMA NothingToCompareStep == ASSUME CostInv, NothingToCompare PROVE CostInv'
<1>1. AnalysisInv(analysis) /\ PricesInv' /\ analysis.stage = "compare"
  BY DEF CostInv, PricesInv, NothingToCompare
<1>2. /\ DOMAIN analysis' = Fields /\ analysis'.attempt = analysis.attempt /\ analysis'.slept = analysis.slept
      /\ analysis'.throttled = analysis.throttled /\ analysis'.scope = analysis.scope /\ analysis'.stage = "judge"
      /\ analysis'.rows = analysis.rows /\ analysis'.status = analysis.status /\ analysis'.comparison = analysis.comparison
      /\ analysis'.monthly = analysis.monthly /\ analysis'.byKind = analysis.byKind
  BY <1>1 DEF NothingToCompare, AnalysisInv, Fields
<1>3. Retried(analysis') /\ Read(analysis') /\ (Added(analysis') <=> Added(analysis))
  BY <1>1, <1>2 DEF AnalysisInv, Retried, Read, Added
<1>4. AnalysisInv(analysis')
  BY <1>1, <1>2, <1>3 DEF AnalysisInv, CostStages
<1> QED
  BY <1>1, <1>4 DEF CostInv

\* A comparison is made, with rates from wherever they are.
LEMMA CompareStep ==
    ASSUME CostInv, analysis.stage = "compare", PricesInv', NEW rates, rates.payg \in Int, NEW source,
           source \in {"live", "cache", "none", "offline"}, rates.payg # NoPrice => source \in {"live", "cache"},
           analysis.scope.offline => source \in {"none", "offline"}, CompareWith(rates, source)
    PROVE  CostInv'
<1>1. AnalysisInv(analysis) /\ Added(analysis)
  BY DEF CostInv, AnalysisInv, Read, Added
<1> DEFINE spent == LatestMonthlyCost(analysis.monthly)
           c == CompareToFabric(spent, analysis.scope.sku, rates, source)
<1>2. /\ DOMAIN analysis' = Fields /\ analysis'.attempt = analysis.attempt /\ analysis'.slept = analysis.slept
      /\ analysis'.throttled = analysis.throttled /\ analysis'.scope = analysis.scope /\ analysis'.stage = "judge"
      /\ analysis'.rows = analysis.rows /\ analysis'.status = analysis.status /\ analysis'.comparison = c
      /\ analysis'.monthly = analysis.monthly /\ analysis'.byKind = analysis.byKind
  <2>1. analysis' = [analysis EXCEPT !.stage = "judge", !.comparison = c]
    BY DEF CompareWith
  <2> HIDE DEF c
  <2> QED
    BY <1>1, <2>1 DEF AnalysisInv, Fields
<1>3. Retried(analysis') /\ Read(analysis') /\ Added(analysis')
  BY <1>1, <1>2 DEF AnalysisInv, Retried, Read, Added
<1>4. spent \in Int /\ analysis.scope.sku \in Nat
  BY <1>1, LatestInt, CostAssumption DEF AnalysisInv, Read
<1>5. Priced(c, spent, analysis.scope.offline)
  <2> HIDE DEF spent
  <2> QED
    BY <1>4, ComparedWell
<1> HIDE DEF c
<1>6. AnalysisInv(analysis')
  BY <1>1, <1>2, <1>3, <1>5 DEF AnalysisInv, CostStages
<1> QED
  BY <1>6 DEF CostInv

LEMMA CompareUnpricedStep == ASSUME CostInv, CompareUnpriced PROVE CostInv'
<1>1. analysis.stage = "compare" /\ PricesInv'
  BY DEF CompareUnpriced, CostInv, PricesInv
<1>2. NoRates.payg \in Int /\ NoRates.payg = NoPrice
  BY DEF NoRates, NoPrice
<1>3. PICK source : source \in {"none", "offline"} /\ CompareWith(NoRates, source)
  BY DEF CompareUnpriced
<1> QED
  BY <1>1, <1>2, <1>3, CompareStep

LEMMA CompareCachedStep == ASSUME CostInv, CompareCached PROVE CostInv'
<1>1. analysis.stage = "compare" /\ PricesInv' /\ ~analysis.scope.offline
  BY DEF CompareCached, AsksForPrices, CostInv, PricesInv
<1> DEFINE rates == CacheRead[analysis.scope.region]
<1>2. rates.payg \in Int
  <2>1. CASE hour - priceCache.at > CacheHours
    BY <2>1 DEF CompareCached, CacheRead
  <2>2. CASE ~(hour - priceCache.at > CacheHours)
    BY <2>2 DEF CompareCached, CacheRead, CostInv, PricesInv
  <2> QED
    BY <2>1, <2>2
<1>3. CompareWith(rates, "cache")
  BY DEF CompareCached
<1> HIDE DEF rates
<1> QED
  BY <1>1, <1>2, <1>3, CompareStep

LEMMA CompareLiveStep == ASSUME CostInv, CompareLive PROVE CostInv'
<1>1. /\ analysis.stage = "compare" /\ ~analysis.scope.offline /\ analysis.scope.mapped /\ AnalysisInv(analysis) /\ PricesInv
  BY DEF CompareLive, AsksForPrices, CostInv
<1> DEFINE lists == PricePages[analysis.scope.region]
<1>2. PICK j \in 0..Min({MaxPages, Len(lists.consumption)}), k \in 0..Min({MaxPages, Len(lists.reservation)}) :
        LET rates == Rates(Items(lists.consumption, j) \cup Items(lists.reservation, k))
        IN  /\ CompareWith(rates, IF Known(rates) THEN "live" ELSE "none")
            /\ priceCache' = IF Known(rates) THEN [at |-> hour, entries |-> WithRates(rates)] ELSE priceCache
  BY DEF CompareLive
<1> DEFINE items == Items(lists.consumption, j) \cup Items(lists.reservation, k)
           rates == Rates(items)
           source == IF Known(rates) THEN "live" ELSE "none"
<1>3. lists.consumption \in Seq(Seq(PricedItem)) /\ lists.reservation \in Seq(Seq(PricedItem))
  BY <1>1, CostAssumption DEF AnalysisInv
<1>4. rates.payg \in Int
  <2>1. \A i \in items : i.price \in Int
    <3> HIDE DEF lists
    <3>1. \A i \in Items(lists.consumption, j) : i.price \in Int
      BY <1>3, ItemsInt
    <3>2. \A i \in Items(lists.reservation, k) : i.price \in Int
      BY <1>3, ItemsInt
    <3> QED
      BY <3>1, <3>2
  <2>2. Cheapest(items, "hour") \in Int
    <3> HIDE DEF items
    <3> QED
      BY <2>1, CheapestInt
  <2>3. rates.payg = Cheapest(items, "hour")
    BY DEF Rates
  <2> QED
    BY <2>2, <2>3
<1>5. source \in {"live", "none"} /\ (rates.payg # NoPrice => source = "live")
  BY DEF Known
<1>6. PricesInv'
  <2> HIDE DEF rates
  <2>1. CASE Known(rates)
    <3>1. priceCache'.entries = WithRates(rates)
      BY <1>2, <2>1 DEF rates
    <3>2. \A r \in DOMAIN CacheRead : CacheRead[r].payg \in Int
      <4>1. CASE hour - priceCache.at > CacheHours
        BY <4>1 DEF CacheRead
      <4>2. CASE ~(hour - priceCache.at > CacheHours)
        BY <1>1, <4>2 DEF CacheRead, PricesInv
      <4> QED
        BY <4>1, <4>2
    <3> QED
      BY <1>4, <3>1, <3>2 DEF PricesInv, WithRates
  <2>2. CASE ~Known(rates)
    BY <1>1, <1>2, <2>2 DEF rates, PricesInv
  <2> QED
    BY <2>1, <2>2
<1>7. CompareWith(rates, source)
  BY <1>2
<1> HIDE DEF rates, source
<1> QED
  BY <1>1, <1>4, <1>5, <1>6, <1>7, CompareStep

\* A report without rows says why, and an error is found exactly when there was one.
LEMMA EvaluateJudges ==
    ASSUME NEW a, a.status \in CostStatuses, a.status = "error" => a.rows = {}
    PROVE  /\ a.rows = {} => Evaluate(a) \cap {"sdk_missing", "live_disabled", "missing_config", "collection_error", "no_data"} # {}
           /\ a.status = "error" <=> "collection_error" \in Evaluate(a)
<1>1. /\ NoDataFinding(a.status) \in {"sdk_missing", "live_disabled", "missing_config", "collection_error", "no_data"}
      /\ NoDataFinding(a.status) = "collection_error" <=> a.status = "error"
  BY DEF NoDataFinding, CostStatuses, CostDefects
<1> DEFINE others == (IF CreditsOnly(a) THEN {"snowflake_credits_only"} ELSE {})
                     \cup FabricFindings(a.comparison) \cup ConcentrationFindings(a.byKind) \cup MonthOverMonthFindings(a.monthly)
<1>2. "collection_error" \notin others
  <2>1. "collection_error" \notin FabricFindings(a.comparison)
    BY DEF FabricFindings
  <2>2. "collection_error" \notin ConcentrationFindings(a.byKind)
    BY DEF ConcentrationFindings
  <2>3. "collection_error" \notin MonthOverMonthFindings(a.monthly)
    BY DEF MonthOverMonthFindings
  <2> QED
    BY <2>1, <2>2, <2>3
<1>3. Evaluate(a) = (IF a.rows = {} THEN {NoDataFinding(a.status)} ELSE {}) \cup others
  BY DEF Evaluate
<1> HIDE DEF others
<1> QED
  BY <1>1, <1>2, <1>3

LEMMA JudgeStep == ASSUME CostInv, Judge PROVE CostInv'
<1>1. AnalysisInv(analysis) /\ PricesInv' /\ analysis.stage = "judge"
  BY DEF CostInv, PricesInv, Judge
<1>2. /\ DOMAIN analysis' = Fields /\ analysis'.attempt = analysis.attempt /\ analysis'.slept = analysis.slept
      /\ analysis'.throttled = analysis.throttled /\ analysis'.scope = analysis.scope /\ analysis'.stage = "done"
      /\ analysis'.rows = analysis.rows /\ analysis'.status = analysis.status /\ analysis'.comparison = analysis.comparison
      /\ analysis'.monthly = analysis.monthly /\ analysis'.byKind = analysis.byKind /\ analysis'.findings = Evaluate(analysis)
  BY <1>1 DEF Judge, AnalysisInv, Fields
<1>3. Retried(analysis') /\ Read(analysis') /\ (Added(analysis') <=> Added(analysis))
  BY <1>1, <1>2 DEF AnalysisInv, Retried, Read, Added
<1>4. Judged(analysis')
  <2>1. analysis.status \in CostStatuses /\ (analysis.status = "error" => analysis.rows = {})
    BY <1>1 DEF AnalysisInv, Read
  <2> QED
    BY <1>2, <2>1, EvaluateJudges DEF Judged
<1>5. AnalysisInv(analysis')
  BY <1>1, <1>2, <1>3, <1>4 DEF AnalysisInv, CostStages
<1> QED
  BY <1>1, <1>5 DEF CostInv

\* The three facts that make CostInv an invariant, and what it says of the report.
LEMMA CostStarts == CostInit => CostInv
BY DEF CostInit, NoAnalysis, CostInv, PricesInv

LEMMA CostSteps == CostInv /\ [CostNext]_costVars => CostInv'
<1> SUFFICES ASSUME CostInv, [CostNext]_costVars
             PROVE  CostInv'
  OBVIOUS
<1>1. CASE UNCHANGED <<analysis, priceCache>>
  BY <1>1 DEF CostInv, PricesInv
<1>2. CASE \E s \in Scopes : StartCost(s)
  BY <1>2, StartCostStep
<1>3. CASE \E h \in Hints : Throttled(h)
  BY <1>3, ThrottledStep
<1>4. CASE Answered \/ GaveUp \/ Aggregate \/ NothingToCompare
  BY <1>4, AnsweredStep, GaveUpStep, AggregateStep, NothingToCompareStep
<1>5. CASE CompareUnpriced \/ CompareCached \/ CompareLive \/ Judge
  BY <1>5, CompareUnpricedStep, CompareCachedStep, CompareLiveStep, JudgeStep
<1>6. CASE HourPasses
  BY <1>1, <1>6 DEF HourPasses
<1>7. CASE UNCHANGED costVars
  BY <1>1, <1>7 DEF costVars
<1> QED
  BY <1>2, <1>3, <1>4, <1>5, <1>6, <1>7 DEF CostNext

LEMMA RetriesTold == CostInv => RetriesBounded
<1> SUFFICES ASSUME CostInv, analysis.stage # "idle"
             PROVE  /\ analysis.attempt = analysis.throttled + 1 /\ analysis.attempt <= MaxAttempts
                    /\ analysis.slept <= CapDelay * (analysis.attempt - 1)
  BY DEF RetriesBounded
<1>1. Retried(analysis)
  BY DEF CostInv, AnalysisInv
<1> QED
  BY <1>1, CostNumbers DEF Retried

LEMMA AddsUpTold == CostInv => CostAddsUp
<1> SUFFICES ASSUME CostInv, CostDone
             PROVE  CostAddsUp
  BY DEF CostAddsUp
<1>1. AnalysisInv(analysis) /\ analysis.stage = "done" /\ analysis.status # "skipped" /\ Added(analysis)
  BY DEF CostInv, CostDone, Added
<1>2. analysis.monthly = ByMonth(analysis.rows) /\ analysis.byKind = ByKind(analysis.rows) /\ RowsTyped(analysis.rows)
  BY <1>1 DEF AnalysisInv, Read
<1>3. /\ MapThenSumSet(LAMBDA k : analysis.monthly[k], DOMAIN analysis.monthly) = SumCost(analysis.rows)
      /\ MapThenSumSet(LAMBDA k : analysis.byKind[k], DOMAIN analysis.byKind) = SumCost(analysis.rows)
  <2>1. Total(analysis.monthly, DOMAIN analysis.monthly) = SumCost(analysis.rows)
    BY <1>2, MonthsAddUp
  <2>2. Total(analysis.byKind, DOMAIN analysis.byKind) = SumCost(analysis.rows)
    BY <1>2, MonthsAddUp
  <2> QED
    BY <2>1, <2>2 DEF Total
<1> DEFINE billed == IF analysis.scope.source = "azure" /\ analysis.status = "ok" THEN Billed(analysis.scope) ELSE {}
<1>4. /\ {b.n : b \in billed} \subseteq {r.n : r \in analysis.rows}
      /\ SumCost({r \in analysis.rows : r.n \in {b.n : b \in billed}}) = MapThenSumSet(LAMBDA b : b.cost, billed)
  <2>1. CASE analysis.scope.source = "azure" /\ analysis.status = "ok"
    <3>1. analysis.rows = OwnRows(analysis.scope) /\ billed = Billed(analysis.scope) /\ analysis.scope \in Scopes
      BY <1>1, <2>1 DEF AnalysisInv, Read
    <3>2. MapThenSumSet(LAMBDA b : b.cost, billed) = Total(BillCost(analysis.scope), Billed(analysis.scope))
      BY <2>1, BillsTotal
    <3> HIDE DEF billed
    <3> QED
      BY <2>1, <3>1, <3>2, BilledRows
  <2>2. CASE ~(analysis.scope.source = "azure" /\ analysis.status = "ok")
    <3>1. billed = {} /\ {r \in analysis.rows : r.n \in {b.n : b \in billed}} = {}
      BY <2>2
    <3>2. SumCost({}) = MapThenSumSet(LAMBDA b : b.cost, {})
      BY DEF SumCost
    <3> HIDE DEF billed
    <3> QED
      BY <3>1, <3>2
  <2> QED
    BY <2>1, <2>2
<1>5. Compared(analysis.comparison) =>
        analysis.comparison.delta + LatestMonthlyCost(analysis.monthly) = analysis.comparison.cost
  <2>1. LatestMonthlyCost(analysis.monthly) \in Int
    BY <1>2, LatestInt
  <2>2. analysis.comparison # NoComparison =>
          /\ analysis.comparison.cost \in Int
          /\ analysis.comparison.delta = analysis.comparison.cost - LatestMonthlyCost(analysis.monthly)
    BY <1>1 DEF AnalysisInv, Priced
  <2> QED
    BY <2>1, <2>2 DEF Compared
<1> QED
  BY <1>3, <1>4, <1>5 DEF CostAddsUp, Billed

LEMMA NothingInventedTold == CostInv => NothingInvented
<1> SUFFICES ASSUME CostInv, CostDone
             PROVE  NothingInvented
  BY DEF NothingInvented
<1>1. AnalysisInv(analysis) /\ Judged(analysis)
  BY DEF CostInv, CostDone, AnalysisInv
<1> QED
  BY <1>1 DEF AnalysisInv, Judged, Priced, NothingInvented

\* The retries of a throttled query stop at the configured attempts, and no wait is
\* longer than the cap: for every number of attempts, delay, cap and server's hint.
THEOREM RetriesAreBounded == CostSpec => []RetriesBounded
<1>1. CostInit => CostInv
  BY CostStarts
<1>2. CostInv /\ [CostNext]_costVars => CostInv'
  BY CostSteps
<1>3. CostInv => RetriesBounded
  BY RetriesTold
<1> QED
  BY <1>1, <1>2, <1>3, PTL DEF CostSpec

\* The cost report is true to the bills, for every set of scopes, bills and price
\* pages: its breakdowns add up to what was billed, the price a comparison shows is
\* one that was read or fixed, and a report without rows says why.
THEOREM CostIsHonest == CostSpec => []CostHonest
<1>1. CostInit => CostInv
  BY CostStarts
<1>2. CostInv /\ [CostNext]_costVars => CostInv'
  BY CostSteps
<1>3. CostInv => CostHonest
  BY AddsUpTold, NothingInventedTold DEF CostHonest
<1> QED
  BY <1>1, <1>2, <1>3, PTL DEF CostSpec

-----------------------------------------------------------------------------
(***************************************************************************)
(* FabricValidation: what is expected of the warehouse, the checks made of *)
(* it, the invariant, and that each action keeps it.                        *)
(***************************************************************************)

(***************************************************************************)
(* What the loader expects of the warehouse.                               *)
(***************************************************************************)
FvPools(pools) == DOMAIN pools = 1..Len(pools) /\ Len(pools) \in Nat /\ \A i \in DOMAIN pools : FvPool(pools[i])
TablesOf(p, s) == {t \in p.tables : t.schema = s}
CountsOf(pools, kind) == [i \in DOMAIN pools |-> ObjectCount(ObjectsOf(pools[i]), kind)]

LEMMA CountsTotal ==
    ASSUME NEW pools, NEW kind
    PROVE  MapThenSumSet(LAMBDA i : ObjectCount(ObjectsOf(pools[i]), kind), DOMAIN pools) = Total(CountsOf(pools, kind), DOMAIN pools)
<1> DEFINE S == DOMAIN pools
           A(g) == g = [s \in SUBSET S |-> IF s = {} THEN 0 ELSE ObjectCount(ObjectsOf(pools[Pick(s)]), kind) + g[s \ {Pick(s)}]]
           B(g) == g = [s \in SUBSET S |-> IF s = {} THEN 0 ELSE CountsOf(pools, kind)[Pick(s)] + g[s \ {Pick(s)}]]
<1>1. ASSUME NEW g PROVE A(g) = B(g)
  <2>1. \A s \in SUBSET S : s # {} => ObjectCount(ObjectsOf(pools[Pick(s)]), kind) = CountsOf(pools, kind)[Pick(s)]
    BY Picked DEF CountsOf
  <2> QED
    BY <2>1
<1>2. (CHOOSE g : A(g)) = (CHOOSE g : B(g))
  <2> HIDE DEF A, B
  <2> QED
    BY <1>1
<1>3. MapThenSumSet(LAMBDA i : ObjectCount(ObjectsOf(pools[i]), kind), S) = (CHOOSE g : A(g))[S]
  BY DEF MapThenSumSet, MapThenFoldSet, Pick
<1>4. Total(CountsOf(pools, kind), S) = (CHOOSE g : B(g))[S]
  BY DEF Total, MapThenSumSet, MapThenFoldSet, Pick
<1> QED
  BY <1>2, <1>3, <1>4

TableCounts(pools, s) == [i \in DOMAIN pools |-> Cardinality({t \in pools[i].tables : t.schema = s})]
LEMMA TablesTotal ==
    ASSUME NEW pools, NEW s
    PROVE  MapThenSumSet(LAMBDA i : Cardinality({t \in pools[i].tables : t.schema = s}), DOMAIN pools) = Total(TableCounts(pools, s), DOMAIN pools)
<1> DEFINE S == DOMAIN pools
           A(g) == g = [x \in SUBSET S |-> IF x = {} THEN 0 ELSE Cardinality({t \in pools[Pick(x)].tables : t.schema = s}) + g[x \ {Pick(x)}]]
           B(g) == g = [x \in SUBSET S |-> IF x = {} THEN 0 ELSE TableCounts(pools, s)[Pick(x)] + g[x \ {Pick(x)}]]
<1>1. ASSUME NEW g PROVE A(g) = B(g)
  <2>1. \A x \in SUBSET S : x # {} => Cardinality({t \in pools[Pick(x)].tables : t.schema = s}) = TableCounts(pools, s)[Pick(x)]
    BY Picked DEF TableCounts
  <2> QED
    BY <2>1
<1>2. (CHOOSE g : A(g)) = (CHOOSE g : B(g))
  <2> HIDE DEF A, B
  <2> QED
    BY <1>1
<1>3. MapThenSumSet(LAMBDA i : Cardinality({t \in pools[i].tables : t.schema = s}), S) = (CHOOSE g : A(g))[S]
  BY DEF MapThenSumSet, MapThenFoldSet, Pick
<1>4. Total(TableCounts(pools, s), S) = (CHOOSE g : B(g))[S]
  BY DEF Total, MapThenSumSet, MapThenFoldSet, Pick
<1> QED
  BY <1>2, <1>3, <1>4

\* The objects of a pool are its tables, each once.
LEMMA PoolTables ==
    ASSUME NEW p, FvPool(p)
    PROVE  /\ NamedTables(p) = p.tables
           /\ ObjectsOf(p) = {<<t.schema, "USER_TABLE", t.name>> : t \in p.tables}
           /\ IsFiniteSet(ObjectsOf(p)) /\ IsFiniteSet(KindsOf(ObjectsOf(p)))
           /\ \A s : ObjectCount(ObjectsOf(p), <<s, "USER_TABLE">>) = Cardinality({t \in p.tables : t.schema = s})
           /\ \A t \in p.tables : <<t.schema, "USER_TABLE">> \in KindsOf(ObjectsOf(p))
           /\ \A kind \in KindsOf(ObjectsOf(p)) : \E s : /\ kind = <<s, "USER_TABLE">>
                                                         /\ Cardinality({t \in p.tables : t.schema = s}) \in Nat \ {0}
<1> DEFINE tuple == [t \in p.tables |-> <<t.schema, "USER_TABLE", t.name>>]
           kindOf == [o \in ObjectsOf(p) |-> <<o[1], o[2]>>]
           objects == {tuple[t] : t \in p.tables}
<1>1. NamedTables(p) = p.tables
  BY DEF NamedTables, PartOf, FvPool
<1>2. ObjectsOf(p) = objects
  BY <1>1 DEF ObjectsOf, PartOf, FvPool
<1>3. IsFiniteSet(p.tables) /\ \A t, u \in p.tables : tuple[t] = tuple[u] => t = u
  BY DEF FvPool
<1>4. IsFiniteSet(objects)
  <2> HIDE DEF tuple
  <2> QED
    BY <1>3, FiniteImage
<1>5. IsFiniteSet(KindsOf(ObjectsOf(p)))
  <2>1. KindsOf(ObjectsOf(p)) = {kindOf[o] : o \in ObjectsOf(p)}
    BY DEF KindsOf
  <2>2. IsFiniteSet(ObjectsOf(p))
    BY <1>2, <1>4
  <2> HIDE DEF kindOf, objects
  <2> QED
    BY <2>1, <2>2, FiniteImage
<1>6. ASSUME NEW s
      PROVE  ObjectCount(ObjectsOf(p), <<s, "USER_TABLE">>) = Cardinality({t \in p.tables : t.schema = s})
  <2> DEFINE T == {t \in p.tables : t.schema = s}
             O == {o \in objects : <<o[1], o[2]>> = <<s, "USER_TABLE">>}
             f == [t \in T |-> tuple[t]]
  <2>1. \A t \in T : f[t] \in O
    OBVIOUS
  <2>2. \A o \in O : \E t \in T : f[t] = o
    <3> SUFFICES ASSUME NEW o \in O
                 PROVE  \E u \in T : f[u] = o
      OBVIOUS
    <3>1. PICK t \in p.tables : o = tuple[t]
      OBVIOUS
    <3>2. o[1] = s /\ o[1] = t.schema
      BY <3>1
    <3>3. t \in T /\ f[t] = o
      BY <3>1, <3>2
    <3> QED
      BY <3>3
  <2>3. \A t, u \in T : f[t] = f[u] => t = u
    BY <1>3
  <2>4. f = [t \in T |-> f[t]]
    OBVIOUS
  <2>5. IsFiniteSet(T)
    BY <1>3, FS_Subset
  <2>6. ObjectCount(ObjectsOf(p), <<s, "USER_TABLE">>) = Cardinality(O)
    BY <1>2 DEF ObjectCount
  <2> HIDE DEF f, T, O
  <2>7. f \in [T -> O]
    BY <2>1, <2>4, Zenon
  <2>8. f \in Bijection(T, O)
    BY <2>2, <2>3, <2>7 DEF Bijection, Injection, Surjection, IsInjective
  <2>9. Cardinality(O) = Cardinality(T)
    BY <2>5, <2>8, FS_Bijection DEF ExistsBijection
  <2> QED
    BY <2>6, <2>9 DEF T
<1>7. ASSUME NEW kind \in KindsOf(ObjectsOf(p))
      PROVE  \E s : /\ kind = <<s, "USER_TABLE">>
                    /\ Cardinality({t \in p.tables : t.schema = s}) \in Nat \ {0}
  <2>0. PICK o \in objects : kind = <<o[1], o[2]>>
    BY <1>2 DEF KindsOf
  <2>1. PICK t \in p.tables : kind = <<t.schema, "USER_TABLE">>
    <3>1. PICK t \in p.tables : o = tuple[t]
      BY <2>0
    <3>2. o[1] = t.schema /\ o[2] = "USER_TABLE"
      BY <3>1
    <3> QED
      BY <2>0, <3>2
  <2> DEFINE T == {u \in p.tables : u.schema = t.schema}
  <2>2. IsFiniteSet(T) /\ T # {}
    BY <1>3, FS_Subset
  <2> HIDE DEF T
  <2>3. Cardinality(T) \in Nat \ {0}
    BY <2>2, FS_CardinalityType, FS_EmptySet
  <2> QED
    BY <2>1, <2>3 DEF T
<1>8. \A t \in p.tables : <<t.schema, "USER_TABLE">> \in KindsOf(ObjectsOf(p))
  <2> SUFFICES ASSUME NEW t \in p.tables
               PROVE  <<t.schema, "USER_TABLE">> \in KindsOf(ObjectsOf(p))
    OBVIOUS
  <2>1. tuple[t] \in ObjectsOf(p) /\ tuple[t][1] = t.schema /\ tuple[t][2] = "USER_TABLE"
    BY <1>2
  <2> HIDE DEF tuple
  <2>2. <<tuple[t][1], tuple[t][2]>> \in KindsOf(ObjectsOf(p))
    BY <2>1 DEF KindsOf
  <2> QED
    BY <2>1, <2>2
<1> QED
  BY <1>1, <1>2, <1>4, <1>5, <1>6, <1>7, <1>8

\* The kinds expected are those of the tables of the pools, each with a count.
LEMMA CountsExpected ==
    ASSUME NEW pools, FvPools(pools)
    PROVE  /\ IsFiniteSet(DOMAIN ExpectedCounts(pools))
           /\ \A kind \in DOMAIN ExpectedCounts(pools) :
                /\ \E s : kind = <<s, "USER_TABLE">>
                /\ ExpectedCounts(pools)[kind] \in Nat \ {0}
           /\ \A s : At(ExpectedCounts(pools), <<s, "USER_TABLE">>) = Total(TableCounts(pools, s), DOMAIN pools)
<1> DEFINE kinds == [i \in DOMAIN pools |-> KindsOf(ObjectsOf(pools[i]))]
           K == UNION {kinds[i] : i \in DOMAIN pools}
<1>0. IsFiniteSet(DOMAIN pools) /\ \A i \in DOMAIN pools : FvPool(pools[i])
  BY FS_Interval DEF FvPools
<1>1. DOMAIN ExpectedCounts(pools) = K
  BY DEF ExpectedCounts, Range
<1>2. \A kind : kind \in K <=> \E i \in DOMAIN pools : kind \in KindsOf(ObjectsOf(pools[i]))
  OBVIOUS
<1>3. IsFiniteSet(K)
  <2>1. \A i \in DOMAIN pools : IsFiniteSet(kinds[i])
    BY <1>0, PoolTables
  <2> HIDE DEF kinds
  <2>2. IsFiniteSet({kinds[i] : i \in DOMAIN pools})
    BY <1>0, FiniteImage
  <2> QED
    BY <2>1, <2>2, FS_UNION
<1>4. ASSUME NEW kind \in K
      PROVE  ExpectedCounts(pools)[kind] = Total(CountsOf(pools, kind), DOMAIN pools)
  <2>1. ExpectedCounts(pools)[kind] = MapThenSumSet(LAMBDA i : ObjectCount(ObjectsOf(pools[i]), kind), DOMAIN pools)
    BY <1>1 DEF ExpectedCounts
  <2> QED
    BY <2>1, CountsTotal
<1> HIDE DEF K, kinds
<1>5. ASSUME NEW s
      PROVE  /\ \A i \in DOMAIN pools : CountsOf(pools, <<s, "USER_TABLE">>)[i] = TableCounts(pools, s)[i]
             /\ \A i \in DOMAIN pools : TableCounts(pools, s)[i] = Cardinality({t \in pools[i].tables : t.schema = s})
             /\ \A i \in DOMAIN pools : TableCounts(pools, s)[i] \in Nat
             /\ Total(CountsOf(pools, <<s, "USER_TABLE">>), DOMAIN pools) = Total(TableCounts(pools, s), DOMAIN pools)
  <2>1. ASSUME NEW i \in DOMAIN pools
        PROVE  /\ CountsOf(pools, <<s, "USER_TABLE">>)[i] = TableCounts(pools, s)[i]
               /\ TableCounts(pools, s)[i] = Cardinality({t \in pools[i].tables : t.schema = s})
               /\ TableCounts(pools, s)[i] \in Nat
    <3>1. IsFiniteSet({t \in pools[i].tables : t.schema = s})
      <4>1. IsFiniteSet(pools[i].tables)
        BY <1>0 DEF FvPool
      <4> QED
        BY <4>1, FS_Subset
    <3>2. Cardinality({t \in pools[i].tables : t.schema = s}) \in Nat
      BY <3>1, FS_CardinalityType
    <3> QED
      BY <1>0, <3>2, PoolTables DEF CountsOf, TableCounts
  <2> QED
    BY <1>0, <2>1, TotalSame
<1>6. ASSUME NEW kind \in K
      PROVE  /\ \E s : kind = <<s, "USER_TABLE">>
             /\ ExpectedCounts(pools)[kind] \in Nat \ {0}
  <2>1. PICK i \in DOMAIN pools : kind \in KindsOf(ObjectsOf(pools[i]))
    BY <1>2
  <2>2. PICK s : kind = <<s, "USER_TABLE">> /\ Cardinality({t \in pools[i].tables : t.schema = s}) \in Nat \ {0}
    BY <1>0, <2>1, PoolTables
  <2> DEFINE f == TableCounts(pools, s)
  <2>3. f[i] \in Nat \ {0} /\ \A j \in DOMAIN pools : f[j] \in Nat
    BY <1>5, <2>2
  <2>4. ExpectedCounts(pools)[kind] = Total(f, DOMAIN pools)
    BY <1>4, <1>5, <2>2
  <2> HIDE DEF f
  <2>5. Total(f, {i}) = f[i]
    <3>1. Total(f, {} \cup {i}) = Total(f, {}) + f[i]
      BY <2>3, FS_EmptySet, TotalAdd
    <3>2. {} \cup {i} = {i}
      OBVIOUS
    <3> QED
      BY <2>3, <3>1, <3>2, TotalEmpty
  <2>6. Total(f, {i}) <= Total(f, DOMAIN pools) /\ Total(f, DOMAIN pools) \in Nat
    BY <1>0, <2>3, TotalPart, TotalNat
  <2> QED
    BY <2>2, <2>3, <2>4, <2>5, <2>6
<1>7. ASSUME NEW s
      PROVE  At(ExpectedCounts(pools), <<s, "USER_TABLE">>) = Total(TableCounts(pools, s), DOMAIN pools)
  <2>1. CASE <<s, "USER_TABLE">> \in K
    BY <1>1, <1>4, <1>5, <2>1 DEF At
  <2>2. CASE <<s, "USER_TABLE">> \notin K
    <3>1. ASSUME NEW i \in DOMAIN pools
          PROVE  TableCounts(pools, s)[i] = 0
      <4> DEFINE T == {t \in pools[i].tables : t.schema = s}
      <4>1. T = {}
        <5>1. FvPool(pools[i])
          BY <1>0
        <5>2. \A t \in pools[i].tables : <<t.schema, "USER_TABLE">> \in KindsOf(ObjectsOf(pools[i]))
          BY <5>1, PoolTables
        <5> QED
          BY <1>2, <2>2, <5>2
      <4> HIDE DEF T
      <4>2. Cardinality(T) = 0
        BY <4>1, FS_EmptySet
      <4> QED
        BY <1>5, <4>2 DEF T
    <3>2. Total(TableCounts(pools, s), DOMAIN pools) = 0 * Cardinality(DOMAIN pools)
      BY <1>0, <3>1, TotalConst
    <3>3. Cardinality(DOMAIN pools) \in Nat
      BY <1>0, FS_CardinalityType
    <3> QED
      BY <1>1, <2>2, <3>2, <3>3 DEF At
  <2> QED
    BY <2>1, <2>2
<1> QED
  BY <1>1, <1>3, <1>6, <1>7

\* The tables expected to have rows are those whose rows are known, in any pool.
LEMMA RowsExpected ==
    ASSUME NEW pools, FvPools(pools)
    PROVE  /\ DOMAIN ExpectedRows(pools) = {<<t.schema, t.name>> : t \in {u \in UNION {p.tables : p \in Range(pools)} : u.rows # NoRows}}
           /\ IsFiniteSet(DOMAIN ExpectedRows(pools))
           /\ \A k \in DOMAIN ExpectedRows(pools) : ExpectedRows(pools)[k] \in Nat /\ \E s, n : k = <<s, n>>
<1> DEFINE perPool == [i \in DOMAIN pools |-> RowsByTable(pools[i])]
           counted(p) == {t \in p.tables : t.rows # NoRows}
           keys == [i \in DOMAIN pools |-> {<<t.schema, t.name>> : t \in counted(pools[i])}]
           K == UNION {keys[i] : i \in DOMAIN pools}
           last(k) == Max({i \in DOMAIN pools : k \in keys[i]})
<1>0. IsFiniteSet(DOMAIN pools) /\ DOMAIN pools \subseteq Nat /\ \A i \in DOMAIN pools : FvPool(pools[i])
  BY FS_Interval DEF FvPools
<1>1. ASSUME NEW i \in DOMAIN pools
      PROVE  /\ DOMAIN perPool[i] = keys[i]
             /\ \A k \in keys[i] : perPool[i][k].rows \in Nat
  <2> DEFINE p == pools[i]
  <2>1. FvPool(p) /\ NamedTables(p) = p.tables
    BY <1>0, PoolTables
  <2>2. perPool[i] = [k \in keys[i] |-> CHOOSE t \in counted(p) : <<t.schema, t.name>> = k]
    BY <2>1 DEF RowsByTable
  <2>3. \A t \in counted(p) : t.rows \in Nat
    BY <2>1 DEF FvPool
  <2>4. \A k \in keys[i] : \E t \in counted(p) : <<t.schema, t.name>> = k
    OBVIOUS
  <2> HIDE DEF perPool, keys, counted
  <2> QED
    BY <2>2, <2>3, <2>4
<1>2. ExpectedRows(pools) = [k \in UNION {DOMAIN perPool[i] : i \in DOMAIN perPool} |->
                               perPool[Max({i \in DOMAIN perPool : k \in DOMAIN perPool[i]})][k].rows]
  BY DEF ExpectedRows, LastByKey
<1>3. DOMAIN perPool = DOMAIN pools
  OBVIOUS
<1>4. K = {<<t.schema, t.name>> : t \in {u \in UNION {p.tables : p \in Range(pools)} : u.rows # NoRows}}
  <2>1. \A k : k \in K <=> \E i \in DOMAIN pools : \E t \in pools[i].tables : t.rows # NoRows /\ k = <<t.schema, t.name>>
    OBVIOUS
  <2>2. \A t : t \in UNION {p.tables : p \in Range(pools)} <=> \E i \in DOMAIN pools : t \in pools[i].tables
    BY DEF Range
  <2> HIDE DEF K, keys, counted
  <2> QED
    BY <2>1, <2>2
<1>5. IsFiniteSet(K)
  <2>1. ASSUME NEW i \in DOMAIN pools PROVE IsFiniteSet(keys[i])
    <3> DEFINE C == counted(pools[i])
               f == [t \in C |-> <<t.schema, t.name>>]
    <3>1. IsFiniteSet(C)
      BY <1>0, FS_Subset DEF FvPool
    <3>2. keys[i] = {f[t] : t \in C}
      OBVIOUS
    <3> HIDE DEF C, f, keys
    <3> QED
      BY <3>1, <3>2, FiniteImage
  <2> HIDE DEF keys
  <2>2. IsFiniteSet({keys[i] : i \in DOMAIN pools})
    BY <1>0, FiniteImage
  <2> QED
    BY <2>1, <2>2, FS_UNION
<1> HIDE DEF perPool, keys, counted
<1>6. UNION {DOMAIN perPool[i] : i \in DOMAIN perPool} = K
  BY <1>1, <1>3
<1>7. ASSUME NEW k \in K
      PROVE  ExpectedRows(pools)[k] \in Nat
  <2> DEFINE S == {i \in DOMAIN perPool : k \in DOMAIN perPool[i]}
  <2>1. S # {} /\ S \subseteq DOMAIN pools
    BY <1>1, <1>3
  <2>2. IsFiniteSet(S) /\ Numbers(S)
    BY <1>0, <2>1, FS_Subset DEF Numbers
  <2>3. ExpectedRows(pools)[k] = perPool[Max(S)][k].rows
    BY <1>2, <1>6
  <2>4. \A i \in S : k \in keys[i] /\ i \in DOMAIN pools
    BY <1>1, <1>3
  <2> HIDE DEF S, K
  <2>5. Max(S) \in S
    BY <2>1, <2>2, Largest
  <2> QED
    BY <1>1, <2>3, <2>4, <2>5
<1>8. DOMAIN ExpectedRows(pools) = K
  BY <1>2, <1>6
<1>9. \A k \in K : \E s, n : k = <<s, n>>
  BY <1>4
<1> HIDE DEF K
<1> QED
  BY <1>4, <1>5, <1>7, <1>8, <1>9

(***************************************************************************)
(* The checks: of one that was made when the warehouse had been seen, with *)
(* an answer or without.                                                   *)
(***************************************************************************)
AnsweredBy(site, refused, query) == site.configured /\ query \notin refused
CountCheck(site, seen, refused, c) ==
    /\ c.expected = IF c.key[2] # "USER_TABLE" THEN 0
                    ELSE MapThenSumSet(LAMBDA i : Cardinality({t \in site.pools[i].tables : t.schema = c.key[1]}), DOMAIN site.pools)
    /\ c.status = "match" => \E t \in seen : At(TargetCounts(t), c.key) = c.expected
    /\ ~AnsweredBy(site, refused, <<"object_counts">>) => c.status = "missing"
    /\ AnsweredBy(site, refused, <<"object_counts">>) => \E t \in seen : c.actual = At(TargetCounts(t), c.key)
HeldRows(seen, k) == {At(t.rows, k) : t \in {s \in seen : k \in DOMAIN s.rows}}
Drift(want, tolerance) == Max({1, (want * tolerance) \div 100})
RowCheck(site, seen, refused, c) ==
    /\ c.status = "match" =>
         /\ AnsweredBy(site, refused, c.key) /\ c.key[2] \notin OddNames
         /\ \E rows \in HeldRows(seen, c.key) :
              c.expected = 0 \/ rows \in (c.expected - Drift(c.expected, site.tolerance))..(c.expected + Drift(c.expected, site.tolerance))
    /\ c.status = "mismatch" => \E rows \in HeldRows(seen, c.key) : rows # c.expected
    /\ c.status = "missing" => ~AnsweredBy(site, refused, c.key) \/ c.key[2] \in OddNames \/ \E t \in seen : c.key \notin DOMAIN t.rows
RowFound(site, seen, refused, found, k) ==
    IF found = NoRows THEN ~AnsweredBy(site, refused, k) \/ k[2] \in OddNames \/ \E t \in seen : k \notin DOMAIN t.rows
    ELSE /\ AnsweredBy(site, refused, k) /\ k[2] \notin OddNames /\ found \in Nat
         /\ \E t \in seen : k \in DOMAIN t.rows /\ found = t.rows[k]

\* What was seen stays seen, and a query is not asked again.
LEMMA SeenStays ==
    ASSUME NEW site, NEW seen, NEW more, seen \subseteq more, NEW refused, NEW now
    PROVE  /\ \A c : CountCheck(site, seen, refused, c) /\ (<<"object_counts">> \in refused <=> <<"object_counts">> \in now)
                       => CountCheck(site, more, now, c)
           /\ \A c : RowCheck(site, seen, refused, c) /\ (c.key \in refused <=> c.key \in now) => RowCheck(site, more, now, c)
           /\ \A found, k : RowFound(site, seen, refused, found, k) /\ (k \in refused <=> k \in now) => RowFound(site, more, now, found, k)
<1>0. \A q : (q \in refused <=> q \in now) => (AnsweredBy(site, refused, q) <=> AnsweredBy(site, now, q))
  BY DEF AnsweredBy
<1>1. \A k : HeldRows(seen, k) \subseteq HeldRows(more, k)
  BY DEF HeldRows
<1>2. ASSUME NEW c, CountCheck(site, seen, refused, c), <<"object_counts">> \in refused <=> <<"object_counts">> \in now
      PROVE  CountCheck(site, more, now, c)
  BY <1>0, <1>2 DEF CountCheck
<1>3. ASSUME NEW c, RowCheck(site, seen, refused, c), c.key \in refused <=> c.key \in now
      PROVE  RowCheck(site, more, now, c)
  BY <1>0, <1>1, <1>3 DEF RowCheck
<1>4. ASSUME NEW found, NEW k, RowFound(site, seen, refused, found, k), k \in refused <=> k \in now
      PROVE  RowFound(site, more, now, found, k)
  BY <1>0, <1>4 DEF RowFound
<1> QED
  BY <1>2, <1>3, <1>4

\* A warehouse counts its objects by kind.
LEMMA WarehouseCounts ==
    ASSUME NEW t, FvWarehouse(t)
    PROVE  /\ IsFiniteSet(DOMAIN TargetCounts(t))
           /\ \A k \in DOMAIN TargetCounts(t) : TargetCounts(t)[k] \in Nat /\ k = <<k[1], k[2]>>
<1> DEFINE tables == [k \in DOMAIN t.rows |-> <<k[1], "USER_TABLE", k[2]>>]
           O == TargetObjects(t)
           kindOf == [o \in O |-> <<o[1], o[2]>>]
<1>1. IsFiniteSet(O)
  <2>1. O = {tables[k] : k \in DOMAIN t.rows} \cup t.objects
    BY DEF TargetObjects
  <2>2. IsFiniteSet(DOMAIN t.rows) /\ IsFiniteSet(t.objects)
    BY DEF FvWarehouse
  <2> HIDE DEF tables, O
  <2>3. IsFiniteSet({tables[k] : k \in DOMAIN t.rows})
    BY <2>2, FiniteImage
  <2> QED
    BY <2>1, <2>2, <2>3, FS_Union
<1>2. DOMAIN TargetCounts(t) = {kindOf[o] : o \in O}
  BY DEF TargetCounts, KindsOf
<1>3. \A k \in {kindOf[o] : o \in O} : k = <<k[1], k[2]>>
  OBVIOUS
<1>4. \A k \in DOMAIN TargetCounts(t) : TargetCounts(t)[k] = Cardinality({o \in O : <<o[1], o[2]>> = k})
  BY DEF TargetCounts, ObjectCount
<1>5. \A k : IsFiniteSet({o \in O : <<o[1], o[2]>> = k})
  BY <1>1, FS_Subset
<1> HIDE DEF O, kindOf
<1>6. IsFiniteSet({kindOf[o] : o \in O})
  BY <1>1, FiniteImage
<1>7. \A k \in DOMAIN TargetCounts(t) : TargetCounts(t)[k] \in Nat
  BY <1>4, <1>5, FS_CardinalityType
<1>8. \A k \in DOMAIN TargetCounts(t) : k = <<k[1], k[2]>>
  BY <1>2, <1>3
<1> QED
  BY <1>2, <1>6, <1>7, <1>8

LEMMA CountsCompared ==
    ASSUME NEW site, FvPools(site.pools), NEW t, FvWarehouse(t), NEW seen, t \in seen,
           NEW refused, NEW answer,
           answer = IF AnsweredBy(site, refused, <<"object_counts">>) THEN TargetCounts(t) ELSE <<>>
    PROVE  /\ IsFiniteSet(DiffObjectCounts(ExpectedCounts(site.pools), answer))
           /\ \A c \in DiffObjectCounts(ExpectedCounts(site.pools), answer) : CountCheck(site, seen, refused, c)
<1> DEFINE want == ExpectedCounts(site.pools)
           K == DOMAIN want \cup DOMAIN answer
           made == [k \in K |-> [key |-> k, expected |-> At(want, k), actual |-> At(answer, k), status |-> CountStatus(At(want, k), At(answer, k))]]
<1>1. DiffObjectCounts(want, answer) = {made[k] : k \in K}
  BY DEF DiffObjectCounts
<1>2. /\ IsFiniteSet(DOMAIN want)
      /\ \A k \in DOMAIN want : (\E s : k = <<s, "USER_TABLE">>) /\ want[k] \in Nat \ {0}
      /\ \A s : At(want, <<s, "USER_TABLE">>) = Total(TableCounts(site.pools, s), DOMAIN site.pools)
  BY CountsExpected
<1>3. IsFiniteSet(DOMAIN answer) /\ \A k \in DOMAIN answer : answer[k] \in Nat /\ k = <<k[1], k[2]>>
  <2>1. CASE AnsweredBy(site, refused, <<"object_counts">>)
    BY <2>1, WarehouseCounts
  <2>2. CASE ~AnsweredBy(site, refused, <<"object_counts">>)
    BY <2>2, FS_EmptySet
  <2> QED
    BY <2>1, <2>2
<1>4. IsFiniteSet(K)
  <2> HIDE DEF want
  <2> QED
    BY <1>2, <1>3, FS_Union
<1> HIDE DEF want
<1>5. ASSUME NEW k \in K
      PROVE  CountCheck(site, seen, refused, made[k])
  <2> DEFINE c == made[k]
  <2>1. /\ c.key = k /\ c.expected = At(want, k) /\ c.actual = At(answer, k)
        /\ c.status = CountStatus(At(want, k), At(answer, k))
    OBVIOUS
  <2>2. k = <<k[1], k[2]>> /\ At(want, k) \in Nat /\ At(answer, k) \in Nat
    BY <1>2, <1>3 DEF At
  <2>3. At(want, k) = IF k[2] # "USER_TABLE" THEN 0
                      ELSE MapThenSumSet(LAMBDA i : Cardinality({u \in site.pools[i].tables : u.schema = k[1]}), DOMAIN site.pools)
    <3>1. CASE k[2] # "USER_TABLE"
      <4>1. k \notin DOMAIN want
        BY <1>2, <3>1
      <4> QED
        BY <3>1, <4>1 DEF At
    <3>2. CASE k[2] = "USER_TABLE"
      <4>1. At(want, k) = Total(TableCounts(site.pools, k[1]), DOMAIN site.pools)
        BY <1>2, <2>2, <3>2
      <4> QED
        BY <3>2, <4>1, TablesTotal
    <3> QED
      BY <3>1, <3>2
  <2> HIDE DEF made, K
  <2>4. ASSUME AnsweredBy(site, refused, <<"object_counts">>)
        PROVE  /\ At(answer, k) = At(TargetCounts(t), k)
               /\ c.status = "match" => At(TargetCounts(t), k) = c.expected
    BY <2>1, <2>2, <2>4 DEF CountStatus
  <2>5. ASSUME ~AnsweredBy(site, refused, <<"object_counts">>)
        PROVE  c.status = "missing"
    <3>1. k \in DOMAIN want /\ At(answer, k) = 0
      BY <2>5 DEF At, K
    <3>2. At(want, k) > 0
      BY <1>2, <3>1 DEF At
    <3> QED
      BY <2>1, <2>2, <3>1, <3>2 DEF CountStatus
  <2>6. c.expected = IF c.key[2] # "USER_TABLE" THEN 0
                     ELSE MapThenSumSet(LAMBDA i : Cardinality({u \in site.pools[i].tables : u.schema = c.key[1]}), DOMAIN site.pools)
    BY <2>1, <2>3
  <2>7. c.status = "match" => \E u \in seen : At(TargetCounts(u), c.key) = c.expected
    BY <2>1, <2>4, <2>5
  <2>8. AnsweredBy(site, refused, <<"object_counts">>) => \E u \in seen : c.actual = At(TargetCounts(u), c.key)
    BY <2>1, <2>4
  <2> HIDE DEF c
  <2> QED
    BY <2>5, <2>6, <2>7, <2>8 DEF CountCheck, c
<1>6. IsFiniteSet({made[k] : k \in K})
  <2> HIDE DEF made, K
  <2> QED
    BY <1>4, FiniteImage
<1> HIDE DEF made, K
<1> QED
  BY <1>1, <1>5, <1>6 DEF want

LEMMA DriftPositive == \A want, tolerance \in Nat : Drift(want, tolerance) \in Nat \ {0}
<1> SUFFICES ASSUME NEW want \in Nat, NEW tolerance \in Nat
             PROVE  Drift(want, tolerance) \in Nat \ {0}
  OBVIOUS
<1> DEFINE x == (want * tolerance) \div 100
           S == {1, x}
<1>1. x \in Int
  <2>1. want * tolerance \in Int
    OBVIOUS
  <2> QED
    BY <2>1
<1> HIDE DEF x
<1>2. \E m \in S : \A y \in S : m >= y
  BY <1>1
<1>3. Max(S) \in S /\ \A y \in S : Max(S) >= y
  BY <1>2 DEF Max
<1>4. Max(S) \in Nat \ {0}
  BY <1>1, <1>3
<1> QED
  BY <1>4 DEF Drift, x

LEMMA RowsCompared ==
    ASSUME NEW site, site.tolerance \in Nat, NEW want, IsFiniteSet(DOMAIN want), \A k \in DOMAIN want : want[k] \in Nat,
           NEW have, NEW seen, NEW refused, \A k \in DOMAIN want : RowFound(site, seen, refused, have[k], k)
    PROVE  /\ IsFiniteSet(DiffRowCounts(want, have, site.tolerance))
           /\ {c.key : c \in DiffRowCounts(want, have, site.tolerance)} = DOMAIN want
           /\ \A c \in DiffRowCounts(want, have, site.tolerance) : RowCheck(site, seen, refused, c)
<1> DEFINE K == DOMAIN want
           made == [k \in K |-> [key |-> k, expected |-> want[k], actual |-> have[k], status |-> RowStatus(want[k], have[k], site.tolerance)]]
<1>1. DiffRowCounts(want, have, site.tolerance) = {made[k] : k \in K}
  BY DEF DiffRowCounts
<1>2. ASSUME NEW k \in K
      PROVE  RowCheck(site, seen, refused, made[k])
  <2> DEFINE c == made[k]
             d == Drift(want[k], site.tolerance)
  <2>1. c.key = k /\ c.expected = want[k] /\ c.status = RowStatus(want[k], have[k], site.tolerance)
    OBVIOUS
  <2>2. d \in Nat \ {0} /\ want[k] \in Nat /\ RowFound(site, seen, refused, have[k], k)
    BY DriftPositive
  <2>3. RowStatus(want[k], have[k], site.tolerance) =
          IF have[k] = NoRows THEN "missing" ELSE IF want[k] = 0 \/ have[k] - want[k] \in -d..d THEN "match" ELSE "mismatch"
    BY DEF RowStatus, Drift
  <2> HIDE DEF made, d
  <2>4. CASE have[k] = NoRows
    BY <2>1, <2>2, <2>3, <2>4 DEF RowCheck, RowFound
  <2>5. CASE have[k] # NoRows
    <3>1. /\ AnsweredBy(site, refused, k) /\ k[2] \notin OddNames /\ have[k] \in Nat
          /\ have[k] \in HeldRows(seen, k)
      BY <2>2, <2>5 DEF RowFound, HeldRows, At
    <3>2. c.status = "match" => want[k] = 0 \/ have[k] \in (want[k] - d)..(want[k] + d)
      BY <2>1, <2>2, <2>3, <2>5, <3>1
    <3>3. c.status = "mismatch" => have[k] # want[k]
      BY <2>1, <2>2, <2>3, <2>5, <3>1
    <3>4. c.status # "missing"
      BY <2>1, <2>3, <2>5
    <3> HIDE DEF c
    <3>5. c.status = "match" =>
            /\ AnsweredBy(site, refused, c.key) /\ c.key[2] \notin OddNames
            /\ \E rows \in HeldRows(seen, c.key) :
                 c.expected = 0 \/ rows \in (c.expected - Drift(c.expected, site.tolerance))..(c.expected + Drift(c.expected, site.tolerance))
      <4>1. AnsweredBy(site, refused, k) /\ k[2] \notin OddNames
        BY <3>1
      <4>2. c.status = "match" => \E rows \in HeldRows(seen, k) : want[k] = 0 \/ rows \in (want[k] - d)..(want[k] + d)
        BY <3>1, <3>2
      <4> QED
        BY <2>1, <4>1, <4>2 DEF d
    <3>6. c.status = "mismatch" => \E rows \in HeldRows(seen, c.key) : rows # c.expected
      BY <2>1, <3>1, <3>3
    <3>7. RowCheck(site, seen, refused, c)
      BY <3>4, <3>5, <3>6 DEF RowCheck
    <3> QED
      BY <3>7 DEF c
  <2> QED
    BY <2>4, <2>5
<1>3. \A k \in K : made[k].key = k
  OBVIOUS
<1>4. IsFiniteSet({made[k] : k \in K})
  <2> HIDE DEF made
  <2> QED
    BY FiniteImage
<1> DEFINE C == DiffRowCounts(want, have, site.tolerance)
<1> HIDE DEF made
<1>5. C = {made[k] : k \in K}
  BY <1>1
<1> HIDE DEF C, K
<1>6. IsFiniteSet(C)
  BY <1>4, <1>5
<1>7. {c.key : c \in C} = K
  BY <1>3, <1>5
<1>8. \A c \in C : RowCheck(site, seen, refused, c)
  BY <1>2, <1>5
<1> QED
  BY <1>6, <1>7, <1>8 DEF C, K

\* Each check has one status.
LEMMA TallyAddsUp ==
    ASSUME NEW all, IsFiniteSet(all)
    PROVE  MapThenSumSet(LAMBDA s : Summarize(all)[s], DOMAIN Summarize(all)) = Cardinality(all)
<1> DEFINE one == [c \in all |-> 1]
           status == [c \in all |-> c[2].status]
           K == {status[c] : c \in all}
           by == Summarize(all)
<1>1. DOMAIN by = K /\ \A s \in K : by[s] = Cardinality({c \in all : status[c] = s})
  BY DEF Summarize
<1>2. IsFiniteSet(K)
  <2> HIDE DEF status
  <2> QED
    BY FiniteImage
<1>3. \A c \in all : one[c] = 1 /\ status[c] \in K
  OBVIOUS
<1> HIDE DEF one, status, by, K
<1>4. Total(one, all) = 1 * Cardinality(all)
  BY <1>3, TotalConst
<1>5. ASSUME NEW s \in K
      PROVE  by[s] = Total(one, {c \in all : status[c] = s})
  <2> DEFINE of == {c \in all : status[c] = s}
  <2>1. IsFiniteSet(of) /\ \A c \in of : one[c] = 1
    BY <1>3, FS_Subset
  <2> HIDE DEF of
  <2>2. Total(one, of) = 1 * Cardinality(of) /\ Cardinality(of) \in Nat
    BY <2>1, TotalConst, FS_CardinalityType
  <2> QED
    BY <1>1, <2>2 DEF of
<1>6. Total(by, K) = Total(one, all)
  BY <1>2, <1>3, <1>5, TotalByKey
<1>7. Cardinality(all) \in Nat
  BY FS_CardinalityType
<1>8. Total(by, DOMAIN by) = Cardinality(all)
  BY <1>1, <1>4, <1>6, <1>7
<1> QED
  BY <1>8 DEF Total, by

LEMMA AllFinite ==
    ASSUME \A part \in CheckParts : IsFiniteSet(checks[part])
    PROVE  IsFiniteSet(AllChecks)
<1> DEFINE of == [part \in CheckParts |-> {<<part, c>> : c \in checks[part]}]
<1>1. ASSUME NEW part \in CheckParts
      PROVE  IsFiniteSet(of[part])
  <2> DEFINE C == checks[part]
             f == [c \in C |-> <<part, c>>]
  <2>1. IsFiniteSet(C) /\ of[part] = {f[c] : c \in C}
    OBVIOUS
  <2> HIDE DEF C, f, of
  <2> QED
    BY <2>1, FiniteImage
<1>2. IsFiniteSet(CheckParts)
  <2>1. IsFiniteSet({}) /\ CheckParts = ((({} \cup {"object_counts"}) \cup {"row_counts"}) \cup {"collation"}) \cup {"tsql_surface"}
    BY FS_EmptySet DEF CheckParts
  <2> QED
    BY <2>1, FS_AddElement
<1>3. AllChecks = UNION {of[part] : part \in CheckParts}
  BY DEF AllChecks
<1> HIDE DEF of
<1>4. IsFiniteSet({of[part] : part \in CheckParts})
  BY <1>2, FiniteImage
<1> QED
  BY <1>1, <1>3, <1>4, FS_UNION

\* Columns are looked for under a key no pool has; findings are those of every pool.
LEMMA OthersExpected ==
    ASSUME NEW pools, FvPools(pools)
    PROVE  IsFiniteSet(DOMAIN ExpectedCollations(pools)) /\ IsFiniteSet(Findings(pools))
<1>0. IsFiniteSet(DOMAIN pools) /\ \A i \in DOMAIN pools : FvPool(pools[i])
  BY FS_Interval DEF FvPools
<1>1. DOMAIN ExpectedCollations(pools) = {}
  <2> DEFINE perPool == [i \in DOMAIN pools |-> ByColumn(PartOf(pools[i], "column_collation"))]
  <2>1. \A i \in DOMAIN pools : PartOf(pools[i], "column_collation") = {}
    BY <1>0 DEF FvPool, PartOf
  <2>2. DOMAIN ByColumn({}) = {}
    BY DEF ByColumn
  <2>3. \A i \in DOMAIN perPool : DOMAIN perPool[i] = {}
    BY <2>1, <2>2
  <2>4. DOMAIN ExpectedCollations(pools) = UNION {DOMAIN perPool[i] : i \in DOMAIN perPool}
    BY DEF ExpectedCollations, LastByKey
  <2> HIDE DEF perPool
  <2> QED
    BY <2>3, <2>4
<1>2. IsFiniteSet(Findings(pools))
  <2> DEFINE gaps == [i \in DOMAIN pools |-> pools[i].tsql_surface_gaps]
  <2>1. Findings(pools) = UNION {gaps[i] : i \in DOMAIN pools}
    <3>1. \A i \in DOMAIN pools : PartOf(pools[i], "tsql_surface_gaps") = gaps[i]
      BY <1>0 DEF FvPool, PartOf
    <3> HIDE DEF gaps
    <3> QED
      BY <3>1 DEF Findings, Range
  <2>2. \A i \in DOMAIN pools : IsFiniteSet(gaps[i])
    BY <1>0 DEF FvPool
  <2> HIDE DEF gaps
  <2>3. IsFiniteSet({gaps[i] : i \in DOMAIN pools})
    BY <1>0, FiniteImage
  <2> QED
    BY <2>1, <2>2, <2>3, FS_UNION
<1> QED
  BY <1>1, <1>2, FS_EmptySet

LEMMA OthersCompared ==
    ASSUME NEW want, IsFiniteSet(DOMAIN want), NEW have, NEW found, IsFiniteSet(found)
    PROVE  IsFiniteSet(DiffCollation(want, have)) /\ IsFiniteSet(SurfaceResolutions(found))
<1> DEFINE K == DOMAIN want
           column == [k \in K |-> [key |-> k, status |-> CollationStatus(want, have, k)]]
           object == [f \in found |-> [key |-> f, status |-> IF <<f.schema, f.name>> \in ObjectsPresent THEN "still_present" ELSE "resolved"]]
<1>1. DiffCollation(want, have) = {column[k] : k \in K} /\ SurfaceResolutions(found) = {object[f] : f \in found}
  BY DEF DiffCollation, SurfaceResolutions
<1> HIDE DEF K, column, object
<1>2. IsFiniteSet({column[k] : k \in K})
  BY FiniteImage DEF K
<1>3. IsFiniteSet({object[f] : f \in found})
  BY FiniteImage
<1> QED
  BY <1>1, <1>2, <1>3

\* A query not asked before answers, or it is among those refused.
LEMMA QueryAsked ==
    ASSUME NEW name, name \notin refusals, NEW rows, NEW nothing, NEW answer, Query(name, rows, nothing, answer)
    PROVE  /\ answer = IF AnsweredBy(fvSite, refusals', name) THEN rows ELSE nothing
           /\ refusals' \in {refusals, refusals \cup {name}}
BY DEF Query, AnsweredBy

(***************************************************************************)
(* The invariant: what the loader read is what the artefact lists; a row   *)
(* count, and later its check, is what the warehouse held at some moment,  *)
(* unless the query had no answer. A query is refused only after it was    *)
(* asked for, so that what is refused later takes no count back.           *)
(***************************************************************************)
ValType ==
  /\ fvSite \in FvSites /\ loaded \in 1..Len(fvSite.targets)
  /\ fvStage \in {"load", "object_counts", "row_counts", "collation", "tsql_surface", "summary", "done"}
  /\ DOMAIN checks = CheckParts /\ \A part \in CheckParts : IsFiniteSet(checks[part])
LoadedTrue ==
  /\ fvStage \notin {"load", "done"} => fvSite.artefact = "whole"
  /\ fvStage # "load" /\ fvSite.artefact = "whole" => wanted = Expected(fvSite.pools)
NotAsked ==
  /\ fvStage \in {"load", "object_counts"} => rowsFound = <<>> /\ refusals = {} /\ checks["object_counts"] = {}
  /\ fvStage \in {"load", "object_counts", "row_counts"} => checks["row_counts"] = {}
  /\ fvStage = "row_counts" => refusals \subseteq {<<"object_counts">>} \cup DOMAIN rowsFound
  /\ fvStage = "collation" => <<"collation">> \notin refusals
FoundTrue ==
  \A k \in DOMAIN rowsFound : k \in DOMAIN wanted.rows /\ RowFound(fvSite, Seen, refusals, rowsFound[k], k)
ChecksHeld ==
  /\ \A c \in checks["object_counts"] : CountCheck(fvSite, Seen, refusals, c)
  /\ \A c \in checks["row_counts"] : c.key \in DOMAIN wanted.rows /\ RowCheck(fvSite, Seen, refusals, c)
ReportMade ==
  /\ fvStage \notin {"load", "object_counts", "row_counts"} /\ fvSite.artefact = "whole" /\ fvSite.validateRows
       /\ "row_counts" \notin fvErrors => {c.key : c \in checks["row_counts"]} = DOMAIN wanted.rows
  /\ fvStage = "done" /\ fvSite.artefact = "whole" => tally = Summarize(AllChecks)
ValInv == ValType /\ LoadedTrue /\ NotAsked /\ FoundTrue /\ ChecksHeld /\ ReportMade

LEMMA SiteKnown ==
    ASSUME ValidationAssumption, ValType
    PROVE  /\ FvPools(fvSite.pools) /\ FvWarehouse(Target) /\ Target \in Seen
           /\ fvSite.tolerance \in Nat \cup {NoNumber} /\ Len(fvSite.targets) \in Nat
BY DEF ValidationAssumption, ValType, FvPools, Target, Seen

\* The keys of rows are pairs, those of the other queries are not.
LEMMA KeysArePairs ==
    ASSUME ValidationAssumption, ValType, LoadedTrue, fvSite.artefact = "whole", fvStage # "load"
    PROVE  /\ wanted = Expected(fvSite.pools)
           /\ IsFiniteSet(DOMAIN wanted.rows) /\ \A k \in DOMAIN wanted.rows : wanted.rows[k] \in Nat
           /\ \A k \in DOMAIN wanted.rows : k # <<"object_counts">> /\ k # <<"collation">>
<1>1. FvPools(fvSite.pools)
  BY SiteKnown
<1>2. wanted = Expected(fvSite.pools) /\ wanted.rows = ExpectedRows(fvSite.pools)
  BY DEF LoadedTrue, Expected
<1>3. /\ IsFiniteSet(DOMAIN wanted.rows) /\ \A k \in DOMAIN wanted.rows : wanted.rows[k] \in Nat
      /\ \A k \in DOMAIN wanted.rows : \E s, n : k = <<s, n>>
  <2> DEFINE rows == ExpectedRows(fvSite.pools)
  <2>1. IsFiniteSet(DOMAIN rows) /\ \A k \in DOMAIN rows : rows[k] \in Nat /\ \E s, n : k = <<s, n>>
    BY <1>1, RowsExpected
  <2>2. wanted.rows = rows
    BY <1>2
  <2> HIDE DEF rows
  <2> QED
    BY <2>1, <2>2
<1>4. \A s, n : <<s, n>> # <<"object_counts">> /\ <<s, n>> # <<"collation">>
  OBVIOUS
<1> QED
  BY <1>2, <1>3, <1>4

LEMMA PartMade ==
    ASSUME ValType, NEW part \in CheckParts, NEW found, IsFiniteSet(found), NEW next, ChecksMade(part, found, next)
    PROVE  /\ checks'[part] = found /\ \A p \in CheckParts \ {part} : checks'[p] = checks[p]
           /\ DOMAIN checks' = CheckParts /\ \A p \in CheckParts : IsFiniteSet(checks'[p])
           /\ fvStage' = next /\ fvSite' = fvSite /\ loaded' = loaded /\ wanted' = wanted /\ tally' = tally /\ Seen' = Seen
<1>1. checks' = [checks EXCEPT ![part] = found] /\ DOMAIN checks = CheckParts
  BY DEF ValType, ChecksMade
<1>2. checks'[part] = found /\ (\A p \in CheckParts \ {part} : checks'[p] = checks[p]) /\ DOMAIN checks' = CheckParts
  BY <1>1
<1>3. \A p \in CheckParts : IsFiniteSet(checks'[p])
  BY <1>2 DEF ValType
<1>4. fvStage' = next /\ fvSite' = fvSite /\ loaded' = loaded /\ wanted' = wanted /\ tally' = tally
  BY DEF ChecksMade
<1> QED
  BY <1>2, <1>3, <1>4 DEF Seen

LEMMA ValInitially == ASSUME ValidationAssumption, ValidationInit PROVE ValInv
<1>1. /\ fvSite \in FvSites /\ loaded = 1 /\ wanted = NothingWanted /\ rowsFound = <<>> /\ checks = NoChecks
      /\ refusals = {} /\ fvStage = "load"
  BY DEF ValidationInit
<1>2. loaded \in 1..Len(fvSite.targets)
  BY <1>1 DEF ValidationAssumption
<1>3. DOMAIN checks = CheckParts /\ \A part \in CheckParts : checks[part] = {}
  BY <1>1 DEF NoChecks
<1>4. ValType
  BY <1>1, <1>2, <1>3, FS_EmptySet DEF ValType
<1>5. checks["object_counts"] = {} /\ checks["row_counts"] = {}
  BY <1>3 DEF CheckParts
<1>6. LoadedTrue /\ NotAsked /\ ReportMade
  BY <1>1, <1>5 DEF LoadedTrue, NotAsked, ReportMade
<1>7. FoundTrue
  BY <1>1 DEF FoundTrue
<1>8. ChecksHeld
  BY <1>5 DEF ChecksHeld
<1> QED
  BY <1>4, <1>6, <1>7, <1>8 DEF ValInv

LEMMA LoadStep == ASSUME ValidationAssumption, ValInv, LoadExpected PROVE ValInv'
<1>1. /\ fvStage = "load" /\ fvSite' = fvSite /\ loaded' = loaded /\ rowsFound' = rowsFound /\ checks' = checks
      /\ refusals' = refusals /\ Seen' = Seen
      /\ rowsFound = <<>> /\ refusals = {} /\ checks["object_counts"] = {} /\ checks["row_counts"] = {}
  BY DEF LoadExpected, ValInv, NotAsked, Seen
<1>2. \/ fvSite.artefact = "whole" /\ wanted' = Expected(fvSite.pools) /\ fvStage' = "object_counts"
      \/ fvSite.artefact # "whole" /\ fvStage' = "done"
  BY DEF LoadExpected
<1>3. ValType'
  BY <1>1, <1>2 DEF ValInv, ValType
<1>4. LoadedTrue' /\ NotAsked' /\ ReportMade'
  BY <1>1, <1>2 DEF LoadedTrue, NotAsked, ReportMade
<1>5. FoundTrue' /\ ChecksHeld'
  BY <1>1 DEF FoundTrue, ChecksHeld
<1> QED
  BY <1>3, <1>4, <1>5 DEF ValInv

LEMMA ObjectsStep == ASSUME ValidationAssumption, ValInv, CompareObjects PROVE ValInv'
<1>1. /\ fvStage = "object_counts" /\ rowsFound = <<>> /\ refusals = {} /\ rowsFound' = rowsFound /\ fvErrors' = fvErrors
      /\ fvSite.artefact = "whole" /\ checks["row_counts"] = {}
  BY DEF CompareObjects, ValInv, NotAsked, LoadedTrue
<1>2. PICK answer : /\ Query(<<"object_counts">>, TargetCounts(Target), <<>>, answer)
                    /\ ChecksMade("object_counts", DiffObjectCounts(wanted.counts, answer), "row_counts")
  BY DEF CompareObjects
<1>3. ValType /\ LoadedTrue
  BY DEF ValInv
<1>4. wanted = Expected(fvSite.pools) /\ wanted.counts = ExpectedCounts(fvSite.pools)
  BY <1>1, <1>3 DEF LoadedTrue, Expected
<1>5. /\ answer = IF AnsweredBy(fvSite, refusals', <<"object_counts">>) THEN TargetCounts(Target) ELSE <<>>
      /\ refusals' \in {refusals, refusals \cup {<<"object_counts">>}}
  BY <1>1, <1>2, QueryAsked
<1>6. FvPools(fvSite.pools) /\ FvWarehouse(Target) /\ Target \in Seen
  BY <1>3, SiteKnown
<1> DEFINE found == DiffObjectCounts(wanted.counts, answer)
<1>7. IsFiniteSet(found) /\ \A c \in found : CountCheck(fvSite, Seen, refusals', c)
  BY <1>4, <1>5, <1>6, CountsCompared
<1>8. ChecksMade("object_counts", found, "row_counts")
  BY <1>2
<1> HIDE DEF found
<1>9. /\ checks'["object_counts"] = found /\ checks'["row_counts"] = checks["row_counts"]
      /\ DOMAIN checks' = CheckParts /\ \A p \in CheckParts : IsFiniteSet(checks'[p])
      /\ fvStage' = "row_counts" /\ fvSite' = fvSite /\ loaded' = loaded /\ wanted' = wanted /\ Seen' = Seen
  BY <1>3, <1>7, <1>8, PartMade DEF CheckParts
<1>10. ValType'
  BY <1>3, <1>9 DEF ValType
<1>11. LoadedTrue'
  BY <1>1, <1>4, <1>9 DEF LoadedTrue
<1>12. NotAsked'
  BY <1>1, <1>5, <1>9 DEF NotAsked
<1>13. FoundTrue'
  BY <1>1 DEF FoundTrue
<1>14. ChecksHeld'
  BY <1>1, <1>7, <1>9 DEF ChecksHeld
<1>15. ReportMade'
  BY <1>9 DEF ReportMade
<1> QED
  BY <1>10, <1>11, <1>12, <1>13, <1>14, <1>15 DEF ValInv

\* A table counted now: what is counted is what the warehouse holds now.
LEMMA CountStep == ASSUME ValidationAssumption, ValInv, NEW table, CountRows(table) PROVE ValInv'
<1>1. /\ fvStage = "row_counts" /\ table \in DOMAIN wanted.rows /\ table \notin DOMAIN rowsFound
      /\ fvSite' = fvSite /\ loaded' = loaded /\ wanted' = wanted /\ checks' = checks /\ tally' = tally
      /\ fvErrors' = fvErrors /\ fvStage' = fvStage /\ Seen' = Seen /\ AllChecks' = AllChecks
  BY DEF CountRows, Seen, AllChecks
<1>2. PICK answer :
        /\ IF table[2] \in OddNames \/ table \notin DOMAIN Target.rows
           THEN answer = NoRows /\ UNCHANGED refusals
           ELSE Query(table, Target.rows[table], NoRows, answer)
        /\ rowsFound' = [k \in DOMAIN rowsFound \cup {table} |-> IF k = table THEN answer ELSE rowsFound[k]]
  BY DEF CountRows
<1>3. /\ ValType /\ LoadedTrue /\ FoundTrue /\ ChecksHeld /\ ReportMade /\ fvSite.artefact = "whole"
      /\ refusals \subseteq {<<"object_counts">>} \cup DOMAIN rowsFound /\ checks["row_counts"] = {}
  BY <1>1 DEF ValInv, LoadedTrue, NotAsked
<1>4. \A k \in DOMAIN wanted.rows : k # <<"object_counts">>
  BY <1>1, <1>3, KeysArePairs
<1>5. table \notin refusals
  BY <1>1, <1>3, <1>4
<1>6. FvWarehouse(Target) /\ Target \in Seen
  BY <1>3, SiteKnown
<1>7. refusals' \in {refusals, refusals \cup {table}} /\ RowFound(fvSite, Seen, refusals', answer, table)
  <2>1. CASE table[2] \in OddNames \/ table \notin DOMAIN Target.rows
    BY <1>2, <1>6, <2>1 DEF RowFound
  <2>2. CASE ~(table[2] \in OddNames \/ table \notin DOMAIN Target.rows)
    <3>1. /\ answer = IF AnsweredBy(fvSite, refusals', table) THEN Target.rows[table] ELSE NoRows
          /\ refusals' \in {refusals, refusals \cup {table}}
      BY <1>2, <1>5, <2>2, QueryAsked
    <3>2. Target.rows[table] \in Nat /\ Target.rows[table] # NoRows
      BY <1>6, <2>2 DEF FvWarehouse, NoRows
    <3> QED
      BY <1>6, <2>2, <3>1, <3>2 DEF RowFound
  <2> QED
    BY <2>1, <2>2
<1>8. /\ DOMAIN rowsFound' = DOMAIN rowsFound \cup {table} /\ rowsFound'[table] = answer
      /\ \A k \in DOMAIN rowsFound : rowsFound'[k] = rowsFound[k]
  BY <1>1, <1>2
<1>9. \A k : k # table => (k \in refusals <=> k \in refusals')
  BY <1>7
<1>10. ValType' /\ LoadedTrue' /\ ReportMade'
  BY <1>1, <1>3 DEF ValType, LoadedTrue, ReportMade
<1>11. NotAsked'
  BY <1>1, <1>3, <1>7, <1>8 DEF NotAsked
<1>12. FoundTrue'
  <2>1. ASSUME NEW k \in DOMAIN rowsFound
        PROVE  k \in DOMAIN wanted.rows /\ RowFound(fvSite, Seen, refusals', rowsFound[k], k)
    BY <1>1, <1>3, <1>9, SeenStays DEF FoundTrue
  <2> QED
    BY <1>1, <1>7, <1>8, <2>1 DEF FoundTrue
<1>13. ChecksHeld'
  <2>1. <<"object_counts">> \in refusals <=> <<"object_counts">> \in refusals'
    BY <1>1, <1>4, <1>9
  <2>2. \A c \in checks["object_counts"] : CountCheck(fvSite, Seen, refusals', c)
    BY <1>3, <2>1, SeenStays DEF ChecksHeld
  <2> QED
    BY <1>1, <1>3, <2>2 DEF ChecksHeld
<1> QED
  BY <1>10, <1>11, <1>12, <1>13 DEF ValInv

LEMMA RowsStep == ASSUME ValidationAssumption, ValInv, CompareRows PROVE ValInv'
<1>1. /\ fvStage = "row_counts" /\ (fvSite.validateRows => DOMAIN rowsFound = DOMAIN wanted.rows)
      /\ rowsFound' = rowsFound /\ refusals' = refusals
      /\ fvSite.validateRows /\ fvSite.tolerance = NoNumber => "row_counts" \in fvErrors'
  BY DEF CompareRows
<1>2. /\ ValType /\ LoadedTrue /\ FoundTrue /\ ChecksHeld /\ fvSite.artefact = "whole"
      /\ refusals \subseteq {<<"object_counts">>} \cup DOMAIN rowsFound
  BY <1>1 DEF ValInv, LoadedTrue, NotAsked
<1>3. /\ wanted = Expected(fvSite.pools) /\ IsFiniteSet(DOMAIN wanted.rows) /\ \A k \in DOMAIN wanted.rows : wanted.rows[k] \in Nat
      /\ \A k \in DOMAIN wanted.rows : k # <<"collation">>
  BY <1>1, <1>2, KeysArePairs
<1>4. <<"collation">> \notin refusals
  <2>1. DOMAIN rowsFound \subseteq DOMAIN wanted.rows
    BY <1>2 DEF FoundTrue
  <2>2. <<"collation">> # <<"object_counts">>
    OBVIOUS
  <2> QED
    BY <1>2, <1>3, <2>1, <2>2
<1> DEFINE compared == fvSite.validateRows /\ fvSite.tolerance # NoNumber
           found == IF compared THEN DiffRowCounts(wanted.rows, rowsFound, fvSite.tolerance) ELSE {}
<1>5. /\ IsFiniteSet(found)
      /\ compared => {c.key : c \in found} = DOMAIN wanted.rows
      /\ \A c \in found : c.key \in DOMAIN wanted.rows /\ RowCheck(fvSite, Seen, refusals, c)
  <2>1. CASE compared
    <3>1. fvSite.tolerance \in Nat
      BY <1>2, <2>1, SiteKnown
    <3>2. \A k \in DOMAIN wanted.rows : RowFound(fvSite, Seen, refusals, rowsFound[k], k)
      BY <1>1, <1>2, <2>1 DEF FoundTrue
    <3>3. found = DiffRowCounts(wanted.rows, rowsFound, fvSite.tolerance)
      BY <2>1
    <3> DEFINE want == wanted.rows
    <3>4. IsFiniteSet(DOMAIN want) /\ (\A k \in DOMAIN want : want[k] \in Nat)
          /\ \A k \in DOMAIN want : RowFound(fvSite, Seen, refusals, rowsFound[k], k)
      BY <1>3, <3>2
    <3> HIDE DEF want
    <3>5. /\ IsFiniteSet(DiffRowCounts(want, rowsFound, fvSite.tolerance))
          /\ {c.key : c \in DiffRowCounts(want, rowsFound, fvSite.tolerance)} = DOMAIN want
          /\ \A c \in DiffRowCounts(want, rowsFound, fvSite.tolerance) : RowCheck(fvSite, Seen, refusals, c)
      BY <3>1, <3>4, RowsCompared
    <3>6. found = DiffRowCounts(want, rowsFound, fvSite.tolerance)
      BY <3>3 DEF want
    <3> HIDE DEF found
    <3>7. IsFiniteSet(found) /\ {c.key : c \in found} = DOMAIN want /\ \A c \in found : RowCheck(fvSite, Seen, refusals, c)
      BY <3>5, <3>6
    <3> QED
      BY <3>7 DEF want
  <2>2. CASE ~compared
    <3>1. found = {}
      BY <2>2
    <3> HIDE DEF found
    <3> QED
      BY <2>2, <3>1, FS_EmptySet
  <2> QED
    BY <2>1, <2>2
<1>6. ChecksMade("row_counts", found, "collation")
  BY DEF CompareRows
<1> HIDE DEF found
<1>7. /\ checks'["row_counts"] = found /\ checks'["object_counts"] = checks["object_counts"]
      /\ DOMAIN checks' = CheckParts /\ \A p \in CheckParts : IsFiniteSet(checks'[p])
      /\ fvStage' = "collation" /\ fvSite' = fvSite /\ loaded' = loaded /\ wanted' = wanted /\ Seen' = Seen
  BY <1>2, <1>5, <1>6, PartMade DEF CheckParts
<1>8. ValType'
  BY <1>2, <1>7 DEF ValType
<1>9. LoadedTrue' /\ NotAsked' /\ FoundTrue'
  BY <1>1, <1>2, <1>3, <1>4, <1>7 DEF LoadedTrue, NotAsked, FoundTrue
<1>10. ChecksHeld'
  BY <1>1, <1>2, <1>5, <1>7 DEF ChecksHeld
<1>11. ReportMade'
  <2>1. "row_counts" \notin fvErrors' /\ fvSite.validateRows => compared
    BY <1>1
  <2> HIDE DEF compared
  <2> QED
    BY <1>5, <1>7, <2>1 DEF ReportMade
<1> QED
  BY <1>8, <1>9, <1>10, <1>11 DEF ValInv

LEMMA CollationsStep == ASSUME ValidationAssumption, ValInv, CompareCollations PROVE ValInv'
<1>1. fvStage = "collation" /\ rowsFound' = rowsFound /\ fvErrors' = fvErrors
  BY DEF CompareCollations
<1>2. PICK answer : /\ Query(<<"collation">>, Target.collations, <<>>, answer)
                    /\ ChecksMade("collation", DiffCollation(wanted.collations, answer), "tsql_surface")
  BY DEF CompareCollations
<1>3. /\ ValType /\ LoadedTrue /\ FoundTrue /\ ChecksHeld /\ ReportMade /\ fvSite.artefact = "whole"
      /\ <<"collation">> \notin refusals
  BY <1>1 DEF ValInv, LoadedTrue, NotAsked
<1>4. /\ wanted = Expected(fvSite.pools) /\ \A k \in DOMAIN wanted.rows : k # <<"collation">>
  BY <1>1, <1>3, KeysArePairs
<1> DEFINE found == DiffCollation(wanted.collations, answer)
<1>5. IsFiniteSet(found)
  <2>1. wanted.collations = ExpectedCollations(fvSite.pools)
    BY <1>4 DEF Expected
  <2>2. IsFiniteSet(DOMAIN ExpectedCollations(fvSite.pools))
    BY <1>3, SiteKnown, OthersExpected
  <2> QED
    BY <2>1, <2>2, FS_EmptySet, OthersCompared
<1>6. refusals' \in {refusals, refusals \cup {<<"collation">>}}
  BY <1>2, <1>3, QueryAsked
<1>7. ChecksMade("collation", found, "tsql_surface")
  BY <1>2
<1> HIDE DEF found
<1>8. /\ checks'["row_counts"] = checks["row_counts"] /\ checks'["object_counts"] = checks["object_counts"]
      /\ DOMAIN checks' = CheckParts /\ \A p \in CheckParts : IsFiniteSet(checks'[p])
      /\ fvStage' = "tsql_surface" /\ fvSite' = fvSite /\ loaded' = loaded /\ wanted' = wanted /\ Seen' = Seen
  BY <1>3, <1>5, <1>7, PartMade DEF CheckParts
<1>9. /\ <<"object_counts">> \in refusals <=> <<"object_counts">> \in refusals'
      /\ \A k \in DOMAIN wanted.rows : k \in refusals <=> k \in refusals'
  <2>1. <<"object_counts">> # <<"collation">>
    OBVIOUS
  <2> QED
    BY <1>4, <1>6, <2>1
<1>10. ValType'
  BY <1>3, <1>8 DEF ValType
<1>11. LoadedTrue' /\ NotAsked' /\ ReportMade'
  BY <1>1, <1>3, <1>8 DEF LoadedTrue, NotAsked, ReportMade
<1>12. FoundTrue'
  <2>1. ASSUME NEW k \in DOMAIN rowsFound
        PROVE  k \in DOMAIN wanted.rows /\ RowFound(fvSite, Seen, refusals', rowsFound[k], k)
    BY <1>3, <1>9, SeenStays DEF FoundTrue
  <2> QED
    BY <1>1, <1>8, <2>1 DEF FoundTrue
<1>13. ChecksHeld'
  <2>1. \A c \in checks["object_counts"] : CountCheck(fvSite, Seen, refusals', c)
    BY <1>3, <1>9, SeenStays DEF ChecksHeld
  <2>2. \A c \in checks["row_counts"] : c.key \in DOMAIN wanted.rows /\ RowCheck(fvSite, Seen, refusals', c)
    BY <1>3, <1>9, SeenStays DEF ChecksHeld
  <2> QED
    BY <1>8, <2>1, <2>2 DEF ChecksHeld
<1> QED
  BY <1>10, <1>11, <1>12, <1>13 DEF ValInv

LEMMA SurfaceStep == ASSUME ValidationAssumption, ValInv, CompareSurface PROVE ValInv'
<1> DEFINE found == SurfaceResolutions(wanted.findings)
<1>1. /\ fvStage = "tsql_surface" /\ rowsFound' = rowsFound /\ refusals' = refusals /\ fvErrors' = fvErrors
      /\ ChecksMade("tsql_surface", found, "summary")
  BY DEF CompareSurface
<1>2. ValType /\ LoadedTrue /\ FoundTrue /\ ChecksHeld /\ ReportMade /\ fvSite.artefact = "whole"
  BY <1>1 DEF ValInv, LoadedTrue
<1>3. IsFiniteSet(found)
  <2>1. wanted.findings = Findings(fvSite.pools)
    BY <1>1, <1>2 DEF LoadedTrue, Expected
  <2>2. IsFiniteSet(Findings(fvSite.pools))
    BY <1>2, SiteKnown, OthersExpected
  <2>3. DOMAIN <<>> = {}
    OBVIOUS
  <2> QED
    BY <2>1, <2>2, <2>3, FS_EmptySet, OthersCompared
<1> HIDE DEF found
<1>4. /\ checks'["row_counts"] = checks["row_counts"] /\ checks'["object_counts"] = checks["object_counts"]
      /\ DOMAIN checks' = CheckParts /\ \A p \in CheckParts : IsFiniteSet(checks'[p])
      /\ fvStage' = "summary" /\ fvSite' = fvSite /\ loaded' = loaded /\ wanted' = wanted /\ Seen' = Seen
  BY <1>1, <1>2, <1>3, PartMade DEF CheckParts
<1>5. ValType'
  BY <1>2, <1>4 DEF ValType
<1>6. LoadedTrue' /\ NotAsked' /\ ReportMade'
  BY <1>1, <1>2, <1>4 DEF LoadedTrue, NotAsked, ReportMade
<1>7. FoundTrue' /\ ChecksHeld'
  BY <1>1, <1>2, <1>4 DEF FoundTrue, ChecksHeld
<1> QED
  BY <1>5, <1>6, <1>7 DEF ValInv

LEMMA SummaryStep == ASSUME ValidationAssumption, ValInv, SummarizeChecks PROVE ValInv'
<1>1. /\ fvStage = "summary" /\ fvStage' = "done" /\ tally' = Summarize(AllChecks)
      /\ fvSite' = fvSite /\ loaded' = loaded /\ wanted' = wanted /\ rowsFound' = rowsFound /\ checks' = checks
      /\ refusals' = refusals /\ fvErrors' = fvErrors /\ Seen' = Seen /\ AllChecks' = AllChecks
  BY DEF SummarizeChecks, Seen, AllChecks
<1>2. ValType /\ LoadedTrue /\ FoundTrue /\ ChecksHeld /\ ReportMade
  BY DEF ValInv
<1>3. ValType'
  BY <1>1, <1>2 DEF ValType
<1>4. LoadedTrue' /\ NotAsked' /\ ReportMade'
  BY <1>1, <1>2 DEF LoadedTrue, NotAsked, ReportMade
<1>5. FoundTrue' /\ ChecksHeld'
  BY <1>1, <1>2 DEF FoundTrue, ChecksHeld
<1> QED
  BY <1>3, <1>4, <1>5 DEF ValInv

\* The warehouse changes: what was seen of it stays seen.
LEMMA TargetStep == ASSUME ValidationAssumption, ValInv, TargetLoads PROVE ValInv'
<1>1. /\ loaded < Len(fvSite.targets) /\ loaded' = loaded + 1
      /\ fvStage' = fvStage /\ fvSite' = fvSite /\ wanted' = wanted /\ rowsFound' = rowsFound /\ checks' = checks
      /\ tally' = tally /\ refusals' = refusals /\ fvErrors' = fvErrors /\ AllChecks' = AllChecks
  BY DEF TargetLoads, AllChecks
<1>2. ValType /\ LoadedTrue /\ NotAsked /\ FoundTrue /\ ChecksHeld /\ ReportMade
  BY DEF ValInv
<1>3. loaded \in 1..Len(fvSite.targets) /\ Len(fvSite.targets) \in Nat
  BY <1>2, SiteKnown DEF ValType
<1>4. loaded' \in 1..Len(fvSite.targets) /\ 1..loaded \subseteq 1..loaded'
  BY <1>1, <1>3
<1>5. Seen \subseteq Seen'
  BY <1>1, <1>4 DEF Seen
<1>6. ValType'
  BY <1>1, <1>2, <1>4 DEF ValType
<1>7. LoadedTrue' /\ NotAsked' /\ ReportMade'
  BY <1>1, <1>2 DEF LoadedTrue, NotAsked, ReportMade
<1>8. FoundTrue'
  <2>1. ASSUME NEW k \in DOMAIN rowsFound
        PROVE  k \in DOMAIN wanted.rows /\ RowFound(fvSite, Seen', refusals, rowsFound[k], k)
    BY <1>2, <1>5, SeenStays DEF FoundTrue
  <2> QED
    BY <1>1, <2>1 DEF FoundTrue
<1>9. ChecksHeld'
  <2>1. \A c \in checks["object_counts"] : CountCheck(fvSite, Seen', refusals, c)
    BY <1>2, <1>5, SeenStays DEF ChecksHeld
  <2>2. \A c \in checks["row_counts"] : c.key \in DOMAIN wanted.rows /\ RowCheck(fvSite, Seen', refusals, c)
    BY <1>2, <1>5, SeenStays DEF ChecksHeld
  <2> QED
    BY <1>1, <2>1, <2>2 DEF ChecksHeld
<1> QED
  BY <1>6, <1>7, <1>8, <1>9 DEF ValInv

LEMMA ValStep == ASSUME ValidationAssumption, ValInv, [ValidationNext]_fvVars PROVE ValInv'
<1>1. ASSUME UNCHANGED fvVars PROVE ValInv'
  BY <1>1 DEF ValInv, fvVars, ValType, LoadedTrue, NotAsked, FoundTrue, ChecksHeld, ReportMade, Seen, AllChecks
<1> QED
  BY <1>1, LoadStep, ObjectsStep, CountStep, RowsStep, CollationsStep, SurfaceStep, SummaryStep, TargetStep DEF ValidationNext

LEMMA ValTells == ASSUME ValidationAssumption, ValInv PROVE ValidationTrue
<1> SUFFICES ASSUME fvStage = "done", fvSite.artefact = "whole"
             PROVE  /\ CountsSound /\ RowsSound
                    /\ (fvSite.validateRows /\ "row_counts" \notin fvErrors) =>
                         {c.key : c \in checks.row_counts} =
                           {<<t.schema, t.name>> : t \in {u \in UNION {p.tables : p \in Range(fvSite.pools)} : u.rows # NoRows}}
                    /\ MapThenSumSet(LAMBDA s : tally[s], DOMAIN tally) = Cardinality(AllChecks)
  BY DEF ValidationTrue
<1>1. ValType /\ LoadedTrue /\ ChecksHeld /\ ReportMade
  BY DEF ValInv
<1>2. CountsSound
  BY <1>1 DEF ChecksHeld, CountsSound, CountCheck, AnsweredBy, QueryAnswered
<1>3. RowsSound
  BY <1>1 DEF ChecksHeld, RowsSound, RowCheck, HeldRows, Drift, AnsweredBy, QueryAnswered
<1>4. ASSUME fvSite.validateRows, "row_counts" \notin fvErrors
      PROVE  {c.key : c \in checks.row_counts} =
               {<<t.schema, t.name>> : t \in {u \in UNION {p.tables : p \in Range(fvSite.pools)} : u.rows # NoRows}}
  <2> DEFINE K == {<<t.schema, t.name>> : t \in {u \in UNION {p.tables : p \in Range(fvSite.pools)} : u.rows # NoRows}}
  <2>1. {c.key : c \in checks["row_counts"]} = DOMAIN wanted.rows
    BY <1>1, <1>4 DEF ReportMade
  <2>2. wanted.rows = ExpectedRows(fvSite.pools)
    BY <1>1 DEF LoadedTrue, Expected
  <2>3. DOMAIN ExpectedRows(fvSite.pools) = K
    BY <1>1, SiteKnown, RowsExpected
  <2> HIDE DEF K
  <2>4. {c.key : c \in checks.row_counts} = K
    BY <2>1, <2>2, <2>3
  <2> QED
    BY <2>4 DEF K
<1>5. MapThenSumSet(LAMBDA s : tally[s], DOMAIN tally) = Cardinality(AllChecks)
  <2>1. \A part \in CheckParts : IsFiniteSet(checks[part])
    BY <1>1 DEF ValType
  <2>2. IsFiniteSet(AllChecks)
    BY <2>1, AllFinite
  <2>3. tally = Summarize(AllChecks)
    BY <1>1 DEF ReportMade
  <2>4. MapThenSumSet(LAMBDA s : Summarize(AllChecks)[s], DOMAIN Summarize(AllChecks)) = Cardinality(AllChecks)
    BY <2>2, TallyAddsUp
  <2> QED
    BY <2>3, <2>4
<1> QED
  BY <1>2, <1>3, <1>4, <1>5

\* Whatever the artefact, the warehouses and the queries refused, however the
\* migration goes on meanwhile: the report of fabric_validation, once made, calls
\* nothing a match that nobody read, leaves no table out, and counts each check
\* once (analyzer.py and diff.py of fabric_validation).
THEOREM ValidationIsTrue == ValidationSpec => []ValidationTrue
<1>1. ValidationInit => ValInv
  BY ValidationAssumption, ValInitially
<1>2. ValInv /\ [ValidationNext]_fvVars => ValInv'
  BY ValidationAssumption, ValStep
<1>3. ValInv => ValidationTrue
  BY ValidationAssumption, ValTells
<1> QED
  BY <1>1, <1>2, <1>3, PTL DEF ValidationSpec

-----------------------------------------------------------------------------
(***************************************************************************)
(* FabricMapping: what every rule recommends is well formed, the report as *)
(* it is built, and what it says of the recommendations, of the capacity and *)
(* of the hours.                                                           *)
(***************************************************************************)

\* What the score, the runbook and the effort rely on in a recommendation.
Efforts == {"low", "medium", "high"}
SoundRec(r) == r.severity \in Severities /\ r.effort \in Efforts /\ r.area # "none"
Sound(S) == IsFiniteSet(S) /\ \A r \in S : SoundRec(r)

\* Recommendations are well formed, alone and in sets.
LEMMA RecSound ==
    ASSUME NEW rule, NEW target, NEW area, area # "none", NEW severity \in Severities, NEW effort \in Efforts, NEW impact
    PROVE  SoundRec(Rec(rule, target, area, severity, effort, impact))
BY DEF SoundRec, Rec

LEMMA SoundUnion == ASSUME NEW S, Sound(S), NEW T, Sound(T) PROVE Sound(S \cup T)
BY FS_Union DEF Sound

LEMMA SoundWhen == ASSUME NEW c, NEW r, c => SoundRec(r) PROVE Sound(When(c, r))
BY FS_Singleton, FS_EmptySet DEF Sound, When

LEMMA SoundImage == ASSUME NEW S, IsFiniteSet(S), NEW f, \A x \in S : SoundRec(f[x]) PROVE Sound({f[x] : x \in S})
BY FiniteImage DEF Sound

LEMMA SoundEach == ASSUME NEW S, IsFiniteSet(S), \A T \in S : Sound(T) PROVE Sound(UNION S)
BY FS_UNION DEF Sound

\* A table of a few rows is finite.
LEMMA FewRows == \A u, v, w, x, y : IsFiniteSet({u, v, w, x}) /\ IsFiniteSet({u, v, w, x, y})
<1>1. ASSUME NEW u, NEW v, NEW w, NEW x, NEW y
      PROVE  IsFiniteSet({u, v, w, x}) /\ IsFiniteSet({u, v, w, x, y})
  <2>1. IsFiniteSet({u})
    BY FS_Singleton
  <2>2. IsFiniteSet({u} \cup {v})
    BY <2>1, FS_AddElement
  <2>3. IsFiniteSet(({u} \cup {v}) \cup {w})
    BY <2>2, FS_AddElement
  <2>4. IsFiniteSet((({u} \cup {v}) \cup {w}) \cup {x})
    BY <2>3, FS_AddElement
  <2>5. IsFiniteSet(((({u} \cup {v}) \cup {w}) \cup {x}) \cup {y})
    BY <2>4, FS_AddElement
  <2>6. {u, v, w, x} = (({u} \cup {v}) \cup {w}) \cup {x} /\ {u, v, w, x, y} = ((({u} \cup {v}) \cup {w}) \cup {x}) \cup {y}
    OBVIOUS
  <2> QED
    BY <2>4, <2>5, <2>6
<1> QED
  BY <1>1

\* A row of a table of rules for each list that is not empty.
LEMMA SoundPresent ==
    ASSUME NEW artefact, NEW table, IsFiniteSet(table),
           \A t \in table : t.severity \in Severities /\ t.effort \in Efforts /\ t.area # "none"
    PROVE  Sound(Present(artefact, table))
<1> DEFINE S == {r \in table : artefact[r.list] > 0}
           f == [r \in S |-> Rec(r.rule, <<>>, r.area, r.severity, r.effort, "unknown")]
<1>1. IsFiniteSet(S)
  BY FS_Subset
<1>2. \A r \in S : SoundRec(f[r])
  BY RecSound
<1>3. Sound({f[r] : r \in S})
  <2> HIDE DEF S, f
  <2> QED
    BY <1>1, <1>2, SoundImage
<1>4. Present(artefact, table) = {f[r] : r \in S}
  BY DEF Present
<1> QED
  BY <1>3, <1>4

\* Rows of a set, each with its recommendation.
LEMMA SoundRows ==
    ASSUME NEW S, IsFiniteSet(S), NEW g, NEW R, R = {g[x] : x \in S}, \A x \in S : SoundRec(g[x])
    PROVE  Sound(R)
BY SoundImage

\* The rules for a dedicated pool, its tables and its statistics.
LEMMA PoolRecsSound == ASSUME NEW pool PROVE Sound(PoolRecs(pool))
<1>1. /\ SoundRec(Rec("dp.paused", <<pool.name>>, "dedicated_pools.inventory", "warning", "low", "high"))
      /\ SoundRec(Rec("dp.collation", <<pool.name>>, "dedicated_pools.inventory", "warning", "medium", "medium"))
      /\ SoundRec(Rec("dp.wlm", <<pool.name>>, "dedicated_pools.workload_management", "info", "medium", "unknown"))
      /\ SoundRec(Rec("dp.col_collation", <<pool.name>>, "dedicated_pools.column_collations", "warning", "medium", "unknown"))
      /\ SoundRec(Rec("dp.mvs", <<pool.name>>, "dedicated_pools.materialized_views", "warning", "high", "unknown"))
  BY RecSound DEF Severities, Efforts
<1> DEFINE a == When(pool.paused, Rec("dp.paused", <<pool.name>>, "dedicated_pools.inventory", "warning", "low", "high"))
           b == When(pool.collation = "other",
                     Rec("dp.collation", <<pool.name>>, "dedicated_pools.inventory", "warning", "medium", "medium"))
           c == When(pool.workload_groups > 0,
                     Rec("dp.wlm", <<pool.name>>, "dedicated_pools.workload_management", "info", "medium", "unknown"))
           d == When(pool.column_collations > 0,
                     Rec("dp.col_collation", <<pool.name>>, "dedicated_pools.column_collations", "warning", "medium", "unknown"))
           e == When(pool.materialized_views > 0,
                     Rec("dp.mvs", <<pool.name>>, "dedicated_pools.materialized_views", "warning", "high", "unknown"))
<1>2. Sound(a) /\ Sound(b) /\ Sound(c) /\ Sound(d) /\ Sound(e)
  BY <1>1, SoundWhen
<1>3. PoolRecs(pool) = a \cup b \cup c \cup d \cup e
  BY DEF PoolRecs
<1> HIDE DEF a, b, c, d, e
<1> QED
  BY <1>2, <1>3, SoundUnion

LEMMA TableRecsSound == ASSUME NEW pool, NEW table PROVE Sound(TableRecs(pool, table))
<1> DEFINE target == <<pool.name, table.schema, table.name>>
           share(default) == ImpactFromShare(pool, Weight(pool, table), default)
           untouched == pool.consumed # <<>> /\ WorkloadOf(pool, table.schema, table.name) = NoEntry
           area == "dedicated_pools.tables"
           large == Rec("dp.replicate_large", target, area, "warning", "medium", share("medium"))
           rr == Rec("dp.rr_large", target, area, "info", "medium", share("low"))
           heap == Rec("dp.heap_large", target, area, IF Hot(pool, table) THEN "warning" ELSE "info", "low",
                       IF Hot(pool, table) THEN "high" ELSE IF untouched THEN "low" ELSE "medium")
<1>1. SoundRec(large) /\ SoundRec(rr)
  BY RecSound DEF Severities, Efforts
<1>2. SoundRec(heap)
  BY RecSound DEF Severities, Efforts
<1> DEFINE a == When(table.distribution = "REPLICATE" /\ (table.rows > 50 \/ table.gb > 2), large)
           b == When(table.distribution = "ROUND_ROBIN" /\ table.rows > 100, rr)
           c == When(table.index = "HEAP" /\ table.rows > 1, heap)
<1>3. TableRecs(pool, table) = a \cup b \cup c
  BY DEF TableRecs
<1> HIDE DEF large, rr, heap
<1>4. Sound(a) /\ Sound(b) /\ Sound(c)
  BY <1>1, <1>2, SoundWhen
<1> HIDE DEF a, b, c
<1> QED
  BY <1>3, <1>4, SoundUnion

LEMMA StatisticsRecsSound == ASSUME NEW pool PROVE Sound(StatisticsRecs(pool))
<1> DEFINE churned == {s \in pool.statistics : s.rows > 0 /\ 10 * s.modified > s.rows}
           aged == {s \in pool.statistics : s.days > 14}
           rec == Rec("dp.stats_stale", <<pool.name>>, "dedicated_pools.statistics", "info", "low",
                      IF churned = {} THEN "low" ELSE "medium")
<1>1. SoundRec(rec)
  BY RecSound DEF Severities, Efforts
<1>2. StatisticsRecs(pool) = When(churned \cup aged # {}, rec)
  BY DEF StatisticsRecs
<1> HIDE DEF rec
<1> QED
  BY <1>1, <1>2, SoundWhen

LEMMA DistributionRecsSound == ASSUME NEW pool, PoolArtefact(pool) PROVE Sound(DistributionRecs(pool))
<1> DEFINE hot == {i \in DOMAIN pool.candidates : Hot(pool, pool.candidates[i])}
           first == {i \in hot : Cardinality({j \in hot : j < i}) < 5}
           area == "dedicated_pools.distribution_advisor"
           hint == Rec("dp.dist_advice", <<pool.name>>, area, "info", "medium", IF hot # {} THEN "medium" ELSE "low")
           f == [i \in first |-> [Rec("dp.dist_advice_hot", <<pool.name, pool.candidates[i].schema, pool.candidates[i].name>>,
                                      area, "warning", "medium", "high") EXCEPT !.about = <<pool.candidates[i].column>>]]
           rows == {[Rec("dp.dist_advice_hot", <<pool.name, pool.candidates[i].schema, pool.candidates[i].name>>,
                         area, "warning", "medium", "high") EXCEPT !.about = <<pool.candidates[i].column>>] : i \in first}
<1>1. SoundRec(hint)
  BY RecSound DEF Severities, Efforts
<1>2. \A i \in first : SoundRec(f[i])
  BY DEF SoundRec, Rec, Severities, Efforts
<1>3. IsFiniteSet(first)
  BY FS_Subset DEF PoolArtefact
<1>4. rows = {f[i] : i \in first}
  OBVIOUS
<1>5. DistributionRecs(pool) = When(pool.candidates # <<>>, hint) \cup rows
  BY DEF DistributionRecs
<1> HIDE DEF hint, f, rows, first
<1>6. Sound(rows)
  BY <1>2, <1>3, <1>4, SoundImage
<1> QED
  BY <1>1, <1>5, <1>6, SoundWhen, SoundUnion

\* Every construct has one of the three severities.
LEMMA SeveritiesOfRules == \A r \in DOMAIN TsqlSeverity : TsqlSeverity[r] \in Severities
<1>1. ASSUME NEW r \in DOMAIN TsqlSeverity
      PROVE  TsqlSeverity[r] \in DOMAIN RulesOfSeverity
  <2>1. \E s \in DOMAIN RulesOfSeverity : r \in RulesOfSeverity[s]
    BY DEF TsqlSeverity
  <2> QED
    BY <2>1 DEF TsqlSeverity
<1>2. DOMAIN RulesOfSeverity = Severities
  BY DEF RulesOfSeverity, Severities
<1> QED
  BY <1>1, <1>2

\* The rules for the constructs of a pool's code, whatever it is heated to.
LEMMA TsqlRecsSound == ASSUME NEW pool, PoolArtefact(pool) PROVE Sound(TsqlRecs(pool))
<1> DEFINE hits(rule) == {o \in pool.code : rule \in o.findings}
           area == "dedicated_pools.tsql_surface"
           found == {o.findings : o \in pool.code}
           rules == UNION found
           all == [r \in rules |-> Rec("dp.tsql", <<r, pool.name>>, area, TsqlSeverity[r], "medium",
                     ImpactFromShare(pool, ElapsedIn(pool, hits(r)), "unknown"))]
           warm(r) == {o \in hits(r) : Hot(pool, o)}
           one(r) == [o \in warm(r) |-> Rec("dp.tsql", <<r, pool.name, "hot", o.id>>, area, HotSeverity(r), "medium", "high")]
           hot == [r \in rules |-> {one(r)[o] : o \in warm(r)}]
<1>1. IsFiniteSet(rules)
  <2> DEFINE fs == [o \in pool.code |-> o.findings]
  <2>1. found = {fs[o] : o \in pool.code}
    OBVIOUS
  <2>2. IsFiniteSet(found)
    <3>1. IsFiniteSet(pool.code)
      BY DEF PoolArtefact
    <3> HIDE DEF fs, found
    <3> QED
      BY <2>1, <3>1, FiniteImage
  <2>3. \A F \in found : IsFiniteSet(F)
    BY DEF PoolArtefact
  <2> HIDE DEF found
  <2> QED
    BY <2>2, <2>3, FS_UNION
<1>2. \A r \in rules : TsqlSeverity[r] \in Severities /\ HotSeverity(r) \in Severities
  BY SeveritiesOfRules DEF PoolArtefact, HotSeverity, Severities
<1>3. Sound({all[r] : r \in rules})
  <2>1. \A r \in rules : SoundRec(all[r])
    BY <1>2, RecSound DEF Efforts
  <2> HIDE DEF all, rules
  <2> QED
    BY <1>1, <2>1, SoundImage
<1>4. ASSUME NEW r \in rules
      PROVE  Sound(hot[r])
  <2>1. IsFiniteSet(warm(r))
    BY FS_Subset DEF PoolArtefact
  <2>2. \A o \in warm(r) : SoundRec(one(r)[o])
    BY <1>2, RecSound DEF Efforts
  <2>3. Sound({one(r)[o] : o \in warm(r)})
    <3> HIDE DEF one, warm
    <3> QED
      BY <2>1, <2>2, SoundImage
  <2> QED
    BY <2>3
<1>5. Sound(UNION {hot[r] : r \in rules})
  <2> HIDE DEF hot, rules
  <2>1. IsFiniteSet({hot[r] : r \in rules})
    BY <1>1, FiniteImage
  <2> QED
    BY <1>4, <2>1, SoundEach
<1>6. TsqlRecs(pool) = {all[r] : r \in rules} \cup UNION {hot[r] : r \in rules}
  <2> DEFINE rolled == {Rec("dp.tsql", <<r, pool.name>>, area, TsqlSeverity[r], "medium",
                            ImpactFromShare(pool, ElapsedIn(pool, hits(r)), "unknown")) : r \in rules}
             single(r) == {Rec("dp.tsql", <<r, pool.name, "hot", o.id>>, area, HotSeverity(r), "medium", "high") :
                             o \in {o \in hits(r) : Hot(pool, o)}}
  <2>1. TsqlRecs(pool) = rolled \cup UNION {single(r) : r \in rules}
    BY Zenon DEF TsqlRecs
  <2>2. rolled = {all[r] : r \in rules}
    <3> HIDE DEF rules
    <3> QED
      OBVIOUS
  <2>3. \A r \in rules : hot[r] = single(r)
    <3> HIDE DEF rules
    <3> QED
      OBVIOUS
  <2>4. {single(r) : r \in rules} = {hot[r] : r \in rules}
    <3> HIDE DEF single, hot, rules
    <3> QED
      BY <2>3
  <2> QED
    BY <2>1, <2>2, <2>4
<1> HIDE DEF all, hot, rules
<1> QED
  BY <1>3, <1>5, <1>6, SoundUnion

\* The rules of each of the other artefacts.
LEMMA DedicatedSound == ASSUME NEW a, ArtefactOf("dedicated_pools", a) PROVE Sound(RulesForDedicatedPools(a))
<1> DEFINE of(p) == PoolRecs(p) \cup (UNION {TableRecs(p, t) : t \in p.tables}) \cup TsqlRecs(p)
                    \cup StatisticsRecs(p) \cup DistributionRecs(p)
           f == [p \in a.pools |-> of(p)]
<1>1. IsFiniteSet(a.pools) /\ \A p \in a.pools : PoolArtefact(p)
  BY DEF ArtefactOf
<1>2. ASSUME NEW p \in a.pools
      PROVE  Sound(f[p])
  <2> DEFINE g == [t \in p.tables |-> TableRecs(p, t)]
  <2>1. IsFiniteSet(p.tables)
    BY <1>1 DEF PoolArtefact
  <2>2. {TableRecs(p, t) : t \in p.tables} = {g[t] : t \in p.tables}
    OBVIOUS
  <2>3. IsFiniteSet({g[t] : t \in p.tables})
    <3> HIDE DEF g
    <3> QED
      BY <2>1, FiniteImage
  <2>4. \A T \in {TableRecs(p, t) : t \in p.tables} : Sound(T)
    BY TableRecsSound
  <2>5. Sound(UNION {TableRecs(p, t) : t \in p.tables})
    BY <2>2, <2>3, <2>4, SoundEach
  <2>6. Sound(PoolRecs(p)) /\ Sound(TsqlRecs(p)) /\ Sound(StatisticsRecs(p)) /\ Sound(DistributionRecs(p))
    BY <1>1, PoolRecsSound, TsqlRecsSound, StatisticsRecsSound, DistributionRecsSound
  <2> DEFINE b == UNION {TableRecs(p, t) : t \in p.tables}
             ab == PoolRecs(p) \cup b
             abc == ab \cup TsqlRecs(p)
             abcd == abc \cup StatisticsRecs(p)
  <2>7. of(p) = abcd \cup DistributionRecs(p)
    OBVIOUS
  <2>8. Sound(b)
    BY <2>5
  <2>9. Sound(ab)
    <3> HIDE DEF b
    <3> QED
      BY <2>6, <2>8, SoundUnion
  <2>10. Sound(abc)
    <3> HIDE DEF ab
    <3> QED
      BY <2>6, <2>9, SoundUnion
  <2>11. Sound(abcd)
    <3> HIDE DEF abc
    <3> QED
      BY <2>6, <2>10, SoundUnion
  <2>12. Sound(abcd \cup DistributionRecs(p))
    <3> HIDE DEF abcd
    <3> QED
      BY <2>6, <2>11, SoundUnion
  <2> QED
    BY <2>7, <2>12
<1>3. Sound(UNION {f[p] : p \in a.pools})
  <2> HIDE DEF f
  <2>1. IsFiniteSet({f[p] : p \in a.pools})
    BY <1>1, FiniteImage
  <2> QED
    BY <1>2, <2>1, SoundEach
<1>4. RulesForDedicatedPools(a) = UNION {f[p] : p \in a.pools}
  BY DEF RulesForDedicatedPools
<1> QED
  BY <1>3, <1>4

LEMMA ServerlessSound == ASSUME NEW a PROVE Sound(RulesForServerless(a))
<1> DEFINE T == {Simple("external_tables", "sl.external_tables", "serverless_pools.external_tables", "info", "medium"),
                 Simple("cost_estimate", "sl.cost_baseline", "serverless_pools.cost", "info", "low"),
                 Simple("top_queries", "sl.top_query", "serverless_pools.queries", "info", "medium"),
                 Simple("storage_account_usage", "sl.storage_attribution", "serverless_pools.storage_attribution", "info", "low"),
                 Simple("external_table_columns", "sl.external_columns", "serverless_pools.external_table_columns", "info", "low")}
<1>1. IsFiniteSet(T)
  BY FewRows
<1>2. \A t \in T : t.severity \in Severities /\ t.effort \in Efforts /\ t.area # "none"
  BY DEF Simple, Severities, Efforts
<1>3. RulesForServerless(a) = Present(a, T)
  BY DEF RulesForServerless
<1> HIDE DEF T
<1> QED
  BY <1>1, <1>2, <1>3, SoundPresent

LEMMA SparkSound == ASSUME NEW a, ArtefactOf("spark_pools", a) PROVE Sound(RulesForSpark(a))
<1> DEFINE T == {Simple("pools", "sp.spark_inventory", "spark_pools", "info", "medium"),
                 Simple("notebooks", "sp.notebooks", "spark_pools.notebooks", "info", "high"),
                 Simple("spark_job_definitions", "sp.spark_job_defs", "spark_pools.spark_job_definitions", "warning", "medium"),
                 Simple("upgrades", "sp.runtime_upgrade", "spark_pools.runtime_compat", "warning", "medium")}
           f == [x \in a.lint |-> Rec("sp.lint", <<x.rule>>, "spark_pools.notebooks.lint", x.severity, "medium", "unknown")]
           L == {Rec("sp.lint", <<x.rule>>, "spark_pools.notebooks.lint", x.severity, "medium", "unknown") : x \in a.lint}
<1>1. IsFiniteSet(T)
  BY FewRows
<1>2. \A t \in T : t.severity \in Severities /\ t.effort \in Efforts /\ t.area # "none"
  BY DEF Simple, Severities, Efforts
<1>3. RulesForSpark(a) = Present(a, T) \cup L
  BY DEF RulesForSpark
<1>4. IsFiniteSet(a.lint) /\ \A x \in a.lint : x.severity \in Severities
  BY DEF ArtefactOf
<1>5. \A x \in a.lint : SoundRec(f[x])
  BY <1>4, RecSound DEF Efforts
<1>6. L = {f[x] : x \in a.lint}
  OBVIOUS
<1> HIDE DEF T, f, L
<1>7. Sound(Present(a, T)) /\ Sound(L)
  BY <1>1, <1>2, <1>4, <1>5, <1>6, SoundPresent, SoundImage
<1> QED
  BY <1>3, <1>7, SoundUnion

LEMMA RunHistorySound == ASSUME NEW history, IsFiniteSet(history) PROVE Sound(RulesForRunHistory(history))
<1> DEFINE widest(p) == Max(DOMAIN p.windows)
           w28(p) == p.windows[IF 28 \in DOMAIN p.windows THEN 28 ELSE widest(p)]
           idle == {p \in history : p.windows # <<>> /\ p.windows[widest(p)].runs = 0}
           rated == {p \in history \ idle : p.windows # <<>> /\ w28(p).succeeded + w28(p).failed >= 5}
           below(p, pct) == 100 * w28(p).succeeded < pct * (w28(p).succeeded + w28(p).failed)
           area == "pipelines.runs"
           fails == {p \in rated : below(p, 50)}
           weak == {p \in rated : below(p, 95) /\ ~below(p, 50)}
           f == [p \in fails |-> Rec("pl.runs.chronic_failure", <<p.name>>, area, "blocker", "high", "high")]
           g == [p \in weak |-> Rec("pl.runs.low_success", <<p.name>>, area, "warning", "medium", "medium")]
           long == \E p \in idle : widest(p) >= 28
           short == \E p \in idle : widest(p) < 28
           heavy == \E p \in history \ idle : p.windows # <<>> /\ w28(p).movedMb >= 1024
           A == When(long, Rec("pl.runs.idle", <<>>, area, "info", "low", "medium"))
           B == When(short, Rec("pl.runs.idle_7d", <<>>, area, "info", "low", "low"))
           C == {Rec("pl.runs.chronic_failure", <<p.name>>, area, "blocker", "high", "high") : p \in fails}
           D == {Rec("pl.runs.low_success", <<p.name>>, area, "warning", "medium", "medium") : p \in weak}
           E == When(heavy, Rec("pl.runs.heavy_data_movement", <<>>, area, "info", "medium", "medium"))
<1>1. RulesForRunHistory(history) = A \cup B \cup C \cup D \cup E
  BY Zenon DEF RulesForRunHistory
<1>2. IsFiniteSet(fails) /\ IsFiniteSet(weak)
  BY FS_Subset
<1>3. /\ SoundRec(Rec("pl.runs.idle", <<>>, area, "info", "low", "medium"))
      /\ SoundRec(Rec("pl.runs.idle_7d", <<>>, area, "info", "low", "low"))
      /\ SoundRec(Rec("pl.runs.heavy_data_movement", <<>>, area, "info", "medium", "medium"))
  BY RecSound DEF Severities, Efforts
<1> HIDE DEF fails, weak, long, short, heavy
<1>4. (\A p \in fails : SoundRec(f[p])) /\ (\A p \in weak : SoundRec(g[p]))
  <2>1. \A p \in fails : SoundRec(f[p])
    BY RecSound DEF Severities, Efforts
  <2>2. \A p \in weak : SoundRec(g[p])
    BY RecSound DEF Severities, Efforts
  <2> QED
    BY <2>1, <2>2
<1>5. C = {f[p] : p \in fails} /\ D = {g[p] : p \in weak}
  <2>1. C = {f[p] : p \in fails}
    OBVIOUS
  <2>2. D = {g[p] : p \in weak}
    OBVIOUS
  <2> QED
    BY <2>1, <2>2
<1>6. Sound(A) /\ Sound(B) /\ Sound(E)
  <2>1. Sound(A)
    BY <1>3, SoundWhen
  <2>2. Sound(B)
    BY <1>3, SoundWhen
  <2>3. Sound(E)
    BY <1>3, SoundWhen
  <2> QED
    BY <2>1, <2>2, <2>3
<1> HIDE DEF A, B, C, D, E, f, g
<1>7. Sound(C) /\ Sound(D)
  BY <1>2, <1>4, <1>5, SoundImage
<1>8. Sound(A \cup B \cup C \cup D \cup E)
  BY <1>6, <1>7, SoundUnion
<1> QED
  BY <1>1, <1>8

LEMMA PipelinesSound == ASSUME NEW a, ArtefactOf("pipelines", a) PROVE Sound(RulesForPipelines(a))
<1> DEFINE T == {Simple("pipelines", "pl.pipelines_inventory", "pipelines", "info", "high"),
                 Simple("self_hosted", "pl.self_hosted_ir", "pipelines.integration_runtimes", "warning", "medium"),
                 Simple("schedule_mappings", "pl.schedule_mappings", "pipelines.triggers", "info", "low")}
           lost == {x \in a.activities : x.support = "unsupported"}
           f == [x \in lost |-> Rec("pl.unsupported", <<x.type>>, "pipelines.activities", "warning", "high", "unknown")]
           g == [t \in a.unsupported_services |->
                   Rec("pl.unsupported_ls", <<t>>, "pipelines.linked_services", "warning", "high", "unknown")]
           h == [x \in a.expressions |-> Rec("pl.expr", <<x.rule>>, "pipelines.expressions", x.severity, "medium", "unknown")]
           P == Present(a, T)
           A == {Rec("pl.unsupported", <<x.type>>, "pipelines.activities", "warning", "high", "unknown") : x \in lost}
           B == When(\E x \in a.activities : x.support = "partial",
                     Rec("pl.partial_activities", <<>>, "pipelines.activities", "info", "medium", "unknown"))
           C == {Rec("pl.unsupported_ls", <<t>>, "pipelines.linked_services", "warning", "high", "unknown") :
                   t \in a.unsupported_services}
           D == RulesForRunHistory(a.run_history)
           E == {Rec("pl.expr", <<x.rule>>, "pipelines.expressions", x.severity, "medium", "unknown") : x \in a.expressions}
<1>1. RulesForPipelines(a) = P \cup A \cup B \cup C \cup D \cup E
  BY Zenon DEF RulesForPipelines
<1>2. /\ IsFiniteSet(a.activities) /\ IsFiniteSet(a.unsupported_services) /\ IsFiniteSet(a.expressions)
      /\ IsFiniteSet(a.run_history) /\ \A x \in a.expressions : x.severity \in Severities
  BY DEF ArtefactOf
<1>3. IsFiniteSet(lost)
  BY <1>2, FS_Subset
<1>4. IsFiniteSet(T)
  <2>1. T = {Simple("pipelines", "pl.pipelines_inventory", "pipelines", "info", "high"),
             Simple("self_hosted", "pl.self_hosted_ir", "pipelines.integration_runtimes", "warning", "medium"),
             Simple("schedule_mappings", "pl.schedule_mappings", "pipelines.triggers", "info", "low"),
             Simple("schedule_mappings", "pl.schedule_mappings", "pipelines.triggers", "info", "low")}
    OBVIOUS
  <2> QED
    BY <2>1, FewRows
<1>5. \A t \in T : t.severity \in Severities /\ t.effort \in Efforts /\ t.area # "none"
  BY DEF Simple, Severities, Efforts
<1>6. /\ \A x \in lost : SoundRec(f[x])
      /\ \A t \in a.unsupported_services : SoundRec(g[t])
      /\ SoundRec(Rec("pl.partial_activities", <<>>, "pipelines.activities", "info", "medium", "unknown"))
  <2> HIDE DEF lost
  <2> QED
    BY RecSound DEF Severities, Efforts
<1>7. \A x \in a.expressions : SoundRec(h[x])
  BY <1>2, RecSound DEF Efforts
<1> HIDE DEF lost, T
<1>8. A = {f[x] : x \in lost} /\ C = {g[t] : t \in a.unsupported_services} /\ E = {h[x] : x \in a.expressions}
  OBVIOUS
<1> HIDE DEF f, g, h
<1>9. Sound(P) /\ Sound(B) /\ Sound(D)
  BY <1>2, <1>4, <1>5, <1>6, SoundPresent, SoundWhen, RunHistorySound
<1> HIDE DEF A, B, C, D, E, P
<1>10. Sound(A) /\ Sound(C) /\ Sound(E)
  BY <1>2, <1>3, <1>6, <1>7, <1>8, SoundImage
<1>11. Sound(P \cup A \cup B \cup C \cup D \cup E)
  BY <1>9, <1>10, SoundUnion
<1> QED
  BY <1>1, <1>11

LEMMA MonitoringSound == ASSUME NEW a, ArtefactOf("monitoring", a) PROVE Sound(RulesForMonitoring(a.series))
<1> DEFINE series == a.series
           bursty(m) == m.p95 # NotGiven /\ m.avg # NotGiven /\ m.p95 > 85 /\ m.avg < 40
           heavy(m) == m.p95 > 85 /\ ~bursty(m)
           measured == {p \in DOMAIN series : series[p].p95 # NotGiven \/ series[p].avg # NotGiven}
           blocked == {p \in measured : series[p].blocked > 0}
           severity(p) == IF heavy(series[p]) THEN "warning" ELSE "info"
           impact(p) == IF bursty(series[p]) THEN "medium" ELSE IF heavy(series[p]) THEN "high" ELSE "low"
           f == [p \in measured |-> Rec("mon.dwu", <<p>>, "monitoring.dwu", severity(p), "low", impact(p))]
           g == [p \in blocked |-> Rec("mon.failed_conn", <<p>>, "monitoring.connections", "warning", "low", "unknown")]
           A == {Rec("mon.dwu", <<p>>, "monitoring.dwu", severity(p), "low", impact(p)) : p \in measured}
           B == {Rec("mon.failed_conn", <<p>>, "monitoring.connections", "warning", "low", "unknown") : p \in blocked}
<1>1. RulesForMonitoring(series) = A \cup B
  BY Zenon DEF RulesForMonitoring
<1>2. IsFiniteSet(measured) /\ IsFiniteSet(blocked)
  BY FS_Subset DEF ArtefactOf
<1>3. \A p \in measured : severity(p) \in Severities
  BY DEF Severities
<1> HIDE DEF measured, blocked, severity, impact
<1>4. (\A p \in measured : SoundRec(f[p])) /\ (\A p \in blocked : SoundRec(g[p]))
  BY <1>3, RecSound DEF Severities, Efforts
<1>5. A = {f[p] : p \in measured} /\ B = {g[p] : p \in blocked}
  OBVIOUS
<1> HIDE DEF f, g, A, B
<1>6. Sound(A) /\ Sound(B)
  BY <1>2, <1>4, <1>5, SoundImage
<1> QED
  BY <1>1, <1>6, SoundUnion

LEMMA StorageSound == ASSUME NEW a, ArtefactOf("storage", a) PROVE Sound(RulesForStorage(a))
<1> DEFINE area == "storage.dedicated_pool"
           full(p) == p.usedPct >= PoolStorageBlockPct
           brim == {p \in a.pool_storage : full(p)}
           high == {p \in a.pool_storage : p.usedPct >= PoolStorageWarnPct /\ ~full(p)}
           sized == {p \in a.pool_storage : p.reservedGb > 0}
           f == [p \in brim |-> Rec("st.pool_full", <<p.name>>, area, "blocker", "medium", "high")]
           g == [p \in high |-> Rec("st.pool_high", <<p.name>>, area, "warning", "low", "medium")]
           h == [p \in sized |-> Rec("st.pool_size_baseline", <<p.name>>, area, "info", "low", "low")]
           A == {Rec("st.pool_full", <<p.name>>, area, "blocker", "medium", "high") : p \in brim}
           B == {Rec("st.pool_high", <<p.name>>, area, "warning", "low", "medium") : p \in high}
           C == {Rec("st.pool_size_baseline", <<p.name>>, area, "info", "low", "low") : p \in sized}
           D == When(a.default_accounts > 0, Rec("st.workspace_default", <<>>, "storage.accounts", "info", "low", "medium"))
           E == When(\E gb \in a.capacities : gb > 100, Rec("st.large_accounts", <<>>, "storage.accounts", "info", "low", "medium"))
<1>1. RulesForStorage(a) = A \cup B \cup C \cup D \cup E
  BY Zenon DEF RulesForStorage
<1>2. IsFiniteSet(brim) /\ IsFiniteSet(high) /\ IsFiniteSet(sized)
  BY FS_Subset DEF ArtefactOf
<1> HIDE DEF brim, high, sized
<1>3. /\ \A p \in brim : SoundRec(f[p])
      /\ \A p \in high : SoundRec(g[p])
      /\ \A p \in sized : SoundRec(h[p])
  BY RecSound DEF Severities, Efforts
<1>4. A = {f[p] : p \in brim} /\ B = {g[p] : p \in high} /\ C = {h[p] : p \in sized}
  OBVIOUS
<1>5. Sound(D) /\ Sound(E)
  BY RecSound, SoundWhen DEF Severities, Efforts
<1> HIDE DEF f, g, h, A, B, C, D, E
<1>6. Sound(A) /\ Sound(B) /\ Sound(C)
  BY <1>2, <1>3, <1>4, SoundImage
<1>7. Sound(A \cup B \cup C \cup D \cup E)
  BY <1>5, <1>6, SoundUnion
<1> QED
  BY <1>1, <1>7

LEMMA DatabricksSound ==
    ASSUME NEW a, ArtefactOf("databricks_workflows", a)
    PROVE  Sound(RulesForDatabricks(a) \cup WarehouseRecs(a.mappings))
<1> DEFINE of(support) == {t \in a.tasks : t.support = support}
           types(support) == {t.type : t \in of(support)}
           area == "databricks_workflows.tasks"
           T == {Simple("workflows", "db.workflows_inventory", "databricks_workflows", "info", "high"),
                 Simple("outdated_clusters", "db.cluster_runtime", "databricks_workflows.clusters", "warning", "medium"),
                 Simple("interactive_clusters", "db.interactive_clusters", "databricks_workflows.clusters", "info", "medium")}
           named == {m \in a.mappings : m.id # ""}
           severity(m) == CASE m.support = "supported" -> "info" [] m.support \in {"partial", "unknown"} -> "warning"
                            [] OTHER -> "blocker"
           f == [t \in types("unsupported") |-> Rec("db.unsupported", <<t>>, area, "warning", "high", "unknown")]
           g == [t \in types("partial") |-> Rec("db.partial", <<t>>, area, "info", "medium", "unknown")]
           h == [m \in named |-> Rec("db.sql_warehouse", <<m.id>>, "databricks_workflows.sql_warehouses",
                                     severity(m), "medium", "unknown")]
           P == Present(a, T)
           A == {Rec("db.unsupported", <<t>>, area, "warning", "high", "unknown") : t \in types("unsupported")}
           B == {Rec("db.partial", <<t>>, area, "info", "medium", "unknown") : t \in types("partial")}
           C == When(types("unknown") # {}, Rec("db.unknown_tasks", <<>>, area, "warning", "medium", "unknown"))
           D == When(\E t \in a.tasks : t.type = "pipeline_task", Rec("db.dlt_pipelines", <<>>, area, "warning", "high", "unknown"))
           W == {Rec("db.sql_warehouse", <<m.id>>, "databricks_workflows.sql_warehouses",
                     severity(m), "medium", "unknown") : m \in named}
<1>1. RulesForDatabricks(a) = P \cup A \cup B \cup C \cup D
  BY Zenon DEF RulesForDatabricks
<1>2. WarehouseRecs(a.mappings) = W
  BY Zenon DEF WarehouseRecs
<1>3. \A support : IsFiniteSet(types(support))
  <2>1. ASSUME NEW support
        PROVE  IsFiniteSet(types(support))
    <3> DEFINE k == [t \in of(support) |-> t.type]
    <3>1. IsFiniteSet(of(support))
      BY FS_Subset DEF ArtefactOf
    <3>2. types(support) = {k[t] : t \in of(support)}
      OBVIOUS
    <3> HIDE DEF of, k, types
    <3> QED
      BY <3>1, <3>2, FiniteImage
  <2> QED
    BY <2>1
<1>4. IsFiniteSet(named)
  BY FS_Subset DEF ArtefactOf
<1>5. IsFiniteSet(T)
  <2>1. T = {Simple("workflows", "db.workflows_inventory", "databricks_workflows", "info", "high"),
             Simple("outdated_clusters", "db.cluster_runtime", "databricks_workflows.clusters", "warning", "medium"),
             Simple("interactive_clusters", "db.interactive_clusters", "databricks_workflows.clusters", "info", "medium"),
             Simple("interactive_clusters", "db.interactive_clusters", "databricks_workflows.clusters", "info", "medium")}
    OBVIOUS
  <2> QED
    BY <2>1, FewRows
<1>6. \A t \in T : t.severity \in Severities /\ t.effort \in Efforts /\ t.area # "none"
  BY DEF Simple, Severities, Efforts
<1>7. \A m \in named : severity(m) \in Severities
  BY DEF Severities
<1>8. Sound(C) /\ Sound(D)
  <2> HIDE DEF types
  <2> QED
    BY RecSound, SoundWhen DEF Severities, Efforts
<1> HIDE DEF types, named, severity, T
<1>9. /\ \A t \in types("unsupported") : SoundRec(f[t])
      /\ \A t \in types("partial") : SoundRec(g[t])
      /\ \A m \in named : SoundRec(h[m])
  BY <1>7, RecSound DEF Severities, Efforts
<1>10. A = {f[t] : t \in types("unsupported")} /\ B = {g[t] : t \in types("partial")} /\ W = {h[m] : m \in named}
  OBVIOUS
<1>11. Sound(P)
  BY <1>5, <1>6, SoundPresent
<1> HIDE DEF f, g, h, P, A, B, C, D, W
<1>12. Sound(A) /\ Sound(B) /\ Sound(W)
  BY <1>3, <1>4, <1>9, <1>10, SoundImage
<1>13. Sound((P \cup A \cup B \cup C \cup D) \cup W)
  BY <1>8, <1>11, <1>12, SoundUnion
<1> QED
  BY <1>1, <1>2, <1>13

LEMMA TableKindsSound ==
    ASSUME NEW prefix, NEW area, area # "none", NEW tables, IsFiniteSet(tables)
    PROVE  Sound(TableKindRecs(prefix, area, tables))
<1> DEFINE of(support) == {t \in tables : t.support = support}
           kinds(support) == {t.kind : t \in of(support)}
           f == [k \in kinds("unsupported") |-> Rec(prefix[1], <<k>>, area, "warning", "high", "unknown")]
           g == [k \in kinds("partial") |-> Rec(prefix[2], <<k>>, area, "info", "medium", "unknown")]
           A == {Rec(prefix[1], <<k>>, area, "warning", "high", "unknown") : k \in kinds("unsupported")}
           B == {Rec(prefix[2], <<k>>, area, "info", "medium", "unknown") : k \in kinds("partial")}
<1>1. TableKindRecs(prefix, area, tables) = A \cup B
  BY Zenon DEF TableKindRecs
<1>2. \A support : IsFiniteSet(kinds(support))
  <2>1. ASSUME NEW support
        PROVE  IsFiniteSet(kinds(support))
    <3> DEFINE k == [t \in of(support) |-> t.kind]
    <3>1. IsFiniteSet(of(support))
      BY FS_Subset
    <3>2. kinds(support) = {k[t] : t \in of(support)}
      OBVIOUS
    <3> HIDE DEF of, k, kinds
    <3> QED
      BY <3>1, <3>2, FiniteImage
  <2> QED
    BY <2>1
<1> HIDE DEF kinds
<1>3. (\A k \in kinds("unsupported") : SoundRec(f[k])) /\ (\A k \in kinds("partial") : SoundRec(g[k]))
  BY RecSound DEF Severities, Efforts
<1>4. A = {f[k] : k \in kinds("unsupported")} /\ B = {g[k] : k \in kinds("partial")}
  OBVIOUS
<1> HIDE DEF f, g, A, B
<1>5. Sound(A) /\ Sound(B)
  BY <1>2, <1>3, <1>4, SoundImage
<1> QED
  BY <1>1, <1>5, SoundUnion

LEMMA BigQuerySound == ASSUME NEW a, ArtefactOf("bigquery_workloads", a) PROVE Sound(RulesForBigQuery(a))
<1> DEFINE T == {Simple("datasets", "bq.inventory", "bigquery_workloads", "info", "high"),
                 Simple("routines", "bq.routines", "bigquery_workloads.routines", "info", "medium"),
                 Simple("scheduled_queries", "bq.scheduled_queries", "bigquery_workloads.scheduled_queries", "info", "medium"),
                 Simple("slot_caveats", "bq.slot_hour_caveat", "bigquery_workloads.jobs", "info", "low")}
           P == Present(a, T)
           K == TableKindRecs(<<"bq.unsupported_table", "bq.partial_table">>, "bigquery_workloads.tables", a.tables)
           jobs == a.jobs
           ended == {j \in jobs : j.outcome \in {"succeeded", "failed"}}
           failed == {j \in ended : j.outcome = "failed"}
           all == {j.type : j \in jobs}
           types == all \cap {"QUERY", "LOAD", "EXTRACT", "COPY"}
           f == [t \in types |-> Rec("bq.jobs", <<t>>, "bigquery_workloads.jobs", "info", "low", "unknown")]
           A == {Rec("bq.jobs", <<t>>, "bigquery_workloads.jobs", "info", "low", "unknown") : t \in types}
           B == When(ended # {} /\ 10 * Cardinality(failed) >= Cardinality(ended),
                     Rec("bq.failed_jobs", <<>>, "bigquery_workloads.jobs", "warning", "medium", "unknown"))
<1>1. RulesForBigQuery(a) = P \cup K \cup BigQueryJobRecs(jobs)
  BY Zenon DEF RulesForBigQuery
<1>2. BigQueryJobRecs(jobs) = A \cup B
  BY Zenon DEF BigQueryJobRecs
<1>3. IsFiniteSet(a.tables) /\ IsFiniteSet(jobs)
  BY DEF ArtefactOf
<1>4. IsFiniteSet(types)
  <2> DEFINE k == [j \in jobs |-> j.type]
  <2>1. all = {k[j] : j \in jobs}
    OBVIOUS
  <2>2. IsFiniteSet(all)
    <3> HIDE DEF k, all, jobs
    <3> QED
      BY <1>3, <2>1, FiniteImage
  <2> HIDE DEF all
  <2> QED
    BY <2>2, FS_Subset
<1>5. \A t \in T : t.severity \in Severities /\ t.effort \in Efforts /\ t.area # "none"
  BY DEF Simple, Severities, Efforts
<1>6. Sound(P)
  <2>1. IsFiniteSet(T)
    BY FewRows
  <2> HIDE DEF T
  <2> QED
    BY <1>5, <2>1, SoundPresent
<1>7. Sound(K)
  BY <1>3, TableKindsSound
<1>8. SoundRec(Rec("bq.failed_jobs", <<>>, "bigquery_workloads.jobs", "warning", "medium", "unknown"))
  BY RecSound DEF Severities, Efforts
<1>9. Sound(B)
  BY <1>8, SoundWhen
<1> HIDE DEF types
<1>10. \A t \in types : SoundRec(f[t])
  BY RecSound DEF Severities, Efforts
<1>11. A = {f[t] : t \in types}
  OBVIOUS
<1> HIDE DEF f, P, K, A, B, jobs
<1>12. Sound(A)
  BY <1>4, <1>10, <1>11, SoundImage
<1>13. Sound((P \cup K) \cup (A \cup B))
  BY <1>6, <1>7, <1>9, <1>12, SoundUnion
<1> QED
  BY <1>1, <1>2, <1>13

LEMMA SnowflakeSound == ASSUME NEW a, ArtefactOf("snowflake_workloads", a) PROVE Sound(RulesForSnowflake(a))
<1> DEFINE T == {Simple("tasks", "sf.tasks", "snowflake_workloads.tasks", "info", "medium"),
                 Simple("streams", "sf.streams", "snowflake_workloads.streams", "info", "medium"),
                 Simple("pipes", "sf.pipes", "snowflake_workloads.pipes", "info", "medium"),
                 Simple("stages", "sf.stages", "snowflake_workloads.stages", "info", "low"),
                 Simple("credit_caveats", "sf.credit_caveat", "snowflake_workloads.jobs", "info", "low")}
           inventory == Rec("sf.inventory", <<>>, "snowflake_workloads", "info", "high", "unknown")
           sku == [Rec("sf.warehouse_sku", <<>>, "snowflake_workloads.warehouses", "info", "low", "unknown")
                   EXCEPT !.about = <<ToString(WarehouseSku(a.warehouse_stats))>>]
           A == When(a.databases > 0 \/ a.warehouses > 0, inventory)
           K == TableKindRecs(<<"sf.unsupported_table", "sf.partial_table">>, "snowflake_workloads.tables", a.tables)
           R == RoutineRecs(a.routines)
           P == Present(a, T)
           S == When(WarehouseSku(a.warehouse_stats) > 0, sku)
<1>1. RulesForSnowflake(a) = A \cup K \cup R \cup P \cup S
  BY Zenon DEF RulesForSnowflake
<1>2. IsFiniteSet(a.tables)
  BY DEF ArtefactOf
<1>3. Sound(K)
  BY <1>2, TableKindsSound
<1>4. SoundRec(inventory) /\ SoundRec(sku)
  BY DEF SoundRec, Rec, Severities, Efforts
<1>5. Sound(A) /\ Sound(S)
  <2> HIDE DEF inventory, sku
  <2> QED
    BY <1>4, SoundWhen
<1>6. Sound(R)
  <2> DEFINE lost == \E r \in a.routines : r.support = "unsupported"
             rec == Rec("sf.routines", <<>>, "snowflake_workloads.routines",
                        IF lost THEN "warning" ELSE "info", IF lost THEN "high" ELSE "medium", "unknown")
  <2>1. R = When(a.routines # {}, rec)
    BY Zenon DEF RoutineRecs
  <2>2. SoundRec(rec)
    <3> HIDE DEF lost
    <3> QED
      BY RecSound DEF Severities, Efforts
  <2> HIDE DEF rec, R
  <2> QED
    BY <2>1, <2>2, SoundWhen
<1>7. \A t \in T : t.severity \in Severities /\ t.effort \in Efforts /\ t.area # "none"
  BY DEF Simple, Severities, Efforts
<1>8. Sound(P)
  <2>1. IsFiniteSet(T)
    BY FewRows
  <2> HIDE DEF T
  <2> QED
    BY <1>7, <2>1, SoundPresent
<1> HIDE DEF A, K, R, P, S
<1>9. Sound(A \cup K \cup R \cup P \cup S)
  BY <1>3, <1>5, <1>6, <1>8, SoundUnion
<1> QED
  BY <1>1, <1>9

\* Whatever the artefact, its rules recommend a finite set of well-formed things.
LEMMA RulesSound == ASSUME NEW m \in InputModules, NEW a, ArtefactOf(m, a) PROVE Sound(RulesFor(m, a))
<1>1. m \in {"dedicated_pools", "serverless_pools", "spark_pools", "pipelines", "monitoring", "storage",
             "databricks_workflows", "bigquery_workloads", "snowflake_workloads"}
  BY DEF InputModules, InputOrder, ToSet
<1> QED
  BY <1>1, DedicatedSound, ServerlessSound, SparkSound, PipelinesSound, MonitoringSound, StorageSound, DatabricksSound,
     BigQuerySound, SnowflakeSound DEF RulesFor

(***************************************************************************)
(* The report as it is built: stage by stage, each part is what its        *)
(* operator makes of the parts before it.                                  *)
(***************************************************************************)
\* Every input passed by that exists has its note, and without one its rules are in.
InputsSay ==
  /\ DOMAIN inputs = {m \in DOMAIN artefacts : \E i \in 1..(nextInput - 1) : InputOrder[i] = m}
  /\ \A m \in DOMAIN inputs : inputs[m] = "none" => RulesFor(m, artefacts[m]) \subseteq recommendations

PartsFollow ==
  /\ fmStage \in {"runbook", "project", "estimate", "done"} => readiness.score = Score(recommendations)
  /\ fmStage \in {"project", "estimate", "done"} => runbook = BuildRunbook(recommendations)
  /\ fmStage \in {"estimate", "done"} => projection = Projected
  /\ fmStage = "done" => effortSummary = BuildRollup({Estimate(s) : s \in runbook})

\* The invariant.
MapInv ==
  /\ fmStage \in {"load", "score", "runbook", "project", "estimate", "done"}
  /\ nextInput \in 1..(Len(InputOrder) + 1) /\ (fmStage = "load" <=> nextInput <= Len(InputOrder))
  /\ DOMAIN artefacts \subseteq InputModules /\ \A m \in DOMAIN artefacts : ArtefactOf(m, artefacts[m])
  /\ torn \subseteq DOMAIN artefacts /\ CardOf(card) /\ Sound(recommendations) /\ InputsSay /\ PartsFollow

\* What is projected and estimated depends on what was loaded only.
LEMMA ProjectedKept == ASSUME UNCHANGED <<artefacts, inputs>> PROVE Projected' = Projected
BY DEF Projected, Parsed

LEMMA EstimateKept ==
    ASSUME UNCHANGED <<artefacts, card, inputs, recommendations, runbook>>
    PROVE  \A s : Estimate(s)' = Estimate(s)
<1>1. Counts' = Counts
  BY DEF Counts, CountOf, Parsed
<1>2. \A u, S : UnitCount(u, S)' = UnitCount(u, S)
  BY <1>1 DEF UnitCount
<1>3. \A area : InArea(area)' = InArea(area)
  BY DEF InArea
<1>4. \A area : AreaTotal(area)' = AreaTotal(area)
  BY <1>2, <1>3 DEF AreaTotal
<1>5. /\ \A area : StepsInArea(area)' = StepsInArea(area)
      /\ \A f : StepsInPhase(f)' = StepsInPhase(f)
      /\ \A f : BaseHours(f)' = BaseHours(f)
  BY DEF StepsInArea, StepsInPhase, BaseHours
<1>6. \A s : StepShare(s)' = StepShare(s)
  BY <1>4, <1>5 DEF StepShare
<1>7. Velocity' = Velocity
  BY DEF Velocity
<1> QED
  BY <1>6, <1>7 DEF Estimate

\* There are nine inputs.
LEMMA InputOrderIs == /\ Len(InputOrder) = 9 /\ \A i \in 1..9 : InputOrder[i] \in InputModules
                      /\ \A m \in InputModules : \E i \in 1..9 : InputOrder[i] = m
                      /\ \A i, j \in 1..9 : InputOrder[i] = InputOrder[j] => i = j
BY DEF InputOrder, InputModules, ToSet

\* The invariant holds at first, and no step breaks it.
LEMMA MapInit == ASSUME MappingInit PROVE MapInv
<1>1. PICK w \in Workspaces : \E gone \in SUBSET DOMAIN w : artefacts = [m \in DOMAIN w \ gone |-> w[m]]
  BY DEF MappingInit
<1>2. DOMAIN w \subseteq InputModules /\ \A m \in DOMAIN w : ArtefactOf(m, w[m])
  BY MappingAssumption
<1>3. DOMAIN artefacts \subseteq DOMAIN w /\ \A m \in DOMAIN artefacts : artefacts[m] = w[m]
  BY <1>1
<1>4. CardOf(card)
  BY MappingAssumption DEF MappingInit
<1>5. Sound(recommendations)
  BY FS_EmptySet DEF MappingInit, Sound
<1>6. InputsSay
  BY DEF MappingInit, InputsSay
<1>7. PartsFollow
  BY DEF MappingInit, PartsFollow
<1> QED
  BY <1>2, <1>3, <1>4, <1>5, <1>6, <1>7, InputOrderIs DEF MappingInit, MapInv

\* An input is gone past once its note is made, or it does not exist.
LEMMA InputRead ==
    ASSUME MapInv, NEW note, InputNoted(note), AfterInput, fmStage = "load", InputOrder[nextInput] \in DOMAIN artefacts,
           recommendations \subseteq recommendations', Sound(recommendations'),
           note = "none" => RulesFor(InputOrder[nextInput], artefacts[InputOrder[nextInput]]) \subseteq recommendations'
    PROVE  MapInv'
<1>0. torn' = torn
  BY DEF AfterInput
<1>1. /\ DOMAIN inputs' = DOMAIN inputs \cup {InputOrder[nextInput]}
      /\ \A m \in DOMAIN inputs' : inputs'[m] = IF m \in DOMAIN inputs THEN inputs[m] ELSE note
  BY DEF InputNoted
<1>2. nextInput \in 1..9 /\ nextInput' = nextInput + 1 /\ artefacts' = artefacts /\ card' = card
  BY InputOrderIs DEF MapInv, AfterInput
<1>3. 1..(nextInput' - 1) = 1..(nextInput - 1) \cup {nextInput}
  BY <1>2
<1>4. InputsSay'
  <2>1. DOMAIN inputs' = {m \in DOMAIN artefacts' : \E i \in 1..(nextInput' - 1) : InputOrder[i] = m}
    BY <1>1, <1>2, <1>3 DEF MapInv, InputsSay
  <2>2. InputOrder[nextInput] \notin DOMAIN inputs
    BY <1>2, InputOrderIs DEF MapInv, InputsSay
  <2>3. \A m \in DOMAIN inputs' : inputs'[m] = "none" => RulesFor(m, artefacts'[m]) \subseteq recommendations'
    BY <1>1, <1>2, <2>2 DEF MapInv, InputsSay
  <2> QED
    BY <2>1, <2>3 DEF InputsSay
<1>5. PartsFollow'
  BY DEF AfterInput, PartsFollow
<1> QED
  BY <1>0, <1>2, <1>4, <1>5, InputOrderIs DEF MapInv, AfterInput

LEMMA MapStep == ASSUME MapInv, [MappingNext]_fmVars PROVE MapInv'
<1>1. CASE SkipMissing
  <2>1. nextInput \in 1..9 /\ nextInput' = nextInput + 1 /\ artefacts' = artefacts /\ inputs' = inputs
    BY <1>1, InputOrderIs DEF MapInv, AfterInput, SkipMissing
  <2>2. 1..(nextInput' - 1) = 1..(nextInput - 1) \cup {nextInput}
    BY <2>1
  <2>3. InputsSay'
    BY <1>1, <2>1, <2>2 DEF MapInv, InputsSay, SkipMissing
  <2>4. PartsFollow'
    BY <1>1 DEF AfterInput, PartsFollow, SkipMissing
  <2> QED
    BY <1>1, <2>1, <2>3, <2>4, InputOrderIs DEF MapInv, AfterInput, SkipMissing
<1>2. CASE NoteUnreadable
  BY <1>2, InputRead DEF NoteUnreadable, MapInv
<1>3. CASE ApplyRules
  <2> DEFINE m == InputOrder[nextInput]
  <2>1. Sound(RulesFor(m, artefacts[m]))
    BY <1>3, RulesSound DEF MapInv, ApplyRules
  <2>2. Sound(recommendations')
    BY <1>3, <2>1, SoundUnion DEF MapInv, ApplyRules
  <2> QED
    BY <1>3, <2>2, InputRead DEF ApplyRules
<1>4. CASE RulesRaise
  BY <1>4, InputRead DEF RulesRaise, MapInv
<1>5. CASE ScoreReport
  <2>0. \A recs, tsql : ScoreRecommendations(recs, tsql).score = Score(recs)
    BY DEF ScoreRecommendations
  <2>1. readiness'.score = Score(recommendations)
    <3>1. \E tsql : readiness' = ScoreRecommendations(recommendations, tsql)
      BY <1>5, Zenon DEF ScoreReport
    <3> QED
      BY <2>0, <3>1
  <2>2. PartsFollow' /\ InputsSay'
    BY <1>5, <2>1 DEF ScoreReport, PartsFollow, MapInv, InputsSay
  <2> QED
    BY <1>5, <2>2 DEF MapInv, ScoreReport
<1>6. CASE SequenceRunbook
  <2>1. PartsFollow' /\ InputsSay'
    BY <1>6 DEF SequenceRunbook, PartsFollow, MapInv, InputsSay
  <2> QED
    BY <1>6, <2>1 DEF MapInv, SequenceRunbook
<1>7. CASE ProjectCapacity
  <2>1. PartsFollow' /\ InputsSay'
    BY <1>7, ProjectedKept DEF ProjectCapacity, PartsFollow, MapInv, InputsSay
  <2> QED
    BY <1>7, <2>1 DEF MapInv, ProjectCapacity
<1>8. CASE EstimateEffort
  <2>1. {Estimate(s) : s \in runbook}' = {Estimate(s) : s \in runbook}
    BY <1>8, EstimateKept DEF EstimateEffort
  <2>2. PartsFollow' /\ InputsSay'
    BY <1>8, <2>1, ProjectedKept DEF EstimateEffort, PartsFollow, MapInv, InputsSay
  <2> QED
    BY <1>8, <2>2 DEF MapInv, EstimateEffort
<1>9. CASE UNCHANGED fmVars
  <2>1. {Estimate(s) : s \in runbook}' = {Estimate(s) : s \in runbook}
    BY <1>9, EstimateKept DEF fmVars
  <2>2. PartsFollow' /\ InputsSay'
    BY <1>9, <2>1, ProjectedKept DEF fmVars, PartsFollow, MapInv, InputsSay
  <2> QED
    BY <1>9, <2>2 DEF MapInv, fmVars
<1> QED
  BY <1>1, <1>2, <1>3, <1>4, <1>5, <1>6, <1>7, <1>8, <1>9 DEF MappingNext

(***************************************************************************)
(* Nothing is lost in silence, and hot objects lead their phase.           *)
(***************************************************************************)

\* The recommendations of every artefact that is read in full have their steps.
LEMMA NothingLost == ASSUME MapInv PROVE NothingLostSilently
<1> SUFFICES ASSUME fmStage = "done", NEW m \in DOMAIN artefacts
             PROVE  /\ m \in DOMAIN inputs
                    /\ inputs[m] = "none" => RulesFor(m, artefacts[m]) \subseteq {s.rec : s \in runbook}
  BY DEF NothingLostSilently, Reported
<1>1. nextInput = 10
  BY InputOrderIs DEF MapInv
<1>2. m \in DOMAIN inputs
  <2>1. PICK i \in 1..9 : InputOrder[i] = m
    BY InputOrderIs DEF MapInv
  <2> QED
    BY <1>1, <2>1 DEF MapInv, InputsSay
<1>3. runbook = BuildRunbook(recommendations)
  BY DEF MapInv, PartsFollow
<1>4. ASSUME NEW r \in recommendations
      PROVE  r \in {s.rec : s \in runbook}
  <2> DEFINE step == [rec |-> r, phase |-> PhaseForArea(r.area), first |-> 1 + Cardinality({q \in recommendations : Precedes(q, r)})]
  <2>1. step \in runbook
    BY <1>3 DEF BuildRunbook
  <2>2. step.rec = r
    OBVIOUS
  <2> QED
    BY <2>1, <2>2
<1>5. inputs[m] = "none" => RulesFor(m, artefacts[m]) \subseteq recommendations
  BY <1>2 DEF MapInv, InputsSay
<1> QED
  BY <1>2, <1>4, <1>5

\* The largest and the smallest of one number and of two.
LEMMA OneIs == ASSUME NEW n \in Int PROVE Max({n}) = n /\ Min({n}) = n
BY DEF Max, Min

LEMMA TwoIs == ASSUME NEW m \in Int, NEW n \in Int
               PROVE  Max({m, n}) = (IF m >= n THEN m ELSE n) /\ Min({m, n}) = (IF m <= n THEN m ELSE n)
<1>1. Max({m, n}) = IF m >= n THEN m ELSE n
  BY DEF Max
<1>2. Min({m, n}) = IF m <= n THEN m ELSE n
  BY DEF Min
<1> QED
  BY <1>1, <1>2

\* What an object that is mentioned weighs.
LEMMA HotObject ==
    ASSUME NEW pool, PoolArtefact(pool), NEW object, NEW i \in Mentions(pool, object.schema, object.name),
           20 * pool.consumed[i].elapsed >= TotalElapsed(pool), pool.consumed[i].elapsed > 0
    PROVE  Hot(pool, object)
<1> DEFINE f == [j \in DOMAIN pool.consumed |-> pool.consumed[j].elapsed]
           e == pool.consumed[i].elapsed
<1>1. IsFiniteSet(DOMAIN pool.consumed) /\ i \in Nat /\ i \in DOMAIN pool.consumed /\ \A j \in DOMAIN pool.consumed : f[j] \in Nat
  BY DEF PoolArtefact, Mentions
<1>2. Mentions(pool, object.schema, object.name) = {i}
  BY DEF PoolArtefact, Mentions
<1>3. WorkloadOf(pool, object.schema, object.name) = e
  <2> DEFINE own == Mentions(pool, object.schema, object.name)
             bare == Mentions(pool, "", object.name)
             same == {j \in DOMAIN pool.consumed : pool.consumed[j].name = object.name}
  <2>1. own # {} /\ Max(own) = i
    BY <1>1, <1>2, OneIs
  <2>2. WorkloadOf(pool, object.schema, object.name) =
          CASE own # {} -> pool.consumed[Max(own)].elapsed
            [] own = {} /\ bare # {} -> pool.consumed[Max(bare)].elapsed
            [] own = {} /\ bare = {} /\ same # {} -> pool.consumed[Min(same)].elapsed
            [] OTHER -> NoEntry
    BY Zenon DEF WorkloadOf
  <2> HIDE DEF own, bare, same
  <2> QED
    BY <2>1, <2>2
<1>4. TotalElapsed(pool) = Total(f, DOMAIN pool.consumed)
  <2>1. TotalElapsed(pool) = SumOf(f)
    BY Zenon DEF TotalElapsed
  <2>2. DOMAIN f = DOMAIN pool.consumed
    OBVIOUS
  <2>3. SumOf(f) = Total(f, DOMAIN f)
    BY Zenon DEF SumOf, Total
  <2> QED
    BY <2>1, <2>2, <2>3
<1>5. Total(f, {i}) = f[i]
  <2>1. Total(f, {i}) = f[i] * Cardinality({i})
    BY <1>1, FS_Singleton, TotalConst
  <2>2. f[i] \in Nat /\ Cardinality({i}) = 1
    BY <1>1, FS_Singleton
  <2> HIDE DEF f
  <2> QED
    BY <2>1, <2>2
<1>6. TotalElapsed(pool) >= e /\ TotalElapsed(pool) \in Nat /\ e \in Nat
  <2> HIDE DEF f
  <2>1. Total(f, {i}) <= Total(f, DOMAIN pool.consumed)
    BY <1>1, TotalPart
  <2>2. Total(f, DOMAIN pool.consumed) \in Nat
    BY <1>1, TotalNat
  <2>3. f[i] = e
    BY <1>1 DEF f
  <2> QED
    BY <1>1, <1>4, <1>5, <2>1, <2>2, <2>3
<1>7. Weight(pool, object) = e
  <2>1. Max({0, e}) = e
    BY <1>6, TwoIs
  <2> QED
    BY <1>3, <1>6, <2>1 DEF Weight
<1> HIDE DEF e
<1> QED
  BY <1>6, <1>7 DEF Hot, AtLeast, HotObjectSharePct, e

\* A blocker costs ten points.
LEMMA ScoreRange ==
    ASSUME NEW recs, IsFiniteSet(recs), NEW r \in recs, r.severity = "blocker"
    PROVE  Score(recs) <= 90
<1> DEFINE b == CountSeverity(recs, "blocker")
           w == CountSeverity(recs, "warning")
<1>1. b \in Nat /\ w \in Nat /\ b >= 1
  <2> DEFINE B == {x \in recs : x.severity = "blocker"}
             W == {x \in recs : x.severity = "warning"}
  <2>1. IsFiniteSet(B) /\ IsFiniteSet(W) /\ B # {}
    BY FS_Subset
  <2>2. b = Cardinality(B) /\ w = Cardinality(W)
    BY DEF CountSeverity
  <2> HIDE DEF B, W, b, w
  <2>3. Cardinality(B) \in Nat /\ Cardinality(W) \in Nat /\ Cardinality(B) # 0
    BY <2>1, FS_EmptySet, FS_CardinalityType
  <2> QED
    BY <2>2, <2>3
<1> HIDE DEF b, w
<1>2. Min({10 * b, 60}) >= 10 /\ Min({10 * b, 60}) \in Int
  <2> DEFINE n == 10 * b
  <2>1. n \in Int /\ n >= 10 /\ 60 \in Int
    BY <1>1
  <2> HIDE DEF n
  <2>2. Min({n, 60}) = IF n <= 60 THEN n ELSE 60
    BY <2>1, TwoIs, Zenon
  <2> QED
    BY <2>1, <2>2 DEF n
<1>3. Min({2 * w, 30}) >= 0 /\ Min({2 * w, 30}) \in Int
  <2> DEFINE n == 2 * w
  <2>1. n \in Int /\ n >= 0 /\ 30 \in Int
    BY <1>1
  <2> HIDE DEF n
  <2>2. Min({n, 30}) = IF n <= 30 THEN n ELSE 30
    BY <2>1, TwoIs, Zenon
  <2> QED
    BY <2>1, <2>2 DEF n
<1> DEFINE x == 100 - Min({10 * b, 60}) - Min({2 * w, 30})
<1>4. x \in Int /\ x <= 90
  BY <1>2, <1>3
<1>5. Score(recs) = Max({0, x})
  BY DEF Score, b, w
<1> HIDE DEF x
<1> QED
  BY <1>4, <1>5, TwoIs

\* Where a blocker of a phase stands, nothing before it in the phase is less.
LEMMA BlockersFirst ==
    ASSUME NEW recs, Sound(recs), NEW b \in recs, b.severity = "blocker",
           NEW r \in recs, PhaseForArea(r.area) = PhaseForArea(b.area), r.severity # "blocker"
    PROVE  Cardinality({q \in recs : Precedes(q, b)}) < Cardinality({q \in recs : Precedes(q, r)})
<1> DEFINE B == {q \in recs : Precedes(q, b)}
           R == {q \in recs : Precedes(q, r)}
<1>0. \A q \in recs : q.severity \in Severities
  BY DEF Sound, SoundRec
<1>1. \A q \in recs : SeverityRank[q.severity] \in 1..3 /\ (q.severity # "blocker" => SeverityRank[q.severity] \in 1..2)
  BY <1>0 DEF SeverityRank, Severities
<1>2. SeverityRank[b.severity] = 3
  BY DEF SeverityRank
<1>3. b \in R
  BY <1>1, <1>2 DEF Precedes
<1>4. ~(PhaseRank(PhaseForArea(b.area)) < PhaseRank(PhaseForArea(b.area)))
  <2>1. \A area : PhaseForArea(area) \in DOMAIN AreasOfPhase \cup {"data_plane_prep"}
    BY DEF PhaseForArea, AreaToPhase
  <2>2. \A f \in DOMAIN AreasOfPhase \cup {"data_plane_prep"} : PhaseRank(f) \in Int
    BY DEF AreasOfPhase, PhaseRank, Phases
  <2> QED
    BY <2>1, <2>2
<1>5. b \notin B
  BY <1>2, <1>4 DEF Precedes
<1>6. \A q \in B : q \in R
  BY <1>1, <1>2 DEF Precedes
<1>7. IsFiniteSet(R) /\ IsFiniteSet(B)
  BY FS_Subset DEF Sound
<1>8. Cardinality(B) < Cardinality(R)
  <2> HIDE DEF B, R
  <2>1. B \subseteq R /\ B # R
    BY <1>3, <1>5, <1>6
  <2> QED
    BY <1>7, <2>1, FS_Subset, FS_CardinalityType
<1> QED
  BY <1>8

\* The id of a recommendation for a hot object.
LEMMA FiveParts == ASSUME NEW v, NEW w, NEW x, NEW y, NEW z PROVE <<v>> \o <<w, x, y, z>> = <<v, w, x, y, z>>
<1> DEFINE S == {v, w, x, y, z}
           a == <<v>>
           b == <<w, x, y, z>>
           c == <<v, w, x, y, z>>
<1>1. a \in Seq(S) /\ b \in Seq(S) /\ c \in Seq(S)
  OBVIOUS
<1>2. Len(a) = 1 /\ a[1] = v
  OBVIOUS
<1>3. Len(b) = 4 /\ b[1] = w /\ b[2] = x /\ b[3] = y /\ b[4] = z
  OBVIOUS
<1>4. Len(c) = 5 /\ c[1] = v /\ c[2] = w /\ c[3] = x /\ c[4] = y /\ c[5] = z
  OBVIOUS
<1> HIDE DEF S, a, b, c
<1> DEFINE ab == a \o b
<1>5. /\ ab \in Seq(S) /\ Len(ab) = Len(a) + Len(b)
      /\ \A i \in 1..(Len(a) + Len(b)) : ab[i] = IF i <= Len(a) THEN a[i] ELSE b[i - Len(a)]
  BY <1>1, ConcatProperties
<1> HIDE DEF ab
<1>6. Len(ab) = 5 /\ \A i \in 1..5 : ab[i] = IF i <= 1 THEN a[i] ELSE b[i - 1]
  BY <1>2, <1>3, <1>5
<1>7. ab[1] = a[1] /\ ab[2] = b[1] /\ ab[3] = b[2] /\ ab[4] = b[3] /\ ab[5] = b[4]
  BY <1>6
<1>8. \A i \in 1..5 : ab[i] = c[i]
  BY <1>2, <1>3, <1>4, <1>7
<1>9. ab = c
  BY <1>1, <1>4, <1>5, <1>6, <1>8, SeqEqual
<1> QED
  BY <1>9 DEF a, b, c, ab

\* A construct in a hot object is a blocker, and blockers lead their phase.
LEMMA HotLead == ASSUME MapInv PROVE HotObjectsLead
<1> SUFFICES ASSUME fmStage = "done", "dedicated_pools" \in DOMAIN inputs, inputs["dedicated_pools"] = "none",
                    NEW pool \in artefacts["dedicated_pools"].pools, NEW o \in pool.code, NEW rule \in o.findings,
                    NEW i \in Mentions(pool, o.schema, o.name),
                    20 * pool.consumed[i].elapsed >= TotalElapsed(pool), pool.consumed[i].elapsed > 0,
                    TsqlSeverity[rule] # "info"
             PROVE  /\ readiness.score <= 90
                    /\ \E s \in runbook :
                         /\ s.rec.id = <<"dp.tsql", rule, pool.name, "hot", o.id>>
                         /\ \A t \in runbook : t.phase = s.phase /\ t.first <= s.first => t.rec.severity = "blocker"
  BY DEF HotObjectsLead, Reported
<1>1. "dedicated_pools" \in DOMAIN artefacts
  BY DEF MapInv, InputsSay
<1>2. PoolArtefact(pool)
  BY <1>1 DEF MapInv, ArtefactOf
<1>3. Hot(pool, o)
  BY <1>2, HotObject
<1> DEFINE b == Rec("dp.tsql", <<rule, pool.name, "hot", o.id>>, "dedicated_pools.tsql_surface", "blocker", "medium", "high")
<1>4. HotSeverity(rule) = "blocker"
  BY DEF HotSeverity
<1>5. b \in TsqlRecs(pool)
  <2> DEFINE hits(x) == {k \in pool.code : x \in k.findings}
             single(x) == {Rec("dp.tsql", <<x, pool.name, "hot", k.id>>, "dedicated_pools.tsql_surface", HotSeverity(x), "medium", "high") :
                             k \in {k \in hits(x) : Hot(pool, k)}}
             rules == UNION {k.findings : k \in pool.code}
  <2>1. b \in single(rule)
    BY <1>3, <1>4
  <2>2. rule \in rules
    OBVIOUS
  <2>3. UNION {single(x) : x \in rules} \subseteq TsqlRecs(pool)
    BY Zenon DEF TsqlRecs
  <2> HIDE DEF single, rules, b
  <2> QED
    BY <2>1, <2>2, <2>3
<1>6. b \in recommendations
  <2>1. RulesFor("dedicated_pools", artefacts["dedicated_pools"]) \subseteq recommendations
    BY DEF MapInv, InputsSay
  <2>2. RulesFor("dedicated_pools", artefacts["dedicated_pools"]) = RulesForDedicatedPools(artefacts["dedicated_pools"])
    BY Zenon DEF RulesFor
  <2>3. TsqlRecs(pool) \subseteq RulesForDedicatedPools(artefacts["dedicated_pools"])
    <3> HIDE DEF b
    <3> QED
      BY DEF RulesForDedicatedPools
  <2> HIDE DEF b
  <2> QED
    BY <1>5, <2>1, <2>2, <2>3
<1>7. b.severity = "blocker" /\ b.area = "dedicated_pools.tsql_surface" /\ b.id = <<"dp.tsql", rule, pool.name, "hot", o.id>>
  <2>1. <<"dp.tsql">> \o <<rule, pool.name, "hot", o.id>> = <<"dp.tsql", rule, pool.name, "hot", o.id>>
    BY FiveParts
  <2>2. b.id = <<"dp.tsql">> \o <<rule, pool.name, "hot", o.id>>
    BY DEF Rec
  <2>3. b.severity = "blocker" /\ b.area = "dedicated_pools.tsql_surface"
    BY DEF Rec
  <2> QED
    BY <2>1, <2>2, <2>3
<1>8. PhaseForArea(b.area) = "data_plane_prep"
  BY <1>7 DEF PhaseForArea, AreaToPhase, AreasOfPhase
<1> HIDE DEF b
<1>9. Sound(recommendations) /\ runbook = BuildRunbook(recommendations) /\ readiness.score = Score(recommendations)
  BY DEF MapInv, PartsFollow
<1>10. readiness.score <= 90
  BY <1>6, <1>7, <1>9, ScoreRange DEF Sound
<1> DEFINE step(r) == [rec |-> r, phase |-> PhaseForArea(r.area), first |-> 1 + Cardinality({q \in recommendations : Precedes(q, r)})]
<1>11. \A r \in recommendations : step(r) \in runbook
  BY <1>9 DEF BuildRunbook
<1>12. ASSUME NEW t \in runbook, t.phase = "data_plane_prep"
       PROVE  \E r \in recommendations : t = step(r)
  <2> DEFINE last == [rec |-> Verification.rec, phase |-> "verification", first |-> Cardinality(recommendations) + 1]
  <2>1. runbook = {step(r) : r \in recommendations} \cup {last}
    BY <1>9, Zenon DEF BuildRunbook
  <2>2. last.phase = "verification"
    OBVIOUS
  <2> HIDE DEF step, last
  <2> QED
    BY <1>12, <2>1, <2>2
<1>13. ASSUME NEW t \in runbook, t.phase = step(b).phase, t.first <= step(b).first
       PROVE  t.rec.severity = "blocker"
  <2>1. PICK r \in recommendations : t = step(r)
    BY <1>8, <1>12, <1>13
  <2>2. \A q \in recommendations : Cardinality({x \in recommendations : Precedes(x, q)}) \in Nat
    BY <1>9, FS_Subset, FS_CardinalityType DEF Sound
  <2>3. ~(Cardinality({x \in recommendations : Precedes(x, b)}) < Cardinality({x \in recommendations : Precedes(x, r)}))
    BY <1>6, <1>13, <2>1, <2>2
  <2>4. PhaseForArea(r.area) = PhaseForArea(b.area)
    BY <1>13, <2>1
  <2>5. r.severity = "blocker"
    BY <1>6, <1>7, <1>9, <2>3, <2>4, BlockersFirst
  <2> QED
    BY <2>1, <2>5
<1>14. step(b) \in runbook /\ step(b).rec.id = <<"dp.tsql", rule, pool.name, "hot", o.id>>
  BY <1>6, <1>7, <1>11
<1> HIDE DEF step
<1> QED
  BY <1>10, <1>13, <1>14

(***************************************************************************)
(* The capacity: what is looked up is a whole number, and Spark that is not *)
(* fully known is not part of it.                                          *)
(***************************************************************************)

\* A set of natural numbers has a least one.
LEMMA LeastIs == ASSUME NEW S, S \subseteq Nat, S # {} PROVE Min(S) \in S /\ \A q \in S : Min(S) <= q
<1>1. PICK p \in S : \A q \in S : ~(<<q, p>> \in OpToRel(<, Nat))
  BY NatLessThanWellFounded, WFMin
<1>2. ASSUME NEW q \in S PROVE p <= q
  <2>1. q \in Nat /\ p \in Nat
    OBVIOUS
  <2>2. ~(q < p)
    BY <1>1, <2>1, <<q, p>> \in Nat \X Nat DEF OpToRel
  <2> QED
    BY <2>1, <2>2
<1>3. \E x \in S : \A q \in S : x <= q
  BY <1>2
<1> QED
  BY <1>3, Zenon DEF Min

\* The sums of the capacity and of the effort are totals.
LEMMA SumOfIs == ASSUME NEW f, NEW S, DOMAIN f = S PROVE SumOf(f) = Total(f, S)
<1>1. SumOf(f) = Total(f, DOMAIN f)
  BY Zenon DEF SumOf, Total
<1> QED
  BY <1>1

\* A whole number goes at least once into one that is not smaller.
LEMMA GoesOnce == ASSUME NEW t \in Nat, NEW d \in Nat \ {0}, t >= d PROVE t \div d >= 1
OBVIOUS

\* The SKU covers what it is looked up with, or is the largest.
LEMMA SkuCovers == ASSUME NEW units
                   PROVE  SmallestSkuCovering(units) * PerCU * 10 >= units \/ SmallestSkuCovering(units) = LargestSku
<1> DEFINE covering == {s \in ToSet(SkuTable) : s * PerCU * 10 >= units}
<1>1. ToSet(SkuTable) \subseteq Nat
  BY DEF ToSet, SkuTable
<1>2. covering # {} => Min(covering) \in covering
  <2>1. covering \subseteq Nat
    BY <1>1
  <2> HIDE DEF covering
  <2> QED
    BY <2>1, LeastIs
<1>3. SmallestSkuCovering(units) = IF covering = {} THEN LargestSku ELSE Min(covering)
  BY Zenon DEF SmallestSkuCovering
<1> QED
  BY <1>2, <1>3

\* The largest of zero and the numbers of a finite set is one.
LEMMA PeakInt == ASSUME NEW S, IsFiniteSet(S), S \subseteq Int PROVE Max({0} \cup S) \in Int
<1>1. IsFiniteSet({0} \cup S)
  BY FS_Singleton, FS_Union
<1>2. Numbers({0} \cup S) /\ {0} \cup S # {}
  BY DEF Numbers
<1> QED
  BY <1>1, <1>2, Largest DEF Numbers

\* What the peak of the warehouses, of the pipelines and of serverless comes to.
LEMMA DwuInt == ASSUME NEW a, ArtefactOf("monitoring", a) PROVE DwuUnits(a.series) \in Int
<1> DEFINE series == a.series
           both(p) == {ts \in DOMAIN series[p].limit \cap DOMAIN series[p].used : series[p].used[ts] # NotGiven}
           load(p) == [ts \in both(p) |-> (series[p].limit[ts] * series[p].used[ts]) \div 100]
           of == [p \in DOMAIN series |-> {load(p)[ts] : ts \in both(p)}]
           each(p) == {(series[p].limit[ts] * series[p].used[ts]) \div 100 : ts \in both(p)}
           all == {of[p] : p \in DOMAIN series}
<1>1. IsFiniteSet(DOMAIN series) /\ \A p \in DOMAIN series : Measured(series[p])
  BY DEF ArtefactOf
<1>2. ASSUME NEW p \in DOMAIN series
      PROVE  IsFiniteSet(of[p]) /\ of[p] \subseteq Int /\ of[p] = each(p)
  <2>1. IsFiniteSet(both(p))
    BY <1>1, FS_Subset DEF Measured
  <2>2. \A ts \in both(p) : series[p].limit[ts] \in Nat /\ series[p].used[ts] \in Nat
    BY <1>1 DEF Measured
  <2>3. \A ts \in both(p) : load(p)[ts] \in Int
    BY <2>2
  <2>4. {load(p)[ts] : ts \in both(p)} = each(p)
    <3> HIDE DEF both
    <3> QED
      OBVIOUS
  <2>5. IsFiniteSet({load(p)[ts] : ts \in both(p)}) /\ {load(p)[ts] : ts \in both(p)} \subseteq Int
    <3> HIDE DEF both, load
    <3> QED
      BY <2>1, <2>3, FiniteImage
  <2> HIDE DEF both, load, each
  <2> QED
    BY <2>4, <2>5
<1>3. PeakDwu(series) = Max({0} \cup UNION all)
  <2>1. PeakDwu(series) = Max({0} \cup UNION {each(p) : p \in DOMAIN series})
    BY Zenon DEF PeakDwu
  <2> HIDE DEF of, each
  <2>2. {each(p) : p \in DOMAIN series} = {of[p] : p \in DOMAIN series}
    BY <1>2
  <2> QED
    BY <2>1, <2>2
<1>4. IsFiniteSet(UNION all) /\ UNION all \subseteq Int
  <2> HIDE DEF of
  <2>1. IsFiniteSet(all)
    BY <1>1, FiniteImage
  <2>2. \A T \in all : IsFiniteSet(T) /\ T \subseteq Int
    BY <1>2
  <2> HIDE DEF all
  <2> QED
    BY <2>1, <2>2, FS_UNION
<1>5. PeakDwu(series) \in Int
  <2> HIDE DEF all
  <2> QED
    BY <1>3, <1>4, PeakInt
<1> QED
  BY <1>5 DEF DwuUnits, PerDWU

\* What a Spark artefact says of its windows.
SparkAccount(spark) == /\ IsFiniteSet(spark.groups) /\ spark.legacy \in BOOLEAN
                       /\ \A g \in spark.groups : SparkWindows(g.windows)

\* The window of Spark is one that every group has.
LEMMA WindowIs ==
    ASSUME NEW spark, SparkAccount(spark), CommonWindows(spark) # {}
    PROVE  /\ SparkWindow(spark) \in Nat \ {0}
           /\ \A g \in spark.groups : SparkWindow(spark) \in DOMAIN g.windows
<1>1. CommonWindows(spark) \subseteq Nat \ {0}
  BY DEF CommonWindows, SparkAccount, SparkWindows
<1>2. SparkWindow(spark) \in CommonWindows(spark)
  BY <1>1, LeastIs DEF SparkWindow
<1> QED
  BY <1>1, <1>2 DEF CommonWindows

LEMMA SelectedAre ==
    ASSUME NEW spark, SparkAccount(spark), CommonWindows(spark) # {}
    PROVE  /\ IsFiniteSet(SelectedWindows(spark))
           /\ \A s \in SelectedWindows(spark) : /\ s.window.cu \in Nat /\ s.window.unknown \in Nat \cup {NotGiven}
                                               /\ s.window.averages \in BOOLEAN
<1> DEFINE f == [g \in spark.groups |-> [group |-> g.group, window |-> g.windows[SparkWindow(spark)]]]
<1>1. SelectedWindows(spark) = {f[g] : g \in spark.groups}
  BY DEF SelectedWindows
<1>2. IsFiniteSet({f[g] : g \in spark.groups})
  <2> HIDE DEF f
  <2> QED
    BY FiniteImage DEF SparkAccount
<1>3. ASSUME NEW s \in SelectedWindows(spark)
      PROVE  /\ s.window.cu \in Nat /\ s.window.unknown \in Nat \cup {NotGiven}
             /\ s.window.averages \in BOOLEAN
  <2>1. PICK g \in spark.groups : s = [group |-> g.group, window |-> g.windows[SparkWindow(spark)]]
    BY DEF SelectedWindows
  <2>2. s.window = g.windows[SparkWindow(spark)] /\ SparkWindow(spark) \in DOMAIN g.windows
    BY <2>1, WindowIs
  <2>3. SparkWindows(g.windows)
    BY DEF SparkAccount
  <2> QED
    BY <2>2, <2>3 DEF SparkWindows
<1> QED
  BY <1>1, <1>2, <1>3

\* The CU-hours of a day: none unless every window says what it consumed, and one
\* at least when a group consumed as many as its window has days.
LEMMA SparkDailyIs ==
    ASSUME NEW spark, SparkAccount(spark)
    PROVE  /\ SparkDaily(spark) \in Int
           /\ SparkDaily(spark) # 0 => spark.groups # {} /\ CommonWindows(spark) # {} /\ ~SparkUnavailable(spark)
           /\ spark.groups # {} /\ CommonWindows(spark) # {} /\ ~SparkUnavailable(spark) =>
                \A s \in SelectedWindows(spark) : s.window.cu >= SparkWindow(spark) => SparkDaily(spark) >= 1
<1> DEFINE S == SelectedWindows(spark)
           f == [s \in S |-> s.window.cu]
           d == SparkWindow(spark)
<1>1. spark.groups = {} \/ CommonWindows(spark) = {} \/ SparkUnavailable(spark) => SparkDaily(spark) = 0
  BY DEF SparkDaily
<1>2. CASE spark.groups # {} /\ CommonWindows(spark) # {} /\ ~SparkUnavailable(spark)
  <2>1. SparkDaily(spark) = SumOf(f) \div d
    BY <1>2, Zenon DEF SparkDaily
  <2>2. IsFiniteSet(S) /\ (\A s \in S : f[s] \in Nat /\ f[s] = s.window.cu) /\ DOMAIN f = S
    BY <1>2, SelectedAre
  <2>3. d \in Nat \ {0}
    BY <1>2, WindowIs
  <2> HIDE DEF f, S, d
  <2>4. SumOf(f) = Total(f, S) /\ Total(f, S) \in Nat
    BY <2>2, SumOfIs, TotalNat
  <2>5. SumOf(f) \div d \in Int
    BY <2>3, <2>4
  <2>6. ASSUME NEW s \in S, s.window.cu >= d
        PROVE  SumOf(f) \div d >= 1
    <3>1. f[s] \in Int
      BY <2>2
    <3>0. Total(f, {s}) = f[s]
      BY <3>1, TotalOne
    <3>2. Total(f, {s}) <= Total(f, S)
      BY <2>2, TotalPart
    <3>3. SumOf(f) >= d
      BY <2>2, <2>3, <2>4, <2>6, <3>0, <3>2
    <3> QED
      BY <2>3, <2>4, <3>3, GoesOnce
  <2> QED
    BY <1>2, <2>1, <2>5, <2>6 DEF S, d
<1> QED
  BY <1>1, <1>2

\* Windows of pipelines, and the peak among them.
LEMMA PipelinePeakInt ==
    ASSUME NEW p, PipelineWindows(p.windows), DOMAIN p.windows # {}
    PROVE  PipelinePeak(p) \in Int
<1> DEFINE W == DOMAIN p.windows
           days == IF 7 \in W THEN 7 ELSE Min(W)
           w == p.windows[days]
           total == w.diu + w.vcore + w.orchestration
<1>1. W # {}
  OBVIOUS
<1>2. days \in W /\ days \in Nat \ {0}
  BY <1>1, LeastIs DEF PipelineWindows
<1>3. total \in Nat /\ w.peak \in Nat \cup {NotGiven}
  <2> HIDE DEF days
  <2>1. Counted(w, {"diu", "vcore", "orchestration"}) /\ w.peak \in Nat \cup {NotGiven}
    BY <1>2 DEF PipelineWindows
  <2> HIDE DEF w
  <2>2. w.diu \in Nat /\ w.vcore \in Nat /\ w.orchestration \in Nat
    BY <2>1 DEF Counted
  <2> QED
    BY <2>1, <2>2
<1>4. PipelinePeak(p) = IF w.peak # NotGiven THEN w.peak ELSE (2 * total) \div Max({2, days})
  BY Zenon DEF PipelinePeak
<1> HIDE DEF total, days, w
<1>5. Max({2, days}) \in Nat \ {0}
  BY <1>2, TwoIs
<1>6. (2 * total) \div Max({2, days}) \in Int
  BY <1>3, <1>5
<1> QED
  BY <1>3, <1>4, <1>6

LEMMA PipelinesInt == ASSUME NEW a, ArtefactOf("pipelines", a) PROVE PipelinesPeak(a.run_history) \in Int
<1> DEFINE S == {p \in a.run_history : DOMAIN p.windows # {}}
           f == [p \in S |-> PipelinePeak(p)]
<1>1. IsFiniteSet(S)
  BY FS_Subset DEF ArtefactOf
<1>2. \A p \in S : f[p] \in Int
  BY PipelinePeakInt DEF ArtefactOf
<1>3. {PipelinePeak(p) : p \in S} = {f[p] : p \in S}
  OBVIOUS
<1>4. PipelinesPeak(a.run_history) = Max({0} \cup {PipelinePeak(p) : p \in S})
  BY Zenon DEF PipelinesPeak
<1> HIDE DEF S, f
<1>5. IsFiniteSet({f[p] : p \in S}) /\ {f[p] : p \in S} \subseteq Int
  BY <1>1, <1>2, FiniteImage
<1> QED
  BY <1>3, <1>4, <1>5, PeakInt

LEMMA ServerlessInt == ASSUME NEW a, ArtefactOf("serverless_pools", a) PROVE ServerlessPeak(a.daily_usage) \in Int
<1> DEFINE S == {d \in a.daily_usage : d > 0}
           f == [d \in S |-> d \div MbSecondsPerCentiHour]
<1>1. IsFiniteSet(S) /\ S \subseteq Int
  BY FS_Subset DEF ArtefactOf
<1>2. \A d \in S : f[d] \in Int
  BY <1>1 DEF MbSecondsPerCentiHour
<1>3. {d \div MbSecondsPerCentiHour : d \in S} = {f[d] : d \in S}
  OBVIOUS
<1>4. ServerlessPeak(a.daily_usage) = Max({0} \cup {d \div MbSecondsPerCentiHour : d \in S})
  BY Zenon DEF ServerlessPeak
<1> HIDE DEF S, f
<1>5. IsFiniteSet({f[d] : d \in S}) /\ {f[d] : d \in S} \subseteq Int
  BY <1>1, <1>2, FiniteImage
<1> QED
  BY <1>3, <1>4, <1>5, PeakInt

\* A projection and what is said of Spark in it.
WithSpark(sized, warnings, peak) == [sized EXCEPT !.warnings = warnings, !.sparkPeakDay = peak]

\* A projection holds the sum of its parts, with the headroom on each.
LEMMA ProjectIs ==
    ASSUME NEW d \in Int, NEW s \in Int, NEW p \in Int, NEW l \in Int, Project(d, s, p, l) # NoProjection,
           NEW warnings, NEW peak, NEW r, r = WithSpark(Project(d, s, p, l), warnings, peak)
    PROVE  /\ r.sku * PerCU * 10 >= r.estimated \/ r.sku = LargestSku
           /\ r.dwu + r.spark + r.pipelines + r.serverless = r.estimated
           /\ r.spark = s * 13 /\ r.warnings = warnings
<1> DEFINE base == d + s + p + l
           sku == SmallestSkuCovering(base * 13)
           whole == [sku |-> sku, estimated |-> base * 13,
                     dwu |-> d * 13, spark |-> s * 13, pipelines |-> p * 13, serverless |-> l * 13,
                     warnings |-> {}, sparkPeakDay |-> NotGiven]
<1>1. Project(d, s, p, l) = whole
  BY Zenon DEF Project, HeadroomTenths
<1>2. sku * PerCU * 10 >= base * 13 \/ sku = LargestSku
  BY SkuCovers
<1> HIDE DEF sku
<1>3. /\ r.sku = sku /\ r.estimated = base * 13 /\ r.dwu = d * 13 /\ r.spark = s * 13 /\ r.pipelines = p * 13
      /\ r.serverless = l * 13 /\ r.warnings = warnings
  <2> HIDE DEF base
  <2> QED
    BY <1>1 DEF WithSpark
<1>4. d * 13 + s * 13 + p * 13 + l * 13 = base * 13
  OBVIOUS
<1> HIDE DEF base
<1> QED
  BY <1>2, <1>3, <1>4

\* The projection covers the sum of its parts, and Spark is in it when it is known.
LEMMA Honest == ASSUME MapInv PROVE ProjectionHonest
<1> SUFFICES ASSUME fmStage = "done", projection # NoProjection
             PROVE  ProjectionHonest
  BY DEF ProjectionHonest, Reported
<1> DEFINE has(m) == m \in Parsed
           spark == artefacts["spark_pools"].accounting
           d == IF has("monitoring") THEN DwuUnits(artefacts["monitoring"].series) ELSE 0
           s == IF has("spark_pools") THEN SparkDaily(spark) ELSE 0
           p == IF has("pipelines") THEN PipelinesPeak(artefacts["pipelines"].run_history) ELSE 0
           l == IF has("serverless_pools") THEN ServerlessPeak(artefacts["serverless_pools"].daily_usage) ELSE 0
           said == IF has("spark_pools") THEN SparkWarnings(spark) ELSE {}
           peak == IF has("spark_pools") THEN SparkPeakDay(spark) ELSE NotGiven
<1>1. \A m : has(m) => m \in DOMAIN artefacts /\ ArtefactOf(m, artefacts[m])
  BY DEF MapInv, InputsSay, Parsed
<1>2. has("spark_pools") => SparkAccount(spark)
  BY <1>1 DEF ArtefactOf, SparkAccount
<1>3. d \in Int /\ s \in Int /\ p \in Int /\ l \in Int
  BY <1>1, <1>2, DwuInt, SparkDailyIs, PipelinesInt, ServerlessInt
<1>4. projection = IF Project(d, s, p, l) = NoProjection THEN Project(d, s, p, l)
                   ELSE WithSpark(Project(d, s, p, l), said, peak)
  <2>1. projection = Projected
    BY DEF MapInv, PartsFollow
  <2> QED
    BY <2>1, Zenon DEF Projected, WithSpark
<1> HIDE DEF d, p, l, peak, said, s
<1>5. Project(d, s, p, l) # NoProjection /\ projection = WithSpark(Project(d, s, p, l), said, peak)
  BY <1>4
<1>6. /\ projection.sku * PerCU * 10 >= projection.estimated \/ projection.sku = LargestSku
      /\ projection.dwu + projection.spark + projection.pipelines + projection.serverless = projection.estimated
      /\ projection.spark = s * 13 /\ projection.warnings = said
  BY <1>3, <1>5, ProjectIs
<1> DEFINE apart == CommonWindows(spark) = {}
           whole == ~apart /\ \A w \in SelectedWindows(spark) : w.window.unknown = 0
<1>7. ASSUME has("spark_pools"), spark.groups # {}
      PROVE  /\ projection.spark > 0 => spark.complete # "no" /\ (whole \/ spark.legacy)
             /\ ~apart /\ projection.spark = 0 /\ (\E w \in SelectedWindows(spark) : w.window.cu >= SparkWindow(spark))
                => projection.warnings \cap {"incomplete", "excluded", "unknown consumption"} # {}
             /\ apart => "no common window" \in projection.warnings
  <2>1. s = SparkDaily(spark) /\ said = SparkWarnings(spark) /\ SparkAccount(spark)
    BY <1>2, <1>7 DEF s, said
  <2> HIDE DEF spark
  <2>2. projection.spark > 0 => spark.complete # "no" /\ (whole \/ spark.legacy)
    <3> SUFFICES ASSUME projection.spark > 0
                 PROVE  spark.complete # "no" /\ (whole \/ spark.legacy)
      OBVIOUS
    <3>1. ~apart /\ ~SparkUnavailable(spark)
      BY <1>3, <1>6, <2>1, SparkDailyIs
    <3>2. \A w \in SelectedWindows(spark) : w.window.unknown \in Nat \cup {NotGiven}
      BY <2>1, <3>1, SelectedAre
    <3> QED
      BY <3>1, <3>2 DEF SparkUnavailable, NotGiven
  <2>3. ASSUME ~apart, projection.spark = 0, NEW w \in SelectedWindows(spark), w.window.cu >= SparkWindow(spark)
        PROVE  projection.warnings \cap {"incomplete", "excluded", "unknown consumption"} # {}
    <3>1. SparkUnavailable(spark)
      BY <1>3, <1>6, <1>7, <2>1, <2>3, SparkDailyIs
    <3>2. \/ spark.complete = "no"
          \/ \E x \in SelectedWindows(spark) : x.window.unknown > 0
          \/ ~spark.legacy
      BY <3>1 DEF SparkUnavailable
    <3>3. \/ "incomplete" \in said \/ "unknown consumption" \in said \/ "excluded" \in said
      BY <1>7, <2>1, <2>3, <3>1, <3>2 DEF SparkWarnings
    <3> QED
      BY <1>6, <3>3
  <2>4. apart => "no common window" \in said
    BY <1>7, <2>1 DEF SparkWarnings
  <2> QED
    BY <1>6, <2>2, <2>3, <2>4
<1> QED
  BY <1>6, <1>7 DEF ProjectionHonest

(***************************************************************************)
(* The hours: shared out over the steps of the runbook as fractions, and   *)
(* rounded step by step.                                                   *)
(***************************************************************************)

\* Division by what two products share.
LEMMA Cancelled == ASSUME NEW d \in Nat \ {0}, NEW x \in Int, NEW y \in Int, d * x <= d * y PROVE x <= y
OBVIOUS

\* A multiple, and the whole number nearest to a fraction.
LEMMA Scaled == ASSUME NEW d \in Nat, NEW x \in Int, NEW y \in Int, x <= y PROVE d * x <= d * y
<1>1. d * (y - x) >= 0
  OBVIOUS
<1>2. d * (y - x) = d * y - d * x
  OBVIOUS
<1> QED
  BY <1>1, <1>2

LEMMA Nearest == ASSUME NEW t \in Nat, NEW b \in Nat \ {0}, NEW p, p = (2 * t + b) \div (2 * b)
                 PROVE  p \in Nat /\ 2 * b * p <= 2 * t + b /\ 2 * t + b <= 2 * b * p + 2 * b
<1> DEFINE x == 2 * t + b
           d == 2 * b
<1>1. x \in Nat /\ d \in Nat \ {0}
  OBVIOUS
<1>2. p = x \div d
  OBVIOUS
<1> HIDE DEF x, d
<1>3. p \in Nat /\ d * p <= x /\ x <= d * p + d
  BY <1>1, <1>2
<1> QED
  BY <1>3 DEF x, d

\* What rounding takes from a step or adds to it, in parts of a common multiple.
LEMMA StepBound ==
    ASSUME NEW b \in Nat \ {0}, NEW v \in Nat \ {0}, NEW d \in Nat \ {0}, NEW top \in Nat, NEW e \in Nat, e * b = d * top,
           NEW p, p = (2 * (10 * top) + b * v) \div (2 * (b * v))
    PROVE  p \in Nat /\ v * d * p <= 10 * e + v * d /\ 10 * e - v * d <= v * d * p
<1> DEFINE c == b * v
           t == 10 * top
<1>1. c \in Nat \ {0} /\ t \in Nat
  OBVIOUS
<1>2. p = (2 * t + c) \div (2 * c)
  OBVIOUS
<1>3. p \in Nat /\ 2 * c * p <= 2 * t + c /\ 2 * t + c <= 2 * c * p + 2 * c
  <2> HIDE DEF c, t
  <2> QED
    BY <1>1, <1>2, Nearest
<1>4. d * (2 * c * p) <= d * (2 * t + c) /\ d * (2 * t + c) <= d * (2 * c * p + 2 * c)
  <2> HIDE DEF c, t
  <2>1. 2 * c * p \in Int /\ 2 * t + c \in Int /\ 2 * c * p + 2 * c \in Int
    BY <1>1, <1>3
  <2> QED
    BY <1>3, <2>1, Scaled
<1>5. p \in Nat
  BY <1>3
<1>6. d * (2 * c * p) = b * (2 * (v * d * p))
  BY <1>5
<1>7. d * (2 * t + c) = b * (20 * e + v * d)
  <2>1. d * (2 * t + c) = 20 * (d * top) + b * (v * d)
    OBVIOUS
  <2>2. b * (20 * e + v * d) = 20 * (e * b) + b * (v * d)
    OBVIOUS
  <2> QED
    BY <2>1, <2>2
<1>8. d * (2 * c * p + 2 * c) = b * (2 * (v * d * p) + 2 * (v * d))
  BY <1>5
<1> HIDE DEF c, t
<1> DEFINE w == v * d
           z == v * d * p
<1>9. w \in Nat /\ z \in Nat
  BY <1>5
<1>10. b * (2 * z) <= b * (20 * e + w) /\ b * (20 * e + w) <= b * (2 * z + 2 * w)
  BY <1>4, <1>6, <1>7, <1>8
<1> HIDE DEF w, z
<1>11. 2 * z <= 20 * e + w /\ 20 * e + w <= 2 * z + 2 * w
  <2>1. 2 * z \in Int /\ 20 * e + w \in Int /\ 2 * z + 2 * w \in Int
    BY <1>9
  <2> QED
    BY <1>10, <2>1, Cancelled
<1>12. z <= 10 * e + w /\ 10 * e - w <= z
  BY <1>9, <1>11
<1> QED
  BY <1>5, <1>12 DEF w, z

\* The exact hours of a step, in parts of a common multiple.
LEMMA ExactShare ==
    ASSUME NEW d \in Nat, NEW n \in Nat, NEW m \in Nat, NEW q \in Nat, NEW r \in Nat, d = n * q, d = m * r,
           NEW h \in Nat, NEW b \in Nat
    PROVE  (h * q + b * r) * (n * m) = d * (h * m + b * n)
<1>1. (h * q + b * r) * (n * m) = h * m * (n * q) + b * n * (m * r)
  OBVIOUS
<1>2. h * m * (n * q) + b * n * (m * r) = h * m * d + b * n * d
  OBVIOUS
<1>3. h * m * d + b * n * d = d * (h * m + b * n)
  OBVIOUS
<1> QED
  BY <1>1, <1>2, <1>3

\* A number that all up to k divide.
LEMMA CommonMultiple == ASSUME NEW k \in Nat PROVE \E d \in Nat \ {0} : \A i \in 1..k : \E q \in Nat : d = i * q
<1> DEFINE Has(n) == \E d \in Nat \ {0} : \A i \in 1..n : \E q \in Nat : d = i * q
           Bad == {n \in Nat : ~Has(n)}
<1>1. SUFFICES ASSUME Bad # {}
               PROVE  FALSE
  BY <1>1
<1> DEFINE n == Min(Bad)
<1>2. n \in Bad /\ \A x \in Bad : n <= x
  <2>1. Bad \subseteq Nat
    OBVIOUS
  <2> HIDE DEF Bad
  <2> QED
    BY <1>1, <2>1, LeastIs
<1>3. n \in Nat /\ ~Has(n)
  BY <1>2
<1> HIDE DEF n
<1>4. n # 0
  <2>1. Has(0)
    <3>1. \A i \in 1..0 : \E q \in Nat : 1 = i * q
      OBVIOUS
    <3> QED
      BY <3>1
  <2> QED
    BY <1>3, <2>1
<1>5. Has(n - 1)
  <2>1. n - 1 \in Nat /\ ~(n <= n - 1)
    BY <1>3, <1>4
  <2> HIDE DEF Has
  <2> QED
    BY <1>2, <2>1
<1>6. PICK d \in Nat \ {0} : \A i \in 1..(n - 1) : \E q \in Nat : d = i * q
  BY <1>5
<1> DEFINE e == d * n
<1>7. e \in Nat \ {0}
  BY <1>3, <1>4
<1>8. ASSUME NEW i \in 1..n
      PROVE  \E q \in Nat : e = i * q
  <2>1. CASE i = n
    <3>1. e = i * d
      BY <1>3, <2>1
    <3> QED
      BY <3>1
  <2>2. CASE i # n
    <3>1. i \in 1..(n - 1)
      BY <1>3, <2>2
    <3>2. PICK q \in Nat : d = i * q
      BY <1>6, <3>1
    <3>3. i \in Nat
      BY <1>3
    <3>4. e = i * (q * n) /\ q * n \in Nat
      BY <1>3, <3>2, <3>3
    <3> QED
      BY <3>4
  <2> QED
    BY <2>1, <2>2
<1> HIDE DEF e
<1>9. Has(n)
  BY <1>7, <1>8
<1> QED
  BY <1>3, <1>9

\* A pot for each key, shared out evenly over those that have the key, in parts of
\* d: all of it is handed out.
LEMMA PotsSum ==
    ASSUME NEW R, NEW key, NEW K, NEW by, NEW pot, NEW d \in Int, NEW u, IsFiniteSet(R), IsFiniteSet(K),
           \A s \in R : key[s] \in K /\ u[s] \in Int, \A k \in K : by[k] = Total(u, {s \in R : key[s] = k}),
           \A k \in K : pot[k] \in Int /\ by[k] = d * pot[k]
    PROVE  Total(u, R) = d * Total(pot, K)
<1>1. Total(by, K) = Total(u, R)
  BY TotalByKey
<1>2. Total(by, K) = d * Total(pot, K)
  BY TotalScaled
<1> QED
  BY <1>1, <1>2

Shared(R, key, K, pot, d, part, u) ==
  /\ IsFiniteSet(R) /\ IsFiniteSet(K) /\ \A s \in R : key[s] \in K
  /\ d \in Nat /\ \A k \in K : pot[k] \in Nat /\ part[k] \in Nat /\ d = Cardinality({s \in R : key[s] = k}) * part[k]
  /\ \A s \in R : u[s] = pot[key[s]] * part[key[s]]

\* The parts of a step are whole, and all of what is in the pots is handed out.
LEMMA PotsShared ==
    ASSUME NEW R, NEW key, NEW K, NEW pot, NEW d, NEW part, NEW u, Shared(R, key, K, pot, d, part, u)
    PROVE  /\ \A s \in R : u[s] \in Nat
           /\ Total(u, R) = d * Total(pot, K)
<1> DEFINE by == [k \in K |-> d * pot[k]]
           of(k) == {s \in R : key[s] = k}
<1>1. \A s \in R : u[s] \in Nat
  <2>1. \A x, y \in Nat : x * y \in Nat
    OBVIOUS
  <2>2. \A s \in R : key[s] \in K /\ u[s] = pot[key[s]] * part[key[s]]
    BY Zenon DEF Shared
  <2>3. \A k \in K : pot[k] \in Nat /\ part[k] \in Nat
    BY Zenon DEF Shared
  <2> QED
    BY <2>1, <2>2, <2>3
<1>2. ASSUME NEW k \in K
      PROVE  by[k] = Total(u, of(k))
  <2> DEFINE c == pot[k] * part[k]
             n == Cardinality(of(k))
  <2>1. IsFiniteSet(of(k)) /\ n \in Nat
    BY FS_Subset, FS_CardinalityType DEF Shared
  <2>2. pot[k] \in Nat /\ part[k] \in Nat /\ d = n * part[k]
    BY DEF Shared
  <2>3. c \in Int /\ \A s \in of(k) : u[s] = c
    BY <2>2 DEF Shared
  <2>4. Total(u, of(k)) = c * n
    <3> HIDE DEF c, of
    <3> QED
      BY <2>1, <2>3, TotalConst
  <2>5. c * n = d * pot[k]
    <3> HIDE DEF n
    <3>1. \A x, y \in Nat : (x * y) * n = (n * y) * x
      BY <2>1
    <3> QED
      BY <2>2, <3>1
  <2> HIDE DEF c, n, of
  <2> QED
    BY <2>4, <2>5
<1>3. \A k \in K : by[k] = Total(u, {s \in R : key[s] = k})
  BY <1>2
<1>4. IsFiniteSet(R) /\ IsFiniteSet(K) /\ d \in Int
  BY DEF Shared
<1>5. \A s \in R : key[s] \in K /\ u[s] \in Int
  BY <1>1 DEF Shared
<1>6. \A k \in K : pot[k] \in Int /\ by[k] = d * pot[k]
  <2>1. \A k \in K : pot[k] \in Nat
    BY Zenon DEF Shared
  <2>2. \A k \in K : by[k] = d * pot[k]
    OBVIOUS
  <2> HIDE DEF by
  <2> QED
    BY <2>1, <2>2
<1>7. Total(u, R) = d * Total(pot, K)
  <2> HIDE DEF by, of
  <2> QED
    BY <1>3, <1>4, <1>5, <1>6, PotsSum
<1> QED
  BY <1>1, <1>7

\* Steps that each have an even share of the hours of their area and of the base of
\* their phase, as a fraction, and hours of their own where there is neither.
Divided(R, A, F, area, phase, H, B, Q, n, m, top, bottom) ==
  /\ IsFiniteSet(R) /\ IsFiniteSet(A) /\ IsFiniteSet(F)
  /\ \A s \in R : area[s] \in A /\ phase[s] \in F /\ Q[s] \in Nat
  /\ \A a \in A : H[a] \in Nat /\ n[a] = Cardinality({s \in R : area[s] = a}) /\ n[a] # 0
  /\ \A f \in F : B[f] \in Nat /\ m[f] = Cardinality({s \in R : phase[s] = f}) /\ m[f] # 0
  /\ \A s \in R :
       IF H[area[s]] * m[phase[s]] + B[phase[s]] * n[area[s]] > 0
       THEN top[s] = H[area[s]] * m[phase[s]] + B[phase[s]] * n[area[s]] /\ bottom[s] = n[area[s]] * m[phase[s]]
       ELSE top[s] = Q[s] /\ bottom[s] = 1

\* In parts of a common multiple the shares are whole, and together they are the hours.
LEMMA ExactSum ==
    ASSUME NEW R, NEW A, NEW F, NEW area, NEW phase, NEW H, NEW B, NEW Q, NEW n, NEW m, NEW top, NEW bottom
    PROVE  Divided(R, A, F, area, phase, H, B, Q, n, m, top, bottom) =>
             \E d \in Nat \ {0} : \E e \in [R -> Nat] :
               /\ \A s \in R : top[s] \in Nat /\ bottom[s] \in Nat \ {0} /\ e[s] * bottom[s] = d * top[s]
               /\ Total(e, R) = d * (Total(H, A) + Total(B, F) + Total(Q, {s \in R : H[area[s]] = 0 /\ B[phase[s]] = 0}))
<1>0. SUFFICES ASSUME Divided(R, A, F, area, phase, H, B, Q, n, m, top, bottom)
               PROVE  \E d \in Nat \ {0} : \E e \in [R -> Nat] :
                        /\ \A s \in R : top[s] \in Nat /\ bottom[s] \in Nat \ {0} /\ e[s] * bottom[s] = d * top[s]
                        /\ Total(e, R) = d * (Total(H, A) + Total(B, F) + Total(Q, {s \in R : H[area[s]] = 0 /\ B[phase[s]] = 0}))
  BY <1>0
<1> DEFINE k == Cardinality(R)
           bare == {s \in R : H[area[s]] = 0 /\ B[phase[s]] = 0}
<1>1. IsFiniteSet(R) /\ IsFiniteSet(A) /\ IsFiniteSet(F) /\ k \in Nat
  BY <1>0, FS_CardinalityType DEF Divided
<1>2. \A s \in R : area[s] \in A /\ phase[s] \in F /\ Q[s] \in Nat
  BY <1>0, Zenon DEF Divided
<1>3. \A a \in A : H[a] \in Nat /\ n[a] = Cardinality({s \in R : area[s] = a}) /\ n[a] # 0
  BY <1>0, Zenon DEF Divided
<1>4. \A f \in F : B[f] \in Nat /\ m[f] = Cardinality({s \in R : phase[s] = f}) /\ m[f] # 0
  BY <1>0, Zenon DEF Divided
<1>34. (\A a \in A : H[a] \in Nat) /\ (\A f \in F : B[f] \in Nat)
  BY <1>3, <1>4, Zenon
<1>5. PICK d \in Nat \ {0} : \A i \in 1..k : \E q \in Nat : d = i * q
  BY <1>1, CommonMultiple
<1>6. \A S \in SUBSET R : Cardinality(S) # 0 => Cardinality(S) \in 1..k
  BY <1>1, FS_Subset, FS_CardinalityType
<1>7. (\A a \in A : n[a] \in 1..k) /\ (\A f \in F : m[f] \in 1..k)
  <2>1. \A a \in A : {s \in R : area[s] = a} \in SUBSET R
    OBVIOUS
  <2>2. \A f \in F : {s \in R : phase[s] = f} \in SUBSET R
    OBVIOUS
  <2> QED
    BY <1>3, <1>4, <1>6, <2>1, <2>2
<1> DEFINE q == [a \in A |-> CHOOSE x \in Nat : d = n[a] * x]
           r == [f \in F |-> CHOOSE x \in Nat : d = m[f] * x]
<1>8. \A a \in A : q[a] \in Nat /\ d = n[a] * q[a]
  <2>1. ASSUME NEW a \in A PROVE q[a] \in Nat /\ d = n[a] * q[a]
    <3>1. \E x \in Nat : d = n[a] * x
      BY <1>5, <1>7
    <3>2. q[a] = CHOOSE x \in Nat : d = n[a] * x
      OBVIOUS
    <3> HIDE DEF q
    <3> QED
      BY <3>1, <3>2
  <2> QED
    BY <2>1
<1>9. \A f \in F : r[f] \in Nat /\ d = m[f] * r[f]
  <2>1. ASSUME NEW f \in F PROVE r[f] \in Nat /\ d = m[f] * r[f]
    <3>1. \E x \in Nat : d = m[f] * x
      BY <1>5, <1>7
    <3>2. r[f] = CHOOSE x \in Nat : d = m[f] * x
      OBVIOUS
    <3> HIDE DEF r
    <3> QED
      BY <3>1, <3>2
  <2> QED
    BY <2>1
<1> HIDE DEF q, r, k
<1> DEFINE u == [s \in R |-> H[area[s]] * q[area[s]]]
           v == [s \in R |-> B[phase[s]] * r[phase[s]]]
           w == [s \in R |-> IF s \in bare THEN d * Q[s] ELSE 0]
           uv == [s \in R |-> u[s] + v[s]]
           e == [s \in R |-> uv[s] + w[s]]
<1>10. (\A s \in R : u[s] \in Nat) /\ Total(u, R) = d * Total(H, A)
  <2>1. \A a \in A : H[a] \in Nat /\ q[a] \in Nat /\ d = Cardinality({s \in R : area[s] = a}) * q[a]
    BY <1>3, <1>8
  <2>2. \A s \in R : u[s] = H[area[s]] * q[area[s]]
    OBVIOUS
  <2> HIDE DEF u
  <2>3. d \in Nat
    BY <1>5
  <2>4. Shared(R, area, A, H, d, q, u)
    BY <1>1, <1>2, <2>1, <2>2, <2>3, Zenon DEF Shared
  <2> QED
    BY <2>4, PotsShared
<1>11. (\A s \in R : v[s] \in Nat) /\ Total(v, R) = d * Total(B, F)
  <2>1. \A f \in F : B[f] \in Nat /\ r[f] \in Nat /\ d = Cardinality({s \in R : phase[s] = f}) * r[f]
    BY <1>4, <1>9
  <2>2. \A s \in R : v[s] = B[phase[s]] * r[phase[s]]
    OBVIOUS
  <2> HIDE DEF v
  <2>3. d \in Nat
    BY <1>5
  <2>4. Shared(R, phase, F, B, d, r, v)
    BY <1>1, <1>2, <2>1, <2>2, <2>3, Zenon DEF Shared
  <2> QED
    BY <2>4, PotsShared
<1>12. (\A s \in R : w[s] \in Nat) /\ Total(w, R) = d * Total(Q, bare)
  <2>1. IsFiniteSet(bare) /\ IsFiniteSet(R \ bare) /\ bare \cap (R \ bare) = {} /\ bare \cup (R \ bare) = R
    BY <1>1, FS_Subset
  <2>2. \A s \in bare : s \in R /\ w[s] = d * Q[s] /\ Q[s] \in Int
    BY <1>2
  <2>3. \A s \in R \ bare : w[s] = 0
    OBVIOUS
  <2>4. \A s \in R : w[s] \in Nat
    <3>1. \A x \in Nat : d * x \in Nat
      BY <1>5
    <3> HIDE DEF bare
    <3> QED
      BY <1>2, <3>1
  <2> HIDE DEF bare, w
  <2>5. Total(w, bare) = d * Total(Q, bare)
    BY <1>5, <2>1, <2>2, TotalScaled
  <2>6. Total(w, R \ bare) = 0
    <3>1. Total(w, R \ bare) = 0 * Cardinality(R \ bare) /\ Cardinality(R \ bare) \in Nat
      BY <2>1, <2>3, TotalConst, FS_CardinalityType
    <3> QED
      BY <3>1
  <2>7. Total(w, bare \cup (R \ bare)) = Total(w, bare) + Total(w, R \ bare)
    <3>1. \A s \in bare \cup (R \ bare) : w[s] \in Int
      BY <2>1, <2>4
    <3> QED
      BY <2>1, <3>1, TotalUnion
  <2>8. Total(w, bare) \in Int
    <3>1. \A s \in bare : w[s] \in Int
      BY <2>2, <2>4
    <3> QED
      BY <2>1, <3>1, TotalInt
  <2>9. Total(w, R) = Total(w, bare) + Total(w, R \ bare)
    BY <2>1, <2>7, Zenon
  <2>10. Total(w, R) = d * Total(Q, bare)
    BY <2>5, <2>6, <2>8, <2>9
  <2> QED
    BY <2>4, <2>10
<1>13. e \in [R -> Nat]
  BY <1>10, <1>11, <1>12
<1>14. Total(e, R) = d * (Total(H, A) + Total(B, F) + Total(Q, bare))
  <2>1. \A s \in R : u[s] \in Int /\ v[s] \in Int /\ uv[s] = u[s] + v[s]
    BY <1>10, <1>11
  <2>2. \A s \in R : uv[s] \in Int /\ w[s] \in Int /\ e[s] = uv[s] + w[s]
    BY <1>10, <1>11, <1>12
  <2> HIDE DEF u, v, w, uv, e
  <2>3. Total(uv, R) = Total(u, R) + Total(v, R)
    BY <1>1, <2>1, TotalPlus
  <2>4. Total(e, R) = Total(uv, R) + Total(w, R)
    BY <1>1, <2>2, TotalPlus
  <2>5. Total(H, A) \in Int /\ Total(B, F) \in Int /\ Total(Q, bare) \in Int
    <3>1. \A a \in A : H[a] \in Int
      BY <1>34
    <3>2. \A f \in F : B[f] \in Int
      BY <1>34
    <3>3. IsFiniteSet(bare) /\ \A s \in bare : Q[s] \in Int
      BY <1>1, <1>2, FS_Subset
    <3> HIDE DEF bare
    <3>4. Total(H, A) \in Int
      BY <1>1, <3>1, TotalInt
    <3>5. Total(B, F) \in Int
      BY <1>1, <3>2, TotalInt
    <3>6. Total(Q, bare) \in Int
      BY <3>3, TotalInt
    <3> QED
      BY <3>4, <3>5, <3>6
  <2> DEFINE x == Total(H, A)
             y == Total(B, F)
             z == Total(Q, bare)
  <2>6. Total(e, R) = d * x + d * y + d * z
    BY <1>10, <1>11, <1>12, <2>3, <2>4
  <2>7. x \in Int /\ y \in Int /\ z \in Int /\ d \in Int
    BY <1>5, <2>5
  <2> HIDE DEF x, y, z
  <2>8. d * x + d * y + d * z = d * (x + y + z)
    BY <2>7
  <2> QED
    BY <2>6, <2>8 DEF x, y, z
<1>15. ASSUME NEW s \in R
       PROVE  top[s] \in Nat /\ bottom[s] \in Nat \ {0} /\ e[s] * bottom[s] = d * top[s]
  <2> DEFINE h == H[area[s]]
             b == B[phase[s]]
             i == n[area[s]]
             j == m[phase[s]]
             y == q[area[s]]
             z == r[phase[s]]
             t == h * j + b * i
  <2>1. h \in Nat /\ i \in Nat \ {0} /\ y \in Nat /\ d = i * y
    BY <1>1, <1>2, <1>34, <1>7, <1>8
  <2>2. b \in Nat /\ j \in Nat \ {0} /\ z \in Nat /\ d = j * z
    BY <1>1, <1>2, <1>34, <1>7, <1>9
  <2>3. IF t > 0 THEN top[s] = t /\ bottom[s] = i * j ELSE top[s] = Q[s] /\ bottom[s] = 1
    BY <1>0, Zenon DEF Divided
  <2>4. e[s] = h * y + b * z + (IF s \in bare THEN d * Q[s] ELSE 0)
    <3> HIDE DEF bare
    <3> QED
      OBVIOUS
  <2>5. s \in bare <=> h = 0 /\ b = 0
    OBVIOUS
  <2> HIDE DEF e, bare, u, v, w, uv, h, b, i, j, y, z
  <2>6. CASE t > 0
    <3>1. ~(h = 0 /\ b = 0)
      <4>1. h = 0 /\ b = 0 => t = 0
        BY <2>1, <2>2
      <4> QED
        BY <2>6, <4>1
    <3>2. e[s] = h * y + b * z
      BY <2>1, <2>2, <2>4, <2>5, <3>1
    <3>3. (h * y + b * z) * (i * j) = d * t
      BY <1>5, <2>1, <2>2, ExactShare
    <3>4. t \in Nat /\ i * j \in Nat \ {0}
      BY <2>1, <2>2
    <3> HIDE DEF t
    <3> QED
      BY <2>3, <2>6, <3>2, <3>3, <3>4
  <2>7. CASE ~(t > 0)
    <3>1. h = 0 /\ b = 0
      <4>1. h * j >= 0 /\ b * i >= 0 /\ h * j \in Int /\ b * i \in Int
        BY <2>1, <2>2
      <4>2. h * j = 0 /\ b * i = 0
        BY <2>7, <4>1
      <4> QED
        BY <2>1, <2>2, <4>2
    <3>2. e[s] = d * Q[s]
      <4>1. h * y + b * z = 0
        BY <2>1, <2>2, <3>1
      <4>2. d * Q[s] \in Int
        BY <1>2, <1>5
      <4> QED
        BY <2>4, <2>5, <3>1, <4>1, <4>2
    <3>3. top[s] = Q[s] /\ bottom[s] = 1
      BY <2>3, <2>7
    <3> QED
      BY <1>2, <1>5, <3>2, <3>3
  <2> QED
    BY <2>6, <2>7
<1> HIDE DEF e, bare
<1> QED
  BY <1>5, <1>13, <1>14, <1>15 DEF bare

\* Rounded to whole numbers the shares are the hours again, but for one each.
LEMMA RoundedSum ==
    ASSUME NEW R, NEW A, NEW F, NEW area, NEW phase, NEW H, NEW B, NEW Q, NEW n, NEW m, NEW top, NEW bottom,
           NEW v \in Nat \ {0}, NEW p, NEW hours
    PROVE  /\ Divided(R, A, F, area, phase, H, B, Q, n, m, top, bottom)
           /\ \A s \in R : p[s] = Rounded(10 * top[s], bottom[s] * v)
           /\ hours = Total(H, A) + Total(B, F) + Total(Q, {s \in R : H[area[s]] = 0 /\ B[phase[s]] = 0})
           => /\ \A s \in R : p[s] \in Nat /\ top[s] \in Nat /\ bottom[s] \in Nat \ {0}
              /\ hours \in Int
              /\ -Cardinality(R) * v <= Total(p, R) * v - 10 * hours /\ Total(p, R) * v - 10 * hours <= Cardinality(R) * v
<1>0. SUFFICES ASSUME Divided(R, A, F, area, phase, H, B, Q, n, m, top, bottom),
                      \A s \in R : p[s] = Rounded(10 * top[s], bottom[s] * v),
                      hours = Total(H, A) + Total(B, F) + Total(Q, {s \in R : H[area[s]] = 0 /\ B[phase[s]] = 0})
               PROVE  /\ \A s \in R : p[s] \in Nat /\ top[s] \in Nat /\ bottom[s] \in Nat \ {0}
                      /\ hours \in Int
                      /\ -Cardinality(R) * v <= Total(p, R) * v - 10 * hours
                      /\ Total(p, R) * v - 10 * hours <= Cardinality(R) * v
  BY <1>0, Zenon
<1>1. PICK d \in Nat \ {0} : \E e \in [R -> Nat] :
        /\ \A s \in R : top[s] \in Nat /\ bottom[s] \in Nat \ {0} /\ e[s] * bottom[s] = d * top[s]
        /\ Total(e, R) = d * hours
  <2>1. \E d \in Nat \ {0} : \E e \in [R -> Nat] :
          /\ \A s \in R : top[s] \in Nat /\ bottom[s] \in Nat \ {0} /\ e[s] * bottom[s] = d * top[s]
          /\ Total(e, R) = d * (Total(H, A) + Total(B, F) + Total(Q, {s \in R : H[area[s]] = 0 /\ B[phase[s]] = 0}))
    BY <1>0, ExactSum
  <2> QED
    BY <1>0, <2>1, Zenon
<1>2. PICK e \in [R -> Nat] :
        /\ \A s \in R : top[s] \in Nat /\ bottom[s] \in Nat \ {0} /\ e[s] * bottom[s] = d * top[s]
        /\ Total(e, R) = d * hours
  BY <1>1, Zenon
<1> DEFINE k == Cardinality(R)
           c == v * d
           x == [s \in R |-> c * p[s]]
           ten == [s \in R |-> 10 * e[s]]
           one == [s \in R |-> c]
           less == [s \in R |-> -c]
           up == [s \in R |-> ten[s] + one[s]]
           low == [s \in R |-> ten[s] + less[s]]
<1>3. IsFiniteSet(R) /\ k \in Nat
  BY <1>0, FS_CardinalityType DEF Divided
<1>4. c \in Nat \ {0}
  OBVIOUS
<1>5. ASSUME NEW s \in R
      PROVE  /\ p[s] \in Nat /\ e[s] \in Nat
             /\ c * p[s] <= 10 * e[s] + c /\ 10 * e[s] - c <= c * p[s]
  <2> DEFINE t == top[s]
             b == bottom[s]
             g == e[s]
             o == p[s]
  <2>1. t \in Nat /\ b \in Nat \ {0} /\ g \in Nat /\ g * b = d * t
    BY <1>2
  <2>2. o = (2 * (10 * t) + b * v) \div (2 * (b * v))
    BY <1>0, Zenon DEF Rounded
  <2> HIDE DEF t, b, g, o
  <2>3. o \in Nat /\ v * d * o <= 10 * g + v * d /\ 10 * g - v * d <= v * d * o
    BY <2>1, <2>2, StepBound
  <2> QED
    BY <2>1, <2>3 DEF g, o
<1> HIDE DEF c
<1>6. \A s \in R : /\ p[s] \in Int /\ x[s] = c * p[s] /\ x[s] \in Int /\ e[s] \in Int /\ ten[s] = 10 * e[s] /\ ten[s] \in Int
                   /\ one[s] = c /\ less[s] = -c /\ up[s] = ten[s] + one[s] /\ low[s] = ten[s] + less[s]
                   /\ one[s] \in Int /\ less[s] \in Int /\ up[s] \in Int /\ low[s] \in Int
                   /\ x[s] <= up[s] /\ low[s] <= x[s]
  BY <1>4, <1>5
<1> HIDE DEF x, ten, one, less, up, low, k
<1>7. Total(x, R) = c * Total(p, R) /\ Total(p, R) \in Int
  <2>1. Total(x, R) = c * Total(p, R)
    BY <1>3, <1>4, <1>6, TotalScaled
  <2>2. Total(p, R) \in Int
    BY <1>3, <1>6, TotalInt
  <2> QED
    BY <2>1, <2>2
<1>8. Total(ten, R) = 10 * Total(e, R) /\ Total(e, R) \in Int
  <2>1. Total(ten, R) = 10 * Total(e, R)
    BY <1>3, <1>6, TotalScaled
  <2>2. Total(e, R) \in Int
    BY <1>3, <1>6, TotalInt
  <2> QED
    BY <2>1, <2>2
<1>9. Total(one, R) = c * k /\ Total(less, R) = (-c) * k
  <2>1. -c \in Int /\ c \in Int
    BY <1>4
  <2>2. Total(one, R) = c * Cardinality(R)
    BY <1>3, <1>6, <2>1, TotalConst
  <2>3. Total(less, R) = (-c) * Cardinality(R)
    BY <1>3, <1>6, <2>1, TotalConst
  <2> QED
    BY <2>2, <2>3 DEF k
<1>10. Total(up, R) = Total(ten, R) + Total(one, R) /\ Total(low, R) = Total(ten, R) + Total(less, R)
  <2>1. Total(up, R) = Total(ten, R) + Total(one, R)
    BY <1>3, <1>6, TotalPlus
  <2>2. Total(low, R) = Total(ten, R) + Total(less, R)
    BY <1>3, <1>6, TotalPlus
  <2> QED
    BY <2>1, <2>2
<1>11. Total(x, R) <= Total(up, R) /\ Total(low, R) <= Total(x, R)
  <2>1. Total(x, R) <= Total(up, R)
    BY <1>3, <1>6, TotalOrder
  <2>2. Total(low, R) <= Total(x, R)
    BY <1>3, <1>6, TotalOrder
  <2> QED
    BY <2>1, <2>2
<1>12. hours \in Int
  <2>1. IsFiniteSet(A) /\ IsFiniteSet(F) /\ (\A a \in A : H[a] \in Int) /\ (\A f \in F : B[f] \in Int)
    <3>1. IsFiniteSet(A) /\ IsFiniteSet(F) /\ (\A a \in A : H[a] \in Nat) /\ (\A f \in F : B[f] \in Nat)
      BY <1>0, Zenon DEF Divided
    <3> QED
      BY <3>1
  <2> DEFINE bare == {s \in R : H[area[s]] = 0 /\ B[phase[s]] = 0}
  <2>2. IsFiniteSet(bare) /\ \A s \in bare : Q[s] \in Int
    <3>1. \A s \in R : Q[s] \in Nat
      BY <1>0, Zenon DEF Divided
    <3> QED
      BY <1>3, <3>1, FS_Subset
  <2>3. hours = Total(H, A) + Total(B, F) + Total(Q, bare)
    BY <1>0
  <2> HIDE DEF bare
  <2>4. Total(H, A) \in Int
    BY <2>1, TotalInt
  <2>5. Total(B, F) \in Int
    BY <2>1, TotalInt
  <2>6. Total(Q, bare) \in Int
    BY <2>2, TotalInt
  <2> QED
    BY <2>3, <2>4, <2>5, <2>6
<1> DEFINE P == Total(p, R)
           D == Total(e, R)
<1>13. P \in Int /\ D = d * hours
  BY <1>2, <1>7
<1>14. c * P <= 10 * D + c * k /\ 10 * D + (-c) * k <= c * P
  BY <1>7, <1>8, <1>9, <1>10, <1>11
<1> HIDE DEF P, D
<1>15. P * v - 10 * hours <= k * v /\ (-k) * v <= P * v - 10 * hours
  <2>1. c * P = d * (P * v) /\ c * k = d * (k * v) /\ (-c) * k = d * ((-k) * v)
    BY <1>3, <1>13 DEF c
  <2>2. 10 * D + c * k = d * (10 * hours + k * v) /\ 10 * D + (-c) * k = d * (10 * hours + (-k) * v)
    <3>1. d * (10 * hours + k * v) = 10 * (d * hours) + d * (k * v)
      BY <1>3, <1>12
    <3>2. d * (10 * hours + (-k) * v) = 10 * (d * hours) + d * ((-k) * v)
      BY <1>3, <1>12
    <3> QED
      BY <1>13, <2>1, <3>1, <3>2
  <2>3. P * v \in Int /\ 10 * hours + k * v \in Int /\ 10 * hours + (-k) * v \in Int /\ 10 * hours \in Int
        /\ k * v \in Int /\ (-k) * v \in Int
    BY <1>3, <1>12, <1>13
  <2>4. d * (P * v) <= d * (10 * hours + k * v) /\ d * (10 * hours + (-k) * v) <= d * (P * v)
    BY <1>14, <2>1, <2>2
  <2>5. P * v <= 10 * hours + k * v /\ 10 * hours + (-k) * v <= P * v
    BY <2>3, <2>4, Cancelled
  <2> QED
    BY <2>3, <2>5
<1>16. -k * v <= P * v - 10 * hours
  <2>1. (-k) * v = -k * v
    BY <1>3
  <2> QED
    BY <1>15, <2>1
<1>17. \A s \in R : p[s] \in Nat /\ top[s] \in Nat /\ bottom[s] \in Nat \ {0}
  BY <1>2, <1>5
<1> QED
  BY <1>12, <1>15, <1>16, <1>17, Zenon DEF P, k

\* What the report counts and what the card sets is never negative.
LEMMA CountsNat == ASSUME MapInv PROVE \A u \in DOMAIN Counts : Counts[u] \in Nat
<1>1. \A m \in Parsed : m \in DOMAIN artefacts /\ ArtefactOf(m, artefacts[m])
  BY DEF MapInv, InputsSay, Parsed
<1>2. /\ CountOf("spark_pools", "notebooks") \in Nat /\ CountOf("spark_pools", "pools") \in Nat
      /\ CountOf("serverless_pools", "external_tables") \in Nat /\ CountOf("serverless_pools", "queries") \in Nat
  BY <1>1 DEF CountOf, ArtefactOf, Counted
<1>3. /\ CountOf("pipelines", "pipelines") \in Nat /\ CountOf("pipelines", "linked_services") \in Nat
      /\ CountOf("pipelines", "triggers") \in Nat /\ CountOf("pipelines", "integration_runtimes") \in Nat
  BY <1>1 DEF CountOf, ArtefactOf, Counted
<1> DEFINE pools == artefacts["dedicated_pools"].pools
           f == [p \in pools |-> Cardinality(p.tables)]
<1>4. "dedicated_pools" \in Parsed => SumOf(f) \in Nat
  <2> SUFFICES ASSUME "dedicated_pools" \in Parsed
               PROVE  SumOf(f) \in Nat
    OBVIOUS
  <2>1. IsFiniteSet(pools) /\ \A p \in pools : IsFiniteSet(p.tables)
    BY <1>1 DEF ArtefactOf, PoolArtefact
  <2>2. DOMAIN f = pools /\ \A p \in pools : f[p] \in Nat
    BY <2>1, FS_CardinalityType
  <2> HIDE DEF f, pools
  <2> QED
    BY <2>1, <2>2, SumOfIs, TotalNat
<1> DEFINE tables == IF "dedicated_pools" \in Parsed THEN SumOf(f) ELSE 0
<1>5. tables \in Nat
  <2> HIDE DEF f
  <2> QED
    BY <1>4
<1>6. Counts =
        [hours_per_table |-> tables,
         hours_per_notebook |-> CountOf("spark_pools", "notebooks"), hours_per_pool |-> CountOf("spark_pools", "pools"),
         hours_per_pipeline |-> CountOf("pipelines", "pipelines"),
         hours_per_linked_service |-> CountOf("pipelines", "linked_services"),
         hours_per_trigger |-> CountOf("pipelines", "triggers"),
         hours_per_runtime |-> CountOf("pipelines", "integration_runtimes"),
         hours_per_external_table |-> CountOf("serverless_pools", "external_tables"),
         hours_per_query |-> CountOf("serverless_pools", "queries")]
  BY Zenon DEF Counts
<1> HIDE DEF tables
<1> QED
  BY <1>2, <1>3, <1>5, <1>6

\* A coefficient counts a natural number of times, and so does what it makes of an area.
LEMMA UnitCountNat == ASSUME MapInv, NEW unit, NEW recs, IsFiniteSet(recs) PROVE UnitCount(unit, recs) \in Nat
<1>1. \A severity : CountSeverity(recs, severity) \in Nat
  <2>1. ASSUME NEW severity PROVE CountSeverity(recs, severity) \in Nat
    BY FS_Subset, FS_CardinalityType DEF CountSeverity
  <2> QED
    BY <2>1
<1>2. Cardinality(recs) \in Nat
  BY FS_CardinalityType
<1>3. unit \in DOMAIN Counts => Counts[unit] \in Nat
  BY CountsNat
<1> QED
  BY <1>1, <1>2, <1>3 DEF UnitCount

LEMMA AreaTotalNat == ASSUME MapInv, NEW area PROVE AreaTotal(area) \in Nat
<1> SUFFICES ASSUME area \in DOMAIN card.rules
             PROVE  AreaTotal(area) \in Nat
  BY DEF AreaTotal
<1> DEFINE rule == card.rules[area]
           units == {u \in DOMAIN rule \ {"cap_hours"} : rule[u] > 0}
           f == [u \in units |-> UnitCount(u, InArea(area)) * rule[u]]
           gross == SumOf(f)
<1>1. IsFiniteSet(units) /\ \A u \in DOMAIN rule : rule[u] \in Nat
  <2>1. IsFiniteSet(DOMAIN rule) /\ \A u \in DOMAIN rule : rule[u] \in Nat
    BY Zenon DEF MapInv, CardOf
  <2> HIDE DEF rule
  <2> QED
    BY <2>1, FS_Subset
<1>2. \A u \in units : UnitCount(u, InArea(area)) \in Nat
  <2>1. IsFiniteSet(InArea(area))
    BY FS_Subset DEF InArea, MapInv, Sound
  <2> QED
    BY <2>1, UnitCountNat
<1>3. DOMAIN f = units /\ \A u \in units : f[u] \in Nat
  <2>1. \A x, y \in Nat : x * y \in Nat
    OBVIOUS
  <2>2. \A u \in units : u \in DOMAIN rule
    OBVIOUS
  <2> HIDE DEF units, rule
  <2> QED
    BY <1>1, <1>2, <2>1, <2>2
<1>4. gross \in Nat
  <2> HIDE DEF f, units
  <2> QED
    BY <1>1, <1>3, SumOfIs, TotalNat
<1>5. AreaTotal(area) = IF "cap_hours" \in DOMAIN rule THEN Min({gross, rule.cap_hours}) ELSE gross
  BY Zenon DEF AreaTotal
<1>6. "cap_hours" \in DOMAIN rule => rule.cap_hours \in Nat
  <2> HIDE DEF rule
  <2> QED
    BY <1>1
<1> HIDE DEF gross, rule
<1>7. ASSUME NEW c \in Nat PROVE Min({gross, c}) \in Nat
  <2>1. gross \in Int /\ c \in Int
    BY <1>4, <1>7
  <2>2. Min({gross, c}) = IF gross <= c THEN gross ELSE c
    BY <2>1, TwoIs
  <2> QED
    BY <1>4, <1>7, <2>2
<1> QED
  BY <1>4, <1>5, <1>6, <1>7

\* The numbers of the card.
LEMMA CardNumbers == ASSUME MapInv
                     PROVE  /\ \A f : BaseHours(f) \in Nat
                            /\ Velocity \in Nat \ {0}
                            /\ card.p50_to_p90_multiplier \in Nat
                            /\ \A e \in Efforts : card.qualitative[e] \in Nat
BY DEF MapInv, CardOf, BaseHours, Velocity, Efforts

\* The steps of the runbook.
LEMMA RunbookIs ==
    ASSUME MapInv, fmStage = "done"
    PROVE  /\ IsFiniteSet(runbook) /\ runbook # {}
           /\ \A s \in runbook : s.rec.effort \in Efforts
<1> DEFINE step == [r \in recommendations |-> [rec |-> r, phase |-> PhaseForArea(r.area),
                                                first |-> 1 + Cardinality({q \in recommendations : Precedes(q, r)})]]
           last == [rec |-> Verification.rec, phase |-> "verification", first |-> Cardinality(recommendations) + 1]
           steps == {[rec |-> r, phase |-> PhaseForArea(r.area),
                      first |-> 1 + Cardinality({q \in recommendations : Precedes(q, r)})] : r \in recommendations}
<1>1. runbook = steps \cup {last}
  <2>1. runbook = BuildRunbook(recommendations)
    BY DEF MapInv, PartsFollow
  <2> QED
    BY <2>1, Zenon DEF BuildRunbook
<1>2. steps = {step[r] : r \in recommendations}
  OBVIOUS
<1>3. Sound(recommendations)
  BY DEF MapInv
<1>4. IsFiniteSet(steps)
  <2>1. IsFiniteSet(recommendations)
    BY <1>3 DEF Sound
  <2> HIDE DEF step, steps
  <2> QED
    BY <1>2, <2>1, FiniteImage
<1>5. \A s \in steps : s.rec.effort \in Efforts
  <2>1. \A r \in recommendations : r.effort \in Efforts
    BY <1>3 DEF Sound, SoundRec
  <2>2. \A r \in recommendations : step[r].rec = r
    OBVIOUS
  <2> HIDE DEF step, steps
  <2> QED
    BY <1>2, <2>1, <2>2
<1>6. last.rec.effort \in Efforts
  BY DEF Verification, Rec, Efforts
<1> HIDE DEF steps, last
<1> QED
  BY <1>1, <1>4, <1>5, <1>6, FS_AddElement

-----------------------------------------------------------------------------
\* The estimates of a phase, and the phases as they are rolled up.
Own(E, f) == {e \in E : e.step.phase = f}
Rolled(E) == {PhaseRollup(f, E) : f \in {e.step.phase : e \in E}}

\* The parts of a phase's rollup, and its hours as a total.
LEMMA RollupIs ==
    ASSUME NEW f, NEW E
    PROVE  /\ PhaseRollup(f, E).phase = f
           /\ PhaseRollup(f, E)["p50"] = Hours(Own(E, f), "p50") /\ PhaseRollup(f, E)["p90"] = Hours(Own(E, f), "p90")
           /\ PhaseRollup(f, E)["steps"] = Cardinality(Own(E, f))
           /\ PhaseRollup(f, E).max50 = Max({e.p50 : e \in Own(E, f)})
           /\ PhaseRollup(f, E).parallel50 =
                Max({Max({e.p50 : e \in Own(E, f)}), Rounded(Hours(Own(E, f), "p50"), ParallelWorkers)})
BY DEF PhaseRollup, Own

LEMMA HoursIs == ASSUME NEW S, NEW field PROVE Hours(S, field) = Total([x \in S |-> x[field]], S)
<1> DEFINE f == [x \in S |-> x[field]]
<1>1. Hours(S, field) = SumOf(f)
  BY Zenon DEF Hours
<1>2. DOMAIN f = S
  OBVIOUS
<1> HIDE DEF f
<1>3. SumOf(f) = Total(f, S)
  BY <1>2, SumOfIs
<1> QED
  BY <1>1, <1>3 DEF f

\* What is rolled up phase by phase is what there is in all.
LEMMA PhasesAddUp ==
    ASSUME NEW E, IsFiniteSet(E), NEW g, \A e \in E : g[e] \in Int, NEW field,
           \A f : PhaseRollup(f, E)[field] = Total(g, Own(E, f))
    PROVE  Hours(Rolled(E), field) = Total(g, E)
<1> DEFINE key == [e \in E |-> e.step.phase]
           F == {key[e] : e \in E}
           by == [f \in F |-> Total(g, Own(E, f))]
           name == [f \in F |-> PhaseRollup(f, E)]
           P == {name[f] : f \in F}
           h == [x \in P |-> x[field]]
<1>1. F = {e.step.phase : e \in E}
  OBVIOUS
<1>2. Rolled(E) = P
  <2>1. Rolled(E) = {PhaseRollup(f, E) : f \in F}
    BY <1>1 DEF Rolled
  <2> HIDE DEF F
  <2> QED
    BY <2>1
<1>3. IsFiniteSet(F) /\ \A e \in E : key[e] \in F
  <2> HIDE DEF key
  <2> QED
    BY FiniteImage
<1>4. \A f \in F : Own(E, f) = {e \in E : key[e] = f}
  <2>1. \A e \in E : key[e] = e.step.phase
    OBVIOUS
  <2> HIDE DEF key, F
  <2> QED
    BY <2>1 DEF Own
<1>5. \A f \in F : by[f] = Total(g, {e \in E : key[e] = f})
  <2>1. \A f \in F : by[f] = Total(g, Own(E, f))
    OBVIOUS
  <2> HIDE DEF by, F, key
  <2> QED
    BY <1>4, <2>1
<1>6. \A f \in F : by[f] \in Int
  <2>1. \A f \in F : IsFiniteSet(Own(E, f)) /\ \A e \in Own(E, f) : g[e] \in Int
    BY FS_Subset DEF Own
  <2>2. \A f \in F : Total(g, Own(E, f)) \in Int
    BY <2>1, TotalInt
  <2> HIDE DEF F
  <2> QED
    BY <2>2
<1>7. Total(by, F) = Total(g, E)
  <2> HIDE DEF by, F, key
  <2> QED
    BY <1>3, <1>5, TotalByKey
<1>8. \A f \in F : name[f] = PhaseRollup(f, E)
  OBVIOUS
<1>9. \A f \in F : h[name[f]] = by[f]
  <2>1. \A f \in F : name[f] \in P
    <3> HIDE DEF name, F
    <3> QED
      OBVIOUS
  <2>2. \A x \in P : h[x] = x[field]
    <3> HIDE DEF P
    <3> QED
      OBVIOUS
  <2>3. \A f \in F : by[f] = Total(g, Own(E, f))
    <3> HIDE DEF F
    <3> QED
      OBVIOUS
  <2> HIDE DEF h, P, name, F, by
  <2> QED
    BY <1>8, <2>1, <2>2, <2>3
<1>10. \A e, f \in F : name[e] = name[f] => e = f
  <2>1. \A f \in F : name[f].phase = f
    <3> HIDE DEF name, F
    <3> QED
      BY <1>8, RollupIs
  <2> HIDE DEF name, F
  <2> QED
    BY <2>1
<1>11. Total(h, P) = Total(by, F)
  <2>1. P = {name[f] : f \in F}
    OBVIOUS
  <2> HIDE DEF h, P, name, F, by
  <2>2. Total(h, {name[f] : f \in F}) = Total(by, F)
    BY <1>3, <1>6, <1>9, <1>10, TotalRenamed
  <2> QED
    BY <2>1, <2>2
<1>12. Hours(P, field) = Total(h, P)
  BY HoursIs
<1> HIDE DEF P, h, by, F
<1> QED
  BY <1>2, <1>7, <1>11, <1>12

\* What the steps of the runbook share, as functions.
AreaIn == [s \in runbook |-> AreaOfStep(s)]
PhaseIn == [s \in runbook |-> s.phase]
AreasIn == {AreaIn[s] : s \in runbook}
PhasesIn == {PhaseIn[s] : s \in runbook}
AreaHours == [a \in AreasIn |-> IF a = "none" THEN 0 ELSE AreaTotal(a)]
PhaseHours == [f \in PhasesIn |-> BaseHours(f)]
OwnHours == [s \in runbook |-> card.qualitative[s.rec.effort]]
InAreas == [a \in AreasIn |-> StepsInArea(a)]
InPhases == [f \in PhasesIn |-> StepsInPhase(f)]
TopOf == [s \in runbook |-> StepShare(s).top]
BottomOf == [s \in runbook |-> StepShare(s).bottom]
P50Of == [s \in runbook |-> Estimate(s).p50]
P90Of == [s \in runbook |-> Estimate(s).p90]

\* As many steps share a value of a step as there are, at least the step itself.
LEMMA SomeOf ==
    ASSUME NEW S, IsFiniteSet(S), NEW f, NEW z \in S
    PROVE  Cardinality({x \in S : f[x] = f[z]}) \in Nat \ {0}
<1> DEFINE of == {x \in S : f[x] = f[z]}
<1>1. IsFiniteSet(of) /\ of # {}
  BY FS_Subset
<1> HIDE DEF of
<1>2. Cardinality(of) \in Nat /\ Cardinality(of) # 0
  BY <1>1, FS_EmptySet, FS_CardinalityType
<1> QED
  BY <1>2 DEF of

\* Areas and phases are finite, and each has the steps that name it.
LEMMA StepsAre ==
    ASSUME MapInv, fmStage = "done"
    PROVE  /\ IsFiniteSet(AreasIn) /\ IsFiniteSet(PhasesIn)
           /\ \A s \in runbook : AreaIn[s] \in AreasIn /\ PhaseIn[s] \in PhasesIn
           /\ \A a \in AreasIn : InAreas[a] = Cardinality({s \in runbook : AreaIn[s] = a}) /\ InAreas[a] \in Nat \ {0}
           /\ \A f \in PhasesIn : InPhases[f] = Cardinality({s \in runbook : PhaseIn[s] = f}) /\ InPhases[f] \in Nat \ {0}
<1>1. IsFiniteSet(runbook)
  BY RunbookIs
<1>2. /\ IsFiniteSet(AreasIn) /\ (\A s \in runbook : AreaIn[s] \in AreasIn)
      /\ \A a \in AreasIn : Cardinality({s \in runbook : AreaIn[s] = a}) \in Nat \ {0}
  <2>1. IsFiniteSet(AreasIn)
    BY <1>1, FiniteImage DEF AreasIn
  <2>2. \A s \in runbook : AreaIn[s] \in AreasIn
    BY DEF AreasIn
  <2>3. ASSUME NEW a \in AreasIn PROVE Cardinality({s \in runbook : AreaIn[s] = a}) \in Nat \ {0}
    <3>1. PICK z \in runbook : a = AreaIn[z]
      BY DEF AreasIn
    <3>2. Cardinality({s \in runbook : AreaIn[s] = AreaIn[z]}) \in Nat \ {0}
      BY <1>1, <3>1, SomeOf
    <3> QED
      BY <3>1, <3>2, Zenon
  <2> QED
    BY <2>1, <2>2, <2>3
<1>3. /\ IsFiniteSet(PhasesIn) /\ (\A s \in runbook : PhaseIn[s] \in PhasesIn)
      /\ \A f \in PhasesIn : Cardinality({s \in runbook : PhaseIn[s] = f}) \in Nat \ {0}
  <2>1. IsFiniteSet(PhasesIn)
    BY <1>1, FiniteImage DEF PhasesIn
  <2>2. \A s \in runbook : PhaseIn[s] \in PhasesIn
    BY DEF PhasesIn
  <2>3. ASSUME NEW f \in PhasesIn PROVE Cardinality({s \in runbook : PhaseIn[s] = f}) \in Nat \ {0}
    <3>1. PICK z \in runbook : f = PhaseIn[z]
      BY DEF PhasesIn
    <3>2. Cardinality({s \in runbook : PhaseIn[s] = PhaseIn[z]}) \in Nat \ {0}
      BY <1>1, <3>1, SomeOf
    <3> QED
      BY <3>1, <3>2, Zenon
  <2> QED
    BY <2>1, <2>2, <2>3
<1>4. \A a \in AreasIn : InAreas[a] = Cardinality({s \in runbook : AreaIn[s] = a})
  <2>1. \A a : {s \in runbook : AreaIn[s] = a} = {s \in runbook : AreaOfStep(s) = a}
    BY DEF AreaIn
  <2>2. \A a \in AreasIn : InAreas[a] = StepsInArea(a)
    BY DEF InAreas
  <2> QED
    BY <2>1, <2>2 DEF StepsInArea
<1>5. \A f \in PhasesIn : InPhases[f] = Cardinality({s \in runbook : PhaseIn[s] = f})
  <2>1. \A f : {s \in runbook : PhaseIn[s] = f} = {s \in runbook : s.phase = f}
    BY DEF PhaseIn
  <2>2. \A f \in PhasesIn : InPhases[f] = StepsInPhase(f)
    BY DEF InPhases
  <2> QED
    BY <2>1, <2>2 DEF StepsInPhase
<1> QED
  BY <1>2, <1>3, <1>4, <1>5

\* Hours are natural numbers.
LEMMA HoursNat ==
    ASSUME MapInv, fmStage = "done"
    PROVE  /\ \A a \in AreasIn : AreaHours[a] \in Nat
           /\ \A f \in PhasesIn : PhaseHours[f] \in Nat /\ PhaseHours[f] = BaseHours(f)
           /\ \A s \in runbook : OwnHours[s] \in Nat
<1>1. \A a \in AreasIn : AreaHours[a] \in Nat
  BY AreaTotalNat DEF AreaHours
<1>2. \A f \in PhasesIn : PhaseHours[f] \in Nat /\ PhaseHours[f] = BaseHours(f)
  BY CardNumbers DEF PhaseHours
<1>3. \A s \in runbook : OwnHours[s] \in Nat
  BY CardNumbers, RunbookIs DEF OwnHours
<1> QED
  BY <1>1, <1>2, <1>3

\* The shares of the steps divide the hours evenly.
LEMMA SharesDivided ==
    ASSUME MapInv, fmStage = "done"
    PROVE  Divided(runbook, AreasIn, PhasesIn, AreaIn, PhaseIn, AreaHours, PhaseHours, OwnHours, InAreas, InPhases, TopOf, BottomOf)
<1>1. ASSUME NEW s \in runbook
      PROVE  IF AreaHours[AreaIn[s]] * InPhases[PhaseIn[s]] + PhaseHours[PhaseIn[s]] * InAreas[AreaIn[s]] > 0
             THEN /\ TopOf[s] = AreaHours[AreaIn[s]] * InPhases[PhaseIn[s]] + PhaseHours[PhaseIn[s]] * InAreas[AreaIn[s]]
                  /\ BottomOf[s] = InAreas[AreaIn[s]] * InPhases[PhaseIn[s]]
             ELSE TopOf[s] = OwnHours[s] /\ BottomOf[s] = 1
  <2> DEFINE area == AreaOfStep(s)
             hours == IF area = "none" THEN 0 ELSE AreaTotal(area)
             siblings == Max({1, StepsInArea(area)})
             peers == StepsInPhase(s.phase)
             own == card.qualitative[s.rec.effort]
             t == hours * peers + BaseHours(s.phase) * siblings
  <2>1. StepShare(s) = IF t > 0 THEN [top |-> t, bottom |-> siblings * peers] ELSE [top |-> own, bottom |-> 1]
    BY Zenon DEF StepShare
  <2>2. AreaIn[s] = area /\ area \in AreasIn /\ AreaHours[area] = hours /\ InAreas[area] = StepsInArea(area)
    BY StepsAre DEF AreaIn, AreaHours, InAreas
  <2>3. PhaseIn[s] = s.phase /\ s.phase \in PhasesIn /\ PhaseHours[s.phase] = BaseHours(s.phase) /\ InPhases[s.phase] = peers
    BY StepsAre DEF PhaseIn, PhaseHours, InPhases
  <2>4. siblings = InAreas[area]
    <3>1. StepsInArea(area) \in Nat \ {0}
      BY <2>2, StepsAre
    <3> HIDE DEF area
    <3> QED
      BY <2>2, <3>1, TwoIs
  <2>5. OwnHours[s] = own
    BY DEF OwnHours
  <2>6. TopOf[s] = StepShare(s).top /\ BottomOf[s] = StepShare(s).bottom
    BY DEF TopOf, BottomOf
  <2> HIDE DEF area, hours, siblings, peers, own
  <2>7. t = AreaHours[AreaIn[s]] * InPhases[PhaseIn[s]] + PhaseHours[PhaseIn[s]] * InAreas[AreaIn[s]]
    BY <2>2, <2>3, <2>4
  <2>8. siblings * peers = InAreas[AreaIn[s]] * InPhases[PhaseIn[s]]
    BY <2>2, <2>3, <2>4
  <2> DEFINE bottom == siblings * peers
  <2> HIDE DEF t, bottom
  <2>9. StepShare(s) = IF t > 0 THEN [top |-> t, bottom |-> bottom] ELSE [top |-> own, bottom |-> 1]
    BY <2>1 DEF bottom
  <2>10. IF t > 0 THEN TopOf[s] = t /\ BottomOf[s] = bottom ELSE TopOf[s] = own /\ BottomOf[s] = 1
    BY <2>6, <2>9
  <2>11. bottom = InAreas[AreaIn[s]] * InPhases[PhaseIn[s]]
    BY <2>8 DEF bottom
  <2> QED
    BY <2>5, <2>7, <2>10, <2>11, Zenon
<1>2. IsFiniteSet(runbook)
  BY RunbookIs
<1>3. \A a \in AreasIn : InAreas[a] # 0
  BY StepsAre
<1>4. \A f \in PhasesIn : InPhases[f] # 0
  BY StepsAre
<1> QED
  BY <1>1, <1>2, <1>3, <1>4, StepsAre, HoursNat, Zenon DEF Divided

\* The hours of the card, as the property names them.
LEMMA HoursOfCard ==
    ASSUME MapInv, fmStage = "done"
    PROVE  SumOf([a \in {AreaOfStep(s) : s \in runbook} \ {"none"} |-> AreaTotal(a)])
             + SumOf([f \in {s.phase : s \in runbook} |-> BaseHours(f)])
             + SumOf([s \in {s \in runbook : BaseHours(s.phase) <= 0
                                             /\ (AreaOfStep(s) = "none" \/ AreaTotal(AreaOfStep(s)) <= 0)} |->
                        card.qualitative[s.rec.effort]])
           = Total(AreaHours, AreasIn) + Total(PhaseHours, PhasesIn)
             + Total(OwnHours, {s \in runbook : AreaHours[AreaIn[s]] = 0 /\ PhaseHours[PhaseIn[s]] = 0})
<1> DEFINE areas == {AreaOfStep(s) : s \in runbook} \ {"none"}
           phases == {s.phase : s \in runbook}
           bare == {s \in runbook : BaseHours(s.phase) <= 0 /\ (AreaOfStep(s) = "none" \/ AreaTotal(AreaOfStep(s)) <= 0)}
           sum == SumOf([a \in areas |-> AreaTotal(a)]) + SumOf([f \in phases |-> BaseHours(f)])
                  + SumOf([s \in bare |-> card.qualitative[s.rec.effort]])
<1>0. bare = {s \in runbook : BaseHours(s.phase) <= 0 /\ (AreaOfStep(s) = "none" \/ AreaTotal(AreaOfStep(s)) <= 0)}
  OBVIOUS
<1>1. areas = AreasIn \ {"none"} /\ phases = PhasesIn
  BY DEF AreasIn, AreaIn, PhasesIn, PhaseIn
<1> HIDE DEF areas, phases, bare
<1>2. SumOf([a \in areas |-> AreaTotal(a)]) = Total(AreaHours, AreasIn)
  <2> DEFINE f == [a \in areas |-> AreaTotal(a)]
  <2>1. IsFiniteSet(areas) /\ IsFiniteSet(AreasIn)
    BY <1>1, StepsAre, FS_Subset
  <2>2. DOMAIN f = areas /\ \A a \in areas : f[a] = AreaHours[a]
    BY <1>1 DEF AreaHours
  <2>3. \A a \in AreasIn : AreaHours[a] \in Int
    BY HoursNat
  <2> HIDE DEF f
  <2>4. SumOf(f) = Total(AreaHours, areas)
    <3>1. SumOf(f) = Total(f, areas)
      BY <2>2, SumOfIs
    <3>2. Total(f, areas) = Total(AreaHours, areas)
      BY <2>1, <2>2, TotalSame
    <3> QED
      BY <3>1, <3>2
  <2> DEFINE all == Total(AreaHours, AreasIn)
             some == Total(AreaHours, areas)
  <2>5. ASSUME "none" \in AreasIn
        PROVE  all = some
    <3>1. AreaHours["none"] = 0
      BY <2>5 DEF AreaHours
    <3>2. Total(AreaHours, AreasIn) = AreaHours["none"] + Total(AreaHours, AreasIn \ {"none"})
      BY <2>1, <2>3, <2>5, TotalRemove
    <3>3. Total(AreaHours, areas) \in Int
      <4>1. \A a \in areas : AreaHours[a] \in Int
        BY <1>1, <2>3
      <4> QED
        BY <2>1, <4>1, TotalInt
    <3>4. all = AreaHours["none"] + some
      BY <1>1, <3>2, Zenon
    <3>5. all = 0 + some
      BY <3>1, <3>4, Zenon
    <3> HIDE DEF all, some
    <3>6. some \in Int
      BY <3>3 DEF some
    <3> QED
      BY <3>5, <3>6
  <2>6. ASSUME "none" \notin AreasIn
        PROVE  all = some
    <3>1. areas = AreasIn
      BY <1>1, <2>6
    <3> QED
      BY <3>1
  <2>7. SumOf(f) = all
    BY <2>4, <2>5, <2>6, Zenon
  <2> QED
    BY <2>7 DEF f
<1>3. SumOf([f \in phases |-> BaseHours(f)]) = Total(PhaseHours, PhasesIn)
  <2>1. [f \in phases |-> BaseHours(f)] = PhaseHours
    BY <1>1 DEF PhaseHours
  <2>2. DOMAIN PhaseHours = PhasesIn
    BY DEF PhaseHours
  <2> QED
    BY <2>1, <2>2, SumOfIs
<1> DEFINE none == {s \in runbook : AreaHours[AreaIn[s]] = 0 /\ PhaseHours[PhaseIn[s]] = 0}
<1>4. bare = none
  <2>1. ASSUME NEW s \in runbook
        PROVE  /\ AreaHours[AreaIn[s]] = 0 <=> AreaOfStep(s) = "none" \/ AreaTotal(AreaOfStep(s)) <= 0
               /\ PhaseHours[PhaseIn[s]] = 0 <=> BaseHours(s.phase) <= 0
    <3>1. AreaIn[s] = AreaOfStep(s) /\ AreaOfStep(s) \in AreasIn /\ PhaseIn[s] = s.phase /\ s.phase \in PhasesIn
      BY StepsAre DEF AreaIn, PhaseIn
    <3>2. AreaHours[AreaIn[s]] = IF AreaOfStep(s) = "none" THEN 0 ELSE AreaTotal(AreaOfStep(s))
      BY <3>1 DEF AreaHours
    <3>3. AreaTotal(AreaOfStep(s)) \in Nat /\ BaseHours(s.phase) \in Nat
      BY AreaTotalNat, CardNumbers
    <3>4. PhaseHours[PhaseIn[s]] = BaseHours(s.phase)
      BY <3>1 DEF PhaseHours
    <3> QED
      BY <3>2, <3>3, <3>4
  <2> HIDE DEF none
  <2>2. none = {s \in runbook : AreaHours[AreaIn[s]] = 0 /\ PhaseHours[PhaseIn[s]] = 0}
    BY DEF none
  <2> QED
    BY <1>0, <2>1, <2>2
<1>5. SumOf([s \in bare |-> card.qualitative[s.rec.effort]]) = Total(OwnHours, none)
  <2> DEFINE f == [s \in bare |-> card.qualitative[s.rec.effort]]
  <2>1. IsFiniteSet(bare)
    BY <1>0, RunbookIs, FS_Subset
  <2>2. DOMAIN f = bare /\ \A s \in bare : f[s] = OwnHours[s]
    BY <1>0 DEF OwnHours
  <2> HIDE DEF f, none
  <2>3. SumOf(f) = Total(f, bare)
    BY <2>2, SumOfIs
  <2>4. Total(f, bare) = Total(OwnHours, bare)
    BY <2>1, <2>2, TotalSame
  <2> QED
    BY <1>4, <2>3, <2>4 DEF f
<1>6. sum = Total(AreaHours, AreasIn) + Total(PhaseHours, PhasesIn) + Total(OwnHours, none)
  BY <1>2, <1>3, <1>5
<1> HIDE DEF sum
<1> QED
  BY <1>6, Zenon DEF sum, areas, phases, bare, none

-----------------------------------------------------------------------------
\* More hours are not fewer when they are rounded.
LEMMA RoundedGrows ==
    ASSUME NEW x \in Nat, NEW y \in Nat, x <= y, NEW b \in Nat \ {0}
    PROVE  Rounded(x, b) \in Nat /\ Rounded(y, b) \in Nat /\ Rounded(x, b) <= Rounded(y, b)
<1> DEFINE d == 2 * b
           s == 2 * x + b
           t == 2 * y + b
           p == s \div d
           q == t \div d
<1>1. d \in Nat \ {0} /\ s \in Nat /\ t \in Nat /\ s <= t
  OBVIOUS
<1>2. Rounded(x, b) = p /\ Rounded(y, b) = q
  BY DEF Rounded
<1> HIDE DEF d, s, t
<1>3. p \in Nat /\ q \in Nat /\ d * p <= s /\ t < d * q + d
  BY <1>1
<1> HIDE DEF p, q
<1>4. p <= q
  <2>1. d * p < d * (q + 1)
    <3>1. d * (q + 1) = d * q + d
      BY <1>1, <1>3
    <3>2. d * p \in Int /\ d * q \in Int
      BY <1>1, <1>3
    <3> QED
      BY <1>1, <1>3, <3>1, <3>2
  <2>2. ~(q + 1 <= p)
    <3>1. q + 1 <= p => d * (q + 1) <= d * p
      BY <1>1, <1>3, Scaled
    <3>2. d * p \in Int /\ d * (q + 1) \in Int
      BY <1>1, <1>3
    <3> QED
      BY <2>1, <3>1, <3>2
  <2> QED
    BY <1>3, <2>2
<1> QED
  BY <1>2, <1>3, <1>4

\* Two people: between half of the hours and all of them.
LEMMA HalfOf == ASSUME NEW n \in Nat PROVE Rounded(n, ParallelWorkers) \in Nat /\ Rounded(n, ParallelWorkers) <= n
                                           /\ n <= 2 * Rounded(n, ParallelWorkers)
BY DEF Rounded, ParallelWorkers

\* The estimates of all steps.
Estimated == {Estimate(s) : s \in runbook}

\* The estimates of the steps, whole numbers, one for each step.
LEMMA EstimateIs ==
    ASSUME NEW s \in runbook
    PROVE  /\ Estimate(s).step = s
           /\ Estimate(s).p50 = P50Of[s] /\ Estimate(s).p90 = P90Of[s]
           /\ P50Of[s] = Rounded(10 * TopOf[s], BottomOf[s] * Velocity)
           /\ P90Of[s] = Rounded(TopOf[s] * card.p50_to_p90_multiplier, BottomOf[s] * Velocity)
<1>1. TopOf[s] = StepShare(s).top /\ BottomOf[s] = StepShare(s).bottom
  BY DEF TopOf, BottomOf
<1>2. P50Of[s] = Estimate(s).p50 /\ P90Of[s] = Estimate(s).p90
  BY DEF P50Of, P90Of
<1>3. /\ Estimate(s).step = s
      /\ Estimate(s).p50 = Rounded(10 * StepShare(s).top, StepShare(s).bottom * Velocity)
      /\ Estimate(s).p90 = Rounded(StepShare(s).top * card.p50_to_p90_multiplier, StepShare(s).bottom * Velocity)
  BY DEF Estimate
<1> QED
  BY <1>1, <1>2, <1>3, Zenon

LEMMA StepsNat ==
    ASSUME MapInv, fmStage = "done"
    PROVE  \A s \in runbook : /\ TopOf[s] \in Nat /\ BottomOf[s] \in Nat \ {0}
                              /\ P50Of[s] \in Nat /\ P90Of[s] \in Nat
                              /\ card.p50_to_p90_multiplier >= 10 => P50Of[s] <= P90Of[s]
<1> DEFINE hours == Total(AreaHours, AreasIn) + Total(PhaseHours, PhasesIn)
                    + Total(OwnHours, {s \in runbook : AreaHours[AreaIn[s]] = 0 /\ PhaseHours[PhaseIn[s]] = 0})
<1>1. Velocity \in Nat \ {0} /\ card.p50_to_p90_multiplier \in Nat
  BY CardNumbers
<1>2. \A s \in runbook : P50Of[s] = Rounded(10 * TopOf[s], BottomOf[s] * Velocity)
  BY EstimateIs
<1>3. \A s \in runbook : P50Of[s] \in Nat /\ TopOf[s] \in Nat /\ BottomOf[s] \in Nat \ {0}
  <2>1. hours = Total(AreaHours, AreasIn) + Total(PhaseHours, PhasesIn)
                + Total(OwnHours, {s \in runbook : AreaHours[AreaIn[s]] = 0 /\ PhaseHours[PhaseIn[s]] = 0})
    OBVIOUS
  <2> HIDE DEF hours
  <2> QED
    BY <1>1, <1>2, <2>1, SharesDivided, RoundedSum
<1>4. ASSUME NEW s \in runbook
      PROVE  P90Of[s] \in Nat /\ (card.p50_to_p90_multiplier >= 10 => P50Of[s] <= P90Of[s])
  <2> DEFINE t == TopOf[s]
             b == BottomOf[s] * Velocity
             m == card.p50_to_p90_multiplier
  <2>1. t \in Nat /\ b \in Nat \ {0} /\ m \in Nat
    BY <1>1, <1>3
  <2>2. P90Of[s] = Rounded(t * m, b) /\ P50Of[s] = Rounded(10 * t, b)
    BY EstimateIs
  <2> HIDE DEF t, b, m
  <2>3. 10 * t \in Nat /\ t * m \in Nat
    BY <2>1
  <2>4. P90Of[s] \in Nat
    <3>1. t * m <= t * m
      BY <2>3
    <3> QED
      BY <2>1, <2>2, <2>3, <3>1, RoundedGrows
  <2>5. ASSUME m >= 10 PROVE P50Of[s] <= P90Of[s]
    <3>1. t * 10 <= t * m
      BY <2>1, <2>5, Scaled
    <3>2. 10 * t <= t * m
      BY <2>1, <3>1
    <3> QED
      BY <2>1, <2>2, <2>3, <3>2, RoundedGrows
  <2> QED
    BY <2>4, <2>5 DEF m
<1> QED
  BY <1>3, <1>4

LEMMA EstimatesAre ==
    ASSUME MapInv, fmStage = "done"
    PROVE  /\ IsFiniteSet(Estimated)
           /\ \A s \in runbook : Estimate(s) \in Estimated
           /\ \A e \in Estimated : /\ e.step \in runbook /\ e = Estimate(e.step)
                                   /\ e.p50 = P50Of[e.step] /\ e.p90 = P90Of[e.step] /\ e.p50 \in Nat /\ e.p90 \in Nat
<1> DEFINE est == [s \in runbook |-> Estimate(s)]
<1>1. Estimated = {est[s] : s \in runbook}
  BY DEF Estimated
<1>2. IsFiniteSet({est[s] : s \in runbook})
  <2> HIDE DEF est
  <2> QED
    BY RunbookIs, FiniteImage
<1>3. \A s \in runbook : Estimate(s) \in Estimated
  BY DEF Estimated
<1>4. ASSUME NEW e \in Estimated
      PROVE  /\ e.step \in runbook /\ e = Estimate(e.step)
             /\ e.p50 = P50Of[e.step] /\ e.p90 = P90Of[e.step] /\ e.p50 \in Nat /\ e.p90 \in Nat
  <2>1. PICK s \in runbook : e = Estimate(s)
    BY DEF Estimated
  <2> QED
    BY <2>1, EstimateIs, StepsNat
<1> QED
  BY <1>1, <1>2, <1>3, <1>4, Zenon

\* A number of each estimate is one of each step.
LEMMA OverSteps ==
    ASSUME MapInv, fmStage = "done", NEW R, R \subseteq runbook, NEW f, \A s \in R : f[s] \in Int,
           NEW g, \A s \in R : g[Estimate(s)] = f[s]
    PROVE  Total(g, {Estimate(s) : s \in R}) = Total(f, R)
<1> DEFINE name == [s \in R |-> Estimate(s)]
<1>1. IsFiniteSet(R)
  BY RunbookIs, FS_Subset
<1>2. \A s \in R : name[s] = Estimate(s) /\ Estimate(s).step = s
  <2>1. \A s \in R : Estimate(s).step = s
    BY EstimateIs
  <2> QED
    BY <2>1
<1>3. {name[s] : s \in R} = {Estimate(s) : s \in R}
  OBVIOUS
<1> HIDE DEF name
<1>4. \A s, t \in R : name[s] = name[t] => s = t
  BY <1>2
<1>5. \A s \in R : g[name[s]] = f[s]
  BY <1>2
<1>6. Total(g, {name[s] : s \in R}) = Total(f, R)
  BY <1>1, <1>4, <1>5, TotalRenamed
<1> QED
  BY <1>3, <1>6

\* The summary is the rollup of the estimates, and its hours are theirs.
LEMMA SummaryIs ==
    ASSUME MapInv, fmStage = "done"
    PROVE  /\ effortSummary.phases = Rolled(Estimated)
           /\ effortSummary.p50 = Hours(Rolled(Estimated), "p50")
           /\ effortSummary.p90 = Hours(Rolled(Estimated), "p90")
<1>1. effortSummary = BuildRollup(Estimated)
  BY DEF MapInv, PartsFollow, Estimated
<1>2. /\ BuildRollup(Estimated).phases = Rolled(Estimated)
      /\ BuildRollup(Estimated).p50 = Hours(Rolled(Estimated), "p50")
      /\ BuildRollup(Estimated).p90 = Hours(Rolled(Estimated), "p90")
  BY DEF BuildRollup, Rolled
<1> QED
  BY <1>1, <1>2, Zenon

LEMMA SummaryAdds ==
    ASSUME MapInv, fmStage = "done"
    PROVE  /\ effortSummary.p50 = Total(P50Of, runbook)
           /\ effortSummary.p90 = Total(P90Of, runbook)
           /\ Hours(effortSummary.phases, "steps") = Cardinality(runbook)
<1> DEFINE g == [e \in Estimated |-> e["p50"]]
           h == [e \in Estimated |-> e["p90"]]
           one == [e \in Estimated |-> 1]
           once == [s \in runbook |-> 1]
<1>1. IsFiniteSet(Estimated) /\ \A f : IsFiniteSet(Own(Estimated, f)) /\ Own(Estimated, f) \subseteq Estimated
  BY EstimatesAre, FS_Subset DEF Own
<1>2. \A e \in Estimated : g[e] = e["p50"] /\ g[e] \in Int /\ h[e] = e["p90"] /\ h[e] \in Int /\ one[e] = 1
  BY EstimatesAre
<1>3. Estimated = {Estimate(s) : s \in runbook}
  BY DEF Estimated
<1>4. \A s \in runbook : g[Estimate(s)] = P50Of[s] /\ h[Estimate(s)] = P90Of[s] /\ one[Estimate(s)] = once[s]
                         /\ P50Of[s] \in Int /\ P90Of[s] \in Int /\ once[s] = 1
  BY EstimatesAre, EstimateIs, StepsNat
<1> HIDE DEF g, h, one, once
<1>5. Hours(Rolled(Estimated), "p50") = Total(g, Estimated)
  <2>1. ASSUME NEW f PROVE PhaseRollup(f, Estimated)["p50"] = Total(g, Own(Estimated, f))
    <3> DEFINE k == [x \in Own(Estimated, f) |-> x["p50"]]
    <3>1. Hours(Own(Estimated, f), "p50") = Total(k, Own(Estimated, f))
      BY HoursIs
    <3>2. \A x \in Own(Estimated, f) : k[x] = g[x]
      BY <1>1, <1>2
    <3> HIDE DEF k
    <3>3. Total(k, Own(Estimated, f)) = Total(g, Own(Estimated, f))
      BY <1>1, <3>2, TotalSame
    <3> QED
      BY <3>1, <3>3, RollupIs
  <2> QED
    BY <1>1, <1>2, <2>1, PhasesAddUp
<1>6. Hours(Rolled(Estimated), "p90") = Total(h, Estimated)
  <2>1. ASSUME NEW f PROVE PhaseRollup(f, Estimated)["p90"] = Total(h, Own(Estimated, f))
    <3> DEFINE k == [x \in Own(Estimated, f) |-> x["p90"]]
    <3>1. Hours(Own(Estimated, f), "p90") = Total(k, Own(Estimated, f))
      BY HoursIs
    <3>2. \A x \in Own(Estimated, f) : k[x] = h[x]
      BY <1>1, <1>2
    <3> HIDE DEF k
    <3>3. Total(k, Own(Estimated, f)) = Total(h, Own(Estimated, f))
      BY <1>1, <3>2, TotalSame
    <3> QED
      BY <3>1, <3>3, RollupIs
  <2> QED
    BY <1>1, <1>2, <2>1, PhasesAddUp
<1>7. Hours(Rolled(Estimated), "steps") = Total(one, Estimated)
  <2>1. ASSUME NEW f PROVE PhaseRollup(f, Estimated)["steps"] = Total(one, Own(Estimated, f))
    <3>1. \A x \in Own(Estimated, f) : one[x] = 1
      BY <1>1, <1>2
    <3>2. Total(one, Own(Estimated, f)) = 1 * Cardinality(Own(Estimated, f))
      BY <1>1, <3>1, TotalConst
    <3>3. Cardinality(Own(Estimated, f)) \in Nat
      BY <1>1, FS_CardinalityType
    <3>4. Total(one, Own(Estimated, f)) = Cardinality(Own(Estimated, f))
      BY <3>2, <3>3
    <3>5. PhaseRollup(f, Estimated)["steps"] = Cardinality(Own(Estimated, f))
      BY RollupIs
    <3> QED
      BY <3>4, <3>5, Zenon
  <2>2. \A e \in Estimated : one[e] \in Int
    BY <1>2
  <2> QED
    BY <1>1, <2>1, <2>2, PhasesAddUp
<1>8. Total(g, Estimated) = Total(P50Of, runbook)
  BY <1>3, <1>4, OverSteps
<1>9. Total(h, Estimated) = Total(P90Of, runbook)
  BY <1>3, <1>4, OverSteps
<1>10. Total(one, Estimated) = Cardinality(runbook)
  <2>1. \A s \in runbook : once[s] \in Int
    BY <1>4
  <2>2. Total(one, Estimated) = Total(once, runbook)
    BY <1>3, <1>4, <2>1, OverSteps
  <2>3. Total(once, runbook) = 1 * Cardinality(runbook)
    BY <1>4, RunbookIs, TotalConst
  <2>4. Cardinality(runbook) \in Nat
    BY RunbookIs, FS_CardinalityType
  <2> QED
    BY <2>2, <2>3, <2>4
<1> QED
  BY <1>5, <1>6, <1>7, <1>8, <1>9, <1>10, SummaryIs, Zenon

\* A phase of the rollup: two people need between half of its hours and all of them.
LEMMA PhaseSpan ==
    ASSUME MapInv, fmStage = "done", NEW f \in {e.step.phase : e \in Estimated}
    PROVE  /\ PhaseRollup(f, Estimated).max50 <= PhaseRollup(f, Estimated).parallel50
           /\ PhaseRollup(f, Estimated).parallel50 <= PhaseRollup(f, Estimated).p50
           /\ PhaseRollup(f, Estimated).p50 <= 2 * PhaseRollup(f, Estimated).parallel50
<1> DEFINE own == Own(Estimated, f)
           g == [e \in own |-> e["p50"]]
           all == {e.p50 : e \in own}
           max == Max(all)
           sum == Hours(own, "p50")
           half == Rounded(sum, ParallelWorkers)
           two == Max({max, half})
<1>1. IsFiniteSet(own) /\ own # {} /\ own \subseteq Estimated
  BY EstimatesAre, FS_Subset DEF Own
<1>2. \A e \in own : g[e] = e.p50 /\ g[e] \in Nat
  BY <1>1, EstimatesAre
<1>3. sum = Total(g, own)
  BY HoursIs
<1>4. all = {g[e] : e \in own}
  OBVIOUS
<1> HIDE DEF g, own
<1>5. IsFiniteSet(all) /\ Numbers(all) /\ all # {}
  <2>1. IsFiniteSet({g[e] : e \in own})
    BY <1>1, FiniteImage
  <2>2. all # {} /\ Numbers(all)
    BY <1>1, <1>2 DEF Numbers
  <2> QED
    BY <1>4, <2>1, <2>2, Zenon
<1>6. sum \in Nat
  BY <1>1, <1>2, <1>3, TotalNat
<1>7. max \in Nat /\ max <= sum
  <2>1. max \in all
    BY <1>5, Largest
  <2>2. PICK e \in own : max = g[e]
    BY <1>4, <2>1
  <2>3. Total(g, {e}) = g[e]
    <3>1. g[e] \in Int
      BY <1>2
    <3> QED
      BY <3>1, TotalOne
  <2>4. Total(g, {e}) <= Total(g, own)
    <3>1. {e} \in SUBSET own
      OBVIOUS
    <3> QED
      BY <1>1, <1>2, <3>1, TotalPart
  <2> QED
    BY <1>2, <1>3, <2>2, <2>3, <2>4
<1> HIDE DEF max, sum
<1>8. half \in Nat /\ half <= sum /\ sum <= 2 * half
  BY <1>6, HalfOf
<1>9. PhaseRollup(f, Estimated).max50 = max /\ PhaseRollup(f, Estimated).parallel50 = two /\ PhaseRollup(f, Estimated).p50 = sum
  BY RollupIs, Zenon DEF max, sum, own
<1> HIDE DEF half, all
<1>10. two = IF max >= half THEN max ELSE half
  <2>1. max \in Int /\ half \in Int
    BY <1>7, <1>8
  <2> QED
    BY <2>1, TwoIs
<1> HIDE DEF two
<1>11. max <= two /\ two <= sum /\ sum <= 2 * two
  BY <1>6, <1>7, <1>8, <1>10
<1> QED
  BY <1>9, <1>11, Zenon

\* A phase counts its steps.
LEMMA PhaseSteps ==
    ASSUME MapInv, fmStage = "done", NEW f
    PROVE  PhaseRollup(f, Estimated).steps = Cardinality({s \in runbook : s.phase = f})
<1> DEFINE R == {s \in runbook : s.phase = f}
           own == Own(Estimated, f)
           one == [e \in own |-> 1]
           once == [s \in R |-> 1]
<1>1. own = {Estimate(s) : s \in R}
  <2>1. \A e \in own : \E s \in R : e = Estimate(s)
    BY EstimatesAre DEF Own
  <2>2. \A s \in R : Estimate(s) \in own
    BY EstimatesAre, EstimateIs DEF Own
  <2> HIDE DEF own, R
  <2> QED
    BY <2>1, <2>2
<1>2. IsFiniteSet(R) /\ R \subseteq runbook
  BY RunbookIs, FS_Subset
<1>3. IsFiniteSet(own)
  BY EstimatesAre, FS_Subset DEF Own
<1>4. (\A e \in own : one[e] = 1) /\ (\A s \in R : once[s] = 1 /\ once[s] \in Int)
  OBVIOUS
<1>5. \A s \in R : one[Estimate(s)] = once[s]
  BY <1>1, <1>4
<1> HIDE DEF one, once, R, own
<1>6. Total(one, {Estimate(s) : s \in R}) = Total(once, R)
  BY <1>2, <1>4, <1>5, OverSteps
<1>7. Total(one, own) = 1 * Cardinality(own) /\ Total(once, R) = 1 * Cardinality(R)
  BY <1>2, <1>3, <1>4, TotalConst
<1>8. Cardinality(own) \in Nat /\ Cardinality(R) \in Nat
  BY <1>2, <1>3, FS_CardinalityType
<1>9. Cardinality(own) = Cardinality(R)
  <2>1. Total(one, own) = Total(once, R)
    BY <1>1, <1>6, Zenon
  <2> QED
    BY <1>7, <1>8, <2>1
<1>10. PhaseRollup(f, Estimated)["steps"] = Cardinality(own)
  BY RollupIs DEF own
<1> QED
  BY <1>9, <1>10, Zenon DEF R

\* The hours of the summary are those of the card but for the rounding.
LEMMA WithinHours ==
    ASSUME MapInv, fmStage = "done", NEW hours,
           hours = Total(AreaHours, AreasIn) + Total(PhaseHours, PhasesIn)
                   + Total(OwnHours, {s \in runbook : AreaHours[AreaIn[s]] = 0 /\ PhaseHours[PhaseIn[s]] = 0})
    PROVE  /\ -Cardinality(runbook) * Velocity <= effortSummary.p50 * Velocity - 10 * hours
           /\ effortSummary.p50 * Velocity - 10 * hours <= Cardinality(runbook) * Velocity
<1>1. Velocity \in Nat \ {0}
  BY CardNumbers
<1>2. \A s \in runbook : P50Of[s] = Rounded(10 * TopOf[s], BottomOf[s] * Velocity)
  BY EstimateIs
<1>3. /\ -Cardinality(runbook) * Velocity <= Total(P50Of, runbook) * Velocity - 10 * hours
      /\ Total(P50Of, runbook) * Velocity - 10 * hours <= Cardinality(runbook) * Velocity
  BY <1>1, <1>2, SharesDivided, RoundedSum
<1> QED
  BY <1>3, SummaryAdds, Zenon

\* The effort adds up.
LEMMA EffortHolds == ASSUME MapInv PROVE EffortAddsUp
<1> SUFFICES ASSUME fmStage = "done"
             PROVE  EffortAddsUp
  BY DEF EffortAddsUp, Reported
<1> DEFINE areas == {AreaOfStep(s) : s \in runbook} \ {"none"}
           phases == {s.phase : s \in runbook}
           bare == {s \in runbook : BaseHours(s.phase) <= 0 /\ (AreaOfStep(s) = "none" \/ AreaTotal(AreaOfStep(s)) <= 0)}
           hours == SumOf([a \in areas |-> AreaTotal(a)]) + SumOf([f \in phases |-> BaseHours(f)])
                    + SumOf([s \in bare |-> card.qualitative[s.rec.effort]])
           within(x, y) == -Cardinality(runbook) * Velocity <= x - y /\ x - y <= Cardinality(runbook) * Velocity
           Bounded == within(effortSummary.p50 * Velocity, 10 * hours)
           Later == card.p50_to_p90_multiplier >= 10 => effortSummary.p90 >= effortSummary.p50
           Spans == \A f \in effortSummary.phases : /\ f.max50 <= f.parallel50 /\ f.parallel50 <= f.p50 /\ f.p50 <= 2 * f.parallel50
                                                    /\ f.steps = Cardinality({s \in runbook : s.phase = f.phase})
           Every == Cardinality(runbook) = Hours(effortSummary.phases, "steps")
<1>1. Bounded
  <2>1. hours = Total(AreaHours, AreasIn) + Total(PhaseHours, PhasesIn)
                + Total(OwnHours, {s \in runbook : AreaHours[AreaIn[s]] = 0 /\ PhaseHours[PhaseIn[s]] = 0})
    <3> HIDE DEF areas, phases, bare
    <3> QED
      BY HoursOfCard, Zenon DEF areas, phases, bare
  <2> HIDE DEF hours
  <2> QED
    BY <2>1, WithinHours
<1>2. Later
  <2> SUFFICES ASSUME card.p50_to_p90_multiplier >= 10
               PROVE  effortSummary.p90 >= effortSummary.p50
    OBVIOUS
  <2>1. IsFiniteSet(runbook) /\ \A s \in runbook : P50Of[s] \in Int /\ P90Of[s] \in Int /\ P50Of[s] <= P90Of[s]
    BY RunbookIs, StepsNat
  <2>2. Total(P50Of, runbook) <= Total(P90Of, runbook)
    BY <2>1, TotalOrder
  <2>3. Total(P50Of, runbook) \in Int
    BY <2>1, TotalInt
  <2>4. Total(P90Of, runbook) \in Int
    BY <2>1, TotalInt
  <2> QED
    BY <2>2, <2>3, <2>4, SummaryAdds
<1>3. Spans
  <2> SUFFICES ASSUME NEW x \in effortSummary.phases
               PROVE  /\ x.max50 <= x.parallel50 /\ x.parallel50 <= x.p50 /\ x.p50 <= 2 * x.parallel50
                      /\ x.steps = Cardinality({s \in runbook : s.phase = x.phase})
    OBVIOUS
  <2>1. PICK f \in {e.step.phase : e \in Estimated} : x = PhaseRollup(f, Estimated)
    BY SummaryIs DEF Rolled
  <2>2. x.phase = f
    BY <2>1, RollupIs
  <2> QED
    BY <2>1, <2>2, PhaseSpan, PhaseSteps, Zenon
<1>4. Every
  BY SummaryAdds
<1>5. Bounded /\ Later /\ Spans /\ Every => EffortAddsUp
  BY Zenon DEF EffortAddsUp
<1> HIDE DEF Bounded, Later, Spans, Every
<1> QED
  BY <1>1, <1>2, <1>3, <1>4, <1>5

\* FabricMappingAnalyzer.run: for any artefacts, torn or of a version the rules do
\* not know, and any card, the recommendations of each artefact stand in the
\* runbook or its note is made, hot objects lead, and the hours of the card are
\* those of the summary but for the rounding of each step.
THEOREM ReportIsHonest == MappingSpec => []ReportHonest
<1>1. MappingInit => MapInv
  BY MapInit
<1>2. MapInv /\ [MappingNext]_fmVars => MapInv'
  BY MapStep
<1>3. MapInv => ReportHonest
  BY NothingLost, HotLead, EffortHolds DEF ReportHonest
<1> QED
  BY <1>1, <1>2, <1>3, PTL DEF MappingSpec

\* cu_projection.py: for any artefacts the SKU covers the estimate or is the largest,
\* the parts add up, and Spark is part of it only when its consumption is known.
THEOREM ProjectionIsHonest == MappingSpec => []ProjectionHonest
<1>1. MappingInit => MapInv
  BY MapInit
<1>2. MapInv /\ [MappingNext]_fmVars => MapInv'
  BY MapStep
<1>3. MapInv => ProjectionHonest
  BY Honest
<1> QED
  BY <1>1, <1>2, <1>3, PTL DEF MappingSpec

------------------------------------------------------------------------------
\* Extracts as the page has them: an id for each, a time, a list of blockers.
Extracts(es) ==
    /\ IsFiniteSet(es)
    /\ \A e \in es : e.id \in Nat /\ e.finished \in Nat /\ IsFiniteSet(DOMAIN e.blockers)
    /\ \A e, f \in es : e.id = f.id => e = f

\* The order of the runs is total, so the first of the list is newer than the rest.
LEMMA NewestIs ==
    ASSUME NEW es, Extracts(es), es # {}
    PROVE  /\ NewestFirst(es)[1] \in es
           /\ \A e \in es : NewestFirst(es)[1].finished >= e.finished
<1> DEFINE R == {p \in es \X es : Newer(p[1], p[2]) \/ p[1] = p[2]}
           s == NewestFirst(es)
<1>1. IsFiniteSet(es)
  BY DEF Extracts
<1>2. \A e, f \in es : <<e, f>> \in R <=> (Newer(e, f) \/ e = f)
  OBVIOUS
<1> HIDE DEF R
<1>3. Comparable(es, R)
  <2>1. ASSUME NEW e \in es, NEW f \in es
        PROVE  Newer(e, f) \/ Newer(f, e) \/ e = f
    BY DEF Extracts, Newer
  <2> QED
    BY <1>2, <2>1 DEF Comparable
<1>4. Carried(es, R)
  <2>1. ASSUME NEW e \in es, NEW f \in es, NEW g \in es, Newer(e, f), Newer(f, g)
        PROVE  Newer(e, g)
    BY <2>1 DEF Extracts, Newer
  <2> QED
    BY <1>2, <2>1 DEF Carried
<1>5. \E q \in SetToSeqs(es) : \A i, j \in DOMAIN q : i < j => Newer(q[i], q[j])
  <2>1. PICK q \in SetToSeqs(es) : InOrder(q, R)
    BY <1>1, <1>3, <1>4, ListedInOrder
  <2>2. /\ DOMAIN q = 1..Cardinality(es) /\ q \in [1..Cardinality(es) -> es] /\ Cardinality(es) \in Nat
        /\ \A i, j \in DOMAIN q : q[i] = q[j] => i = j
    BY <1>1, ListsAll
  <2>3. ASSUME NEW i \in DOMAIN q, NEW j \in DOMAIN q, i < j
        PROVE  Newer(q[i], q[j])
    <3>1. q[i] \in es /\ q[j] \in es
      BY <2>2
    <3>2. q[i] # q[j]
      BY <2>2, <2>3
    <3>3. <<q[i], q[j]>> \in R
      BY <2>1, <2>3 DEF InOrder
    <3> QED
      BY <1>2, <3>1, <3>2, <3>3
  <2> QED
    BY <2>3
<1>6. s = CHOOSE q \in SetToSeqs(es) : \A i, j \in DOMAIN q : i < j => Newer(q[i], q[j])
  BY Zenon DEF NewestFirst, Ordered
<1> HIDE DEF s
<1>7. s \in SetToSeqs(es) /\ \A i, j \in DOMAIN s : i < j => Newer(s[i], s[j])
  BY <1>5, <1>6, Zenon
<1>8. /\ DOMAIN s = 1..Cardinality(es) /\ s \in [1..Cardinality(es) -> es] /\ Cardinality(es) \in Nat
      /\ \A x \in es : \E i \in DOMAIN s : s[i] = x
  BY <1>1, <1>7, ListsAll
<1>9. Cardinality(es) >= 1
  BY <1>1, <1>8, FS_EmptySet
<1>10. 1 \in DOMAIN s /\ s[1] \in es
  BY <1>8, <1>9
<1>11. ASSUME NEW e \in es
       PROVE  s[1].finished >= e.finished
  <2>1. PICK i \in DOMAIN s : s[i] = e
    BY <1>8
  <2>2. s[1].finished \in Nat /\ e.finished \in Nat
    BY <1>10 DEF Extracts
  <2>3. CASE i = 1
    BY <2>1, <2>2, <2>3
  <2>4. CASE i # 1
    <3>1. 1 < i
      BY <1>8, <2>4
    <3>2. Newer(s[1], e)
      BY <1>7, <1>10, <2>1, <3>1
    <3> QED
      BY <2>2, <3>2 DEF Newer
  <2> QED
    BY <2>3, <2>4
<1> QED
  BY <1>10, <1>11 DEF s

\* The run of a workspace: the last that went well, if one did.
LEMMA LatestIs ==
    ASSUME NEW es, Extracts(es), es # {}
    PROVE  /\ LatestRun(es) \in es
           /\ \A e \in es : e.status = "ok" => LatestRun(es).status = "ok" /\ LatestRun(es).finished >= e.finished
<1> DEFINE well == {e \in es : e.status = "ok"}
           chosen == IF well = {} THEN es ELSE well
<1>1. LatestRun(es) = NewestFirst(chosen)[1]
  BY Zenon DEF LatestRun
<1>2. Extracts(well)
  BY FS_Subset DEF Extracts
<1>3. chosen \subseteq es /\ chosen # {} /\ Extracts(chosen)
  BY <1>2
<1> HIDE DEF chosen
<1>4. /\ NewestFirst(chosen)[1] \in chosen
      /\ \A e \in chosen : NewestFirst(chosen)[1].finished >= e.finished
  BY <1>3, NewestIs
<1>5. ASSUME NEW e \in es, e.status = "ok"
      PROVE  LatestRun(es).status = "ok" /\ LatestRun(es).finished >= e.finished
  <2>1. e \in well /\ chosen = well
    BY <1>5 DEF chosen
  <2> QED
    BY <1>1, <1>4, <2>1
<1> QED
  BY <1>1, <1>3, <1>4, <1>5

\* The workspaces of the page.
KeysOf(es) == {e.key : e \in es}
GroupOf(es, key) == {e \in es : e.key = key}
RowsOf(es) == {EstateWorkspace(GroupOf(es, key)) : key \in KeysOf(es)}

\* A row is about a run of its workspace: the last good one, if there is one.
LEMMA RowIs ==
    ASSUME NEW es, Extracts(es), NEW key \in KeysOf(es)
    PROVE  LET w == EstateWorkspace(GroupOf(es, key))
           IN  /\ w.latest \in es /\ w.latest.key = key /\ w.runCount = Cardinality(GroupOf(es, key))
               /\ \A e \in GroupOf(es, key) : e.status = "ok" => w.latest.status = "ok" /\ w.latest.finished >= e.finished
<1> DEFINE g == GroupOf(es, key)
<1>1. g \subseteq es /\ g # {} /\ \A e \in g : e.key = key
  BY DEF GroupOf, KeysOf
<1>2. Extracts(g)
  BY <1>1, FS_Subset DEF Extracts
<1>3. /\ EstateWorkspace(g).latest = LatestRun(g)
      /\ EstateWorkspace(g).runCount = Cardinality(g)
  BY DEF EstateWorkspace
<1> HIDE DEF g
<1>4. /\ LatestRun(g) \in g
      /\ \A e \in g : e.status = "ok" => LatestRun(g).status = "ok" /\ LatestRun(g).finished >= e.finished
  BY <1>1, <1>2, LatestIs
<1> QED
  BY <1>1, <1>3, <1>4 DEF g

\* A sum over the rows of the page is one over the workspaces.
LEMMA OverRows ==
    ASSUME NEW es, Extracts(es), NEW h, \A key \in KeysOf(es) : h[EstateWorkspace(GroupOf(es, key))] \in Int
    PROVE  /\ IsFiniteSet(RowsOf(es)) /\ IsFiniteSet(KeysOf(es))
           /\ Total(h, RowsOf(es)) = Total([key \in KeysOf(es) |-> h[EstateWorkspace(GroupOf(es, key))]], KeysOf(es))
<1> DEFINE name == [key \in KeysOf(es) |-> EstateWorkspace(GroupOf(es, key))]
           keyOf == [e \in es |-> e.key]
           f == [key \in KeysOf(es) |-> h[EstateWorkspace(GroupOf(es, key))]]
           K == KeysOf(es)
<1>1. IsFiniteSet(K)
  <2>1. K = {keyOf[e] : e \in es}
    BY DEF KeysOf
  <2> HIDE DEF keyOf, K
  <2> QED
    BY <2>1, FiniteImage DEF Extracts
<1>2. RowsOf(es) = {name[key] : key \in K}
  BY DEF RowsOf
<1>3. \A a, b \in K : name[a] = name[b] => a = b
  <2>1. \A a \in K : name[a].latest.key = a
    BY RowIs
  <2> QED
    BY <2>1
<1>4. \A a \in K : h[name[a]] = f[a] /\ f[a] \in Int
  OBVIOUS
<1> HIDE DEF name, f, K
<1>5. Total(h, {name[a] : a \in K}) = Total(f, K)
  BY <1>1, <1>3, <1>4, TotalRenamed
<1>6. IsFiniteSet({name[a] : a \in K})
  BY <1>1, FiniteImage
<1> QED
  BY <1>1, <1>2, <1>5, <1>6 DEF K, f

\* Every run of the page is counted in one row.
LEMMA RunsCounted ==
    ASSUME NEW es, Extracts(es)
    PROVE  SumOf([w \in RowsOf(es) |-> w.runCount]) = Cardinality(es)
<1> DEFINE R == RowsOf(es)
           K == KeysOf(es)
           h == [w \in R |-> w.runCount]
           one == [e \in es |-> 1]
           keyOf == [e \in es |-> e.key]
           by == [key \in K |-> h[EstateWorkspace(GroupOf(es, key))]]
<1>1. IsFiniteSet(es) /\ Cardinality(es) \in Nat
  BY FS_CardinalityType DEF Extracts
<1>2. ASSUME NEW key \in K
      PROVE  /\ h[EstateWorkspace(GroupOf(es, key))] = Total(one, GroupOf(es, key))
             /\ h[EstateWorkspace(GroupOf(es, key))] \in Int
  <2> DEFINE g == GroupOf(es, key)
  <2>1. EstateWorkspace(g) \in R
    BY Zenon DEF RowsOf
  <2>2. EstateWorkspace(g).runCount = Cardinality(g)
    BY RowIs
  <2>3. g \subseteq es
    BY DEF GroupOf
  <2> HIDE DEF g, R
  <2>4. IsFiniteSet(g) /\ Cardinality(g) \in Nat
    BY <1>1, <2>3, FS_Subset, FS_CardinalityType
  <2>5. \A e \in g : one[e] = 1
    BY <2>3
  <2> HIDE DEF one
  <2>6. Total(one, g) = 1 * Cardinality(g)
    BY <2>4, <2>5, TotalConst
  <2>7. h[EstateWorkspace(g)] = Cardinality(g)
    BY <2>1, <2>2
  <2> QED
    BY <2>4, <2>6, <2>7 DEF g
<1>3. SumOf(h) = Total(h, R)
  <2> DOMAIN h = R
    OBVIOUS
  <2> HIDE DEF h, R
  <2> QED
    BY SumOfIs
<1>4. Total(h, R) = Total(by, K) /\ IsFiniteSet(K)
  <2> HIDE DEF h
  <2> QED
    BY <1>2, OverRows
<1>5. Total(by, K) = Total(one, es)
  <2>1. \A e \in es : keyOf[e] \in K /\ one[e] \in Int
    BY DEF KeysOf
  <2>2. \A key \in K : GroupOf(es, key) = {e \in es : keyOf[e] = key}
    BY DEF GroupOf
  <2>3. \A key \in K : by[key] = h[EstateWorkspace(GroupOf(es, key))]
    OBVIOUS
  <2> HIDE DEF by, keyOf, K, one, h
  <2>4. ASSUME NEW key \in K
        PROVE  by[key] = Total(one, {e \in es : keyOf[e] = key})
    <3>1. by[key] = Total(one, GroupOf(es, key))
      BY <1>2, <2>3
    <3>2. GroupOf(es, key) = {e \in es : keyOf[e] = key}
      BY <2>2
    <3> QED
      BY <3>1, <3>2, Zenon
  <2> QED
    <3>1. (\A e \in es : one[e] \in Int) /\ (\A e \in es : keyOf[e] \in K)
      BY <2>1
    <3>2. SumsByKey(by, K, one, es, keyOf)
      BY <2>4, Zenon DEF SumsByKey
    <3>3. IsFiniteSet(es) /\ IsFiniteSet(K)
      BY <1>1, <1>4
    <3> QED
      BY <3>1, <3>2, <3>3, TotalKeyed
<1>6. Total(one, es) = 1 * Cardinality(es)
  <2>1. \A e \in es : one[e] = 1
    OBVIOUS
  <2> HIDE DEF one
  <2> QED
    BY <1>1, <2>1, TotalConst
<1>7. SumOf(h) = Cardinality(es)
  BY <1>1, <1>3, <1>4, <1>5, <1>6
<1> QED
  BY <1>7 DEF h, R

\* The runs the rows are about.
LatestOf(es) == {w.latest : w \in RowsOf(es)}

\* They are runs of the page.
LEMMA LatestAre == ASSUME NEW es, Extracts(es) PROVE LatestOf(es) \subseteq es /\ Extracts(LatestOf(es))
<1>1. LatestOf(es) \subseteq es
  BY RowIs DEF LatestOf, RowsOf
<1> QED
  BY <1>1, FS_Subset DEF Extracts

\* The blockers of the rows are those of these runs.
LEMMA BlockersOfRows ==
    ASSUME NEW es, Extracts(es)
    PROVE  SumOf([w \in RowsOf(es) |-> Cardinality(DOMAIN w.latest.blockers)]) = Total([e \in LatestOf(es) |-> Cardinality(DOMAIN e.blockers)], LatestOf(es))
<1> DEFINE R == RowsOf(es)
           L == LatestOf(es)
           h == [w \in R |-> Cardinality(DOMAIN w.latest.blockers)]
           n == [e \in L |-> Cardinality(DOMAIN e.blockers)]
           latest == [w \in R |-> w.latest]
<1>1. IsFiniteSet(R)
  <2> DEFINE zero == [w \in R |-> 0]
  <2>1. \A key \in KeysOf(es) : zero[EstateWorkspace(GroupOf(es, key))] \in Int
    BY DEF RowsOf
  <2> HIDE DEF zero
  <2> QED
    BY <2>1, OverRows
<1>2. L = {latest[w] : w \in R}
  BY DEF LatestOf
<1>3. \A v, w \in R : latest[v] = latest[w] => v = w
  <2>1. \A w \in R : w = EstateWorkspace(GroupOf(es, w.latest.key))
    BY RowIs DEF RowsOf
  <2> QED
    BY <2>1
<1>4. \A w \in R : n[latest[w]] = h[w] /\ h[w] \in Int
  <2>1. \A w \in R : w.latest \in L
    BY DEF LatestOf
  <2>2. \A e \in L : Cardinality(DOMAIN e.blockers) \in Nat
    BY LatestAre, FS_CardinalityType DEF Extracts
  <2> QED
    BY <2>1, <2>2
<1>5. SumOf(h) = Total(h, R)
  <2> DOMAIN h = R
    OBVIOUS
  <2> HIDE DEF h, R
  <2> QED
    BY SumOfIs
<1> HIDE DEF R, L, h, n, latest
<1>6. Total(n, {latest[w] : w \in R}) = Total(h, R)
  BY <1>1, <1>3, <1>4, TotalRenamed
<1>7. SumOf(h) = Total(n, L)
  BY <1>2, <1>5, <1>6
<1> QED
  BY <1>7 DEF h, n, R, L

\* The blockers of some runs, one by one.
Places(es) == {p \in es \X UNION {DOMAIN e.blockers : e \in es} : p[2] \in DOMAIN p[1].blockers}

\* They are finitely many.
LEMMA PlacesFinite == ASSUME NEW es, Extracts(es) PROVE IsFiniteSet(Places(es))
<1> DEFINE doms == [e \in es |-> DOMAIN e.blockers]
           D == {doms[e] : e \in es}
<1>1. IsFiniteSet(D)
  <2> HIDE DEF doms
  <2> QED
    BY FiniteImage DEF Extracts
<1>2. \A d \in D : IsFiniteSet(d)
  BY DEF Extracts
<1>3. D = {DOMAIN e.blockers : e \in es}
  OBVIOUS
<1> HIDE DEF D
<1>4. IsFiniteSet(UNION {DOMAIN e.blockers : e \in es})
  BY <1>1, <1>2, <1>3, FS_UNION
<1>5. IsFiniteSet(es \X UNION {DOMAIN e.blockers : e \in es})
  BY <1>4, FS_Product DEF Extracts
<1> QED
  BY <1>5, FS_Subset DEF Places

\* As many of one run as its list has: of all, and of a name.
LEMMA PlacesOfRun ==
    ASSUME NEW es, Extracts(es), NEW e \in es, NEW D, D \subseteq DOMAIN e.blockers, NEW one, \A p \in Places(es) : one[p] = 1
    PROVE  Total(one, {<<e, i>> : i \in D}) = Cardinality(D) /\ Cardinality(D) \in Nat
<1> DEFINE place == [i \in D |-> <<e, i>>]
           f == [i \in D |-> 1]
<1>1. IsFiniteSet(D) /\ Cardinality(D) \in Nat
  BY FS_Subset, FS_CardinalityType DEF Extracts
<1>2. \A i \in D : f[i] = 1 /\ f[i] \in Int
  OBVIOUS
<1>3. \A i, j \in D : place[i] = place[j] => i = j
  OBVIOUS
<1>4. \A i \in D : one[place[i]] = f[i]
  <2>1. \A i \in D : <<e, i>> \in Places(es)
    BY DEF Places
  <2> QED
    BY <2>1
<1>5. {<<e, i>> : i \in D} = {place[i] : i \in D}
  OBVIOUS
<1> HIDE DEF place, f
<1>6. Total(one, {place[i] : i \in D}) = Total(f, D)
  BY <1>1, <1>2, <1>3, <1>4, TotalRenamed
<1>7. Total(f, D) = 1 * Cardinality(D)
  BY <1>1, <1>2, TotalConst
<1>8. Total(f, D) = Cardinality(D)
  BY <1>1, <1>7
<1>9. Total(one, {<<e, i>> : i \in D}) = Cardinality(D)
  BY <1>5, <1>6, <1>8, Zenon
<1> QED
  BY <1>1, <1>9

\* Counted by run, the blockers are as many as the runs' lists have.
LEMMA CountedByRun ==
    ASSUME NEW es, Extracts(es), NEW one, \A p \in Places(es) : one[p] = 1
    PROVE  Total(one, Places(es)) = Total([e \in es |-> Cardinality(DOMAIN e.blockers)], es)
<1> DEFINE P == Places(es)
           first == [p \in P |-> p[1]]
           n == [e \in es |-> Cardinality(DOMAIN e.blockers)]
<1>1. \A p \in P : first[p] \in es /\ one[p] \in Int
  BY DEF Places
<1>2. ASSUME NEW e \in es
      PROVE  n[e] = Total(one, {p \in P : first[p] = e})
  <2>1. {p \in P : first[p] = e} = {<<e, i>> : i \in DOMAIN e.blockers}
    BY DEF Places
  <2>2. Total(one, {<<e, i>> : i \in DOMAIN e.blockers}) = Cardinality(DOMAIN e.blockers)
    BY PlacesOfRun
  <2>4. n[e] = Cardinality(DOMAIN e.blockers)
    OBVIOUS
  <2> QED
    BY <2>1, <2>2, <2>4, Zenon
<1>3. IsFiniteSet(P) /\ IsFiniteSet(es)
  BY PlacesFinite DEF Extracts
<1> HIDE DEF P, first, n
<1>4. SumsByKey(n, es, one, P, first)
  BY <1>2, Zenon DEF SumsByKey
<1>5. (\A p \in P : one[p] \in Int) /\ (\A p \in P : first[p] \in es)
  BY <1>1
<1>6. Total(n, es) = Total(one, P)
  BY <1>3, <1>4, <1>5, TotalKeyed
<1> QED
  BY <1>6 DEF n, P

\* Counted by name, they are the occurrences of the table's rows.
Occurring(es) == [name \in BlockerNames(es) |-> TopBlocker(name, es).occurrences]

\* The occurrences of a name are the blockers of that name.
LEMMA OfNameIs ==
    ASSUME NEW es, Extracts(es), NEW one, \A p \in Places(es) : one[p] = 1, NEW name \in BlockerNames(es)
    PROVE  /\ TopBlocker(name, es).occurrences = Total(one, {p \in Places(es) : Named(p[1].blockers[p[2]]) = name})
           /\ TopBlocker(name, es).occurrences \in Nat
<1> DEFINE hit == {e \in es : OfName(e, name) # {}}
           P == {p \in Places(es) : Named(p[1].blockers[p[2]]) = name}
           first == [p \in P |-> p[1]]
           c == [e \in hit |-> Cardinality(OfName(e, name))]
<1>1. TopBlocker(name, es).occurrences = SumOf(c)
  BY DEF TopBlocker
<1>2. SumOf(c) = Total(c, hit)
  <2>1. DOMAIN c = hit
    OBVIOUS
  <2> HIDE DEF c, hit
  <2> QED
    BY <2>1, SumOfIs
<1>3. IsFiniteSet(P) /\ IsFiniteSet(hit)
  <2>1. P \subseteq Places(es) /\ hit \subseteq es
    OBVIOUS
  <2> HIDE DEF P, hit
  <2> QED
    BY <2>1, PlacesFinite, FS_Subset DEF Extracts
<1>4. \A p \in P : first[p] \in hit /\ one[p] = 1
  BY DEF Places, OfName
<1>5. ASSUME NEW e \in hit
      PROVE  c[e] = Total(one, {p \in P : first[p] = e}) /\ c[e] \in Nat
  <2>1. {p \in P : first[p] = e} = {<<e, i>> : i \in OfName(e, name)}
    BY DEF Places, OfName
  <2>2. OfName(e, name) \subseteq DOMAIN e.blockers /\ e \in es
    BY DEF OfName
  <2>3. Total(one, {<<e, i>> : i \in OfName(e, name)}) = Cardinality(OfName(e, name)) /\ Cardinality(OfName(e, name)) \in Nat
    BY <2>2, PlacesOfRun
  <2>4. c[e] = Cardinality(OfName(e, name))
    OBVIOUS
  <2> QED
    BY <2>1, <2>3, <2>4, Zenon
<1> HIDE DEF hit, P, first, c
<1>6. SumsByKey(c, hit, one, P, first)
  BY <1>5, Zenon DEF SumsByKey
<1>7. (\A p \in P : one[p] \in Int) /\ (\A p \in P : first[p] \in hit)
  BY <1>4
<1>8. Total(c, hit) = Total(one, P)
  BY <1>3, <1>6, <1>7, TotalKeyed
<1>9. Total(c, hit) \in Nat
  BY <1>3, <1>5, TotalNat
<1> QED
  BY <1>1, <1>2, <1>8, <1>9 DEF P

\* Counted by name, they are as many as counted one by one.
LEMMA CountedByName ==
    ASSUME NEW es, Extracts(es), NEW one, \A p \in Places(es) : one[p] = 1
    PROVE  /\ IsFiniteSet(BlockerNames(es))
           /\ Total(Occurring(es), BlockerNames(es)) = Total(one, Places(es))
<1> DEFINE P == Places(es)
           N == BlockerNames(es)
           named == [p \in P |-> Named(p[1].blockers[p[2]])]
           by == Occurring(es)
<1>1. N = {named[p] : p \in P}
  <2>1. ASSUME NEW name \in N PROVE \E p \in P : named[p] = name
    <3>1. PICK e \in es : \E i \in DOMAIN e.blockers : name = Named(e.blockers[i])
      BY DEF BlockerNames
    <3>2. PICK i \in DOMAIN e.blockers : name = Named(e.blockers[i])
      BY <3>1
    <3>3. <<e, i>> \in P
      BY DEF Places
    <3> QED
      BY <3>2, <3>3
  <2>2. \A p \in P : named[p] \in N
    BY DEF BlockerNames, Places
  <2> HIDE DEF N, P, named
  <2> QED
    BY <2>1, <2>2
<1>2. \A name \in N : by[name] = Total(one, {p \in P : Named(p[1].blockers[p[2]]) = name})
  <2>1. \A name \in N : by[name] = TopBlocker(name, es).occurrences
    BY DEF Occurring
  <2> QED
    BY <2>1, OfNameIs
<1>3. ASSUME NEW name \in N
      PROVE  by[name] = Total(one, {p \in P : named[p] = name})
  <2>1. {p \in P : named[p] = name} = {p \in P : Named(p[1].blockers[p[2]]) = name}
    OBVIOUS
  <2>2. by[name] = Total(one, {p \in P : Named(p[1].blockers[p[2]]) = name})
    BY <1>2
  <2> QED
    BY <2>1, <2>2, Zenon
<1>4. IsFiniteSet(P)
  BY PlacesFinite
<1> HIDE DEF P, N, named, by
<1>5. IsFiniteSet(N)
  BY <1>1, <1>4, FiniteImage
<1>6. (\A p \in P : one[p] \in Int) /\ (\A p \in P : named[p] \in N)
  BY <1>1 DEF P
<1>7. SumsByKey(by, N, one, P, named)
  BY <1>3, Zenon DEF SumsByKey
<1>8. Total(by, N) = Total(one, P)
  BY <1>4, <1>5, <1>6, <1>7, TotalKeyed
<1> QED
  BY <1>5, <1>8 DEF by, N, P

\* The numbers of a row.
LEMMA BlockerRow ==
    ASSUME NEW es, Extracts(es), NEW name \in BlockerNames(es)
    PROVE  /\ TopBlocker(name, es).name = name
           /\ TopBlocker(name, es).workspaces \in Nat /\ TopBlocker(name, es).occurrences \in Nat
           /\ TopBlocker(name, es).example \subseteq {e.id : e \in es}
<1> DEFINE hit == {e \in es : OfName(e, name) # {}}
           key == [e \in hit |-> e.key]
           one == [p \in Places(es) |-> 1]
<1>1. /\ TopBlocker(name, es).name = name
      /\ TopBlocker(name, es).workspaces = Cardinality({e.key : e \in hit})
      /\ TopBlocker(name, es).example = {e.id : e \in hit}
  BY DEF TopBlocker
<1>2. Cardinality({e.key : e \in hit}) \in Nat
  <2>1. IsFiniteSet(hit)
    BY FS_Subset DEF Extracts
  <2>2. {e.key : e \in hit} = {key[e] : e \in hit}
    OBVIOUS
  <2> HIDE DEF hit, key
  <2>3. IsFiniteSet({key[e] : e \in hit})
    BY <2>1, FiniteImage
  <2> QED
    BY <2>2, <2>3, FS_CardinalityType
<1>3. TopBlocker(name, es).occurrences \in Nat
  <2>1. \A p \in Places(es) : one[p] = 1
    OBVIOUS
  <2> HIDE DEF one
  <2> QED
    BY <2>1, OfNameIs
<1>4. {e.id : e \in hit} \subseteq {e.id : e \in es}
  OBVIOUS
<1> QED
  BY <1>1, <1>2, <1>3, <1>4

\* The list of the rows has each of them once.
LEMMA RankedBlockers ==
    ASSUME NEW es, Extracts(es)
    PROVE  IsFiniteSet(AllBlockers(es)) /\ Ordered(AllBlockers(es), MoreWidespread) \in SetToSeqs(AllBlockers(es))
<1> DEFINE B == AllBlockers(es)
           N == BlockerNames(es)
           row == [name \in N |-> TopBlocker(name, es)]
           R == {p \in B \X B : MoreWidespread(p[1], p[2])}
           one == [p \in Places(es) |-> 1]
<1>1. IsFiniteSet(B)
  <2>1. B = {row[name] : name \in N}
    BY DEF AllBlockers
  <2>2. \A p \in Places(es) : one[p] = 1
    OBVIOUS
  <2> HIDE DEF row, B, N, one
  <2>3. IsFiniteSet(N)
    BY <2>2, CountedByName DEF N
  <2> QED
    BY <2>1, <2>3, FiniteImage
<1>2. \A v \in B : v.workspaces \in Nat /\ v.occurrences \in Nat
  BY BlockerRow DEF AllBlockers
<1>3. \A v, w \in B : <<v, w>> \in R <=> MoreWidespread(v, w)
  OBVIOUS
<1> HIDE DEF B, R
<1>4. Comparable(B, R)
  <2>1. ASSUME NEW v \in B, NEW w \in B
        PROVE  MoreWidespread(v, w) \/ MoreWidespread(w, v)
    BY <1>2 DEF MoreWidespread
  <2> QED
    BY <1>3, <2>1 DEF Comparable
<1>5. Carried(B, R)
  <2>1. ASSUME NEW u \in B, NEW v \in B, NEW w \in B, MoreWidespread(u, v), MoreWidespread(v, w)
        PROVE  MoreWidespread(u, w)
    BY <1>2, <2>1 DEF MoreWidespread
  <2> QED
    BY <1>3, <2>1 DEF Carried
<1>6. \E q \in SetToSeqs(B) : \A i, j \in DOMAIN q : i < j => MoreWidespread(q[i], q[j])
  <2>1. PICK q \in SetToSeqs(B) : InOrder(q, R)
    BY <1>1, <1>4, <1>5, ListedInOrder
  <2>2. DOMAIN q = 1..Cardinality(B) /\ q \in [1..Cardinality(B) -> B]
    BY <1>1, ListsAll
  <2>3. ASSUME NEW i \in DOMAIN q, NEW j \in DOMAIN q, i < j
        PROVE  MoreWidespread(q[i], q[j])
    <3>1. q[i] \in B /\ q[j] \in B
      BY <2>2
    <3>2. <<q[i], q[j]>> \in R
      BY <2>1, <2>3 DEF InOrder
    <3> QED
      BY <1>3, <3>1, <3>2
  <2> QED
    BY <2>3
<1>7. Ordered(B, MoreWidespread) = CHOOSE q \in SetToSeqs(B) : \A i, j \in DOMAIN q : i < j => MoreWidespread(q[i], q[j])
  BY Zenon DEF Ordered
<1>8. Ordered(B, MoreWidespread) \in SetToSeqs(B)
  BY <1>6, <1>7, Zenon
<1> QED
  BY <1>1, <1>8 DEF B

\* What the rows of the table add up to, and whom they name.
LEMMA TableTells ==
    ASSUME NEW es, Extracts(es)
    PROVE  LET top == AggregateTopBlockers(es)
               occurrences == SumOver(top, LAMBDA b : b.occurrences)
               blockers == Total([e \in es |-> Cardinality(DOMAIN e.blockers)], es)
           IN  /\ IF Len(top) < TableRows THEN occurrences = blockers ELSE occurrences <= blockers
               /\ \A i \in DOMAIN top : top[i].example \subseteq {e.id : e \in es}
<1> DEFINE B == AllBlockers(es)
           N == BlockerNames(es)
           rows == Ordered(B, MoreWidespread)
           k == Min({TableRows, Len(rows)})
           top == AggregateTopBlockers(es)
           m == Cardinality(B)
           f == [i \in 1..m |-> rows[i].occurrences]
           one == [p \in Places(es) |-> 1]
           row == [name \in N |-> TopBlocker(name, es)]
           occ == [v \in B |-> v.occurrences]
<1>1. top = SubSeq(rows, 1, k)
  BY Zenon DEF AggregateTopBlockers
<1>2. /\ m \in Nat /\ rows \in [1..m -> B] /\ DOMAIN rows = 1..m /\ Len(rows) = m
      /\ \A i, j \in DOMAIN rows : rows[i] = rows[j] => i = j
      /\ \A v \in B : \E i \in DOMAIN rows : rows[i] = v
  <2> HIDE DEF B, rows
  <2>1. IsFiniteSet(B) /\ rows \in SetToSeqs(B)
    BY RankedBlockers DEF B, rows
  <2> QED
    BY <2>1, ListsAll
<1>3. \A v \in B : v.occurrences \in Nat /\ v.example \subseteq {e.id : e \in es}
  BY BlockerRow DEF AllBlockers
<1> HIDE DEF B, rows, m
<1>4. TableRows \in Nat
  BY EstateAssumption
<1>5. k \in Nat /\ k <= m /\ (k < TableRows => k = m)
  <2>1. Min({TableRows, m}) = IF TableRows <= m THEN TableRows ELSE m
    <3>1. {TableRows, m} \subseteq Nat /\ {TableRows, m} # {}
      BY <1>2, <1>4
    <3>2. Min({TableRows, m}) \in {TableRows, m} /\ \A q \in {TableRows, m} : Min({TableRows, m}) <= q
      BY <3>1, LeastIs
    <3> HIDE DEF m
    <3> QED
      BY <1>2, <1>4, <3>2
  <2> QED
    BY <1>2, <1>4, <2>1
<1> HIDE DEF k
<1>6. Len(top) = k /\ DOMAIN top = 1..k /\ \A i \in 1..k : top[i] = rows[i]
  <2>1. 1..k \subseteq 1..m
    BY <1>2, <1>5
  <2>2. rows \in Seq(B)
    BY <1>2
  <2> QED
    BY <1>1, <1>2, <1>5, <2>1, <2>2
<1> HIDE DEF top
<1>7. SumOver(top, LAMBDA b : b.occurrences) = Total(f, 1..k)
  <2> DEFINE g == [i \in DOMAIN top |-> top[i].occurrences]
  <2>1. SumOver(top, LAMBDA b : b.occurrences) = SumOf(g)
    BY Zenon DEF SumOver
  <2>2. DOMAIN g = 1..k
    BY <1>6
  <2>3. \A i \in 1..k : g[i] = f[i]
    BY <1>2, <1>5, <1>6
  <2> HIDE DEF g, f
  <2>4. SumOf(g) = Total(g, 1..k)
    BY <2>2, SumOfIs
  <2>5. IsFiniteSet(1..k)
    BY <1>5, FS_Interval
  <2>6. Total(g, 1..k) = Total(f, 1..k)
    BY <2>3, <2>5, TotalSame
  <2> QED
    BY <2>1, <2>4, <2>6
<1>8. \A i \in 1..m : f[i] \in Nat /\ f[i] = occ[rows[i]]
  BY <1>2, <1>3
<1>9. Total(f, 1..m) = Total(occ, B)
  <2> DEFINE I == 1..m
  <2>1. IsFiniteSet(I)
    BY <1>2, FS_Interval
  <2>2. rows \in [I -> B]
    BY <1>2
  <2>3. \A i, j \in I : rows[i] = rows[j] => i = j
    BY <1>2
  <2>4. \A v \in B : \E i \in I : rows[i] = v
    BY <1>2
  <2>5. \A i \in I : f[i] \in Int /\ occ[rows[i]] = f[i]
    BY <1>8
  <2> HIDE DEF f, occ, I
  <2>6. Total(f, I) = Total(occ, B)
    BY <2>1, <2>2, <2>3, <2>4, <2>5, TotalListed
  <2> QED
    BY <2>6 DEF I
<1>10. Total(occ, B) = Total(Occurring(es), N) /\ IsFiniteSet(N)
  <2>1. \A p \in Places(es) : one[p] = 1
    OBVIOUS
  <2>2. B = {row[name] : name \in N}
    BY DEF AllBlockers, B
  <2>3. \A a, b \in N : row[a] = row[b] => a = b
    <3>1. \A a \in N : row[a].name = a
      BY BlockerRow
    <3> QED
      BY <3>1
  <2>4. \A a \in N : Occurring(es)[a] \in Int /\ occ[row[a]] = Occurring(es)[a]
    <3>1. \A a \in N : row[a] \in B /\ row[a].occurrences = Occurring(es)[a] /\ Occurring(es)[a] \in Nat
      BY <2>2, BlockerRow DEF Occurring
    <3> QED
      BY <3>1
  <2> HIDE DEF one, row, occ, N
  <2>5. IsFiniteSet(N)
    BY <2>1, CountedByName DEF N
  <2>6. Total(occ, {row[a] : a \in N}) = Total(Occurring(es), N)
    BY <2>3, <2>4, <2>5, TotalRenamed
  <2> QED
    BY <2>2, <2>5, <2>6
<1>11. Total(Occurring(es), N) = Total([e \in es |-> Cardinality(DOMAIN e.blockers)], es)
  <2>1. \A p \in Places(es) : one[p] = 1
    OBVIOUS
  <2> HIDE DEF one
  <2>2. Total(Occurring(es), N) = Total(one, Places(es))
    BY <2>1, CountedByName
  <2>3. Total(one, Places(es)) = Total([e \in es |-> Cardinality(DOMAIN e.blockers)], es)
    BY <2>1, CountedByRun
  <2> QED
    BY <2>2, <2>3
<1>12. Total(f, 1..k) <= Total(f, 1..m)
  <2>1. IsFiniteSet(1..m) /\ 1..k \in SUBSET (1..m)
    BY <1>2, <1>5, FS_Interval
  <2> HIDE DEF f
  <2> QED
    BY <1>8, <2>1, TotalPart
<1>13. \A i \in DOMAIN top : top[i].example \subseteq {e.id : e \in es}
  <2>1. \A i \in 1..k : top[i] \in B
    BY <1>2, <1>5, <1>6
  <2> QED
    BY <1>3, <1>6, <2>1
<1> DEFINE all == Total([e \in es |-> Cardinality(DOMAIN e.blockers)], es)
           sum == SumOver(top, LAMBDA b : b.occurrences)
<1>14. Total(f, 1..m) = all
  BY <1>9, <1>10, <1>11
<1> HIDE DEF f, all, sum
<1>15. IF Len(top) < TableRows THEN sum = all ELSE sum <= all
  BY <1>5, <1>6, <1>7, <1>12, <1>14 DEF sum
<1> QED
  BY <1>13, <1>15, Zenon DEF top, sum, all

\* One row of a window.
Window(w) == w.days \in Nat \ {0} /\ w.cu \in Nat

\* The average of some windows is a natural number.
LEMMA SustainedNat ==
    ASSUME NEW c, IsFiniteSet(DOMAIN c), \A i \in DOMAIN c : Window(c[i])
    PROVE  Sustained(c) \in Nat
<1> DEFINE D == DOMAIN c
           days == [i \in D |-> c[i].days]
           cu == [i \in D |-> c[i].cu]
           most == Max({0} \cup {c[i].days : i \in D})
           sum == SumOver(c, LAMBDA w : w.cu)
<1>1. most \in Nat
  <2>1. {c[i].days : i \in D} = {days[i] : i \in D}
    OBVIOUS
  <2> DEFINE S == {0} \cup {days[i] : i \in D}
  <2>2. IsFiniteSet({days[i] : i \in D})
    <3> HIDE DEF days
    <3> QED
      BY FiniteImage
  <2>3. IsFiniteSet(S) /\ S # {}
    BY <2>2, FS_Singleton, FS_Union
  <2>4. S \subseteq Nat
    BY DEF Window
  <2> HIDE DEF S
  <2>5. Numbers(S)
    BY <2>4 DEF Numbers
  <2>6. Max(S) \in S
    BY <2>3, <2>5, Largest
  <2> QED
    BY <2>1, <2>4, <2>6 DEF S
<1>2. sum \in Nat
  <2>1. sum = SumOf(cu)
    BY Zenon DEF SumOver
  <2>2. DOMAIN cu = D /\ \A i \in D : cu[i] \in Nat
    BY DEF Window
  <2> HIDE DEF cu
  <2>3. SumOf(cu) = Total(cu, D)
    BY <2>2, SumOfIs
  <2>4. Total(cu, D) \in Nat
    BY <2>2, TotalNat
  <2> QED
    BY <2>1, <2>3, <2>4
<1>3. Sustained(c) = IF most = 0 THEN 0 ELSE (10 * sum) \div most
  BY Zenon DEF Sustained
<1> HIDE DEF most, sum
<1>4. ASSUME NEW a \in Nat, NEW b \in Nat \ {0}
      PROVE  (10 * a) \div b \in Nat
  <2> DEFINE x == 10 * a
             q == x \div b
             r == x % b
  <2>1. x \in Nat
    OBVIOUS
  <2> HIDE DEF x
  <2>2. q \in Int /\ r \in 0..(b - 1) /\ x = b * q + r
    BY <2>1
  <2> HIDE DEF q, r
  <2>3. CASE q <= -1
    <3>1. b * q <= b * (-1)
      BY <2>2, <2>3
    <3> QED
      BY <2>1, <2>2, <3>1
  <2>4. CASE q >= 0
    BY <2>2, <2>4 DEF q, x
  <2> QED
    BY <2>2, <2>3, <2>4
<1>5. CASE most = 0
  BY <1>3, <1>5
<1>6. CASE most # 0
  <2>1. most \in Nat \ {0}
    BY <1>1, <1>6
  <2>2. (10 * sum) \div most \in Nat
    BY <1>2, <1>4, <2>1, Zenon
  <2> QED
    BY <1>3, <1>6, <2>2, Zenon
<1> QED
  BY <1>5, <1>6

\* What a sequence is.
LEMMA ListIs == ASSUME NEW M, NEW s \in Seq(M)
                PROVE  DOMAIN s = 1..Len(s) /\ Len(s) \in Nat /\ \A i \in 1..Len(s) : s[i] \in M
OBVIOUS

\* What the artefacts say of windows.
LEMMA WindowsTyped ==
    ASSUME NEW rows \in RowsByWindow
    PROVE  /\ IsFiniteSet(DOMAIN rows) /\ DOMAIN rows = 1..Len(rows) /\ Len(rows) \in Nat
           /\ \A i \in DOMAIN rows : Window(rows[i])
<1>1. /\ DOMAIN rows = 1..Len(rows) /\ Len(rows) \in Nat
      /\ \A i \in 1..Len(rows) : rows[i] \in [days : Nat \ {0}, cu : Nat]
  BY ListIs, Zenon DEF RowsByWindow
<1>2. IsFiniteSet(1..Len(rows))
  BY <1>1, FS_Interval
<1> QED
  BY <1>1, <1>2 DEF Window

\* The preferred window is one of them.
LEMMA PreferredTyped ==
    ASSUME NEW rows \in RowsByWindow, rows # <<>>
    PROVE  Window(Preferred(rows))
<1> DEFINE S == {i \in DOMAIN rows : rows[i].days = 7}
<1>1. /\ DOMAIN rows = 1..Len(rows) /\ Len(rows) \in Nat
      /\ \A i \in DOMAIN rows : Window(rows[i])
  BY WindowsTyped
<1>2. 1 \in DOMAIN rows
  BY <1>1 DEF RowsByWindow
<1>3. S \subseteq Nat
  BY <1>1
<1>4. Preferred(rows) = IF S # {} THEN rows[Min(S)] ELSE rows[1]
  BY DEF Preferred
<1>5. S # {} => Min(S) \in S
  <2> HIDE DEF S
  <2> QED
    BY <1>3, LeastIs
<1> QED
  BY <1>1, <1>2, <1>4, <1>5

\* What the chosen windows average to is a number.
LEMMA ChosenTyped ==
    ASSUME NEW entries \in Seq(RowsByWindow)
    PROVE  Sustained(ChosenWindows(entries)) \in Nat
<1> DEFINE D == {i \in DOMAIN entries : entries[i] # <<>>}
           c == ChosenWindows(entries)
<1>1. c = [i \in D |-> Preferred(entries[i])]
  BY DEF ChosenWindows
<1>2. DOMAIN entries = 1..Len(entries) /\ Len(entries) \in Nat /\ \A i \in DOMAIN entries : entries[i] \in RowsByWindow
  <2> HIDE DEF RowsByWindow
  <2> QED
    OBVIOUS
<1>3. IsFiniteSet(D)
  <2>1. IsFiniteSet(1..Len(entries))
    BY <1>2, FS_Interval
  <2> QED
    BY <1>2, <2>1, FS_Subset
<1>4. \A i \in D : Window(Preferred(entries[i]))
  BY <1>2, PreferredTyped
<1>5. DOMAIN c = D /\ \A i \in DOMAIN c : Window(c[i])
  BY <1>1, <1>4
<1> HIDE DEF c, D
<1> QED
  BY <1>3, <1>5, SustainedNat DEF c

\* A row of the seven days or the longest window exists.
LEMMA WindowRows ==
    ASSUME NEW rows \in RowsByWindow, rows # <<>>
    PROVE  RowsOfWindow(rows) \subseteq DOMAIN rows /\ RowsOfWindow(rows) # {}
<1> DEFINE days == [i \in DOMAIN rows |-> rows[i].days]
           S == {rows[i].days : i \in DOMAIN rows}
<1>1. /\ DOMAIN rows = 1..Len(rows) /\ Len(rows) \in Nat /\ IsFiniteSet(DOMAIN rows)
      /\ \A i \in DOMAIN rows : Window(rows[i])
  BY WindowsTyped
<1>2. 1 \in DOMAIN rows
  BY <1>1 DEF RowsByWindow
<1>3. S = {days[i] : i \in DOMAIN rows}
  OBVIOUS
<1>4. S \subseteq Nat /\ S # {}
  BY <1>1, <1>2 DEF Window
<1>5. IsFiniteSet(S)
  <2> HIDE DEF days, S
  <2> QED
    BY <1>1, <1>3, FiniteImage
<1>6. Max(S) \in S
  <2>1. Numbers(S)
    BY <1>4 DEF Numbers
  <2> HIDE DEF S
  <2> QED
    BY <1>4, <1>5, <2>1, Largest
<1>7. WidestOr7(rows) = IF \E i \in DOMAIN rows : rows[i].days = 7 THEN 7 ELSE Max(S)
  BY Zenon DEF WidestOr7
<1>8. PICK i \in DOMAIN rows : rows[i].days = WidestOr7(rows)
  BY <1>6, <1>7
<1>9. i \in RowsOfWindow(rows)
  BY <1>8 DEF RowsOfWindow
<1> QED
  BY <1>9 DEF RowsOfWindow

\* So is what some of the rows average to.
LEMMA RestrictedTyped ==
    ASSUME NEW rows \in RowsByWindow, NEW D, D \subseteq DOMAIN rows
    PROVE  Sustained(Restrict(rows, D)) \in Nat
<1> DEFINE c == Restrict(rows, D)
<1>1. DOMAIN c = D /\ \A i \in D : c[i] = rows[i]
  BY DEF Restrict
<1>2. IsFiniteSet(D) /\ \A i \in D : Window(rows[i])
  BY WindowsTyped, FS_Subset
<1> HIDE DEF c
<1>3. Sustained(c) \in Nat
  BY <1>1, <1>2, SustainedNat
<1> QED
  BY <1>3 DEF c

\* What the SQL warehouses would need is a number.
LEMMA SqlNat ==
    ASSUME NEW run, run.databricks.sql \in Seq([avg : Nat \cup {NotGiven}, headroom : Int])
    PROVE  DatabricksSqlDailyCu(run) \in Nat
<1> DEFINE sql == run.databricks.sql
           D == {i \in DOMAIN sql : sql[i].avg # NotGiven}
           load == [i \in D |-> sql[i].avg * (IF sql[i].headroom <= 0 THEN 40 ELSE sql[i].headroom)]
           c == RestrictValues(sql, LAMBDA m : m.avg # NotGiven)
<1>1. DOMAIN c = D /\ \A i \in D : c[i] = sql[i]
  BY DEF RestrictValues, Restrict
<1>2. /\ DOMAIN sql = 1..Len(sql) /\ Len(sql) \in Nat
      /\ \A i \in DOMAIN sql : sql[i].avg \in Nat \cup {NotGiven} /\ sql[i].headroom \in Int
  <2>1. DOMAIN sql = 1..Len(sql) /\ Len(sql) \in Nat
    OBVIOUS
  <2>2. \A i \in 1..Len(sql) : sql[i] \in [avg : Nat \cup {NotGiven}, headroom : Int]
    BY ListIs, Zenon
  <2> HIDE DEF sql
  <2> QED
    BY <2>1, <2>2
<1>3. IsFiniteSet(D)
  <2>1. IsFiniteSet(1..Len(sql))
    BY <1>2, FS_Interval
  <2> QED
    BY <1>2, <2>1, FS_Subset
<1>4. \A i \in D : load[i] \in Nat
  <2>1. ASSUME NEW i \in D PROVE load[i] \in Nat
    <3>1. sql[i].avg \in Nat /\ sql[i].headroom \in Int
      BY <1>2
    <3>2. \A m, n \in Nat : m * n \in Nat
      OBVIOUS
    <3>3. (IF sql[i].headroom <= 0 THEN 40 ELSE sql[i].headroom) \in Nat
      BY <3>1
    <3> QED
      BY <3>1, <3>2, <3>3
  <2> QED
    BY <2>1
<1>5. DatabricksSqlDailyCu(run) = SumOf([i \in DOMAIN c |-> c[i].avg * (IF c[i].headroom <= 0 THEN 40 ELSE c[i].headroom)])
  BY Zenon DEF DatabricksSqlDailyCu, SumOver
<1>6. [i \in DOMAIN c |-> c[i].avg * (IF c[i].headroom <= 0 THEN 40 ELSE c[i].headroom)] = load
  <2> HIDE DEF c
  <2> QED
    BY <1>1
<1>7. DOMAIN load = D
  OBVIOUS
<1> HIDE DEF load, D, c
<1>8. SumOf(load) = Total(load, D)
  BY <1>7, SumOfIs
<1>9. Total(load, D) \in Nat
  BY <1>3, <1>4, TotalNat
<1> QED
  BY <1>5, <1>6, <1>8, <1>9

\* What a run would need is a number, and a need has a SKU.
LEMMA NeedsAreNumbers ==
    ASSUME NEW run, RunOnDisk(run)
    PROVE  IntegrationDailyCu(run) \in Nat /\ OtherCu(run) \in Nat
<1>1. IntegrationDailyCu(run) \in Nat /\ DatabricksDailyCu(run) \in Nat
  BY ChosenTyped, Zenon DEF RunOnDisk, IntegrationDailyCu, DatabricksDailyCu
<1>2. DatabricksSqlDailyCu(run) \in Nat
  BY SqlNat, Zenon DEF RunOnDisk
<1>3. BigQueryDailyCu(run) \in Nat
  <2> DEFINE rows == run.bigquery
  <2>1. rows \in RowsByWindow
    BY Zenon DEF RunOnDisk
  <2>2. CASE rows = <<>>
    BY <2>2 DEF BigQueryDailyCu
  <2>3. CASE rows # <<>>
    <3>1. RowsOfWindow(rows) \subseteq DOMAIN rows /\ RowsOfWindow(rows) # {}
      BY <2>1, <2>3, WindowRows
    <3>2. DOMAIN rows \subseteq Nat
      <4>1. DOMAIN rows = 1..Len(rows) /\ Len(rows) \in Nat
        BY <2>1, WindowsTyped
      <4> QED
        BY <4>1
    <3>3. Min(RowsOfWindow(rows)) \in RowsOfWindow(rows)
      BY <3>1, <3>2, LeastIs
    <3>4. {Min(RowsOfWindow(rows))} \subseteq DOMAIN rows
      BY <3>1, <3>3
    <3>5. Sustained(Restrict(rows, {Min(RowsOfWindow(rows))})) \in Nat
      BY <2>1, <3>4, RestrictedTyped
    <3> QED
      BY <2>3, <3>5, Zenon DEF BigQueryDailyCu
  <2> QED
    BY <2>2, <2>3
<1>4. SnowflakeDailyCu(run) \in Nat
  <2> DEFINE rows == run.snowflake
  <2>1. rows \in RowsByWindow
    BY Zenon DEF RunOnDisk
  <2>2. CASE rows = <<>>
    BY <2>2 DEF SnowflakeDailyCu
  <2>3. CASE rows # <<>>
    <3>1. RowsOfWindow(rows) \subseteq DOMAIN rows
      BY <2>1, <2>3, WindowRows
    <3>2. Sustained(Restrict(rows, RowsOfWindow(rows))) \in Nat
      BY <2>1, <3>1, RestrictedTyped
    <3> QED
      BY <2>3, <3>2, Zenon DEF SnowflakeDailyCu
  <2> QED
    BY <2>2, <2>3
<1> QED
  BY <1>1, <1>2, <1>3, <1>4 DEF OtherCu

\* A lookup in the table names a SKU.
LEMMA SkuNamed == ASSUME NEW units PROVE SmallestSkuCovering(units) # NoSku
<1> DEFINE covering == {s \in ToSet(SkuTable) : s * PerCU * 10 >= units}
<1>1. ToSet(SkuTable) \subseteq Nat \ {0} /\ LargestSku # 0
  BY DEF ToSet, SkuTable, LargestSku
<1>2. covering # {} => Min(covering) \in covering
  <2>1. covering \subseteq Nat
    BY <1>1
  <2> HIDE DEF covering
  <2> QED
    BY <2>1, LeastIs
<1>3. SmallestSkuCovering(units) = IF covering = {} THEN LargestSku ELSE Min(covering)
  BY Zenon DEF SmallestSkuCovering
<1> QED
  BY <1>1, <1>2, <1>3 DEF NoSku

\* A run's own extract is sized and priced.
SizedAndPriced(run, e) ==
    /\ run.fm.withPipelines /\ OtherCu(run) = 0 => e.cu = run.fm.estimated
    /\ e.cu > 0 => e.sku # NoSku
    /\ e.sku \in StaticSkus => e.price.payg # NoPrice /\ e.price.source # ""
    /\ e.price.payg # NoPrice /\ e.spent # NotGiven => e.delta # {}

\* Every extract is, with or without a price list.
LEMMA ExtractSized ==
    ASSUME NEW run, RunOnDisk(run), NEW online
    PROVE  SizedAndPriced(run, ExtractRun(run, online))
<1> DEFINE e == ExtractRun(run, online)
<1>1. /\ e.cu = ProjectedCu(run) /\ e.sku = RecommendedSku(run) /\ e.spent = ActualMonthly(run)
      /\ e.price = Repriced(run, online) /\ e.delta = CostDelta(run, Repriced(run, online))
  BY DEF ExtractRun
<1>2. IntegrationDailyCu(run) \in Nat /\ OtherCu(run) \in Nat /\ run.fm.estimated \in Nat \cup {NotGiven}
  BY NeedsAreNumbers DEF RunOnDisk
<1> HIDE DEF e
<1>3. run.fm.withPipelines /\ OtherCu(run) = 0 => e.cu = run.fm.estimated
  <2>1. ASSUME run.fm.withPipelines, OtherCu(run) = 0
        PROVE  e.cu = run.fm.estimated
    <3>1. run.fm.estimated # NotGiven /\ run.fm.estimated \in Nat
      BY <1>2, <2>1 DEF RunOnDisk
    <3>2. ~AddsPipelines(run)
      BY <2>1, <3>1 DEF AddsPipelines
    <3>3. ProjectedCu(run) = run.fm.estimated + 0 + OtherCu(run)
      BY <3>1, <3>2, Zenon DEF ProjectedCu
    <3> QED
      BY <1>1, <2>1, <3>1, <3>3
  <2> QED
    BY <2>1
<1>4. e.cu > 0 => e.sku # NoSku
  <2>1. ProjectedCu(run) \in Int
    BY <1>2 DEF ProjectedCu, NotGiven
  <2> QED
    BY <1>1, <2>1, SkuNamed DEF RecommendedSku
<1>5. e.sku \in StaticSkus => e.price.payg # NoPrice /\ e.price.source # ""
  <2> DEFINE sku == RecommendedSku(run)
             kept == run.cost.comparison
             live == IF online /\ sku # NoSku THEN Catalogue.payg * sku ELSE NoPrice
             fresh == IF live # NoPrice THEN live ELSE StaticMonthly(sku)
  <2>1. /\ e.price.payg = (IF kept.payg # NoPrice THEN kept.payg ELSE fresh)
        /\ e.price.source = (IF kept.payg # NoPrice \/ fresh = NoPrice THEN kept.source
                             ELSE IF live # NoPrice THEN "live" ELSE OneOf(kept.source, "static"))
    BY <1>1 DEF Repriced
  <2>2. kept.payg # NoPrice => kept.source # ""
    BY DEF RunOnDisk
  <2>3. OneOf(kept.source, "static") # ""
    BY DEF OneOf
  <2>4. sku \in StaticSkus => StaticMonthly(sku) # NoPrice
    <3> HIDE DEF sku
    <3> QED
      BY DEF StaticMonthly, StaticSkus, StaticPrice, NoPrice
  <2> HIDE DEF sku, kept, live
  <2> QED
    BY <1>1, <2>1, <2>2, <2>3, <2>4 DEF sku
<1>6. e.price.payg # NoPrice /\ e.spent # NotGiven => e.delta # {}
  BY <1>1 DEF CostDelta
<1> QED
  BY <1>3, <1>4, <1>5, <1>6, Zenon DEF SizedAndPriced, e

\* What the page tells of a run it places.
Placed(runs) == {run \in runs : Extractable(run)}

\* An extract has the name, the workspace, the status and the time of its run.
LEMMA ExtractIs ==
    ASSUME NEW run, RunOnDisk(run), Extractable(run), NEW online
    PROVE  LET e == ExtractRun(run, online)
           IN  /\ e.id = run.id /\ e.key = WorkspaceKey(run) /\ e.status = OneOf(run.meta.status, "ok")
               /\ e.finished = PlacedAt(run) /\ e.id \in Nat /\ e.finished \in Nat /\ IsFiniteSet(DOMAIN e.blockers)
<1> DEFINE e == ExtractRun(run, online)
<1>1. /\ e.id = run.id /\ e.key = WorkspaceKey(run) /\ e.status = OneOf(run.meta.status, "ok")
      /\ e.finished = PlacedAt(run) /\ e.blockers = Restrict(run.fm.recs, Severity(run, "blocker"))
  BY DEF ExtractRun
<1> HIDE DEF e
<1>2. run.id \in Nat /\ PlacedAt(run) \in Nat
  BY DEF RunOnDisk, Extractable, PlacedAt
<1>3. IsFiniteSet(DOMAIN e.blockers)
  <2>1. DOMAIN run.fm.recs = 1..Len(run.fm.recs) /\ Len(run.fm.recs) \in Nat
    BY ListIs, Zenon DEF RunOnDisk
  <2>2. IsFiniteSet(1..Len(run.fm.recs))
    BY <2>1, FS_Interval
  <2>3. Severity(run, "blocker") \subseteq 1..Len(run.fm.recs)
    BY <2>1 DEF Severity
  <2>4. DOMAIN e.blockers = Severity(run, "blocker")
    BY <1>1 DEF Restrict
  <2> QED
    BY <2>2, <2>3, <2>4, FS_Subset
<1> QED
  BY <1>1, <1>2, <1>3 DEF e

\* The extracts of some runs, each with or without a price list.
ExtractsWith(runs, on) == {ExtractRun(run, on[run]) : run \in Placed(runs)}

\* There is one extract for each run that can be placed.
LEMMA ExtractsAre ==
    ASSUME NEW runs, IsFiniteSet(runs), runs \subseteq RunLibrary, NEW on
    PROVE  Extracts(ExtractsWith(runs, on)) /\ Cardinality(ExtractsWith(runs, on)) = Cardinality(Placed(runs))
<1> DEFINE P == Placed(runs)
           es == ExtractsWith(runs, on)
           f == [run \in P |-> ExtractRun(run, on[run])]
<1>1. \A run \in P : RunOnDisk(run) /\ Extractable(run) /\ run \in RunLibrary
  BY EstateAssumption DEF Placed
<1>2. \A run \in P : /\ f[run].id = run.id /\ f[run].id \in Nat /\ f[run].finished \in Nat
                     /\ IsFiniteSet(DOMAIN f[run].blockers)
  BY <1>1, ExtractIs
<1>3. \A a, b \in P : f[a].id = f[b].id => a = b
  BY <1>1, <1>2, EstateAssumption
<1>4. es = {f[run] : run \in P} /\ DOMAIN f = P
  BY DEF ExtractsWith
<1>5. IsFiniteSet(P)
  BY FS_Subset DEF Placed
<1> HIDE DEF f, P, es
<1>6. f \in Bijection(P, es)
  <2>0. f \in [P -> es] /\ (\A a, b \in P : f[a] = f[b] => a = b) /\ (\A e \in es : \E a \in P : f[a] = e)
    <3>1. f \in [P -> es]
      <4>1. f = [run \in P |-> f[run]]
        BY <1>4 DEF f
      <4>2. \A run \in P : f[run] \in es
        BY <1>4
      <4> QED
        BY <4>1, <4>2
    <3> QED
      BY <1>3, <1>4, <3>1
  <2> QED
    BY <2>0 DEF Bijection, Injection, Surjection, IsInjective
<1>7. IsFiniteSet(es) /\ Cardinality(es) = Cardinality(P)
  BY <1>5, <1>6, FS_Bijection DEF ExistsBijection
<1>8. \A e \in es : e.id \in Nat /\ e.finished \in Nat /\ IsFiniteSet(DOMAIN e.blockers)
  BY <1>2, <1>4
<1>9. \A e, g \in es : e.id = g.id => e = g
  BY <1>3, <1>4
<1> QED
  BY <1>7, <1>8, <1>9 DEF Extracts, es, P

\* The page of some runs.
PageOf(runs, on) ==
    LET es == ExtractsWith(runs, on)
    IN  [rows |-> RowsOf(es), totals |-> EstateTotals(RowsOf(es)), top |-> AggregateTopBlockers(LatestOf(es)), of |-> runs]

\* EstateAgrees and RowsSizedAndPriced of one page.
Agrees(page) ==
    /\ page.totals.runs = Cardinality(Placed(page.of))
    /\ \A run \in Placed(page.of) : \E w \in page.rows : w.latest.key = WorkspaceKey(run) /\
         (OneOf(run.meta.status, "ok") = "ok" => w.latest.status = "ok" /\ w.latest.finished >= PlacedAt(run))
    /\ LET occurrences == SumOver(page.top, LAMBDA b : b.occurrences)
       IN  IF Len(page.top) < TableRows THEN occurrences = page.totals.blockers ELSE occurrences <= page.totals.blockers
    /\ \A i \in DOMAIN page.top : page.top[i].example \subseteq {w.latest.id : w \in page.rows}

\* The page of any runs agrees with itself (web/estate.py, build).
LEMMA PageAgrees ==
    ASSUME NEW runs, IsFiniteSet(runs), runs \subseteq RunLibrary, NEW on
    PROVE  Agrees(PageOf(runs, on))
<1> DEFINE page == PageOf(runs, on)
           es == ExtractsWith(runs, on)
           L == LatestOf(es)
<1>1. page.rows = RowsOf(es) /\ page.totals = EstateTotals(RowsOf(es)) /\ page.top = AggregateTopBlockers(L) /\ page.of = runs
  BY DEF PageOf
<1>2. Extracts(es) /\ Cardinality(es) = Cardinality(Placed(runs))
  BY ExtractsAre
<1>3. /\ EstateTotals(RowsOf(es)).runs = SumOf([w \in RowsOf(es) |-> w.runCount])
      /\ EstateTotals(RowsOf(es)).blockers = SumOf([w \in RowsOf(es) |-> Cardinality(DOMAIN w.latest.blockers)])
  BY DEF EstateTotals
<1> HIDE DEF page, es
<1>4. page.totals.runs = Cardinality(Placed(page.of))
  BY <1>1, <1>2, <1>3, RunsCounted
<1>5. ASSUME NEW run \in Placed(page.of)
      PROVE  \E w \in page.rows : w.latest.key = WorkspaceKey(run) /\
               (OneOf(run.meta.status, "ok") = "ok" => w.latest.status = "ok" /\ w.latest.finished >= PlacedAt(run))
  <2> DEFINE e == ExtractRun(run, on[run])
             w == EstateWorkspace(GroupOf(es, e.key))
  <2>1. RunOnDisk(run) /\ Extractable(run)
    BY <1>1, EstateAssumption DEF Placed
  <2>2. e.key = WorkspaceKey(run) /\ e.status = OneOf(run.meta.status, "ok") /\ e.finished = PlacedAt(run)
    BY <2>1, ExtractIs
  <2>3. e \in es
    BY <1>1 DEF es, ExtractsWith
  <2> HIDE DEF e
  <2>4. e.key \in KeysOf(es) /\ e \in GroupOf(es, e.key)
    BY <2>3 DEF KeysOf, GroupOf
  <2>5. /\ w.latest.key = e.key
        /\ \A g \in GroupOf(es, e.key) : g.status = "ok" => w.latest.status = "ok" /\ w.latest.finished >= g.finished
    BY <1>2, <2>4, RowIs
  <2>6. w \in page.rows
    BY <1>1, <2>4 DEF RowsOf
  <2> HIDE DEF w
  <2> QED
    BY <2>2, <2>4, <2>5, <2>6
<1>6. L \subseteq es /\ Extracts(L)
  BY <1>2, LatestAre
<1>7. page.totals.blockers = Total([e \in L |-> Cardinality(DOMAIN e.blockers)], L)
  BY <1>1, <1>2, <1>3, BlockersOfRows
<1>8. {e.id : e \in L} = {w.latest.id : w \in page.rows}
  BY <1>1 DEF LatestOf
<1> HIDE DEF L
<1>9. /\ IF Len(page.top) < TableRows THEN SumOver(page.top, LAMBDA b : b.occurrences) = page.totals.blockers
         ELSE SumOver(page.top, LAMBDA b : b.occurrences) <= page.totals.blockers
      /\ \A i \in DOMAIN page.top : page.top[i].example \subseteq {w.latest.id : w \in page.rows}
  BY <1>1, <1>6, <1>7, <1>8, TableTells, Zenon
<1> QED
  BY <1>4, <1>5, <1>9, Zenon DEF Agrees, page

\* A row about a run is of the run's own extract.
LEMMA RowsSized ==
    ASSUME NEW runs, IsFiniteSet(runs), runs \subseteq RunLibrary, NEW on,
           NEW w \in PageOf(runs, on).rows, NEW run \in runs, w.latest.id = run.id
    PROVE  SizedAndPriced(run, w.latest)
<1> DEFINE es == ExtractsWith(runs, on)
<1>1. w \in RowsOf(es)
  BY DEF PageOf
<1>2. Extracts(es)
  BY ExtractsAre
<1>3. PICK key \in KeysOf(es) : w = EstateWorkspace(GroupOf(es, key))
  BY <1>1 DEF RowsOf
<1> HIDE DEF es
<1>4. w.latest \in es
  BY <1>2, <1>3, RowIs
<1>5. PICK other \in Placed(runs) : w.latest = ExtractRun(other, on[other])
  BY <1>4 DEF es, ExtractsWith
<1>6. other \in RunLibrary /\ RunOnDisk(other) /\ Extractable(other) /\ run \in RunLibrary
  BY EstateAssumption DEF Placed
<1>7. other.id = run.id
  BY <1>5, <1>6, ExtractIs
<1>8. other = run
  BY <1>6, <1>7, EstateAssumption
<1> QED
  BY <1>5, <1>6, <1>8, ExtractSized

\* The inductive invariant: the cache holds extracts of the runs, and the page
\* is the one of the runs that were there when it was asked for.
EstateKept ==
    /\ IsFiniteSet(shelf) /\ shelf \subseteq RunLibrary
    /\ \A run \in DOMAIN extracts : \E online \in BOOLEAN : extracts[run] = ExtractRun(run, online)
    /\ estatePage = NoPage \/ (/\ IsFiniteSet(estatePage.of) /\ estatePage.of \subseteq RunLibrary
                               /\ \E on \in [Placed(estatePage.of) -> BOOLEAN] : estatePage = PageOf(estatePage.of, on))

\* It holds before any run has landed.
LEMMA EstateInitial == EstateInit => EstateKept
<1>1. IsFiniteSet({}) /\ \A run \in DOMAIN <<>> : FALSE
  BY FS_EmptySet
<1> QED
  BY <1>1 DEF EstateInit, EstateKept

\* A page that is asked for is the one of the runs on disk, also of cached extracts.
LEMMA EstateBuilt == ASSUME EstateKept, NEW online \in BOOLEAN, BuildEstate(online) PROVE EstateKept'
<1> DEFINE f == CollectExtracts(online)
           P == Placed(shelf)
           on == [run \in P |-> CHOOSE o \in BOOLEAN : f[run] = ExtractRun(run, o)]
           es == ExtractsWith(shelf, on)
           page == PageOf(shelf, on)
<1>1. DOMAIN f = P /\ extracts' = f /\ shelf' = shelf
  BY DEF BuildEstate, CollectExtracts, Placed
<1>2. ASSUME NEW run \in P
      PROVE  \E o \in BOOLEAN : f[run] = ExtractRun(run, o)
  <2>1. f[run] = IF run \in DOMAIN Kept THEN Kept[run] ELSE ExtractRun(run, online)
    BY DEF CollectExtracts, Placed
  <2>2. CASE run \in DOMAIN Kept
    <3>1. run \in DOMAIN extracts /\ Kept[run] = extracts[run]
      BY <2>2 DEF Kept
    <3> QED
      BY <2>1, <2>2, <3>1 DEF EstateKept
  <2>3. CASE run \notin DOMAIN Kept
    BY <2>1, <2>3
  <2> QED
    BY <2>2, <2>3
<1>3. on \in [P -> BOOLEAN] /\ \A run \in P : f[run] = ExtractRun(run, on[run])
  <2> HIDE DEF f
  <2>1. \A run \in P : on[run] \in BOOLEAN /\ f[run] = ExtractRun(run, on[run])
    BY <1>2
  <2> QED
    BY <2>1
<1>4. {f[run] : run \in P} = es
  <2> HIDE DEF f, on
  <2> QED
    BY <1>3 DEF ExtractsWith
<1>5. estatePage' = page
  <2> DEFINE ex == {extracts'[run] : run \in DOMAIN extracts'}
             rows == {EstateWorkspace({e \in ex : e.key = key}) : key \in {e.key : e \in ex}}
  <2>1. estatePage' = [rows |-> rows, totals |-> EstateTotals(rows),
                       top |-> AggregateTopBlockers({w.latest : w \in rows}), of |-> shelf]
    BY Zenon DEF BuildEstate
  <2>2. ex = es
    <3> HIDE DEF f, es, P
    <3>1. ex = {f[run] : run \in P}
      BY <1>1, Zenon
    <3> QED
      BY <1>4, <3>1
  <2>3. rows = RowsOf(ex)
    BY Zenon DEF RowsOf, GroupOf, KeysOf
  <2>4. {w.latest : w \in rows} = LatestOf(ex)
    <3> HIDE DEF rows, ex
    <3> QED
      BY <2>3, Zenon DEF LatestOf
  <2>5. page = [rows |-> RowsOf(es), totals |-> EstateTotals(RowsOf(es)), top |-> AggregateTopBlockers(LatestOf(es)), of |-> shelf]
    BY Zenon DEF PageOf
  <2> HIDE DEF rows, ex, es, page
  <2> QED
    BY <2>1, <2>2, <2>3, <2>4, <2>5
<1>6. estatePage'.of = shelf
  BY <1>5 DEF PageOf
<1>7. \A run \in DOMAIN extracts' : \E o \in BOOLEAN : extracts'[run] = ExtractRun(run, o)
  <2> HIDE DEF f, P
  <2> QED
    BY <1>1, <1>2
<1>8. IsFiniteSet(shelf) /\ shelf \subseteq RunLibrary
  BY DEF EstateKept
<1> HIDE DEF f, on, es, page
<1>9. \E o \in [Placed(estatePage'.of) -> BOOLEAN] : estatePage' = PageOf(estatePage'.of, o)
  BY <1>3, <1>5, <1>6 DEF page
<1> QED
  BY <1>1, <1>6, <1>7, <1>8, <1>9 DEF EstateKept

\* No step breaks it.
LEMMA EstateStep == EstateKept /\ [EstateNext]_estateVars => EstateKept'
<1> SUFFICES ASSUME EstateKept, [EstateNext]_estateVars
             PROVE  EstateKept'
  OBVIOUS
<1>1. ASSUME NEW run \in RunLibrary, RunLands(run)
      PROVE  EstateKept'
  <2>1. IsFiniteSet(shelf \cup {run})
    BY FS_AddElement DEF EstateKept
  <2> QED
    BY <1>1, <2>1 DEF EstateKept, RunLands
<1>2. ASSUME NEW run \in RunLibrary, RunIsDeleted(run)
      PROVE  EstateKept'
  <2>1. IsFiniteSet(shelf \ {run})
    BY FS_RemoveElement DEF EstateKept
  <2> QED
    BY <1>2, <2>1 DEF EstateKept, RunIsDeleted
<1>3. CASE UNCHANGED estateVars
  BY <1>3 DEF EstateKept, estateVars
<1> QED
  BY <1>1, <1>2, <1>3, EstateBuilt DEF EstateNext

\* It says what the page must tell.
LEMMA KeptIsTrue == EstateKept => EstateTrue
<1> SUFFICES ASSUME EstateKept
             PROVE  EstateTrue
  OBVIOUS
<1>1. CASE estatePage = NoPage
  <2>1. estatePage.rows = {}
    BY <1>1 DEF NoPage
  <2> QED
    BY <1>1, <2>1 DEF EstateTrue, EstateAgrees, RowsSizedAndPriced
<1>2. CASE estatePage # NoPage
  <2>1. IsFiniteSet(estatePage.of) /\ estatePage.of \subseteq RunLibrary
    BY <1>2 DEF EstateKept
  <2>2. PICK on : estatePage = PageOf(estatePage.of, on)
    BY <1>2 DEF EstateKept
  <2>3. Agrees(PageOf(estatePage.of, on))
    BY <2>1, PageAgrees
  <2>4. Agrees(estatePage)
    BY <2>2, <2>3, Zenon
  <2>5. EstateAgrees
    BY <2>4, Zenon DEF Agrees, EstateAgrees, Placed
  <2>6. ASSUME NEW w \in estatePage.rows, NEW run \in estatePage.of, w.latest.id = run.id
        PROVE  SizedAndPriced(run, w.latest)
    <3>1. w \in PageOf(estatePage.of, on).rows
      BY <2>2, Zenon
    <3> QED
      BY <2>1, <2>6, <3>1, RowsSized
  <2>7. RowsSizedAndPriced
    BY <2>6, Zenon DEF SizedAndPriced, RowsSizedAndPriced
  <2> QED
    BY <2>5, <2>7 DEF EstateTrue
<1> QED
  BY <1>1, <1>2

\* EstateIndex.build: for any runs and any artefacts, with the price list in reach
\* or not, and whatever was cached, the page tells of the runs on disk what they
\* are.  It counts each run that can be placed in the row of its workspace, the
\* row is about the last good run, the table of blockers adds up to the total it
\* is shown beside, capacity is counted once and a SKU of the table has a price.
THEOREM EstateIsTrue == EstateSpec => []EstateTrue
<1>1. EstateInit => EstateKept
  BY EstateInitial
<1>2. EstateKept /\ [EstateNext]_estateVars => EstateKept'
  BY EstateStep
<1>3. EstateKept => EstateTrue
  BY KeptIsTrue
<1> QED
  BY <1>1, <1>2, <1>3, PTL DEF EstateSpec
=============================================================================
