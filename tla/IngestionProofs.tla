---------------------------- MODULE IngestionProofs ----------------------------
(***************************************************************************)
(* Safety of Ingestion for any processes, sources and samples, any widths, *)
(* and any number of processes that die.                                   *)
(***************************************************************************)
EXTENDS Ingestion, FiniteSetTheorems, SequenceTheorems, TLAPS

(* What the index should say of a dataset with the content hash id         *)
ExtentOf(id) ==
    [rows |-> id[2], start |-> IF id[2] = 0 THEN 0 ELSE id[3][1].time,
                     end   |-> IF id[2] = 0 THEN 0 ELSE id[3][id[2]].time]

(* The content hash sees the ends of a table, and with them all that the   *)
(* index says of it.                                                       *)
LEMMA ContentTellsExtent ==
  ASSUME NEW name, NEW rows \in Seq(Rows)
  PROVE  /\ Extent(rows) \in Extents
         /\ Extent(rows) = ExtentOf(ContentId(name, rows))
         /\ Len(ContentId(name, rows)) = 3
<1> DEFINE n == Len(rows)
           ends == [i \in {k \in DOMAIN rows : k <= Shown \/ k > n - Shown} |-> rows[i]]
<1>1. /\ n \in Nat /\ DOMAIN rows = 1..n
      /\ Shown \in Nat \ {0}
      /\ rows = <<>> <=> n = 0
  BY IngestionAssumption, LenProperties, EmptySeq
<1>2. \A i \in DOMAIN rows : rows[i] \in Rows /\ rows[i].time \in Int
  <2>1. \A i \in DOMAIN rows : rows[i] \in Rows
    BY <1>1, ElementOfSeq
  <2> QED  BY <2>1 DEF Rows
<1>3. n # 0 => /\ ends[1] = rows[1] /\ ends[n] = rows[n]
               /\ Head(rows) = rows[1] /\ Last(rows) = rows[n]
  BY <1>1 DEF Last
<1>4. ContentId(name, rows) = <<name, n, ends>>
  BY DEF ContentId
<1> HIDE DEF ends
<1>5. /\ ContentId(name, rows)[2] = n /\ ContentId(name, rows)[3] = ends
      /\ Len(ContentId(name, rows)) = 3
  BY <1>4
<1>6. Extent(rows) = ExtentOf(ContentId(name, rows))
  BY <1>1, <1>3, <1>5 DEF Extent, ExtentOf
<1>7. Extent(rows) \in Extents
  BY <1>1, <1>2, <1>3 DEF Extent, Extents
<1> QED  BY <1>5, <1>6, <1>7

(* rows are as many as those of s and follow the time stamps of s.         *)
InOrder(rows, s) ==
    LET at(d) == CHOOSE i \in DOMAIN s.rows : s.rows[i].data = d
    IN  /\ Len(rows) = Len(s.rows)
        /\ \A i, j \in DOMAIN rows : i < j /\ ~Wraps(s) =>
               s.rows[at(rows[i].data)].time <= s.rows[at(rows[j].data)].time

(* What an ingestion writes has the rows of its source in the order of the *)
(* source's time stamps, unless one overflows: multiplying by Second keeps *)
(* the order, and either all are multiplied or none.                       *)
LEMMA SourceInOrder ==
  ASSUME NEW req \in Jobs
  PROVE  /\ Ordered(Coerced(req.source)) \in Seq(Rows)
         /\ InOrder(Ordered(Coerced(req.source)), req.source)
(* Ordered rearranges the rows, none lost and none twice, by their times.  *)
<1>0. ASSUME NEW rows \in Seq(Rows)
      PROVE  \E order \in Bijection(DOMAIN rows, DOMAIN rows) :
                 /\ Ordered(rows) = [k \in DOMAIN rows |-> rows[order[k]]]
                 /\ \A k, l \in DOMAIN rows :
                        k < l => rows[order[k]].time <= rows[order[l]].time
  <2> USE <1>0
  <2> DEFINE n == Len(rows)
             D == DOMAIN rows
             before(i, j) == \/ rows[i].time < rows[j].time
                             \/ rows[i].time = rows[j].time /\ i < j
             earlier(i) == {j \in D : before(j, i)}
             place(i) == Cardinality(earlier(i)) + 1
             order == [k \in D |-> CHOOSE i \in D : place(i) = k]
  <2>1. n \in Nat /\ D = 1..n
    BY LenProperties
  <2>2. \A i \in D : rows[i].time \in Int
    <3>1. \A i \in D : rows[i] \in Rows
      BY <2>1, ElementOfSeq
    <3> QED  BY <3>1 DEF Rows
  <2> HIDE DEF n, D
  <2>0. IsFiniteSet(D) /\ Cardinality(D) = n
    BY <2>1, FS_Interval
  <2>3. \A i, j, k \in D : /\ ~before(i, i)
                           /\ before(i, j) /\ before(j, k) => before(i, k)
                           /\ i = j \/ before(i, j) \/ before(j, i)
                           /\ before(i, j) => rows[i].time <= rows[j].time
    BY <2>1, <2>2
  <2>4. Ordered(rows) = [k \in D |-> rows[order[k]]]
    BY DEF Ordered, D
  <2> HIDE DEF before
  <2>5. ASSUME NEW i \in D
        PROVE  /\ IsFiniteSet(earlier(i)) /\ Cardinality(earlier(i)) \in Nat
               /\ Cardinality(earlier(i)) + 1 \in D
    <3> DEFINE rest == D \ {i}
    <3>1. IsFiniteSet(rest) /\ Cardinality(rest) = n - 1
      BY <2>0, FS_RemoveElement
    <3>2. earlier(i) \in SUBSET rest
      BY <2>3
    <3> HIDE DEF rest
    <3>3. IsFiniteSet(earlier(i)) /\ Cardinality(earlier(i)) <= n - 1
      BY <3>1, <3>2, FS_Subset
    <3>4. Cardinality(earlier(i)) \in Nat
      BY <3>3, FS_CardinalityType
    <3> QED  BY <2>1, <3>3, <3>4
  <2>6. ASSUME NEW i \in D, NEW j \in D, before(i, j)
        PROVE  Cardinality(earlier(i)) < Cardinality(earlier(j))
    <3>1. earlier(i) \in SUBSET earlier(j)
      BY <2>3, <2>6
    <3>2. earlier(i) # earlier(j)
      BY <2>3, <2>6
    <3>3. IsFiniteSet(earlier(j))
      BY <2>5
    <3>4. /\ Cardinality(earlier(i)) <= Cardinality(earlier(j))
          /\ Cardinality(earlier(i)) # Cardinality(earlier(j))
      BY <3>1, <3>2, <3>3, FS_Subset
    <3>5. Cardinality(earlier(i)) \in Nat /\ Cardinality(earlier(j)) \in Nat
      BY <2>5
    <3> HIDE DEF earlier
    <3> QED  BY <3>4, <3>5
  <2> DEFINE rank == [i \in D |-> place(i)]
  <2>7. /\ rank \in [D -> D]
        /\ \A i, j \in D : before(i, j) => rank[i] < rank[j]
        /\ \A i \in D : rank[i] = place(i)
    <3>1. \A i \in D : rank[i] = place(i) /\ place(i) \in D
      BY <2>5
    <3>2. ASSUME NEW i \in D, NEW j \in D, before(i, j) PROVE place(i) < place(j)
      <4>1. /\ Cardinality(earlier(i)) \in Nat /\ Cardinality(earlier(j)) \in Nat
            /\ Cardinality(earlier(i)) < Cardinality(earlier(j))
        BY <2>5, <2>6, <3>2
      <4> HIDE DEF earlier
      <4> QED  BY <4>1
    <3> HIDE DEF place
    <3> QED  BY <3>1, <3>2
  <2> HIDE DEF rank
  <2>8. rank \in Injection(D, D)
    <3> SUFFICES ASSUME NEW i \in D, NEW j \in D, rank[i] = rank[j]
                 PROVE  i = j
      BY <2>7 DEF Injection, IsInjective
    <3> HIDE DEF order, place
    <3>1. ~(rank[i] < rank[j]) /\ ~(rank[j] < rank[i])
      BY <2>1, <2>7
    <3>2. ~before(i, j) /\ ~before(j, i)
      BY <2>7, <3>1
    <3> QED  BY <2>3, <3>2
  <2>9. rank \in Surjection(D, D)
    BY <2>0, <2>8, FS_Injection
  <2>10. ASSUME NEW k \in D PROVE order[k] \in D /\ rank[order[k]] = k
    <3>1. PICK i \in D : rank[i] = k
      BY <2>9 DEF Surjection
    <3>2. place(i) = k
      BY <2>7, <3>1
    <3> HIDE DEF place
    <3>3. order[k] \in D /\ place(order[k]) = k
      BY <3>2
    <3> QED  BY <2>7, <3>3
  <2>11. order \in [D -> D] /\ DOMAIN order = D
    BY <2>10
  <2> HIDE DEF order
  <2>12. order \in Injection(D, D)
    BY <2>10, <2>11 DEF Injection, IsInjective
  <2>13. order \in Bijection(D, D)
    BY <2>0, <2>12, FS_Injection DEF Bijection
  <2>14. ASSUME NEW k \in D, NEW l \in D, k < l
         PROVE  rows[order[k]].time <= rows[order[l]].time
    <3>1. ~before(order[l], order[k]) /\ order[k] # order[l]
      <4>1. /\ order[k] \in D /\ order[l] \in D
            /\ rank[order[k]] = k /\ rank[order[l]] = l
        BY <2>10
      <4>2. ~(l < k) /\ k # l
        BY <2>1, <2>14
      <4> QED  BY <2>7, <4>1, <4>2
    <3> QED  BY <2>3, <2>10, <3>1
  <2>15. /\ Ordered(rows) = [k \in D |-> rows[order[k]]]
         /\ \A k, l \in D : k < l => rows[order[k]].time <= rows[order[l]].time
    BY <2>4, <2>14
  <2> QED  BY <2>13, <2>15 DEF D
<1> DEFINE s == req.source
           rows == s.rows
           c == Coerced(s)
           sorted == Ordered(c)
           at(d) == CHOOSE i \in DOMAIN rows : rows[i].data = d
<1>1. /\ rows \in Seq(Rows)
      /\ \A i, k \in DOMAIN rows : rows[i].data = rows[k].data => i = k
      /\ Second \in Nat \ {0} /\ Width \in Nat \ {0}
  BY IngestionAssumption
<1>2. Len(rows) \in Nat /\ DOMAIN rows = 1..Len(rows)
  BY <1>1, LenProperties
<1>3. \A i \in DOMAIN rows : rows[i] \in Rows
  BY <1>1, <1>2, ElementOfSeq
<1> HIDE DEF s
<1>4. ASSUME NEW x \in Int PROVE Wrap(x * Second) \in Int
  <2>1. x * Second \in Int
    BY <1>1
  <2>2. (x * Second + Width) % (2 * Width) \in Int
    BY <1>1, <2>1
  <2> QED  BY <1>1, <2>2 DEF Wrap
<1>5. ASSUME NEW i \in DOMAIN rows
      PROVE  /\ c[i] \in Rows
             /\ c[i].data = rows[i].data
             /\ c[i].time = IF Scales(s, rows[i].time) THEN Wrap(rows[i].time * Second)
                                                       ELSE rows[i].time
  <2> DEFINE time == IF Scales(s, rows[i].time) THEN Wrap(rows[i].time * Second)
                                                ELSE rows[i].time
  <2>1. c[i] = [rows[i] EXCEPT !.time = time]
    BY DEF Coerced
  <2>2. time \in Int
    BY <1>3, <1>4 DEF Rows
  <2> HIDE DEF time
  <2>3. c[i] \in Rows /\ c[i].data = rows[i].data /\ c[i].time = time
    BY <1>3, <2>1, <2>2 DEF Rows
  <2> QED  BY <2>3 DEF time
<1>6. DOMAIN c = DOMAIN rows
  BY DEF Coerced
<1> HIDE DEF c
<1>7. c \in Seq(Rows)
  <2>1. c = [i \in 1..Len(rows) |-> c[i]]
    BY <1>2, <1>6 DEF c, Coerced
  <2>2. \A i \in 1..Len(rows) : c[i] \in Rows
    BY <1>2, <1>5
  <2> QED  BY <1>2, <2>1, <2>2, IsASeq
<1>8. PICK order \in Bijection(DOMAIN c, DOMAIN c) :
          /\ sorted = [k \in DOMAIN c |-> c[order[k]]]
          /\ \A k, l \in DOMAIN c : k < l => c[order[k]].time <= c[order[l]].time
  BY <1>7, <1>0
<1> HIDE DEF sorted
<1>9. \A k \in DOMAIN rows : order[k] \in DOMAIN rows
  BY <1>6, <1>8 DEF Bijection, Injection, Surjection
<1>10. DOMAIN sorted = DOMAIN rows /\ \A k \in DOMAIN rows : sorted[k] = c[order[k]]
  BY <1>6, <1>8
<1>11. sorted \in Seq(Rows) /\ Len(sorted) = Len(rows)
  <2>1. sorted = [k \in 1..Len(rows) |-> sorted[k]]
    BY <1>2, <1>6, <1>8
  <2>2. \A k \in 1..Len(rows) : sorted[k] \in Rows
    BY <1>2, <1>5, <1>9, <1>10
  <2>3. sorted \in Seq(Rows)
    BY <1>2, <2>1, <2>2, IsASeq
  <2> QED  BY <1>2, <1>10, <2>3, LenProperties
<1>12. ASSUME NEW k \in DOMAIN rows PROVE at(sorted[k].data) = order[k]
  <2>1. order[k] \in DOMAIN rows /\ sorted[k].data = rows[order[k]].data
    BY <1>5, <1>9, <1>10
  <2>2. \A i \in DOMAIN rows : rows[i].data = sorted[k].data <=> i = order[k]
    BY <1>1, <2>1
  <2> QED  BY <2>1, <2>2
<1>13. ASSUME NEW i \in DOMAIN rows, NEW k \in DOMAIN rows, ~Wraps(s), c[i].time <= c[k].time
       PROVE  rows[i].time <= rows[k].time
  <2>1. rows[i].time \in Int /\ rows[k].time \in Int
    BY <1>3 DEF Rows
  <2>2. CASE Scales(s, 0)
    <3>1. c[i].time = rows[i].time * Second /\ c[k].time = rows[k].time * Second
      BY <1>5, <1>13, <2>2 DEF Wraps, Scales
    <3>2. rows[i].time * Second <= rows[k].time * Second
      BY <1>13, <3>1
    <3>3. \A x, y, n \in Int : n > 0 /\ x * n <= y * n => x <= y
      OBVIOUS
    <3> QED  BY <1>1, <2>1, <3>2, <3>3
  <2>3. CASE ~Scales(s, 0)
    BY <1>5, <1>13, <2>3 DEF Scales
  <2> QED  BY <2>2, <2>3
<1>14. ASSUME NEW i \in DOMAIN sorted, NEW k \in DOMAIN sorted, i < k, ~Wraps(s)
       PROVE  rows[at(sorted[i].data)].time <= rows[at(sorted[k].data)].time
  <2>1. c[order[i]].time <= c[order[k]].time
    BY <1>6, <1>8, <1>10, <1>14
  <2>2. rows[order[i]].time <= rows[order[k]].time
    BY <1>9, <1>10, <1>13, <1>14, <2>1
  <2> QED  BY <1>10, <1>12, <2>2
<1> QED  BY <1>11, <1>14 DEF s, sorted, c, InOrder
-----------------------------------------------------------------------------
(* A process has a table once it is past Load, which is that of its job,   *)
(* and which its id describes.                                             *)
PreparedInv ==
    /\ pc \in [Procs -> Locations]
    /\ DOMAIN job = Procs /\ DOMAIN table = Procs /\ DOMAIN loaded = Procs
    /\ \A p \in Procs :
           /\ pc[p] = "start" => table[p] = None
           /\ pc[p] \notin {"start", "failed"} => table[p] # None
           /\ table[p] # None =>
                  /\ table[p] \in Seq(Rows)
                  /\ Id(p) \in Ids
                  /\ Len(Id(p)) # 1 => Extent(table[p]) = ExtentOf(Id(p))
                  /\ job[p].source # None =>
                         job[p] \in Jobs /\ table[p] = Ordered(Coerced(job[p].source))
                  /\ job[p].register => job[p] \in Jobs
           /\ pc[p] \in {"register", "loaded", "indexing"} => job[p].register
           /\ loaded[p] # None => pc[p] \notin {"start", "write", "writing", "register"}

(* A file named by its content is as its name says, or it is torn by       *)
(* somebody who writes it, died there, or wrote it beside another.         *)
TornBy(p, d) == table[p] # None /\ Id(p) = d /\ (pc[p] \in {"writing", "crashed"} \/ p \in clash)

FilesInv ==
    /\ DOMAIN files \subseteq Ids
    /\ clash \subseteq Procs
    /\ \A p \in Procs : pc[p] \in {"writing", "register", "loaded", "indexing"} =>
                            Id(p) \in DOMAIN files
    /\ \A d \in DOMAIN files :
           \/ files[d] = Torn /\ \E p \in Procs : TornBy(p, d)
           \/ files[d] \in Seq(Rows) /\ (Len(d) # 1 => Extent(files[d]) = ExtentOf(d))

(* What an index says of a dataset named by its content is in the name.    *)
Entries(f) ==
    /\ f \in [DOMAIN f -> Metas]
    /\ DOMAIN f \subseteq registered
    /\ \A d \in DOMAIN f : Len(d) # 1 => f[d].extent = ExtentOf(d)

IndexInv ==
    /\ registered \subseteq DOMAIN files
    /\ index \notin {None, Torn} => Entries(index)
    /\ \A p \in Procs : pc[p] \in {"loaded", "indexing"} => Entries(loaded[p])

(* As long as registrations do not overlap and nobody has died while it    *)
(* wrote the index, at most one process is registering, and what it has    *)
(* loaded is what is registered.                                           *)
KeptInv ==
    \/ overlap
    \/ \E p \in Procs : pc[p] = "crashed_indexing"
    \/ /\ \A p, q \in Registering : p = q
       /\ \A p \in Registering : DOMAIN loaded[p] = registered
       /\ \A p \in Procs : pc[p] = "indexing" => index = Torn
       /\ \/ \E p \in Procs : pc[p] = "indexing"
          \/ index # Torn /\ registered = IF index = None THEN {} ELSE DOMAIN index

(* Who has the file of a dataset in hand, and nobody else has, is the one  *)
(* that wrote it.                                                          *)
Holding == {p \in Procs : pc[p] \in {"writing", "register", "loaded", "indexing"}}

HolderInv ==
    /\ \A p, q \in Holding : p # q /\ Id(p) = Id(q) => Id(p) \in shared
    /\ \A p \in clash : table[p] # None /\ Id(p) \in shared
    /\ \A p \in Procs : pc[p] \in {"register", "loaded", "indexing"} /\ Id(p) \notin shared =>
                            files[Id(p)] = table[p]

(* Entry and file of a settled dataset are of one process.                 *)
Witness(d, f, p) ==
    table[p] # None /\ Id(p) = d /\ files[d] = table[p] /\ f[d] = Meta(p)

Sourced(f) == \A d \in DOMAIN f : Settled(d) => \E p \in Procs : Witness(d, f, p)

SourceInv ==
    ~overlap => /\ index \notin {None, Torn} => Sourced(index)
                /\ \A p \in Registering : Sourced(loaded[p])
                /\ \A p, q \in Registering : p = q

IngestionInv == PreparedInv /\ FilesInv /\ IndexInv /\ KeptInv /\ HolderInv /\ SourceInv

(* Whatever processes ingest, generate or die, and whenever: the index is  *)
(* true of the rows of the files it names by their content; of the source  *)
(* as well when those with one id go one after the other; it keeps its     *)
(* entries, and what is written is in the order of time.                   *)
THEOREM IngestionSafe ==
  Spec => [](/\ TypeOK /\ IndexDescribesFiles /\ IndexNamesSource
             /\ IndexKeepsEntries /\ TimeOrderKept)
<1>1. Init => IngestionInv
  <2> SUFFICES ASSUME Init PROVE IngestionInv
    OBVIOUS
  <2>1. PreparedInv
    BY DEF Init, PreparedInv, Locations
  <2>2. FilesInv /\ IndexInv
    BY DEF Init, FilesInv, IndexInv
  <2>3. KeptInv
    <3>1. Registering = {} /\ index = None /\ registered = {}
      BY DEF Init, Registering
    <3>2. \A p \in Procs : pc[p] # "indexing"
      BY DEF Init
    <3> QED  BY <3>1, <3>2, MarksAssumption DEF KeptInv
  <2>4. HolderInv /\ SourceInv
    BY DEF Init, HolderInv, SourceInv, Holding, Registering
  <2> QED  BY <2>1, <2>2, <2>3, <2>4 DEF IngestionInv
<1>2. IngestionInv => TypeOK
  BY DEF IngestionInv, PreparedInv, FilesInv, IndexInv, Entries, TypeOK
<1>3. IngestionInv => IndexDescribesFiles
  BY MarksAssumption
     DEF IngestionInv, FilesInv, TornBy, IndexInv, Entries, IndexDescribesFiles
<1>4. IngestionInv => IndexKeepsEntries
  BY DEF IngestionInv, KeptInv, IndexKeepsEntries
<1>5. IngestionInv => IndexNamesSource
  BY DEF IngestionInv, SourceInv, Sourced, Witness, IndexNamesSource
<1>6. IngestionInv => TimeOrderKept
  <2>1. ASSUME IngestionInv, NEW p \in Procs, table[p] # None, job[p].source # None
        PROVE  InOrder(table[p], job[p].source)
    BY <2>1, SourceInOrder DEF IngestionInv, PreparedInv
  <2> QED  BY <2>1 DEF TimeOrderKept, InOrder
(* Every step preserves it, that of a process that dies included.          *)
<1>7. IngestionInv /\ [Next]_vars => IngestionInv'
  <2> SUFFICES ASSUME IngestionInv, [Next]_vars PROVE IngestionInv'
    OBVIOUS
  <2> USE DEF IngestionInv
  <2>0. /\ None # Torn
        /\ \A m \in {None, Torn} : m \notin Seq(Rows) /\ \A E \in SUBSET Ids : m \notin [E -> Metas]
    BY MarksAssumption
  <2>1. ASSUME NEW p \in Procs, \A q \in Procs \ {p} : pc'[q] = pc[q],
               UNCHANGED <<job, table, files, clash, shared>>,
               pc'[p] \in {"writing", "register", "loaded", "indexing"} =>
                   pc[p] \in {"register", "loaded", "indexing"}
        PROVE  /\ HolderInv'
               /\ \A d, f : \A q \in Procs : Witness(d, f, q) => Witness(d, f, q)'
               /\ \A d : Settled(d)' => Settled(d) \/ (d = Id(p) /\ pc'[p] \in {"write", "done"})
    <3>1. \A q \in Procs : Id(q)' = Id(q) /\ Meta(q)' = Meta(q)
      BY <2>1 DEF Id, Meta
    <3>2. Holding' \subseteq Holding
      BY <2>1 DEF Holding
    <3>3. HolderInv'
      BY <2>1, <3>1, <3>2 DEF HolderInv, Holding, FilesInv
    <3>4. \A d, f : \A q \in Procs : Witness(d, f, q) => Witness(d, f, q)'
      BY <2>1, <3>1 DEF Witness
    <3>5. ASSUME NEW d, Settled(d)', d # Id(p) \/ pc'[p] \notin {"write", "done"}
          PROVE  Settled(d)
      BY <2>1, <3>1, <3>5 DEF Settled
    <3> QED  BY <3>3, <3>4, <3>5
  <2>2. ASSUME NEW p \in Procs,
               Load(p) \/ Generate(p)
        PROVE  IngestionInv'
    <3>1. /\ pc[p] = "start" /\ pc' \in [Procs -> Locations]
          /\ pc'[p] \in {"write", "failed"}
          /\ \A q \in Procs \ {p} : pc'[q] = pc[q]
          /\ UNCHANGED <<loaded, files, index, clash, registered, overlap, shared>>
      <4>1. CASE Load(p)
        BY <4>1 DEF Load, Goto, PreparedInv, Locations
      <4>2. CASE Generate(p)
        BY <4>2 DEF Generate, Goto, PreparedInv, Locations
      <4> QED  BY <2>2, <4>1, <4>2
    <3>2. /\ DOMAIN job' = Procs /\ DOMAIN table' = Procs
          /\ \A q \in Procs \ {p} : job'[q] = job[q] /\ table'[q] = table[q]
      <4>1. CASE Load(p)
        BY <4>1 DEF Load, PreparedInv
      <4>2. CASE Generate(p)
        BY <4>2 DEF Generate, PreparedInv
      <4> QED  BY <2>2, <4>1, <4>2
    <3>3. \A q \in Procs \ {p} : Id(q)' = Id(q)
      BY <3>2 DEF Id
    <3>4. table[p] = None
      BY <3>1 DEF PreparedInv
    <3>5. /\ pc'[p] = "write" => table'[p] # None
          /\ table'[p] # None =>
                 /\ table'[p] \in Seq(Rows)
                 /\ Id(p)' \in Ids
                 /\ Len(Id(p)') # 1 => Extent(table'[p]) = ExtentOf(Id(p)')
                 /\ job'[p].source # None =>
                        job'[p] \in Jobs /\ table'[p] = Ordered(Coerced(job'[p].source))
                 /\ job'[p].register => job'[p] \in Jobs
      <4>1. CASE Load(p)
        <5>1. PICK j \in Jobs :
                  /\ job' = [job EXCEPT ![p] = j]
                  /\ IF Normalizable(j.source)
                       THEN /\ Goto(p, "start", "write")
                            /\ table' = [table EXCEPT ![p] = Ordered(Coerced(j.source))]
                       ELSE Goto(p, "start", "failed") /\ UNCHANGED table
          BY <4>1 DEF Load
        <5>2. job'[p] = j
          BY <5>1 DEF PreparedInv
        <5>3. CASE Normalizable(j.source)
          <6>1. table'[p] = Ordered(Coerced(j.source))
            BY <5>1, <5>3 DEF PreparedInv
          <6>2. table'[p] \in Seq(Rows)
            BY <6>1, SourceInOrder
          <6>3. table'[p] # None
            BY <2>0, <6>2
          <6>4. CASE j.id # None
            <7>1. Id(p)' = <<j.id>>
              BY <5>2, <6>4 DEF Id
            <7> QED  BY <5>2, <6>1, <6>2, <6>3, <7>1 DEF Ids
          <6>5. CASE j.id = None
            <7>1. Id(p)' = ContentId(j.source.name, table'[p])
              BY <5>2, <6>5 DEF Id
            <7>2. Id(p)' \in Ids
              BY <6>1, <7>1 DEF Ids
            <7>3. Extent(table'[p]) = ExtentOf(Id(p)')
              BY <6>2, <7>1, ContentTellsExtent
            <7> QED  BY <5>2, <6>1, <6>2, <6>3, <7>2, <7>3
          <6> QED  BY <6>4, <6>5
        <5>4. CASE ~Normalizable(j.source)
          BY <3>4, <5>1, <5>4 DEF Goto, PreparedInv
        <5> QED  BY <5>3, <5>4
      <4>2. CASE Generate(p)
        <5>1. PICK s \in Samples :
                  /\ job' = [job EXCEPT ![p] = [source |-> None, id |-> s.output, register |-> FALSE]]
                  /\ table' = [table EXCEPT ![p] =
                         [i \in 1 .. s.ticks |-> [time |-> (i - 1) * Second, data |-> i]]]
          BY <4>2 DEF Generate
        <5>2. s.output # None /\ s.ticks \in Nat /\ Second \in Nat
          BY IngestionAssumption
        <5>3. job'[p].id = s.output /\ job'[p].source = None /\ ~job'[p].register
          BY <5>1 DEF PreparedInv
        <5>4. Id(p)' = <<s.output>>
          BY <5>2, <5>3 DEF Id
        <5>5. table'[p] = [i \in 1 .. s.ticks |-> [time |-> (i - 1) * Second, data |-> i]]
          BY <5>1 DEF PreparedInv
        <5>6. \A i \in 1 .. s.ticks : [time |-> (i - 1) * Second, data |-> i] \in Rows
          BY <5>2 DEF Rows
        <5>7. table'[p] \in Seq(Rows)
          BY <5>2, <5>5, <5>6, IsASeq
        <5>8. table'[p] # None
          BY <2>0, <5>7
        <5> QED  BY <5>3, <5>4, <5>7, <5>8 DEF Ids
      <4> QED  BY <2>2, <4>1, <4>2
    <3>6. PreparedInv'
      BY <3>1, <3>2, <3>3, <3>5 DEF PreparedInv
    <3>7. FilesInv'
      <4>1. \A q \in Procs : \A d : TornBy(q, d) => TornBy(q, d)'
        BY <3>1, <3>2, <3>3, <3>4 DEF TornBy
      <4>2. ASSUME NEW q \in Procs, pc'[q] \in {"writing", "register", "loaded", "indexing"}
            PROVE  Id(q)' \in DOMAIN files'
        BY <3>1, <3>3, <4>2 DEF FilesInv
      <4> QED  BY <3>1, <4>1, <4>2 DEF FilesInv
    <3>8. IndexInv'
      BY <3>1 DEF IndexInv, Entries
    <3>9. KeptInv'
      BY <3>1 DEF KeptInv, Registering
    <3>10. HolderInv'
      <4>1. p \notin clash
        BY <3>4 DEF HolderInv
      <4>2. Holding' = Holding /\ p \notin Holding
        BY <3>1 DEF Holding
      <4>3. \A q \in Holding : q \in Procs
        BY DEF Holding
      <4> QED  BY <3>1, <3>2, <3>3, <4>1, <4>2, <4>3 DEF HolderInv, FilesInv
    <3>11. SourceInv'
      <4>1. \A q \in Procs \ {p} : Meta(q)' = Meta(q)
        BY <3>2 DEF Meta
      <4>2. \A d : Settled(d)' => Settled(d)
        BY <3>1, <3>2, <3>3, <3>4 DEF Settled
      <4>3. \A d, f : \A q \in Procs : Witness(d, f, q) => Witness(d, f, q)'
        BY <3>1, <3>2, <3>3, <3>4, <4>1 DEF Witness
      <4>4. \A f : Sourced(f) => Sourced(f)'
        BY <4>2, <4>3 DEF Sourced
      <4>5. Registering' = Registering
        BY <3>1 DEF Registering
      <4> QED  BY <3>1, <4>4, <4>5 DEF SourceInv
    <3> QED  BY <3>6, <3>7, <3>8, <3>9, <3>10, <3>11
  <2>3. ASSUME NEW p \in Procs, OpenFile(p) PROVE IngestionInv'
    <3>1. /\ pc[p] = "write" /\ pc' = [pc EXCEPT ![p] = "writing"] /\ pc'[p] = "writing"
          /\ \A q \in Procs \ {p} : pc'[q] = pc[q]
          /\ files' = Put(files, Id(p), Torn)
          /\ clash \subseteq clash' /\ clash' \subseteq Procs
          /\ \/ InHand(Id(p)) = {} /\ clash' = clash /\ shared' = shared
             \/ /\ shared' = shared \cup {Id(p)}
                /\ clash' \subseteq clash \cup InHand(Id(p)) \cup {p}
          /\ UNCHANGED <<job, table, loaded, index, registered, overlap>>
      BY <2>3 DEF OpenFile, Goto, PreparedInv, FilesInv, InHand
    <3>2. \A q \in Procs : Id(q)' = Id(q)
      BY <3>1 DEF Id
    <3>3. table[p] # None /\ Id(p) \in Ids
      BY <3>1 DEF PreparedInv
    <3>4. /\ DOMAIN files' = DOMAIN files \cup {Id(p)} /\ files'[Id(p)] = Torn
          /\ \A d \in DOMAIN files : d # Id(p) => files'[d] = files[d]
      BY <3>1 DEF Put
    <3>5. PreparedInv'
      BY <3>1, <3>2 DEF PreparedInv, Locations
    <3>6. FilesInv'
      <4>1. \A q \in Procs : \A d : TornBy(q, d) => TornBy(q, d)'
        BY <3>1, <3>2 DEF TornBy
      <4>2. TornBy(p, Id(p))'
        BY <3>1, <3>2, <3>3 DEF TornBy
      <4> QED  BY <3>1, <3>2, <3>3, <3>4, <4>1, <4>2 DEF FilesInv
    <3>7. IndexInv'
      BY <3>1, <3>4 DEF IndexInv, Entries
    <3>8. KeptInv'
      BY <3>1 DEF KeptInv, Registering
    <3>9. HolderInv'
      <4>1. /\ Holding' = Holding \cup {p}
            /\ InHand(Id(p)) = {q \in Holding : Id(q) = Id(p)}
        BY <3>1 DEF Holding, InHand
      <4>2. shared \subseteq shared' /\ (shared' = shared => InHand(Id(p)) = {} \/ Id(p) \in shared)
        BY <3>1
      <4>3. ASSUME NEW q \in Holding', NEW o \in Holding', q # o, Id(q)' = Id(o)'
            PROVE  Id(q)' \in shared'
        <5>1. q \in Procs /\ o \in Procs /\ Id(q) = Id(o)
          BY <3>2, <4>3 DEF Holding
        <5>2. CASE q \in Holding /\ o \in Holding
          BY <3>2, <4>2, <4>3, <5>1, <5>2 DEF HolderInv
        <5>3. CASE q = p \/ o = p
          <6>1. Id(q) = Id(p) /\ InHand(Id(p)) # {}
            BY <4>1, <4>3, <5>1, <5>3
          <6> QED  BY <3>1, <3>2, <5>1, <6>1
        <5> QED  BY <4>1, <4>3, <5>2, <5>3
      <4>4. \A q \in clash' : table'[q] # None /\ Id(q)' \in shared'
        <5>1. \A q \in InHand(Id(p)) : q \in Procs /\ table[q] # None /\ Id(q) = Id(p)
          BY DEF InHand, PreparedInv
        <5>2. \A q \in clash : q \in Procs /\ table[q] # None /\ Id(q) \in shared
          BY DEF HolderInv, FilesInv
        <5> QED  BY <3>1, <3>2, <3>3, <5>1, <5>2
      <4>5. ASSUME NEW q \in Procs, pc'[q] \in {"register", "loaded", "indexing"}, Id(q)' \notin shared'
            PROVE  files'[Id(q)'] = table'[q]
        <5>1. q # p /\ pc[q] \in {"register", "loaded", "indexing"} /\ Id(q) \notin shared
          BY <3>1, <3>2, <4>2, <4>5
        <5>2. q \in Holding
          BY <5>1 DEF Holding
        <5>3. Id(q) # Id(p)
          BY <3>1, <3>2, <4>1, <4>5, <5>2
        <5> QED  BY <3>1, <3>2, <3>4, <5>1, <5>3 DEF HolderInv, FilesInv
      <4> QED  BY <4>3, <4>4, <4>5 DEF HolderInv
    <3>10. SourceInv'
      <4>1. \A q \in Procs : Meta(q)' = Meta(q)
        BY <3>1 DEF Meta
      <4>2. \A d : Settled(d)' => Settled(d) /\ d # Id(p)
        BY <3>1, <3>2, <3>3 DEF Settled
      <4>3. \A d, f : \A q \in Procs : d # Id(p) /\ d \in DOMAIN files /\ Witness(d, f, q) => Witness(d, f, q)'
        BY <3>1, <3>2, <3>4, <4>1 DEF Witness
      <4>4. \A f : Entries(f) => DOMAIN f \subseteq DOMAIN files
        BY DEF IndexInv, Entries
      <4>5. \A f : Entries(f) /\ Sourced(f) => Sourced(f)'
        BY <4>2, <4>3, <4>4 DEF Sourced
      <4>6. Registering' = Registering
        BY <3>1 DEF Registering
      <4>7. \A q \in Registering : Entries(loaded[q])
        BY DEF IndexInv, Registering
      <4> QED  BY <3>1, <4>5, <4>6, <4>7 DEF SourceInv, IndexInv
    <3> QED  BY <3>5, <3>6, <3>7, <3>8, <3>9, <3>10
  <2>4. ASSUME NEW p \in Procs, CloseFile(p) PROVE IngestionInv'
    <3>1. /\ pc[p] = "writing" /\ pc' = [pc EXCEPT ![p] = pc'[p]]
          /\ pc'[p] = IF job[p].register THEN "register" ELSE "done"
          /\ \A q \in Procs \ {p} : pc'[q] = pc[q]
          /\ \/ files' = Put(files, Id(p), table[p])
             \/ p \in clash /\ files' = Put(files, Id(p), Torn)
          /\ UNCHANGED <<job, table, loaded, index, clash, registered, overlap, shared>>
      BY <2>4 DEF CloseFile, Goto, PreparedInv
    <3>2. \A q \in Procs : Id(q)' = Id(q)
      BY <3>1 DEF Id
    <3>3. /\ table[p] # None /\ Id(p) \in Ids /\ table[p] \in Seq(Rows) /\ table[p] # Torn
          /\ Len(Id(p)) # 1 => Extent(table[p]) = ExtentOf(Id(p))
      BY <2>0, <3>1 DEF PreparedInv
    <3>4. /\ DOMAIN files' = DOMAIN files \cup {Id(p)}
          /\ files'[Id(p)] = table[p] \/ (p \in clash /\ files'[Id(p)] = Torn)
          /\ \A d \in DOMAIN files : d # Id(p) => files'[d] = files[d]
      BY <3>1 DEF Put
    <3>5. PreparedInv'
      BY <3>1, <3>2 DEF PreparedInv, Locations
    <3>6. FilesInv'
      <4>1. \A q \in Procs : \A d : d # Id(p) /\ TornBy(q, d) => TornBy(q, d)'
        BY <3>1, <3>2 DEF TornBy
      <4>2. ASSUME NEW d \in DOMAIN files'
            PROVE  \/ files'[d] = Torn /\ \E q \in Procs : TornBy(q, d)'
                   \/ files'[d] \in Seq(Rows) /\ (Len(d) # 1 => Extent(files'[d]) = ExtentOf(d))
        <5>1. CASE d = Id(p)
          <6>1. CASE files'[d] = table[p]
            BY <3>3, <5>1, <6>1
          <6>2. CASE p \in clash /\ files'[d] = Torn
            <7>1. TornBy(p, d)'
              BY <3>1, <3>2, <3>3, <5>1, <6>2 DEF TornBy
            <7> QED  BY <6>2, <7>1
          <6> QED  BY <3>4, <5>1, <6>1, <6>2
        <5>2. CASE d # Id(p)
          BY <3>4, <4>1, <5>2 DEF FilesInv
        <5> QED  BY <5>1, <5>2
      <4> QED  BY <3>1, <3>2, <3>3, <3>4, <4>2 DEF FilesInv
    <3>7. IndexInv'
      BY <3>1, <3>4 DEF IndexInv, Entries
    <3>8. KeptInv'
      BY <3>1 DEF KeptInv, Registering
    <3>9. HolderInv'
      <4>1. Holding' \subseteq Holding /\ \A q \in Holding : q \in Procs
        BY <3>1 DEF Holding
      <4>2. ASSUME NEW q \in Procs, pc'[q] \in {"register", "loaded", "indexing"}, Id(q)' \notin shared'
            PROVE  files'[Id(q)'] = table'[q]
        <5>1. q \in Holding /\ p \in Holding /\ Id(q) \notin shared
          BY <3>1, <3>2, <4>2 DEF Holding
        <5>2. CASE q = p
          BY <3>1, <3>2, <3>4, <5>1, <5>2 DEF HolderInv
        <5>3. CASE q # p
          <6>1. Id(q) # Id(p)
            BY <5>1, <5>3 DEF HolderInv
          <6> QED  BY <3>1, <3>2, <3>4, <4>2, <5>1, <5>3, <6>1 DEF HolderInv, FilesInv
        <5> QED  BY <5>2, <5>3
      <4> QED  BY <3>1, <3>2, <4>1, <4>2 DEF HolderInv, FilesInv
    <3>10. SourceInv'
      <4>1. \A q \in Procs : Meta(q)' = Meta(q)
        BY <3>1 DEF Meta
      <4>2. \A d : Settled(d)' => Settled(d) /\ d # Id(p)
        BY <3>1, <3>2, <3>3 DEF Settled
      <4>3. \A d, f : \A q \in Procs : d # Id(p) /\ d \in DOMAIN files /\ Witness(d, f, q) => Witness(d, f, q)'
        BY <3>1, <3>2, <3>4, <4>1 DEF Witness
      <4>4. \A f : Entries(f) => DOMAIN f \subseteq DOMAIN files
        BY DEF IndexInv, Entries
      <4>5. \A f : Entries(f) /\ Sourced(f) => Sourced(f)'
        BY <4>2, <4>3, <4>4 DEF Sourced
      <4>6. Registering' = Registering
        BY <3>1 DEF Registering
      <4>7. \A q \in Registering : Entries(loaded[q])
        BY DEF IndexInv, Registering
      <4> QED  BY <3>1, <4>5, <4>6, <4>7 DEF SourceInv, IndexInv
    <3> QED  BY <3>5, <3>6, <3>7, <3>8, <3>9, <3>10
  <2>5. ASSUME NEW p \in Procs, ReadIndex(p) PROVE IngestionInv'
    <3>1. /\ pc[p] = "register" /\ pc' = [pc EXCEPT ![p] = "loaded"] /\ pc'[p] = "loaded"
          /\ \A q \in Procs \ {p} : pc'[q] = pc[q] /\ loaded'[q] = loaded[q]
          /\ index # Torn /\ DOMAIN loaded' = Procs
          /\ loaded'[p] = IF index = None THEN <<>> ELSE index
          /\ overlap' = (overlap \/ Registering # {})
          /\ UNCHANGED <<job, table, files, index, clash, registered, shared>>
      BY <2>5 DEF ReadIndex, Goto, PreparedInv
    <3>2. \A q \in Procs : Id(q)' = Id(q)
      BY <3>1 DEF Id
    <3>3. Entries(<<>>)
      BY DEF Entries
    <3>4. PreparedInv'
      BY <3>1, <3>2 DEF PreparedInv, Locations
    <3>5. FilesInv'
      <4>1. \A q \in Procs : \A d : TornBy(q, d) => TornBy(q, d)'
        BY <3>1, <3>2 DEF TornBy
      <4> QED  BY <3>1, <3>2, <4>1 DEF FilesInv
    <3>6. IndexInv'
      <4>1. \A f : Entries(f)' <=> Entries(f)
        BY <3>1 DEF Entries
      <4>2. Entries(loaded'[p])
        BY <3>1, <3>3 DEF IndexInv
      <4> QED  BY <3>1, <4>1, <4>2 DEF IndexInv
    <3>7. KeptInv'
      <4>1. CASE overlap' \/ \E q \in Procs : pc[q] = "crashed_indexing"
        BY <3>1, <4>1 DEF KeptInv
      <4>2. CASE ~overlap' /\ \A q \in Procs : pc[q] # "crashed_indexing"
        <5>1. ~overlap /\ Registering = {}
          BY <3>1, <4>2
        <5>2. registered = IF index = None THEN {} ELSE DOMAIN index
          BY <4>2, <5>1 DEF KeptInv, Registering
        <5>3. Registering' = {p}
          BY <3>1, <5>1 DEF Registering
        <5>4. DOMAIN loaded'[p] = registered'
          BY <3>1, <5>2
        <5>5. \A q \in Procs : pc'[q] # "indexing"
          BY <3>1, <5>1 DEF Registering
        <5> QED  BY <3>1, <5>2, <5>3, <5>4, <5>5 DEF KeptInv
      <4> QED  BY <4>1, <4>2
    <3>8. HolderInv' /\ SourceInv'
      <4>1. /\ HolderInv'
            /\ \A d, f : \A q \in Procs : Witness(d, f, q) => Witness(d, f, q)'
            /\ \A d : Settled(d)' => Settled(d)
        BY <2>1, <3>1
      <4>2. \A f : Sourced(f) => Sourced(f)'
        BY <4>1 DEF Sourced
      <4>3. Sourced(<<>>)
        BY DEF Sourced
      <4>4. Registering' = Registering \cup {p}
        BY <3>1 DEF Registering
      <4> QED  BY <3>1, <4>1, <4>2, <4>3, <4>4 DEF SourceInv
    <3> QED  BY <3>4, <3>5, <3>6, <3>7, <3>8
  <2>6. ASSUME NEW p \in Procs, IndexUnreadable(p) PROVE IngestionInv'
    <3>1. /\ pc[p] = "register" /\ pc' = [pc EXCEPT ![p] = "failed"] /\ pc'[p] = "failed"
          /\ \A q \in Procs \ {p} : pc'[q] = pc[q]
          /\ UNCHANGED <<job, table, loaded, files, index, clash, registered, overlap, shared>>
      BY <2>6 DEF IndexUnreadable, Goto, PreparedInv
    <3>2. \A q \in Procs : Id(q)' = Id(q)
      BY <3>1 DEF Id
    <3>3. PreparedInv'
      BY <3>1, <3>2 DEF PreparedInv, Locations
    <3>4. FilesInv'
      <4>1. \A q \in Procs : \A d : TornBy(q, d) => TornBy(q, d)'
        BY <3>1, <3>2 DEF TornBy
      <4> QED  BY <3>1, <3>2, <4>1 DEF FilesInv
    <3>5. IndexInv'
      BY <3>1 DEF IndexInv, Entries
    <3>6. KeptInv'
      BY <3>1 DEF KeptInv, Registering
    <3>7. HolderInv' /\ SourceInv'
      <4>1. /\ HolderInv'
            /\ \A d, f : \A q \in Procs : Witness(d, f, q) => Witness(d, f, q)'
            /\ \A d : Settled(d)' => Settled(d)
        BY <2>1, <3>1
      <4>2. \A f : Sourced(f) => Sourced(f)'
        BY <4>1 DEF Sourced
      <4>3. Registering' \subseteq Registering
        BY <3>1 DEF Registering
      <4> QED  BY <3>1, <4>1, <4>2, <4>3 DEF SourceInv
    <3> QED  BY <3>3, <3>4, <3>5, <3>6, <3>7
  <2>7. ASSUME NEW p \in Procs, OpenIndex(p) PROVE IngestionInv'
    <3>1. /\ pc[p] = "loaded" /\ pc' = [pc EXCEPT ![p] = "indexing"] /\ pc'[p] = "indexing"
          /\ \A q \in Procs \ {p} : pc'[q] = pc[q]
          /\ index' = Torn
          /\ UNCHANGED <<job, table, loaded, files, clash, registered, overlap, shared>>
      BY <2>7 DEF OpenIndex, Goto, PreparedInv
    <3>2. \A q \in Procs : Id(q)' = Id(q)
      BY <3>1 DEF Id
    <3>3. PreparedInv'
      BY <3>1, <3>2 DEF PreparedInv, Locations
    <3>4. FilesInv'
      <4>1. \A q \in Procs : \A d : TornBy(q, d) => TornBy(q, d)'
        BY <3>1, <3>2 DEF TornBy
      <4> QED  BY <3>1, <3>2, <4>1 DEF FilesInv
    <3>5. IndexInv'
      BY <3>1 DEF IndexInv, Entries
    <3>6. KeptInv'
      BY <3>1 DEF KeptInv, Registering
    <3>7. HolderInv' /\ SourceInv'
      <4>1. /\ HolderInv'
            /\ \A d, f : \A q \in Procs : Witness(d, f, q) => Witness(d, f, q)'
            /\ \A d : Settled(d)' => Settled(d)
        BY <2>1, <3>1
      <4>2. \A f : Sourced(f) => Sourced(f)'
        BY <4>1 DEF Sourced
      <4>3. Registering' \subseteq Registering
        BY <3>1 DEF Registering
      <4> QED  BY <3>1, <4>1, <4>2, <4>3 DEF SourceInv
    <3> QED  BY <3>3, <3>4, <3>5, <3>6, <3>7
  <2>8. ASSUME NEW p \in Procs, WriteIndex(p) PROVE IngestionInv'
    <3>1. /\ pc[p] = "indexing" /\ pc' = [pc EXCEPT ![p] = "done"] /\ pc'[p] = "done"
          /\ \A q \in Procs \ {p} : pc'[q] = pc[q]
          /\ \/ index' = Put(loaded[p], Id(p), Meta(p))
             \/ index # Torn /\ index' = Torn
          /\ registered' = registered \cup {Id(p)}
          /\ UNCHANGED <<job, table, loaded, files, clash, overlap, shared>>
      BY <2>8 DEF WriteIndex, Goto, PreparedInv
    <3>2. \A q \in Procs : Id(q)' = Id(q)
      BY <3>1 DEF Id
    <3>3. /\ Id(p) \in DOMAIN files /\ Id(p) \in Ids
          /\ Len(Id(p)) # 1 => Meta(p).extent = ExtentOf(Id(p))
          /\ Meta(p) \in Metas
      <4>1. /\ Id(p) \in DOMAIN files /\ Id(p) \in Ids /\ table[p] \in Seq(Rows)
            /\ Len(Id(p)) # 1 => Extent(table[p]) = ExtentOf(Id(p))
            /\ job[p] \in Jobs
        BY <3>1 DEF PreparedInv, FilesInv
      <4>2. Extent(table[p]) \in Extents
        BY <4>1, ContentTellsExtent
      <4> QED  BY <4>1, <4>2 DEF Meta, Metas
    <3>4. Entries(loaded[p])
      BY <3>1 DEF IndexInv
    <3> DEFINE entered == Put(loaded[p], Id(p), Meta(p))
    <3>5. /\ entered \in [DOMAIN loaded[p] \cup {Id(p)} -> Metas]
          /\ entered[Id(p)] = Meta(p)
          /\ \A d \in DOMAIN loaded[p] : d # Id(p) => entered[d] = loaded[p][d]
      BY <3>3, <3>4 DEF Put, Entries
    <3> HIDE DEF entered
    <3>6. entered # Torn /\ entered # None
      <4>1. DOMAIN loaded[p] \cup {Id(p)} \in SUBSET Ids
        BY <3>3, <3>4 DEF Entries, IndexInv, FilesInv
      <4> QED  BY <2>0, <3>5, <4>1
    <3>7. index' = entered \/ index' = Torn
      BY <3>1 DEF entered
    <3>8. \A f : Entries(f) => Entries(f)'
      BY <3>1 DEF Entries
    <3>9. ASSUME index' = entered PROVE Entries(index)'
      <4>1. DOMAIN index' = DOMAIN loaded[p] \cup {Id(p)}
        BY <3>5, <3>9
      <4> QED  BY <3>1, <3>3, <3>4, <3>5, <3>9, <4>1 DEF Entries
    <3>10. PreparedInv'
      BY <3>1, <3>2 DEF PreparedInv, Locations
    <3>11. FilesInv'
      <4>1. \A q \in Procs : \A d : TornBy(q, d) => TornBy(q, d)'
        BY <3>1, <3>2 DEF TornBy
      <4> QED  BY <3>1, <3>2, <4>1 DEF FilesInv
    <3>12. IndexInv'
      BY <3>1, <3>3, <3>7, <3>8, <3>9 DEF IndexInv
    <3>13. KeptInv'
      <4>1. CASE overlap \/ \E q \in Procs : pc[q] = "crashed_indexing"
        BY <3>1, <4>1 DEF KeptInv
      <4>2. CASE ~overlap /\ \A q \in Procs : pc[q] # "crashed_indexing"
        <5>1. /\ Registering = {p} /\ index = Torn
              /\ DOMAIN loaded[p] = registered
          BY <3>1, <4>2 DEF KeptInv, Registering
        <5>2. index' = entered /\ DOMAIN index' = registered'
          BY <3>1, <3>5, <5>1 DEF entered
        <5>3. Registering' = {}
          BY <3>1, <5>1 DEF Registering
        <5>4. \A q \in Procs : pc'[q] # "indexing"
          BY <5>3 DEF Registering
        <5> QED  BY <3>6, <5>2, <5>3, <5>4 DEF KeptInv
      <4> QED  BY <4>1, <4>2
    <3>14. HolderInv' /\ SourceInv'
      <4>1. /\ HolderInv'
            /\ \A d, f : \A q \in Procs : Witness(d, f, q) => Witness(d, f, q)'
            /\ \A d : Settled(d)' => Settled(d) \/ d = Id(p)
        BY <2>1, <3>1
      <4>2. ASSUME ~overlap, index' = entered PROVE Sourced(index)'
        <5>1. Sourced(loaded[p]) /\ DOMAIN entered = DOMAIN loaded[p] \cup {Id(p)}
          BY <3>1, <3>5, <4>2 DEF SourceInv, Registering
        <5>2. ASSUME NEW d \in DOMAIN entered, Settled(d)'
              PROVE  \E q \in Procs : Witness(d, entered, q)
          <6>1. CASE d = Id(p)
            <7>1. Id(p) \notin shared
              BY <3>1, <5>2, <6>1 DEF Settled
            <7>2. files[Id(p)] = table[p] /\ table[p] # None
              BY <3>1, <7>1 DEF HolderInv, PreparedInv
            <7> QED  BY <3>5, <6>1, <7>2 DEF Witness
          <6>2. CASE d # Id(p)
            <7>1. PICK q \in Procs : Witness(d, loaded[p], q)
              BY <4>1, <5>1, <5>2, <6>2 DEF Sourced
            <7> QED  BY <3>5, <5>1, <6>2, <7>1 DEF Witness
          <6> QED  BY <6>1, <6>2
        <5>3. \A d \in DOMAIN entered : Settled(d)' => \E q \in Procs : Witness(d, entered, q)
          BY <5>2
        <5>4. \A d \in DOMAIN index' : Settled(d)' => \E q \in Procs : Witness(d, index, q)'
          <6>1. ASSUME NEW d \in DOMAIN index', Settled(d)', NEW q \in Procs, Witness(d, entered, q)
                PROVE  Witness(d, index, q)'
            BY <3>1, <4>2, <6>1 DEF Witness, Id, Meta
          <6> QED  BY <4>2, <5>3, <6>1
        <5> QED  BY <5>4 DEF Sourced
      <4>3. ~overlap => Registering' = {}
        BY <3>1 DEF SourceInv, Registering
      <4>4. ~overlap' /\ index' \notin {None, Torn} => Sourced(index)'
        BY <3>1, <3>7, <4>2
      <4> QED  BY <3>1, <4>1, <4>3, <4>4 DEF SourceInv
    <3> QED  BY <3>10, <3>11, <3>12, <3>13, <3>14
  <2>9. ASSUME NEW p \in Procs, Crash(p) PROVE IngestionInv'
    <3>1. /\ pc[p] \notin {"start", "done", "failed", "crashed", "crashed_indexing"}
          /\ pc' = [pc EXCEPT ![p] = pc'[p]]
          /\ pc'[p] = IF pc[p] = "indexing" THEN "crashed_indexing" ELSE "crashed"
          /\ \A q \in Procs \ {p} : pc'[q] = pc[q]
          /\ UNCHANGED <<job, table, loaded, files, index, clash, registered, overlap, shared>>
      BY <2>9 DEF Crash, PreparedInv
    <3>2. \A q \in Procs : Id(q)' = Id(q)
      BY <3>1 DEF Id
    <3>3. PreparedInv'
      BY <3>1, <3>2 DEF PreparedInv, Locations
    <3>4. FilesInv'
      <4>1. \A q \in Procs : \A d : TornBy(q, d) => TornBy(q, d)'
        BY <3>1, <3>2 DEF TornBy
      <4> QED  BY <3>1, <3>2, <4>1 DEF FilesInv
    <3>5. IndexInv'
      BY <3>1 DEF IndexInv, Entries
    <3>6. KeptInv'
      BY <3>1 DEF KeptInv, Registering
    <3>7. HolderInv' /\ SourceInv'
      <4>1. /\ HolderInv'
            /\ \A d, f : \A q \in Procs : Witness(d, f, q) => Witness(d, f, q)'
            /\ \A d : Settled(d)' => Settled(d)
        BY <2>1, <3>1
      <4>2. \A f : Sourced(f) => Sourced(f)'
        BY <4>1 DEF Sourced
      <4>3. Registering' \subseteq Registering
        BY <3>1 DEF Registering
      <4> QED  BY <3>1, <4>1, <4>2, <4>3 DEF SourceInv
    <3> QED  BY <3>3, <3>4, <3>5, <3>6, <3>7
  <2>10. CASE UNCHANGED vars
    <3>1. \A q \in Procs : Id(q)' = Id(q)
      BY <2>10 DEF vars, Id
    <3>2. PreparedInv'
      BY <2>10, <3>1 DEF vars, PreparedInv
    <3>3. FilesInv'
      BY <2>10, <3>1 DEF vars, FilesInv, TornBy
    <3>4. IndexInv' /\ KeptInv'
      BY <2>10 DEF vars, IndexInv, Entries, KeptInv, Registering
    <3>5. HolderInv'
      BY <2>10, <3>1 DEF vars, HolderInv, Holding, FilesInv
    <3>6. SourceInv'
      <4>1. \A d, f : \A q \in Procs : Witness(d, f, q) => Witness(d, f, q)'
        BY <2>10, <3>1 DEF vars, Witness, Meta
      <4>2. \A d : Settled(d)' => Settled(d)
        BY <2>10, <3>1 DEF vars, Settled
      <4>3. \A f : Sourced(f) => Sourced(f)'
        BY <4>1, <4>2 DEF Sourced
      <4> QED  BY <2>10, <4>3 DEF vars, SourceInv, Registering
    <3> QED  BY <3>2, <3>3, <3>4, <3>5, <3>6
  <2> QED  BY <2>2, <2>3, <2>4, <2>5, <2>6, <2>7, <2>8, <2>9, <2>10 DEF Next
<1> QED  BY <1>1, <1>2, <1>3, <1>4, <1>5, <1>6, <1>7, PTL DEF Spec
================================================================================
