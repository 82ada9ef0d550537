------------------------------- MODULE Ingestion -------------------------------
(***************************************************************************)
(* scripts/ingest_ticks.py and scripts/generate_sample_data.py: processes  *)
(* that turn market data into Arrow files of the data directory, and the   *)
(* index of the datasets there.                                            *)
(*                                                                         *)
(* A row is its time and the rest, "data".  Time stamps are integers of    *)
(* int64, whose range is -Width .. Width - 1; Second, Threshold and Sample *)
(* are 10^9, 10^12 and 10 in the code.  Files and index are written in     *)
(* place: opening one for writing empties it, and until it is closed it    *)
(* cannot be read.  Processes take turns between any two of these steps.   *)
(***************************************************************************)
EXTENDS Integers, Sequences, SequencesExt, FiniteSets

CONSTANTS Procs,       \* processes, each of which ingests or generates once
          Jobs,        \* what they may be started for
          Samples,     \* what generate_sample_data may be asked for
          Width, Second, Threshold, Sample,
          Shown,       \* rows at each end that the content hash sees
          None,        \* no value
          Torn,        \* the content of a file that cannot be read
          MaxCrashes   \* bound: processes that die

(* path: where the source is, name: its last part.  unit: nanoseconds per  *)
(* unit of its time stamps.  id: the name given with --dataset-id, or None.*)
(* data tells the rows of a source apart.                                  *)
Rows    == [time: Int, data: Nat]
Kinds   == {"timestamp", "string", "integer"}

ASSUME IngestionAssumption ==
    /\ \A j \in Jobs : /\ j.source.kind \in Kinds /\ j.source.unit \in Nat
                       /\ j.source.rows \in Seq(Rows)
                       /\ \A i, k \in DOMAIN j.source.rows :
                              j.source.rows[i].data = j.source.rows[k].data => i = k
                       /\ j.register \in BOOLEAN
    /\ \A s \in Samples : s.ticks \in Nat /\ s.output # None
    /\ {Width, Second, Threshold, Sample, Shown} \subseteq Nat \ {0}
    /\ MaxCrashes \in Nat

VARIABLES pc, job,
          table,      \* the rows each process has prepared
          loaded,     \* the index each process has read
          files,      \* the Arrow files, by dataset id
          index,      \* index.json, or None
          clash,      \* processes that had a file open that another opened
          registered, \* history: the ids entered in the index
          overlap,    \* history: whether two processes registered at a time
          shared      \* history: ids that two processes had in hand at a time

vars == <<pc, job, table, loaded, files, index, clash, registered, overlap, shared>>

Init ==
    /\ pc = [p \in Procs |-> "start"]
    /\ job = [p \in Procs |-> None]
    /\ table = [p \in Procs |-> None]
    /\ loaded = [p \in Procs |-> None]
    /\ files = <<>>
    /\ index = None
    /\ clash = {}
    /\ registered = {}
    /\ overlap = FALSE
    /\ shared = {}
-----------------------------------------------------------------------------
(* COLUMN_ALIASES                                                          *)
Aliases ==
    [timestamp |-> "timestamp_ns", ts |-> "timestamp_ns", time |-> "timestamp_ns",
     datetime |-> "timestamp_ns", date |-> "timestamp_ns",
     bid_price |-> "bid", ask_price |-> "ask",
     price |-> "last", close |-> "last", last_price |-> "last",
     size |-> "volume", qty |-> "volume", quantity |-> "volume"]

CanonicalColumns == {"timestamp_ns", "bid", "ask", "last", "volume"}

Canonical(c) == IF c \in DOMAIN Aliases THEN Aliases[c] ELSE c

(* _normalize_columns accepts a table: it raises when a column is missing, *)
(* and also when two columns have the same canonical name.                 *)
Normalizable(s) ==
    \A c \in CanonicalColumns :
        Cardinality({i \in DOMAIN s.columns : Canonical(s.columns[i]) = c}) = 1

(* Products of int64 wrap around.                                          *)
Wrap(x) == ((x + Width) % (2 * Width)) - Width

Magnitude(x) == IF x < 0 THEN -x ELSE x

(* Whether integers are taken for seconds                                  *)
InSeconds(s) ==
    s.rows # <<>> /\ \A i \in DOMAIN s.rows : i <= Sample => Magnitude(s.rows[i].time) < Threshold

ScalesOneByOne(s, t) == s.kind # "timestamp" /\ Magnitude(t) < Threshold

(* Whether _normalize_columns multiplies a time stamp: strings are parsed  *)
(* to seconds, columns of a time stamp type are taken as they are.         *)
Scales(s, t) == s.kind = "string" \/ (s.kind = "integer" /\ InSeconds(s))

Coerced(s) ==
    [i \in DOMAIN s.rows |->
        [s.rows[i] EXCEPT !.time = IF Scales(s, @) THEN Wrap(@ * Second) ELSE @]]

(* sort_by timestamp_ns: row k is the one that k - 1 others come before    *)
Ordered(rows) ==
    LET before(i, j) == \/ rows[i].time < rows[j].time
                        \/ rows[i].time = rows[j].time /\ i < j
        place(i) == Cardinality({j \in DOMAIN rows : before(j, i)}) + 1
    IN  [k \in DOMAIN rows |-> rows[CHOOSE i \in DOMAIN rows : place(i) = k]]

ContentIdOfName(name, rows) == <<name, Len(rows), <<>>>>

(* content_id: a digest of the name, the length, and the columns as text,  *)
(* of which a long column shows both ends only                             *)
ContentId(name, rows) ==
    <<name, Len(rows), [i \in {k \in DOMAIN rows : k <= Shown \/ k > Len(rows) - Shown}
                            |-> rows[i]]>>

Id(p) == IF job[p].id # None THEN <<job[p].id>>
                             ELSE ContentId(job[p].source.name, table[p])

(* What a table tells of itself                                            *)
Extent(rows) ==
    [rows |-> Len(rows), start |-> IF rows = <<>> THEN 0 ELSE Head(rows).time,
                         end   |-> IF rows = <<>> THEN 0 ELSE Last(rows).time]

(* What ingest writes of it; dataset_id and arrow_path are the key again   *)
Meta(p) == [source |-> job[p].source.path, extent |-> Extent(table[p])]

(* Names of datasets, and what the index says of one.  None and Torn are   *)
(* neither tables nor indexes.                                             *)
Ids     == {ContentId(j.source.name, Ordered(Coerced(j.source))) : j \in Jobs} \cup
           {<<j.id>> : j \in Jobs} \cup {<<s.output>> : s \in Samples}
Extents == [rows: Nat, start: Int, end: Int]
Metas   == [source: {j.source.path : j \in Jobs}, extent: Extents]

ASSUME MarksAssumption ==
    /\ None # Torn
    /\ \A m \in {None, Torn} : /\ m \notin Seq(Rows)
                              /\ \A E \in SUBSET Ids : m \notin [E -> Metas]

PutAlone(f, key, value) == [k \in {key} |-> value]

Put(f, key, value) == [k \in DOMAIN f \cup {key} |-> IF k = key THEN value ELSE f[k]]
-----------------------------------------------------------------------------
Goto(p, from, to) == pc[p] = from /\ pc' = [pc EXCEPT ![p] = to]

(* load_source, _normalize_columns, sort_by                                *)
Load(p) ==
    /\ \E j \in Jobs :
           /\ job' = [job EXCEPT ![p] = j]
           /\ IF Normalizable(j.source)
                THEN /\ Goto(p, "start", "write")
                     /\ table' = [table EXCEPT ![p] = Ordered(Coerced(j.source))]
                ELSE Goto(p, "start", "failed") /\ UNCHANGED table
    /\ UNCHANGED <<loaded, files, index, clash, registered, overlap, shared>>

(* generate: ticks one second apart, from 0                                *)
Generate(p) ==
    /\ Goto(p, "start", "write")
    /\ \E s \in Samples :
           /\ job' = [job EXCEPT ![p] = [source |-> None, id |-> s.output, register |-> FALSE]]
           /\ table' = [table EXCEPT ![p] =
                  [i \in 1 .. s.ticks |-> [time |-> (i - 1) * Second, data |-> i]]]
    /\ UNCHANGED <<loaded, files, index, clash, registered, overlap, shared>>

(* Those that have opened the file of a dataset and not yet entered it     *)
InHand(d) == {p \in Procs : /\ pc[p] \in {"writing", "register", "loaded", "indexing"}
                            /\ Id(p) = d}

(* write_arrow: new_file ...                                               *)
OpenFile(p) ==
    LET others == {q \in InHand(Id(p)) : pc[q] = "writing"}
    IN  /\ Goto(p, "write", "writing")
        /\ files' = Put(files, Id(p), Torn)
        /\ clash' = IF others = {} THEN clash ELSE clash \cup others \cup {p}
        /\ shared' = IF InHand(Id(p)) = {} THEN shared ELSE shared \cup {Id(p)}
        /\ UNCHANGED <<job, table, loaded, index, registered, overlap>>

(* ... and the table, with the footer at the end.  Two that write one file *)
(* at a time may leave a mixture.                                          *)
CloseFile(p) ==
    /\ Goto(p, "writing", IF job[p].register THEN "register" ELSE "done")
    /\ \/ files' = Put(files, Id(p), table[p])
       \/ p \in clash /\ files' = Put(files, Id(p), Torn)
    /\ UNCHANGED <<job, table, loaded, index, clash, registered, overlap, shared>>

(* Those that have read the index and not yet written it                   *)
Registering == {p \in Procs : pc[p] \in {"loaded", "indexing"}}

ReadIndexAnew(p) ==
    /\ Goto(p, "register", "loaded")
    /\ loaded' = [loaded EXCEPT ![p] = <<>>]
    /\ overlap' = (overlap \/ Registering # {})
    /\ UNCHANGED <<job, table, files, index, clash, registered, shared>>

(* register_index: the index as it is ...                                  *)
ReadIndex(p) ==
    /\ Goto(p, "register", "loaded")
    /\ index # Torn
    /\ loaded' = [loaded EXCEPT ![p] = IF index = None THEN <<>> ELSE index]
    /\ overlap' = (overlap \/ Registering # {})
    /\ UNCHANGED <<job, table, files, index, clash, registered, shared>>

(* ... which raises when it is no JSON ...                                 *)
IndexUnreadable(p) ==
    /\ Goto(p, "register", "failed")
    /\ index = Torn
    /\ UNCHANGED <<job, table, loaded, files, index, clash, registered, overlap, shared>>

(* ... is emptied by write_text ...                                        *)
OpenIndex(p) ==
    /\ Goto(p, "loaded", "indexing")
    /\ index' = Torn
    /\ UNCHANGED <<job, table, loaded, files, clash, registered, overlap, shared>>

WriteIndexOnce(p) ==
    /\ Goto(p, "indexing", "done")
    /\ \/ index' = IF Id(p) \in DOMAIN loaded[p] THEN loaded[p]
                   ELSE Put(loaded[p], Id(p), Meta(p))
       \/ index # Torn /\ index' = Torn
    /\ registered' = registered \cup {Id(p)}
    /\ UNCHANGED <<job, table, loaded, files, clash, overlap, shared>>

(* ... and written with the new entry.  Over what another process wrote in *)
(* between, that may be a mixture.                                         *)
WriteIndex(p) ==
    /\ Goto(p, "indexing", "done")
    /\ \/ index' = Put(loaded[p], Id(p), Meta(p))
       \/ index # Torn /\ index' = Torn
    /\ registered' = registered \cup {Id(p)}
    /\ UNCHANGED <<job, table, loaded, files, clash, overlap, shared>>

Crashes == Cardinality({p \in Procs : pc[p] \in {"crashed", "crashed_indexing"}})

(* The process is killed.                                                  *)
Crash(p) ==
    /\ pc[p] \notin {"start", "done", "failed", "crashed", "crashed_indexing"}
    /\ Crashes < MaxCrashes
    /\ pc' = [pc EXCEPT ![p] = IF pc[p] = "indexing" THEN "crashed_indexing" ELSE "crashed"]
    /\ UNCHANGED <<job, table, loaded, files, index, clash, registered, overlap, shared>>

Next == \E p \in Procs : \/ Load(p) \/ Generate(p) \/ OpenFile(p) \/ CloseFile(p)
                         \/ ReadIndex(p) \/ IndexUnreadable(p) \/ OpenIndex(p)
                         \/ WriteIndex(p) \/ Crash(p)

Spec == Init /\ [][Next]_vars
-----------------------------------------------------------------------------
Locations == {"start", "write", "writing", "register", "loaded", "indexing",
              "done", "failed", "crashed", "crashed_indexing"}

(* Files hold rows, the index describes what has been written at least in  *)
(* part, and a process has read an index only in order to write it.        *)
TypeOK ==
    /\ pc \in [Procs -> Locations]
    /\ \A d \in DOMAIN files : files[d] = Torn \/ files[d] \in Seq(Rows)
    /\ index \notin {None, Torn} => DOMAIN index \subseteq registered
    /\ registered \subseteq DOMAIN files
    /\ \A p \in Procs : loaded[p] # None => pc[p] \notin {"start", "write", "writing", "register"}
    /\ clash \subseteq Procs

(* The number of rows and the times that the index gives for a dataset     *)
(* named by its content are those of its file, whoever wrote the one and   *)
(* the other, in whatever order; the file can be read unless somebody is   *)
(* writing it, died while writing it, or wrote it together with another.   *)
IndexDescribesFiles ==
    index \notin {None, Torn} =>
        \A d \in DOMAIN index :
            \/ Len(d) = 1
            \/ files[d] # Torn /\ index[d].extent = Extent(files[d])
            \/ files[d] = Torn /\ \E p \in Procs :
                   /\ table[p] # None /\ Id(p) = d
                   /\ pc[p] \in {"writing", "crashed"} \/ p \in clash

(* All that wrote the file of a dataset have entered it in the index, and  *)
(* no two of them had it in hand at a time.                                *)
Settled(d) ==
    /\ d \notin shared
    /\ \A p \in Procs : table[p] # None /\ Id(p) = d =>
           pc[p] = "write" \/ (pc[p] = "done" /\ job[p].register)

(* Ids do not tell sources apart: the digest shows the ends of a table, and*)
(* a name may be given twice.  Entry and file are nevertheless of the same *)
(* source, the one ingested last, when those with the id ingested and      *)
(* registered one after the other and no registrations overlapped.         *)
IndexNamesSource ==
    index \notin {None, Torn} /\ ~overlap =>
        \A d \in DOMAIN index : Settled(d) =>
            \E p \in Procs : /\ table[p] # None /\ Id(p) = d
                             /\ files[d] = table[p] /\ index[d] = Meta(p)

(* No entry of the index is lost, and the index stays readable, unless two *)
(* registrations overlap or a process dies while it writes the index.      *)
IndexKeepsEntries ==
    \/ overlap
    \/ \E p \in Procs : pc[p] \in {"indexing", "crashed_indexing"}
    \/ index # Torn /\ registered = IF index = None THEN {} ELSE DOMAIN index

Wraps(s) == \E i \in DOMAIN s.rows :
                Scales(s, s.rows[i].time) /\ Wrap(s.rows[i].time * Second) # s.rows[i].time * Second

(* The engine replays ticks in file order: it is the order in time of the  *)
(* source, whatever the unit its time stamps were taken for, as long as no *)
(* time stamp overflows.                                                   *)
TimeOrderKept ==
    \A p \in Procs : table[p] # None /\ job[p].source # None =>
        LET s == job[p].source
            at(d) == CHOOSE i \in DOMAIN s.rows : s.rows[i].data = d
        IN  /\ Len(table[p]) = Len(s.rows)
            /\ \A i, j \in DOMAIN table[p] : i < j /\ ~Wraps(s) =>
                   s.rows[at(table[p][i].data)].time <= s.rows[at(table[p][j].data)].time

(* "Coerce timestamp to nanoseconds int64" (scripts/ingest_ticks.py:52)    *)
TimestampsAreNanoseconds ==
    \A p \in Procs : table[p] # None /\ job[p].source # None =>
        \A i \in DOMAIN table[p] : \E r \in ToSet(job[p].source.rows) :
            /\ r.data = table[p][i].data
            /\ table[p][i].time = r.time * job[p].source.unit
================================================================================
