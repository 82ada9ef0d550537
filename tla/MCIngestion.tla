------------------------------ MODULE MCIngestion ------------------------------
(***************************************************************************)
(* A second is 8 ns, and integers of the first 2 rows below 10 are taken   *)
(* for seconds.  Time stamps are -64 .. 63.                                *)
(***************************************************************************)
EXTENDS Ingestion, TLC

Symmetry == Permutations(Procs)

Header == <<"ts", "bid_price", "ask", "price", "qty">>

Series(times) == [i \in DOMAIN times |-> [time |-> times[i], data |-> i]]

Source(name, kind, unit, times) ==
    [path |-> <<name>>, name |-> name, columns |-> Header, kind |-> kind, unit |-> unit, rows |-> Series(times)]

InOrder  == Source("a", "integer", 8, <<1, 2, 3>>)
Shuffled == Source("a", "integer", 8, <<7, 2, 4>>)
Nanos    == Source("a", "integer", 1, <<30, 12, 7>>)
(* The sample of generate_sample_data, as a source                         *)
Sampled  == Source("s", "integer", 1, <<0, 8, 16, 24>>)
Typed    == Source("b", "timestamp", 8, <<3, 1>>)
Texts    == Source("b", "string", 8, <<3, 1>>)
Empty    == Source("b", "integer", 1, <<>>)

(* A file of the same name elsewhere, the same but for a row that the      *)
(* digest does not see                                                     *)
Corrected == [InOrder EXCEPT !.path = <<"new", "a">>, !.rows[2].data = 9]

Twice   == [InOrder EXCEPT !.columns = Append(@, "close")]
Without == [InOrder EXCEPT !.columns = Tail(@)]

Job(s, id, register) == [source |-> s, id |-> id, register |-> register]

MCJobs ==
    {Job(s, None, TRUE) : s \in {InOrder, Corrected, Shuffled, Typed, Without}} \cup
    {Job(s, None, FALSE) : s \in {Sampled, Texts}} \cup
    {Job(Nanos, "spy", r) : r \in BOOLEAN}

MCSamples == {[output |-> "spy", ticks |-> 2]}

(* For the time stamps alone                                               *)
EverySource == {Job(s, None, FALSE) : s \in {InOrder, Shuffled, Nanos, Sampled, Typed,
                                             Texts, Empty, Twice}}
================================================================================
