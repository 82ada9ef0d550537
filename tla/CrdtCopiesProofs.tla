--------------------------- MODULE CrdtCopiesProofs ---------------------------
(***************************************************************************)
(* What the copies of CrdtCopies hold, for any nodes, fields and payloads, *)
(* and any number of writes and published states.                          *)
(***************************************************************************)
EXTENDS CrdtCopies, FiniteSetTheorems, TLAPS

(* The inductive invariant says of every state, be it a copy or published, *)
(* that it is a function of the updates it contains; a copy and what it    *)
(* has seen then follow each other through every merge.                    *)

Writes == [field: Fields,
           register: {r \in Register : r.timestamp > 0 /\ r.node \in Holders}]

(* What a state that contains the writes W and the entries E looks like    *)
RegistersAre(registers, W) ==
    /\ registers \in [Fields -> Register]
    /\ \A f \in Fields : \/ registers[f] = Unset
                         \/ [field |-> f, register |-> registers[f]] \in W
    /\ \A w \in W : ~Precedes(registers[w.field], w.register)

LogIs(log, E, content) ==
    log = [elements |-> [u \in E |-> content[u]], tombstones |-> {}]

CounterIs(counter, E) ==
    /\ DOMAIN counter \subseteq Holders
    /\ counter \in [DOMAIN counter -> Nat \ {0}]
    /\ \A g \in Holders, k \in Nat : <<g, k>> \in E <=> k \in 1..Count(counter, g)

Holds(state, known, content) ==
    /\ state = [registers |-> state.registers, log |-> state.log,
                counter |-> state.counter]
    /\ known = [writes |-> known.writes, entries |-> known.entries]
    /\ Skewed \/ RegistersAre(state.registers, known.writes)
    /\ LogIs(state.log, known.entries, content)
    /\ CounterIs(state.counter, known.entries)

(* Stamps are unique; an entry is of its node's next number, which the     *)
(* node's own copy knows best.                                             *)
CopiesInv ==
    /\ DOMAIN copy = Holders /\ DOMAIN seen = Holders
    /\ copy = [h \in Holders |-> copy[h]] /\ seen = [h \in Holders |-> seen[h]]
    /\ writes \subseteq Writes
    /\ \A w, x \in writes :
           w.register.timestamp = x.register.timestamp /\ w.register.node = x.register.node
               => w = x
    /\ entries \subseteq Holders \X Nat
    /\ \A h \in Holders : seen[h].writes \subseteq writes /\ seen[h].entries \subseteq entries
    /\ \A m \in sent : m.known.writes \subseteq writes /\ m.known.entries \subseteq entries
    /\ \A h \in Holders, k \in Nat : <<h, k>> \in entries => <<h, k>> \in seen[h].entries
    /\ \E content \in [entries -> Payloads] :
           /\ \A h \in Holders : Holds(copy[h], seen[h], content)
           /\ \A m \in sent : Holds(m.state, m.known, content)

USE DEF vars

(* Writing, publishing and merging keep every state a function of what it  *)
(* contains.                                                               *)
LEMMA CopiesInvariance == Spec => []CopiesInv
<1>1. Init => CopiesInv
  <2> SUFFICES ASSUME Init PROVE CopiesInv
    OBVIOUS
  <2> USE DEF Init
  <2> DEFINE content == [u \in {} |-> {}]
  <2>1. content \in [entries -> Payloads]
    OBVIOUS
  <2>2. RegistersAre(EmptyState.registers, {})
    BY MergeAssumption DEF RegistersAre, EmptyState, Unset, Register
  <2>3. LogIs(EmptyState.log, {}, content)
    BY DEF LogIs, EmptyState, EmptySet
  <2>4. CounterIs(EmptyState.counter, {})
    BY DEF CounterIs, EmptyState, EmptyCounter, Count
  <2>5. \A h \in Holders : Holds(copy[h], seen[h], content)
    BY <2>2, <2>3, <2>4 DEF Holds, EmptyState
  <2> QED  BY <2>1, <2>5 DEF CopiesInv
<1>2. CopiesInv /\ [Next]_vars => CopiesInv'
  <2> SUFFICES ASSUME CopiesInv, [Next]_vars PROVE CopiesInv'
    OBVIOUS
  <2>1. PICK content \in [entries -> Payloads] :
            /\ \A h \in Holders : Holds(copy[h], seen[h], content)
            /\ \A m \in sent : Holds(m.state, m.known, content)
    BY DEF CopiesInv
  <2>2. /\ copy = [h \in Holders |-> copy[h]] /\ seen = [h \in Holders |-> seen[h]]
        /\ writes \subseteq Writes /\ entries \subseteq Holders \X Nat
        /\ \A h \in Holders : seen[h].writes \subseteq writes /\ seen[h].entries \subseteq entries
        /\ \A m \in sent : m.known.writes \subseteq writes /\ m.known.entries \subseteq entries
    BY DEF CopiesInv
  <2>3. CASE UNCHANGED vars
    BY <2>3 DEF CopiesInv
  <2>4. ASSUME NEW h \in Holders, NEW f \in Fields, UpdateRegister(h, f) PROVE CopiesInv'
    <3>1. PICK v \in Values, t \in 1..MaxTime :
              LET w == [field |-> f, register |-> LWWSet(v, t, h)]
              IN  /\ \A x \in writes : x.register.node = h => x.register.timestamp < t
                  /\ Skewed \/ t > copy[h].registers[f].timestamp
                  /\ copy' = [copy EXCEPT ![h].registers[f] = w.register]
                  /\ writes' = writes \cup {w}
                  /\ seen' = [seen EXCEPT ![h].writes = @ \cup {w}]
      BY <2>4 DEF UpdateRegister
    <3> DEFINE r == LWWSet(v, t, h)
               w == [field |-> f, register |-> r]
    <3>2. /\ r \in Register /\ r.timestamp = t /\ r.node = h /\ t \in Nat \ {0}
          /\ w \in Writes /\ w.field = f /\ w.register = r
      BY CopiesAssumption, MergeAssumption DEF LWWSet, Register, Writes, Holders
    <3>3. UNCHANGED <<sent, entries>>
      BY <2>4 DEF UpdateRegister
    <3>4. \A x, y \in writes' :
              x.register.timestamp = y.register.timestamp /\ x.register.node = y.register.node
                  => x = y
      <4>1. \A x \in writes : x.register.node = h => x.register.timestamp # t
        BY <2>2, <3>1, <3>2 DEF Writes, Register
      <4> QED  BY <3>1, <3>2, <4>1 DEF CopiesInv
    <3>5. Holds(copy'[h], seen'[h], content)
      <4>1. /\ copy'[h] = [registers |-> [copy[h].registers EXCEPT ![f] = r],
                           log |-> copy[h].log, counter |-> copy[h].counter]
            /\ seen'[h] = [writes |-> seen[h].writes \cup {w}, entries |-> seen[h].entries]
        <5>1. /\ copy[h] = [registers |-> copy[h].registers, log |-> copy[h].log,
                            counter |-> copy[h].counter]
              /\ seen[h] = [writes |-> seen[h].writes, entries |-> seen[h].entries]
          BY <2>1 DEF Holds
        <5>2. /\ copy'[h] = [copy[h] EXCEPT !.registers[f] = r]
              /\ seen'[h] = [seen[h] EXCEPT !.writes = @ \cup {w}]
          BY <2>2, <3>1
        <5> QED  BY <5>1, <5>2
      <4>2. ASSUME ~Skewed
            PROVE  RegistersAre([copy[h].registers EXCEPT ![f] = r], seen[h].writes \cup {w})
        <5>1. /\ RegistersAre(copy[h].registers, seen[h].writes)
              /\ seen[h].writes \subseteq Writes
          BY <2>1, <2>2, <4>2 DEF Holds
        <5>2. \A x \in seen[h].writes : x.field = f => ~Precedes(r, x.register)
          <6> SUFFICES ASSUME NEW x \in seen[h].writes, x.field = f
                       PROVE  ~Precedes(r, x.register)
            OBVIOUS
          <6>1. ~Precedes(copy[h].registers[f], x.register) /\ x.register \in Register
            BY <5>1 DEF RegistersAre, Writes
          <6>2. t > copy[h].registers[f].timestamp /\ copy[h].registers[f] \in Register
            BY <3>1, <4>2, <5>1 DEF RegistersAre
          <6> QED  BY <3>2, <6>1, <6>2 DEF Precedes, Register
        <5>3. ~Precedes(r, r)
          BY <3>2, MergeAssumption DEF Precedes, Holders
        <5> QED  BY <3>2, <5>1, <5>2, <5>3 DEF RegistersAre, Writes
      <4>3. /\ copy'[h].registers = [copy[h].registers EXCEPT ![f] = r]
            /\ copy'[h].log = copy[h].log /\ copy'[h].counter = copy[h].counter
            /\ seen'[h].writes = seen[h].writes \cup {w} /\ seen'[h].entries = seen[h].entries
            /\ copy'[h] = [registers |-> copy'[h].registers, log |-> copy'[h].log,
                           counter |-> copy'[h].counter]
            /\ seen'[h] = [writes |-> seen'[h].writes, entries |-> seen'[h].entries]
        BY <4>1
      <4> HIDE DEF w, r
      <4> QED  BY <2>1, <4>2, <4>3 DEF Holds
    <3>6. \A g \in Holders : Holds(copy'[g], seen'[g], content)
      BY <2>1, <2>2, <3>1, <3>5
    <3>7. \A m \in sent' : Holds(m.state, m.known, content)
      BY <2>1, <3>3
    <3>8. /\ DOMAIN copy' = Holders /\ DOMAIN seen' = Holders
          /\ copy' = [g \in Holders |-> copy'[g]] /\ seen' = [g \in Holders |-> seen'[g]]
          /\ writes' \subseteq Writes
          /\ \A g \in Holders : /\ seen'[g].writes \subseteq writes'
                                /\ seen'[g].entries \subseteq entries'
          /\ \A m \in sent' : m.known.writes \subseteq writes' /\ m.known.entries \subseteq entries'
      <4>1. /\ writes' = writes \cup {w} /\ seen' = [seen EXCEPT ![h].writes = @ \cup {w}]
            /\ copy' = [copy EXCEPT ![h].registers[f] = r]
        BY <3>1
      <4>2. seen'[h].writes = seen[h].writes \cup {w} /\ seen'[h].entries = seen[h].entries
        BY <2>1, <2>2, <4>1 DEF Holds
      <4> HIDE DEF w, r
      <4>3. \A g \in Holders : g # h => seen'[g] = seen[g]
        BY <2>2, <4>1
      <4>4. \A g \in Holders : /\ seen'[g].writes \subseteq writes'
                               /\ seen'[g].entries \subseteq entries'
        BY <2>2, <3>3, <4>1, <4>2, <4>3
      <4> QED  BY <2>2, <3>2, <3>3, <4>1, <4>4
    <3>9. \A g \in Holders, k \in Nat : <<g, k>> \in entries' => <<g, k>> \in seen'[g].entries
      BY <2>2, <3>1, <3>3 DEF CopiesInv
    <3> QED  BY <2>1, <2>2, <3>3, <3>4, <3>6, <3>7, <3>8, <3>9 DEF CopiesInv
  <2>5. ASSUME NEW h \in Holders, AppendIteration(h) PROVE CopiesInv'
    <3> DEFINE n   == Count(copy[h].counter, h)
               uid == <<h, n + 1>>
    <3>1. PICK p \in Payloads :
              /\ copy' = [copy EXCEPT ![h].log = ORSetAdd(@, uid, p),
                                      ![h].counter = GCounterIncrement(@, h)]
              /\ entries' = entries \cup {uid}
              /\ seen' = [seen EXCEPT ![h].entries = @ \cup {uid}]
              /\ UNCHANGED <<sent, writes>>
      BY <2>5 DEF AppendIteration
    <3>2. n \in Nat /\ uid \notin entries
      <4>1. CounterIs(copy[h].counter, seen[h].entries)
        BY <2>1 DEF Holds
      <4>2. n \in Nat
        BY <4>1 DEF CounterIs, Count
      <4>3. uid \notin seen[h].entries
        BY <4>1, <4>2 DEF CounterIs
      <4> QED  BY <4>2, <4>3 DEF CopiesInv
    <3> DEFINE new == [u \in entries' |-> IF u = uid THEN p ELSE content[u]]
    <3>3. new \in [entries' -> Payloads]
      BY <2>1, <3>1
    <3>4. ASSUME NEW state, NEW known, known.entries \subseteq entries,
                 Holds(state, known, content)
          PROVE  Holds(state, known, new)
      <4>1. LogIs(state.log, known.entries, new)
        BY <3>1, <3>2, <3>4 DEF Holds, LogIs
      <4> QED  BY <3>4, <4>1 DEF Holds
    <3>5. Holds(copy'[h], seen'[h], new)
      <4>1. /\ copy'[h] = [registers |-> copy[h].registers,
                           log |-> ORSetAdd(copy[h].log, uid, p),
                           counter |-> GCounterIncrement(copy[h].counter, h)]
            /\ seen'[h] = [writes |-> seen[h].writes, entries |-> seen[h].entries \cup {uid}]
        <5>1. /\ copy[h] = [registers |-> copy[h].registers, log |-> copy[h].log,
                            counter |-> copy[h].counter]
              /\ seen[h] = [writes |-> seen[h].writes, entries |-> seen[h].entries]
          BY <2>1 DEF Holds
        <5>2. /\ copy'[h] = [copy[h] EXCEPT !.log = ORSetAdd(copy[h].log, uid, p),
                                           !.counter = GCounterIncrement(copy[h].counter, h)]
              /\ seen'[h] = [seen[h] EXCEPT !.entries = @ \cup {uid}]
          BY <2>2, <3>1
        <5> QED  BY <5>1, <5>2
      <4>2. LogIs(ORSetAdd(copy[h].log, uid, p), seen[h].entries \cup {uid}, new)
        <5>1. copy[h].log = [elements |-> [u \in seen[h].entries |-> content[u]],
                             tombstones |-> {}]
          BY <2>1 DEF Holds, LogIs
        <5>2. \A u \in seen[h].entries : u # uid /\ u \in entries'
          BY <2>2, <3>1, <3>2
        <5>3. new[uid] = p /\ \A u \in seen[h].entries : new[u] = content[u]
          BY <3>1, <5>2
        <5> HIDE DEF uid, new
        <5>4. ORSetAdd(copy[h].log, uid, p).elements =
                  [u \in seen[h].entries \cup {uid} |-> new[u]]
          BY <5>1, <5>2, <5>3 DEF ORSetAdd
        <5>5. ORSetAdd(copy[h].log, uid, p) =
                  [elements |-> ORSetAdd(copy[h].log, uid, p).elements, tombstones |-> {}]
          <6>1. \A d, e : [[elements |-> d, tombstones |-> {}] EXCEPT !.elements = e] =
                          [elements |-> e, tombstones |-> {}]
            OBVIOUS
          <6>2. PICK e : ORSetAdd(copy[h].log, uid, p) = [copy[h].log EXCEPT !.elements = e]
            BY DEF ORSetAdd
          <6>3. ORSetAdd(copy[h].log, uid, p) = [elements |-> e, tombstones |-> {}]
            BY <5>1, <6>1, <6>2
          <6> QED  BY <6>3
        <5> QED  BY <5>4, <5>5 DEF LogIs
      <4>3. CounterIs(GCounterIncrement(copy[h].counter, h), seen[h].entries \cup {uid})
        <5> DEFINE c == copy[h].counter
                   d == GCounterIncrement(c, h)
        <5>1. CounterIs(c, seen[h].entries)
          BY <2>1 DEF Holds
        <5>2. /\ DOMAIN d \subseteq Holders /\ d \in [DOMAIN d -> Nat \ {0}]
              /\ Count(d, h) = n + 1 /\ \A g : g # h => Count(d, g) = Count(c, g)
          BY <3>2, <5>1 DEF CounterIs, GCounterIncrement, Count
        <5>3. ASSUME NEW g \in Holders, NEW k \in Nat
              PROVE  <<g, k>> \in seen[h].entries \cup {uid} <=> k \in 1..Count(d, g)
          <6>1. <<g, k>> \in seen[h].entries <=> k \in 1..Count(c, g)
            BY <5>1 DEF CounterIs
          <6>2. <<g, k>> = uid <=> g = h /\ k = n + 1
            OBVIOUS
          <6>3. CASE g = h
            BY <3>2, <5>2, <6>1, <6>2, <6>3
          <6>4. CASE g # h
            BY <5>2, <6>1, <6>2, <6>4
          <6> QED  BY <6>3, <6>4
        <5> QED  BY <5>2, <5>3 DEF CounterIs
      <4>4. /\ copy'[h].registers = copy[h].registers
            /\ copy'[h].log = ORSetAdd(copy[h].log, uid, p)
            /\ copy'[h].counter = GCounterIncrement(copy[h].counter, h)
            /\ seen'[h].writes = seen[h].writes /\ seen'[h].entries = seen[h].entries \cup {uid}
            /\ copy'[h] = [registers |-> copy'[h].registers, log |-> copy'[h].log,
                           counter |-> copy'[h].counter]
            /\ seen'[h] = [writes |-> seen'[h].writes, entries |-> seen'[h].entries]
        BY <4>1
      <4> HIDE DEF uid, new
      <4> QED  BY <2>1, <4>2, <4>3, <4>4 DEF Holds
    <3>6. \A g \in Holders : Holds(copy'[g], seen'[g], new)
      <4> SUFFICES ASSUME NEW g \in Holders, g # h PROVE Holds(copy'[g], seen'[g], new)
        BY <3>5
      <4>1. copy'[g] = copy[g] /\ seen'[g] = seen[g]
        BY <2>2, <3>1
      <4> QED  BY <2>1, <2>2, <3>4, <4>1
    <3>7. \A m \in sent' : Holds(m.state, m.known, new)
      BY <2>1, <2>2, <3>1, <3>4
    <3>8. /\ DOMAIN copy' = Holders /\ DOMAIN seen' = Holders
          /\ copy' = [g \in Holders |-> copy'[g]] /\ seen' = [g \in Holders |-> seen'[g]]
          /\ entries' \subseteq Holders \X Nat
          /\ \A g \in Holders : /\ seen'[g].writes \subseteq writes'
                                /\ seen'[g].entries \subseteq entries'
          /\ \A m \in sent' : m.known.writes \subseteq writes' /\ m.known.entries \subseteq entries'
      <4>1. /\ entries' = entries \cup {uid} /\ seen' = [seen EXCEPT ![h].entries = @ \cup {uid}]
            /\ DOMAIN copy' = Holders /\ copy' = [g \in Holders |-> copy'[g]]
            /\ DOMAIN seen' = Holders /\ seen' = [g \in Holders |-> seen'[g]]
        BY <2>2, <3>1
      <4>2. seen'[h].entries = seen[h].entries \cup {uid} /\ seen'[h].writes = seen[h].writes
        BY <2>1, <2>2, <4>1 DEF Holds
      <4>3. entries' \subseteq Holders \X Nat
        BY <2>2, <3>2, <4>1
      <4> HIDE DEF uid
      <4>4. \A g \in Holders : g # h => seen'[g] = seen[g]
        BY <2>2, <4>1
      <4>5. \A g \in Holders : /\ seen'[g].writes \subseteq writes'
                               /\ seen'[g].entries \subseteq entries'
        BY <2>2, <3>1, <4>1, <4>2, <4>4
      <4> QED  BY <2>2, <3>1, <4>1, <4>3, <4>5
    <3>9. \A g \in Holders, k \in Nat : <<g, k>> \in entries' => <<g, k>> \in seen'[g].entries
      BY <2>2, <3>1 DEF CopiesInv
    <3> QED  BY <2>2, <3>1, <3>3, <3>6, <3>7, <3>8, <3>9 DEF CopiesInv
  <2>6. ASSUME NEW h \in Holders, Publish(h) PROVE CopiesInv'
    <3>1. /\ sent' = sent \cup {[node |-> h, state |-> copy[h], known |-> seen[h]]}
          /\ UNCHANGED <<copy, writes, entries, seen>>
      BY <2>6 DEF Publish
    <3>2. \A m \in sent' : Holds(m.state, m.known, content)
      BY <2>1, <3>1
    <3> QED  BY <2>1, <2>2, <3>1, <3>2 DEF CopiesInv
  <2>7. ASSUME NEW h \in Holders, NEW m \in sent, MergeRemote(h, m) PROVE CopiesInv'
    <3>1. /\ copy' = [copy EXCEPT ![h] = StateMerge(@, m.state)]
          /\ seen' = [seen EXCEPT ![h] = [writes  |-> @.writes \cup m.known.writes,
                                          entries |-> @.entries \cup m.known.entries]]
          /\ UNCHANGED <<sent, writes, entries>>
      BY <2>7 DEF MergeRemote
    <3>2. Holds(copy[h], seen[h], content) /\ Holds(m.state, m.known, content)
      BY <2>1
    <3>3. /\ copy'[h] = StateMerge(copy[h], m.state)
          /\ seen'[h] = [writes  |-> seen[h].writes \cup m.known.writes,
                         entries |-> seen[h].entries \cup m.known.entries]
      BY <2>2, <3>1
    (* merge_remote, on each part of a state                               *)
    <3>4. ~Skewed => RegistersAre(copy'[h].registers, seen'[h].writes)
      <4>1. seen[h].writes \in SUBSET Writes /\ m.known.writes \in SUBSET Writes
        BY <2>2
      <4>2. ASSUME NEW a, NEW b, NEW V \in SUBSET Writes, NEW W \in SUBSET Writes,
                   RegistersAre(a, V), RegistersAre(b, W)
            PROVE  RegistersAre([f \in Fields |-> LWWMerge(a[f], b[f])], V \cup W)
        <5> USE <4>2
        <5> DEFINE r == [f \in Fields |-> LWWMerge(a[f], b[f])]
        <5>1. /\ r \in [Fields -> Register]
              /\ \A f \in Fields : \/ r[f] = Unset
                                   \/ [field |-> f, register |-> r[f]] \in V \cup W
          BY DEF RegistersAre, LWWMerge
        <5>2. ASSUME NEW w \in V \cup W PROVE ~Precedes(r[w.field], w.register)
          <6>1. /\ w.field \in Fields /\ w.register \in Register
                /\ a[w.field] \in Register /\ b[w.field] \in Register
            BY DEF Writes, RegistersAre
          <6>2. /\ w.register.timestamp \in Nat /\ w.register.node \in Nat
                /\ a[w.field].timestamp \in Nat /\ a[w.field].node \in Nat
                /\ b[w.field].timestamp \in Nat /\ b[w.field].node \in Nat
            BY <6>1, MergeAssumption DEF Register
          <6>3. ~Precedes(a[w.field], w.register) \/ ~Precedes(b[w.field], w.register)
            BY <5>2 DEF RegistersAre
          <6> QED  BY <6>1, <6>2, <6>3 DEF LWWMerge, Precedes
        <5> QED  BY <5>1, <5>2 DEF RegistersAre
      <4> QED  BY <3>2, <3>3, <4>1, <4>2 DEF Holds, StateMerge
    <3>5. LogIs(copy'[h].log, seen'[h].entries, content)
      <4>1. ASSUME NEW a, NEW b, NEW D, NEW E,
                   LogIs(a, D, content), LogIs(b, E, content)
            PROVE  LogIs(ORSetMerge(a, b), D \cup E, content)
        <5>1. /\ a = [elements |-> [u \in D |-> content[u]], tombstones |-> {}]
              /\ b = [elements |-> [u \in E |-> content[u]], tombstones |-> {}]
          BY <4>1 DEF LogIs
        <5> QED  BY <5>1 DEF LogIs, ORSetMerge
      <4> QED  BY <3>2, <3>3, <4>1 DEF Holds, StateMerge
    <3>6. CounterIs(copy'[h].counter, seen'[h].entries)
      (* Each state holds a first part of every author's entries.          *)
      <4>1. ASSUME NEW a, NEW b, NEW D, NEW E, CounterIs(a, D), CounterIs(b, E)
            PROVE  CounterIs(GCounterMerge(a, b), D \cup E)
        <5> USE <4>1
        <5> DEFINE c == GCounterMerge(a, b)
        <5>1. \A g : /\ Count(a, g) \in Nat /\ Count(b, g) \in Nat
                     /\ Count(c, g) = Larger(Count(a, g), Count(b, g))
          BY DEF CounterIs, Count, GCounterMerge, Larger
        <5>2. DOMAIN c \subseteq Holders /\ c \in [DOMAIN c -> Nat \ {0}]
          BY DEF CounterIs, Count, GCounterMerge, Larger
        <5>3. \A g \in Holders, k \in Nat : <<g, k>> \in D \cup E <=> k \in 1..Count(c, g)
          <6> SUFFICES ASSUME NEW g \in Holders, NEW k \in Nat
                       PROVE  <<g, k>> \in D \cup E <=> k \in 1..Count(c, g)
            OBVIOUS
          <6>1. /\ <<g, k>> \in D <=> k \in 1..Count(a, g)
                /\ <<g, k>> \in E <=> k \in 1..Count(b, g)
            BY DEF CounterIs
          <6> QED  BY <5>1, <6>1 DEF Larger
        <5> QED  BY <5>2, <5>3 DEF CounterIs
      <4> QED  BY <3>2, <3>3, <4>1 DEF Holds, StateMerge
    <3>7. Holds(copy'[h], seen'[h], content)
      BY <3>3, <3>4, <3>5, <3>6 DEF Holds, StateMerge
    <3>8. \A g \in Holders : Holds(copy'[g], seen'[g], content)
      BY <2>1, <2>2, <3>1, <3>7
    <3>9. \A g \in Holders, k \in Nat : <<g, k>> \in entries' => <<g, k>> \in seen'[g].entries
      BY <2>2, <3>1 DEF CopiesInv
    <3>10. /\ DOMAIN copy' = Holders /\ DOMAIN seen' = Holders
           /\ copy' = [g \in Holders |-> copy'[g]] /\ seen' = [g \in Holders |-> seen'[g]]
           /\ \A x \in sent' : Holds(x.state, x.known, content)
           /\ \A g \in Holders : /\ seen'[g].writes \subseteq writes'
                                 /\ seen'[g].entries \subseteq entries'
      BY <2>1, <2>2, <3>1
    <3> QED  BY <2>1, <2>2, <3>1, <3>8, <3>9, <3>10 DEF CopiesInv
  <2> QED  BY <2>3, <2>4, <2>5, <2>6, <2>7 DEF Next
<1> QED  BY <1>1, <1>2, PTL DEF Spec

(* Nothing is lost and nothing is counted twice, under any clocks.         *)
THEOREM CopiesExact == Spec => []LogAndCounterExact
(* A uid is an author and a number, so the first k entries of an author    *)
(* are k entries.                                                          *)
<1>0. ASSUME NEW g, NEW k \in Nat
      PROVE  Cardinality({<<g, i>> : i \in 1..k}) = k
  <2> USE <1>0
  <2> DEFINE S == {<<g, i>> : i \in 1..k}
             f == [i \in 1..k |-> <<g, i>>]
  <2>1. f \in Bijection(1..k, S)
    BY DEF Bijection, Injection, Surjection, IsInjective
  <2>2. ExistsBijection(1..k, S)
    BY <2>1 DEF ExistsBijection
  <2> QED  BY <2>2, FS_CountingElements
<1>1. CopiesInv => LogAndCounterExact
  <2> SUFFICES ASSUME CopiesInv, NEW h \in Holders
               PROVE  /\ DOMAIN copy[h].log.elements = seen[h].entries
                      /\ \A g \in Holders : Count(copy[h].counter, g) =
                             Cardinality({u \in seen[h].entries : u[1] = g})
    BY DEF LogAndCounterExact
  <2>1. PICK content : Holds(copy[h], seen[h], content)
    BY DEF CopiesInv
  <2>2. DOMAIN copy[h].log.elements = seen[h].entries
    BY <2>1 DEF Holds, LogIs
  <2>3. ASSUME NEW g \in Holders
        PROVE  Count(copy[h].counter, g) = Cardinality({u \in seen[h].entries : u[1] = g})
    <3> DEFINE k == Count(copy[h].counter, g)
    <3>1. CounterIs(copy[h].counter, seen[h].entries) /\ seen[h].entries \subseteq Holders \X Nat
      BY <2>1 DEF Holds, CopiesInv
    <3>2. k \in Nat
      BY <3>1 DEF CounterIs, Count
    <3>3. \A i \in Nat : <<g, i>> \in seen[h].entries <=> i \in 1..k
      BY <3>1 DEF CounterIs
    <3> HIDE DEF k
    <3>4. {u \in seen[h].entries : u[1] = g} = {<<g, i>> : i \in 1..k}
      BY <3>1, <3>2, <3>3
    <3> QED  BY <3>2, <3>4, <1>0 DEF k
  <2> QED  BY <2>2, <2>3
<1> QED  BY <1>1, CopiesInvariance, PTL

(* Copies that contain the same updates are equal, and a register holds    *)
(* the latest of its writes, unless clocks are behind stamps already seen. *)
THEOREM EventuallyConsistent ==
  ASSUME ~Skewed
  PROVE  Spec => [](Convergence /\ LatestWriteWins)
<1>1. CopiesInv => LatestWriteWins
  BY DEF CopiesInv, Holds, RegistersAre, LatestWriteWins
<1>2. CopiesInv => Convergence
  <2> SUFFICES ASSUME CopiesInv, NEW g \in Holders, NEW h \in Holders, seen[g] = seen[h]
               PROVE  copy[g] = copy[h]
    BY DEF Convergence
  <2>1. PICK content : Holds(copy[g], seen[g], content) /\ Holds(copy[h], seen[g], content)
    BY DEF CopiesInv
  <2> DEFINE W == seen[g].writes
             E == seen[g].entries
  <2>2. copy[g].log = copy[h].log
    BY <2>1 DEF Holds, LogIs
  <2>3. copy[g].counter = copy[h].counter
    <3> DEFINE a == copy[g].counter
               b == copy[h].counter
    <3>1. CounterIs(a, E) /\ CounterIs(b, E)
      BY <2>1 DEF Holds
    <3>2. ASSUME NEW n \in Holders PROVE Count(a, n) = Count(b, n)
      <4>1. Count(a, n) \in Nat /\ Count(b, n) \in Nat
        BY <3>1 DEF CounterIs, Count
      <4>2. \A k \in Nat : k \in 1..Count(a, n) <=> k \in 1..Count(b, n)
        BY <3>1 DEF CounterIs
      <4> QED  BY <4>1, <4>2
    <3>3. \A n : /\ n \in DOMAIN a <=> n \in Holders /\ Count(a, n) > 0
                 /\ n \in DOMAIN b <=> n \in Holders /\ Count(b, n) > 0
      BY <3>1 DEF CounterIs, Count
    <3>4. DOMAIN a = DOMAIN b
      BY <3>2, <3>3
    <3>5. \A n \in DOMAIN a : a[n] = b[n]
      BY <3>2, <3>3, <3>4 DEF Count
    <3> QED  BY <3>1, <3>4, <3>5 DEF CounterIs
  <2>4. copy[g].registers = copy[h].registers
    <3> DEFINE a == copy[g].registers
               b == copy[h].registers
    <3>1. RegistersAre(a, W) /\ RegistersAre(b, W) /\ W \subseteq writes /\ W \subseteq Writes
      BY <2>1 DEF Holds, CopiesInv
    <3>2. ASSUME NEW f \in Fields PROVE a[f] = b[f]
      <4>1. /\ a[f] = Unset \/ [field |-> f, register |-> a[f]] \in W
            /\ b[f] = Unset \/ [field |-> f, register |-> b[f]] \in W
            /\ \A w \in W : w.field = f => /\ ~Precedes(a[f], w.register)
                                          /\ ~Precedes(b[f], w.register)
        BY <3>1 DEF RegistersAre
      <4>2. CASE a[f] = Unset
        BY <3>1, <4>1, <4>2 DEF Precedes, Unset, Writes, Register
      <4>3. CASE b[f] = Unset
        BY <3>1, <4>1, <4>3 DEF Precedes, Unset, Writes, Register
      <4>4. CASE /\ [field |-> f, register |-> a[f]] \in W
                 /\ [field |-> f, register |-> b[f]] \in W
        <5>1. a[f] \in Register /\ b[f] \in Register
          BY <3>1 DEF RegistersAre
        <5>2. ~Precedes(a[f], b[f]) /\ ~Precedes(b[f], a[f])
          BY <4>1, <4>4
        <5>3. a[f].timestamp = b[f].timestamp /\ a[f].node = b[f].node
          <6>1. /\ a[f].timestamp \in Nat /\ a[f].node \in Nat
                /\ b[f].timestamp \in Nat /\ b[f].node \in Nat
            BY <5>1, MergeAssumption DEF Register
          <6> HIDE DEF a, b
          <6> QED  BY <5>2, <6>1 DEF Precedes
        <5>4. [field |-> f, register |-> a[f]] = [field |-> f, register |-> b[f]]
          BY <3>1, <4>4, <5>3 DEF CopiesInv
        <5> QED  BY <5>4
      <4> QED  BY <4>1, <4>2, <4>3, <4>4
    <3> QED  BY <3>1, <3>2 DEF RegistersAre
  <2> QED  BY <2>1, <2>2, <2>3, <2>4 DEF Holds
<1> QED  BY <1>1, <1>2, CopiesInvariance, PTL

===============================================================================
