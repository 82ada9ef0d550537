------------------------------ MODULE CrdtMerge ------------------------------
(***************************************************************************)
(* The replicated data types of                                            *)
(* orchestrator/src/swarm_orchestrator/broker/crdt_state.py, as pure       *)
(* operators: last-writer-wins registers, observed-remove sets and grow-   *)
(* only counters, and the merge of two complete task states.               *)
(*                                                                         *)
(* Node ids are compared as strings in the code; here they are numbers in  *)
(* the same order, 0 being the empty id of a register nobody has set.      *)
(***************************************************************************)
EXTENDS Naturals

CONSTANTS Nodes,     \* node ids
          Values,    \* register contents
          Fields,    \* names of the registers
          Uids,      \* uuids of log entries
          Payloads,  \* log entries
          None       \* the content of a register nobody has set

ASSUME MergeAssumption == Nodes \subseteq Nat /\ 0 \in Nodes

Register == [value: Values \cup {None}, timestamp: Nat, node: Nodes]
Unset    == [value |-> None, timestamp |-> 0, node |-> 0]

(* Precedes(a, b): b is the later write                                    *)
Precedes(a, b) == \/ a.timestamp < b.timestamp
                  \/ a.timestamp = b.timestamp /\ a.node < b.node

(* Mutants precede the definition they change, here and in the modules     *)
(* below: plausible mistakes in the same code, used by no definition.      *)
LWWMergeByTimeOnly(a, b) == IF a.timestamp < b.timestamp THEN b ELSE a
LWWMergeRemoteWins(a, b) == IF b = Unset THEN a ELSE b

(* LWWRegister.merge and LWWRegister.set: set takes the time of the clock, *)
(* whatever timestamp the register had.                                    *)
LWWMerge(a, b) == IF Precedes(a, b) THEN b ELSE a
LWWSet(v, t, n) == [value |-> v, timestamp |-> t, node |-> n]
-----------------------------------------------------------------------------
(* An observed-remove set: elements is a dict from uid to payload.         *)
Dicts == UNION {[S -> Payloads] : S \in SUBSET Uids}
ORSets == {s \in [elements: Dicts, tombstones: SUBSET Uids] :
               DOMAIN s.elements \cap s.tombstones = {}}
EmptySet == [elements |-> [u \in {} |-> {}], tombstones |-> {}]

(* ORSet.add with a fresh uid                                              *)
ORSetAdd(s, uid, p) ==
    [s EXCEPT !.elements = [u \in DOMAIN s.elements \cup {uid} |->
                                IF u = uid THEN p ELSE s.elements[u]]]

ORSetMergeDroppingAbsent(a, b) ==
    LET both == DOMAIN a.elements \cap DOMAIN b.elements
    IN  [elements   |-> [u \in both |-> b.elements[u]],
         tombstones |-> (DOMAIN a.elements \cup DOMAIN b.elements) \ both]

(* ORSet.merge                                                             *)
ORSetMerge(a, b) ==
    LET dead == a.tombstones \cup b.tombstones
    IN  [elements   |-> [u \in (DOMAIN a.elements \cup DOMAIN b.elements) \ dead |->
                            IF u \in DOMAIN b.elements THEN b.elements[u]
                                                       ELSE a.elements[u]],
         tombstones |-> dead]
-----------------------------------------------------------------------------
(* A grow-only counter: a dict from node id to count.                      *)
Counters == UNION {[S -> Nat] : S \in SUBSET Nodes}
EmptyCounter == [n \in {} |-> 0]

Count(c, n) == IF n \in DOMAIN c THEN c[n] ELSE 0

(* GCounter.increment                                                      *)
GCounterIncrement(c, n) ==
    [m \in DOMAIN c \cup {n} |-> IF m = n THEN Count(c, n) + 1 ELSE c[m]]

Larger(x, y) == IF x >= y THEN x ELSE y

GCounterMergeAdding(a, b) ==
    [n \in DOMAIN a \cup DOMAIN b |-> Count(a, n) + Count(b, n)]

(* GCounter.merge                                                          *)
GCounterMerge(a, b) ==
    [n \in DOMAIN a \cup DOMAIN b |-> Larger(Count(a, n), Count(b, n))]
-----------------------------------------------------------------------------
(* The state of a task, and SwarmStateCRDT.merge_remote on it              *)
TaskStates == [registers: [Fields -> Register], log: ORSets, counter: Counters]

EmptyState == [registers |-> [f \in Fields |-> Unset],
               log |-> EmptySet, counter |-> EmptyCounter]

StateMerge(local, remote) ==
    [registers |-> [f \in Fields |->
                       LWWMerge(local.registers[f], remote.registers[f])],
     log       |-> ORSetMerge(local.log, remote.log),
     counter   |-> GCounterMerge(local.counter, remote.counter)]
-----------------------------------------------------------------------------
(* What the merges should be: least upper bounds of an order of knowledge. *)

(* Two registers written with the same stamp are the same write: node ids  *)
(* are unique and a node never reuses a timestamp.                         *)
SameWrite(a, b) == (a.timestamp = b.timestamp /\ a.node = b.node) => a = b

(* A uid stands for one entry                                              *)
SameEntries(a, b) == \A u \in DOMAIN a.elements \cap DOMAIN b.elements :
                         a.elements[u] = b.elements[u]

Compatible(a, b) == /\ \A f \in Fields : SameWrite(a.registers[f], b.registers[f])
                    /\ SameEntries(a.log, b.log)

RegisterLeq(a, b) == a = b \/ Precedes(a, b)

(* b has removed all that a has removed, and holds what a holds unless it  *)
(* has removed it                                                          *)
ORSetLeq(a, b) ==
    /\ a.tombstones \subseteq b.tombstones
    /\ \A u \in DOMAIN a.elements \ b.tombstones :
           u \in DOMAIN b.elements /\ b.elements[u] = a.elements[u]

GCounterLeq(a, b) == DOMAIN a \subseteq DOMAIN b /\ \A n \in DOMAIN a : a[n] <= b[n]

StateLeq(a, b) == /\ \A f \in Fields : RegisterLeq(a.registers[f], b.registers[f])
                  /\ ORSetLeq(a.log, b.log)
                  /\ GCounterLeq(a.counter, b.counter)
==============================================================================
