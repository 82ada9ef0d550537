--------------------------- MODULE CrdtMergeProofs ---------------------------
(***************************************************************************)
(* The algebra of the merges, for all values, entries, nodes and counts:   *)
(* idempotent, commutative and associative, and least upper bounds.        *)
(***************************************************************************)
EXTENDS CrdtMerge, TLAPS

(* LWWRegister.merge is a join, unless two writes have the same stamp.     *)
LEMMA RegisterMerge ==
  ASSUME NEW a \in Register, NEW b \in Register, NEW c \in Register,
         SameWrite(a, b), SameWrite(b, c), SameWrite(a, c)
  PROVE  /\ LWWMerge(a, a) = a
         /\ LWWMerge(a, b) = LWWMerge(b, a)
         /\ LWWMerge(LWWMerge(a, b), c) = LWWMerge(a, LWWMerge(b, c))
         /\ RegisterLeq(a, LWWMerge(a, b)) /\ RegisterLeq(b, LWWMerge(a, b))
         /\ RegisterLeq(a, c) /\ RegisterLeq(b, c) => RegisterLeq(LWWMerge(a, b), c)
<1>1. /\ a.timestamp \in Nat /\ b.timestamp \in Nat /\ c.timestamp \in Nat
      /\ a.node \in Nat /\ b.node \in Nat /\ c.node \in Nat
  BY MergeAssumption DEF Register
<1>2. LWWMerge(a, a) = a /\ LWWMerge(a, b) = LWWMerge(b, a)
  BY <1>1 DEF LWWMerge, Precedes, SameWrite
<1>3. LWWMerge(LWWMerge(a, b), c) = LWWMerge(a, LWWMerge(b, c))
  BY <1>1 DEF LWWMerge, Precedes, SameWrite
<1>4. RegisterLeq(a, LWWMerge(a, b)) /\ RegisterLeq(b, LWWMerge(a, b))
  BY <1>1 DEF LWWMerge, Precedes, SameWrite, RegisterLeq
<1>5. RegisterLeq(a, c) /\ RegisterLeq(b, c) => RegisterLeq(LWWMerge(a, b), c)
  BY DEF LWWMerge
<1> QED  BY <1>2, <1>3, <1>4, <1>5

(* GCounter.merge, the maximum for every node, is a join.                  *)
LEMMA CounterMerge ==
  ASSUME NEW a \in Counters, NEW b \in Counters, NEW c \in Counters
  PROVE  /\ GCounterMerge(a, a) = a
         /\ GCounterMerge(a, b) = GCounterMerge(b, a)
         /\ GCounterMerge(GCounterMerge(a, b), c) = GCounterMerge(a, GCounterMerge(b, c))
         /\ GCounterLeq(a, GCounterMerge(a, b)) /\ GCounterLeq(b, GCounterMerge(a, b))
         /\ GCounterLeq(a, c) /\ GCounterLeq(b, c) => GCounterLeq(GCounterMerge(a, b), c)
<1>1. /\ \A n : Count(a, n) \in Nat /\ Count(b, n) \in Nat /\ Count(c, n) \in Nat
  BY DEF Counters, Count
<1>2. GCounterMerge(a, a) = a
  BY <1>1 DEF Counters, GCounterMerge, Larger, Count
<1>3. GCounterMerge(a, b) = GCounterMerge(b, a)
  BY <1>1 DEF GCounterMerge, Larger
<1>4. GCounterMerge(GCounterMerge(a, b), c) = GCounterMerge(a, GCounterMerge(b, c))
  BY <1>1 DEF GCounterMerge, Larger, Count
<1>5. GCounterLeq(a, GCounterMerge(a, b)) /\ GCounterLeq(b, GCounterMerge(a, b))
  BY <1>1 DEF GCounterLeq, GCounterMerge, Larger, Count
<1>6. GCounterLeq(a, c) /\ GCounterLeq(b, c) => GCounterLeq(GCounterMerge(a, b), c)
  BY <1>1 DEF GCounterLeq, GCounterMerge, Larger, Count
<1> QED  BY <1>2, <1>3, <1>4, <1>5, <1>6

(* ORSet.merge is a join, unless one uid names two entries.                *)
LEMMA LogMerge ==
  ASSUME NEW a \in ORSets, NEW b \in ORSets, NEW c \in ORSets,
         SameEntries(a, b), SameEntries(b, c), SameEntries(a, c)
  PROVE  /\ ORSetMerge(a, a) = a
         /\ ORSetMerge(a, b) = ORSetMerge(b, a)
         /\ ORSetMerge(ORSetMerge(a, b), c) = ORSetMerge(a, ORSetMerge(b, c))
         /\ ORSetLeq(a, ORSetMerge(a, b)) /\ ORSetLeq(b, ORSetMerge(a, b))
         /\ ORSetLeq(a, c) /\ ORSetLeq(b, c) => ORSetLeq(ORSetMerge(a, b), c)
<1>1. ORSetMerge(a, a) = a
  BY DEF ORSets, Dicts, ORSetMerge
<1>2. ORSetMerge(a, b) = ORSetMerge(b, a)
  BY DEF ORSetMerge, SameEntries
<1>3. ORSetMerge(ORSetMerge(a, b), c) = ORSetMerge(a, ORSetMerge(b, c))
  BY DEF ORSetMerge
<1>4. ORSetLeq(a, ORSetMerge(a, b)) /\ ORSetLeq(b, ORSetMerge(a, b))
  BY DEF ORSetLeq, ORSetMerge, SameEntries, ORSets
<1>5. ORSetLeq(a, c) /\ ORSetLeq(b, c) => ORSetLeq(ORSetMerge(a, b), c)
  BY DEF ORSetLeq, ORSetMerge, SameEntries, ORSets
<1> QED  BY <1>1, <1>2, <1>3, <1>4, <1>5

(* Whatever the order in which task states are merged, and however often,  *)
(* the result is the same, provided that equal stamps mean equal writes    *)
(* and equal uids equal entries: merge_remote is idempotent, commutative   *)
(* and associative.                                                        *)
THEOREM MergeOrderIrrelevant ==
  ASSUME NEW a \in TaskStates, NEW b \in TaskStates, NEW c \in TaskStates,
         Compatible(a, b), Compatible(b, c), Compatible(a, c)
  PROVE  /\ StateMerge(a, a) = a
         /\ StateMerge(a, b) = StateMerge(b, a)
         /\ StateMerge(StateMerge(a, b), c) = StateMerge(a, StateMerge(b, c))
<1>2. ASSUME NEW f \in Fields
      PROVE  /\ LWWMerge(a.registers[f], a.registers[f]) = a.registers[f]
             /\ LWWMerge(a.registers[f], b.registers[f]) =
                LWWMerge(b.registers[f], a.registers[f])
             /\ LWWMerge(LWWMerge(a.registers[f], b.registers[f]), c.registers[f]) =
                LWWMerge(a.registers[f], LWWMerge(b.registers[f], c.registers[f]))
  BY RegisterMerge DEF TaskStates, Compatible
<1>3. /\ ORSetMerge(a.log, a.log) = a.log
      /\ ORSetMerge(a.log, b.log) = ORSetMerge(b.log, a.log)
      /\ ORSetMerge(ORSetMerge(a.log, b.log), c.log) =
         ORSetMerge(a.log, ORSetMerge(b.log, c.log))
  BY LogMerge DEF TaskStates, Compatible
<1>4. /\ GCounterMerge(a.counter, a.counter) = a.counter
      /\ GCounterMerge(a.counter, b.counter) = GCounterMerge(b.counter, a.counter)
      /\ GCounterMerge(GCounterMerge(a.counter, b.counter), c.counter) =
         GCounterMerge(a.counter, GCounterMerge(b.counter, c.counter))
  BY CounterMerge DEF TaskStates
<1>5. a = [registers |-> [f \in Fields |-> a.registers[f]],
           log |-> a.log, counter |-> a.counter]
  BY DEF TaskStates
<1>6. StateMerge(a, a) = a
  BY <1>2, <1>3, <1>4, <1>5 DEF StateMerge
<1>7. StateMerge(a, b) = StateMerge(b, a)
  BY <1>2, <1>3, <1>4 DEF StateMerge
<1>8. StateMerge(StateMerge(a, b), c) = StateMerge(a, StateMerge(b, c))
  BY <1>2, <1>3, <1>4 DEF StateMerge
<1> QED  BY <1>6, <1>7, <1>8

(* merge_remote loses nothing and invents nothing: the merge of two states *)
(* is the least state that knows what both know.                           *)
THEOREM MergeIsLeastUpperBound ==
  ASSUME NEW a \in TaskStates, NEW b \in TaskStates, NEW c \in TaskStates,
         Compatible(a, b), Compatible(b, c), Compatible(a, c)
  PROVE  /\ StateLeq(a, StateMerge(a, b))
         /\ StateLeq(b, StateMerge(a, b))
         /\ StateLeq(a, c) /\ StateLeq(b, c) => StateLeq(StateMerge(a, b), c)
<1>1. ASSUME NEW f \in Fields
      PROVE  /\ RegisterLeq(a.registers[f], LWWMerge(a.registers[f], b.registers[f]))
             /\ RegisterLeq(b.registers[f], LWWMerge(a.registers[f], b.registers[f]))
             /\ RegisterLeq(a.registers[f], c.registers[f])
                /\ RegisterLeq(b.registers[f], c.registers[f])
                => RegisterLeq(LWWMerge(a.registers[f], b.registers[f]), c.registers[f])
  BY RegisterMerge DEF TaskStates, Compatible
<1>2. /\ ORSetLeq(a.log, ORSetMerge(a.log, b.log))
      /\ ORSetLeq(b.log, ORSetMerge(a.log, b.log))
      /\ ORSetLeq(a.log, c.log) /\ ORSetLeq(b.log, c.log)
         => ORSetLeq(ORSetMerge(a.log, b.log), c.log)
  BY LogMerge DEF TaskStates, Compatible
<1>3. /\ GCounterLeq(a.counter, GCounterMerge(a.counter, b.counter))
      /\ GCounterLeq(b.counter, GCounterMerge(a.counter, b.counter))
      /\ GCounterLeq(a.counter, c.counter) /\ GCounterLeq(b.counter, c.counter)
         => GCounterLeq(GCounterMerge(a.counter, b.counter), c.counter)
  BY CounterMerge DEF TaskStates
<1> QED  BY <1>1, <1>2, <1>3 DEF StateMerge, StateLeq
==============================================================================
