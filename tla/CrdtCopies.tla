------------------------------ MODULE CrdtCopies ------------------------------
(***************************************************************************)
(* Copies of one task's CRDT state that several nodes write and merge in   *)
(* any order, as the classes of broker/crdt_state.py are meant to be used: *)
(* every node applies its writes to a copy of its own and merges what the  *)
(* others have published, at any time after, in any order, more than once. *)
(* (The store that the orchestrators really share is CrdtStore.)           *)
(***************************************************************************)
EXTENDS CrdtMerge, FiniteSets

CONSTANTS MaxTime,     \* bound: clock readings are 1..MaxTime
          MaxUpdates,  \* bound: writes and appends of all nodes
          MaxSent,     \* bound: states published
          Skewed       \* whether clocks may be behind stamps already seen

Holders == Nodes \ {0}

ASSUME CopiesAssumption ==
    /\ MaxTime \in Nat /\ MaxUpdates \in Nat /\ MaxSent \in Nat
    /\ Skewed \in BOOLEAN
    /\ None \notin Values
    /\ Holders \X (1..MaxUpdates) \subseteq Uids

VARIABLES copy,     \* each node's copy of the state
          sent,     \* the states published so far, with what they contain
          writes,   \* history: register writes made, by anyone
          entries,  \* history: log entries appended, by anyone
          seen      \* history: the writes and entries each copy contains

vars == <<copy, sent, writes, entries, seen>>

Init ==
    /\ copy = [h \in Holders |-> EmptyState]
    /\ sent = {}
    /\ writes = {}
    /\ entries = {}
    /\ seen = [h \in Holders |-> [writes |-> {}, entries |-> {}]]
-----------------------------------------------------------------------------
(* update_register: the stamp is the node's clock, which goes forward.     *)
(* Unless clocks are skewed it is past the writes the copy contains.       *)
UpdateRegister(h, f) ==
    \E v \in Values, t \in 1..MaxTime :
        LET w == [field |-> f, register |-> LWWSet(v, t, h)]
        IN  /\ Cardinality(writes) + Cardinality(entries) < MaxUpdates
            /\ \A x \in writes : x.register.node = h => x.register.timestamp < t
            /\ Skewed \/ t > copy[h].registers[f].timestamp
            /\ copy' = [copy EXCEPT ![h].registers[f] = w.register]
            /\ writes' = writes \cup {w}
            /\ seen' = [seen EXCEPT ![h].writes = @ \cup {w}]
            /\ UNCHANGED <<sent, entries>>

(* append_iteration: an entry with a fresh uid, and one more iteration     *)
AppendIteration(h) ==
    \E p \in Payloads :
        LET uid == <<h, Count(copy[h].counter, h) + 1>>
        IN  /\ Cardinality(writes) + Cardinality(entries) < MaxUpdates
            /\ copy' = [copy EXCEPT ![h].log = ORSetAdd(@, uid, p),
                                    ![h].counter = GCounterIncrement(@, h)]
            /\ entries' = entries \cup {uid}
            /\ seen' = [seen EXCEPT ![h].entries = @ \cup {uid}]
            /\ UNCHANGED <<sent, writes>>

(* publish_for_sync                                                        *)
Publish(h) ==
    /\ Cardinality(sent) < MaxSent
    /\ sent' = sent \cup {[node |-> h, state |-> copy[h], known |-> seen[h]]}
    /\ UNCHANGED <<copy, writes, entries, seen>>

(* merge_remote of a published state of another node                       *)
MergeRemote(h, m) ==
    /\ m.node # h
    /\ copy' = [copy EXCEPT ![h] = StateMerge(@, m.state)]
    /\ seen' = [seen EXCEPT ![h] =
                   [writes  |-> @.writes \cup m.known.writes,
                    entries |-> @.entries \cup m.known.entries]]
    /\ UNCHANGED <<sent, writes, entries>>

Next == \E h \in Holders : \/ \E f \in Fields : UpdateRegister(h, f)
                           \/ AppendIteration(h)
                           \/ Publish(h)
                           \/ \E m \in sent : MergeRemote(h, m)

Spec == Init /\ [][Next]_vars
-----------------------------------------------------------------------------
(* Eventual consistency: copies that contain the same updates are equal,   *)
(* whatever the order, the route and the number of times they came in.     *)
Convergence ==
    \A g, h \in Holders : seen[g] = seen[h] => copy[g] = copy[h]

(* A register holds the write with the highest timestamp, ties decided by  *)
(* the node id, of all the writes its copy contains                        *)
(* (docs/sections/section_16_interview.html:42).                           *)
LatestWriteWins ==
    \A h \in Holders : \A w \in seen[h].writes :
        ~Precedes(copy[h].registers[w.field], w.register)

(* Nothing is lost and nothing counted twice: a copy's log holds exactly   *)
(* the entries it contains, and its counter says, for each node, how many  *)
(* of them are of that node.                                               *)
LogAndCounterExact ==
    \A h \in Holders :
        /\ DOMAIN copy[h].log.elements = seen[h].entries
        /\ \A g \in Holders : Count(copy[h].counter, g) =
                              Cardinality({u \in seen[h].entries : u[1] = g})
===============================================================================
