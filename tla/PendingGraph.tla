------------------------------ MODULE PendingGraph ------------------------------
(***************************************************************************)
(* The dependency graph of the pending transactions actor, PendingGraph of *)
(* crates/actors/src/pending_transactions.rs, as operators on its value.   *)
(*                                                                         *)
(* A graph holds the transactions that are vertices, the account_index     *)
(* with a queue of transactions per account, and for each vertex the set   *)
(* of its dependent_transactions. Each operator gives the graph a method   *)
(* leaves and the transactions it schedules with the validator.            *)
(***************************************************************************)
EXTENDS Transfers, Sequences

CONSTANT Txs

Graph == [vertices : SUBSET Txs, index : [Accounts -> Seq(Txs)], dependents : [Txs -> SUBSET Txs]]

NewGraph == [vertices |-> {}, index |-> [a \in Accounts |-> <<>>], dependents |-> [t \in Txs |-> {}]]

Queued(s) == {s[i] : i \in DOMAIN s}

\* VecDeque::remove of the first position that holds t.
Without(s, t) ==
    IF t \notin Queued(s) THEN s
    ELSE LET i == CHOOSE i \in DOMAIN s : s[i] = t /\ \A j \in 1..(i - 1) : s[j] # t
         IN SubSeq(s, 1, i - 1) \o SubSeq(s, i + 1, Len(s))

Dependencies(g, a) == Queued(g.index[a]) \intersect g.vertices

\* The accounts whose queue gets t: has_dependencies is set by the first account that
\* has a dependency and stays set for the accounts visited after it. The accounts are
\* visited in the order of a hash set, first first.
Depends(g, t, first) ==
    {a \in AccountsInvolved(t) : \/ Dependencies(g, a) # {}
                                 \/ Dependencies(g, first) # {}}

AddTransaction(g, t, first) ==
    LET depends == Depends(g, t, first)
        on == UNION {Dependencies(g, a) : a \in AccountsInvolved(t)}
    IN [graph |-> [vertices |-> g.vertices \union {t},
                   index |-> [a \in Accounts |-> IF a \in depends THEN Append(g.index[a], t)
                                                 ELSE g.index[a]],
                   dependents |-> [d \in Txs |-> IF d = t THEN {}
                                                 ELSE IF d \in on THEN g.dependents[d] \union {t}
                                                 ELSE g.dependents[d]]],
        ready |-> IF depends = {} THEN {t} ELSE {}]

\* handle_valid and handle_invalid leave the same graph. They mark ready the vertices
\* that have no dependent left once t is gone, and the actor schedules those.
HandleVerdict(g, t) ==
    IF t \notin g.vertices THEN [graph |-> g, ready |-> {}]
    ELSE LET rest == g.vertices \ {t}
         IN [graph |-> [vertices |-> rest,
                        index |-> [a \in Accounts |-> IF a \in AccountsInvolved(t)
                                                      THEN Without(g.index[a], t)
                                                      ELSE g.index[a]],
                        dependents |-> [d \in Txs |-> IF d \in rest THEN g.dependents[d] \ {t}
                                                      ELSE g.dependents[d]]],
             ready |-> {d \in rest : g.dependents[d] = {t}}]

\* The turn of clean_graph for a vertex t that timed out.
CleanVertex(g, t) ==
    LET rest == g.vertices \ {t}
        deps == g.dependents[t] \intersect rest
        touched == UNION {AccountsInvolved(d) : d \in deps}
        index == [a \in Accounts |-> IF a \in touched THEN Without(g.index[a], t) ELSE g.index[a]]
    IN [graph |-> [vertices |-> rest, index |-> index, dependents |-> g.dependents],
        ready |-> {d \in deps : \A a \in AccountsInvolved(d) :
                                    index[a] # <<>> => Head(index[a]) = d}]
=============================================================================
