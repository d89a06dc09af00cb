----------------------------- MODULE MCStoreSql -----------------------------
(***************************************************************************)
(* StoreSql for TLC.  No statement touches two rows, so a behaviour writes *)
(* the agent, or the first call, or the second call, or the contacts and   *)
(* events, and every interleaving on that row is explored.                 *)
(***************************************************************************)
EXTENDS StoreSql, TLC

RowsOf(o) ==
  CASE o.method \in {"transition", "release", "reap_agents"} -> {"agent"}
    [] o.method = "claim"      -> {"contacts"}
    [] o.method = "apply"      -> {o.call}
    [] o.method = "reap_calls" -> o.rows
    [] o.method = "count"      -> o.opened
    [] OTHER                   -> {}

RowsInUse ==
  UNION {RowsOf(op[w]) : w \in Connections}
    \cup {x \in {"agent"} : \E a \in Agents : agents[a] # FreeAgent}
    \cup {x \in {"contacts"} : \E c \in Contacts : contacts[c] # None}
    \cup {x \in {"events"} : seen_events # {}}
    \cup {c \in Contacts : calls[c] # NoCall}

OneRowSpec ==
  Init /\ [][Next /\ Cardinality(RowsInUse') <= 1]_vars

Symmetry == Permutations(Connections)

=============================================================================
