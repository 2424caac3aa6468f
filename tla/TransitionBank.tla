--------------------------- MODULE TransitionBank ---------------------------
(***************************************************************************)
(* build_transition_bank (conicshield/bench/transition_bank.py): a bounded *)
(* breadth-first copy of a street graph, from which episodes are replayed. *)
(*                                                                         *)
(* Addresses are numbers in the order of the canonical sort key of the     *)
(* edges that lead to them (duration, distance, address).                  *)
(***************************************************************************)
EXTENDS Naturals, Sequences, SequencesExt

CONSTANTS Root,      \* root_address
          Actions,   \* ACTION_SPACE
          Graphs,    \* the street graphs: address to its candidate edges
          MaxDepth, MaxNodes

Addresses == UNION {DOMAIN g : g \in Graphs}
Candidate == [act : Actions, dest : Addresses]

ASSUME BankAssumption ==
  /\ Root \in Nat /\ MaxDepth \in Nat /\ MaxNodes \in Nat \ {0}
  /\ \A g \in Graphs : Root \in DOMAIN g /\ g \in [Addresses -> SUBSET Candidate]
  \* Candidates are lists.
  /\ \A g \in Graphs : \A a \in DOMAIN g : IsFiniteSet(g[a])

VARIABLES
  graph,   \* what candidate_builder answers
  depth,   \* nodes: the depth of each address in the bank
  queue,   \* the pairs of address and depth to look at
  cramped  \* history: an edge was not followed for want of room

bankVars == <<graph, depth, queue, cramped>>

BankInit == /\ graph \in Graphs
            /\ depth = <<>>
            /\ queue = <<[at |-> Root, depth |-> 0]>>
            /\ cramped = FALSE
-----------------------------------------------------------------------------
Nodes == DOMAIN depth
Building == queue # <<>> /\ Cardinality(Nodes) < MaxNodes

\* MUTANT of Popped: the latest entry is taken.
PoppedLast == Len(queue)

\* queue.popleft()
Popped == 1

\* The edges of a new node are queued in their order while nodes and queue
\* together, duplicates included, leave room.
Extended(rest, d, edges) ==
  LET room == IF MaxNodes > Cardinality(Nodes) + 1 + Len(rest)
              THEN MaxNodes - Cardinality(Nodes) - 1 - Len(rest) ELSE 0
      take == SubSeq(edges, 1, IF room < Len(edges) THEN room ELSE Len(edges))
  IN  rest \o [i \in 1..Len(take) |-> [at |-> take[i].dest, depth |-> d + 1]]

\* One turn of the loop: an address seen before is skipped; otherwise it
\* becomes a node, and its candidates are queued unless it is too deep.
Pop ==
  /\ Building
  /\ LET head == queue[Popped]
         rest == RemoveAt(queue, Popped)
     IN  \/ /\ head.at \in Nodes
            /\ queue' = rest
            /\ UNCHANGED <<depth, cramped>>
         \/ /\ head.at \notin Nodes
            /\ depth' = [a \in Nodes \cup {head.at} |->
                           IF a = head.at THEN head.depth ELSE depth[a]]
            /\ \E edges \in SetToSeqs({c \in graph[head.at] : c.dest \notin DOMAIN depth'}) :
                 queue' = IF head.depth >= MaxDepth THEN rest
                          ELSE Extended(rest, head.depth, edges)
            /\ cramped' = \/ cramped
                          \/ /\ head.depth < MaxDepth
                             /\ Len(queue') < Len(rest) +
                                  Cardinality({c \in graph[head.at] : c.dest \notin DOMAIN depth'})
  /\ UNCHANGED graph
-----------------------------------------------------------------------------
(***************************************************************************)
(* Correctness of a bank that is built.                                    *)
(***************************************************************************)
Successors(S) == {c.dest : c \in UNION {graph[a] : a \in S}}

\* The addresses at most d edges away from the root.
Reach[d \in Nat] == IF d = 0 THEN {Root} ELSE Reach[d - 1] \cup Successors(Reach[d - 1])

\* Whatever was left out for want of room or seen twice, a bank has at most
\* MaxNodes nodes and every node but the root lies one step behind another;
\* when no edge was left out it holds all that is at most MaxDepth away, each
\* at its distance.
BankIsSearchTree ==
  ~Building =>
    /\ Root \in Nodes /\ depth[Root] = 0
    /\ Cardinality(Nodes) <= MaxNodes
    /\ \A a \in Nodes \ {Root} :
         \E b \in Nodes : depth[a] = depth[b] + 1 /\ a \in Successors({b})
    /\ ~cramped => /\ Nodes = Reach[MaxDepth]
                   /\ \A a \in Nodes, d \in 0..MaxDepth : a \in Reach[d] <=> depth[a] <= d
=============================================================================
