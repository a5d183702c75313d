----------------------------- MODULE ThoughtTree -----------------------------
(***************************************************************************)
(* reasoning/tot: one tree after another is searched for the forest, by    *)
(* beam search (dfs is a beam of one) or by simulations of MCTS.  What the *)
(* thinker proposes and how the grader rates it is arbitrary.              *)
(***************************************************************************)
EXTENDS FiniteSets, Integers, Sequences

CONSTANTS
  BeamSize, MaxDepth, NSim, ForestSize,
  FullReward,                  \* a reward of 1.0, in parts that up to NSim answers can share
  MaxOptions                   \* bound: options in one answer of the thinker

VARIABLES
  method, \* "beam" or "mcts"
  tree,   \* the nodes in the order they are made, the root first
  leaves, \* beam: prevLeaves still to visit in this round
  fresh,  \* beam: newLeaves
  finals, \* beam: finalAnswers
  node,   \* mcts: where the simulation is
  thought \* "search", "rollout", "merge" or how it ended; trees answered

treeVars == <<method, tree, leaves, fresh, finals, node, thought>>

\* Rewards are 0 or 1, in parts of FullReward, so that the mean of NSim is an integer.
Reward == {0, FullReward}
\* above are the nodes one meets on the way from the parent to the root.
Root == [parent |-> 0, above |-> {}, depth |-> 0, terminate |-> FALSE, kind |-> "thought",
         value |-> 0, rated |-> FALSE, visits |-> 0, beam |-> "new"]
ThinkNode(parent, terminate, kind) ==
  [parent |-> parent, above |-> tree[parent].above \cup {parent}, depth |-> tree[parent].depth + 1,
   terminate |-> terminate, kind |-> kind,
   value |-> 0, rated |-> FALSE, visits |-> 0, beam |-> "new"]
Children(n) == {i \in DOMAIN tree : tree[i].parent = n}
IsTerminal(n) == tree[n].terminate \/ tree[n].depth >= MaxDepth

Init ==
  /\ method \in {"beam", "mcts"} /\ tree = <<Root>>
  /\ leaves = <<1>> /\ fresh = <<>> /\ finals = <<>>
  /\ node = 1 /\ thought = [at |-> "search", answers |-> 0]

\* expand: each option may contain TERMINATE.
Options == UNION {[1..k -> BOOLEAN] : k \in 0..MaxOptions}
Expanded(n, options) ==
  tree \o [i \in DOMAIN options |-> ThinkNode(n, options[i], "thought")]

-----------------------------------------------------------------------------
(* beamReply *)

AcceptFinal ==
  /\ method = "beam" /\ thought.at = "search" /\ leaves # <<>> /\ IsTerminal(Head(leaves))
  /\ \E reward \in IF tree[Head(leaves)].rated THEN {tree[Head(leaves)].value} ELSE Reward :
       tree' = [tree EXCEPT ![Head(leaves)].value = reward, ![Head(leaves)].rated = TRUE]
  /\ finals' = Append(finals, Head(leaves)) /\ leaves' = Tail(leaves)
  /\ UNCHANGED <<method, fresh, node, thought>>

ExpandLeaf ==
  /\ method = "beam" /\ thought.at = "search" /\ leaves # <<>> /\ ~IsTerminal(Head(leaves))
  /\ \E options \in Options :
       /\ tree' = Expanded(Head(leaves), options)
       /\ fresh' = fresh \o [i \in DOMAIN options |-> Len(tree) + i]
  /\ leaves' = Tail(leaves)
  /\ UNCHANGED <<method, finals, node, thought>>

Keep == BeamSize - Len(finals)
\* The stable sort by value, cut to the free places of the beam.
AheadWorse(rewards, i, j) ==                \* mutant: sorted upwards
  rewards[fresh[i]] < rewards[fresh[j]] \/ (rewards[fresh[i]] = rewards[fresh[j]] /\ i < j)
Ahead(rewards, i, j) ==
  rewards[fresh[i]] > rewards[fresh[j]] \/ (rewards[fresh[i]] = rewards[fresh[j]] /\ i < j)
Ranked(rewards, r) ==
  CHOOSE i \in DOMAIN fresh : Cardinality({j \in DOMAIN fresh : Ahead(rewards, j, i)}) = r - 1
Best(rewards) == [r \in 1..Keep |-> fresh[Ranked(rewards, r)]]
NodesOf(list) == {list[i] : i \in DOMAIN list}

\* Too many leaves are rated one by one, or per parent: an answer that cannot be parsed
\* gives every sibling zero and leaves them unrated.
NextRound ==
  /\ method = "beam" /\ thought.at = "search" /\ leaves = <<>>
  /\ fresh # <<>> /\ Len(finals) < BeamSize
  /\ IF Len(fresh) + Len(finals) > BeamSize
     THEN \E rewards \in [NodesOf(fresh) -> Reward], unparsed \in SUBSET {tree[n].parent : n \in NodesOf(fresh)} :
            /\ \A n \in NodesOf(fresh) : tree[n].parent \in unparsed => rewards[n] = 0
            /\ leaves' = Best(rewards)
            /\ tree' = [n \in DOMAIN tree |-> IF n \notin NodesOf(fresh) THEN tree[n]
                 ELSE [tree[n] EXCEPT !.value = rewards[n], !.rated = tree[n].parent \notin unparsed,
                         !.beam = IF n \in NodesOf(leaves') THEN "kept" ELSE "cut"]]
     ELSE leaves' = fresh /\ tree' = tree
  /\ fresh' = <<>>
  /\ UNCHANGED <<method, finals, node, thought>>

\* completeFromFinalLeaves; without a final leaf Generate fails.
BeamAnswers ==
  /\ method = "beam" /\ thought.at = "search" /\ leaves = <<>>
  /\ fresh = <<>> \/ Len(finals) >= BeamSize
  /\ thought' = [at |-> IF finals = <<>> THEN "no answer" ELSE "merge", answers |-> thought.answers + 1]
  /\ UNCHANGED <<method, tree, leaves, fresh, finals, node>>

-----------------------------------------------------------------------------
(* mctsReply *)

\* bestUCTChild: the first child without a visit, as its weight has epsilon below; else any.
Select ==
  /\ method = "mcts" /\ thought.at = "search"
  /\ IF ~IsTerminal(node) /\ Children(node) # {}
     THEN /\ node' \in LET new == {c \in Children(node) : tree[c].visits = 0}
                       IN IF new = {} THEN Children(node) ELSE {c \in new : \A d \in new : c <= d}
          /\ UNCHANGED thought
     ELSE thought' = [thought EXCEPT !.at = "rollout"] /\ UNCHANGED node
  /\ UNCHANGED <<method, tree, leaves, fresh, finals>>

Rollout ==
  /\ method = "mcts" /\ thought.at = "rollout" /\ ~IsTerminal(node)
  /\ Children(node) = {}
  /\ \/ /\ \E options \in Options \ {<<>>} :
             /\ tree' = Expanded(node, options)
             /\ node' \in (Len(tree) + 1)..(Len(tree) + Len(options))
     \/ /\ tree' = [tree EXCEPT ![node].terminate = TRUE] /\ UNCHANGED node
  /\ UNCHANGED <<method, leaves, fresh, finals, thought>>

\* Backpropagate: a moving average up to the root.
BackpropagateHere(nodes, n, reward) ==      \* mutant: the ancestors are forgotten
  [nodes EXCEPT ![n].visits = @ + 1, ![n].value = (@ * nodes[n].visits + reward) \div (nodes[n].visits + 1)]
Backpropagate(nodes, n, reward) ==
  [i \in DOMAIN nodes |-> IF i # n /\ i \notin nodes[n].above THEN nodes[i]
     ELSE [nodes[i] EXCEPT !.visits = @ + 1,
             !.value = (@ * nodes[i].visits + reward) \div (nodes[i].visits + 1)]]

AnswerNodes == {i \in DOMAIN tree : tree[i].kind = "answer"}

\* The answer is a child of the leaf and is rated; the reward goes to the leaf and above.
SimulationEnds ==
  /\ method = "mcts" /\ thought.at = "rollout" /\ IsTerminal(node)
  /\ \E reward \in Reward :
       tree' = Backpropagate(
         Append(tree, [ThinkNode(node, FALSE, "answer") EXCEPT !.value = reward, !.rated = TRUE]),
         node, reward)
  /\ node' = 1
  /\ thought' = IF Cardinality(AnswerNodes) + 1 < NSim THEN [thought EXCEPT !.at = "search"]
                ELSE [at |-> "merge", answers |-> thought.answers + 1]
  /\ UNCHANGED <<method, leaves, fresh, finals>>

-----------------------------------------------------------------------------
\* The next tree of the forest, or mergeForestAnswers.
NextTree ==
  /\ thought.at = "merge"
  /\ IF thought.answers < ForestSize
     THEN /\ tree' = <<Root>> /\ leaves' = <<1>> /\ fresh' = <<>> /\ finals' = <<>> /\ node' = 1
          /\ thought' = [thought EXCEPT !.at = "search"]
     ELSE /\ thought' = [thought EXCEPT !.at = "answered"]
          /\ UNCHANGED <<tree, leaves, fresh, finals, node>>
  /\ UNCHANGED method

\* Any of the calls to a model fails, and with it the request.
CallFails ==
  /\ thought.at \in {"search", "rollout", "merge"}
  /\ thought' = [thought EXCEPT !.at = "failed"]
  /\ UNCHANGED <<method, tree, leaves, fresh, finals, node>>

Next ==
  \/ AcceptFinal \/ ExpandLeaf \/ NextRound \/ BeamAnswers
  \/ Select \/ Rollout \/ SimulationEnds \/ NextTree \/ CallFails

Spec == Init /\ [][Next]_treeVars

-----------------------------------------------------------------------------
TypeOK ==
  /\ \A n \in DOMAIN tree : tree[n].parent \in 0..(n - 1) /\ tree[n].value \in 0..FullReward
  /\ NodesOf(leaves) \cup NodesOf(fresh) \cup NodesOf(finals) \cup {node} \subseteq DOMAIN tree

\* The beam never holds more than BeamSize thoughts, and nothing was cut in favour of
\* something worse; what MCTS goes by are the visits and the mean reward of the answers
\* below a node.
SearchKeepsScore ==
  /\ Len(leaves) + Len(finals) <= BeamSize
  /\ \A m, n \in DOMAIN tree :
       tree[m].beam = "kept" /\ tree[n].beam = "cut" /\ tree[m].depth = tree[n].depth
         /\ m \notin NodesOf(finals)
         => tree[m].value >= tree[n].value
  /\ method = "mcts" => \A n \in DOMAIN tree :
       LET below == {a \in AnswerNodes : n \in tree[a].above}
       IN /\ tree[n].visits = Cardinality(below)
          /\ tree[n].value * tree[n].visits
               = FullReward * Cardinality({a \in below : tree[a].value = FullReward})
=============================================================================
