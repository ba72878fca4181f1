-------------------------------- MODULE Draw --------------------------------
(***************************************************************************)
(* draw.c: the dump of a tree as a graph.  A node is printed with the      *)
(* number it gets from a counter that is handed down and back, and then    *)
(* each of its children with the line to it.  Labels are left out.         *)
(***************************************************************************)
EXTENDS Ast

(* What is printed, and the counter that comes back.  *)
Printed(count, nodes, edges) == [count |-> count, nodes |-> nodes, edges |-> edges]

(* MUTANT of AfterChild: the counter that came back is not kept  *)
AfterChild_Forgets(c, id, this_count, sub, later) ==
  LET rest == later[this_count] IN
  Printed(rest.count, <<c>> \o sub.nodes \o rest.nodes,
          sub.edges \o <<<<id, this_count>>>> \o rest.edges)

(* The loop of printGVNode for node number id, from the child c on: sub is *)
(* what the call prints below c, and later[k] what the iterations after it *)
(* print when count is k.                                                  *)
AfterChild(c, id, this_count, sub, later) ==
  LET rest == later[sub.count] IN
  Printed(rest.count, <<c>> \o sub.nodes \o rest.nodes,
          sub.edges \o <<<<id, this_count>>>> \o rest.edges)

PrintFrom[c \in Pointer] ==
  [id \in Nat |-> [count \in Nat |->
    IF c = NULL
    THEN Printed(count, << >>, << >>)
    ELSE AfterChild(c, id, count + 1,
                    PrintFrom[child[c]][count + 1][count + 1],
                    PrintFrom[right[c]][id])]]

(* printGVNode: n as number count, and the nodes below it.  *)
PrintNode(n, count) ==
  LET below == PrintFrom[child[n]][count][count] IN
  Printed(below.count, <<n>> \o below.nodes, below.edges)

DrawAst(root) == PrintNode(root, 0)

-----------------------------------------------------------------------------
(* Nodes are printed in the order of their numbers, one each, and a line   *)
(* leads to every one but the root, from the node that owns its row: the   *)
(* graph is the tree.                                                      *)
GraphOfTree(root, graph) ==
  LET at == graph.nodes
      lines == {graph.edges[i] : i \in DOMAIN graph.edges} IN
  /\ at[1] = root
  /\ \A i, j \in DOMAIN at : at[i] = at[j] => i = j
  /\ graph.count = Len(at) - 1
  /\ Len(graph.edges) = Len(at) - 1
  /\ lines = {line \in (0 .. Len(at) - 1) \X (1 .. Len(at) - 1) :
                at[line[1] + 1] = owner[leftmost[at[line[2] + 1]]]}
  /\ \A i \in DOMAIN at : child[at[i]] # NULL =>
       \A k \in DOMAIN row[child[at[i]]] : \E j \in DOMAIN at : at[j] = row[child[at[i]]][k]

(* ccmmc_draw_ast reads the links that ast.c has written: what it prints   *)
(* for a finished tree is that tree.                                       *)
DrawsTree ==
  pc = "parse" => \A root \in 1 .. made : GraphOfTree(root, DrawAst(root))
=============================================================================
