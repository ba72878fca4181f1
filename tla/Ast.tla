-------------------------------- MODULE Ast ---------------------------------
(***************************************************************************)
(* ast.c: the syntax tree as its four kinds of links, built bottom-up by   *)
(* the parser's actions (parser.y).  A semantic value is a node; a list is *)
(* passed by its last node.  Each iteration of a loop is a step.           *)
(*                                                                         *)
(* Nodes are numbered in the order of ccmmc_ast_new, NULL is 0.  What a    *)
(* node is (type_node and the union) is left out, and so are appends of    *)
(* NULL and to a parent that has children, which the parser never makes.   *)
(***************************************************************************)
EXTENDS Integers, Sequences

CONSTANTS
  MaxNodes,  \* nodes of a tree
  MaxArity   \* children given to append_children

ASSUME AstAssumption == MaxNodes \in Nat /\ MaxArity \in Nat

NULL == 0
Node == 1 .. MaxNodes
Pointer == Node \cup {NULL}

VARIABLES
  parent, child, leftmost, right,  \* the links
  made,     \* the nodes there are: 1 .. made
  values,   \* the semantic values that no rule has used
  pc,       \* see TypeOK
  node, sibling,  \* the variables of the loops
  args,     \* the children that append_children has still to append
  result,   \* the parent they get, NULL for append_sibling alone
  row,      \* history: the siblings in order, filed under the first
  owner     \* history: the parent of a row, NULL for a list

links == <<parent, child, leftmost, right>>
history == <<row, owner>>
call == <<node, sibling, args, result>>
vars == <<links, made, values, pc, call, history>>

Nothing == [n \in Node |-> NULL]

Init ==
  /\ parent = Nothing /\ child = Nothing /\ leftmost = Nothing /\ right = Nothing
  /\ made = 0
  /\ values = {}
  /\ pc = "parse"
  /\ node = NULL /\ sibling = NULL /\ args = << >> /\ result = NULL
  /\ row = [n \in Node |-> << >>]
  /\ owner = Nothing

-----------------------------------------------------------------------------
(* ccmmc_ast_new and the functions that call it: leftmost_sibling is the   *)
(* node itself, the other links are NULL.                                  *)
New ==
  /\ pc = "parse" /\ made < MaxNodes
  /\ made' = made + 1
  /\ leftmost' = [leftmost EXCEPT ![made + 1] = made + 1]
  /\ row' = [row EXCEPT ![made + 1] = <<made + 1>>]
  /\ values' = values \cup {made + 1}
  /\ UNCHANGED <<parent, child, right, pc, call, owner>>

Single(v) == leftmost[v] = v

(* $$ = ccmmc_ast_append_sibling($1, $2) *)
Join(list, item) ==
  /\ pc = "parse" /\ list # item /\ Single(item)
  /\ values' = values \ {list, item}
  /\ node' = list
  /\ args' = <<item>>
  /\ result' = NULL
  /\ pc' = "next"
  /\ UNCHANGED <<links, made, sibling, history>>

(* ccmmc_ast_append_children: only the last of the children may be a list. *)
(* The first one is given to append_child.                                 *)
Adopt(p, children) ==
  LET first == leftmost[children[1]] IN
  /\ pc = "parse" /\ Single(p) /\ child[p] = NULL
  /\ \A i, j \in DOMAIN children : children[i] = children[j] => i = j
  /\ \A i \in 1 .. Len(children) - 1 : Single(children[i])
  /\ values' = values \ ({p} \cup {children[i] : i \in DOMAIN children})
  /\ node' = children[1]
  /\ sibling' = first
  /\ args' = Tail(children)
  /\ result' = p
  /\ child' = [child EXCEPT ![p] = first]
  /\ owner' = [owner EXCEPT ![first] = p]
  /\ pc' = "adopt"
  /\ UNCHANGED <<parent, leftmost, right, made, row>>

(* The loop of append_child.  *)
SetParent ==
  /\ pc = "adopt"
  /\ IF sibling # NULL
     THEN /\ parent' = [parent EXCEPT ![sibling] = result]
          /\ sibling' = right[sibling]
          /\ UNCHANGED pc
     ELSE pc' = "next" /\ UNCHANGED <<parent, sibling>>
  /\ UNCHANGED <<child, leftmost, right, made, values, node, args, result, history>>

(* The loop of append_children, and the value it leaves behind.  *)
NextArg ==
  /\ pc = "next"
  /\ IF args # << >>
     THEN /\ sibling' = Head(args)
          /\ args' = Tail(args)
          /\ pc' = "walk"
          /\ UNCHANGED values
     ELSE /\ values' = values \cup {IF result = NULL THEN node ELSE result}
          /\ pc' = "parse"
          /\ UNCHANGED <<sibling, args>>
  /\ UNCHANGED <<links, made, node, result, history>>

(* append_sibling: to the last sibling, then link the two rows.  *)
Walk ==
  LET first == leftmost[sibling] IN
  /\ pc = "walk"
  /\ IF right[node] # NULL
     THEN /\ node' = right[node]
          /\ UNCHANGED <<leftmost, right, parent, sibling, row, pc>>
     ELSE /\ right' = [right EXCEPT ![node] = first]
          /\ leftmost' = [leftmost EXCEPT ![first] = leftmost[node]]
          /\ parent' = [parent EXCEPT ![first] = parent[node]]
          /\ sibling' = first
          /\ row' = [row EXCEPT ![leftmost[node]] = @ \o row[first], ![first] = << >>]
          /\ pc' = "fix"
          /\ UNCHANGED node
  /\ UNCHANGED <<child, made, values, args, result, owner>>

(* MUTANT of Fix: only the first node of the second row gets its parent *)
Fix_NoParent ==
  /\ pc = "fix"
  /\ IF right[sibling] # NULL
     THEN /\ sibling' = right[sibling]
          /\ leftmost' = [leftmost EXCEPT ![right[sibling]] = leftmost[node]]
          /\ UNCHANGED <<pc, node>>
     ELSE /\ node' = sibling
          /\ pc' = "next"
          /\ UNCHANGED <<leftmost, sibling>>
  /\ UNCHANGED <<parent, child, right, made, values, args, result, history>>

(* MUTANT of Fix: what is returned is the end of the first row *)
Fix_ReturnsNode ==
  /\ pc = "fix"
  /\ IF right[sibling] # NULL
     THEN /\ sibling' = right[sibling]
          /\ leftmost' = [leftmost EXCEPT ![right[sibling]] = leftmost[node]]
          /\ parent' = [parent EXCEPT ![right[sibling]] = parent[node]]
          /\ UNCHANGED pc
     ELSE pc' = "next" /\ UNCHANGED <<leftmost, parent, sibling>>
  /\ UNCHANGED <<node, child, right, made, values, args, result, history>>

(* MUTANT of Fix: the loop does not move on *)
Fix_Stays ==
  /\ pc = "fix"
  /\ IF right[sibling] # NULL
     THEN /\ leftmost' = [leftmost EXCEPT ![right[sibling]] = leftmost[node]]
          /\ parent' = [parent EXCEPT ![right[sibling]] = parent[node]]
          /\ UNCHANGED <<pc, node, sibling>>
     ELSE /\ node' = sibling
          /\ pc' = "next"
          /\ UNCHANGED <<leftmost, parent, sibling>>
  /\ UNCHANGED <<child, right, made, values, args, result, history>>

(* append_sibling: the nodes of the second row get the links of the first. *)
Fix ==
  /\ pc = "fix"
  /\ IF right[sibling] # NULL
     THEN /\ sibling' = right[sibling]
          /\ leftmost' = [leftmost EXCEPT ![right[sibling]] = leftmost[node]]
          /\ parent' = [parent EXCEPT ![right[sibling]] = parent[node]]
          /\ UNCHANGED <<pc, node>>
     ELSE /\ node' = sibling
          /\ pc' = "next"
          /\ UNCHANGED <<leftmost, parent, sibling>>
  /\ UNCHANGED <<child, right, made, values, args, result, history>>

Parse ==
  \/ New
  \/ \E list, item \in values : Join(list, item)
  \/ \E p \in values, n \in 1 .. MaxArity :
       \E children \in [1 .. n -> values \ {p}] : Adopt(p, children)

Reduce == SetParent \/ NextArg \/ Walk \/ Fix

(* The whole program is read.  *)
Parsed == pc = "parse" /\ made = MaxNodes /\ UNCHANGED vars

Next == Parse \/ Reduce \/ Parsed

(* The parser is sequential code: a call that can go on does.  *)
Spec == Init /\ [][Next]_vars /\ WF_vars(Reduce)

-----------------------------------------------------------------------------
TypeOK ==
  /\ parent \in [Node -> Pointer] /\ child \in [Node -> Pointer]
  /\ leftmost \in [Node -> Pointer] /\ right \in [Node -> Pointer]
  /\ made \in 0 .. MaxNodes
  /\ values \subseteq 1 .. made
  /\ pc \in {"parse", "adopt", "next", "walk", "fix"}
  /\ node \in Pointer /\ sibling \in Pointer /\ result \in Pointer
  /\ args \in Seq(Node)
  /\ row \in [Node -> Seq(Node)]
  /\ owner \in [Node -> Pointer]

(* The links of one row: right leads through it, everyone knows its first  *)
(* node and its owner, and the owner knows the first node.                 *)
Linked(h) ==
  /\ row[h][1] = h
  /\ \A i \in DOMAIN row[h] :
       /\ leftmost[row[h][i]] = h
       /\ parent[row[h][i]] = owner[h]
       /\ right[row[h][i]] = IF i < Len(row[h]) THEN row[h][i + 1] ELSE NULL
  /\ owner[h] # NULL => child[owner[h]] = h

(* ast.c, and everything that reads the tree (semantic-analysis.c:863-868, *)
(* code-generation.c:1286): between two calls the links are those of the   *)
(* rows in the order they were appended, and no node is without a row.     *)
Represents ==
  pc = "parse" =>
    /\ \A h \in 1 .. made : row[h] # << >> => Linked(h)
    /\ \A n \in 1 .. made : \E i \in DOMAIN row[leftmost[n]] : row[leftmost[n]][i] = n
    /\ \A p \in 1 .. made : child[p] # NULL => owner[child[p]] = p

(* parser.y: a value is the last node of a list that has no parent, and no *)
(* two values are in one list.                                             *)
ValuesAreLists ==
  /\ \A v \in values : right[v] = NULL /\ parent[v] = NULL
  /\ \A v, w \in values : leftmost[v] = leftmost[w] => v = w

(* The loops of ast.c end.  *)
ReductionsEnd == (pc # "parse") ~> (pc = "parse")
=============================================================================
