----------------------------- MODULE AstProofs ------------------------------
(***************************************************************************)
(* The links of ast.c represent the rows, and what draw.c prints of a tree *)
(* is the tree, for trees of every size.                                   *)
(*                                                                         *)
(* The inductive invariant says what holds inside the loops.  The right    *)
(* links are those of the rows at every step, since append_sibling joins   *)
(* two rows in one assignment; what lags behind are the leftmost and       *)
(* parent links of one row, the one node is in, behind a cursor k.         *)
(***************************************************************************)
EXTENDS Draw, Induction

Made == 1 .. made
Last(s) == s[Len(s)]

(* Row h starts at h, and right leads through it.  *)
Chained(h) ==
  /\ row[h][1] = h
  /\ \A i \in DOMAIN row[h] :
       /\ row[h][i] \in Made
       /\ right[row[h][i]] = IF i < Len(row[h]) THEN row[h][i + 1] ELSE NULL

Marked(h, i) == leftmost[row[h][i]] = h /\ parent[row[h][i]] = owner[h]

(* The row that a loop is changing.  *)
Changing(h) == pc \in {"adopt", "fix"} /\ h = leftmost[node]

RowsInv ==
  /\ \A h \in Node : row[h] # << >> => h \in Made /\ Chained(h)
  /\ \A h \in Node : row[h] # << >> /\ ~ Changing(h) =>
       \A i \in DOMAIN row[h] : Marked(h, i)
  /\ \A n \in Node \ Made : parent[n] = NULL /\ right[n] = NULL

OwnersInv ==
  /\ \A h \in Node : owner[h] # NULL =>
       row[h] # << >> /\ owner[h] \in Made /\ child[owner[h]] = h
  /\ \A p \in Node : child[p] # NULL =>
       p \in Made /\ row[child[p]] # << >> /\ owner[child[p]] = p

CompleteInv ==
  \A n \in Made : \E h \in Made : \E i \in DOMAIN row[h] : row[h][i] = n

(* v ends its row, which is filed under leftmost[v].  *)
EndsRow(v) ==
  /\ v \in Made /\ leftmost[v] \in Made
  /\ row[leftmost[v]] # << >>
  /\ v = Last(row[leftmost[v]])

Busy == pc # "parse"
Waiting == {args[i] : i \in DOMAIN args}
Parent == IF result = NULL THEN {} ELSE {result}
Taken == IF pc = "walk" THEN {sibling} ELSE {}

(* The lists without a parent that the parser or a call still holds.  *)
Free == values \cup (IF Busy THEN Waiting \cup Parent \cup Taken ELSE {})

FreeInv ==
  /\ \A v \in Free : EndsRow(v) /\ owner[leftmost[v]] = NULL
  /\ \A v, w \in Free : leftmost[v] = leftmost[w] => v = w

(* Nobody holds a node twice.  *)
HeldOnce ==
  Busy =>
    /\ \A i, j \in DOMAIN args : args[i] = args[j] => i = j
    /\ Waiting \cap (values \cup Parent \cup Taken) = {}
    /\ Parent \cap (values \cup Taken) = {}
    /\ Taken \cap values = {}

(* The cursor of a loop over row h is at k.  *)
AdoptAt(h, k) ==
  /\ k \in 1 .. Len(row[h]) + 1
  /\ sibling = IF k <= Len(row[h]) THEN row[h][k] ELSE NULL
  /\ result # NULL
  /\ \A i \in DOMAIN row[h] : leftmost[row[h][i]] = h
  /\ \A i \in 1 .. k - 1 : parent[row[h][i]] = result

FixAt(h, k) ==
  /\ k \in DOMAIN row[h]
  /\ sibling = row[h][k]
  /\ \E j \in 1 .. k : node = row[h][j]
  /\ \A i \in 1 .. k : Marked(h, i)
  /\ \A i \in k + 1 .. Len(row[h]) :
       leftmost[row[h][i]] = h \/ row[leftmost[row[h][i]]] = << >>

CallInv ==
  Busy =>
    LET h == leftmost[node] IN
    /\ node \in Made /\ h \in Made /\ row[h] # << >>
    /\ owner[h] = result
    /\ \A v \in Free : leftmost[v] # h
    /\ pc \in {"adopt", "next", "walk"} => EndsRow(node)
    /\ pc = "adopt" => \E k \in 1 .. Len(row[h]) + 1 : AdoptAt(h, k)
    /\ pc = "fix" => \E k \in DOMAIN row[h] : FixAt(h, k)

IInv ==
  TypeOK /\ RowsInv /\ OwnersInv /\ CompleteInv /\ FreeInv /\ HeldOnce /\ CallInv
-----------------------------------------------------------------------------
(* What the invariant says of the nodes of a row.  *)

LEMMA MadeNodes == TypeOK => Made \subseteq Node /\ NULL \notin Node
BY AstAssumption DEF TypeOK, Made, Node, NULL

(* The nodes of a row, and the first of them.  *)
LEMMA InRow ==
  ASSUME TypeOK, RowsInv, NEW h \in Node, row[h] # << >>
  PROVE  /\ h \in Made /\ row[h] \in Seq(Node) /\ Len(row[h]) \in Nat
         /\ 1 \in DOMAIN row[h] /\ Len(row[h]) \in DOMAIN row[h] /\ row[h][1] = h
         /\ DOMAIN row[h] = 1 .. Len(row[h])
         /\ \A i \in DOMAIN row[h] :
              /\ row[h][i] \in Made /\ row[h][i] \in Node
              /\ right[row[h][i]] = IF i < Len(row[h]) THEN row[h][i + 1] ELSE NULL
              /\ ~ Changing(h) => leftmost[row[h][i]] = h /\ parent[row[h][i]] = owner[h]
         /\ ~ Changing(h) => leftmost[h] = h
<1>1. row[h] \in Seq(Node)
  BY DEF TypeOK
<1>2. /\ DOMAIN row[h] = 1 .. Len(row[h]) /\ Len(row[h]) \in Nat
      /\ 1 \in DOMAIN row[h] /\ Len(row[h]) \in DOMAIN row[h]
  BY <1>1
<1>3. h \in Made /\ Chained(h)
  BY DEF RowsInv
<1>4. ~ Changing(h) => \A i \in DOMAIN row[h] : leftmost[row[h][i]] = h /\ parent[row[h][i]] = owner[h]
  BY DEF RowsInv, Marked
<1>5. QED
  BY <1>1, <1>2, <1>3, <1>4, MadeNodes DEF Chained

(* A node that ends its row has no right sibling, and a list no parent.    *)
LEMMA RowEnds ==
  ASSUME TypeOK, RowsInv, NEW v, EndsRow(v)
  PROVE  /\ v \in Node /\ leftmost[v] \in Node /\ row[leftmost[v]] # << >>
         /\ right[v] = NULL
         /\ ~ Changing(leftmost[v]) => parent[v] = owner[leftmost[v]]
<1> DEFINE h == leftmost[v]
<1>1. h \in Node /\ v \in Node /\ row[h] # << >> /\ v = row[h][Len(row[h])]
  BY MadeNodes DEF EndsRow, Last
<1>2. QED
  BY <1>1, InRow

LEMMA InitInv == Init => IInv
<1> SUFFICES ASSUME Init PROVE IInv
  OBVIOUS
<1>1. TypeOK
  BY AstAssumption DEF Init, TypeOK, Nothing, Pointer, NULL
<1>2. RowsInv /\ OwnersInv
  BY DEF Init, RowsInv, OwnersInv, Nothing, Made, NULL, Node
<1>3. CompleteInv /\ FreeInv /\ HeldOnce /\ CallInv
  BY DEF Init, CompleteInv, FreeInv, HeldOnce, CallInv, Made, Free, Busy
<1> QED BY <1>1, <1>2, <1>3 DEF IInv

-----------------------------------------------------------------------------
(* Every step keeps the types.  *)
LEMMA StepType ==
  ASSUME TypeOK, RowsInv, FreeInv, CallInv, Next PROVE TypeOK'
<1> USE AstAssumption DEF TypeOK
<1>0. Made \subseteq Node /\ Made = 1 .. made /\ values \subseteq Node /\ NULL \in Pointer
      /\ Node \subseteq Pointer
  BY MadeNodes DEF Made, Node, Pointer
<1>1. CASE New
  <2>1. made + 1 \in Node /\ made + 1 \in 0 .. MaxNodes
    BY <1>1 DEF New, Node
  <2>2. values' \subseteq 1 .. made'
    BY <1>1, <2>1 DEF New
  <2>3. QED
    BY <1>0, <1>1, <2>1, <2>2 DEF New, call
<1>2. ASSUME NEW list \in values, NEW item \in values, Join(list, item) PROVE TypeOK'
  BY <1>0, <1>2, SMTT(30) DEF Join, links, history
<1>3. ASSUME NEW p \in values, NEW n \in 1 .. MaxArity, NEW children \in [1 .. n -> values \ {p}],
             Adopt(p, children)
      PROVE TypeOK'
  <2>0. n \in Nat /\ 1 \in 1 .. n /\ children \in [1 .. n -> values] /\ children \in [1 .. n -> Node]
    <3>1. n \in Nat /\ 1 \in 1 .. n
      OBVIOUS
    <3>2. children \in [1 .. n -> values]
      OBVIOUS
    <3>3. children \in [1 .. n -> Node]
      BY <1>0, <3>2
    <3>4. QED
      BY <3>1, <3>2, <3>3
  <2>1. children \in Seq(Node) /\ children[1] \in values /\ children # << >>
    <3>1. children \in Seq(Node)
      BY <2>0
    <3>2. children[1] \in values
      BY <2>0
    <3>3. Len(children) = n
      BY <2>0
    <3>4. QED
      BY <2>0, <3>1, <3>2, <3>3
  <2>2. Tail(children) \in Seq(Node)
    BY <2>1
  <2>3. leftmost[children[1]] \in Node
    BY <2>1, MadeNodes DEF FreeInv, Free, EndsRow
  <2>4. QED
    BY <1>0, <1>3, <2>1, <2>2, <2>3 DEF Adopt
<1>4. CASE SetParent
  <2>1. CASE sibling # NULL
    <3>1. sibling \in Node /\ right[sibling] \in Pointer
      BY <2>1 DEF Pointer
    <3>2. QED
      BY <1>0, <1>4, <2>1, <3>1 DEF SetParent, history
  <2>2. CASE sibling = NULL
    BY <1>0, <1>4, <2>2 DEF SetParent, history
  <2>3. QED
    BY <2>1, <2>2
<1>5. CASE NextArg
  <2>1. CASE args # << >>
    <3>1. Head(args) \in Node /\ Tail(args) \in Seq(Node)
      BY <2>1
    <3>2. QED
      BY <1>0, <1>5, <2>1, <3>1 DEF NextArg, links, history
  <2>2. CASE args = << >>
    <3>1. result = NULL \/ result \in Made
      BY <1>5 DEF NextArg, CallInv, Busy, FreeInv, Free, Parent, EndsRow
    <3>2. node \in Made
      BY <1>5 DEF NextArg, CallInv, Busy
    <3>3. QED
      BY <1>0, <1>5, <2>2, <3>1, <3>2 DEF NextArg, links, history
  <2>3. QED
    BY <2>1, <2>2
<1>6. CASE Walk
  <2>1. EndsRow(node) /\ EndsRow(sibling)
    BY <1>6 DEF Walk, CallInv, FreeInv, Free, Busy, Taken
  <2>2. /\ node \in Node /\ leftmost[node] \in Node
        /\ sibling \in Node /\ leftmost[sibling] \in Node
        /\ right[node] = NULL
    BY <2>1, RowEnds
  <2>3. row[leftmost[node]] \o row[leftmost[sibling]] \in Seq(Node)
    BY <2>2
  <2>4. row' \in [Node -> Seq(Node)]
    <3>1. row' = [row EXCEPT ![leftmost[node]] = row[leftmost[node]] \o row[leftmost[sibling]],
                             ![leftmost[sibling]] = << >>]
      BY <1>6, <2>2 DEF Walk
    <3>2. << >> \in Seq(Node)
      OBVIOUS
    <3>3. QED
      BY <2>2, <2>3, <3>1, <3>2
  <2>5. leftmost' \in [Node -> Pointer] /\ right' \in [Node -> Pointer] /\ parent' \in [Node -> Pointer]
    BY <1>0, <1>6, <2>2 DEF Walk
  <2>6. /\ node' = node /\ sibling' = leftmost[sibling] /\ pc' = "fix"
        /\ UNCHANGED <<child, made, values, args, result, owner>>
    BY <1>6, <2>2 DEF Walk
  <2>7. QED
    BY <1>0, <2>2, <2>4, <2>5, <2>6
<1>7. CASE Fix
  <2>1. node \in Node /\ sibling \in Node
    <3>1. node \in Node /\ leftmost[node] \in Node /\ row[leftmost[node]] # << >>
      BY <1>0, <1>7 DEF Fix, CallInv, Busy
    <3>2. PICK k \in DOMAIN row[leftmost[node]] : FixAt(leftmost[node], k)
      BY <1>7 DEF Fix, CallInv, Busy
    <3>3. QED
      BY <3>1, <3>2, InRow DEF FixAt
  <2>2. CASE right[sibling] # NULL
    <3>1. right[sibling] \in Node /\ leftmost[node] \in Pointer /\ parent[node] \in Pointer
      BY <2>1, <2>2 DEF Pointer
    <3>2. QED
      BY <1>0, <1>7, <2>2, <3>1 DEF Fix, history
  <2>3. CASE right[sibling] = NULL
    BY <1>0, <1>7, <2>1, <2>3 DEF Fix, history
  <2>4. QED
    BY <2>2, <2>3
<1>8. CASE Parsed
  BY <1>8 DEF Parsed, vars, links, call, history
<1>9. QED
  BY <1>1, <1>2, <1>3, <1>4, <1>5, <1>6, <1>7, <1>8 DEF Next, Parse, Reduce

-----------------------------------------------------------------------------
(* One lemma for every action: the rest of the invariant.  *)
Linkage == RowsInv /\ OwnersInv /\ CompleteInv /\ FreeInv /\ HeldOnce /\ CallInv

LEMMA NewInv == ASSUME IInv, TypeOK', New PROVE Linkage'
<1> PICK n : n = made + 1
  OBVIOUS
<1>0. /\ n \in Node /\ n \notin Made /\ Made' = Made \cup {n} /\ Made \subseteq Node
      /\ NULL \notin Node /\ pc = "parse" /\ pc' = "parse"
  BY AstAssumption, MadeNodes DEF IInv, TypeOK, New, Made, Node, NULL
<1> USE DEF IInv
<1>1. /\ \A m \in Node \ {n} : leftmost'[m] = leftmost[m] /\ row'[m] = row[m]
      /\ leftmost'[n] = n /\ row'[n] = <<n>> /\ row'[n] # << >>
      /\ UNCHANGED <<parent, child, right, owner>>
  BY <1>0 DEF New, TypeOK
<1>2. row[n] = << >> /\ owner[n] = NULL /\ child[n] = NULL /\ parent[n] = NULL /\ right[n] = NULL
  BY <1>0 DEF RowsInv, OwnersInv
<1>3. ASSUME NEW h \in Node, row'[h] # << >>
      PROVE  h \in Made' /\ Chained(h)' /\ \A i \in DOMAIN row'[h] : Marked(h, i)'
  <2>1. CASE h = n
    BY <1>0, <1>1, <1>2, <2>1 DEF Chained, Marked
  <2>2. CASE h # n
    <3>1. row'[h] = row[h] /\ row[h] # << >>
      BY <1>1, <1>3, <2>2
    <3>2. \A i \in DOMAIN row[h] : row[h][i] \in Made /\ row[h][i] # n
      BY <1>0, <3>1, InRow
    <3>3. ~ Changing(h)
      BY <1>0 DEF Changing
    <3>4. QED
      BY <1>0, <1>1, <3>1, <3>2, <3>3, InRow DEF Chained, Marked
  <2>3. QED
    BY <2>1, <2>2
<1>4. RowsInv'
  BY <1>0, <1>1, <1>3 DEF RowsInv
<1>5. OwnersInv'
  <2>1. ASSUME NEW h \in Node, owner[h] # NULL
        PROVE row'[h] # << >> /\ owner[h] \in Made' /\ child[owner[h]] = h
    BY <1>0, <1>1, <1>2, <2>1 DEF OwnersInv
  <2>2. ASSUME NEW p \in Node, child[p] # NULL
        PROVE p \in Made' /\ row'[child[p]] # << >> /\ owner[child[p]] = p
    <3>1. p \in Made /\ owner[child[p]] = p /\ row[child[p]] # << >>
      BY <2>2 DEF OwnersInv
    <3>2. child[p] \in Node /\ child[p] # n
      BY <1>0, <1>2, <2>2, <3>1 DEF TypeOK, Pointer
    <3>3. QED
      BY <1>0, <1>1, <3>1, <3>2
  <2>3. QED
    BY <1>1, <2>1, <2>2 DEF OwnersInv
<1>6. CompleteInv'
  <2>1. ASSUME NEW m \in Made PROVE \E h \in Made' : \E i \in DOMAIN row'[h] : row'[h][i] = m
    <3>1. PICK h \in Made : \E i \in DOMAIN row[h] : row[h][i] = m
      BY DEF CompleteInv
    <3>2. row'[h] = row[h]
      BY <1>0, <1>1
    <3>3. h \in Made'
      BY <1>0
    <3>4. QED
      BY <3>1, <3>2, <3>3
  <2>2. n \in Made' /\ 1 \in DOMAIN row'[n] /\ row'[n][1] = n
    BY <1>0, <1>1
  <2>3. \E h \in Made' : \E i \in DOMAIN row'[h] : row'[h][i] = n
    BY <2>2
  <2>4. \A m \in Made' : \E h \in Made' : \E i \in DOMAIN row'[h] : row'[h][i] = m
    BY <1>0, <2>1, <2>3
  <2>5. QED
    BY <2>4 DEF CompleteInv
<1>7. FreeInv' /\ HeldOnce' /\ CallInv'
  <2>1. Free = values /\ Free' = values \cup {n}
    BY <1>0 DEF New, Free, Busy
  <2>2. EndsRow(n)' /\ owner'[leftmost'[n]] = NULL
    BY <1>0, <1>1, <1>2 DEF EndsRow, Last
  <2>3. ASSUME NEW v \in values
        PROVE EndsRow(v)' /\ owner'[leftmost'[v]] = NULL /\ leftmost'[v] = leftmost[v] /\ leftmost[v] # n
    <3>1. EndsRow(v) /\ owner[leftmost[v]] = NULL
      BY <2>1 DEF FreeInv
    <3>2. v \in Made /\ leftmost[v] \in Made
      BY <3>1 DEF EndsRow
    <3>3. leftmost'[v] = leftmost[v] /\ row'[leftmost[v]] = row[leftmost[v]]
      BY <1>0, <1>1, <3>2
    <3>4. QED
      BY <1>0, <1>1, <3>1, <3>2, <3>3 DEF EndsRow, Last
  <2>4. QED
    BY <1>0, <1>1, <2>1, <2>2, <2>3 DEF FreeInv, HeldOnce, CallInv, Busy
<1>8. QED
  BY <1>4, <1>5, <1>6, <1>7 DEF Linkage

LEMMA JoinInv ==
  ASSUME IInv, TypeOK', NEW list \in values, NEW item \in values, Join(list, item) PROVE Linkage'
<1> USE DEF IInv
<1>1. /\ UNCHANGED <<links, made, history>> /\ pc = "parse" /\ pc' = "next"
      /\ node' = list /\ args' = <<item>> /\ result' = NULL /\ values' = values \ {list, item}
      /\ list # item
  BY DEF Join
<1>2. UNCHANGED <<parent, child, leftmost, right, row, owner, Made>>
  BY <1>1 DEF links, history, Made
<1>3. \A h : ~ Changing(h) /\ ~ Changing(h)'
  BY <1>1 DEF Changing
<1>4. RowsInv' /\ OwnersInv' /\ CompleteInv'
  BY <1>2, <1>3 DEF RowsInv, OwnersInv, CompleteInv, Chained, Marked
<1>5. Waiting' = {item} /\ Parent' = {} /\ Taken' = {} /\ Busy'
  BY <1>1 DEF Waiting, Parent, Taken, Busy
<1>6. Free = values /\ Free' = values \ {list}
  BY <1>1, <1>5 DEF Free, Busy
<1>7. \A v : EndsRow(v)' = EndsRow(v)
  BY <1>2 DEF EndsRow, Last
<1>8. FreeInv'
  BY <1>2, <1>6, <1>7 DEF FreeInv
<1>9. HeldOnce'
  BY <1>1, <1>5 DEF HeldOnce
<1>10. CallInv'
  <2>1. EndsRow(list) /\ owner[leftmost[list]] = NULL /\ \A v \in values \ {list} : leftmost[v] # leftmost[list]
    BY <1>6 DEF FreeInv
  <2>2. QED
    BY <1>1, <1>2, <1>6, <1>7, <2>1 DEF CallInv, EndsRow
<1>11. QED
  BY <1>4, <1>8, <1>9, <1>10 DEF Linkage

LEMMA AdoptInv ==
  ASSUME IInv, TypeOK', NEW p \in values, NEW n \in 1 .. MaxArity,
         NEW children \in [1 .. n -> values \ {p}], Adopt(p, children)
  PROVE  Linkage'
<1> USE DEF IInv
<1> PICK first : first = leftmost[children[1]]
  OBVIOUS
<1>0. /\ n \in Nat /\ 1 \in 1 .. n /\ DOMAIN children = 1 .. n /\ Len(children) = n
      /\ \A i \in 1 .. n : children[i] \in values /\ children[i] # p
      /\ \A i, j \in 1 .. n : children[i] = children[j] => i = j
  BY AstAssumption DEF Adopt
<1>1. /\ UNCHANGED <<parent, leftmost, right, made, row>> /\ pc = "parse" /\ pc' = "adopt"
      /\ node' = children[1] /\ sibling' = first /\ args' = Tail(children) /\ result' = p
      /\ child' = [child EXCEPT ![p] = first] /\ owner' = [owner EXCEPT ![first] = p]
      /\ child[p] = NULL
      /\ values' = values \ ({p} \cup {children[i] : i \in DOMAIN children})
  BY DEF Adopt
<1>2. Free = values /\ Made' = Made /\ Made \subseteq Node /\ NULL \notin Node
  BY <1>1, MadeNodes DEF Free, Busy, Made
<1>3. \A v \in values : /\ EndsRow(v) /\ owner[leftmost[v]] = NULL /\ v \in Node
                        /\ leftmost[v] \in Node /\ row[leftmost[v]] # << >>
  BY <1>2, RowEnds DEF FreeInv
<1>4. /\ p \in Node /\ p \in Made /\ p # NULL /\ first \in Node /\ first \in Made /\ row[first] # << >>
      /\ owner[first] = NULL /\ EndsRow(children[1])
  BY <1>0, <1>2, <1>3 DEF EndsRow
<1>5. /\ child'[p] = first /\ owner'[first] = p
      /\ \A q \in Node \ {p} : child'[q] = child[q]
      /\ \A h \in Node \ {first} : owner'[h] = owner[h]
  BY <1>1, <1>4 DEF TypeOK
<1>6. \A h : ~ Changing(h) /\ (Changing(h)' => h = first)
  BY <1>1 DEF Changing
<1>7. RowsInv'
  <2>1. \A h \in Node : row'[h] # << >> => h \in Made' /\ Chained(h)'
    BY <1>1, <1>2 DEF RowsInv, Chained
  <2>2. ASSUME NEW h \in Node, row[h] # << >>, ~ Changing(h)'
        PROVE  \A i \in DOMAIN row'[h] : Marked(h, i)'
    <3>1. h # first
      BY <1>0, <1>1, <2>2 DEF Changing
    <3>2. QED
      BY <1>1, <1>5, <1>6, <2>2, <3>1 DEF RowsInv, Marked
  <2>3. QED
    BY <1>1, <1>2, <2>1, <2>2 DEF RowsInv
<1>8. OwnersInv'
  <2>1. ASSUME NEW h \in Node, owner'[h] # NULL
        PROVE  row'[h] # << >> /\ owner'[h] \in Made' /\ child'[owner'[h]] = h
    <3>1. CASE h = first
      BY <1>1, <1>2, <1>4, <1>5, <3>1
    <3>2. CASE h # first
      <4>1. owner'[h] = owner[h] /\ row[h] # << >> /\ owner[h] \in Made /\ child[owner[h]] = h
        BY <1>5, <2>1, <3>2 DEF OwnersInv
      <4>2. owner[h] # p
        BY <1>1, <1>2, <4>1
      <4>3. QED
        BY <1>1, <1>2, <1>5, <4>1, <4>2
    <3>3. QED
      BY <3>1, <3>2
  <2>2. ASSUME NEW q \in Node, child'[q] # NULL
        PROVE  q \in Made' /\ row'[child'[q]] # << >> /\ owner'[child'[q]] = q
    <3>1. CASE q = p
      BY <1>1, <1>2, <1>4, <1>5, <3>1
    <3>2. CASE q # p
      <4>1. child'[q] = child[q] /\ q \in Made /\ row[child[q]] # << >> /\ owner[child[q]] = q
        BY <1>5, <2>2, <3>2 DEF OwnersInv
      <4>2. child[q] \in Node /\ child[q] # first
        BY <1>2, <1>4, <2>2, <4>1 DEF TypeOK, Pointer
      <4>3. QED
        BY <1>1, <1>2, <1>5, <4>1, <4>2
    <3>3. QED
      BY <3>1, <3>2
  <2>3. QED
    BY <2>1, <2>2 DEF OwnersInv
<1>9. CompleteInv'
  BY <1>1, <1>2 DEF CompleteInv
<1>10. /\ Busy' /\ Taken' = {} /\ Parent' = {p}
       /\ \A v \in Waiting' : \E i \in 2 .. n : v = children[i]
  <2>1. DOMAIN args' = 1 .. n - 1 /\ \A i \in 1 .. n - 1 : args'[i] = children[i + 1]
    BY <1>0, <1>1
  <2>2. \A i \in DOMAIN args' : \E j \in 2 .. n : args'[i] = children[j]
    BY <1>0, <2>1
  <2>3. \A v \in Waiting' : \E i \in 2 .. n : v = children[i]
    BY <2>2 DEF Waiting
  <2>4. QED
    BY <1>1, <1>4, <2>3 DEF Busy, Taken, Parent
<1>11. Free' \subseteq values /\ children[1] \notin Free'
  <2>1. Free' = values' \cup Waiting' \cup {p}
    BY <1>10 DEF Free
  <2>2. \A v \in Waiting' : v \in values /\ v # children[1]
    BY <1>0, <1>10
  <2>3. values' \subseteq values /\ children[1] \notin values'
    BY <1>0, <1>1
  <2>4. QED
    BY <1>0, <2>1, <2>2, <2>3
<1>12. \A v \in Free' : leftmost[v] # first
  BY <1>0, <1>2, <1>11 DEF FreeInv
<1>13. FreeInv'
  <2>1. \A v \in Free' : EndsRow(v)' /\ owner'[leftmost'[v]] = NULL
    BY <1>1, <1>2, <1>3, <1>5, <1>11, <1>12 DEF EndsRow, Last
  <2>2. \A v, w \in Free' : leftmost'[v] = leftmost'[w] => v = w
    BY <1>1, <1>2, <1>11 DEF FreeInv
  <2>3. QED
    BY <2>1, <2>2 DEF FreeInv
<1>14. HeldOnce'
  <2>1. \A i, j \in DOMAIN args' : args'[i] = args'[j] => i = j
    <3>1. DOMAIN args' = 1 .. n - 1 /\ \A i \in 1 .. n - 1 : args'[i] = children[i + 1]
      BY <1>0, <1>1
    <3>2. QED
      BY <1>0, <3>1
  <2>2. QED
    BY <1>0, <1>1, <1>10, <2>1 DEF HeldOnce
<1>15. CallInv'
  <2>1. leftmost'[node'] = first /\ EndsRow(node)'
    BY <1>1, <1>2, <1>4 DEF EndsRow, Last
  <2>2. AdoptAt(first, 1)'
    <3>1. /\ Len(row[first]) \in Nat /\ 1 \in DOMAIN row[first] /\ row[first][1] = first
          /\ DOMAIN row[first] = 1 .. Len(row[first])
          /\ \A i \in DOMAIN row[first] : leftmost[row[first][i]] = first
      BY <1>4, <1>6, InRow
    <3>2. QED
      BY <1>1, <1>4, <3>1 DEF AdoptAt
  <2>3. QED
    BY <1>1, <1>2, <1>4, <1>5, <1>12, <2>1, <2>2 DEF CallInv, EndsRow
<1>16. QED
  BY <1>7, <1>8, <1>9, <1>13, <1>14, <1>15 DEF Linkage

LEMMA SetParentInv == ASSUME IInv, TypeOK', SetParent PROVE Linkage'
<1> USE DEF IInv
<1> PICK h : h = leftmost[node]
  OBVIOUS
<1>0. /\ h \in Node /\ h \in Made /\ row[h] # << >> /\ owner[h] = result /\ EndsRow(node)
      /\ \A v \in Free : leftmost[v] # h
      /\ Made \subseteq Node /\ NULL \notin Node
  BY MadeNodes DEF SetParent, CallInv, Busy
<1>1. PICK k \in 1 .. Len(row[h]) + 1 : AdoptAt(h, k)
  BY DEF SetParent, CallInv, Busy
<1>2. /\ row[h] \in Seq(Node) /\ Len(row[h]) \in Nat /\ DOMAIN row[h] = 1 .. Len(row[h])
      /\ \A i \in DOMAIN row[h] :
           /\ row[h][i] \in Made /\ row[h][i] \in Node /\ row[h][i] # NULL
           /\ right[row[h][i]] = IF i < Len(row[h]) THEN row[h][i + 1] ELSE NULL
           /\ leftmost[row[h][i]] = h
  BY <1>0, <1>1, InRow DEF AdoptAt
<1>3. /\ UNCHANGED <<child, leftmost, right, made, values, node, args, result, row, owner>>
      /\ pc = "adopt" /\ Made' = Made
  BY DEF SetParent, history, Made
<1>4. \A v : EndsRow(v)' = EndsRow(v)
  BY <1>3 DEF EndsRow, Last
<1>5. OwnersInv' /\ CompleteInv'
  BY <1>3 DEF OwnersInv, CompleteInv
<1>6. pc' \in {"adopt", "next"}
  BY <1>3 DEF SetParent
<1>7. Busy /\ Busy' /\ Waiting' = Waiting /\ Parent' = Parent /\ Taken = {} /\ Taken' = {} /\ Free' = Free
  BY <1>3, <1>6 DEF Busy, Waiting, Parent, Taken, Free
<1>8. FreeInv' /\ HeldOnce'
  BY <1>3, <1>4, <1>7 DEF FreeInv, HeldOnce
<1>9. CASE sibling # NULL
  <2>1. k \in DOMAIN row[h] /\ sibling = row[h][k]
    BY <1>1, <1>2, <1>9 DEF AdoptAt
  <2>2. /\ parent' = [parent EXCEPT ![sibling] = result] /\ sibling' = right[sibling] /\ pc' = "adopt"
    BY <1>3, <1>9 DEF SetParent
  <2>3. \A m \in Node \ {sibling} : parent'[m] = parent[m]
    BY <2>2 DEF TypeOK
  <2>4. parent'[sibling] = result
    BY <1>2, <2>1, <2>2 DEF TypeOK
  <2>5. AdoptAt(h, k + 1)'
    <3>1. k + 1 \in 1 .. Len(row[h]) + 1 /\ result # NULL
      BY <1>1, <1>2, <2>1 DEF AdoptAt
    <3>2. sibling' = IF k + 1 <= Len(row[h]) THEN row[h][k + 1] ELSE NULL
      BY <1>2, <2>1, <2>2
    <3>3. \A i \in 1 .. k : parent'[row[h][i]] = result
      <4>1. \A i \in 1 .. k - 1 : parent[row[h][i]] = result
        BY <1>1 DEF AdoptAt
      <4>2. \A i \in 1 .. k : i \in 1 .. k - 1 \/ i = k
        BY <1>2, <2>1
      <4>3. \A i \in 1 .. k : row[h][i] \in Node
        BY <1>2, <2>1
      <4>4. QED
        BY <2>1, <2>3, <2>4, <4>1, <4>2, <4>3
    <3>4. QED
      BY <1>2, <1>3, <3>1, <3>2, <3>3 DEF AdoptAt
  <2>6. RowsInv'
    <3>1. ASSUME NEW g \in Node, row[g] # << >>, ~ Changing(g)', NEW i \in DOMAIN row[g]
          PROVE  Marked(g, i)'
      <4>1. g # h /\ ~ Changing(g)
        BY <1>3, <2>2, <3>1 DEF Changing
      <4>2. row[g][i] \in Node /\ leftmost[row[g][i]] = g /\ parent[row[g][i]] = owner[g]
        BY <3>1, <4>1, InRow
      <4>3. row[g][i] # sibling
        BY <1>2, <2>1, <4>1, <4>2
      <4>4. QED
        BY <1>3, <2>3, <4>2, <4>3 DEF Marked
    <3>2. \A g \in Node : row[g] # << >> => g \in Made' /\ Chained(g)'
      BY <1>3 DEF RowsInv, Chained
    <3>3. \A m \in Node \ Made' : parent'[m] = NULL /\ right'[m] = NULL
      BY <1>2, <1>3, <2>1, <2>3 DEF RowsInv
    <3>4. QED
      BY <1>3, <3>1, <3>2, <3>3 DEF RowsInv
  <2>7. CallInv'
    BY <1>0, <1>2, <1>3, <1>4, <1>7, <2>1, <2>2, <2>5 DEF CallInv
  <2>8. QED
    BY <1>5, <1>8, <2>6, <2>7 DEF Linkage
<1>10. CASE sibling = NULL
  <2>1. parent' = parent /\ pc' = "next"
    BY <1>3, <1>10 DEF SetParent
  <2>2. k = Len(row[h]) + 1
    BY <1>1, <1>2, <1>10 DEF AdoptAt
  <2>3. \A i \in DOMAIN row[h] : Marked(h, i)'
    BY <1>0, <1>1, <1>2, <1>3, <2>1, <2>2 DEF AdoptAt, Marked
  <2>4. RowsInv'
    <3>1. ASSUME NEW g \in Node, row[g] # << >>, NEW i \in DOMAIN row[g]
          PROVE  Marked(g, i)'
      <4>1. CASE g = h
        BY <2>3, <3>1, <4>1
      <4>2. CASE g # h
        BY <1>3, <2>1, <3>1, <4>2 DEF Changing, RowsInv, Marked
      <4>3. QED
        BY <4>1, <4>2
    <3>2. QED
      BY <1>3, <2>1, <3>1 DEF RowsInv, Chained
  <2>5. CallInv'
    BY <1>0, <1>3, <1>4, <1>7, <2>1 DEF CallInv
  <2>6. QED
    BY <1>5, <1>8, <2>4, <2>5 DEF Linkage
<1>11. QED
  BY <1>9, <1>10

LEMMA NextArgInv == ASSUME IInv, TypeOK', NextArg PROVE Linkage'
<1> USE DEF IInv
<1>1. UNCHANGED <<parent, child, leftmost, right, row, owner, made, node, result, Made>> /\ pc = "next"
  BY DEF NextArg, links, history, Made
<1>2. \A h : ~ Changing(h)
  BY <1>1 DEF Changing
<1>3. \A v : EndsRow(v)' = EndsRow(v)
  BY <1>1 DEF EndsRow, Last
<1>4. /\ Busy /\ Taken = {} /\ Free = values \cup Waiting \cup Parent
      /\ node \in Made /\ leftmost[node] \in Made /\ row[leftmost[node]] # << >>
      /\ owner[leftmost[node]] = result /\ EndsRow(node)
      /\ \A v \in Free : leftmost[v] # leftmost[node]
  BY <1>1 DEF Busy, Taken, Free, CallInv
<1>5. pc' \in {"walk", "parse"}
  BY <1>1 DEF NextArg
<1>6. RowsInv' /\ OwnersInv' /\ CompleteInv'
  <2>1. \A h : ~ Changing(h)'
    BY <1>5 DEF Changing
  <2>2. QED
    BY <1>1, <1>2, <2>1 DEF RowsInv, OwnersInv, CompleteInv, Chained, Marked
<1>7. CASE args # << >>
  <2>1. sibling' = Head(args) /\ args' = Tail(args) /\ pc' = "walk" /\ values' = values
    BY <1>1, <1>7 DEF NextArg
  <2>2. /\ Len(args) \in Nat /\ Len(args) > 0 /\ DOMAIN args = 1 .. Len(args) /\ Head(args) = args[1]
        /\ DOMAIN args' = 1 .. Len(args) - 1 /\ \A i \in DOMAIN args' : args'[i] = args[i + 1]
    BY <1>7, <2>1 DEF TypeOK
  <2>3. \A i, j \in DOMAIN args : args[i] = args[j] => i = j
    BY <1>4 DEF HeldOnce
  <2>4. args[1] \in Waiting
    BY <2>2 DEF Waiting
  <2>5. \A v \in Waiting' : v \in Waiting /\ v # args[1]
    <3>1. ASSUME NEW i \in DOMAIN args' PROVE args'[i] \in Waiting /\ args'[i] # args[1]
      <4>1. i + 1 \in DOMAIN args /\ 1 \in DOMAIN args /\ i + 1 # 1 /\ args'[i] = args[i + 1]
        BY <2>2
      <4>2. QED
        BY <2>3, <4>1 DEF Waiting
    <3>2. QED
      BY <3>1 DEF Waiting
  <2>6. Busy' /\ Parent' = Parent /\ Taken' = {args[1]}
    BY <1>1, <2>1, <2>2 DEF Busy, Parent, Taken
  <2>7. Free' \subseteq Free
    BY <1>4, <2>1, <2>4, <2>5, <2>6 DEF Free
  <2>8. FreeInv'
    BY <1>1, <1>3, <2>7 DEF FreeInv
  <2>9. HeldOnce'
    <3>1. \A i, j \in DOMAIN args' : args'[i] = args'[j] => i = j
      BY <2>2, <2>3
    <3>2. QED
      BY <1>4, <2>1, <2>4, <2>5, <2>6, <3>1 DEF HeldOnce
  <2>10. CallInv'
    BY <1>1, <1>3, <1>4, <2>1, <2>7 DEF CallInv
  <2>11. QED
    BY <1>6, <2>8, <2>9, <2>10 DEF Linkage
<1>8. CASE args = << >>
  <2>1. pc' = "parse" /\ values' = values \cup {IF result = NULL THEN node ELSE result}
    BY <1>1, <1>8 DEF NextArg
  <2>2. Free' = values' /\ ~ Busy'
    BY <2>1 DEF Free, Busy
  <2>3. FreeInv'
    <3>1. CASE result = NULL
      <4>1. Free' = values \cup {node} /\ values \subseteq Free
        BY <1>4, <2>1, <2>2, <3>1
      <4>2. \A v \in Free' : EndsRow(v)' /\ owner'[leftmost'[v]] = NULL
        BY <1>1, <1>3, <1>4, <3>1, <4>1 DEF FreeInv
      <4>3. QED
        BY <1>1, <1>4, <4>1, <4>2 DEF FreeInv
    <3>2. CASE result # NULL
      <4>1. Free' \subseteq Free
        BY <1>4, <2>1, <2>2, <3>2 DEF Parent
      <4>2. QED
        BY <1>1, <1>3, <4>1 DEF FreeInv
    <3>3. QED
      BY <3>1, <3>2
  <2>4. HeldOnce' /\ CallInv'
    BY <2>2 DEF HeldOnce, CallInv
  <2>5. QED
    BY <1>6, <2>3, <2>4 DEF Linkage
<1>9. QED
  BY <1>7, <1>8

LEMMA Joined ==
  ASSUME NEW S, NEW r \in Seq(S), NEW t \in Seq(S)
  PROVE  /\ Len(r \o t) = Len(r) + Len(t) /\ DOMAIN (r \o t) = 1 .. Len(r) + Len(t)
         /\ \A i \in 1 .. Len(r) : (r \o t)[i] = r[i]
         /\ \A j \in 1 .. Len(t) : (r \o t)[Len(r) + j] = t[j]
         /\ \A i \in 1 .. Len(r) + Len(t) :
              i \in 1 .. Len(r) \/ \E j \in 1 .. Len(t) : i = Len(r) + j
<1>1. /\ Len(r) \in Nat /\ Len(t) \in Nat
      /\ Len(r \o t) = Len(r) + Len(t) /\ DOMAIN (r \o t) = 1 .. Len(r) + Len(t)
      /\ \A i \in 1 .. Len(r) : (r \o t)[i] = r[i]
      /\ \A i \in Len(r) + 1 .. Len(r) + Len(t) : (r \o t)[i] = t[i - Len(r)]
  OBVIOUS
<1>2. ASSUME NEW j \in 1 .. Len(t) PROVE (r \o t)[Len(r) + j] = t[j]
  <2>1. Len(r) + j \in Len(r) + 1 .. Len(r) + Len(t) /\ (Len(r) + j) - Len(r) = j
    BY <1>1
  <2>2. QED
    BY <1>1, <2>1
<1>3. ASSUME NEW i \in 1 .. Len(r) + Len(t)
      PROVE  i \in 1 .. Len(r) \/ \E j \in 1 .. Len(t) : i = Len(r) + j
  <2>1. CASE i \in 1 .. Len(r)
    BY <2>1
  <2>2. CASE i > Len(r)
    <3>1. i - Len(r) \in 1 .. Len(t) /\ i = Len(r) + (i - Len(r))
      BY <1>1, <2>2
    <3>2. QED
      BY <3>1
  <2>3. QED
    BY <1>1, <2>1, <2>2
<1>4. QED
  BY <1>1, <1>2, <1>3

(* append_sibling never walks: what it is given ends its row.  The second  *)
(* row goes to the end of the first, and the loop that follows is at its   *)
(* first node.                                                             *)
LEMMA WalkInv == ASSUME IInv, TypeOK', Walk PROVE Linkage'
<1> USE DEF IInv
<1> PICK h, first, s : h = leftmost[node] /\ first = leftmost[sibling] /\ s = sibling
  OBVIOUS
<1>L. PICK L, M : L = Len(row[h]) /\ M = Len(row[first])
  OBVIOUS
<1>0. /\ pc = "walk" /\ Busy /\ Taken = {s} /\ s \in Free /\ Made \subseteq Node /\ NULL \notin Node
      /\ Free = values \cup Waiting \cup Parent \cup {s}
  BY MadeNodes DEF Walk, Busy, Taken, Free
<1>1. /\ h \in Node /\ h \in Made /\ row[h] # << >> /\ node \in Node /\ node \in Made
      /\ owner[h] = result /\ EndsRow(node) /\ right[node] = NULL
      /\ \A v \in Free : leftmost[v] # h
  BY <1>0, RowEnds DEF CallInv
<1>2. first \in Node /\ first \in Made /\ row[first] # << >> /\ owner[first] = NULL /\ first # h
  BY <1>0, <1>1, RowEnds DEF FreeInv, EndsRow
<1>3. \A g : ~ Changing(g)
  BY <1>0 DEF Changing
<1>4. /\ L \in Nat /\ L > 0 /\ L \in DOMAIN row[h] /\ DOMAIN row[h] = 1 .. L
      /\ 1 \in DOMAIN row[h] /\ row[h][1] = h /\ row[h][L] = node /\ parent[node] = owner[h]
  BY <1>1, <1>3, <1>L, InRow DEF EndsRow, Last
<1>5. /\ M \in Nat /\ M > 0 /\ 1 \in DOMAIN row[first]
      /\ DOMAIN row[first] = 1 .. M /\ row[first][1] = first /\ leftmost[first] = first
  BY <1>2, <1>3, <1>L, InRow
<1>6. /\ right' = [right EXCEPT ![node] = first] /\ leftmost' = [leftmost EXCEPT ![first] = h]
      /\ parent' = [parent EXCEPT ![first] = parent[node]] /\ sibling' = first
      /\ row' = [row EXCEPT ![h] = row[h] \o row[first], ![first] = << >>]
      /\ pc' = "fix" /\ node' = node
      /\ UNCHANGED <<child, made, values, args, result, owner, Made>>
  BY <1>1 DEF Walk, Made
<1>7. /\ right'[node] = first /\ leftmost'[first] = h /\ parent'[first] = owner[h]
      /\ \A m \in Node \ {node} : right'[m] = right[m]
      /\ \A m \in Node \ {first} : leftmost'[m] = leftmost[m] /\ parent'[m] = parent[m]
  BY <1>1, <1>2, <1>4, <1>6 DEF TypeOK
<1>8. /\ row'[first] = << >> /\ row'[h] = row[h] \o row[first]
      /\ \A g \in Node \ {h, first} : row'[g] = row[g]
  BY <1>1, <1>2, <1>6 DEF TypeOK
<1>9. /\ Len(row'[h]) = L + M /\ DOMAIN row'[h] = 1 .. L + M
      /\ \A i \in 1 .. L : row'[h][i] = row[h][i]
      /\ \A j \in 1 .. M : row'[h][L + j] = row[first][j]
      /\ \A i \in 1 .. L + M : i \in 1 .. L \/ \E j \in 1 .. M : i = L + j
  <2>1. PICK r, t : r = row[h] /\ t = row[first]
    OBVIOUS
  <2>2. r \in Seq(Node) /\ t \in Seq(Node)
    BY <1>1, <1>2, <2>1, InRow
  <2>3. L = Len(r) /\ M = Len(t) /\ row'[h] = r \o t
    BY <1>8, <1>L, <2>1
  <2>4. /\ Len(r \o t) = Len(r) + Len(t) /\ DOMAIN (r \o t) = 1 .. Len(r) + Len(t)
        /\ \A i \in 1 .. Len(r) : (r \o t)[i] = r[i]
        /\ \A j \in 1 .. Len(t) : (r \o t)[Len(r) + j] = t[j]
        /\ \A i \in 1 .. Len(r) + Len(t) :
             i \in 1 .. Len(r) \/ \E j \in 1 .. Len(t) : i = Len(r) + j
    BY <2>2, Joined, ZenonT(30)
  <2>5. /\ Len(row'[h]) = L + M /\ DOMAIN row'[h] = 1 .. L + M
        /\ \A i \in 1 .. L : row'[h][i] = row[h][i]
    BY <2>1, <2>3, <2>4
  <2>6. ASSUME NEW j \in 1 .. M PROVE row'[h][L + j] = row[first][j]
    <3>1. (r \o t)[Len(r) + j] = t[j]
      BY <2>3, <2>4
    <3>2. Len(r) + j = L + j
      BY <2>3
    <3>3. QED
      BY ONLY <2>1, <2>3, <3>1, <3>2, Zenon
  <2>7. \A i \in 1 .. L + M : i \in 1 .. L \/ \E j \in 1 .. M : i = L + j
    BY <2>3, <2>4
  <2>8. QED
    BY <2>5, <2>6, <2>7
<1>10. node # first /\ leftmost'[node] = h
  BY <1>1, <1>2, <1>5, <1>7
<1>11. \A g : Changing(g)' => g = h
  BY <1>6, <1>10 DEF Changing
<1>12. row'[h] # << >>
  <2>1. Len(row'[h]) > 0
    BY <1>4, <1>5, <1>9
  <2>2. QED
    BY <2>1
<1>13. ASSUME NEW i \in DOMAIN row'[h]
       PROVE  /\ row'[h][i] \in Made
              /\ right'[row'[h][i]] = IF i < Len(row'[h]) THEN row'[h][i + 1] ELSE NULL
  <2>1. CASE i \in 1 .. L - 1
    <3>1. row[h][i] \in Made /\ right[row[h][i]] = row[h][i + 1] /\ row[h][i + 1] \in Node
      BY <1>1, <1>4, <2>1, InRow
    <3>2. row[h][i] # node
      BY <1>0, <1>1, <3>1
    <3>3. row'[h][i] = row[h][i] /\ row'[h][i + 1] = row[h][i + 1] /\ i < Len(row'[h])
      BY <1>4, <1>5, <1>9, <2>1
    <3>4. QED
      BY <1>0, <1>7, <3>1, <3>2, <3>3
  <2>2. CASE i = L
    <3>1. row'[h][L] = node /\ row'[h][L + 1] = first
      <4>1. L \in 1 .. L /\ 1 \in 1 .. M
        BY <1>4, <1>5
      <4>2. row'[h][L] = row[h][L] /\ row'[h][L + 1] = row[first][1]
        BY <1>9, <4>1
      <4>3. QED
        BY <1>4, <1>5, <4>2
    <3>2. L < Len(row'[h])
      BY <1>4, <1>5, <1>9
    <3>3. QED
      BY <1>1, <1>7, <2>2, <3>1, <3>2
  <2>3. ASSUME NEW j \in 1 .. M, i = L + j
        PROVE  /\ row'[h][i] \in Made
               /\ right'[row'[h][i]] = IF i < Len(row'[h]) THEN row'[h][i + 1] ELSE NULL
    <3>1. j \in DOMAIN row[first] /\ row'[h][i] = row[first][j]
      BY <1>5, <1>9, <2>3
    <3>2. /\ row[first][j] \in Made /\ leftmost[row[first][j]] = first
          /\ right[row[first][j]] = IF j < M THEN row[first][j + 1] ELSE NULL
      BY <1>2, <1>3, <1>L, <3>1, InRow
    <3>3. row[first][j] # node
      BY <1>1, <1>2, <3>2
    <3>4. j < M => j + 1 \in 1 .. M /\ i + 1 = L + (j + 1) /\ i < Len(row'[h])
      BY <1>4, <1>5, <1>9, <2>3
    <3>5. ~ (j < M) => ~ (i < Len(row'[h]))
      BY <1>4, <1>5, <1>9, <2>3
    <3>6. j < M => row'[h][i + 1] = row[first][j + 1]
      BY <1>9, <3>4
    <3>7. QED
      BY <1>0, <1>7, <3>1, <3>2, <3>3, <3>4, <3>5, <3>6
  <2>4. i \in 1 .. L - 1 \/ i = L \/ \E j \in 1 .. M : i = L + j
    BY <1>4, <1>9
  <2>5. QED
    BY <2>1, <2>2, <2>3, <2>4
<1>14. ASSUME NEW g \in Node, g # h, g # first, row[g] # << >>
       PROVE  Chained(g)' /\ \A i \in DOMAIN row[g] : Marked(g, i)'
  <2>1. /\ row[g][1] = g
        /\ \A i \in DOMAIN row[g] :
             /\ row[g][i] \in Made /\ row[g][i] \in Node
             /\ leftmost[row[g][i]] = g /\ parent[row[g][i]] = owner[g]
             /\ right[row[g][i]] = IF i < Len(row[g]) THEN row[g][i + 1] ELSE NULL
    BY <1>3, <1>14, InRow
  <2>2. \A i \in DOMAIN row[g] : row[g][i] # node /\ row[g][i] # first
    BY <1>5, <1>14, <2>1
  <2>3. row'[g] = row[g]
    BY <1>8, <1>14
  <2>4. Chained(g)'
    <3>1. \A i \in DOMAIN row[g] :
            /\ row[g][i] \in Made'
            /\ right'[row[g][i]] = IF i < Len(row[g]) THEN row[g][i + 1] ELSE NULL
      BY <1>6, <1>7, <2>1, <2>2
    <3>2. QED
      BY <2>1, <2>3, <3>1 DEF Chained
  <2>5. \A i \in DOMAIN row[g] : Marked(g, i)'
    BY <1>6, <1>7, <2>1, <2>2, <2>3 DEF Marked
  <2>6. QED
    BY <2>4, <2>5
<1>15. RowsInv'
  <2>1. Chained(h)'
    BY <1>4, <1>5, <1>6, <1>9, <1>13 DEF Chained
  <2>2. \A m \in Node \ Made' : parent'[m] = NULL /\ right'[m] = NULL
    BY <1>1, <1>2, <1>6, <1>7 DEF RowsInv
  <2>3. ASSUME NEW g \in Node, row'[g] # << >>
        PROVE  g \in Made' /\ Chained(g)' /\ (~ Changing(g)' => \A i \in DOMAIN row'[g] : Marked(g, i)')
    <3>1. g # first
      BY <1>8, <2>3
    <3>2. CASE g = h
      BY <1>1, <1>6, <1>10, <2>1, <3>2 DEF Changing
    <3>3. CASE g # h
      <4>1. row'[g] = row[g]
        BY <1>8, <3>1, <3>3
      <4>2. g \in Made
        BY <2>3, <4>1 DEF RowsInv
      <4>3. QED
        BY <1>6, <1>14, <2>3, <3>1, <3>3, <4>1, <4>2
    <3>4. QED
      BY <3>2, <3>3
  <2>4. QED
    BY <2>2, <2>3 DEF RowsInv
<1>16. OwnersInv'
  <2>1. ASSUME NEW g \in Node, g # first, row[g] # << >> PROVE row'[g] # << >>
    BY <1>8, <1>12, <2>1
  <2>2. ASSUME NEW q \in Node, child[q] # NULL PROVE child[q] \in Node /\ child[q] # first
    <3>1. owner[child[q]] = q
      BY <2>2 DEF OwnersInv
    <3>2. QED
      BY <1>0, <1>2, <2>2, <3>1 DEF TypeOK, Pointer
  <2>3. QED
    BY <1>2, <1>6, <2>1, <2>2 DEF OwnersInv
<1>17. CompleteInv'
  <2>1. ASSUME NEW m \in Made PROVE \E g \in Made : \E i \in DOMAIN row'[g] : row'[g][i] = m
    <3>1. PICK g \in Made : \E i \in DOMAIN row[g] : row[g][i] = m
      BY DEF CompleteInv
    <3>2. PICK i \in DOMAIN row[g] : row[g][i] = m
      BY <3>1
    <3>3. CASE g = h
      <4>1. i \in 1 .. L /\ row[h][i] = m
        BY <1>4, <3>2, <3>3
      <4>2. i \in DOMAIN row'[h] /\ row'[h][i] = m
        BY <1>4, <1>5, <1>9, <4>1
      <4>3. QED
        BY <1>1, <4>2
    <3>4. CASE g = first
      <4>1. L + i \in DOMAIN row'[h] /\ row'[h][L + i] = m
        BY <1>4, <1>5, <1>9, <3>2, <3>4
      <4>2. QED
        BY <1>1, <4>1
    <3>5. CASE g # h /\ g # first
      BY <1>0, <1>8, <3>2, <3>5
    <3>6. QED
      BY <3>3, <3>4, <3>5
  <2>2. QED
    BY <1>6, <2>1 DEF CompleteInv
<1>18. Busy' /\ Waiting' = Waiting /\ Parent' = Parent /\ Taken' = {}
  BY <1>6 DEF Busy, Waiting, Parent, Taken
<1>19. Free' \subseteq Free /\ s \notin Free'
  BY <1>0, <1>6, <1>18 DEF Free, HeldOnce
<1>20. ASSUME NEW v \in Free'
       PROVE  EndsRow(v)' /\ owner'[leftmost'[v]] = NULL /\ leftmost'[v] = leftmost[v] /\ leftmost[v] # h
  <2>1. /\ EndsRow(v) /\ v \in Node /\ leftmost[v] \in Node /\ owner[leftmost[v]] = NULL
        /\ leftmost[v] # h /\ leftmost[v] # first
    BY <1>0, <1>1, <1>19, RowEnds DEF FreeInv
  <2>2. v # first
    BY <1>5, <2>1
  <2>3. leftmost'[v] = leftmost[v] /\ row'[leftmost[v]] = row[leftmost[v]]
    BY <1>7, <1>8, <2>1, <2>2
  <2>4. QED
    BY <1>6, <2>1, <2>3 DEF EndsRow, Last
<1>21. FreeInv'
  BY <1>19, <1>20 DEF FreeInv
<1>22. HeldOnce'
  BY <1>0, <1>6, <1>18 DEF HeldOnce
<1>23. CallInv'
  <2>1. FixAt(h, L + 1)'
    <3>1. L + 1 \in DOMAIN row'[h] /\ row'[h][L + 1] = first /\ L \in 1 .. L + 1 /\ row'[h][L] = node
      BY <1>4, <1>5, <1>9
    <3>2. ASSUME NEW i \in 1 .. L PROVE Marked(h, i)'
      <4>1. row[h][i] \in Node /\ leftmost[row[h][i]] = h /\ parent[row[h][i]] = owner[h]
        BY <1>1, <1>3, <1>4, InRow
      <4>2. row[h][i] # first /\ row'[h][i] = row[h][i]
        BY <1>2, <1>5, <1>9, <4>1
      <4>3. QED
        BY <1>6, <1>7, <4>1, <4>2 DEF Marked
    <3>3. Marked(h, L + 1)'
      BY <1>6, <1>7, <3>1 DEF Marked
    <3>4. ASSUME NEW i \in (L + 1) + 1 .. Len(row'[h])
          PROVE  leftmost'[row'[h][i]] = h \/ row'[leftmost'[row'[h][i]]] = << >>
      <4>1. PICK j \in 1 .. M : i = L + j
        BY <1>4, <1>5, <1>9, <3>4
      <4>2. j \in DOMAIN row[first] /\ row'[h][i] = row[first][j]
        BY <1>5, <1>9, <4>1
      <4>3. row[first][j] \in Node /\ leftmost[row[first][j]] = first
        BY <1>2, <1>3, <4>2, InRow
      <4>4. QED
        BY <1>7, <1>8, <4>2, <4>3
    <3>5. \A i \in 1 .. L + 1 : i \in 1 .. L \/ i = L + 1
      BY <1>4
    <3>6. QED
      BY <1>6, <3>1, <3>2, <3>3, <3>4, <3>5 DEF FixAt
  <2>2. L + 1 \in DOMAIN row'[h]
    BY <1>4, <1>5, <1>9
  <2>3. /\ node' \in Made' /\ leftmost'[node'] = h /\ h \in Made' /\ row'[h] # << >>
        /\ owner'[h] = result' /\ pc' = "fix"
    BY <1>1, <1>6, <1>10, <1>12
  <2>4. \E k \in DOMAIN row'[h] : FixAt(h, k)'
    BY <2>1, <2>2
  <2>5. \A v \in Free' : leftmost'[v] # h
    BY <1>20
  <2>6. QED
    BY <2>3, <2>4, <2>5 DEF CallInv
<1>24. QED
  BY <1>15, <1>16, <1>17, <1>21, <1>22, <1>23 DEF Linkage

LEMMA FixInv == ASSUME IInv, TypeOK', Fix PROVE Linkage'
<1> USE DEF IInv
<1>h. PICK h, s : h = leftmost[node] /\ s = right[sibling]
  OBVIOUS
<1>0. /\ pc = "fix" /\ Busy /\ h \in Node /\ h \in Made /\ row[h] # << >> /\ node \in Node
      /\ node \in Made /\ owner[h] = result /\ Made \subseteq Node /\ NULL \notin Node
      /\ \A v \in Free : leftmost[v] # h
  BY <1>h, MadeNodes DEF Fix, CallInv, Busy
<1>1. PICK k \in DOMAIN row[h] : FixAt(h, k)
  BY <1>h, <1>0 DEF CallInv
<1>2. /\ Len(row[h]) \in Nat /\ DOMAIN row[h] = 1 .. Len(row[h])
      /\ \A i \in DOMAIN row[h] :
           /\ row[h][i] \in Made /\ row[h][i] \in Node
           /\ right[row[h][i]] = IF i < Len(row[h]) THEN row[h][i + 1] ELSE NULL
  BY <1>0, InRow
<1>3. /\ sibling = row[h][k] /\ sibling \in Made /\ sibling \in Node
      /\ leftmost[sibling] = h /\ parent[sibling] = owner[h]
      /\ parent[node] = owner[h] /\ k \in 1 .. k /\ k \in Nat
  BY <1>1, <1>2 DEF FixAt, Marked
<1>4. UNCHANGED <<child, right, made, values, args, result, row, owner, Made>>
  BY DEF Fix, history, Made
<1>5. OwnersInv' /\ CompleteInv'
  BY <1>4 DEF OwnersInv, CompleteInv
<1>6. pc' \in {"fix", "next"}
  BY <1>0 DEF Fix
<1>7. Busy' /\ Waiting' = Waiting /\ Parent' = Parent /\ Taken = {} /\ Taken' = {} /\ Free' = Free
  BY <1>0, <1>4, <1>6 DEF Busy, Waiting, Parent, Taken, Free
<1>8. HeldOnce'
  BY <1>0, <1>4, <1>7 DEF HeldOnce
<1>9. ASSUME s # NULL PROVE Linkage'
  <2>1. k < Len(row[h]) /\ s = row[h][k + 1] /\ k + 1 \in DOMAIN row[h] /\ s \in Made /\ s \in Node
    BY <1>h, <1>1, <1>2, <1>3, <1>9
  <2>2. /\ sibling' = s /\ pc' = "fix" /\ node' = node
        /\ leftmost' = [leftmost EXCEPT ![s] = h] /\ parent' = [parent EXCEPT ![s] = owner[h]]
    BY <1>h, <1>0, <1>3, <1>9 DEF Fix
  <2>3. /\ leftmost'[s] = h /\ parent'[s] = owner[h]
        /\ \A m \in Node \ {s} : leftmost'[m] = leftmost[m] /\ parent'[m] = parent[m]
    BY <2>1, <2>2 DEF TypeOK
  <2>4. leftmost'[node'] = h
    BY <1>h, <1>0, <2>2, <2>3
  <2>5. leftmost[s] = h \/ row[leftmost[s]] = << >>
    <3>1. k + 1 \in k + 1 .. Len(row[h])
      BY <1>2, <1>3, <2>1
    <3>2. QED
      BY <1>1, <2>1, <3>1 DEF FixAt
  <2>6. FixAt(h, k + 1)'
    <3>1. \E j \in 1 .. k + 1 : node = row[h][j]
      <4>1. PICK j \in 1 .. k : node = row[h][j]
        BY <1>1 DEF FixAt
      <4>2. j \in 1 .. k + 1
        BY <1>3
      <4>3. QED
        BY <4>1, <4>2
    <3>2. ASSUME NEW i \in 1 .. k + 1 PROVE Marked(h, i)'
      <4>1. CASE row[h][i] = s
        BY <1>4, <2>3, <4>1 DEF Marked
      <4>2. CASE row[h][i] # s
        <5>1. i # k + 1 /\ i \in 1 .. k /\ i \in DOMAIN row[h]
          BY <1>2, <1>3, <2>1, <4>2
        <5>2. leftmost[row[h][i]] = h /\ parent[row[h][i]] = owner[h] /\ row[h][i] \in Node
          BY <1>1, <1>2, <5>1 DEF FixAt, Marked
        <5>3. QED
          BY <1>4, <2>3, <4>2, <5>2 DEF Marked
      <4>3. QED
        BY <4>1, <4>2
    <3>3. ASSUME NEW i \in (k + 1) + 1 .. Len(row[h])
          PROVE  leftmost'[row[h][i]] = h \/ row[leftmost'[row[h][i]]] = << >>
      <4>1. i \in k + 1 .. Len(row[h]) /\ i \in DOMAIN row[h]
        BY <1>2, <1>3
      <4>2. leftmost[row[h][i]] = h \/ row[leftmost[row[h][i]]] = << >>
        BY <1>1, <4>1 DEF FixAt
      <4>3. QED
        BY <1>2, <2>3, <4>1, <4>2
    <3>4. QED
      BY <1>4, <2>1, <2>2, <3>1, <3>2, <3>3 DEF FixAt
  <2>7. RowsInv'
    <3>1. ASSUME NEW g \in Node, row[g] # << >>, ~ Changing(g)', NEW i \in DOMAIN row[g]
          PROVE  Marked(g, i)'
      <4>1. g # h /\ ~ Changing(g)
        BY <1>h, <2>2, <2>4, <3>1 DEF Changing
      <4>2. row[g][i] \in Node /\ leftmost[row[g][i]] = g /\ parent[row[g][i]] = owner[g]
        BY <3>1, <4>1, InRow
      <4>3. row[g][i] # s
        BY <2>5, <3>1, <4>1, <4>2
      <4>4. QED
        BY <1>4, <2>3, <4>2, <4>3 DEF Marked
    <3>2. \A g \in Node : row[g] # << >> => g \in Made' /\ Chained(g)'
      BY <1>4 DEF RowsInv, Chained
    <3>3. \A m \in Node \ Made' : parent'[m] = NULL /\ right'[m] = NULL
      BY <1>4, <2>1, <2>3 DEF RowsInv
    <3>4. QED
      BY <1>4, <3>1, <3>2, <3>3 DEF RowsInv
  <2>8. ASSUME NEW v \in Free
        PROVE  /\ EndsRow(v)' /\ owner'[leftmost'[v]] = NULL
               /\ leftmost'[v] = leftmost[v] /\ leftmost[v] # h
    <3>1. EndsRow(v) /\ v \in Node /\ owner[leftmost[v]] = NULL /\ leftmost[v] # h /\ row[leftmost[v]] # << >>
      BY <1>0, RowEnds DEF FreeInv
    <3>2. v # s
      BY <2>5, <3>1
    <3>3. leftmost'[v] = leftmost[v]
      BY <2>3, <3>1, <3>2
    <3>4. QED
      BY <1>4, <3>1, <3>3 DEF EndsRow, Last
  <2>9. FreeInv'
    BY <1>7, <2>8 DEF FreeInv
  <2>10. CallInv'
    <3>1. \E j \in DOMAIN row'[h] : FixAt(h, j)'
      BY <1>4, <2>1, <2>6
    <3>2. \A v \in Free' : leftmost'[v] # h
      BY <1>7, <2>8
    <3>3. QED
      BY <1>0, <1>4, <2>2, <2>4, <3>1, <3>2 DEF CallInv
  <2>11. QED
    BY <1>5, <1>8, <2>7, <2>9, <2>10 DEF Linkage
<1>10. ASSUME s = NULL PROVE Linkage'
  <2>1. k = Len(row[h])
    <3>1. k \in DOMAIN row[h] /\ (k < Len(row[h]) => right[sibling] = row[h][k + 1] /\ k + 1 \in DOMAIN row[h])
      BY <1>1, <1>2, <1>3
    <3>2. ~ (k < Len(row[h]))
      BY <1>h, <1>0, <1>2, <1>10, <3>1
    <3>3. QED
      BY <1>2, <3>1, <3>2
  <2>2. node' = sibling /\ pc' = "next" /\ UNCHANGED <<leftmost, parent>>
    BY <1>h, <1>10 DEF Fix
  <2>3. \A i \in DOMAIN row[h] : Marked(h, i)
    BY <1>1, <1>2, <2>1 DEF FixAt
  <2>4. RowsInv'
    <3>1. ASSUME NEW g \in Node, row[g] # << >>, NEW i \in DOMAIN row[g] PROVE Marked(g, i)'
      <4>1. Marked(g, i)
        <5>1. CASE g = h
          BY <2>3, <3>1, <5>1
        <5>2. CASE g # h
          BY <1>h, <3>1, <5>2 DEF Changing, RowsInv
        <5>3. QED
          BY <5>1, <5>2
      <4>2. QED
        BY <1>4, <2>2, <4>1 DEF Marked
    <3>2. QED
      BY <1>4, <2>2, <3>1 DEF RowsInv, Chained
  <2>5. \A v : EndsRow(v)' = EndsRow(v)
    BY <1>4, <2>2 DEF EndsRow, Last
  <2>6. FreeInv'
    BY <1>4, <1>7, <2>2, <2>5 DEF FreeInv
  <2>7. EndsRow(sibling)
    BY <1>0, <1>3, <2>1 DEF EndsRow, Last
  <2>8. CallInv'
    BY <1>0, <1>3, <1>4, <1>7, <2>2, <2>5, <2>7 DEF CallInv
  <2>9. QED
    BY <1>5, <1>8, <2>4, <2>6, <2>8 DEF Linkage
<1>11. QED
  BY <1>9, <1>10

-----------------------------------------------------------------------------
LEMMA StepInv == IInv /\ [Next]_vars => IInv'
<1> SUFFICES ASSUME IInv, [Next]_vars PROVE IInv'
  OBVIOUS
<1>1. CASE UNCHANGED vars
  <2>1. /\ UNCHANGED <<parent, child, leftmost, right, made, values, pc>>
        /\ UNCHANGED <<node, sibling, args, result, row, owner>>
    BY <1>1 DEF vars, links, call, history
  <2>2. TypeOK'
    BY <2>1 DEF IInv, TypeOK
  <2>3. RowsInv'
    BY <2>1 DEF IInv, RowsInv, Changing, Chained, Marked, Made
  <2>4. OwnersInv' /\ CompleteInv'
    BY <2>1 DEF IInv, OwnersInv, CompleteInv, Made
  <2>5. /\ UNCHANGED <<Busy, Waiting, Parent, Taken, Free>>
        /\ \A v : EndsRow(v)' = EndsRow(v)
    BY <2>1 DEF Busy, Waiting, Parent, Taken, Free, EndsRow, Last, Made
  <2>6. FreeInv' /\ HeldOnce'
    BY <2>1, <2>5 DEF IInv, FreeInv, HeldOnce
  <2>7. \A h, k : AdoptAt(h, k)' = AdoptAt(h, k) /\ FixAt(h, k)' = FixAt(h, k)
    BY <2>1 DEF AdoptAt, FixAt, Marked
  <2>8. CallInv'
    BY <2>1, <2>5, <2>7 DEF IInv, CallInv, Made
  <2>9. QED
    BY <2>2, <2>3, <2>4, <2>6, <2>8 DEF IInv
<1>2. ASSUME Next PROVE IInv'
  <2>1. TypeOK'
    BY <1>2, StepType DEF IInv
  <2>2. ASSUME ~ UNCHANGED vars PROVE Linkage'
    BY <1>2, <2>1, <2>2, NewInv, JoinInv, AdoptInv, SetParentInv, NextArgInv, WalkInv, FixInv
       DEF Next, Parse, Reduce, Parsed
  <2>3. QED
    BY <1>1, <2>1, <2>2 DEF IInv, Linkage
<1>3. QED
  BY <1>1, <1>2

LEMMA Invariance == Spec => []IInv
<1>1. QED
  BY InitInv, StepInv, PTL DEF Spec

(* The variables stay in their types.  *)
THEOREM TypeCorrect == Spec => []TypeOK
<1>1. IInv => TypeOK
  BY DEF IInv
<1>2. QED
  BY <1>1, Invariance, PTL

(* ast.c: for trees of any size, built in whatever order the rules of the  *)
(* parser combine their values, the four kinds of links are those of the   *)
(* lists that were appended whenever no call is under way.                 *)
THEOREM RepresentsAlways == Spec => []Represents
<1>1. IInv => Represents
  <2> SUFFICES ASSUME IInv, pc = "parse" PROVE
        /\ \A h \in 1 .. made : row[h] # << >> => Linked(h)
        /\ \A n \in 1 .. made : \E i \in DOMAIN row[leftmost[n]] : row[leftmost[n]][i] = n
        /\ \A p \in 1 .. made : child[p] # NULL => owner[child[p]] = p
    BY DEF Represents
  <2> USE DEF IInv
  <2>1. Made \subseteq Node /\ Made = 1 .. made /\ \A h : ~ Changing(h)
    BY MadeNodes DEF Made, Changing
  <2>2. ASSUME NEW h \in Made, row[h] # << >> PROVE Linked(h)
    BY <2>1, <2>2, InRow DEF Linked, OwnersInv
  <2>3. ASSUME NEW n \in Made
        PROVE  \E i \in DOMAIN row[leftmost[n]] : row[leftmost[n]][i] = n
    <3>1. PICK h \in Made : \E i \in DOMAIN row[h] : row[h][i] = n
      BY DEF CompleteInv
    <3>2. PICK i \in DOMAIN row[h] : row[h][i] = n
      BY <3>1
    <3>3. row[h] # << >>
      BY <3>2
    <3>4. leftmost[n] = h
      BY <2>1, <3>2, <3>3, InRow
    <3>5. QED
      BY <3>2, <3>4
  <2>4. \A p \in Made : child[p] # NULL => owner[child[p]] = p
    BY <2>1 DEF OwnersInv
  <2>5. QED
    BY <2>1, <2>2, <2>3, <2>4
<1>2. QED
  BY <1>1, Invariance, PTL

(* parser.y passes a list by its last node: at every moment every value    *)
(* the parser holds is the last node of a list without a parent, and no    *)
(* two are in one list, so that append_sibling never closes a circle.      *)
THEOREM ValuesAreListsAlways == Spec => []ValuesAreLists
<1>1. IInv => ValuesAreLists
  <2> SUFFICES ASSUME IInv PROVE ValuesAreLists
    OBVIOUS
  <2> USE DEF IInv
  <2>1. values \subseteq Free
    BY DEF Free
  <2>2. ASSUME NEW v \in values PROVE right[v] = NULL /\ parent[v] = NULL
    <3>1. EndsRow(v) /\ owner[leftmost[v]] = NULL
      BY <2>1 DEF FreeInv
    <3>2. ~ Changing(leftmost[v])
      BY <2>1 DEF Changing, CallInv, Busy
    <3>3. QED
      BY <3>1, <3>2, RowEnds
  <2>3. QED
    BY <2>1, <2>2 DEF ValuesAreLists, FreeInv
<1>2. QED
  BY <1>1, Invariance, PTL

-----------------------------------------------------------------------------
(* What draw.c prints of a tree that ast.c has built.                      *)
(*                                                                         *)
(* The recursion of printGVNode goes down child and right links.  That it  *)
(* ends is an invariant of ast.c: there is a rank that falls along them.   *)
(* The rank makes PrintFrom a function, and what it prints is shown by     *)
(* induction on it.                                                        *)

(* The rank of a node falls to its children and to the right.  *)
Falls(rank) ==
  \A n \in Node :
    /\ right[n] # NULL => rank[right[n]] < rank[n]
    /\ child[n] # NULL => rank[child[n]] < rank[n]

FallsWithin(R) == \E rank \in [Node -> 0 .. R] : Falls(rank)

DescentInv == \E R \in Nat : FallsWithin(R)
-----------------------------------------------------------------------------
LEMMA InitDescent == ASSUME Init PROVE DescentInv
<1> DEFINE rank == [n \in Node |-> 0]
<1>1. rank \in [Node -> 0 .. 0]
  OBVIOUS
<1>2. Falls(rank)
  BY DEF Init, Nothing, Falls
<1>3. FallsWithin(0)
  BY <1>1, <1>2 DEF FallsWithin
<1> QED
  BY <1>3 DEF DescentInv

(* The children of p are below it; nothing leads to p.  *)
LEMMA AdoptDescent ==
  ASSUME IInv, TypeOK', DescentInv,
         NEW p \in values, NEW n \in 1 .. MaxArity, NEW children \in [1 .. n -> values \ {p}],
         Adopt(p, children)
  PROVE  DescentInv'
<1>1. PICK R \in Nat : FallsWithin(R)
  BY DEF DescentInv
<1>2. PICK rank \in [Node -> 0 .. R] : Falls(rank)
  BY <1>1 DEF FallsWithin
<1> DEFINE first == leftmost[children[1]]
           higher == [rank EXCEPT ![p] = R + 1]
<1>3. /\ pc = "parse" /\ leftmost[p] = p
      /\ child' = [child EXCEPT ![p] = first] /\ right' = right
  BY DEF Adopt, Single
<1>4. /\ p \in Free /\ children[1] \in Free /\ children[1] # p
  <2>1. 1 \in 1 .. n
    BY AstAssumption
  <2> QED
    BY <2>1 DEF Free
<1>5. /\ p \in Node /\ row[p] # << >> /\ right[p] = NULL /\ owner[p] = NULL
      /\ first \in Node /\ first # p /\ first # NULL
  <2>1. /\ EndsRow(p) /\ EndsRow(children[1]) /\ owner[p] = NULL
        /\ first # p
    BY <1>3, <1>4 DEF IInv, FreeInv
  <2> QED
    BY <2>1, <1>3, RowEnds, MadeNodes DEF IInv
<1>6. \A x \in Node : right[x] # p
  <2> SUFFICES ASSUME NEW x \in Node, right[x] = p PROVE FALSE
    OBVIOUS
  <2>1. ~ Changing(p)
    BY <1>3 DEF Changing
  <2>2. PICK h \in Made : \E i \in DOMAIN row[h] : row[h][i] = x
    <3>1. x \in Made
      BY <1>5, MadeNodes DEF IInv, RowsInv
    <3> QED
      BY <3>1 DEF IInv, CompleteInv
  <2>i. PICK i \in DOMAIN row[h] : row[h][i] = x
    BY <2>2
  <2>3. h \in Node /\ row[h] # << >> /\ ~ Changing(h)
    BY <2>i, <1>3, MadeNodes DEF IInv, Changing
  <2>4. /\ i \in 1 .. Len(row[h]) /\ Len(row[h]) \in Nat
        /\ i < Len(row[h]) /\ p = row[h][i + 1]
    <3>1. /\ right[row[h][i]] = IF i < Len(row[h]) THEN row[h][i + 1] ELSE NULL
          /\ i \in 1 .. Len(row[h]) /\ Len(row[h]) \in Nat
      BY <2>i, <2>3, InRow DEF IInv
    <3> QED
      BY <3>1, <2>i, <1>5, MadeNodes DEF IInv
  <2>5. h = p
    <3>1. i + 1 \in DOMAIN row[h]
      BY <2>4, <2>3, InRow DEF IInv
    <3> QED
      BY <3>1, <2>3, <2>4, <1>3, InRow, SMTT(30) DEF IInv
  <2>6. right[p] = row[p][2] /\ row[p][2] \in Node
    <3>1. 1 \in DOMAIN row[p] /\ 2 \in DOMAIN row[p] /\ 1 < Len(row[p]) /\ row[p][1] = p
      <4>1. DOMAIN row[p] = 1 .. Len(row[p]) /\ row[p][1] = p
        BY <1>5, InRow DEF IInv
      <4> QED
        BY <4>1, <2>4, <2>5
    <3>2. right[row[p][1]] = IF 1 < Len(row[p]) THEN row[p][1 + 1] ELSE NULL
      BY <3>1, <1>5, InRow DEF IInv
    <3>3. row[p][2] \in Node
      BY <3>1, <1>5, InRow DEF IInv
    <3> QED
      BY <3>1, <3>2, <3>3
  <2> QED
    BY <2>6, <1>5, MadeNodes DEF IInv
<1>7. \A x \in Node : child[x] # p
  <2> SUFFICES ASSUME NEW x \in Node, child[x] = p PROVE FALSE
    OBVIOUS
  <2>1. p # NULL /\ x # NULL
    BY <1>5, MadeNodes DEF Node, NULL
  <2>2. owner[p] = x
    BY <2>1 DEF IInv, OwnersInv
  <2> QED
    BY <2>1, <2>2, <1>5
<1>8. higher \in [Node -> 0 .. R + 1]
  <2>1. R + 1 \in 0 .. R + 1 /\ rank \in [Node -> 0 .. R + 1]
    BY <1>1, <1>2
  <2> QED
    BY <2>1
<1>9. Falls(higher)'
  <2> SUFFICES ASSUME NEW x \in Node
               PROVE  /\ right[x] # NULL => higher[right[x]] < higher[x]
                      /\ child'[x] # NULL => higher[child'[x]] < higher[x]
    BY <1>3 DEF Falls
  <2>1. right[x] \in Pointer /\ child[x] \in Pointer /\ child \in [Node -> Pointer]
    BY DEF IInv, TypeOK
  <2>2. rank[x] \in 0 .. R /\ \A y \in Node : rank[y] \in 0 .. R
    BY <1>2
  <2>3. ASSUME right[x] # NULL PROVE higher[right[x]] < higher[x]
    <3>1. right[x] \in Node /\ right[x] # p /\ x # p /\ rank[right[x]] < rank[x]
      BY <2>1, <2>3, <1>2, <1>5, <1>6 DEF Pointer, Falls
    <3> QED
      BY <3>1, <1>2
  <2>4. ASSUME child'[x] # NULL PROVE higher[child'[x]] < higher[x]
    <3>1. CASE x = p
      <4>1. child'[x] = first
        BY <3>1, <1>3, <2>1
      <4>2. higher[first] = rank[first] /\ higher[x] = R + 1
        BY <3>1, <1>2, <1>5
      <4> QED
        BY <4>1, <4>2, <2>2, <1>5
    <3>2. CASE x # p
      <4>1. child'[x] = child[x]
        BY <3>2, <1>3, <2>1
      <4>2. child[x] \in Node /\ child[x] # p /\ rank[child[x]] < rank[x]
        BY <4>1, <2>1, <2>4, <1>2, <1>7 DEF Pointer, Falls
      <4> QED
        BY <4>1, <4>2, <3>2, <1>2
    <3> QED
      BY <3>1, <3>2
  <2> QED
    BY <2>3, <2>4
<1>10. FallsWithin(R + 1)'
  <2> HIDE DEF higher
  <2> QED
    BY <1>8, <1>9 DEF FallsWithin
<1> QED
  BY <1>10 DEF DescentInv

Settled == pc \notin {"adopt", "fix"}

(* What the links of a node lead to while no row is being changed.  *)
LEMMA SettledLinks ==
  ASSUME IInv, Settled, NEW n \in Made
  PROVE  /\ n \in Node /\ leftmost[n] \in Made /\ row[leftmost[n]] # << >>
         /\ \E i \in DOMAIN row[leftmost[n]] : row[leftmost[n]][i] = n
         /\ leftmost[leftmost[n]] = leftmost[n]
         /\ right[n] # NULL => right[n] \in Made /\ leftmost[right[n]] = leftmost[n]
         /\ child[n] # NULL =>
              child[n] \in Made /\ leftmost[child[n]] = child[n] /\ owner[child[n]] = n
<1>1. \A h : ~ Changing(h)
  BY DEF Settled, Changing
<1>2. PICK h \in Made : \E i \in DOMAIN row[h] : row[h][i] = n
  BY DEF IInv, CompleteInv
<1>3. PICK i \in DOMAIN row[h] : row[h][i] = n
  BY <1>2
<1>4. h \in Node /\ row[h] # << >>
  BY <1>3, MadeNodes DEF IInv
<1>5. /\ Len(row[h]) \in Nat /\ DOMAIN row[h] = 1 .. Len(row[h]) /\ leftmost[h] = h
      /\ \A k \in DOMAIN row[h] :
           /\ row[h][k] \in Made /\ leftmost[row[h][k]] = h
           /\ right[row[h][k]] = IF k < Len(row[h]) THEN row[h][k + 1] ELSE NULL
  BY <1>1, <1>4, InRow DEF IInv
<1>6. n \in Node /\ leftmost[n] = h
  BY <1>3, <1>5, MadeNodes DEF IInv
<1>7. ASSUME right[n] # NULL PROVE right[n] \in Made /\ leftmost[right[n]] = leftmost[n]
  <2>1. i < Len(row[h]) /\ right[n] = row[h][i + 1]
    BY <1>3, <1>5, <1>7
  <2>2. i + 1 \in DOMAIN row[h]
    BY <1>3, <1>5, <2>1
  <2> QED
    BY <2>1, <2>2, <1>5, <1>6
<1>8. ASSUME child[n] # NULL
      PROVE  child[n] \in Made /\ leftmost[child[n]] = child[n] /\ owner[child[n]] = n
  <2>1. row[child[n]] # << >> /\ owner[child[n]] = n /\ child[n] \in Node
    BY <1>6, <1>8 DEF IInv, OwnersInv, TypeOK, Pointer
  <2> QED
    BY <2>1, <1>1, InRow DEF IInv
<1> QED
  BY <1>2, <1>4, <1>5, <1>6, <1>7, <1>8

(* The row that is continued, and the one of its owner, move up.  *)
LEMMA WalkDescent ==
  ASSUME IInv, TypeOK', DescentInv, Walk
  PROVE  DescentInv'
<1>1. PICK R \in Nat : FallsWithin(R)
  BY DEF DescentInv
<1>2. PICK rank \in [Node -> 0 .. R] : Falls(rank)
  BY <1>1 DEF FallsWithin
<1> DEFINE h == leftmost[node]
           first == leftmost[sibling]
           U == {n \in Made : leftmost[n] = h \/ (result # NULL /\ leftmost[n] = leftmost[result])}
           higher == [n \in Node |-> IF n \in U THEN rank[n] + R + 1 ELSE rank[n]]
<1>3. CASE right[node] # NULL
  <2>1. child' = child /\ right' = right
    BY <1>3 DEF Walk
  <2>2. Falls(rank)'
    BY <1>2, <2>1 DEF Falls
  <2>3. FallsWithin(R)'
    BY <1>2, <2>2 DEF FallsWithin
  <2> QED
    BY <2>3 DEF DescentInv
<1>4. CASE right[node] = NULL
  <2>1. pc = "walk" /\ child' = child /\ right' = [right EXCEPT ![node] = first]
    BY <1>4 DEF Walk
  <2>2. Settled /\ Busy
    BY <2>1 DEF Settled, Busy
  <2>3. sibling \in Free /\ (result # NULL => result \in Free /\ result # sibling)
    BY <2>1 DEF Free, Busy, Taken, Parent, IInv, HeldOnce
  <2>4. /\ node \in Made /\ owner[h] = result /\ first # h
        /\ result # NULL => leftmost[result] # h
    BY <2>2, <2>3 DEF IInv, CallInv
  <2>5. /\ sibling \in Made /\ owner[first] = NULL
        /\ result # NULL => /\ result \in Made /\ owner[leftmost[result]] = NULL
                            /\ leftmost[result] # first
    BY <2>3 DEF IInv, FreeInv, EndsRow
  <2>6. first \in Made /\ leftmost[first] = first /\ first # NULL /\ first \in Node
    BY <2>2, <2>5, SettledLinks, MadeNodes DEF IInv
  <2>7. first \notin U /\ node \in U /\ node \in Node
    BY <2>4, <2>5, <2>6, MadeNodes DEF IInv
  <2>8. \A n \in Node \ U : right[n] # NULL => right[n] \in Node \ U
    <3> SUFFICES ASSUME NEW n \in Node \ U, right[n] # NULL PROVE right[n] \in Node \ U
      OBVIOUS
    <3>1. n \in Made
      BY DEF IInv, RowsInv
    <3>2. right[n] \in Made /\ leftmost[right[n]] = leftmost[n]
      BY <3>1, <2>2, SettledLinks
    <3> QED
      BY <3>1, <3>2, MadeNodes DEF IInv
  <2>9. \A n \in Node \ U : child[n] # NULL => child[n] \in Node \ U
    <3> SUFFICES ASSUME NEW n \in Node \ U, child[n] # NULL PROVE child[n] \in Node \ U
      OBVIOUS
    <3>1. n \in Made /\ n # NULL
      BY MadeNodes DEF IInv, OwnersInv
    <3>2. child[n] \in Made /\ leftmost[child[n]] = child[n] /\ owner[child[n]] = n
      BY <3>1, <2>2, SettledLinks
    <3>3. child[n] # h
      <4>1. ASSUME child[n] = h PROVE n \in U
        <5>1. result = n
          BY <4>1, <3>2, <2>4
        <5> QED
          BY <5>1, <3>1
      <4> QED
        BY <4>1
    <3>4. result # NULL => child[n] # leftmost[result]
      BY <3>1, <3>2, <2>5
    <3> QED
      BY <3>2, <3>3, <3>4, MadeNodes DEF IInv
  <2>10. /\ \A n \in U : n \in Node /\ higher[n] = rank[n] + R + 1 /\ rank[n] \in 0 .. R
         /\ \A n \in Node \ U : higher[n] = rank[n] /\ rank[n] \in 0 .. R
    BY <1>2, MadeNodes DEF IInv
  <2>11. higher \in [Node -> 0 .. R + R + 1]
    <3>1. \A n \in Node : higher[n] \in 0 .. R + R + 1
      BY <2>10, <1>1
    <3> QED
      BY <3>1
  <2>12. PICK up : up = higher
    OBVIOUS
  <2>13. Falls(up)'
    <3> HIDE DEF U, higher
    <3> SUFFICES ASSUME NEW n \in Node
                 PROVE  /\ right'[n] # NULL => higher[right'[n]] < higher[n]
                        /\ child[n] # NULL => higher[child[n]] < higher[n]
      BY <2>1, <2>12 DEF Falls
    <3>1. right[n] \in Pointer /\ child[n] \in Pointer /\ right \in [Node -> Pointer]
      BY DEF IInv, TypeOK
    <3>2. ASSUME NEW m \in Node, rank[m] < rank[n], n \in U \/ m \in Node \ U
          PROVE  higher[m] < higher[n]
      BY <3>2, <2>10, <1>1
    <3>3. ASSUME child[n] # NULL PROVE higher[child[n]] < higher[n]
      <4>1. child[n] \in Node /\ rank[child[n]] < rank[n]
        BY <3>1, <3>3, <1>2 DEF Pointer, Falls
      <4> QED
        BY <4>1, <3>2, <3>3, <2>9
    <3>4. ASSUME right'[n] # NULL PROVE higher[right'[n]] < higher[n]
      <4>1. CASE n = node
        <5>1. right'[n] = first
          BY <4>1, <2>1, <3>1, <2>7
        <5>2. higher[first] = rank[first] /\ rank[first] \in 0 .. R
          BY <2>6, <2>7, <2>10
        <5>3. higher[node] = rank[node] + R + 1 /\ rank[node] \in 0 .. R
          BY <2>7, <2>10
        <5> QED
          BY <5>1, <5>2, <5>3, <4>1, <1>1
      <4>2. CASE n # node
        <5>1. right'[n] = right[n]
          BY <4>2, <2>1, <3>1
        <5>2. right[n] \in Node /\ rank[right[n]] < rank[n]
          BY <5>1, <3>1, <3>4, <1>2 DEF Pointer, Falls
        <5> QED
          BY <5>1, <5>2, <3>2, <3>4, <2>8
      <4> QED
        BY <4>1, <4>2
    <3> QED
      BY <3>3, <3>4
  <2>14. FallsWithin(R + R + 1)'
    <3>1. up \in [Node -> 0 .. R + R + 1]
      BY <2>11, <2>12
    <3> HIDE DEF higher
    <3> QED
      BY <3>1, <2>13 DEF FallsWithin
  <2>15. R + R + 1 \in Nat
    BY <1>1
  <2> QED
    BY <2>14, <2>15 DEF DescentInv
<1> QED
  BY <1>3, <1>4

LEMMA StepDescent ==
  ASSUME IInv, IInv', DescentInv, [Next]_vars
  PROVE  DescentInv'
<1>1. TypeOK'
  BY DEF IInv
<1>2. ASSUME child' = child, right' = right PROVE DescentInv'
  <2>1. PICK R \in Nat : FallsWithin(R)
    BY DEF DescentInv
  <2>2. PICK rank \in [Node -> 0 .. R] : Falls(rank)
    BY <2>1 DEF FallsWithin
  <2>3. Falls(rank)'
    BY <1>2, <2>2 DEF Falls
  <2>4. FallsWithin(R)'
    BY <2>2, <2>3 DEF FallsWithin
  <2> QED
    BY <2>4 DEF DescentInv
<1>3. CASE Parse
  <2>1. CASE New
    BY <2>1, <1>2 DEF New
  <2>2. ASSUME NEW list \in values, NEW item \in values, Join(list, item) PROVE DescentInv'
    BY <2>2, <1>2 DEF Join, links
  <2>3. ASSUME NEW p \in values, NEW n \in 1 .. MaxArity,
               NEW children \in [1 .. n -> values \ {p}], Adopt(p, children)
        PROVE  DescentInv'
    BY <2>3, <1>1, AdoptDescent
  <2> QED
    BY <1>3, <2>1, <2>2, <2>3 DEF Parse
<1>4. CASE Reduce
  <2>1. CASE SetParent
    BY <2>1, <1>2 DEF SetParent
  <2>2. CASE NextArg
    BY <2>2, <1>2 DEF NextArg, links
  <2>3. CASE Walk
    BY <2>3, <1>1, WalkDescent
  <2>4. CASE Fix
    BY <2>4, <1>2 DEF Fix
  <2> QED
    BY <1>4, <2>1, <2>2, <2>3, <2>4 DEF Reduce
<1>5. CASE UNCHANGED vars
  BY <1>5, <1>2 DEF vars, links
<1> QED
  BY <1>3, <1>4, <1>5 DEF Next, Parsed

(* ast.c: no node is below itself, at any time.  The recursions over the   *)
(* tree (draw.c, semantic-analysis.c, code-generation.c) end.              *)
THEOREM TreesEnd == Spec => []DescentInv
<1>1. Init => DescentInv
  BY InitDescent
<1>2. IInv /\ IInv' /\ DescentInv /\ [Next]_vars => DescentInv'
  BY StepDescent
<1> QED
  BY <1>1, <1>2, Invariance, PTL DEF Spec

-----------------------------------------------------------------------------
(* PrintFrom is a function: it is built up along a rank.  *)

Printing(f, c) ==
  [id \in Nat |-> [count \in Nat |->
    IF c = NULL
    THEN Printed(count, << >>, << >>)
    ELSE AfterChild(c, id, count + 1,
                    f[child[c]][count + 1][count + 1],
                    f[right[c]][id])]]

Low(rank, r) == {c \in Pointer : c # NULL => rank[c] < r}

LEMMA PrintingDefined ==
  ASSUME TypeOK, NEW R \in Nat, NEW rank \in [Node -> 0 .. R], Falls(rank)
  PROVE  PrintFrom = [c \in Pointer |-> Printing(PrintFrom, c)]
<1> DEFINE Built(f, r) == f = [c \in Low(rank, r) |-> Printing(f, c)]
           A == {r \in Nat : \E f : Built(f, r)}
<1>1. NULL \notin Node
  BY MadeNodes
<1>2. 0 \in A
  <2>1. Low(rank, 0) = {NULL}
    BY <1>1 DEF Low, Pointer
  <2> DEFINE f == [c \in Low(rank, 0) |-> Printing(0, c)]
  <2>2. Printing(f, NULL) = Printing(0, NULL)
    BY DEF Printing
  <2>3. Built(f, 0)
    BY <2>1, <2>2
  <2> QED
    BY <2>3
<1>3. ASSUME NEW r \in Nat, r \in A PROVE r + 1 \in A
  <2>1. PICK f : Built(f, r)
    BY <1>3
  <2> DEFINE g == [c \in Low(rank, r + 1) |-> Printing(f, c)]
  <2>2. Low(rank, r) \subseteq Low(rank, r + 1)
    BY DEF Low, Pointer
  <2>3. \A c \in Low(rank, r) : g[c] = f[c]
    <3> SUFFICES ASSUME NEW c \in Low(rank, r) PROVE g[c] = f[c]
      OBVIOUS
    <3>1. f[c] = Printing(f, c)
      BY <2>1
    <3> HIDE DEF Built
    <3>2. g[c] = Printing(f, c)
      BY <2>2
    <3> QED
      BY <3>1, <3>2
  <2>4. \A c \in Low(rank, r + 1) : Printing(g, c) = Printing(f, c)
    <3> HIDE DEF g, Built
    <3> SUFFICES ASSUME NEW c \in Low(rank, r + 1) PROVE Printing(g, c) = Printing(f, c)
      OBVIOUS
    <3>1. CASE c = NULL
      BY <3>1 DEF Printing
    <3>2. CASE c # NULL
      <4>1. c \in Node /\ rank[c] <= r /\ rank[c] \in 0 .. R
        BY <3>2 DEF Low, Pointer
      <4>2. right[c] \in Pointer /\ child[c] \in Pointer
        BY <4>1 DEF TypeOK
      <4>3. right[c] \in Low(rank, r)
        BY <4>1, <4>2 DEF Low, Falls, Pointer
      <4>4. child[c] \in Low(rank, r)
        BY <4>1, <4>2 DEF Low, Falls, Pointer
      <4>5. g[right[c]] = f[right[c]] /\ g[child[c]] = f[child[c]]
        BY <2>3, <4>3, <4>4
      <4> QED
        BY <4>5 DEF Printing
    <3> QED
      BY <3>1, <3>2
  <2>5. Built(g, r + 1)
    BY <2>4
  <2> HIDE DEF Built, g
  <2> QED
    BY <2>5
<1>4. R + 1 \in A
  <2> HIDE DEF A
  <2>1. Nat \subseteq A
    BY <1>2, <1>3, SetInduction
  <2> QED
    BY <2>1
<1>5. Low(rank, R + 1) = Pointer
  BY <1>1 DEF Low, Pointer
<1>6. \E f : f = [c \in Pointer |-> Printing(f, c)]
  BY <1>4, <1>5
<1> QED
  BY <1>6, Zenon DEF PrintFrom, Printing

(* What the loop prints, one iteration unfolded.  *)
LEMMA PrintFromNull ==
  ASSUME TypeOK, NEW R \in Nat, NEW rank \in [Node -> 0 .. R], Falls(rank),
         NEW id \in Nat, NEW count \in Nat
  PROVE  PrintFrom[NULL][id][count] = Printed(count, << >>, << >>)
<1>1. PrintFrom[NULL] = Printing(PrintFrom, NULL)
  <2>1. NULL \in Pointer
    BY DEF Pointer
  <2> QED
    BY <2>1, PrintingDefined
<1> QED
  BY <1>1 DEF Printing

LEMMA PrintFromNode ==
  ASSUME TypeOK, NEW R \in Nat, NEW rank \in [Node -> 0 .. R], Falls(rank),
         NEW c \in Node, NEW id \in Nat, NEW count \in Nat
  PROVE  PrintFrom[c][id][count] =
           AfterChild(c, id, count + 1,
                      PrintFrom[child[c]][count + 1][count + 1], PrintFrom[right[c]][id])
<1>1. PrintFrom[c] = Printing(PrintFrom, c)
  <2>1. c \in Pointer
    BY DEF Pointer
  <2> QED
    BY <2>1, PrintingDefined
<1>2. c # NULL
  BY MadeNodes
<1> QED
  BY <1>1, <1>2 DEF Printing
-----------------------------------------------------------------------------
(* The shape of a tree.  *)

RightFrom(rank, n) ==
  right[n] # NULL =>
    /\ right[n] \in Made /\ rank[right[n]] < rank[n]
    /\ leftmost[right[n]] = leftmost[n] /\ leftmost[right[n]] # right[n]

ChildOf(rank, n) ==
  child[n] # NULL =>
    /\ child[n] \in Made /\ rank[child[n]] < rank[n]
    /\ leftmost[child[n]] = child[n] /\ owner[child[n]] = n

OwnerOf(rank, n) ==
  LET h == leftmost[n] IN
  /\ h \in Made /\ rank[n] <= rank[h]
  /\ owner[h] # NULL => owner[h] \in Made /\ child[owner[h]] = h

TreeShape(rank) ==
  /\ \A n \in Made : n \in Node /\ n # NULL /\ rank[n] \in Nat
  /\ \A n \in Made : RightFrom(rank, n) /\ ChildOf(rank, n) /\ OwnerOf(rank, n)
  /\ \A m, n \in Made : right[m] # NULL /\ right[m] = right[n] => m = n

LEMMA RowFalls ==
  ASSUME IInv, Settled, NEW R \in Nat, NEW rank \in [Node -> 0 .. R], Falls(rank),
         NEW h \in Node, row[h] # << >>,
         NEW i \in DOMAIN row[h], NEW j \in DOMAIN row[h], i < j
  PROVE  rank[row[h][j]] < rank[row[h][i]]
<1>1. /\ DOMAIN row[h] = 1 .. Len(row[h]) /\ Len(row[h]) \in Nat
      /\ \A k \in DOMAIN row[h] :
           /\ row[h][k] \in Node
           /\ right[row[h][k]] = IF k < Len(row[h]) THEN row[h][k + 1] ELSE NULL
  BY InRow DEF IInv
<1>n. i \in Nat /\ j \in Nat
  BY <1>1
<1>l. DOMAIN row[h] = 1 .. Len(row[h]) /\ Len(row[h]) \in Nat
  BY <1>1
<1>2. ASSUME NEW k \in DOMAIN row[h], k < Len(row[h])
      PROVE  rank[row[h][k + 1]] < rank[row[h][k]]
  <2>1. right[row[h][k]] = row[h][k + 1] /\ row[h][k + 1] \in Node /\ row[h][k] \in Node
    BY <1>1, <1>2, SMTT(30)
  <2> QED
    BY <2>1, MadeNodes DEF Falls, IInv
<1>3. \A k \in DOMAIN row[h] : rank[row[h][k]] \in Nat
  <2>1. \A n \in Node : rank[n] \in Nat
    OBVIOUS
  <2> QED
    BY <1>1, <2>1
<1> DEFINE A == {d \in Nat : i + 1 + d \in DOMAIN row[h] => rank[row[h][i + 1 + d]] < rank[row[h][i]]}
<1>4. 0 \in A
  <2>1. i < Len(row[h]) /\ i + 1 + 0 = i + 1
    BY <1>1
  <2> QED
    BY <2>1, <1>2
<1>5. \A d \in Nat : d \in A => d + 1 \in A
  <2> SUFFICES ASSUME NEW d \in Nat, d \in A, i + 1 + (d + 1) \in DOMAIN row[h]
               PROVE  rank[row[h][i + 1 + (d + 1)]] < rank[row[h][i]]
    OBVIOUS
  <2>1. PICK k : k = i + 1 + d
    OBVIOUS
  <2>2. /\ k \in DOMAIN row[h] /\ k < Len(row[h])
        /\ i + 1 + (d + 1) = k + 1 /\ k + 1 \in DOMAIN row[h]
    <3>1. k \in Nat /\ i + 1 + (d + 1) = k + 1 /\ 1 <= k
      BY <2>1, <1>n
    <3>2. k + 1 \in 1 .. Len(row[h])
      BY <3>1, <1>1
    <3>3. k < Len(row[h]) /\ k \in 1 .. Len(row[h])
      BY <3>1, <3>2, <1>l
    <3> QED
      BY <3>1, <3>2, <3>3, <1>l
  <2>3. rank[row[h][k]] < rank[row[h][i]]
    BY <2>1, <2>2
  <2>4. rank[row[h][k + 1]] < rank[row[h][k]]
    BY <2>2, <1>2
  <2>5. rank[row[h][k + 1]] \in Nat /\ rank[row[h][k]] \in Nat /\ rank[row[h][i]] \in Nat
    BY <2>2, <1>3
  <2>6. rank[row[h][k + 1]] < rank[row[h][i]]
    BY <2>3, <2>4, <2>5
  <2> QED
    BY <2>2, <2>6
<1>6. j - i - 1 \in Nat /\ i + 1 + (j - i - 1) = j
  BY <1>n
<1> HIDE DEF A
<1>7. j - i - 1 \in A
  BY <1>4, <1>5, <1>6, SetInduction
<1> QED
  BY <1>6, <1>7 DEF A

LEMMA TreeShaped ==
  ASSUME IInv, Settled, NEW R \in Nat, NEW rank \in [Node -> 0 .. R], Falls(rank)
  PROVE  TreeShape(rank)
<1>1. \A n \in Made : n \in Node /\ n # NULL /\ rank[n] \in Nat
  BY MadeNodes DEF IInv
<1>2. ASSUME NEW n \in Made
      PROVE  \E i \in DOMAIN row[leftmost[n]] : row[leftmost[n]][i] = n
  BY SettledLinks
<1>3. ASSUME NEW n \in Made, NEW i \in DOMAIN row[leftmost[n]], row[leftmost[n]][i] = n,
             right[n] # NULL
      PROVE  i + 1 \in DOMAIN row[leftmost[n]] /\ row[leftmost[n]][i + 1] = right[n]
  <2>1. leftmost[n] \in Node /\ row[leftmost[n]] # << >>
    BY <1>1, SettledLinks
  <2>2. /\ DOMAIN row[leftmost[n]] = 1 .. Len(row[leftmost[n]]) /\ Len(row[leftmost[n]]) \in Nat
        /\ right[row[leftmost[n]][i]] =
             IF i < Len(row[leftmost[n]]) THEN row[leftmost[n]][i + 1] ELSE NULL
    BY <2>1, InRow DEF IInv
  <2> QED
    BY <2>2, <1>3
<1>4. ASSUME NEW n \in Made
      PROVE  /\ leftmost[n] \in Made /\ row[leftmost[n]][1] = leftmost[n]
             /\ 1 \in DOMAIN row[leftmost[n]] /\ leftmost[n] \in Node
             /\ DOMAIN row[leftmost[n]] \subseteq Nat /\ row[leftmost[n]] # << >>
             /\ \A i \in DOMAIN row[leftmost[n]] : 1 <= i
  <2>1. leftmost[n] \in Made /\ leftmost[n] \in Node /\ row[leftmost[n]] # << >>
    BY <1>1, SettledLinks
  <2>2. /\ DOMAIN row[leftmost[n]] = 1 .. Len(row[leftmost[n]]) /\ Len(row[leftmost[n]]) \in Nat
        /\ row[leftmost[n]][1] = leftmost[n] /\ 1 \in DOMAIN row[leftmost[n]]
    BY <2>1, InRow DEF IInv
  <2> QED
    BY <2>1, <2>2
<1>5. ASSUME NEW n \in Made PROVE RightFrom(rank, n)
  <2> SUFFICES ASSUME right[n] # NULL
               PROVE  /\ right[n] \in Made /\ rank[right[n]] < rank[n]
                      /\ leftmost[right[n]] = leftmost[n] /\ leftmost[right[n]] # right[n]
    BY DEF RightFrom
  <2>1. right[n] \in Made /\ leftmost[right[n]] = leftmost[n]
    BY SettledLinks
  <2>2. rank[right[n]] < rank[n]
    BY <1>1 DEF Falls
  <2>3. PICK i \in DOMAIN row[leftmost[n]] : row[leftmost[n]][i] = n
    BY <1>2
  <2>4. i + 1 \in DOMAIN row[leftmost[n]] /\ row[leftmost[n]][i + 1] = right[n]
    BY <2>3, <1>3
  <2>5. 1 < i + 1
    <3>1. i \in Nat /\ 1 <= i
      BY <1>4
    <3> QED
      BY <3>1
  <2>6. rank[row[leftmost[n]][i + 1]] < rank[row[leftmost[n]][1]]
    BY <1>4, <2>4, <2>5, RowFalls
  <2>7. rank[right[n]] < rank[leftmost[n]]
    BY <2>4, <2>6, <1>4
  <2> QED
    BY <2>1, <2>2, <2>7, <1>1
<1>6. ASSUME NEW n \in Made PROVE ChildOf(rank, n)
  BY <1>1, SettledLinks DEF ChildOf, Falls
<1>7. ASSUME NEW n \in Made PROVE OwnerOf(rank, n)
  <2>1. rank[n] <= rank[leftmost[n]]
    <3>1. PICK i \in DOMAIN row[leftmost[n]] : row[leftmost[n]][i] = n
      BY <1>2
    <3>2. CASE i = 1
      BY <3>1, <3>2, <1>4, <1>1
    <3>3. CASE 1 < i
      <4>1. rank[row[leftmost[n]][i]] < rank[row[leftmost[n]][1]]
        BY <1>4, <3>3, RowFalls
      <4> QED
        BY <4>1, <3>1, <1>4, <1>1
    <3> QED
      BY <3>2, <3>3, <1>4
  <2> QED
    BY <2>1, <1>4 DEF OwnerOf, IInv, OwnersInv
<1>8. ASSUME NEW m \in Made, NEW n \in Made, right[m] # NULL, right[m] = right[n]
      PROVE  m = n
  <2>1. leftmost[m] = leftmost[n]
    BY <1>8, <1>5 DEF RightFrom
  <2>2. PICK i \in DOMAIN row[leftmost[m]] : row[leftmost[m]][i] = m
    BY <1>2
  <2>3. PICK j \in DOMAIN row[leftmost[n]] : row[leftmost[n]][j] = n
    BY <1>2
  <2>4. /\ i + 1 \in DOMAIN row[leftmost[m]] /\ row[leftmost[m]][i + 1] = right[m]
        /\ j + 1 \in DOMAIN row[leftmost[m]] /\ row[leftmost[m]][j + 1] = right[m]
        /\ i \in Nat /\ j \in Nat
    BY <1>3, <1>4, <1>8, <2>1, <2>2, <2>3
  <2>5. right[m] \in Node /\ rank[right[m]] \in Nat
    BY <1>1, <1>5, <1>8 DEF RightFrom
  <2>6. ~ (i + 1 < j + 1)
    <3>1. ASSUME i + 1 < j + 1 PROVE FALSE
      <4>1. rank[row[leftmost[m]][j + 1]] < rank[row[leftmost[m]][i + 1]]
        BY <3>1, <1>4, <2>4, RowFalls
      <4> QED
        BY <4>1, <2>4, <2>5
    <3> QED
      BY <3>1
  <2>7. ~ (j + 1 < i + 1)
    <3>1. ASSUME j + 1 < i + 1 PROVE FALSE
      <4>1. rank[row[leftmost[m]][i + 1]] < rank[row[leftmost[m]][j + 1]]
        BY <3>1, <1>4, <2>4, RowFalls
      <4> QED
        BY <4>1, <2>4, <2>5
    <3> QED
      BY <3>1
  <2> QED
    BY <2>1, <2>2, <2>3, <2>4, <2>6, <2>7
<1> QED
  BY <1>1, <1>5, <1>6, <1>7, <1>8 DEF TreeShape

-----------------------------------------------------------------------------
(* The nodes that the loop reaches from c on: c and the nodes to the right *)
(* of it, and what is below them.                                          *)

On(s) == {s[i] : i \in DOMAIN s}
Distinct(s) == \A i, j \in DOMAIN s : s[i] = s[j] => i = j

Leads(m, n) == right[m] = n \/ child[m] = n

Reached(rank, c, X) ==
  /\ X \subseteq Made
  /\ IF c = NULL THEN X = {} ELSE c \in X
  /\ \A x \in X : rank[x] <= rank[c]
  /\ \A x \in X : x # c => \E y \in X : Leads(y, x)
  /\ \A x \in X : leftmost[x] # leftmost[c] => owner[leftmost[x]] \in X
  /\ \A x \in X : right[x] # NULL => right[x] \in X
  /\ \A x \in X : child[x] # NULL => child[x] \in X

(* Only one link leads to a node.  *)
LEMMA OneLeads ==
  ASSUME NEW rank, TreeShape(rank), NEW l \in Made, NEW m \in Made, NEW n \in Made,
         Leads(l, n), Leads(m, n)
  PROVE  l = m
<1>1. n # NULL
  BY DEF TreeShape
<1>2. RightFrom(rank, l) /\ RightFrom(rank, m) /\ ChildOf(rank, l) /\ ChildOf(rank, m)
  BY DEF TreeShape
<1>3. CASE right[l] = n /\ right[m] = n
  BY <1>1, <1>3 DEF TreeShape
<1>4. CASE child[l] = n /\ child[m] = n
  BY <1>1, <1>2, <1>4 DEF ChildOf
<1>5. CASE right[l] = n /\ child[m] = n
  BY <1>1, <1>2, <1>5 DEF ChildOf, RightFrom
<1>6. CASE child[l] = n /\ right[m] = n
  BY <1>1, <1>2, <1>6 DEF ChildOf, RightFrom
<1> QED
  BY <1>3, <1>4, <1>5, <1>6 DEF Leads

(* What is below c and what is to its right have no node in common.  *)
LEMMA ReachedApart ==
  ASSUME NEW rank, TreeShape(rank), NEW c \in Made,
         NEW S, NEW T, Reached(rank, child[c], S), Reached(rank, right[c], T)
  PROVE  c \notin S /\ c \notin T /\ S \cap T = {}
<1>1. RightFrom(rank, c) /\ ChildOf(rank, c) /\ rank[c] \in Nat
  BY DEF TreeShape
<1>2. \A x \in S : x \in Made /\ rank[x] \in Nat /\ rank[x] < rank[c] /\ child[c] # NULL
  <2> SUFFICES ASSUME NEW x \in S
               PROVE  x \in Made /\ rank[x] \in Nat /\ rank[x] < rank[c] /\ child[c] # NULL
    OBVIOUS
  <2>1. x \in Made /\ child[c] # NULL /\ rank[x] <= rank[child[c]]
    BY DEF Reached
  <2>2. rank[x] \in Nat /\ rank[child[c]] \in Nat /\ rank[child[c]] < rank[c]
    BY <1>1, <2>1 DEF TreeShape, ChildOf
  <2> QED
    BY <2>1, <2>2, <1>1
<1>3. \A x \in T : x \in Made /\ rank[x] \in Nat /\ rank[x] < rank[c] /\ right[c] # NULL
  <2> SUFFICES ASSUME NEW x \in T
               PROVE  x \in Made /\ rank[x] \in Nat /\ rank[x] < rank[c] /\ right[c] # NULL
    OBVIOUS
  <2>1. x \in Made /\ right[c] # NULL /\ rank[x] <= rank[right[c]]
    BY DEF Reached
  <2>2. rank[x] \in Nat /\ rank[right[c]] \in Nat /\ rank[right[c]] < rank[c]
    BY <1>1, <2>1 DEF TreeShape, RightFrom
  <2> QED
    BY <2>1, <2>2, <1>1
<1>4. c \notin S /\ c \notin T
  BY <1>1, <1>2, <1>3
<1>5. ASSUME S \cap T # {} PROVE FALSE
  <2> DEFINE N == {rank[x] : x \in S \cap T}
  <2>1. N \in SUBSET (0 .. rank[c]) /\ N # {}
    BY <1>1, <1>2, <1>5
  <2>2. PICK m \in N : \A k \in N : k <= m
    <3> HIDE DEF N
    <3> QED
      BY <1>1, <2>1, GreatestNumber
  <2>3. PICK x \in S \cap T : rank[x] = m
    BY <2>2
  <2>4. \A y \in S \cap T : rank[y] <= rank[x]
    BY <2>2, <2>3
  <2>5. x \in Made /\ child[c] # NULL /\ right[c] # NULL
    BY <1>2, <1>3
  <2>6. x # child[c]
    <3>1. ASSUME x = child[c] PROVE FALSE
      <4>1. x # right[c]
        BY <2>5, <3>1, <1>1 DEF RightFrom, ChildOf
      <4>2. PICK y \in T : Leads(y, x)
        BY <4>1 DEF Reached
      <4>3. Leads(c, x)
        BY <3>1 DEF Leads
      <4>4. y = c
        BY <4>2, <4>3, <2>5, <1>3, OneLeads
      <4> QED
        BY <4>4, <1>4
    <3> QED
      BY <3>1
  <2>7. x # right[c]
    <3>1. ASSUME x = right[c] PROVE FALSE
      <4>1. PICK y \in S : Leads(y, x)
        BY <2>6 DEF Reached
      <4>2. Leads(c, x)
        BY <3>1 DEF Leads
      <4>3. y = c
        BY <4>1, <4>2, <2>5, <1>2, OneLeads
      <4> QED
        BY <4>3, <1>4
    <3> QED
      BY <3>1
  <2>8. PICK y \in S : Leads(y, x)
    BY <2>6 DEF Reached
  <2>9. PICK z \in T : Leads(z, x)
    BY <2>7 DEF Reached
  <2>10. y = z
    BY <2>5, <2>8, <2>9, <1>2, <1>3, OneLeads
  <2>11. rank[x] < rank[y]
    <3>1. y \in Made /\ x # NULL
      BY <1>2, <2>5 DEF TreeShape
    <3> QED
      BY <3>1, <2>8 DEF Leads, TreeShape, RightFrom, ChildOf
  <2>12. rank[y] <= rank[x]
    BY <2>4, <2>10
  <2>13. rank[x] \in Nat /\ rank[y] \in Nat
    BY <1>2
  <2> QED
    BY <2>11, <2>12, <2>13
<1> QED
  BY <1>4, <1>5

(* The row of c is not found below c; its children are the first row.  *)
LEMMA ReachedBelow ==
  ASSUME NEW rank, TreeShape(rank), NEW c \in Made,
         NEW S, Reached(rank, child[c], S), NEW x \in S
  PROVE  /\ leftmost[x] # leftmost[c]
         /\ leftmost[x] = leftmost[child[c]] => owner[leftmost[x]] = c
<1>1. child[c] # NULL /\ x \in Made /\ child[c] \in Made
  BY DEF Reached, TreeShape, ChildOf
<1>2. /\ leftmost[child[c]] = child[c] /\ owner[child[c]] = c /\ rank[child[c]] < rank[c]
      /\ OwnerOf(rank, c)
  BY <1>1 DEF TreeShape, ChildOf
<1>3. leftmost[c] \in Made /\ rank[c] <= rank[leftmost[c]]
  BY <1>2 DEF OwnerOf
<1>4. rank[c] \in Nat /\ rank[child[c]] \in Nat /\ rank[leftmost[c]] \in Nat
  BY <1>1, <1>3 DEF TreeShape
<1>5. leftmost[c] # child[c]
  BY <1>2, <1>3, <1>4
<1>6. ASSUME leftmost[x] = leftmost[c] PROVE FALSE
  <2>1. owner[leftmost[c]] \in S
    BY <1>2, <1>5, <1>6 DEF Reached
  <2> DEFINE o == owner[leftmost[c]]
  <2>2. o \in Made /\ o # NULL /\ rank[o] \in Nat /\ rank[o] <= rank[child[c]]
    BY <2>1 DEF Reached, TreeShape
  <2>3. child[o] = leftmost[c] /\ leftmost[c] # NULL
    BY <1>2, <1>3, <2>2 DEF OwnerOf, TreeShape
  <2>4. rank[leftmost[c]] < rank[o]
    BY <2>2, <2>3 DEF TreeShape, ChildOf
  <2> QED
    BY <2>2, <2>4, <1>2, <1>3, <1>4
<1> QED
  BY <1>2, <1>6

LEMMA ReachedTogether ==
  ASSUME NEW rank, TreeShape(rank), NEW c \in Made,
         NEW S, NEW T, Reached(rank, child[c], S), Reached(rank, right[c], T)
  PROVE  Reached(rank, c, {c} \cup S \cup T)
<1> DEFINE X == {c} \cup S \cup T
<1>1. /\ RightFrom(rank, c) /\ ChildOf(rank, c) /\ rank[c] \in Nat /\ c # NULL
      /\ S \subseteq Made /\ T \subseteq Made
  BY DEF TreeShape, Reached
<1>2. S # {} => child[c] \in S /\ child[c] # NULL
  BY DEF Reached
<1>3. T # {} => right[c] \in T /\ right[c] # NULL
  BY DEF Reached
<1>4. \A x \in X : rank[x] <= rank[c]
  <2>1. ASSUME NEW x \in S PROVE rank[x] <= rank[c]
    <3>1. rank[x] <= rank[child[c]] /\ rank[child[c]] < rank[c]
      BY <1>1, <1>2 DEF Reached, ChildOf
    <3>2. rank[x] \in Nat /\ rank[child[c]] \in Nat
      BY <1>1, <1>2 DEF TreeShape
    <3> QED
      BY <1>1, <3>1, <3>2
  <2>2. ASSUME NEW x \in T PROVE rank[x] <= rank[c]
    <3>1. rank[x] <= rank[right[c]] /\ rank[right[c]] < rank[c]
      BY <1>1, <1>3 DEF Reached, RightFrom
    <3>2. rank[x] \in Nat /\ rank[right[c]] \in Nat
      BY <1>1, <1>3 DEF TreeShape
    <3> QED
      BY <1>1, <3>1, <3>2
  <2> QED
    BY <2>1, <2>2, <1>1
<1>5. \A x \in X : x # c => \E y \in X : Leads(y, x)
  <2>1. ASSUME NEW x \in S PROVE \E y \in X : Leads(y, x)
    <3>1. CASE x = child[c]
      BY <3>1 DEF Leads
    <3>2. CASE x # child[c]
      BY <3>2 DEF Reached
    <3> QED
      BY <3>1, <3>2
  <2>2. ASSUME NEW x \in T PROVE \E y \in X : Leads(y, x)
    <3>1. CASE x = right[c]
      BY <3>1 DEF Leads
    <3>2. CASE x # right[c]
      BY <3>2 DEF Reached
    <3> QED
      BY <3>1, <3>2
  <2> QED
    BY <2>1, <2>2
<1>6. \A x \in X : leftmost[x] # leftmost[c] => owner[leftmost[x]] \in X
  <2>1. ASSUME NEW x \in S PROVE owner[leftmost[x]] \in X
    <3>1. CASE leftmost[x] = leftmost[child[c]]
      BY <3>1, ReachedBelow
    <3>2. CASE leftmost[x] # leftmost[child[c]]
      BY <3>2 DEF Reached
    <3> QED
      BY <3>1, <3>2
  <2>2. ASSUME NEW x \in T, leftmost[x] # leftmost[c] PROVE owner[leftmost[x]] \in X
    <3>1. leftmost[right[c]] = leftmost[c]
      BY <1>1, <1>3 DEF RightFrom
    <3> QED
      BY <2>2, <3>1 DEF Reached
  <2> QED
    BY <2>1, <2>2
<1>7. \A x \in X : right[x] # NULL => right[x] \in X
  BY DEF Reached
<1>8. \A x \in X : child[x] # NULL => child[x] \in X
  BY DEF Reached
<1> QED
  BY <1>1, <1>4, <1>5, <1>6, <1>7, <1>8 DEF Reached

-----------------------------------------------------------------------------
(* What is printed: every node reached, once, and a line to each.          *)

(* The line to the i-th of the nodes comes from number a: from id if the   *)
(* node is one of the children of id, otherwise from the owner of its row. *)
LineFrom(at, c, id, k, i, a) ==
  IF leftmost[at[i]] = leftmost[c]
  THEN a = id
  ELSE \E j \in DOMAIN at : a = k + j /\ at[j] = owner[leftmost[at[i]]]

LinesOf(at, c, id, k, edges) ==
  \A a, b \in Nat :
    <<a, b>> \in On(edges) <=> \E i \in DOMAIN at : b = k + i /\ LineFrom(at, c, id, k, i, a)

Drawn(rank, c, id, k, out) ==
  /\ out.nodes \in Seq(Node) /\ Distinct(out.nodes)
  /\ Reached(rank, c, On(out.nodes))
  /\ out.count = k + Len(out.nodes)
  /\ out.edges \in Seq(Nat \X Nat) /\ Len(out.edges) = Len(out.nodes)
  /\ LinesOf(out.nodes, c, id, k, out.edges)

(* An element, then one sequence, then another.  *)
Parts(u, z, s, t) ==
  /\ Len(u) = 1 + Len(s) + Len(t) /\ Len(s) \in Nat /\ Len(t) \in Nat
  /\ DOMAIN u = 1 .. Len(u) /\ DOMAIN s = 1 .. Len(s) /\ DOMAIN t = 1 .. Len(t)
  /\ u[1] = z
  /\ \A i \in DOMAIN s : u[1 + i] = s[i]
  /\ \A i \in DOMAIN t : u[1 + Len(s) + i] = t[i]

LEMMA ThreeParts ==
  ASSUME NEW Z, NEW z \in Z, NEW s \in Seq(Z), NEW t \in Seq(Z), NEW u, u = <<z>> \o s \o t
  PROVE  /\ u \in Seq(Z) /\ Parts(u, z, s, t)
         /\ \A i \in DOMAIN u : \/ i = 1
                                \/ i - 1 \in DOMAIN s
                                \/ i - 1 - Len(s) \in DOMAIN t
<1>1. PICK w : w = <<z>> \o s
  OBVIOUS
<1>2. /\ w \in Seq(Z) /\ Len(w) = 1 + Len(s) /\ w[1] = z
      /\ \A i \in 1 .. Len(s) : w[1 + i] = s[i]
  BY <1>1
<1>3. u = w \o t
  BY <1>1
<1>4. u \in Seq(Z) /\ Len(u) = 1 + Len(s) + Len(t) /\ Len(s) \in Nat /\ Len(t) \in Nat
  BY <1>2, <1>3
<1>5. DOMAIN u = 1 .. Len(u) /\ DOMAIN s = 1 .. Len(s) /\ DOMAIN t = 1 .. Len(t)
  BY <1>4
<1>6. \A i \in 1 .. Len(w) : u[i] = w[i]
  BY <1>2, <1>3
<1>7. \A i \in 1 .. Len(t) : u[Len(w) + i] = t[i]
  BY <1>2, <1>3
<1>8. u[1] = z /\ \A i \in 1 .. Len(s) : u[1 + i] = s[i]
  BY <1>2, <1>4, <1>6
<1> QED
  BY <1>2, <1>4, <1>5, <1>7, <1>8 DEF Parts

OnParts(u, z, s, t) == On(u) = {z} \cup On(s) \cup On(t)

LEMMA OnThreeParts ==
  ASSUME NEW Z, NEW z \in Z, NEW s \in Seq(Z), NEW t \in Seq(Z), NEW u, u = <<z>> \o s \o t
  PROVE  OnParts(u, z, s, t)
<1>1. ASSUME NEW x \in On(u) PROVE x \in {z} \cup On(s) \cup On(t)
  <2>1. PICK i \in DOMAIN u : x = u[i]
    BY DEF On
  <2>2. CASE i = 1
    BY <2>1, <2>2, ThreeParts DEF Parts
  <2>3. CASE i - 1 \in DOMAIN s
    <3>1. i \in Nat /\ 1 + (i - 1) = i
      BY ThreeParts DEF Parts
    <3>2. u[1 + (i - 1)] = s[i - 1]
      BY <2>3, ThreeParts DEF Parts
    <3> QED
      BY <2>1, <2>3, <3>1, <3>2 DEF On
  <2>4. CASE i - 1 - Len(s) \in DOMAIN t
    <3>1. i \in Nat /\ Len(s) \in Nat /\ 1 + Len(s) + (i - 1 - Len(s)) = i
      BY ThreeParts DEF Parts
    <3>2. u[1 + Len(s) + (i - 1 - Len(s))] = t[i - 1 - Len(s)]
      BY <2>4, ThreeParts DEF Parts
    <3> QED
      BY <2>1, <2>4, <3>1, <3>2 DEF On
  <2> QED
    BY <2>2, <2>3, <2>4, ThreeParts DEF Parts
<1>2. z \in On(u)
  BY ThreeParts DEF On, Parts
<1>3. ASSUME NEW x \in On(s) PROVE x \in On(u)
  <2>1. PICK i \in DOMAIN s : x = s[i]
    BY DEF On
  <2>2. u[1 + i] = s[i] /\ 1 + i \in DOMAIN u
    BY ThreeParts DEF Parts
  <2> QED
    BY <2>1, <2>2 DEF On
<1>4. ASSUME NEW x \in On(t) PROVE x \in On(u)
  <2>1. PICK i \in DOMAIN t : x = t[i]
    BY DEF On
  <2>2. u[1 + Len(s) + i] = t[i] /\ 1 + Len(s) + i \in DOMAIN u
    BY ThreeParts DEF Parts
  <2> QED
    BY <2>1, <2>2 DEF On
<1> QED
  BY <1>1, <1>2, <1>3, <1>4 DEF OnParts

(* Three parts without a common element have none twice.  *)
LEMMA DistinctThreeParts ==
  ASSUME NEW Z, NEW z \in Z, NEW s \in Seq(Z), NEW t \in Seq(Z), NEW u, u = <<z>> \o s \o t,
         Distinct(s), Distinct(t), z \notin On(s), z \notin On(t), On(s) \cap On(t) = {}
  PROVE  Distinct(u)
<1> SUFFICES ASSUME NEW i \in DOMAIN u, NEW j \in DOMAIN u, u[i] = u[j] PROVE i = j
  BY DEF Distinct
<1>1. DOMAIN u \subseteq Nat /\ Len(s) \in Nat
  BY ThreeParts DEF Parts
<1> DEFINE Place(k) == \/ k = 1 /\ u[k] = z
                       \/ k - 1 \in DOMAIN s /\ u[k] = s[k - 1]
                       \/ k - 1 - Len(s) \in DOMAIN t /\ u[k] = t[k - 1 - Len(s)]
<1>2. ASSUME NEW k \in DOMAIN u PROVE Place(k)
  <2>1. CASE k = 1
    BY <2>1, ThreeParts DEF Parts
  <2>2. CASE k - 1 \in DOMAIN s
    <3>1. 1 + (k - 1) = k
      BY <1>1
    <3>2. u[1 + (k - 1)] = s[k - 1]
      BY <2>2, ThreeParts DEF Parts
    <3> QED
      BY <2>2, <3>1, <3>2
  <2>3. CASE k - 1 - Len(s) \in DOMAIN t
    <3>1. 1 + Len(s) + (k - 1 - Len(s)) = k
      BY <1>1
    <3>2. PICK m \in DOMAIN t : m = k - 1 - Len(s)
      BY <2>3
    <3>3. u[1 + Len(s) + m] = t[m]
      BY ThreeParts DEF Parts
    <3> QED
      BY <2>3, <3>1, <3>2, <3>3
  <2> QED
    BY <2>1, <2>2, <2>3, ThreeParts DEF Parts
<1>3. Place(i) /\ Place(j)
  BY <1>2
<1>4. CASE u[i] = z
  <2>1. i = 1 /\ j = 1
    BY <1>3, <1>4 DEF On
  <2> QED
    BY <2>1
<1>5. CASE u[i] \in On(s)
  <2>1. i - 1 \in DOMAIN s /\ u[i] = s[i - 1] /\ j - 1 \in DOMAIN s /\ u[j] = s[j - 1]
    BY <1>3, <1>5 DEF On
  <2>2. i - 1 = j - 1
    BY <2>1 DEF Distinct
  <2> QED
    BY <2>2, <1>1
<1>6. CASE u[i] \in On(t)
  <2>1. /\ i - 1 - Len(s) \in DOMAIN t /\ u[i] = t[i - 1 - Len(s)]
        /\ j - 1 - Len(s) \in DOMAIN t /\ u[j] = t[j - 1 - Len(s)]
    BY <1>3, <1>6 DEF On
  <2>2. i - 1 - Len(s) = j - 1 - Len(s)
    BY <2>1 DEF Distinct
  <2> QED
    BY <2>2, <1>1
<1> QED
  BY <1>3, <1>4, <1>5, <1>6 DEF On

LEMMA Within ==
  ASSUME NEW n \in Nat, NEW q \in Nat
  PROVE  /\ \A i \in 1 .. n : i \in Nat /\ 1 + i \in 1 .. 1 + n + q
         /\ \A i \in 1 .. q : i \in Nat /\ 1 + n + i \in 1 .. 1 + n + q
         /\ 1 \in 1 .. 1 + n + q
OBVIOUS

LEMMA Behind ==
  ASSUME NEW p \in Nat, NEW q \in Nat, NEW i \in 1 .. p + 1 + q, i > p + 1
  PROVE  i - p - 1 \in 1 .. q /\ i = p + 1 + (i - p - 1)
OBVIOUS

(* One element between two sequences.  *)
Between(u, s, z, t) == On(u) = On(s) \cup {z} \cup On(t)

LEMMA OnMiddle ==
  ASSUME NEW Z, NEW z \in Z, NEW s \in Seq(Z), NEW t \in Seq(Z), NEW u, u = s \o <<z>> \o t
  PROVE  Between(u, s, z, t)
<1>1. PICK w : w = s \o <<z>>
  OBVIOUS
<1>2. /\ w \in Seq(Z) /\ Len(w) = Len(s) + 1 /\ Len(s) \in Nat /\ Len(t) \in Nat
      /\ \A i \in 1 .. Len(s) : w[i] = s[i]
      /\ w[Len(s) + 1] = z
  BY <1>1
<1>3. /\ u = w \o t
      /\ u \in Seq(Z) /\ Len(u) = Len(s) + 1 + Len(t)
      /\ \A i \in 1 .. Len(w) : u[i] = w[i]
      /\ \A i \in 1 .. Len(t) : u[Len(w) + i] = t[i]
  BY <1>1, <1>2
<1>4. /\ DOMAIN u = 1 .. Len(s) + 1 + Len(t)
      /\ DOMAIN s = 1 .. Len(s) /\ DOMAIN t = 1 .. Len(t)
  BY <1>2, <1>3
<1>5. /\ \A i \in DOMAIN s : u[i] = s[i]
      /\ u[Len(s) + 1] = z
      /\ \A i \in DOMAIN t : u[Len(s) + 1 + i] = t[i]
  BY <1>2, <1>3, <1>4
<1>6. /\ \A i \in DOMAIN s : i \in DOMAIN u
      /\ Len(s) + 1 \in DOMAIN u
      /\ \A i \in DOMAIN t : Len(s) + 1 + i \in DOMAIN u
  BY <1>2, <1>4
<1>7. ASSUME NEW x \in On(u) PROVE x \in On(s) \cup {z} \cup On(t)
  <2>1. PICK i \in DOMAIN u : x = u[i]
    BY DEF On
  <2>2. CASE i \in DOMAIN s
    BY <2>1, <2>2, <1>5 DEF On
  <2>3. CASE i = Len(s) + 1
    BY <2>1, <2>3, <1>5
  <2>4. CASE i > Len(s) + 1
    <3>1. PICK m \in DOMAIN t : i = Len(s) + 1 + m
      <4>1. i - Len(s) - 1 \in DOMAIN t /\ i = Len(s) + 1 + (i - Len(s) - 1)
        <5>1. PICK p \in Nat, q \in Nat : p = Len(s) /\ q = Len(t)
          BY <1>2
        <5>2. i \in 1 .. p + 1 + q /\ i > p + 1
          BY <2>1, <2>4, <1>4, <5>1
        <5>3. i - p - 1 \in 1 .. q /\ i = p + 1 + (i - p - 1)
          BY <5>2, Behind
        <5> QED
          BY <5>1, <5>3, <1>4
      <4> QED
        BY <4>1
    <3> QED
      BY <2>1, <3>1, <1>5 DEF On
  <2> QED
    BY <2>2, <2>3, <2>4, <1>2, <1>4
<1>8. On(s) \cup {z} \cup On(t) \subseteq On(u)
  <2>1. On(s) \subseteq On(u)
    BY <1>5, <1>6 DEF On
  <2>2. z \in On(u)
    BY <1>5, <1>6 DEF On
  <2>3. On(t) \subseteq On(u)
    BY <1>5, <1>6 DEF On
  <2> QED
    BY <2>1, <2>2, <2>3
<1> QED
  BY <1>7, <1>8 DEF Between

LEMMA OnLines ==
  ASSUME NEW a \in Nat, NEW b \in Nat, NEW p \in Seq(Nat \X Nat), NEW q \in Seq(Nat \X Nat)
  PROVE  Between(p \o <<<<a, b>>>> \o q, p, <<a, b>>, q)
<1>1. PICK e, Z, u : e = <<a, b>> /\ Z = Nat \X Nat /\ u = p \o <<e>> \o q
  OBVIOUS
<1>2. e \in Z /\ p \in Seq(Z) /\ q \in Seq(Z) /\ u = p \o <<e>> \o q
  BY <1>1
<1>3. Between(u, p, e, q)
  BY <1>2, OnMiddle
<1> QED
  BY <1>1, <1>3, Zenon DEF Between

LEMMA LinesLength ==
  ASSUME NEW a \in Nat, NEW b \in Nat, NEW p \in Seq(Nat \X Nat), NEW q \in Seq(Nat \X Nat),
         NEW u, u = p \o <<<<a, b>>>> \o q
  PROVE  u \in Seq(Nat \X Nat) /\ Len(u) = Len(p) + 1 + Len(q)
<1>1. PICK w : w = p \o <<<<a, b>>>>
  OBVIOUS
<1>2. w \in Seq(Nat \X Nat) /\ Len(w) = Len(p) + 1
  <2>1. <<a, b>> \in Nat \X Nat
    OBVIOUS
  <2>2. PICK e, Z : e = <<a, b>> /\ Z = Nat \X Nat /\ w = p \o <<e>>
    BY <1>1
  <2>3. e \in Z /\ p \in Seq(Z)
    BY <2>1, <2>2
  <2>4. w \in Seq(Z) /\ Len(w) = Len(p) + 1
    BY <2>2, <2>3
  <2> QED
    BY <2>2, <2>4
<1>3. u = w \o q
  BY <1>1
<1> QED
  BY <1>2, <1>3

(* The lines to the nodes of the three parts.  *)
LEMMA LinesTogether ==
  ASSUME NEW rank, TreeShape(rank), NEW c \in Made, NEW id \in Nat, NEW k \in Nat,
         NEW sub, Drawn(rank, child[c], k + 1, k + 1, sub),
         NEW rest, Drawn(rank, right[c], id, sub.count, rest),
         NEW at, at = <<c>> \o sub.nodes \o rest.nodes,
         NEW edges, edges = sub.edges \o <<<<id, k + 1>>>> \o rest.edges
  PROVE  LinesOf(at, c, id, k, edges)
<1>0. PICK s, t, n : s = sub.nodes /\ t = rest.nodes /\ n = Len(s)
  OBVIOUS
<1>1. /\ s \in Seq(Node) /\ t \in Seq(Node) /\ c \in Node /\ n \in Nat
      /\ Reached(rank, child[c], On(s)) /\ Reached(rank, right[c], On(t))
      /\ Distinct(s) /\ Distinct(t)
  BY <1>0 DEF Drawn, TreeShape
<1>2. /\ DOMAIN at = 1 .. Len(at) /\ Len(at) = 1 + n + Len(t) /\ Len(t) \in Nat
      /\ DOMAIN s = 1 .. n /\ DOMAIN t = 1 .. Len(t)
      /\ at[1] = c
      /\ \A i \in DOMAIN s : at[1 + i] = s[i]
      /\ \A i \in DOMAIN t : at[1 + n + i] = t[i]
  <2>1. at = <<c>> \o s \o t
    BY <1>0
  <2>2. /\ Len(at) = 1 + Len(s) + Len(t) /\ Len(t) \in Nat
        /\ DOMAIN at = 1 .. Len(at) /\ DOMAIN s = 1 .. Len(s) /\ DOMAIN t = 1 .. Len(t)
        /\ at[1] = c
        /\ \A i \in DOMAIN s : at[1 + i] = s[i]
        /\ \A i \in DOMAIN t : at[1 + Len(s) + i] = t[i]
    <3>1. Parts(at, c, s, t)
      BY <1>1, <2>1, ThreeParts
    <3> QED
      BY <3>1 DEF Parts
  <2> QED
    BY <1>0, <2>2
<1>i. /\ \A i \in DOMAIN s : i \in Nat /\ 1 + i \in DOMAIN at
      /\ \A i \in DOMAIN t : i \in Nat /\ 1 + n + i \in DOMAIN at
      /\ 1 \in DOMAIN at
  <2>1. PICK q \in Nat : q = Len(t)
    BY <1>2
  <2>2. DOMAIN at = 1 .. 1 + n + q /\ DOMAIN s = 1 .. n /\ DOMAIN t = 1 .. q /\ n \in Nat
    BY <1>1, <1>2, <2>1
  <2>3. /\ \A i \in 1 .. n : i \in Nat /\ 1 + i \in 1 .. 1 + n + q
        /\ \A i \in 1 .. q : i \in Nat /\ 1 + n + i \in 1 .. 1 + n + q
        /\ 1 \in 1 .. 1 + n + q
    BY <2>2, Within
  <2> QED
    BY <2>2, <2>3
<1>3. Distinct(at)
  <2>1. at = <<c>> \o s \o t
    BY <1>0
  <2>2. c \notin On(s) /\ c \notin On(t) /\ On(s) \cap On(t) = {}
    BY <1>1, ReachedApart
  <2> QED
    BY <1>1, <2>1, <2>2, DistinctThreeParts
<1>4. On(edges) = On(sub.edges) \cup {<<id, k + 1>>} \cup On(rest.edges)
  <2>1. sub.edges \in Seq(Nat \X Nat) /\ rest.edges \in Seq(Nat \X Nat)
    BY DEF Drawn
  <2>2. <<id, k + 1>> \in Nat \X Nat
    OBVIOUS
  <2>3. k + 1 \in Nat
    OBVIOUS
  <2>4. Between(sub.edges \o <<<<id, k + 1>>>> \o rest.edges,
                sub.edges, <<id, k + 1>>, rest.edges)
    BY <2>1, <2>3, OnLines, Zenon
  <2> QED
    BY <2>4, Zenon DEF Between
<1>5. \A a, b \in Nat : <<a, b>> \in On(sub.edges) <=>
        \E i \in DOMAIN s : b = k + 1 + i /\ LineFrom(s, child[c], k + 1, k + 1, i, a)
  BY <1>0 DEF Drawn, LinesOf
<1>6. \A a, b \in Nat : <<a, b>> \in On(rest.edges) <=>
        \E i \in DOMAIN t : b = sub.count + i /\ LineFrom(t, right[c], id, sub.count, i, a)
  BY <1>0 DEF Drawn, LinesOf
<1>7. sub.count = k + 1 + n
  BY <1>0 DEF Drawn
<1>8. ASSUME NEW a \in Nat PROVE LineFrom(at, c, id, k, 1, a) <=> a = id
  BY <1>2 DEF LineFrom
<1>9. ASSUME NEW i \in DOMAIN s, NEW a \in Nat
      PROVE  LineFrom(at, c, id, k, 1 + i, a) <=> LineFrom(s, child[c], k + 1, k + 1, i, a)
  <2>1. at[1 + i] = s[i] /\ s[i] \in On(s)
    BY <1>2 DEF On
  <2>2. /\ leftmost[s[i]] # leftmost[c]
        /\ leftmost[s[i]] = leftmost[child[c]] => owner[leftmost[s[i]]] = c
    BY <1>1, <2>1, ReachedBelow
  <2>3. LineFrom(at, c, id, k, 1 + i, a) <=>
          \E j \in DOMAIN at : a = k + j /\ at[j] = owner[leftmost[s[i]]]
    BY <2>1, <2>2 DEF LineFrom
  <2>4. CASE leftmost[s[i]] = leftmost[child[c]]
    <3>1. LineFrom(s, child[c], k + 1, k + 1, i, a) <=> a = k + 1
      BY <2>4 DEF LineFrom
    <3>2. \A j \in DOMAIN at : at[j] = c <=> j = 1
      <4>1. 1 \in DOMAIN at /\ at[1] = c
        BY <1>2, <1>i
      <4> QED
        BY <4>1, <1>3 DEF Distinct
    <3>3. 1 \in DOMAIN at
      BY <1>i
    <3> QED
      BY <2>2, <2>3, <2>4, <3>1, <3>2, <3>3
  <2>5. CASE leftmost[s[i]] # leftmost[child[c]]
    <3>1. LineFrom(s, child[c], k + 1, k + 1, i, a) <=>
            \E j \in DOMAIN s : a = k + 1 + j /\ s[j] = owner[leftmost[s[i]]]
      BY <2>5 DEF LineFrom
    <3>2. PICK l \in DOMAIN s : s[l] = owner[leftmost[s[i]]]
      <4>1. owner[leftmost[s[i]]] \in On(s)
        BY <2>1, <2>5, <1>1 DEF Reached
      <4> QED
        BY <4>1 DEF On
    <3>3. \A j \in DOMAIN s : s[j] = owner[leftmost[s[i]]] <=> j = l
      BY <3>2, <1>1 DEF Distinct
    <3>4. 1 + l \in DOMAIN at /\ at[1 + l] = owner[leftmost[s[i]]] /\ l \in Nat
      BY <1>2, <1>i, <3>2
    <3>5. \A j \in DOMAIN at : at[j] = owner[leftmost[s[i]]] <=> j = 1 + l
      BY <3>4, <1>3 DEF Distinct
    <3>6. LineFrom(s, child[c], k + 1, k + 1, i, a) <=> a = k + 1 + l
      BY <3>1, <3>2, <3>3
    <3>7. LineFrom(at, c, id, k, 1 + i, a) <=> a = k + (1 + l)
      BY <2>3, <3>4, <3>5
    <3>8. k + 1 + l = k + (1 + l)
      BY <3>4
    <3> QED
      BY <3>6, <3>7, <3>8
  <2> QED
    BY <2>4, <2>5
<1>10. ASSUME NEW i \in DOMAIN t, NEW a \in Nat
       PROVE  LineFrom(at, c, id, k, 1 + n + i, a) <=> LineFrom(t, right[c], id, sub.count, i, a)
  <2>1. at[1 + n + i] = t[i] /\ t[i] \in On(t)
    BY <1>2 DEF On
  <2>2. leftmost[right[c]] = leftmost[c]
    <3>1. right[c] # NULL
      BY <2>1, <1>1 DEF Reached
    <3> QED
      BY <3>1 DEF TreeShape, RightFrom
  <2>3. CASE leftmost[t[i]] = leftmost[c]
    BY <2>1, <2>2, <2>3 DEF LineFrom
  <2>4. CASE leftmost[t[i]] # leftmost[c]
    <3>1. LineFrom(t, right[c], id, sub.count, i, a) <=>
            \E j \in DOMAIN t : a = sub.count + j /\ t[j] = owner[leftmost[t[i]]]
      BY <2>2, <2>4 DEF LineFrom
    <3>2. LineFrom(at, c, id, k, 1 + n + i, a) <=>
            \E j \in DOMAIN at : a = k + j /\ at[j] = owner[leftmost[t[i]]]
      BY <2>1, <2>4 DEF LineFrom
    <3>3. PICK l \in DOMAIN t : t[l] = owner[leftmost[t[i]]]
      <4>1. owner[leftmost[t[i]]] \in On(t)
        BY <2>1, <2>2, <2>4, <1>1 DEF Reached
      <4> QED
        BY <4>1 DEF On
    <3>4. \A j \in DOMAIN t : t[j] = owner[leftmost[t[i]]] <=> j = l
      BY <3>3, <1>1 DEF Distinct
    <3>5. 1 + n + l \in DOMAIN at /\ at[1 + n + l] = owner[leftmost[t[i]]] /\ l \in Nat
      BY <1>2, <1>i, <3>3
    <3>6. \A j \in DOMAIN at : at[j] = owner[leftmost[t[i]]] <=> j = 1 + n + l
      BY <3>5, <1>3 DEF Distinct
    <3>7. LineFrom(t, right[c], id, sub.count, i, a) <=> a = sub.count + l
      BY <3>1, <3>3, <3>4
    <3>8. LineFrom(at, c, id, k, 1 + n + i, a) <=> a = k + (1 + n + l)
      BY <3>2, <3>5, <3>6
    <3>9. sub.count + l = k + (1 + n + l)
      <4>1. k + 1 + n + l = k + (1 + n + l)
        BY <3>5, <1>1
      <4> QED
        BY <4>1, <1>7
    <3> QED
      BY <3>7, <3>8, <3>9
  <2> QED
    BY <2>3, <2>4
<1>11. ASSUME NEW a \in Nat, NEW b \in Nat
       PROVE  <<a, b>> \in On(edges) <=>
                \E i \in DOMAIN at : b = k + i /\ LineFrom(at, c, id, k, i, a)
  <2> DEFINE To(i) == b = k + i /\ LineFrom(at, c, id, k, i, a)
  <2>1. <<a, b>> \in On(edges) <=>
          \/ <<a, b>> \in On(sub.edges)
          \/ a = id /\ b = k + 1
          \/ <<a, b>> \in On(rest.edges)
    BY <1>4
  <2>2. (a = id /\ b = k + 1) <=> To(1)
    BY <1>8
  <2>3. <<a, b>> \in On(sub.edges) <=> \E i \in DOMAIN s : To(1 + i)
    <3>1. \A i \in DOMAIN s : k + 1 + i = k + (1 + i)
      <4> TAKE i \in DOMAIN s
      <4>1. i \in Nat
        BY <1>i
      <4> QED
        BY <4>1
    <3>2. \A i \in DOMAIN s :
            (b = k + 1 + i /\ LineFrom(s, child[c], k + 1, k + 1, i, a)) <=> To(1 + i)
      BY <1>9, <3>1
    <3> HIDE DEF To
    <3> QED
      BY <1>5, <3>2
  <2>4. <<a, b>> \in On(rest.edges) <=> \E i \in DOMAIN t : To(1 + n + i)
    <3>1. \A i \in DOMAIN t : sub.count + i = k + (1 + n + i)
      <4> TAKE i \in DOMAIN t
      <4>1. k + 1 + n + i = k + (1 + n + i)
        <5>1. i \in Nat /\ n \in Nat
          BY <1>1, <1>i
        <5> QED
          BY <5>1
      <4> QED
        BY <4>1, <1>7
    <3>2. \A i \in DOMAIN t :
            (b = sub.count + i /\ LineFrom(t, right[c], id, sub.count, i, a)) <=> To(1 + n + i)
      BY <1>10, <3>1
    <3> HIDE DEF To
    <3> QED
      BY <1>6, <3>2
  <2>5. (\E i \in DOMAIN at : To(i)) <=>
          To(1) \/ (\E i \in DOMAIN s : To(1 + i)) \/ (\E i \in DOMAIN t : To(1 + n + i))
    <3> HIDE DEF To
    <3>1. 1 \in DOMAIN at
      BY <1>i
    <3>2. \A i \in DOMAIN s : 1 + i \in DOMAIN at
      BY <1>i
    <3>3. \A i \in DOMAIN t : 1 + n + i \in DOMAIN at
      BY <1>i
    <3>4. \A i \in DOMAIN at : \/ i = 1
                               \/ i - 1 \in DOMAIN s /\ i = 1 + (i - 1)
                               \/ i - 1 - n \in DOMAIN t /\ i = 1 + n + (i - 1 - n)
      <4> TAKE i \in DOMAIN at
      <4>1. PICK q \in Nat : q = Len(t)
        BY <1>2
      <4>2. i \in 1 .. 1 + n + q /\ n \in Nat
        BY <1>1, <1>2, <4>1
      <4>3. \/ i = 1
            \/ i - 1 \in 1 .. n /\ i = 1 + (i - 1)
            \/ i - 1 - n \in 1 .. q /\ i = 1 + n + (i - 1 - n)
        BY <4>2, SMTT(30)
      <4> QED
        BY <4>1, <4>3, <1>2
    <3>5. ASSUME NEW i \in DOMAIN at, To(i)
          PROVE  To(1) \/ (\E l \in DOMAIN s : To(1 + l)) \/ (\E l \in DOMAIN t : To(1 + n + l))
      <4>1. CASE i = 1
        BY <4>1, <3>5
      <4>2. CASE i - 1 \in DOMAIN s /\ i = 1 + (i - 1)
        BY <4>2, <3>5
      <4>3. CASE i - 1 - n \in DOMAIN t /\ i = 1 + n + (i - 1 - n)
        BY <4>3, <3>5
      <4> QED
        BY <3>4, <4>1, <4>2, <4>3
    <3> QED
      BY <3>1, <3>2, <3>3, <3>5
  <2> HIDE DEF To
  <2> QED
    BY <2>1, <2>2, <2>3, <2>4, <2>5 DEF To
<1> QED
  BY <1>11 DEF LinesOf

Listed(rank, c, u) == u \in Seq(Node) /\ Distinct(u) /\ Reached(rank, c, On(u))

LEMMA ListedTogether ==
  ASSUME NEW rank, TreeShape(rank), NEW c \in Made,
         NEW s, Listed(rank, child[c], s), NEW t, Listed(rank, right[c], t),
         NEW u, u = <<c>> \o s \o t
  PROVE  Listed(rank, c, u) /\ Parts(u, c, s, t)
<1>1. s \in Seq(Node) /\ Distinct(s) /\ Reached(rank, child[c], On(s))
  BY DEF Listed
<1>2. t \in Seq(Node) /\ Distinct(t) /\ Reached(rank, right[c], On(t))
  BY DEF Listed
<1>3. c \in Node
  BY DEF TreeShape
<1>4. PICK Z : /\ c \in Z /\ s \in Seq(Z) /\ t \in Seq(Z)
               /\ u = <<c>> \o s \o t
  BY <1>1, <1>2, <1>3
<1>5. u \in Seq(Node) /\ Parts(u, c, s, t)
  BY <1>1, <1>2, <1>3, ThreeParts
<1>6. c \notin On(s) /\ c \notin On(t) /\ On(s) \cap On(t) = {}
  BY <1>1, <1>2, ReachedApart
<1>7. Distinct(u)
  <2>1. Distinct(s) /\ Distinct(t)
    BY <1>1, <1>2
  <2>2. c \notin On(s)
    BY <1>6
  <2>3. c \notin On(t)
    BY <1>6
  <2>4. On(s) \cap On(t) = {}
    BY <1>6
  <2> QED
    BY <1>4, <2>1, <2>2, <2>3, <2>4, DistinctThreeParts, Zenon
<1>8. OnParts(u, c, s, t)
  BY <1>4, OnThreeParts, Zenon
<1>9. Reached(rank, c, {c} \cup On(s) \cup On(t))
  BY <1>1, <1>2, ReachedTogether
<1> QED
  BY <1>5, <1>7, <1>8, <1>9 DEF Listed, OnParts

LEMMA DrawnTogether ==
  ASSUME NEW rank, TreeShape(rank), NEW c \in Made, NEW id \in Nat, NEW k \in Nat,
         NEW sub, Drawn(rank, child[c], k + 1, k + 1, sub),
         NEW later, Drawn(rank, right[c], id, sub.count, later[sub.count])
  PROVE  Drawn(rank, c, id, k, AfterChild(c, id, k + 1, sub, later))
<1>1. PICK rest : rest = later[sub.count]
  OBVIOUS
<1>2. PICK at, edges : /\ at = <<c>> \o sub.nodes \o rest.nodes
                       /\ edges = sub.edges \o <<<<id, k + 1>>>> \o rest.edges
  OBVIOUS
<1>3. PICK out : out = AfterChild(c, id, k + 1, sub, later)
  OBVIOUS
<1>4. out.nodes = at /\ out.edges = edges /\ out.count = rest.count
  BY <1>1, <1>2, <1>3 DEF AfterChild, Printed
<1>5. PICK s, t : s = sub.nodes /\ t = rest.nodes
  OBVIOUS
<1>6. /\ s \in Seq(Node) /\ Distinct(s) /\ Reached(rank, child[c], On(s))
      /\ sub.count = k + 1 + Len(s)
      /\ sub.edges \in Seq(Nat \X Nat) /\ Len(sub.edges) = Len(s)
  BY <1>5 DEF Drawn
<1>7. /\ t \in Seq(Node) /\ Distinct(t) /\ Reached(rank, right[c], On(t))
      /\ rest.count = sub.count + Len(t)
      /\ rest.edges \in Seq(Nat \X Nat) /\ Len(rest.edges) = Len(t)
  BY <1>1, <1>5 DEF Drawn
<1>8. at = <<c>> \o s \o t
  BY <1>2, <1>5
<1>9. Listed(rank, c, at) /\ Parts(at, c, s, t)
  <2>1. Listed(rank, child[c], s) /\ Listed(rank, right[c], t)
    BY <1>6, <1>7 DEF Listed
  <2> QED
    BY <1>8, <2>1, ListedTogether
<1>12. PICK n \in Nat, m \in Nat : n = Len(s) /\ m = Len(t)
  BY <1>9 DEF Parts
<1>13. out.count = k + Len(at)
  <2>1. Len(at) = 1 + n + m
    BY <1>9, <1>12 DEF Parts
  <2>2. out.count = (k + 1 + n) + m
    BY <1>4, <1>6, <1>7, <1>12
  <2>3. (k + 1 + n) + m = k + (1 + n + m)
    OBVIOUS
  <2> QED
    BY <2>1, <2>2, <2>3
<1>14. edges \in Seq(Nat \X Nat) /\ Len(edges) = Len(at)
  <2>1. edges \in Seq(Nat \X Nat) /\ Len(edges) = Len(sub.edges) + 1 + Len(rest.edges)
    <3>1. PICK p, q : p = sub.edges /\ q = rest.edges
      OBVIOUS
    <3>2. p \in Seq(Nat \X Nat) /\ q \in Seq(Nat \X Nat) /\ k + 1 \in Nat
      BY <1>6, <1>7, <3>1
    <3>3. edges = p \o <<<<id, k + 1>>>> \o q
      BY <1>2, <3>1
    <3>4. edges \in Seq(Nat \X Nat) /\ Len(edges) = Len(p) + 1 + Len(q)
      BY <3>2, <3>3, LinesLength
    <3> QED
      BY <3>1, <3>4
  <2>2. Len(edges) = n + 1 + m /\ Len(at) = 1 + n + m
    BY <2>1, <1>6, <1>7, <1>9, <1>12 DEF Parts
  <2>3. n + 1 + m = 1 + n + m
    OBVIOUS
  <2> QED
    BY <2>1, <2>2, <2>3
<1>15. LinesOf(at, c, id, k, edges)
  BY <1>1, <1>2, LinesTogether
<1>16. Drawn(rank, c, id, k, out)
  BY <1>4, <1>9, <1>13, <1>14, <1>15 DEF Drawn, Listed
<1> QED
  BY <1>3, <1>16

LEMMA DrawnNull ==
  ASSUME NEW rank, NEW id \in Nat, NEW k \in Nat
  PROVE  Drawn(rank, NULL, id, k, Printed(k, << >>, << >>))
<1>1. PICK out : out = Printed(k, << >>, << >>)
  OBVIOUS
<1>2. out.nodes = << >> /\ out.edges = << >> /\ out.count = k
  BY <1>1 DEF Printed
<1>3. On(<< >>) = {} /\ Len(<< >>) = 0 /\ DOMAIN << >> = {}
  BY DEF On
<1>4. Reached(rank, NULL, {})
  BY DEF Reached
<1>5. Distinct(<< >>)
  BY <1>3 DEF Distinct
<1>6. LinesOf(<< >>, NULL, id, k, << >>)
  BY <1>3 DEF LinesOf
<1>7. << >> \in Seq(Node) /\ << >> \in Seq(Nat \X Nat)
  OBVIOUS
<1>8. PICK e : e = << >>
  OBVIOUS
<1>9. /\ e \in Seq(Node) /\ e \in Seq(Nat \X Nat) /\ Len(e) = 0 /\ Distinct(e)
      /\ Reached(rank, NULL, On(e)) /\ LinesOf(e, NULL, id, k, e)
  BY <1>3, <1>4, <1>5, <1>6, <1>7, <1>8
<1>10. k = k + Len(e)
  BY <1>9
<1>11. out.nodes = e /\ out.edges = e /\ out.count = k
  BY <1>2, <1>8
<1>12. Drawn(rank, NULL, id, k, out)
  BY <1>9, <1>10, <1>11 DEF Drawn
<1> QED
  BY <1>1, <1>12

LEMMA DrawnFrom ==
  ASSUME IInv, Settled, NEW R \in Nat, NEW rank \in [Node -> 0 .. R], Falls(rank),
         NEW c \in Made \cup {NULL}, NEW id \in Nat, NEW k \in Nat
  PROVE  Drawn(rank, c, id, k, PrintFrom[c][id][k])
<1> DEFINE P(x) == \A a, b \in Nat : Drawn(rank, x, a, b, PrintFrom[x][a][b])
           A == {r \in Nat : \A x \in Made : rank[x] < r => P(x)}
<1>1. TypeOK /\ TreeShape(rank)
  BY TreeShaped DEF IInv
<1>2. P(NULL)
  <2> SUFFICES ASSUME NEW a \in Nat, NEW b \in Nat
               PROVE  Drawn(rank, NULL, a, b, PrintFrom[NULL][a][b])
    OBVIOUS
  <2>1. PrintFrom[NULL][a][b] = Printed(b, << >>, << >>)
    BY <1>1, PrintFromNull
  <2> QED
    BY <2>1, DrawnNull
<1>3. 0 \in A
  BY <1>1 DEF TreeShape
<1>4. ASSUME NEW r \in Nat, r \in A PROVE r + 1 \in A
  <2> SUFFICES ASSUME NEW x \in Made, rank[x] < r + 1 PROVE P(x)
    OBVIOUS
  <2>1. /\ x \in Node /\ x # NULL /\ rank[x] \in Nat
        /\ RightFrom(rank, x) /\ ChildOf(rank, x)
    BY <1>1 DEF TreeShape
  <2>2. P(right[x])
    <3>1. CASE right[x] = NULL
      BY <3>1, <1>2
    <3>2. CASE right[x] # NULL
      <4>1. right[x] \in Made /\ rank[right[x]] < rank[x] /\ rank[right[x]] \in Nat
        BY <1>1, <2>1, <3>2 DEF RightFrom, TreeShape
      <4>2. rank[right[x]] < r
        BY <2>1, <4>1
      <4> HIDE DEF P
      <4> QED
        BY <1>4, <4>1, <4>2
    <3> HIDE DEF P
    <3> QED
      BY <3>1, <3>2
  <2>3. P(child[x])
    <3>1. CASE child[x] = NULL
      BY <3>1, <1>2
    <3>2. CASE child[x] # NULL
      <4>1. child[x] \in Made /\ rank[child[x]] < rank[x] /\ rank[child[x]] \in Nat
        BY <1>1, <2>1, <3>2 DEF ChildOf, TreeShape
      <4>2. rank[child[x]] < r
        BY <2>1, <4>1
      <4> HIDE DEF P
      <4> QED
        BY <1>4, <4>1, <4>2
    <3> HIDE DEF P
    <3> QED
      BY <3>1, <3>2
  <2> SUFFICES ASSUME NEW a \in Nat, NEW b \in Nat
               PROVE  Drawn(rank, x, a, b, PrintFrom[x][a][b])
    OBVIOUS
  <2>4. PICK sub : sub = PrintFrom[child[x]][b + 1][b + 1]
    OBVIOUS
  <2>5. PICK later : later = PrintFrom[right[x]][a]
    OBVIOUS
  <2>6. Drawn(rank, child[x], b + 1, b + 1, sub)
    BY <2>3, <2>4
  <2>7. sub.count \in Nat
    <3>1. sub.nodes \in Seq(Node) /\ sub.count = b + 1 + Len(sub.nodes)
      BY <2>6 DEF Drawn
    <3>2. PICK l \in Nat : l = Len(sub.nodes)
      BY <3>1
    <3>3. b + 1 + l \in Nat
      OBVIOUS
    <3> QED
      BY <3>1, <3>2, <3>3
  <2>8. Drawn(rank, right[x], a, sub.count, later[sub.count])
    BY <2>2, <2>5, <2>7
  <2>9. PrintFrom[x][a][b] = AfterChild(x, a, b + 1, sub, later)
    BY <1>1, <2>1, <2>4, <2>5, PrintFromNode
  <2> QED
    BY <1>1, <2>6, <2>8, <2>9, DrawnTogether
<1>5. Nat \subseteq A
  <2> HIDE DEF A
  <2> QED
    BY <1>3, <1>4, SetInduction
<1>6. \A x \in Made : P(x)
  <2> TAKE x \in Made
  <2>1. rank[x] + 1 \in Nat /\ rank[x] < rank[x] + 1
    BY <1>1 DEF TreeShape
  <2> HIDE DEF P
  <2> QED
    BY <1>5, <2>1
<1>7. P(c)
  <2> HIDE DEF P
  <2> QED
    BY <1>2, <1>6
<1> QED
  BY <1>7

-----------------------------------------------------------------------------
(* The graph of a whole tree.  *)

(* A row that is reached at one node is reached from there to its end.     *)
LEMMA RowReached ==
  ASSUME IInv, Settled, NEW rank, NEW c, NEW X, Reached(rank, c, X),
         NEW h \in Node, row[h] # << >>, h \in X
  PROVE  \A k \in DOMAIN row[h] : row[h][k] \in X
<1>1. /\ DOMAIN row[h] = 1 .. Len(row[h]) /\ Len(row[h]) \in Nat /\ row[h][1] = h
      /\ \A k \in DOMAIN row[h] :
           /\ row[h][k] \in Node
           /\ right[row[h][k]] = IF k < Len(row[h]) THEN row[h][k + 1] ELSE NULL
  BY InRow DEF IInv
<1>2. PICK l \in Nat : l = Len(row[h])
  BY <1>1
<1> DEFINE A == {k \in Nat : k + 1 \in 1 .. l => row[h][k + 1] \in X}
<1>3. 0 \in A
  BY <1>1
<1>4. ASSUME NEW k \in Nat, k \in A PROVE k + 1 \in A
  <2> SUFFICES ASSUME (k + 1) + 1 \in 1 .. l PROVE row[h][(k + 1) + 1] \in X
    OBVIOUS
  <2>1. PICK m \in Nat : m = k + 1
    OBVIOUS
  <2>2. m \in 1 .. l /\ m < l /\ m + 1 \in 1 .. l
    BY <2>1
  <2>3. row[h][m] \in X
    BY <1>4, <2>1, <2>2
  <2>4. right[row[h][m]] = row[h][m + 1] /\ row[h][m + 1] # NULL
    BY <1>1, <1>2, <2>2, MadeNodes DEF IInv
  <2>5. row[h][m + 1] \in X
    BY <2>3, <2>4 DEF Reached
  <2> QED
    BY <2>1, <2>5
<1>5. Nat \subseteq A
  <2> HIDE DEF A
  <2> QED
    BY <1>3, <1>4, SetInduction
<1> SUFFICES ASSUME NEW k \in DOMAIN row[h] PROVE row[h][k] \in X
  OBVIOUS
<1>6. k - 1 \in Nat /\ (k - 1) + 1 = k /\ k \in 1 .. l
  BY <1>1, <1>2
<1> QED
  BY <1>5, <1>6

LEMMA GraphDrawn ==
  ASSUME IInv, Settled, NEW R \in Nat, NEW rank \in [Node -> 0 .. R], Falls(rank),
         NEW root \in Made
  PROVE  GraphOfTree(root, DrawAst(root))
<1>1. TreeShape(rank) /\ TypeOK
  BY TreeShaped DEF IInv
<1>2. /\ root \in Node /\ root # NULL /\ rank[root] \in Nat
      /\ RightFrom(rank, root) /\ ChildOf(rank, root) /\ OwnerOf(rank, root)
  BY <1>1 DEF TreeShape
<1>3. PICK below : below = PrintFrom[child[root]][0][0]
  OBVIOUS
<1>4. Drawn(rank, child[root], 0, 0, below)
  <2>1. child[root] \in Made \cup {NULL}
    BY <1>2 DEF ChildOf
  <2>2. PICK o \in Nat : o = 0
    OBVIOUS
  <2>3. Drawn(rank, child[root], o, o, PrintFrom[child[root]][o][o])
    BY <2>1, DrawnFrom
  <2> QED
    BY <1>3, <2>2, <2>3
<1>5. PICK graph, at, s, n : /\ graph = DrawAst(root) /\ at = graph.nodes
                             /\ s = below.nodes /\ n = Len(s)
  OBVIOUS
<1>6. graph.count = below.count /\ at = <<root>> \o s /\ graph.edges = below.edges
  BY <1>3, <1>5 DEF DrawAst, PrintNode, Printed
<1>7. /\ s \in Seq(Node) /\ Distinct(s) /\ Reached(rank, child[root], On(s))
      /\ below.count = 0 + n
      /\ below.edges \in Seq(Nat \X Nat) /\ Len(below.edges) = n
      /\ LinesOf(s, child[root], 0, 0, below.edges)
  BY <1>4, <1>5 DEF Drawn
<1>8. /\ n \in Nat /\ Len(at) = n + 1 /\ DOMAIN s = 1 .. n /\ DOMAIN at = 1 .. n + 1
      /\ at[1] = root /\ \A i \in 1 .. n : at[i + 1] = s[i]
  BY <1>2, <1>5, <1>6, <1>7
<1>9. \A x \in On(s) : rank[x] < rank[root] /\ x # root
  <2> TAKE x \in On(s)
  <2>1. child[root] # NULL /\ rank[x] <= rank[child[root]] /\ x \in Made
    BY <1>7 DEF Reached
  <2>2. rank[x] \in Nat /\ rank[child[root]] \in Nat /\ rank[child[root]] < rank[root]
    BY <1>1, <1>2, <2>1 DEF TreeShape, ChildOf
  <2> QED
    BY <1>2, <2>1, <2>2
<1>10. \A i \in 1 .. n + 1 : i = 1 \/ (i - 1 \in 1 .. n /\ at[i] = s[i - 1])
  <2> TAKE i \in 1 .. n + 1
  <2>1. CASE i = 1
    BY <2>1
  <2>2. CASE i # 1
    <3>1. i - 1 \in 1 .. n /\ (i - 1) + 1 = i
      BY <1>8, <2>2
    <3>2. PICK m \in 1 .. n : m = i - 1
      BY <3>1
    <3> QED
      BY <1>8, <3>1, <3>2
  <2> QED
    BY <2>1, <2>2
<1>11. \A i, j \in DOMAIN at : at[i] = at[j] => i = j
  <2> SUFFICES ASSUME NEW i \in 1 .. n + 1, NEW j \in 1 .. n + 1, at[i] = at[j] PROVE i = j
    BY <1>8
  <2>1. CASE i = 1 /\ j = 1
    BY <2>1
  <2>2. CASE i = 1 /\ j # 1
    BY <1>8, <1>9, <1>10, <2>2 DEF On
  <2>3. CASE i # 1 /\ j = 1
    BY <1>8, <1>9, <1>10, <2>3 DEF On
  <2>4. CASE i # 1 /\ j # 1
    <3>1. i - 1 \in DOMAIN s /\ j - 1 \in DOMAIN s /\ s[i - 1] = s[j - 1]
      BY <1>8, <1>10, <2>4
    <3>2. i - 1 = j - 1
      BY <1>7, <3>1 DEF Distinct
    <3> QED
      BY <3>2
  <2> QED
    BY <2>1, <2>2, <2>3, <2>4
<1>12. graph.count = Len(at) - 1 /\ Len(graph.edges) = Len(at) - 1
  BY <1>6, <1>7, <1>8
<1>13. \A b \in 1 .. n : \A a \in Nat : LineFrom(s, child[root], 0, 0, b, a) <=>
         a \in 0 .. n /\ at[a + 1] = owner[leftmost[s[b]]]
  <2> TAKE b \in 1 .. n
  <2> TAKE a \in Nat
  <2>1. s[b] \in On(s) /\ child[root] # NULL
    BY <1>7, <1>8, ZenonT(30) DEF On, Reached
  <2>2. CASE leftmost[s[b]] = leftmost[child[root]]
    <3>1. owner[leftmost[s[b]]] = root
      BY <1>2, <2>1, <2>2 DEF ChildOf
    <3>2. LineFrom(s, child[root], 0, 0, b, a) <=> a = 0
      BY <2>2 DEF LineFrom
    <3>3. 0 \in 0 .. n /\ at[0 + 1] = root
      BY <1>8
    <3>4. a \in 0 .. n /\ at[a + 1] = root => a = 0
      <4>1. ASSUME a \in 0 .. n, at[a + 1] = root PROVE a = 0
        <5>1. a + 1 \in DOMAIN at /\ 1 \in DOMAIN at
          BY <1>8, <4>1
        <5>2. a + 1 = 1
          BY <1>8, <1>11, <4>1, <5>1
        <5> QED
          BY <5>2
      <4> QED
        BY <4>1
    <3> QED
      BY <3>1, <3>2, <3>3, <3>4
  <2>3. CASE leftmost[s[b]] # leftmost[child[root]]
    <3>1. LineFrom(s, child[root], 0, 0, b, a) <=>
            \E j \in DOMAIN s : a = 0 + j /\ s[j] = owner[leftmost[s[b]]]
      BY <2>3 DEF LineFrom
    <3>2. PICK m \in 1 .. n : s[m] = owner[leftmost[s[b]]]
      <4>1. owner[leftmost[s[b]]] \in On(s)
        BY <1>7, <2>1, <2>3 DEF Reached
      <4> QED
        BY <1>8, <4>1 DEF On
    <3>3. at[m + 1] = s[m] /\ m \in 0 .. n /\ m \in Nat
      BY <1>8
    <3>4. LineFrom(s, child[root], 0, 0, b, a) <=> a = m
      <4>1. \A j \in DOMAIN s : s[j] = s[m] => j = m
        BY <1>7, <1>8 DEF Distinct
      <4>2. \A j \in DOMAIN s : 0 + j = j
        BY <1>8
      <4> QED
        BY <3>1, <3>2, <4>1, <4>2, <1>8
    <3>5. a \in 0 .. n /\ at[a + 1] = s[m] => a = m
      <4>1. ASSUME a \in 0 .. n, at[a + 1] = s[m] PROVE a = m
        <5>1. a + 1 \in DOMAIN at /\ m + 1 \in DOMAIN at
          BY <1>8, <4>1
        <5>2. a + 1 = m + 1
          BY <1>11, <3>3, <4>1, <5>1
        <5> QED
          BY <5>2
      <4> QED
        BY <4>1
    <3> QED
      BY <3>2, <3>3, <3>4, <3>5
  <2> QED
    BY <2>2, <2>3
<1>14. On(graph.edges) =
         {line \in (0 .. n) \X (1 .. n) : at[line[1] + 1] = owner[leftmost[at[line[2] + 1]]]}
  <2>1. On(graph.edges) \subseteq Nat \X Nat
    BY <1>6, <1>7 DEF On
  <2>2. ASSUME NEW a \in Nat, NEW b \in Nat
        PROVE  <<a, b>> \in On(graph.edges) <=>
                 a \in 0 .. n /\ b \in 1 .. n /\ at[a + 1] = owner[leftmost[at[b + 1]]]
    <3>1. <<a, b>> \in On(graph.edges) <=>
            \E i \in DOMAIN s : b = 0 + i /\ LineFrom(s, child[root], 0, 0, i, a)
      BY <1>6, <1>7 DEF LinesOf
    <3>2. <<a, b>> \in On(graph.edges) <=>
            b \in 1 .. n /\ LineFrom(s, child[root], 0, 0, b, a)
      <4>1. \A i \in DOMAIN s : 0 + i = i
        BY <1>8
      <4> QED
        BY <3>1, <4>1, <1>8
    <3>3. b \in 1 .. n => at[b + 1] = s[b]
      BY <1>8
    <3> QED
      BY <3>2, <3>3, <1>13
  <2>3. ASSUME NEW e \in On(graph.edges)
        PROVE  /\ e \in (0 .. n) \X (1 .. n)
               /\ at[e[1] + 1] = owner[leftmost[at[e[2] + 1]]]
    <3>1. PICK a \in Nat, b \in Nat : e = <<a, b>>
      BY <2>1
    <3>2. a \in 0 .. n /\ b \in 1 .. n /\ at[a + 1] = owner[leftmost[at[b + 1]]]
      BY <2>2, <3>1
    <3> QED
      BY <3>1, <3>2
  <2>4. ASSUME NEW e \in (0 .. n) \X (1 .. n),
               at[e[1] + 1] = owner[leftmost[at[e[2] + 1]]]
        PROVE  e \in On(graph.edges)
    <3>1. PICK a \in 0 .. n, b \in 1 .. n : e = <<a, b>>
      OBVIOUS
    <3>2. a \in Nat /\ b \in Nat /\ at[a + 1] = owner[leftmost[at[b + 1]]]
      BY <2>4, <3>1
    <3> QED
      BY <2>2, <3>1, <3>2
  <2> QED
    BY <2>3, <2>4
<1>15. ASSUME NEW i \in DOMAIN at, child[at[i]] # NULL, NEW k \in DOMAIN row[child[at[i]]]
       PROVE  \E j \in DOMAIN at : at[j] = row[child[at[i]]][k]
  <2>1. at[i] \in Made /\ child[at[i]] \in On(s)
    <3>1. CASE i = 1
      BY <1>7, <1>8, <1>15, <3>1 DEF Reached
    <3>2. CASE i # 1
      <4>1. at[i] \in On(s)
        BY <1>8, <1>10, <3>2 DEF On
      <4> QED
        BY <1>7, <1>15, <4>1 DEF Reached
    <3> QED
      BY <3>1, <3>2
  <2>2. child[at[i]] \in Node /\ row[child[at[i]]] # << >>
    <3>1. ChildOf(rank, at[i])
      BY <1>1, <2>1 DEF TreeShape
    <3>2. child[at[i]] \in Made /\ leftmost[child[at[i]]] = child[at[i]]
      BY <1>15, <3>1 DEF ChildOf
    <3> QED
      BY <3>2, SettledLinks
  <2>3. row[child[at[i]]][k] \in On(s)
    BY <1>7, <2>1, <2>2, RowReached
  <2>4. PICK m \in 1 .. n : s[m] = row[child[at[i]]][k]
    BY <1>8, <2>3 DEF On
  <2>5. m + 1 \in DOMAIN at /\ at[m + 1] = s[m]
    BY <1>8
  <2> QED
    BY <2>4, <2>5
<1>16. GraphOfTree(root, graph)
  <2>1. {graph.edges[i] : i \in DOMAIN graph.edges} = On(graph.edges)
    BY DEF On
  <2>2. Len(at) - 1 = n
    BY <1>8
  <2>3. {graph.edges[i] : i \in DOMAIN graph.edges} =
          {line \in (0 .. Len(at) - 1) \X (1 .. Len(at) - 1) :
             at[line[1] + 1] = owner[leftmost[at[line[2] + 1]]]}
    BY <1>14, <2>1, <2>2
  <2> QED
    BY <1>5, <1>8, <1>11, <1>12, <1>15, <2>3 DEF GraphOfTree
<1> QED
  BY <1>5, <1>16

(* draw.c: what ccmmc_draw_ast prints for a finished tree is that tree,    *)
(* whatever its size and the order in which it was built.                  *)
THEOREM DrawsTreeHolds == Spec => []DrawsTree
<1>1. IInv /\ DescentInv => DrawsTree
  <2> SUFFICES ASSUME IInv, DescentInv, pc = "parse", NEW root \in 1 .. made
               PROVE  GraphOfTree(root, DrawAst(root))
    BY DEF DrawsTree
  <2>1. PICK R \in Nat : FallsWithin(R)
    BY DEF DescentInv
  <2>2. PICK rank \in [Node -> 0 .. R] : Falls(rank)
    BY <2>1 DEF FallsWithin
  <2>3. Settled /\ root \in Made
    BY DEF Settled, Made
  <2> QED
    BY <2>2, <2>3, GraphDrawn
<1> QED
  BY <1>1, Invariance, TreesEnd, PTL
=============================================================================
