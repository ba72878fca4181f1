--------------------------- MODULE CompilerProofs ---------------------------
(***************************************************************************)
(* Proofs about the code generator, for every program: every script that   *)
(* code-generation.c carries out uses the register pool and the labels as  *)
(* it should.  A script is legal from a state a to a state b if each of    *)
(* its items is allowed where it stands.  The states are what the items    *)
(* change: the temporaries that are live and those that are locked, the    *)
(* depth current_offset starts from, the labels that are open, that is     *)
(* numbered but not printed, and those that have a number.                 *)
(***************************************************************************)
EXTENDS Compiler, Induction

(* frame is {depth} where the depth is known, and {} where a nested        *)
(* statement may have left another one; known is a lower bound.            *)
St(L, K, F, O, N) == [live |-> L, lock |-> K, frame |-> F, open |-> O, known |-> N]

(* What is known in b is also known in a.  *)
Weaker(b, a) ==
  /\ b.live = a.live /\ b.lock = a.lock /\ b.open = a.open
  /\ b.frame \subseteq a.frame
  /\ b.known \subseteq a.known

(* Labels of data in the text have other names than labels of code.  *)
DataKinds == {"str", "const"}

(* An operand is a register, or a temporary that is locked.  *)
Operand(o, a) == IF o[1] = "t" THEN o[2] \in a.lock ELSE o[2] # NULL

(* An instruction names operands, labels that are known if it refers to    *)
(* one, and a label that is open if it places one.                         *)
EmitAllowed(i, a) ==
  /\ Operand(i.d, a)
  /\ \A k \in DOMAIN i.s : Operand(i.s[k], a)
  /\ i.f \in {"b", "literal"} => i.a \in a.known
  /\ i.f \in {"label", "data"} => i.a \in a.open
  /\ i.f \in {"b", "label"} => i.a[1] \notin DataKinds
  /\ i.f \in {"literal", "data"} => i.a[1] \in DataKinds

(* The environment of a handler: dimensions of variables are lists of      *)
(* numbers, an argument has a number.                                      *)
EnvOK(env) ==
  /\ env = [type |-> env.type, params |-> env.params, loc |-> env.loc]
  /\ env.params \in Nat
  /\ \A x \in DOMAIN env.loc :
       /\ env.loc[x].dims \in Seq(Nat)
       /\ env.loc[x].seg = "arg" => env.loc[x].a \in Int

(* No temporary of L and no label of O has the number n or a greater one. *)
FreeFrom(n, L, O) ==
  /\ n \in Nat
  /\ \A t \in L : t \in Nat /\ t < n
  /\ \A v \in O : v[2] \in Nat /\ v[2] < n

(* At most one temporary is live, the depth is the one the item names.  *)
AtDepth(off, a) ==
  a.live = {} \/ ((\E x : a.live \subseteq {x}) /\ off \in a.frame)

(* What the functions of code-generation.c owe the pool and each other.  *)
Allowed(i, a) ==
  \/ i.do = "alloc" /\ i.t \notin a.live /\ a.lock = {}
  \/ i.do = "free" /\ i.t \in a.live /\ a.lock = {}
  \/ i.do = "lock" /\ i.t \in a.live /\ \E x, y : a.lock \subseteq {x, y}
  \/ i.do = "unlock" /\ i.t \in a.live
  \/ i.do = "label" /\ i.t \notin a.open
  \/ i.do = "emit" /\ EmitAllowed(i.i, a)
  \/ i.do \in {"save", "load", "unwind"}
  \/ i.do = "offset" /\ a.lock = {} /\ AtDepth(i.t, a)
  \/ i.do = "gen" /\ i.e \in Expr /\ i.t \in a.live /\ a.lock = {}
       /\ FreeFrom(i.n, a.live, a.open) /\ EnvOK(i.env)
  \/ i.do = "stmt" /\ i.s \in Stmt /\ a.lock = {}
       /\ FreeFrom(i.d, a.live, a.open) /\ EnvOK(i.env)
       /\ AtDepth(i.off, a) /\ (a.live = {} \/ i.s \in Simple)
       /\ <<"LR", 0>> \in a.known

(* The state after the item.  *)
Result(i, a) ==
  CASE i.do = "alloc"  -> St(a.live \cup {i.t}, a.lock, a.frame, a.open, a.known)
    [] i.do = "free"   -> St(a.live \ {i.t}, a.lock, a.frame, a.open, a.known)
    [] i.do = "lock"   -> St(a.live, a.lock \cup {i.t}, a.frame, a.open, a.known)
    [] i.do = "unlock" -> St(a.live, a.lock \ {i.t}, a.frame, a.open, a.known)
    [] i.do = "label"  -> St(a.live, a.lock, a.frame, a.open \cup {i.t}, a.known \cup {i.t})
    [] i.do = "emit"   -> St(a.live, a.lock, a.frame,
                             IF i.i.f \in {"label", "data"} THEN a.open \ {i.i.a} ELSE a.open,
                             a.known)
    [] i.do = "offset" -> St(a.live, a.lock, {i.t}, a.open, a.known)
    [] i.do = "stmt"   -> St(a.live, a.lock, IF i.s \in Simple THEN {i.off} ELSE {},
                             a.open, a.known)
    [] OTHER -> a

(* One item takes a to b.  *)
StepTo(i, a, b) == Allowed(i, a) /\ Weaker(b, Result(i, a))

(* st is a run of the script s from a to b.  *)
Runs(st, s, a, b) ==
  /\ Weaker(st[0], a)
  /\ \A k \in 1 .. Len(s) : StepTo(s[k], st[k - 1], st[k])
  /\ st[Len(s)] = b

(* A script is a sequence; its items are of several shapes.                *)
Script(s) == \E Items : s \in Seq(Items)
(* The script s can be carried out from a, and leaves b.                   *)
Legal(s, a, b) == Script(s) /\ \E st : Runs(st, s, a, b)

-----------------------------------------------------------------------------
(* Scripts one after the other.  *)
LEMMA WeakerTrans ==
  ASSUME NEW a, NEW b, NEW c, Weaker(a, b), Weaker(b, c)
  PROVE  Weaker(a, c)
BY DEF Weaker

(* Two scripts end to end: the items of the first, then those of the       *)
(* second.                                                                 *)
LEMMA ScriptCat ==
  ASSUME NEW s, NEW t, Script(s), Script(t)
  PROVE  /\ Script(s \o t)
         /\ Len(s) \in Nat /\ Len(t) \in Nat
         /\ Len(s \o t) = Len(s) + Len(t)
         /\ \A k \in 1 .. Len(s) : (s \o t)[k] = s[k]
         /\ \A k \in 1 .. Len(t) : (s \o t)[Len(s) + k] = t[k]
<1>1. PICK S1 : s \in Seq(S1)
  BY DEF Script
<1>2. PICK S2 : t \in Seq(S2)
  BY DEF Script
<1> DEFINE U == S1 \cup S2
<1>3. s \in Seq(U) /\ t \in Seq(U)
  BY <1>1, <1>2
<1> HIDE DEF U
<1>4. s \o t \in Seq(U) /\ Len(s \o t) = Len(s) + Len(t)
  BY <1>3
<1> QED
  BY <1>3, <1>4 DEF Script

(* The empty script leads to every weaker state.                           *)
LEMMA LegalNil ==
  ASSUME NEW a, NEW b, Weaker(b, a)
  PROVE  Legal(<< >>, a, b)
<1> DEFINE st == [k \in {0} |-> b]
<1>1. Len(<< >>) = 0 /\ << >> \in Seq({})
  OBVIOUS
<1>2. Runs(st, << >>, a, b)
  BY <1>1 DEF Runs
<1> QED
  BY <1>1, <1>2 DEF Legal, Script

(* A script of one item that is allowed.                                   *)
LEMMA LegalItem ==
  ASSUME NEW i, NEW a, NEW b, Allowed(i, a), Weaker(b, Result(i, a))
  PROVE  Legal(<<i>>, a, b)
<1> DEFINE st == [k \in {0, 1} |-> IF k = 0 THEN a ELSE b]
<1>1. Len(<<i>>) = 1 /\ <<i>> \in Seq({i}) /\ <<i>>[1] = i
  OBVIOUS
<1>2. Weaker(st[0], a)
  BY DEF Weaker
<1>3. \A k \in 1 .. 1 : StepTo(<<i>>[k], st[k - 1], st[k])
  <2>1. StepTo(<<i>>[1], st[1 - 1], st[1])
    BY <1>1 DEF StepTo
  <2> QED
    BY <2>1
<1>4. Runs(st, <<i>>, a, b)
  BY <1>1, <1>2, <1>3 DEF Runs
<1> QED
  BY <1>1, <1>4 DEF Legal, Script

(* Legal scripts one after the other are legal: what a function of code-   *)
(* generation.c does is shown piece by piece.                              *)
LEMMA LegalCat ==
  ASSUME NEW s, NEW t, NEW a, NEW b, NEW c, Legal(s, a, b), Legal(t, b, c)
  PROVE  Legal(s \o t, a, c)
<1>1. PICK f : Runs(f, s, a, b)
  BY DEF Legal
<1>2. PICK g : Runs(g, t, b, c)
  BY DEF Legal
<1>3. PICK m : m = Len(s)
  OBVIOUS
<1>4. PICK n : n = Len(t)
  OBVIOUS
<1>5. /\ Script(s \o t) /\ m \in Nat /\ n \in Nat
      /\ Len(s \o t) = m + n
      /\ \A k \in 1 .. m : (s \o t)[k] = s[k]
      /\ \A k \in 1 .. n : (s \o t)[m + k] = t[k]
  BY <1>3, <1>4, ScriptCat DEF Legal
<1>6. PICK st : st = [k \in 0 .. m + n |-> IF k < m THEN f[k] ELSE g[k - m]]
  OBVIOUS
<1>7. /\ \A k \in 0 .. m - 1 : st[k] = f[k]
      /\ \A k \in 0 .. n : st[m + k] = g[k]
  BY <1>5, <1>6
<1>8. Weaker(st[0], a)
  <2>1. CASE m = 0
    <3>1. st[0] = g[0] /\ f[0] = b
      BY <2>1, <1>1, <1>3, <1>5, <1>7 DEF Runs
    <3> QED
      BY <3>1, <1>1, <1>2, WeakerTrans DEF Runs
  <2>2. CASE m # 0
    <3>1. st[0] = f[0]
      BY <2>2, <1>5, <1>7
    <3> QED
      BY <3>1, <1>1 DEF Runs
  <2> QED
    BY <2>1, <2>2
<1>9. \A k \in 1 .. m + n : StepTo((s \o t)[k], st[k - 1], st[k])
  <2> TAKE k \in 1 .. m + n
  <2>1. CASE k < m
    <3>1. k \in 1 .. m /\ k - 1 \in 0 .. m - 1 /\ k \in 0 .. m - 1
      BY <2>1, <1>5
    <3> QED
      BY <3>1, <1>1, <1>3, <1>5, <1>7 DEF Runs
  <2>2. CASE k = m
    <3>1. k \in 1 .. m /\ k - 1 \in 0 .. m - 1 /\ k = m + 0 /\ 0 \in 0 .. n
      BY <2>2, <1>5
    <3>2. st[k - 1] = f[k - 1] /\ st[k] = g[0]
      BY <3>1, <1>7
    <3>3. StepTo(s[k], f[k - 1], b)
      BY <3>1, <2>2, <1>1, <1>3 DEF Runs
    <3>4. Weaker(g[0], b)
      BY <1>2 DEF Runs
    <3>5. StepTo(s[k], f[k - 1], g[0])
      BY <3>3, <3>4, WeakerTrans DEF StepTo
    <3> QED
      BY <3>1, <3>2, <3>5, <1>5
  <2>3. CASE k > m
    <3>1. PICK j \in 1 .. n : k = m + j
      BY <2>3, <1>5
    <3>2. j - 1 \in 0 .. n /\ j \in 0 .. n /\ k - 1 = m + (j - 1)
      BY <3>1, <1>5
    <3>3. st[k - 1] = g[j - 1] /\ st[k] = g[j]
      BY <3>1, <3>2, <1>7
    <3>4. StepTo(t[j], g[j - 1], g[j])
      BY <3>1, <1>2, <1>4 DEF Runs
    <3> QED
      BY <3>1, <3>3, <3>4, <1>5
  <2> QED
    BY <2>1, <2>2, <2>3, <1>5
<1>10. st[m + n] = c
  <2>1. n \in 0 .. n
    BY <1>5
  <2> QED
    BY <2>1, <1>2, <1>4, <1>7 DEF Runs
<1>11. Runs(st, s \o t, a, c)
  BY <1>5, <1>8, <1>9, <1>10 DEF Runs
<1> QED
  BY <1>5, <1>11 DEF Legal

(* What is legal from a weaker state is legal.  *)
LEMMA LegalFrom ==
  ASSUME NEW s, NEW a, NEW b, NEW c, Legal(s, a, c), Weaker(a, b)
  PROVE  Legal(s, b, c)
<1>1. PICK st : Runs(st, s, a, c)
  BY DEF Legal
<1>2. Runs(st, s, b, c)
  BY <1>1, WeakerTrans DEF Runs
<1> QED
  BY <1>2 DEF Legal

(* A legal script leads to every state weaker than its last.               *)
LEMMA LegalTo ==
  ASSUME NEW s, NEW a, NEW b, NEW c, Legal(s, a, b), Weaker(c, b)
  PROVE  Legal(s, a, c)
<1>1. Legal(<< >>, b, c)
  BY LegalNil
<1>2. Legal(s \o << >>, a, c)
  BY <1>1, LegalCat
<1>3. s \o << >> = s
  BY DEF Legal, Script
<1> QED
  BY <1>2, <1>3

(* The first item of a script, and the rest.  *)
LEMMA LegalFirst ==
  ASSUME NEW s, NEW a, NEW c, Legal(s, a, c), s # << >>
  PROVE  /\ Script(Tail(s))
         /\ \E b : /\ Weaker(b, a) /\ Allowed(Head(s), b)
                   /\ Legal(Tail(s), Result(Head(s), b), c)
<1>1. PICK st : Runs(st, s, a, c)
  BY DEF Legal
<1>2. PICK Items : s \in Seq(Items)
  BY DEF Legal, Script
<1>3. PICK n : n = Len(s)
  OBVIOUS
<1>4. /\ n \in Nat \ {0} /\ Tail(s) \in Seq(Items) /\ Len(Tail(s)) = n - 1
      /\ Head(s) = s[1] /\ \A k \in 1 .. n - 1 : Tail(s)[k] = s[k + 1]
  BY <1>2, <1>3
<1>5. StepTo(s[1], st[0], st[1]) /\ Weaker(st[0], a)
  <2>1. 1 \in 1 .. n /\ 1 - 1 = 0
    BY <1>4
  <2> QED
    BY <2>1, <1>1, <1>3 DEF Runs
<1>6. PICK g : g = [k \in 0 .. n - 1 |-> st[k + 1]]
  OBVIOUS
<1>7. Runs(g, Tail(s), Result(Head(s), st[0]), c)
  <2>1. g[0] = st[1] /\ g[n - 1] = st[n]
    BY <1>4, <1>6
  <2>2. \A k \in 1 .. n - 1 : StepTo(Tail(s)[k], g[k - 1], g[k])
    <3> TAKE k \in 1 .. n - 1
    <3>1. k + 1 \in 1 .. n /\ k - 1 \in 0 .. n - 1 /\ k \in 0 .. n - 1
            /\ (k - 1) + 1 = k /\ (k + 1) - 1 = k
      BY <1>4
    <3>2. g[k - 1] = st[k] /\ g[k] = st[k + 1]
      BY <3>1, <1>6
    <3> QED
      BY <3>1, <3>2, <1>1, <1>3, <1>4 DEF Runs
  <2> QED
    BY <2>1, <2>2, <1>1, <1>3, <1>4, <1>5 DEF Runs, StepTo
<1> QED
  BY <1>4, <1>5, <1>7 DEF Legal, Script, StepTo

(* FlattenSeq puts the elements of a sequence of scripts end to end: it is *)
(* defined by recursion, and the recursion has a solution.                 *)
IsFlatten(f, q, n) ==
  f = [i \in 1 .. n |-> IF i = 1 THEN q[i] ELSE f[i - 1] \o q[i]]

(* The recursion has a solution for every length, by induction on it.      *)
LEMMA FlattenExists ==
  ASSUME NEW q, NEW n \in Nat
  PROVE  \E f : IsFlatten(f, q, n)
<1> DEFINE A == {m \in Nat : \E f : IsFlatten(f, q, m)}
<1>1. 0 \in A
  <2> DEFINE f == [i \in {} |-> q]
  <2>1. f = [i \in 1 .. 0 |-> IF i = 1 THEN q[i] ELSE f[i - 1] \o q[i]]
    OBVIOUS
  <2> QED
    BY <2>1 DEF IsFlatten
<1>2. \A m \in Nat : m \in A => m + 1 \in A
  <2> SUFFICES ASSUME NEW m \in Nat, NEW f, IsFlatten(f, q, m)
               PROVE  \E g : IsFlatten(g, q, m + 1)
    OBVIOUS
  <2>1. PICK g : g = [i \in 1 .. m + 1 |->
                        IF i \in 1 .. m THEN f[i]
                        ELSE IF i = 1 THEN q[i] ELSE f[i - 1] \o q[i]]
    OBVIOUS
  <2>2. \A i \in 1 .. m : g[i] = f[i]
    BY <2>1
  <2>3. \A i \in 1 .. m + 1 : g[i] = IF i = 1 THEN q[i] ELSE g[i - 1] \o q[i]
    <3> TAKE i \in 1 .. m + 1
    <3>1. CASE i \in 1 .. m
      <4>1. f[i] = IF i = 1 THEN q[i] ELSE f[i - 1] \o q[i]
        BY <3>1 DEF IsFlatten
      <4>2. i # 1 => i - 1 \in 1 .. m
        BY <3>1
      <4> QED
        BY <3>1, <4>1, <4>2, <2>2
    <3>2. CASE i = m + 1
      <4>1. i \notin 1 .. m /\ (i # 1 => i - 1 \in 1 .. m)
        BY <3>2
      <4> QED
        BY <4>1, <2>1, <2>2
    <3> QED
      BY <3>1, <3>2
  <2>4. g = [i \in 1 .. m + 1 |-> IF i = 1 THEN q[i] ELSE g[i - 1] \o q[i]]
    BY <2>1, <2>3
  <2> QED
    BY <2>4 DEF IsFlatten
<1> HIDE DEF A
<1>3. n \in A
  BY <1>1, <1>2, SetInduction
<1> QED
  BY <1>3 DEF A

(* FlattenSeq is the last value of a solution.                             *)
LEMMA FlattenSolves ==
  ASSUME NEW q, Len(q) \in Nat \ {0}
  PROVE  \E f : IsFlatten(f, q, Len(q)) /\ FlattenSeq(q) = f[Len(q)]
<1> DEFINE g == CHOOSE f : IsFlatten(f, q, Len(q))
<1>1. IsFlatten(g, q, Len(q))
  BY FlattenExists
<1>2. FlattenSeq(q) = g[Len(q)]
  BY DEF FlattenSeq, IsFlatten
<1> QED
  BY <1>1, <1>2

(* If every script of q goes from one state of st to the next, all of them *)
(* together go from the first to the last.                                 *)
LEMMA LegalFlatten ==
  ASSUME NEW q, NEW n \in Nat, NEW Items, q \in [1 .. n -> Items], NEW st,
         \A i \in 1 .. n : Legal(q[i], st[i - 1], st[i])
  PROVE  Legal(FlattenSeq(q), st[0], st[n])
<1>1. q \in Seq(Items) /\ Len(q) = n
  OBVIOUS
<1>2. CASE n = 0
  <2>1. q = << >> /\ FlattenSeq(q) = q
    BY <1>1, <1>2 DEF FlattenSeq
  <2>2. Weaker(st[0], st[0])
    BY DEF Weaker
  <2> QED
    BY <1>2, <2>1, <2>2, LegalNil
<1>3. CASE n # 0
  <2>1. PICK f : IsFlatten(f, q, n) /\ FlattenSeq(q) = f[n]
    BY <1>1, <1>3, FlattenSolves
  <2> DEFINE A == {m \in Nat : m + 1 \in 1 .. n => Legal(f[m + 1], st[0], st[m + 1])}
  <2>2. 0 \in A
    <3>1. f[1] = q[1] /\ 1 \in 1 .. n /\ 1 - 1 = 0 /\ 0 + 1 = 1
      BY <2>1, <1>3 DEF IsFlatten
    <3> QED
      BY <3>1
  <2>3. \A m \in Nat : m \in A => m + 1 \in A
    <3> SUFFICES ASSUME NEW m \in Nat, m \in A, m + 2 \in 1 .. n
                 PROVE  Legal(f[m + 2], st[0], st[m + 2])
      OBVIOUS
    <3>1. m + 1 \in 1 .. n /\ m + 2 # 1 /\ (m + 2) - 1 = m + 1
      OBVIOUS
    <3>2. f[m + 2] = f[m + 1] \o q[m + 2]
      BY <3>1, <2>1 DEF IsFlatten
    <3>3. Legal(f[m + 1], st[0], st[m + 1]) /\ Legal(q[m + 2], st[m + 1], st[m + 2])
      BY <3>1
    <3> QED
      BY <3>2, <3>3, LegalCat
  <2> HIDE DEF A
  <2>4. n - 1 \in A
    BY <1>3, <2>2, <2>3, SetInduction
  <2>5. (n - 1) + 1 = n
    OBVIOUS
  <2> QED
    BY <2>1, <2>4, <2>5, <1>3 DEF A
<1> QED
  BY <1>2, <1>3

(* Scripts that all end where they start.  *)
LEMMA LegalEach ==
  ASSUME NEW q, NEW n \in Nat, NEW Items, q \in [1 .. n -> Items], NEW a,
         \A i \in 1 .. n : Legal(q[i], a, a)
  PROVE  Legal(FlattenSeq(q), a, a)
<1> DEFINE st == [i \in 0 .. n |-> a]
<1>1. \A i \in 1 .. n : Legal(q[i], st[i - 1], st[i])
  OBVIOUS
<1>2. st[0] = a /\ st[n] = a
  OBVIOUS
<1> HIDE DEF st
<1> QED
  BY <1>1, <1>2, LegalFlatten

-----------------------------------------------------------------------------
(* The items, and the pieces of scripts made of them.  *)
LEMMA LegalAlloc ==
  ASSUME NEW L, NEW F, NEW O, NEW N, NEW t, t \notin L
  PROVE  Legal(Do("alloc", t), St(L, {}, F, O, N), St(L \cup {t}, {}, F, O, N))
<1> DEFINE i == [do |-> "alloc", t |-> t]
<1>1. Allowed(i, St(L, {}, F, O, N))
  BY DEF Allowed, St
<1>2. Weaker(St(L \cup {t}, {}, F, O, N), Result(i, St(L, {}, F, O, N)))
  BY DEF Weaker, Result, St
<1> QED
  BY <1>1, <1>2, LegalItem DEF Do

(* ccmmc_register_free of a temporary that is live, with no lock held.     *)
LEMMA LegalFree ==
  ASSUME NEW L, NEW F, NEW O, NEW N, NEW t, t \notin L
  PROVE  Legal(Do("free", t), St(L \cup {t}, {}, F, O, N), St(L, {}, F, O, N))
<1> DEFINE i == [do |-> "free", t |-> t]
<1>1. Allowed(i, St(L \cup {t}, {}, F, O, N))
  BY DEF Allowed, St
<1>2. (L \cup {t}) \ {t} = L
  OBVIOUS
<1>3. Weaker(St(L, {}, F, O, N), Result(i, St(L \cup {t}, {}, F, O, N)))
  BY <1>2 DEF Weaker, Result, St
<1> QED
  BY <1>1, <1>3, LegalItem DEF Do

(* ccmmc_register_lock while at most two temporaries are locked.           *)
LEMMA LegalLock ==
  ASSUME NEW L, NEW K, NEW F, NEW O, NEW N, NEW t \in L, \E x, y : K \subseteq {x, y}
  PROVE  Legal(Do("lock", t), St(L, K, F, O, N), St(L, K \cup {t}, F, O, N))
<1> DEFINE i == [do |-> "lock", t |-> t]
<1>1. Allowed(i, St(L, K, F, O, N))
  BY DEF Allowed, St
<1>2. Weaker(St(L, K \cup {t}, F, O, N), Result(i, St(L, K, F, O, N)))
  BY DEF Weaker, Result, St
<1> QED
  BY <1>1, <1>2, LegalItem DEF Do

(* ccmmc_register_unlock of a temporary that is live.                      *)
LEMMA LegalUnlock ==
  ASSUME NEW L, NEW K, NEW F, NEW O, NEW N, NEW t \in L
  PROVE  Legal(Do("unlock", t), St(L, K, F, O, N), St(L, K \ {t}, F, O, N))
<1> DEFINE i == [do |-> "unlock", t |-> t]
<1>1. Allowed(i, St(L, K, F, O, N))
  BY DEF Allowed, St
<1>2. Weaker(St(L, K \ {t}, F, O, N), Result(i, St(L, K, F, O, N)))
  BY DEF Weaker, Result, St
<1> QED
  BY <1>1, <1>2, LegalItem DEF Do

(* A new number for a label that is not open.                              *)
LEMMA LegalLabelDo ==
  ASSUME NEW L, NEW K, NEW F, NEW O, NEW N, NEW v, v \notin O
  PROVE  Legal(Do("label", v), St(L, K, F, O, N), St(L, K, F, O \cup {v}, N \cup {v}))
<1> DEFINE i == [do |-> "label", t |-> v]
<1>1. Allowed(i, St(L, K, F, O, N))
  BY DEF Allowed, St
<1>2. Weaker(St(L, K, F, O \cup {v}, N \cup {v}), Result(i, St(L, K, F, O, N)))
  BY DEF Weaker, Result, St
<1> QED
  BY <1>1, <1>2, LegalItem DEF Do

(* Saving and restoring registers and unwinding the stack are always       *)
(* allowed.                                                                *)
LEMMA LegalPlain ==
  ASSUME NEW what, what \in {"save", "load", "unwind"}, NEW x, NEW a
  PROVE  Legal(Do(what, x), a, a)
<1> DEFINE i == [do |-> what, t |-> x]
<1>1. Allowed(i, a) /\ Weaker(a, Result(i, a))
  BY DEF Allowed, Weaker, Result
<1> QED
  BY <1>1, LegalItem DEF Do

(* Another current_offset, at a depth at which it may change.              *)
LEMMA LegalOffset ==
  ASSUME NEW L, NEW F, NEW O, NEW N, NEW off, AtDepth(off, St(L, {}, F, O, N))
  PROVE  Legal(Offset(off), St(L, {}, F, O, N), St(L, {}, {off}, O, N))
<1> DEFINE i == [do |-> "offset", t |-> off]
<1>1. Allowed(i, St(L, {}, F, O, N))
  BY DEF Allowed, St
<1>2. Weaker(St(L, {}, {off}, O, N), Result(i, St(L, {}, F, O, N)))
  BY DEF Weaker, Result, St
<1> QED
  BY <1>1, <1>2, LegalItem DEF Offset, Do

(* Instructions whose last operand is not a label.  *)
LEMMA LegalEmit ==
  ASSUME NEW a, NEW f, f \notin {"b", "label", "data", "literal"},
         NEW op, NEW d, Operand(d, a),
         NEW s, \A k \in DOMAIN s : Operand(s[k], a), NEW x
  PROVE  Legal(Emit(f, op, d, s, x), a, a)
<1> DEFINE e == [f |-> f, op |-> op, d |-> d, s |-> s, a |-> x]
           i == [do |-> "emit", i |-> e]
<1>1. EmitAllowed(e, a)
  BY DEF EmitAllowed
<1>2. Allowed(i, a)
  BY <1>1 DEF Allowed
<1>3. Weaker(a, Result(i, a))
  BY DEF Weaker, Result, St
<1> QED
  BY <1>2, <1>3, LegalItem DEF Emit

(* Branches, and loads of literals, to a label that has its number.  *)
LEMMA LegalUse ==
  ASSUME NEW L, NEW K, NEW F, NEW O, NEW N, NEW op,
         NEW d, Operand(d, St(L, K, F, O, N)),
         NEW s, \A k \in DOMAIN s : Operand(s[k], St(L, K, F, O, N)),
         NEW f, NEW v \in N,
         \/ f = "b" /\ v[1] \notin DataKinds
         \/ f = "literal" /\ v[1] \in DataKinds
  PROVE  Legal(Emit(f, op, d, s, v), St(L, K, F, O, N), St(L, K, F, O, N))
<1> DEFINE a == St(L, K, F, O, N)
           e == [f |-> f, op |-> op, d |-> d, s |-> s, a |-> v]
           i == [do |-> "emit", i |-> e]
<1>1. EmitAllowed(e, a)
  BY DEF EmitAllowed, St
<1>2. Allowed(i, a)
  BY <1>1 DEF Allowed
<1>3. Weaker(a, Result(i, a))
  BY DEF Weaker, Result, St
<1> QED
  BY <1>2, <1>3, LegalItem DEF Emit

(* The place of a label that is open.  *)
LEMMA LegalPlace ==
  ASSUME NEW L, NEW K, NEW F, NEW O, NEW N, NEW op, NEW v, v \notin O,
         NEW f,
         \/ f = "label" /\ v[1] \notin DataKinds
         \/ f = "data" /\ v[1] \in DataKinds
  PROVE  Legal(Emit(f, op, None, << >>, v), St(L, K, F, O \cup {v}, N), St(L, K, F, O, N))
<1> DEFINE a == St(L, K, F, O \cup {v}, N)
           e == [f |-> f, op |-> op, d |-> None, s |-> << >>, a |-> v]
           i == [do |-> "emit", i |-> e]
<1>1. Operand(None, a)
  BY PoolAssumption DEF Operand, None, R
<1>2. EmitAllowed(e, a)
  BY <1>1 DEF EmitAllowed, St
<1>3. Allowed(i, a)
  BY <1>2 DEF Allowed
<1>4. (O \cup {v}) \ {v} = O
  OBVIOUS
<1>5. Weaker(St(L, K, F, O, N), Result(i, a))
  BY <1>4 DEF Weaker, Result, St
<1> QED
  BY <1>3, <1>5, LegalItem DEF Emit

(* A call of generate_expression, into a temporary that is live.           *)
LEMMA LegalGen ==
  ASSUME NEW L, NEW F, NEW O, NEW N, NEW e \in Expr, NEW t \in L, NEW n,
         FreeFrom(n, L, O), NEW env, EnvOK(env)
  PROVE  Legal(Gen(e, t, n, env), St(L, {}, F, O, N), St(L, {}, F, O, N))
<1> DEFINE a == St(L, {}, F, O, N)
           i == [do |-> "gen", e |-> e, t |-> t, n |-> n, env |-> env]
<1>1. a.lock = {} /\ t \in a.live /\ FreeFrom(n, a.live, a.open)
  BY DEF St
<1>2. Allowed(i, a) /\ Weaker(a, Result(i, a))
  BY <1>1 DEF Allowed, Weaker, Result
<1> QED
  BY <1>2, LegalItem DEF Gen

(* Locked: up to three temporaries are locked, and unlocked again.  *)
LEMMA LegalLocked ==
  ASSUME NEW L, NEW F, NEW O, NEW N, NEW P, NEW M, NEW ts \in Seq(L), Len(ts) <= 3,
         NEW K, K = {ts[k] : k \in DOMAIN ts}, NEW body,
         Legal(body, St(L, K, F, O, N), St(L, K, F, P, M))
  PROVE  Legal(Locked(ts, body), St(L, {}, F, O, N), St(L, {}, F, P, M))
<1> DEFINE lock == [k \in DOMAIN ts |-> Do("lock", ts[k])]
           unlock == [k \in DOMAIN ts |-> Do("unlock", ts[k])]
<1>1. PICK n : n = Len(ts)
  OBVIOUS
<1>2. n \in 0 .. 3 /\ DOMAIN ts = 1 .. n /\ \A k \in 1 .. n : ts[k] \in L
  BY <1>1
<1>3. Legal(FlattenSeq(lock), St(L, {}, F, O, N), St(L, K, F, O, N))
  <2>1. PICK st : st = [k \in 0 .. n |-> St(L, {ts[j] : j \in 1 .. k}, F, O, N)]
    OBVIOUS
  <2>2. \A k \in 1 .. n : Legal(lock[k], st[k - 1], st[k])
    <3> TAKE k \in 1 .. n
    <3> DEFINE K1 == {ts[j] : j \in 1 .. k - 1}
               K2 == {ts[j] : j \in 1 .. k}
    <3>1. \A j \in 1 .. k - 1 : j = 1 \/ j = 2
      BY <1>2
    <3>2. K1 \subseteq {ts[1], ts[2]}
      BY <3>1
    <3>3. K2 = K1 \cup {ts[k]}
      <4>1. \A j : j \in 1 .. k <=> (j \in 1 .. k - 1 \/ j = k)
        BY <1>2
      <4> QED
        BY <4>1
    <3>4. st[k - 1] = St(L, K1, F, O, N) /\ st[k] = St(L, K2, F, O, N)
      BY <1>2, <2>1
    <3>5. ts[k] \in L /\ lock[k] = Do("lock", ts[k])
      BY <1>2
    <3> HIDE DEF K1, K2, lock
    <3>6. Legal(Do("lock", ts[k]), St(L, K1, F, O, N), St(L, K1 \cup {ts[k]}, F, O, N))
      BY <3>2, <3>5, LegalLock
    <3> QED
      BY <3>3, <3>4, <3>5, <3>6
  <2>3. st[0] = St(L, {}, F, O, N) /\ st[n] = St(L, K, F, O, N)
    BY <1>2, <2>1
  <2>4. lock \in [1 .. n -> {Do("lock", ts[k]) : k \in 1 .. n}]
    BY <1>2
  <2> HIDE DEF lock
  <2>5. n \in Nat
    BY <1>2
  <2>6. Legal(FlattenSeq(lock), st[0], st[n])
    BY <2>2, <2>4, <2>5, LegalFlatten
  <2> QED
    BY <2>3, <2>6
<1>4. Legal(FlattenSeq(unlock), St(L, K, F, P, M), St(L, {}, F, P, M))
  <2>1. PICK st : st = [k \in 0 .. n |-> St(L, K \ {ts[j] : j \in 1 .. k}, F, P, M)]
    OBVIOUS
  <2>2. \A k \in 1 .. n : Legal(unlock[k], st[k - 1], st[k])
    <3> TAKE k \in 1 .. n
    <3> DEFINE K1 == K \ {ts[j] : j \in 1 .. k - 1}
               K2 == K \ {ts[j] : j \in 1 .. k}
    <3>3. K2 = K1 \ {ts[k]}
      <4>1. \A j : j \in 1 .. k <=> (j \in 1 .. k - 1 \/ j = k)
        BY <1>2
      <4> QED
        BY <4>1
    <3>4. st[k - 1] = St(L, K1, F, P, M) /\ st[k] = St(L, K2, F, P, M)
      BY <1>2, <2>1
    <3>5. ts[k] \in L /\ unlock[k] = Do("unlock", ts[k])
      BY <1>2
    <3> HIDE DEF K1, K2, unlock
    <3>6. Legal(Do("unlock", ts[k]), St(L, K1, F, P, M), St(L, K1 \ {ts[k]}, F, P, M))
      BY <3>5, LegalUnlock
    <3> QED
      BY <3>3, <3>4, <3>5, <3>6
  <2>3. st[0] = St(L, K, F, P, M) /\ st[n] = St(L, {}, F, P, M)
    <3>1. K \ {ts[j] : j \in 1 .. 0} = K /\ K \ {ts[j] : j \in 1 .. n} = {}
      BY <1>2
    <3> QED
      BY <3>1, <1>2, <2>1
  <2>4. unlock \in [1 .. n -> {Do("unlock", ts[k]) : k \in 1 .. n}]
    BY <1>2
  <2> HIDE DEF unlock
  <2>5. n \in Nat
    BY <1>2
  <2>6. Legal(FlattenSeq(unlock), st[0], st[n])
    BY <2>2, <2>4, <2>5, LegalFlatten
  <2> QED
    BY <2>3, <2>6
<1> HIDE DEF lock, unlock
<1>5. Legal(FlattenSeq(lock) \o body, St(L, {}, F, O, N), St(L, K, F, P, M))
  BY <1>3, LegalCat
<1>6. Legal(FlattenSeq(lock) \o body \o FlattenSeq(unlock),
            St(L, {}, F, O, N), St(L, {}, F, P, M))
  BY <1>4, <1>5, LegalCat
<1> QED
  BY <1>6 DEF Locked, lock, unlock

(* One temporary is locked around a piece of code.                         *)
LEMMA LegalLocked1 ==
  ASSUME NEW L, NEW F, NEW O, NEW N, NEW P, NEW M, NEW t \in L, NEW body,
         Legal(body, St(L, {t}, F, O, N), St(L, {t}, F, P, M))
  PROVE  Legal(Locked(<<t>>, body), St(L, {}, F, O, N), St(L, {}, F, P, M))
<1>1. <<t>> \in Seq(L) /\ Len(<<t>>) <= 3 /\ {t} = {<<t>>[k] : k \in DOMAIN <<t>>}
  OBVIOUS
<1> QED
  BY <1>1, LegalLocked

(* Two temporaries are locked around a piece of code.                      *)
LEMMA LegalLocked2 ==
  ASSUME NEW L, NEW F, NEW O, NEW N, NEW P, NEW M, NEW t \in L, NEW u \in L, NEW body,
         Legal(body, St(L, {t, u}, F, O, N), St(L, {t, u}, F, P, M))
  PROVE  Legal(Locked(<<t, u>>, body), St(L, {}, F, O, N), St(L, {}, F, P, M))
<1>1. /\ <<t, u>> \in Seq(L) /\ Len(<<t, u>>) <= 3
      /\ {t, u} = {<<t, u>>[k] : k \in DOMAIN <<t, u>>}
  OBVIOUS
<1> QED
  BY <1>1, LegalLocked

(* Three temporaries are locked around a piece of code, REG_LOCK_MAX of    *)
(* them.                                                                   *)
LEMMA LegalLocked3 ==
  ASSUME NEW L, NEW F, NEW O, NEW N, NEW P, NEW M,
         NEW t \in L, NEW u \in L, NEW w \in L, NEW body,
         Legal(body, St(L, {t, u, w}, F, O, N), St(L, {t, u, w}, F, P, M))
  PROVE  Legal(Locked(<<t, u, w>>, body), St(L, {}, F, O, N), St(L, {}, F, P, M))
<1>1. /\ <<t, u, w>> \in Seq(L) /\ Len(<<t, u, w>>) <= 3
      /\ {t, u, w} = {<<t, u, w>>[k] : k \in DOMAIN <<t, u, w>>}
  OBVIOUS
<1> QED
  BY <1>1, LegalLocked

(* The next number is free after a temporary or a label has taken this     *)
(* one.                                                                    *)
LEMMA FreeFromNext ==
  ASSUME NEW n, NEW L, NEW O, FreeFrom(n, L, O)
  PROVE  /\ n \in Nat /\ n \notin L /\ n + 1 \notin L /\ n # n + 1
         /\ FreeFrom(n + 1, L, O) /\ FreeFrom(n + 1, L \cup {n}, O)
         /\ \A x : /\ <<x, n>> \notin O
                   /\ FreeFrom(n + 1, L, O \cup {<<x, n>>})
                   /\ FreeFrom(n + 1, L \cup {n}, O \cup {<<x, n>>})
<1>1. n \in Nat /\ n \notin L /\ n + 1 \notin L /\ n # n + 1
  BY DEF FreeFrom
<1>2. FreeFrom(n + 1, L, O) /\ FreeFrom(n + 1, L \cup {n}, O)
  BY DEF FreeFrom
<1>3. ASSUME NEW x
      PROVE  /\ <<x, n>> \notin O
             /\ FreeFrom(n + 1, L, O \cup {<<x, n>>})
             /\ FreeFrom(n + 1, L \cup {n}, O \cup {<<x, n>>})
  <2>1. <<x, n>>[2] = n
    OBVIOUS
  <2>2. <<x, n>> \notin O
    BY <2>1 DEF FreeFrom
  <2> QED
    BY <1>2, <2>1, <2>2 DEF FreeFrom
<1> QED
  BY <1>1, <1>2, <1>3

(* A locked temporary may be an operand.                                   *)
LEMMA TmpOperand ==
  ASSUME NEW a, NEW t \in a.lock
  PROVE  Operand(T(t), a)
BY DEF Operand, T

(* A register that is named outright may be an operand.                    *)
LEMMA RegOperand ==
  ASSUME NEW a, NEW r \in Int
  PROVE  Operand(R(r), a)
BY PoolAssumption DEF Operand, R

(* The registers that code-generation.c names outright.                    *)
LEMMA ScratchOperands ==
  ASSUME NEW a
  PROVE  /\ \A i \in Int : Operand(R(X(i)), a) /\ Operand(R(S(i)), a)
         /\ Operand(R(X9), a) /\ Operand(None, a)
         /\ Operand(R(S(0)), a) /\ Operand(R(X(0)), a) /\ Operand(R(S(16)), a)
         /\ Operand(R(S(17)), a) /\ Operand(R(S(18)), a)
<1>1. /\ \A i \in Int : X(i) \in Int /\ S(i) \in Int
      /\ X9 \in Int
  BY PoolAssumption, MachineAssumption DEF X, S, X9
<1>2. \A i \in Int : Operand(R(X(i)), a) /\ Operand(R(S(i)), a)
  BY <1>1, RegOperand
<1> QED
  BY <1>1, <1>2, RegOperand DEF None

(* An instruction with one source.                                         *)
LEMMA LegalCompute1 ==
  ASSUME NEW a, NEW op, NEW d, NEW x, Operand(d, a), Operand(x, a)
  PROVE  Legal(Compute(op, d, <<x>>), a, a)
<1>1. \A k \in DOMAIN <<x>> : Operand(<<x>>[k], a)
  OBVIOUS
<1> QED
  BY <1>1, LegalEmit DEF Compute

(* An instruction with two sources.                                        *)
LEMMA LegalCompute2 ==
  ASSUME NEW a, NEW op, NEW d, NEW x, NEW y,
         Operand(d, a), Operand(x, a), Operand(y, a)
  PROVE  Legal(Compute(op, d, <<x, y>>), a, a)
<1>1. \A k \in DOMAIN <<x, y>> : Operand(<<x, y>>[k], a)
  OBVIOUS
<1> QED
  BY <1>1, LegalEmit DEF Compute

(* Instructions without source operands.  *)
LEMMA LegalEmit0 ==
  ASSUME NEW a, NEW f, f \notin {"b", "label", "data", "literal"},
         NEW op, NEW d, Operand(d, a), NEW x
  PROVE  Legal(Emit(f, op, d, << >>, x), a, a)
<1>1. \A k \in DOMAIN << >> : Operand(<< >>[k], a)
  OBVIOUS
<1> QED
  BY <1>1, LegalEmit

(* The stack pointer moves.                                                *)
LEMMA LegalAddSp ==
  ASSUME NEW a, NEW n
  PROVE  Legal(AddSp(n), a, a)
BY LegalEmit0, ScratchOperands DEF AddSp

(* Nothing to do.                                                          *)
LEMMA LegalSame ==
  ASSUME NEW a
  PROVE  Legal(<< >>, a, a)
BY LegalNil DEF Weaker

(* A conversion between int and float, in place.                           *)
LEMMA LegalConvert ==
  ASSUME NEW a, NEW t \in a.lock, NEW from, NEW to
  PROVE  Legal(Convert(from, to, t), a, a)
<1>1. \A op : /\ Legal(Compute(op, R(S(16)), <<T(t)>>), a, a)
              /\ Legal(Compute(op, T(t), <<R(S(16))>>), a, a)
  BY LegalCompute1, TmpOperand, ScratchOperands
<1>2. /\ Legal(Compute("mov", R(S(16)), <<T(t)>>) \o Compute("fcvtas", T(t), <<R(S(16))>>), a, a)
      /\ Legal(Compute("scvtf", R(S(16)), <<T(t)>>) \o Compute("mov", T(t), <<R(S(16))>>), a, a)
  BY <1>1, LegalCat
<1> QED
  BY <1>2, LegalSame DEF Convert

(* calc_expression_result: the value, and its conversion under a lock.     *)
LEMMA LegalConverted ==
  ASSUME NEW L, NEW F, NEW O, NEW N, NEW e \in Expr, NEW type, NEW t \in L, NEW n,
         FreeFrom(n, L, O), NEW env, EnvOK(env)
  PROVE  Legal(GenConverted(e, type, t, n, env), St(L, {}, F, O, N), St(L, {}, F, O, N))
<1>1. t \in St(L, {t}, F, O, N).lock
  BY DEF St
<1>2. Legal(Locked(<<t>>, Convert(e.type, type, t)), St(L, {}, F, O, N), St(L, {}, F, O, N))
  BY <1>1, LegalConvert, LegalLocked1
<1> QED
  BY <1>2, LegalGen, LegalCat DEF GenConverted

-----------------------------------------------------------------------------
(* Constants and variables.  *)
LEMMA LegalConst ==
  ASSUME NEW L, NEW F, NEW O, NEW N, NEW e, NEW t \in L, NEW n, FreeFrom(n, L, O)
  PROVE  Legal(GenConst(e, t, n), St(L, {}, F, O, N), St(L, {}, F, O, N))
<1> DEFINE v == <<"const", n>>
<1>1. v \notin O /\ v[1] \in DataKinds /\ v \in N \cup {v}
  BY FreeFromNext DEF DataKinds
<1>2. /\ t \in St(L, {t}, F, O \cup {v}, N \cup {v}).lock
      /\ t \in St(L, {t}, F, O, N).lock
  BY DEF St
<1> HIDE DEF v
<1>3. Legal(Do("label", v), St(L, {t}, F, O, N), St(L, {t}, F, O \cup {v}, N \cup {v}))
  BY <1>1, LegalLabelDo
<1>4. Legal(Emit("literal", "", T(t), << >>, v),
            St(L, {t}, F, O \cup {v}, N \cup {v}), St(L, {t}, F, O \cup {v}, N \cup {v}))
  <2>1. Operand(T(t), St(L, {t}, F, O \cup {v}, N \cup {v}))
    BY <1>2, TmpOperand
  <2>2. \A k \in DOMAIN << >> : Operand(<< >>[k], St(L, {t}, F, O \cup {v}, N \cup {v}))
    OBVIOUS
  <2> QED
    BY <1>1, <2>1, <2>2, LegalUse
<1>5. Legal(Emit("data", e.v, None, << >>, v),
            St(L, {t}, F, O \cup {v}, N \cup {v}), St(L, {t}, F, O, N \cup {v}))
  BY <1>1, LegalPlace
<1>6. Weaker(St(L, {t}, F, O, N), St(L, {t}, F, O, N \cup {v}))
  BY DEF Weaker, St
<1>7. Legal(Do("label", v) \o Emit("literal", "", T(t), << >>, v)
              \o Emit("data", e.v, None, << >>, v),
            St(L, {t}, F, O, N), St(L, {t}, F, O, N))
  <2>1. Legal(Emit("data", e.v, None, << >>, v),
              St(L, {t}, F, O \cup {v}, N \cup {v}), St(L, {t}, F, O, N))
    BY <1>5, <1>6, LegalTo
  <2> QED
    BY <1>3, <1>4, <2>1, LegalCat
<1>8. Legal(Emit("imm", "", T(t), << >>, e.v), St(L, {t}, F, O, N), St(L, {t}, F, O, N))
  BY <1>2, TmpOperand, LegalEmit0
<1> QED
  BY <1>7, <1>8, LegalLocked1 DEF GenConst, v

(* calc_array_offset *)
LEMMA LegalOffsetOf ==
  ASSUME NEW L, NEW F, NEW O, NEW N, NEW index \in Seq(Expr), index # << >>,
         NEW dims \in Seq(Nat), NEW t \in L, NEW n, FreeFrom(n, L, O), NEW env, EnvOK(env)
  PROVE  Legal(OffsetOf(index, dims, t, n, env), St(L, {}, F, O, N), St(L, {}, F, O, N))
<1> DEFINE scale(k) == Emit("imm", "", T(n + 1), << >>, dims[k])
                         \o Compute("*", T(t), <<T(t), T(n + 1)>>)
           add == Compute("+", T(t), <<T(t), T(n)>>)
           step(k) == IF k <= Len(index)
                      THEN Gen(index[k], n, n + 2, env) \o Locked(<<n, t, n + 1>>, scale(k) \o add)
                      ELSE Locked(<<t, n + 1>>, scale(k))
           q == [k \in 1 .. Len(dims) - 1 |-> step(k + 1)]
           L1 == L \cup {n}
           L2 == L \cup {n} \cup {n + 1}
           L3 == L \cup {n + 1}
           a == St(L, {}, F, O, N)
           b == St(L2, {}, F, O, N)
<1>1. /\ n \in Nat /\ n \notin L /\ n + 1 \notin L1 /\ n \notin L3 /\ L2 = L3 \cup {n}
      /\ n + 1 \notin L /\ FreeFrom(n + 2, L2, O)
  <2>1. FreeFrom(n + 1, L1, O) /\ n \in Nat
    BY FreeFromNext
  <2>2. FreeFrom((n + 1) + 1, L1 \cup {n + 1}, O)
    <3> HIDE DEF L1
    <3> QED
      BY <2>1, FreeFromNext
  <2>3. (n + 1) + 1 = n + 2
    BY <2>1
  <2> QED
    BY <2>1, <2>2, <2>3, FreeFromNext
<1>2. t \in L2 /\ n \in L2 /\ n + 1 \in L2
  OBVIOUS
<1>3. \A k : /\ Legal(scale(k), St(L2, {t, n + 1}, F, O, N), St(L2, {t, n + 1}, F, O, N))
             /\ Legal(scale(k), St(L2, {n, t, n + 1}, F, O, N), St(L2, {n, t, n + 1}, F, O, N))
  <2>1. ASSUME NEW K, t \in K, n + 1 \in K, NEW k
        PROVE  Legal(scale(k), St(L2, K, F, O, N), St(L2, K, F, O, N))
    <3>1. Operand(T(t), St(L2, K, F, O, N)) /\ Operand(T(n + 1), St(L2, K, F, O, N))
      BY <2>1, TmpOperand DEF St
    <3> QED
      BY <3>1, LegalEmit0, LegalCompute2, LegalCat
  <2> QED
    BY <2>1
<1>4. Legal(add, St(L2, {n, t, n + 1}, F, O, N), St(L2, {n, t, n + 1}, F, O, N))
  <2>1. /\ Operand(T(t), St(L2, {n, t, n + 1}, F, O, N))
        /\ Operand(T(n), St(L2, {n, t, n + 1}, F, O, N))
    BY TmpOperand DEF St
  <2> QED
    BY <2>1, LegalCompute2
<1> HIDE DEF scale, add
<1>5. \A k \in Nat \ {0} : Legal(step(k), b, b)
  <2> TAKE k \in Nat \ {0}
  <2>1. CASE k <= Len(index)
    <3>1. index[k] \in Expr
      BY <2>1
    <3> HIDE DEF L2
    <3>2. Legal(Gen(index[k], n, n + 2, env), b, b)
      BY <3>1, <1>1, <1>2, LegalGen
    <3>3. Legal(Locked(<<n, t, n + 1>>, scale(k) \o add), b, b)
      BY <1>2, <1>3, <1>4, LegalCat, LegalLocked3
    <3> QED
      BY <2>1, <3>2, <3>3, LegalCat
  <2>2. CASE ~ (k <= Len(index))
    BY <2>2, <1>2, <1>3, LegalLocked2
  <2> QED
    BY <2>1, <2>2
<1> HIDE DEF step
<1>6. Legal(FlattenSeq(q), b, b)
  <2>1. PICK m \in Nat : 1 .. Len(dims) - 1 = 1 .. m
    <3>1. CASE Len(dims) = 0
      <4>1. 1 .. Len(dims) - 1 = 1 .. 0
        BY <3>1
      <4> QED
        BY <4>1
    <3>2. CASE Len(dims) # 0
      <4>1. Len(dims) - 1 \in Nat
        BY <3>2
      <4> QED
        BY <4>1
    <3> QED
      BY <3>1, <3>2
  <2>2. q \in [1 .. m -> {step(k + 1) : k \in 1 .. m}]
    BY <2>1
  <2>3. \A k \in 1 .. m : Legal(q[k], b, b)
    <3> TAKE k \in 1 .. m
    <3>1. k + 1 \in Nat \ {0} /\ q[k] = step(k + 1)
      BY <2>1
    <3> QED
      BY <3>1, <1>5
  <2> HIDE DEF q
  <2> QED
    BY <2>2, <2>3, LegalEach
<1>7. Legal(Gen(index[1], t, n, env), a, a)
  <2>1. index[1] \in Expr
    OBVIOUS
  <2> QED
    BY <2>1, LegalGen
<1>8. Legal(Do("alloc", n), a, St(L1, {}, F, O, N))
  BY <1>1, LegalAlloc
<1>9. Legal(Do("alloc", n + 1), St(L1, {}, F, O, N), b)
  BY <1>1, LegalAlloc
<1>10. Legal(Do("free", n), b, St(L3, {}, F, O, N))
  BY <1>1, LegalFree
<1>11. Legal(Do("free", n + 1), St(L3, {}, F, O, N), a)
  BY <1>1, LegalFree
<1>12. Legal(Locked(<<t>>, Compute("lsl2", T(t), <<T(t)>>)), a, a)
  <2>1. Operand(T(t), St(L, {t}, F, O, N))
    BY TmpOperand DEF St
  <2> QED
    BY <2>1, LegalCompute1, LegalLocked1
<1>13. OffsetOf(index, dims, t, n, env)
         = Gen(index[1], t, n, env)
             \o Do("alloc", n) \o Do("alloc", n + 1)
             \o FlattenSeq(q)
             \o Do("free", n) \o Do("free", n + 1)
             \o Locked(<<t>>, Compute("lsl2", T(t), <<T(t)>>))
  BY DEF OffsetOf, q, step, scale, add
<1> HIDE DEF a, b, q, L1, L2, L3
<1>14. Legal(Gen(index[1], t, n, env) \o Do("alloc", n) \o Do("alloc", n + 1)
               \o FlattenSeq(q), a, b)
  BY <1>6, <1>7, <1>8, <1>9, LegalCat
<1>15. Legal(Gen(index[1], t, n, env) \o Do("alloc", n) \o Do("alloc", n + 1)
               \o FlattenSeq(q) \o Do("free", n) \o Do("free", n + 1), a, a)
  BY <1>10, <1>11, <1>14, LegalCat
<1>16. OffsetOf(index, dims, t, n, env)
         = (Gen(index[1], t, n, env) \o Do("alloc", n) \o Do("alloc", n + 1)
              \o FlattenSeq(q) \o Do("free", n) \o Do("free", n + 1))
             \o Locked(<<t>>, Compute("lsl2", T(t), <<T(t)>>))
  BY <1>13
<1> QED
  BY <1>12, <1>15, <1>16, LegalCat DEF a

(* The place of a variable, for each of its segments.                      *)
LEMMA LegalPlaceOf ==
  ASSUME NEW a, NEW f \in {"ldr", "str"}, NEW loc, loc.seg = "arg" => loc.a \in Int,
         NEW reg, Operand(reg, a), NEW off, \A k \in DOMAIN off : Operand(off[k], a)
  PROVE  Legal(Place(f, loc, reg, off), a, a)
<1>1. \A op, x : Legal(Emit(f, op, reg, off, x), a, a)
  BY LegalEmit
<1>2. loc.seg = "arg" => Operand(R(X(loc.a)), a)
  BY ScratchOperands
<1>3. loc.seg = "arg" => /\ Legal(Compute("mov", R(X(loc.a)), <<reg>>), a, a)
                         /\ Legal(Compute("mov", reg, <<R(X(loc.a))>>), a, a)
  BY <1>2, LegalCompute1
<1> QED
  BY <1>1, <1>3 DEF Place

(* load_variable and store_variable *)
LEMMA LegalAccess ==
  ASSUME NEW L, NEW F, NEW O, NEW N, NEW f \in {"ldr", "str"},
         NEW id, id.index \in Seq(Expr), NEW t \in L, NEW n, FreeFrom(n, L, O),
         NEW env, EnvOK(env), id.name \in DOMAIN env.loc
  PROVE  Legal(Access(f, id, t, n, env), St(L, {}, F, O, N), St(L, {}, F, O, N))
<1> DEFINE loc == env.loc[id.name]
           L1 == L \cup {n}
           a == St(L, {}, F, O, N)
           b == St(L1, {}, F, O, N)
<1>1. loc.dims \in Seq(Nat) /\ (loc.seg = "arg" => loc.a \in Int)
  BY DEF EnvOK
<1>2. CASE id.index = << >>
  <2>1. Operand(T(t), St(L, {t}, F, O, N))
    BY TmpOperand DEF St
  <2>2. \A k \in DOMAIN << >> : Operand(<< >>[k], St(L, {t}, F, O, N))
    OBVIOUS
  <2>3. Legal(Place(f, loc, T(t), << >>), St(L, {t}, F, O, N), St(L, {t}, F, O, N))
    BY <1>1, <2>1, <2>2, LegalPlaceOf
  <2>4. Legal(Locked(<<t>>, Place(f, loc, T(t), << >>)), a, a)
    BY <2>3, LegalLocked1
  <2> QED
    BY <1>2, <2>4 DEF Access
<1>3. CASE id.index # << >>
  <2>1. n \notin L /\ FreeFrom(n + 1, L1, O) /\ t \in L1 /\ n \in L1
    BY FreeFromNext
  <2>2. Legal(Do("alloc", n), a, b) /\ Legal(Do("free", n), b, a)
    BY <2>1, LegalAlloc, LegalFree
  <2> HIDE DEF L1
  <2>3. Legal(OffsetOf(id.index, loc.dims, n, n + 1, env), b, b)
    BY <1>1, <1>3, <2>1, LegalOffsetOf
  <2>4. Operand(T(t), St(L1, {t, n}, F, O, N)) /\ Operand(T(n), St(L1, {t, n}, F, O, N))
    BY TmpOperand DEF St
  <2>5. \A k \in DOMAIN <<T(n)>> : Operand(<<T(n)>>[k], St(L1, {t, n}, F, O, N))
    BY <2>4
  <2>6. Legal(Place(f, loc, T(t), <<T(n)>>), St(L1, {t, n}, F, O, N), St(L1, {t, n}, F, O, N))
    BY <1>1, <2>4, <2>5, LegalPlaceOf
  <2>7. Legal(Locked(<<t, n>>, Place(f, loc, T(t), <<T(n)>>)), b, b)
    BY <2>1, <2>6, LegalLocked2
  <2>8. Access(f, id, t, n, env)
          = Do("alloc", n) \o OffsetOf(id.index, loc.dims, n, n + 1, env)
              \o Locked(<<t, n>>, Place(f, loc, T(t), <<T(n)>>)) \o Do("free", n)
    BY <1>3 DEF Access
  <2> HIDE DEF a, b, loc
  <2>9. Legal(Do("alloc", n) \o OffsetOf(id.index, loc.dims, n, n + 1, env)
              \o Locked(<<t, n>>, Place(f, loc, T(t), <<T(n)>>)) \o Do("free", n), a, a)
    BY <2>2, <2>3, <2>7, LegalCat
  <2> QED
    BY <2>8, <2>9 DEF a
<1> QED
  BY <1>2, <1>3

(* An assignment: the value, then the store.                               *)
LEMMA LegalAssign ==
  ASSUME NEW L, NEW F, NEW O, NEW N, NEW id, id.index \in Seq(Expr), NEW e \in Expr,
         NEW n, FreeFrom(n, L, O), NEW env, EnvOK(env), id.name \in DOMAIN env.loc
  PROVE  Legal(GenAssign(id, e, n, env), St(L, {}, F, O, N), St(L, {}, F, O, N))
<1> DEFINE L1 == L \cup {n}
           a == St(L, {}, F, O, N)
           b == St(L1, {}, F, O, N)
<1>1. n \notin L /\ FreeFrom(n + 1, L1, O) /\ n \in L1
  BY FreeFromNext
<1>2. Legal(Do("alloc", n), a, b) /\ Legal(Do("free", n), b, a)
  BY <1>1, LegalAlloc, LegalFree
<1> HIDE DEF L1
<1>3. Legal(GenConverted(e, id.type, n, n + 1, env), b, b)
  BY <1>1, LegalConverted
<1>4. Legal(StoreVariable(id, n, n + 1, env), b, b)
  BY <1>1, LegalAccess DEF StoreVariable
<1> HIDE DEF a, b
<1>5. Legal(GenAssign(id, e, n, env), a, a)
  BY <1>2, <1>3, <1>4, LegalCat DEF GenAssign
<1> QED
  BY <1>5 DEF a

-----------------------------------------------------------------------------
(* Calls.  *)
LEMMA LegalArguments ==
  ASSUME NEW a, NEW n \in Nat
  PROVE  Legal(SaveArguments(n), a, a) /\ Legal(LoadArguments(n), a, a)
<1>1. PICK m \in Nat : m = InRegs(n)
  BY MachineAssumption DEF InRegs
<1>2. ASSUME NEW f \in {"ldr", "str"}
      PROVE  Legal(FlattenSeq([i \in 1 .. m |-> Emit(f, "sp", R(X(i - 1)), << >>, i * 8)]), a, a)
  <2> DEFINE q == [i \in 1 .. m |-> Emit(f, "sp", R(X(i - 1)), << >>, i * 8)]
             Q == {Emit(f, "sp", R(X(i - 1)), << >>, i * 8) : i \in 1 .. m}
  <2>1. q \in [1 .. m -> Q]
    OBVIOUS
  <2>2. \A i \in 1 .. m : Legal(q[i], a, a)
    <3> TAKE i \in 1 .. m
    <3>1. Operand(R(X(i - 1)), a)
      BY ScratchOperands
    <3> QED
      BY <3>1, LegalEmit0
  <2> HIDE DEF q, Q
  <2>3. Legal(FlattenSeq(q), a, a)
    BY <2>1, <2>2, LegalEach
  <2> QED
    BY <2>3 DEF q
<1>3. \A k : Legal(AddSp(k), a, a)
  BY LegalAddSp
<1> QED
  BY <1>1, <1>2, <1>3, LegalCat DEF SaveArguments, LoadArguments

(* The registers of the caller are saved before a call and restored after  *)
(* it.                                                                     *)
LEMMA LegalAround ==
  ASSUME NEW a, NEW env, EnvOK(env)
  PROVE  Legal(Before(env), a, a) /\ Legal(After(env), a, a)
BY LegalArguments, LegalPlain, LegalCat DEF Before, After, EnvOK

(* The call itself.                                                        *)
LEMMA LegalBl ==
  ASSUME NEW a, NEW e, NEW args
  PROVE  Legal(Bl(e, args), a, a)
BY LegalEmit0, ScratchOperands DEF Bl

(* call_write: of a string, or of a value that is freed before bl.         *)
LEMMA LegalWrite ==
  ASSUME NEW L, NEW F, NEW O, NEW N, NEW e, e.args[1] \in Expr,
         NEW n, FreeFrom(n, L, O), NEW env, EnvOK(env)
  PROVE  Legal(CallWrite(e, n, env), St(L, {}, F, O, N), St(L, {}, F, O, N))
<1> DEFINE L1 == L \cup {n}
           v == <<"str", n>>
           a == St(L, {}, F, O, N)
           b == St(L1, {}, F, O, N)
           c == St(L, {}, F, O \cup {v}, N \cup {v})
           r(float) == R(IF float THEN S(0) ELSE X(0))
<1>1. /\ n \notin L /\ FreeFrom(n + 1, L1, O) /\ n \in L1
      /\ v \notin O /\ v[1] \in DataKinds
  BY FreeFromNext DEF DataKinds
<1>2. /\ Legal(Before(env), a, a) /\ Legal(After(env), a, a)
      /\ Legal(Before(env), b, b)
      /\ \A args : Legal(Bl(e, args), a, a)
  BY LegalAround, LegalBl
<1>3. Legal(Do("label", v), a, c)
  BY <1>1, LegalLabelDo
<1>4. Legal(Emit("data", Junk, None, << >>, v), c, a)
  <2>1. Weaker(a, St(L, {}, F, O, N \cup {v}))
    BY DEF Weaker, St
  <2> HIDE DEF v
  <2>2. Legal(Emit("data", Junk, None, << >>, v), c, St(L, {}, F, O, N \cup {v}))
    BY <1>1, LegalPlace
  <2> QED
    BY <2>1, <2>2, LegalTo
<1>5. Legal(Emit("imm", "", R(X(0)), << >>, Junk), a, a)
  BY LegalEmit0, ScratchOperands
<1>6. Legal(Do("alloc", n), a, b) /\ Legal(Do("free", n), b, a)
  BY <1>1, LegalAlloc, LegalFree
<1>7. \A float : Legal(Locked(<<n>>, Compute("mov", r(float), <<T(n)>>)), b, b)
  <2> TAKE float
  <2>1. Operand(T(n), St(L1, {n}, F, O, N)) /\ Operand(r(float), St(L1, {n}, F, O, N))
    BY TmpOperand, ScratchOperands DEF St
  <2> HIDE DEF r
  <2>2. Legal(Compute("mov", r(float), <<T(n)>>), St(L1, {n}, F, O, N), St(L1, {n}, F, O, N))
    BY <2>1, LegalCompute1
  <2> QED
    BY <1>1, <2>2, LegalLocked1
<1> HIDE DEF L1, r
<1>8. Legal(Gen(e.args[1], n, n + 1, env), b, b)
  BY <1>1, LegalGen
<1> HIDE DEF a, b, c, v
<1>9. ASSUME NEW float, NEW args
      PROVE  Legal(Do("alloc", n) \o Gen(e.args[1], n, n + 1, env) \o Before(env)
                     \o Locked(<<n>>, Compute("mov", r(float), <<T(n)>>))
                     \o Do("free", n) \o Bl(e, args) \o After(env), a, a)
  <2>1. Legal(Do("alloc", n) \o Gen(e.args[1], n, n + 1, env) \o Before(env)
                \o Locked(<<n>>, Compute("mov", r(float), <<T(n)>>)), a, b)
    BY <1>2, <1>6, <1>7, <1>8, LegalCat
  <2> QED
    BY <1>2, <1>6, <2>1, LegalCat
<1>10. ASSUME NEW args
       PROVE  Legal(Before(env) \o Do("label", v) \o Emit("data", Junk, None, << >>, v)
                      \o Emit("imm", "", R(X(0)), << >>, Junk)
                      \o Bl(e, args) \o After(env), a, a)
  <2>1. Legal(Before(env) \o Do("label", v) \o Emit("data", Junk, None, << >>, v)
                \o Emit("imm", "", R(X(0)), << >>, Junk), a, a)
    BY <1>2, <1>3, <1>4, <1>5, LegalCat
  <2> QED
    BY <1>2, <2>1, LegalCat
<1>11. Legal(CallWrite(e, n, env), a, a)
  BY <1>9, <1>10 DEF CallWrite, r, v
<1> QED
  BY <1>11 DEF a

(* A scalar argument goes to its register or slot.                         *)
LEMMA LegalPassScalar ==
  ASSUME NEW a, NEW e, NEW i \in Nat, NEW t \in a.lock
  PROVE  Legal(PassScalar(e, i, t), a, a)
<1>1. Legal(Convert(e.args[i].type, e.params[i], t), a, a)
  BY LegalConvert
<1>2. Operand(T(t), a) /\ Operand(R(X(i - 1)), a)
  BY TmpOperand, ScratchOperands
<1>3. /\ Legal(Compute("mov", R(X(i - 1)), <<T(t)>>), a, a)
      /\ \A x : Legal(Emit("str", "sp", T(t), << >>, x), a, a)
  BY <1>2, LegalCompute1, LegalEmit0
<1> QED
  BY <1>1, <1>3, LegalCat DEF PassScalar

(* The address of an array goes to its register or slot.                   *)
LEMMA LegalPassArray ==
  ASSUME NEW a, NEW e, NEW i \in Nat, NEW t \in a.lock, NEW env
  PROVE  Legal(PassArray(e, i, t, env), a, a)
<1> DEFINE off == IF e.args[i].index = << >> THEN << >> ELSE <<T(t)>>
           loc == env.loc[e.args[i].name]
           address(op, x) == Emit("address", op, R(X9), off, x)
           first == IF loc.seg = "local" THEN address("depth", loc.a)
                    ELSE IF loc.seg = "global" THEN address("depth", 0)
                    ELSE IF loc.a < ArgRegs THEN address("xreg", loc.a)
                    ELSE address("slot", ArgSlot(loc.a))
           second == IF i <= ArgRegs THEN Compute("mov", R(X(i - 1)), <<R(X9)>>)
                     ELSE Emit("str", "sp", R(X9), << >>, - ((i - 1 - ArgRegs) * 8))
<1>1. Operand(T(t), a) /\ Operand(R(X(i - 1)), a) /\ Operand(R(X9), a)
  BY TmpOperand, ScratchOperands
<1>2. \A k \in DOMAIN off : Operand(off[k], a)
  BY <1>1
<1> HIDE DEF off
<1>3. \A op, x : Legal(address(op, x), a, a)
  BY <1>1, <1>2, LegalEmit
<1> HIDE DEF address
<1>4. Legal(first, a, a)
  BY <1>3
<1>5. Legal(second, a, a)
  BY <1>1, LegalCompute1, LegalEmit0
<1>6. PassArray(e, i, t, env) = first \o second
  BY DEF PassArray, off, address
<1> QED
  BY <1>4, <1>5, <1>6, LegalCat

(* What the sets of expressions and statements are closed under.           *)
LEMMA WellFormed ==
  /\ \A e \in Expr : IsExpr(e)
  /\ \A s \in Stmt : IsStmt(s)
BY CompilerAssumption

(* The temporaries of the arguments are allocated first and freed last.  *)
LEMMA LegalCallFunction ==
  ASSUME NEW L, NEW F, NEW O, NEW N, NEW e, IsCall(e),
         NEW n, FreeFrom(n, L, O), NEW env, EnvOK(env), Resolved(e, env)
  PROVE  Legal(CallFunction(e, n, env), St(L, {}, F, O, N), St(L, {}, F, O, N))
<1> DEFINE k == Len(e.args)
           dist(i) == n + i - 1
           alloc(i) == Do("alloc", dist(i))
           evaluate(i) ==
             IF e.params[i] # "array" THEN Gen(e.args[i], dist(i), n + k, env)
             ELSE IF e.args[i].index = << >> THEN << >>
             ELSE OffsetOf(e.args[i].index, env.loc[e.args[i].name].dims,
                           dist(i), n + k, env)
           pass(i) == Locked(<<dist(i)>>,
                             IF e.params[i] = "array" THEN PassArray(e, i, dist(i), env)
                             ELSE PassScalar(e, i, dist(i)))
           free(i) == Do("free", dist(i))
           allAlloc == FlattenSeq([i \in 1 .. k |-> alloc(i)])
           allEvaluate == FlattenSeq([i \in 1 .. k |-> evaluate(i)])
           allPass == FlattenSeq([i \in 1 .. k |-> pass(i)])
           allFree == FlattenSeq([i \in 1 .. k |-> free(i)])
           onStack == (k - InRegs(k)) * 8
           M == L \cup {dist(i) : i \in 1 .. k}
           a == St(L, {}, F, O, N)
           b == St(M, {}, F, O, N)
<1>1. k \in Nat /\ n \in Nat /\ e.k = "call" /\ \A i \in 1 .. k : e.args[i] \in Expr /\ i \in DOMAIN e.args
  BY DEF IsCall, FreeFrom
<1>2. \A i \in 1 .. k : dist(i) \in Nat /\ dist(i) \notin L /\ dist(i) \in M
  BY <1>1 DEF FreeFrom
<1>3. FreeFrom(n + k, M, O)
  BY <1>1, <1>2 DEF FreeFrom
<1>4. Legal(allAlloc, a, b)
  <2> DEFINE q == [i \in 1 .. k |-> alloc(i)]
             st == [i \in 0 .. k |-> St(L \cup {dist(j) : j \in 1 .. i}, {}, F, O, N)]
  <2>1. \A i \in 1 .. k : Legal(q[i], st[i - 1], st[i])
    <3> TAKE i \in 1 .. k
    <3> DEFINE A == L \cup {dist(j) : j \in 1 .. i - 1}
               B == L \cup {dist(j) : j \in 1 .. i}
    <3>1. dist(i) \notin A
      BY <1>1, <1>2
    <3>2. B = A \cup {dist(i)}
      <4>1. \A j : j \in 1 .. i <=> (j \in 1 .. i - 1 \/ j = i)
        BY <1>1
      <4> QED
        BY <4>1
    <3>3. st[i - 1] = St(A, {}, F, O, N) /\ st[i] = St(B, {}, F, O, N)
      BY <1>1
    <3>4. q[i] = Do("alloc", dist(i))
      OBVIOUS
    <3> HIDE DEF A, B, q, st, dist
    <3>5. Legal(Do("alloc", dist(i)), St(A, {}, F, O, N), St(A \cup {dist(i)}, {}, F, O, N))
      BY <3>1, LegalAlloc
    <3> QED
      BY <3>2, <3>3, <3>4, <3>5
  <2>2. q \in [1 .. k -> {alloc(i) : i \in 1 .. k}]
    OBVIOUS
  <2>3. st[0] = a /\ st[k] = b
    BY <1>1
  <2> HIDE DEF st, q, a, b
  <2>4. Legal(FlattenSeq(q), st[0], st[k])
    BY <1>1, <2>1, <2>2, LegalFlatten
  <2> QED
    BY <2>3, <2>4 DEF q
<1>5. Legal(allFree, b, a)
  <2> DEFINE q == [i \in 1 .. k |-> free(i)]
             st == [i \in 0 .. k |-> St(L \cup {dist(j) : j \in i + 1 .. k}, {}, F, O, N)]
  <2>1. \A i \in 1 .. k : Legal(q[i], st[i - 1], st[i])
    <3> TAKE i \in 1 .. k
    <3> DEFINE A == L \cup {dist(j) : j \in i .. k}
               B == L \cup {dist(j) : j \in i + 1 .. k}
    <3>1. dist(i) \notin B
      BY <1>1, <1>2
    <3>2. A = B \cup {dist(i)}
      <4>1. \A j : j \in i .. k <=> (j \in i + 1 .. k \/ j = i)
        BY <1>1
      <4> QED
        BY <4>1
    <3>3. st[i - 1] = St(A, {}, F, O, N) /\ st[i] = St(B, {}, F, O, N)
      <4>1. (i - 1) + 1 = i /\ i - 1 \in 0 .. k /\ i \in 0 .. k
        BY <1>1
      <4> QED
        BY <4>1
    <3>4. q[i] = Do("free", dist(i))
      OBVIOUS
    <3> HIDE DEF A, B, q, st, dist
    <3>5. Legal(Do("free", dist(i)), St(B \cup {dist(i)}, {}, F, O, N), St(B, {}, F, O, N))
      BY <3>1, LegalFree
    <3> QED
      BY <3>2, <3>3, <3>4, <3>5
  <2>2. q \in [1 .. k -> {free(i) : i \in 1 .. k}]
    OBVIOUS
  <2>3. st[0] = b /\ st[k] = a
    <3>1. {dist(j) : j \in k + 1 .. k} = {}
      <4>1. k + 1 .. k = {}
        BY <1>1
      <4> QED
        BY <4>1
    <3>2. 0 \in 0 .. k /\ k \in 0 .. k /\ 0 + 1 = 1
      BY <1>1
    <3>3. st[0] = St(L \cup {dist(j) : j \in 1 .. k}, {}, F, O, N)
      BY <3>2
    <3>4. st[k] = St(L \cup {dist(j) : j \in k + 1 .. k}, {}, F, O, N)
      BY <3>2
    <3>5. L \cup {dist(j) : j \in k + 1 .. k} = L
      BY <3>1
    <3> QED
      BY <3>3, <3>4, <3>5
  <2> HIDE DEF st, q, a, b
  <2>4. Legal(FlattenSeq(q), st[0], st[k])
    BY <1>1, <2>1, <2>2, LegalFlatten
  <2> QED
    BY <2>3, <2>4 DEF q
<1>6. Legal(allEvaluate, b, b)
  <2>1. ASSUME NEW i \in 1 .. k
        PROVE  Legal(evaluate(i), b, b)
    <3>1. CASE e.params[i] # "array"
      <4> HIDE DEF M, dist, k
      <4>1. Legal(Gen(e.args[i], dist(i), n + k, env), b, b)
        BY <1>1, <1>2, <1>3, LegalGen
      <4> QED
        BY <3>1, <4>1
    <3>2. CASE e.params[i] = "array" /\ e.args[i].index = << >>
      BY <3>2, LegalSame
    <3>3. CASE e.params[i] = "array" /\ e.args[i].index # << >>
      <4>1. e.args[i].k = "id" /\ e.args[i].name \in DOMAIN env.loc
        BY <1>1, <3>3 DEF Resolved
      <4>2. e.args[i].index \in Seq(Expr)
        BY <1>1, <4>1, WellFormed DEF IsExpr, IsCall
      <4>3. env.loc[e.args[i].name].dims \in Seq(Nat)
        BY <4>1 DEF EnvOK
      <4> HIDE DEF M, dist, k
      <4>4. Legal(OffsetOf(e.args[i].index, env.loc[e.args[i].name].dims,
                           dist(i), n + k, env), b, b)
        BY <1>2, <1>3, <3>3, <4>2, <4>3, LegalOffsetOf
      <4> QED
        BY <3>3, <4>4
    <3> QED
      BY <3>1, <3>2, <3>3
  <2> DEFINE q == [i \in 1 .. k |-> evaluate(i)]
  <2>2. q \in [1 .. k -> {evaluate(i) : i \in 1 .. k}] /\ \A i \in 1 .. k : Legal(q[i], b, b)
    BY <2>1
  <2> HIDE DEF q, b
  <2>3. Legal(FlattenSeq(q), b, b)
    BY <1>1, <2>2, LegalEach
  <2> QED
    BY <2>3 DEF q
<1>7. Legal(allPass, b, b)
  <2>1. ASSUME NEW i \in 1 .. k
        PROVE  Legal(pass(i), b, b)
    <3> DEFINE c == St(M, {dist(i)}, F, O, N)
    <3>1. dist(i) \in c.lock /\ i \in Nat
      BY <1>1 DEF St
    <3> HIDE DEF c
    <3>2. Legal(PassArray(e, i, dist(i), env), c, c) /\ Legal(PassScalar(e, i, dist(i)), c, c)
      BY <3>1, LegalPassArray, LegalPassScalar
    <3> DEFINE body == IF e.params[i] = "array" THEN PassArray(e, i, dist(i), env)
                       ELSE PassScalar(e, i, dist(i))
    <3>3. Legal(body, c, c)
      BY <3>2
    <3> HIDE DEF body, M, dist
    <3>4. Legal(Locked(<<dist(i)>>, body), b, b)
      BY <1>2, <3>3, LegalLocked1 DEF c
    <3> QED
      BY <3>4 DEF body
  <2> DEFINE q == [i \in 1 .. k |-> pass(i)]
  <2>2. q \in [1 .. k -> {pass(i) : i \in 1 .. k}] /\ \A i \in 1 .. k : Legal(q[i], b, b)
    BY <2>1
  <2> HIDE DEF q, b
  <2>3. Legal(FlattenSeq(q), b, b)
    BY <1>1, <2>2, LegalEach
  <2> QED
    BY <2>3 DEF q
<1>8. CASE e.name = "write"
  <2>1. e.args[1] \in Expr
    BY <1>8 DEF IsCall
  <2> QED
    BY <1>8, <2>1, LegalWrite DEF CallFunction
<1>9. CASE e.name # "write"
  <2>1. CallFunction(e, n, env)
          = allAlloc \o allEvaluate \o Before(env) \o AddSp(onStack) \o allPass
              \o Bl(e, e.params) \o AddSp(- onStack) \o After(env) \o allFree
    BY <1>9 DEF CallFunction
  <2>2. /\ \A args : Legal(Bl(e, args), b, b)
        /\ \A j : Legal(AddSp(j), b, b)
        /\ Legal(Before(env), b, b) /\ Legal(After(env), b, b)
    BY LegalBl, LegalAddSp, LegalAround
  <2> HIDE DEF a, b, allAlloc, allEvaluate, allPass, allFree, onStack
  <2>3. Legal(allAlloc \o allEvaluate \o Before(env) \o AddSp(onStack), a, b)
    BY <1>4, <1>6, <2>2, LegalCat
  <2>4. Legal(allAlloc \o allEvaluate \o Before(env) \o AddSp(onStack) \o allPass
                \o Bl(e, e.params) \o AddSp(- onStack), a, b)
    BY <1>7, <2>2, <2>3, LegalCat
  <2>5. Legal(allAlloc \o allEvaluate \o Before(env) \o AddSp(onStack) \o allPass
                \o Bl(e, e.params) \o AddSp(- onStack) \o After(env) \o allFree, a, a)
    BY <1>5, <2>2, <2>4, LegalCat
  <2> QED
    BY <2>1, <2>5 DEF a
<1> QED
  BY <1>8, <1>9

-----------------------------------------------------------------------------
(* Expressions.  *)
LEMMA LegalCall ==
  ASSUME NEW L, NEW F, NEW O, NEW N, NEW e, IsCall(e), NEW t \in L,
         NEW n, FreeFrom(n, L, O), NEW env, EnvOK(env), Resolved(e, env)
  PROVE  Legal(GenCall(e, t, n, env), St(L, {}, F, O, N), St(L, {}, F, O, N))
<1>1. \A r \in {S(0), X(0)} : Legal(Compute("mov", T(t), <<R(r)>>),
                                    St(L, {t}, F, O, N), St(L, {t}, F, O, N))
  <2>1. Operand(T(t), St(L, {t}, F, O, N))
    BY TmpOperand DEF St
  <2> QED
    BY <2>1, ScratchOperands, LegalCompute1
<1>2. \A r \in {S(0), X(0)} : Legal(Locked(<<t>>, Compute("mov", T(t), <<R(r)>>)),
                                    St(L, {}, F, O, N), St(L, {}, F, O, N))
  BY <1>1, LegalLocked1
<1>3. (IF IsFloat(e) THEN S(0) ELSE X(0)) \in {S(0), X(0)}
  OBVIOUS
<1> QED
  BY <1>2, <1>3, LegalCallFunction, LegalCat DEF GenCall

(* mov of the temporary t to u, and back, or through a register r.  *)
LEMMA LegalMoves ==
  ASSUME NEW L, NEW F, NEW O, NEW N, NEW t \in L, NEW u \in L
  PROVE  /\ Legal(Locked(<<t, u>>, Compute("mov", T(u), <<T(t)>>)),
                  St(L, {}, F, O, N), St(L, {}, F, O, N))
         /\ \A r \in {S(16), S(17), S(18)} :
              /\ \A op : Legal(Locked(<<t>>, Compute(op, R(r), <<T(t)>>)),
                               St(L, {}, F, O, N), St(L, {}, F, O, N))
              /\ Legal(Locked(<<t>>, Compute("mov", T(t), <<R(r)>>)),
                       St(L, {}, F, O, N), St(L, {}, F, O, N))
<1>1. /\ Operand(T(t), St(L, {t, u}, F, O, N)) /\ Operand(T(u), St(L, {t, u}, F, O, N))
      /\ Operand(T(t), St(L, {t}, F, O, N))
  BY TmpOperand DEF St
<1>2. Legal(Compute("mov", T(u), <<T(t)>>), St(L, {t, u}, F, O, N), St(L, {t, u}, F, O, N))
  BY <1>1, LegalCompute1
<1>3. ASSUME NEW r \in {S(16), S(17), S(18)}
      PROVE  /\ \A op : Legal(Compute(op, R(r), <<T(t)>>), St(L, {t}, F, O, N), St(L, {t}, F, O, N))
             /\ Legal(Compute("mov", T(t), <<R(r)>>), St(L, {t}, F, O, N), St(L, {t}, F, O, N))
  <2>1. Operand(R(r), St(L, {t}, F, O, N))
    BY ScratchOperands
  <2> QED
    BY <1>1, <2>1, LegalCompute1
<1>4. Legal(Locked(<<t, u>>, Compute("mov", T(u), <<T(t)>>)),
            St(L, {}, F, O, N), St(L, {}, F, O, N))
  BY <1>2, LegalLocked2
<1>5. ASSUME NEW r \in {S(16), S(17), S(18)}
      PROVE  /\ \A op : Legal(Locked(<<t>>, Compute(op, R(r), <<T(t)>>)),
                              St(L, {}, F, O, N), St(L, {}, F, O, N))
             /\ Legal(Locked(<<t>>, Compute("mov", T(t), <<R(r)>>)),
                      St(L, {}, F, O, N), St(L, {}, F, O, N))
  BY <1>3, LegalLocked1
<1> QED
  BY <1>4, <1>5

(* A float result is moved from its scratch register to the temporary.     *)
LEMMA LegalFromFloat ==
  ASSUME NEW L, NEW F, NEW O, NEW N, NEW e, NEW t \in L
  PROVE  Legal(FromFloat(e, t), St(L, {}, F, O, N), St(L, {}, F, O, N))
BY LegalMoves, LegalSame DEF FromFloat

(* The labels that are open between the operands of e.  *)
OpenIn(e, a, O) == IF e.op \in {"&&", "||"} THEN O \cup {<<"short", a>>} ELSE O

(* The labels of short circuits are labels of code.                        *)
LEMMA ShortKind == \A a, x : x \in {"short", "exit"} => <<x, a>>[1] \notin DataKinds
BY DEF DataKinds

(* The operands of && and ||: the second is jumped over.                   *)
LEMMA LegalShortCircuit ==
  ASSUME NEW L, NEW F, NEW O, NEW N, NEW e, NEW a \in L, <<"short", a>> \notin O
  PROVE  Legal(ShortCircuit(e, a), St(L, {}, F, O, N),
               St(L, {}, F, OpenIn(e, a, O), OpenIn(e, a, N)))
<1> DEFINE v == <<"short", a>>
           O1 == O \cup {v}
           N1 == N \cup {v}
           c == St(L, {a}, F, O1, N1)
           onFloat == Compute("mov", R(S(17)), <<T(a)>>)
                        \o BranchIf("f" \o ShortWhen(e.op), <<R(S(17))>>, v)
           onInt == BranchIf(ShortWhen(e.op), <<T(a)>>, v)
<1>1. Operand(T(a), c) /\ Operand(R(S(17)), c) /\ Operand(None, c)
  BY TmpOperand, ScratchOperands DEF St
<1>2. v[1] \notin DataKinds /\ v \in N1
  BY ShortKind
<1>3. \A x \in {T(a), R(S(17))} : \A k \in DOMAIN <<x>> : Operand(<<x>>[k], c)
  BY <1>1
<1> HIDE DEF v
<1>4. \A cond : /\ Legal(BranchIf(cond, <<R(S(17))>>, v), c, c)
                /\ Legal(BranchIf(cond, <<T(a)>>, v), c, c)
  <2> HIDE DEF O1, N1
  <2> QED
    BY <1>1, <1>2, <1>3, LegalUse DEF BranchIf
<1>5. Legal(Compute("mov", R(S(17)), <<T(a)>>), c, c)
  BY <1>1, LegalCompute1
<1>6. Legal(IF IsFloat(e.l) THEN onFloat ELSE onInt, c, c)
  <2> HIDE DEF c
  <2> QED
    BY <1>4, <1>5, LegalCat
<1> HIDE DEF onFloat, onInt
<1>7. Legal(Locked(<<a>>, IF IsFloat(e.l) THEN onFloat ELSE onInt),
            St(L, {}, F, O1, N1), St(L, {}, F, O1, N1))
  BY <1>6, LegalLocked1
<1>8. Legal(Do("label", v), St(L, {}, F, O, N), St(L, {}, F, O1, N1))
  BY LegalLabelDo DEF v
<1>9. Legal(Do("label", v) \o Locked(<<a>>, IF IsFloat(e.l) THEN onFloat ELSE onInt),
            St(L, {}, F, O, N), St(L, {}, F, O1, N1))
  BY <1>7, <1>8, LegalCat
<1>10. CASE e.op \in {"&&", "||"}
  BY <1>9, <1>10 DEF ShortCircuit, OpenIn, v, onFloat, onInt
<1>11. CASE e.op \notin {"&&", "||"}
  <2>1. ShortCircuit(e, a) = << >> /\ OpenIn(e, a, O) = O /\ OpenIn(e, a, N) = N
    BY <1>11 DEF ShortCircuit, OpenIn
  <2> QED
    BY <2>1, LegalSame
<1> QED
  BY <1>10, <1>11

(* The operation itself, once both operands are in their temporaries.      *)
LEMMA LegalOperate ==
  ASSUME NEW L, NEW F, NEW O, NEW N, NEW e, NEW t, NEW a, NEW b,
         <<"short", a>> \notin O, <<"exit", a>> \notin O
  PROVE  Legal(Operate(e, t, a, b),
               St(L, {t, a, b}, F, OpenIn(e, a, O), OpenIn(e, a, N)),
               St(L, {t, a, b}, F, O, N))
<1> DEFINE K == {t, a, b}
           v == <<"short", a>>
           w == <<"exit", a>>
           O1 == O \cup {v}
           N1 == N \cup {v}
           M == N1 \cup {w}
           c == St(L, K, F, O1 \cup {w}, M)
           d == St(L, K, F, O \cup {w}, M)
           test == IF IsFloat(e.r)
                   THEN BranchIf("f" \o ShortWhen(e.op), <<R(S(18))>>, v)
                   ELSE BranchIf(ShortWhen(e.op), <<T(b)>>, v)
<1>1. \A x : /\ Operand(T(t), St(L, K, F, x, N)) /\ Operand(T(a), St(L, K, F, x, N))
             /\ Operand(T(b), St(L, K, F, x, N))
             /\ Operand(R(S(16)), St(L, K, F, x, N)) /\ Operand(R(S(17)), St(L, K, F, x, N))
             /\ Operand(R(S(18)), St(L, K, F, x, N))
  BY TmpOperand, ScratchOperands DEF St
<1>2. CASE e.op \notin {"&&", "||"}
  <2> DEFINE f == St(L, K, F, O, N)
             s == IF IsFloat(e.l) \/ IsFloat(e.r) THEN <<R(S(17)), R(S(18))>> ELSE <<T(a), T(b)>>
             r == IF IsFloat(e) THEN R(S(16)) ELSE T(t)
             op == IF IsFloat(e.l) \/ IsFloat(e.r) THEN "f" \o e.op ELSE e.op
  <2>1. /\ Operand(T(t), f) /\ Operand(T(a), f) /\ Operand(T(b), f)
        /\ Operand(R(S(16)), f) /\ Operand(R(S(17)), f) /\ Operand(R(S(18)), f)
    BY <1>1
  <2> HIDE DEF f
  <2>2. Operand(r, f)
    BY <2>1
  <2> HIDE DEF r, op
  <2>3. Legal(Compute(op, r, s), f, f)
    BY <2>1, <2>2, LegalCompute2
  <2>4. Operate(e, t, a, b) = Compute(op, r, s)
    BY <1>2 DEF Operate, op, r
  <2>5. OpenIn(e, a, O) = O /\ OpenIn(e, a, N) = N
    BY <1>2 DEF OpenIn
  <2> QED
    BY <2>3, <2>4, <2>5 DEF f
<1>3. CASE e.op \in {"&&", "||"}
  <2>1. /\ v[1] \notin DataKinds /\ w[1] \notin DataKinds /\ v \in M /\ w \in M
        /\ v \notin O \cup {w} /\ w \notin O1 /\ w \notin O /\ v # w
    BY ShortKind
  <2>2. /\ Operand(T(t), c) /\ Operand(T(b), c) /\ Operand(R(S(18)), c) /\ Operand(None, c)
        /\ Operand(T(t), d)
    BY TmpOperand, ScratchOperands DEF St
  <2> HIDE DEF v, w
  <2>3. O1 \cup {w} = (O \cup {w}) \cup {v}
    OBVIOUS
  <2>4. Legal(Do("label", w), St(L, K, F, O1, N1), c)
    <3> HIDE DEF O1, N1, K
    <3> QED
      BY <2>1, LegalLabelDo
  <2>5. \A cond : /\ Legal(BranchIf(cond, <<R(S(18))>>, v), c, c)
                  /\ Legal(BranchIf(cond, <<T(b)>>, v), c, c)
                  /\ Legal(BranchIf(cond, << >>, w), c, c)
    <3>1. \A x \in {T(b), R(S(18))} : \A k \in DOMAIN <<x>> : Operand(<<x>>[k], c)
      BY <2>2
    <3>2. \A k \in DOMAIN << >> : Operand(<< >>[k], c)
      OBVIOUS
    <3> HIDE DEF O1, M, K
    <3> QED
      BY <2>1, <2>2, <3>1, <3>2, LegalUse DEF BranchIf
  <2>6. \A x : /\ Legal(Emit("imm", "", T(t), << >>, x), c, c)
               /\ Legal(Emit("imm", "", T(t), << >>, x), d, d)
    <3> HIDE DEF c, d
    <3> QED
      BY <2>2, LegalEmit0
  <2>7. Legal(Label(v), c, d)
    <3>1. Legal(Label(v), St(L, K, F, (O \cup {w}) \cup {v}, M), d)
      <4> HIDE DEF K, M
      <4> QED
        BY <2>1, LegalPlace DEF Label
    <3> QED
      BY <2>3, <3>1
  <2>8. Legal(Label(w), d, St(L, K, F, O, N))
    <3>1. Legal(Label(w), d, St(L, K, F, O, M))
      <4> HIDE DEF K, M
      <4> QED
        BY <2>1, LegalPlace DEF Label
    <3>2. Weaker(St(L, K, F, O, N), St(L, K, F, O, M))
      BY DEF Weaker, St
    <3> QED
      BY <3>1, <3>2, LegalTo
  <2>9. Operate(e, t, a, b)
          = Do("label", w) \o test
              \o Emit("imm", "", T(t), << >>, Truth(e.op = "&&"))
              \o BranchIf("always", << >>, w)
              \o Label(v)
              \o Emit("imm", "", T(t), << >>, Truth(e.op = "||"))
              \o Label(w)
    BY <1>3 DEF Operate, test, v, w
  <2>10. OpenIn(e, a, O) = O1 /\ OpenIn(e, a, N) = N1
    BY <1>3 DEF OpenIn, v
  <2> DEFINE e0 == St(L, K, F, O1, N1)
             e1 == St(L, K, F, O, N)
  <2> HIDE DEF c, d, e0, e1
  <2>11. Legal(test, c, c)
    BY <2>5
  <2> HIDE DEF test
  <2>12. Legal(Do("label", w) \o test
                 \o Emit("imm", "", T(t), << >>, Truth(e.op = "&&"))
                 \o BranchIf("always", << >>, w), e0, c)
    BY <2>4, <2>5, <2>6, <2>11, LegalCat DEF e0
  <2>13. Legal(Do("label", w) \o test
                 \o Emit("imm", "", T(t), << >>, Truth(e.op = "&&"))
                 \o BranchIf("always", << >>, w)
                 \o Label(v)
                 \o Emit("imm", "", T(t), << >>, Truth(e.op = "||"))
                 \o Label(w), e0, e1)
    BY <2>6, <2>7, <2>8, <2>12, LegalCat DEF e1
  <2> QED
    BY <2>9, <2>10, <2>13 DEF e0, e1
<1> QED
  BY <1>2, <1>3

(* A binary operator: one operand, a temporary for the other, the          *)
(* operation, the temporary given back.                                    *)
LEMMA LegalBinary ==
  ASSUME NEW L, NEW F, NEW O, NEW N, NEW e, e.l \in Expr, e.r \in Expr, NEW t \in L,
         NEW n, FreeFrom(n, L, O), NEW env, EnvOK(env)
  PROVE  Legal(GenBinary(e, t, n, env), St(L, {}, F, O, N), St(L, {}, F, O, N))
<1> DEFINE b == n + 1
           P == OpenIn(e, n, O)
           M == OpenIn(e, n, N)
           L1 == L \cup {n}
           L2 == L \cup {n} \cup {b}
           L3 == L \cup {b}
           s0 == St(L, {}, F, O, N)
           s1 == St(L1, {}, F, O, N)
           s2 == St(L1, {}, F, P, M)
           s3 == St(L2, {}, F, P, M)
           s4 == St(L2, {}, F, O, N)
           s5 == St(L3, {}, F, O, N)
           floats == IF IsFloat(e.l) \/ IsFloat(e.r)
                     THEN ToFloat(e.l, n, S(17)) \o ToFloat(e.r, b, S(18))
                     ELSE << >>
<1>1. /\ n \notin L /\ b \notin L1 /\ n \notin L3 /\ L2 = L3 \cup {n} /\ b \notin L
      /\ <<"short", n>> \notin O /\ <<"exit", n>> \notin O
      /\ FreeFrom(b, L1, P)
  <2>1. /\ n \in Nat /\ n \notin L /\ b \notin L /\ n # b
        /\ FreeFrom(b, L1, O) /\ FreeFrom(b, L1, O \cup {<<"short", n>>})
        /\ <<"short", n>> \notin O /\ <<"exit", n>> \notin O
    BY FreeFromNext
  <2> QED
    BY <2>1 DEF OpenIn
<1>2. t \in L1 /\ n \in L1 /\ t \in L2 /\ n \in L2 /\ b \in L2
  OBVIOUS
<1>3. Legal(Gen(e.l, t, n, env), s0, s0)
  BY LegalGen
<1>4. Legal(Do("alloc", n), s0, s1)
  BY <1>1, LegalAlloc
<1> HIDE DEF P, M, L1, b
<1>5. Legal(Locked(<<t, n>>, Compute("mov", T(n), <<T(t)>>)), s1, s1)
  BY <1>2, LegalMoves
<1>6. Legal(ShortCircuit(e, n), s1, s2)
  BY <1>1, <1>2, LegalShortCircuit DEF P, M
<1>7. Legal(Gen(e.r, t, b, env), s2, s2)
  BY <1>1, <1>2, LegalGen
<1>8. Legal(Do("alloc", b), s2, s3)
  BY <1>1, LegalAlloc DEF L1
<1> HIDE DEF L2, L3
<1>9. Legal(Locked(<<t, b>>, Compute("mov", T(b), <<T(t)>>)), s3, s3)
  BY <1>2, LegalMoves
<1>10. Legal(floats, s3, s3)
  <2>1. /\ Legal(ToFloat(e.l, n, S(17)), s3, s3)
        /\ Legal(ToFloat(e.r, b, S(18)), s3, s3)
    BY <1>2, LegalMoves DEF ToFloat
  <2> HIDE DEF s3
  <2> QED
    BY <2>1, LegalCat, LegalSame
<1>11. Legal(Locked(<<t, n, b>>, Operate(e, t, n, b)), s3, s4)
  <2>1. Legal(Operate(e, t, n, b), St(L2, {t, n, b}, F, P, M), St(L2, {t, n, b}, F, O, N))
    BY <1>1, LegalOperate DEF P, M
  <2> QED
    BY <1>2, <2>1, LegalLocked3
<1>12. Legal(Do("free", n), s4, s5)
  BY <1>1, LegalFree
<1>13. Legal(Do("free", b), s5, s0)
  BY <1>1, LegalFree DEF L3
<1>14. Legal(FromFloat(e, t), s0, s0)
  BY LegalFromFloat
<1> DEFINE p1 == Gen(e.l, t, n, env)
                   \o Do("alloc", n) \o Locked(<<t, n>>, Compute("mov", T(n), <<T(t)>>))
                   \o ShortCircuit(e, n)
           p2 == p1 \o Gen(e.r, t, b, env)
                   \o Do("alloc", b) \o Locked(<<t, b>>, Compute("mov", T(b), <<T(t)>>))
           p3 == p2 \o floats \o Locked(<<t, n, b>>, Operate(e, t, n, b))
<1>15. GenBinary(e, t, n, env) = p3 \o Do("free", n) \o Do("free", b) \o FromFloat(e, t)
  BY DEF GenBinary, b
<1> HIDE DEF s0, s1, s2, s3, s4, s5, floats
<1>16. Legal(p1, s0, s2)
  BY <1>3, <1>4, <1>5, <1>6, LegalCat
<1> HIDE DEF p1
<1>17. Legal(p2, s0, s3)
  BY <1>7, <1>8, <1>9, <1>16, LegalCat
<1> HIDE DEF p2
<1>18. Legal(p3, s0, s4)
  BY <1>10, <1>11, <1>17, LegalCat
<1> HIDE DEF p3
<1>19. Legal(p3 \o Do("free", n) \o Do("free", b) \o FromFloat(e, t), s0, s0)
  BY <1>12, <1>13, <1>14, <1>18, LegalCat
<1> QED
  BY <1>15, <1>19 DEF s0

(* A unary operator, on the temporary its operand is in.                   *)
LEMMA LegalUnary ==
  ASSUME NEW L, NEW F, NEW O, NEW N, NEW e, e.l \in Expr, e.op \in {"pos", "neg", "not"},
         NEW t \in L, NEW n, FreeFrom(n, L, O), NEW env, EnvOK(env)
  PROVE  Legal(GenUnary(e, t, n, env), St(L, {}, F, O, N), St(L, {}, F, O, N))
<1> DEFINE float == IsFloat(e.l)
           s == IF float THEN R(S(17)) ELSE T(n)
           L1 == L \cup {n}
           a == St(L, {}, F, O, N)
           b == St(L1, {}, F, O, N)
           c == St(L1, {t, n}, F, O, N)
           toFloat == IF float THEN Locked(<<n>>, Compute("mov", R(S(17)), <<T(n)>>)) ELSE << >>
           operate == CASE e.op = "pos" -> << >>
                        [] e.op = "neg" -> IF float THEN Compute("fneg", R(S(16)), <<s>>)
                                           ELSE Compute("neg", T(t), <<s>>)
                        [] e.op = "not" -> Compute(IF float THEN "fnot" ELSE "not", T(t), <<s>>)
<1>1. n \notin L /\ t \in L1 /\ n \in L1
  BY FreeFromNext
<1>2. Legal(Gen(e.l, t, n, env), a, a)
  BY LegalGen
<1>3. Legal(Do("alloc", n), a, b) /\ Legal(Do("free", n), b, a)
  BY <1>1, LegalAlloc, LegalFree
<1> HIDE DEF L1
<1>4. Legal(Locked(<<t, n>>, Compute("mov", T(n), <<T(t)>>)), b, b)
  BY <1>1, LegalMoves
<1>5. Legal(toFloat, b, b)
  <2>1. Legal(Locked(<<n>>, Compute("mov", R(S(17)), <<T(n)>>)), b, b)
    BY <1>1, LegalMoves
  <2> QED
    BY <2>1, LegalSame
<1>6. Legal(Locked(<<t, n>>, operate), b, b)
  <2>1. Operand(T(t), c) /\ Operand(s, c) /\ Operand(R(S(16)), c)
    BY TmpOperand, ScratchOperands DEF St
  <2> HIDE DEF s, c
  <2>2. \A op : Legal(Compute(op, R(S(16)), <<s>>), c, c) /\ Legal(Compute(op, T(t), <<s>>), c, c)
    BY <2>1, LegalCompute1
  <2>3. Legal(operate, c, c)
    <3>1. CASE e.op = "pos"
      BY <3>1, LegalSame
    <3>2. CASE e.op = "neg"
      BY <3>2, <2>2
    <3>3. CASE e.op = "not"
      BY <3>3, <2>2
    <3> QED
      BY <3>1, <3>2, <3>3
  <2> HIDE DEF operate
  <2> QED
    BY <1>1, <2>3, LegalLocked2 DEF c
<1>7. Legal(FromFloat(e, t), a, a)
  BY LegalFromFloat
<1> DEFINE p1 == Gen(e.l, t, n, env) \o Do("alloc", n)
                   \o Locked(<<t, n>>, Compute("mov", T(n), <<T(t)>>)) \o toFloat
<1>8. GenUnary(e, t, n, env)
        = p1 \o Locked(<<t, n>>, operate) \o Do("free", n) \o FromFloat(e, t)
  BY DEF GenUnary
<1> HIDE DEF a, b, toFloat, operate
<1>9. Legal(p1, a, b)
  BY <1>2, <1>3, <1>4, <1>5, LegalCat
<1> HIDE DEF p1
<1>10. Legal(p1 \o Locked(<<t, n>>, operate) \o Do("free", n) \o FromFloat(e, t), a, a)
  BY <1>3, <1>6, <1>7, <1>9, LegalCat
<1> QED
  BY <1>8, <1>10 DEF a

(* generate_expression: whatever the expression, its temporary is locked   *)
(* for as long as it is named, and all others are given back.              *)
LEMMA LegalExpression ==
  ASSUME NEW L, NEW F, NEW O, NEW N, NEW e \in Expr, NEW t \in L,
         NEW n, FreeFrom(n, L, O), NEW env, EnvOK(env), Resolved(e, env)
  PROVE  Legal(Expression(e, t, n, env), St(L, {}, F, O, N), St(L, {}, F, O, N))
<1>1. IsExpr(e)
  BY WellFormed
<1>2. CASE e.k = "const"
  <2>1. Expression(e, t, n, env) = GenConst(e, t, n)
    BY <1>2 DEF Expression
  <2> QED
    BY <2>1, LegalConst
<1>3. CASE e.k = "id" /\ e.index \in Seq(Expr)
  <2>1. Expression(e, t, n, env) = Access("ldr", e, t, n, env)
    BY <1>3 DEF Expression, LoadVariable
  <2>2. e.name \in DOMAIN env.loc
    BY <1>3 DEF Resolved
  <2> QED
    BY <1>3, <2>1, <2>2, LegalAccess
<1>4. CASE e.k = "bin" /\ e.l \in Expr /\ e.r \in Expr
  <2>1. Expression(e, t, n, env) = GenBinary(e, t, n, env)
    BY <1>4 DEF Expression
  <2> QED
    BY <1>4, <2>1, LegalBinary
<1>5. CASE e.k = "un" /\ e.op \in {"pos", "neg", "not"} /\ e.l \in Expr
  <2>1. Expression(e, t, n, env) = GenUnary(e, t, n, env)
    BY <1>5 DEF Expression
  <2> QED
    BY <1>5, <2>1, LegalUnary
<1>6. CASE IsCall(e)
  <2>1. Expression(e, t, n, env) = GenCall(e, t, n, env)
    BY <1>6 DEF Expression, IsCall
  <2> QED
    BY <1>6, <2>1, LegalCall
<1> QED
  BY <1>1, <1>2, <1>3, <1>4, <1>5, <1>6 DEF IsExpr

-----------------------------------------------------------------------------
(* Statements.  The epilogue has its label from the start.  *)
LR == <<"LR", 0>>

(* A statement that is not one of the parts of for, or is not within one:  *)
(* no temporary is live, and current_offset may be anything afterwards.    *)
LEMMA LegalStmt ==
  ASSUME NEW F, NEW O, NEW N, LR \in N, NEW s \in Stmt, NEW off, NEW d,
         FreeFrom(d, {}, O), NEW env, EnvOK(env)
  PROVE  Legal(GenStmt(s, off, env, d), St({}, {}, F, O, N), St({}, {}, {}, O, N))
<1> DEFINE a == St({}, {}, F, O, N)
           i == [do |-> "stmt", s |-> s, off |-> off, env |-> env, d |-> d]
<1>1. /\ a.live = {} /\ a.lock = {} /\ a.open = O /\ a.known = N
  BY DEF St
<1>2. Allowed(i, a)
  BY <1>1 DEF Allowed, AtDepth, LR
<1>3. Weaker(St({}, {}, {}, O, N), Result(i, a))
  BY DEF Weaker, Result, St
<1> QED
  BY <1>2, <1>3, LegalItem DEF GenStmt

(* A list of statements: each may leave another depth, and sets its own.   *)
LEMMA LegalStmts ==
  ASSUME NEW F, NEW O, NEW N, LR \in N, NEW ss \in Seq(Stmt), NEW off, NEW d,
         FreeFrom(d, {}, O), NEW env, EnvOK(env)
  PROVE  Legal(GenStmts(ss, off, env, d), St({}, {}, F, O, N), St({}, {}, {}, O, N))
<1> DEFINE q == [i \in DOMAIN ss |-> GenStmt(ss[i], off, env, d)]
           a == St({}, {}, {}, O, N)
<1>1. PICK n \in Nat : n = Len(ss)
  OBVIOUS
<1>2. DOMAIN ss = 1 .. n /\ \A i \in 1 .. n : ss[i] \in Stmt
  BY <1>1
<1>3. q \in [1 .. n -> {GenStmt(ss[i], off, env, d) : i \in 1 .. n}]
  BY <1>2
<1>4. \A i \in 1 .. n : Legal(q[i], a, a)
  BY <1>2, LegalStmt
<1>5. Weaker(a, St({}, {}, F, O, N))
  BY DEF Weaker, St
<1> HIDE DEF q, a
<1>6. Legal(FlattenSeq(q), a, a)
  BY <1>3, <1>4, LegalEach
<1> QED
  BY <1>5, <1>6, LegalFrom DEF GenStmts, q, a

(* The first part of for, while the temporary of its condition is live.  *)
LEMMA LegalSimples ==
  ASSUME NEW O, NEW N, LR \in N, NEW ss \in Seq(Simple), NEW off, NEW d, NEW x,
         FreeFrom(d, {x}, O), NEW env, EnvOK(env)
  PROVE  Legal(GenStmts(ss, off, env, d), St({x}, {}, {off}, O, N), St({x}, {}, {off}, O, N))
<1> DEFINE q == [i \in DOMAIN ss |-> GenStmt(ss[i], off, env, d)]
           a == St({x}, {}, {off}, O, N)
           item(s) == [do |-> "stmt", s |-> s, off |-> off, env |-> env, d |-> d]
<1>1. PICK n \in Nat : n = Len(ss)
  OBVIOUS
<1>2. DOMAIN ss = 1 .. n /\ \A i \in 1 .. n : ss[i] \in Simple
  BY <1>1
<1>3. q \in [1 .. n -> {GenStmt(ss[i], off, env, d) : i \in 1 .. n}]
  BY <1>2
<1>4. ASSUME NEW s \in Simple
      PROVE  Legal(GenStmt(s, off, env, d), a, a)
  <2>1. a.live = {x} /\ a.lock = {} /\ a.open = O /\ a.known = N /\ off \in a.frame
    BY DEF St
  <2>2. Allowed(item(s), a)
    BY <2>1 DEF Allowed, AtDepth, LR, Simple
  <2>3. Weaker(a, Result(item(s), a))
    BY DEF Weaker, Result, St
  <2> QED
    BY <2>2, <2>3, LegalItem DEF GenStmt
<1>5. \A i \in 1 .. n : Legal(q[i], a, a)
  BY <1>2, <1>4
<1> HIDE DEF q, a
<1>6. Legal(FlattenSeq(q), a, a)
  BY <1>3, <1>5, LegalEach
<1> QED
  BY <1>6 DEF GenStmts, q, a

(* A branch to a label that has a number.                                  *)
LEMMA LegalBranch ==
  ASSUME NEW L, NEW F, NEW O, NEW N, NEW v \in N, v[1] \notin DataKinds
  PROVE  Legal(BranchIf("always", << >>, v), St(L, {}, F, O, N), St(L, {}, F, O, N))
<1>1. \A k \in DOMAIN << >> : Operand(<< >>[k], St(L, {}, F, O, N))
  OBVIOUS
<1> QED
  BY <1>1, ScratchOperands, LegalUse DEF BranchIf

(* A test of a condition and the branch that depends on it.                *)
LEMMA LegalTest ==
  ASSUME NEW L, NEW F, NEW O, NEW N, NEW t \in L, NEW v \in N, v[1] \notin DataKinds
  PROVE  Legal(Test(t, v), St(L, {}, F, O, N), St(L, {}, F, O, N))
<1>1. Operand(T(t), St(L, {t}, F, O, N)) /\ Operand(None, St(L, {t}, F, O, N))
  BY TmpOperand, ScratchOperands DEF St
<1>2. \A k \in DOMAIN <<T(t)>> : Operand(<<T(t)>>[k], St(L, {t}, F, O, N))
  BY <1>1
<1>3. Legal(BranchIf("z", <<T(t)>>, v), St(L, {t}, F, O, N), St(L, {t}, F, O, N))
  BY <1>1, <1>2, LegalUse DEF BranchIf
<1> QED
  BY <1>3, LegalLocked1 DEF Test

(* The place of a label that is open.                                      *)
LEMMA LegalLabel ==
  ASSUME NEW L, NEW F, NEW O, NEW N, NEW v, v \notin O, v[1] \notin DataKinds
  PROVE  Legal(Label(v), St(L, {}, F, O \cup {v}, N), St(L, {}, F, O, N))
BY LegalPlace DEF Label

(* The labels of a statement at depth d: two that differ in their names.   *)
LEMMA LabelsOf ==
  ASSUME NEW O, NEW d, FreeFrom(d, {}, O),
         NEW x, NEW y, x # y, {x, y} \cap DataKinds = {}
  PROVE  /\ <<x, d>> \notin O /\ <<y, d>> \notin O /\ <<x, d>> # <<y, d>>
         /\ <<x, d>>[1] \notin DataKinds /\ <<y, d>>[1] \notin DataKinds
         /\ FreeFrom(d + 1, {}, O \cup {<<x, d>>}) /\ FreeFrom(d + 1, {d}, O \cup {<<x, d>>})
         /\ FreeFrom(d + 1, {}, O \cup {<<y, d>>}) /\ FreeFrom(d + 1, {d}, O \cup {<<y, d>>})
         /\ FreeFrom(d + 1, {}, O \cup {<<x, d>>, <<y, d>>})
         /\ FreeFrom(d + 1, {d}, O \cup {<<x, d>>, <<y, d>>})
<1>1. d \in Nat /\ \A v \in O : v[2] \in Nat /\ v[2] < d
  BY DEF FreeFrom
<1>2. <<x, d>>[2] = d /\ <<y, d>>[2] = d /\ <<x, d>>[1] = x /\ <<y, d>>[1] = y
  OBVIOUS
<1>3. \A w \in {<<x, d>>, <<y, d>>} : w[2] = d
  BY <1>2
<1>4. ASSUME NEW more, more \subseteq {<<x, d>>, <<y, d>>}
      PROVE  FreeFrom(d + 1, {}, O \cup more) /\ FreeFrom(d + 1, {d}, O \cup more)
  BY <1>1, <1>3, <1>4 DEF FreeFrom
<1>5. <<x, d>> \notin O /\ <<y, d>> \notin O
  BY <1>1, <1>2
<1> QED
  BY <1>2, <1>4, <1>5

(* while: its labels, the test and the body.                               *)
LEMMA LegalWhile ==
  ASSUME NEW F, NEW O, NEW N, LR \in N, NEW s, s.cond \in Expr, s.body \in Stmt,
         NEW off, NEW d, FreeFrom(d, {}, O), NEW env, EnvOK(env)
  PROVE  Legal(GenWhile(s, off, env, d), St({}, {}, F, O, N), St({}, {}, {}, O, N))
<1> DEFINE cmp == <<"cmp", d>>
           exit == <<"exit while", d>>
           O1 == O \cup {cmp}
           O2 == O \cup {cmp} \cup {exit}
           O3 == O \cup {exit}
           N1 == N \cup {cmp}
           N2 == N \cup {cmp} \cup {exit}
           s0 == St({}, {}, F, O, N)
           s1 == St({}, {}, F, O1, N1)
           s2 == St({}, {}, F, O2, N2)
           s3 == St({d}, {}, F, O2, N2)
           s4 == St({d}, {}, F, O3, N2)
           s5 == St({}, {}, F, O3, N2)
           s6 == St({}, {}, {}, O3, N2)
           s7 == St({}, {}, {}, O, N)
<1>1. /\ cmp \notin O /\ exit \notin O1 /\ exit \notin O /\ cmp \notin O3
      /\ cmp[1] \notin DataKinds /\ exit[1] \notin DataKinds
      /\ FreeFrom(d + 1, {}, O3) /\ FreeFrom(d + 1, {d}, O3)
  <2>1. "cmp" # "exit while" /\ {"cmp", "exit while"} \cap DataKinds = {}
    BY DEF DataKinds
  <2>2. /\ <<"cmp", d>> \notin O /\ <<"exit while", d>> \notin O /\ <<"cmp", d>> # <<"exit while", d>>
        /\ <<"cmp", d>>[1] \notin DataKinds /\ <<"exit while", d>>[1] \notin DataKinds
        /\ FreeFrom(d + 1, {}, O \cup {<<"cmp", d>>})
        /\ FreeFrom(d + 1, {d}, O \cup {<<"cmp", d>>})
        /\ FreeFrom(d + 1, {}, O \cup {<<"exit while", d>>})
        /\ FreeFrom(d + 1, {d}, O \cup {<<"exit while", d>>})
        /\ FreeFrom(d + 1, {d}, O \cup {<<"cmp", d>>, <<"exit while", d>>})
    BY <2>1, LabelsOf
  <2> QED
    BY <2>2
<1>2. O2 = O3 \cup {cmp} /\ cmp \in N2 /\ exit \in N2 /\ LR \in N2 /\ {} \cup {d} = {d}
  OBVIOUS
<1> HIDE DEF cmp, exit
<1>3. Legal(Do("label", cmp), s0, s1)
  BY <1>1, LegalLabelDo
<1> HIDE DEF O1, N1
<1>4. Legal(Do("label", exit), s1, s2)
  BY <1>1, LegalLabelDo DEF O1, N1
<1> HIDE DEF O2, O3, N2
<1>5. Legal(Do("alloc", d), s2, s3) /\ Legal(Do("free", d), s4, s5)
  BY <1>2, LegalAlloc, LegalFree
<1>6. Legal(Label(cmp), s3, s4)
  BY <1>1, <1>2, LegalLabel
<1>7. Legal(Gen(s.cond, d, d + 1, env), s4, s4)
  BY <1>1, LegalGen
<1>8. Legal(Test(d, exit), s4, s4)
  BY <1>1, <1>2, LegalTest
<1>9. Legal(GenStmt(s.body, off, env, d + 1), s5, s6)
  BY <1>1, <1>2, LegalStmt
<1>10. Legal(BranchIf("always", << >>, cmp), s6, s6)
  BY <1>1, <1>2, LegalBranch
<1>11. Legal(Label(exit), s6, s7)
  <2>1. Legal(Label(exit), s6, St({}, {}, {}, O, N2))
    BY <1>1, LegalLabel DEF O3
  <2>2. Weaker(s7, St({}, {}, {}, O, N2))
    BY DEF Weaker, St, N2
  <2> QED
    BY <2>1, <2>2, LegalTo
<1> DEFINE p1 == Do("label", cmp) \o Do("label", exit) \o Do("alloc", d) \o Label(cmp)
           p2 == p1 \o Gen(s.cond, d, d + 1, env) \o Test(d, exit) \o Do("free", d)
<1>12. GenWhile(s, off, env, d)
         = p2 \o GenStmt(s.body, off, env, d + 1) \o BranchIf("always", << >>, cmp) \o Label(exit)
  BY DEF GenWhile, cmp, exit
<1> HIDE DEF s0, s1, s2, s3, s4, s5, s6, s7
<1>13. Legal(p1, s0, s4)
  BY <1>3, <1>4, <1>5, <1>6, LegalCat
<1> HIDE DEF p1
<1>14. Legal(p2, s0, s5)
  BY <1>5, <1>7, <1>8, <1>13, LegalCat
<1> HIDE DEF p2
<1>15. Legal(p2 \o GenStmt(s.body, off, env, d + 1) \o BranchIf("always", << >>, cmp) \o Label(exit),
             s0, s7)
  BY <1>9, <1>10, <1>11, <1>14, LegalCat
<1> QED
  BY <1>12, <1>15 DEF s0, s7

(* for: its labels, its lists and its body.                                *)
LEMMA LegalFor ==
  ASSUME NEW O, NEW N, LR \in N, NEW s, s.init \in Seq(Simple), s.conds \in Seq(Expr),
         s.step \in Seq(Simple), s.body \in Stmt,
         NEW off, NEW d, FreeFrom(d, {}, O), NEW env, EnvOK(env)
  PROVE  Legal(GenFor(s, off, env, d), St({}, {}, {off}, O, N), St({}, {}, {}, O, N))
<1> DEFINE F == {off}
           cmp == <<"cmp", d>>
           exit == <<"exit while", d>>
           O1 == O \cup {cmp}
           O2 == O \cup {cmp} \cup {exit}
           O3 == O \cup {exit}
           N1 == N \cup {cmp}
           N2 == N \cup {cmp} \cup {exit}
           conds == FlattenSeq([i \in DOMAIN s.conds |-> Gen(s.conds[i], d, d + 1, env)])
           s0 == St({}, {}, F, O, N)
           s1 == St({}, {}, F, O1, N1)
           s2 == St({}, {}, F, O2, N2)
           s3 == St({d}, {}, F, O2, N2)
           s4 == St({d}, {}, F, O3, N2)
           s5 == St({}, {}, F, O3, N2)
           s6 == St({}, {}, {}, O3, N2)
           s7 == St({}, {}, {}, O, N)
<1>1. /\ cmp \notin O /\ exit \notin O1 /\ exit \notin O /\ cmp \notin O3
      /\ cmp[1] \notin DataKinds /\ exit[1] \notin DataKinds
      /\ FreeFrom(d + 1, {}, O3) /\ FreeFrom(d + 1, {d}, O3) /\ FreeFrom(d + 1, {d}, O2)
  <2>1. "cmp" # "exit while" /\ {"cmp", "exit while"} \cap DataKinds = {}
    BY DEF DataKinds
  <2>2. /\ <<"cmp", d>> \notin O /\ <<"exit while", d>> \notin O /\ <<"cmp", d>> # <<"exit while", d>>
        /\ <<"cmp", d>>[1] \notin DataKinds /\ <<"exit while", d>>[1] \notin DataKinds
        /\ FreeFrom(d + 1, {}, O \cup {<<"cmp", d>>})
        /\ FreeFrom(d + 1, {d}, O \cup {<<"cmp", d>>})
        /\ FreeFrom(d + 1, {}, O \cup {<<"exit while", d>>})
        /\ FreeFrom(d + 1, {d}, O \cup {<<"exit while", d>>})
        /\ FreeFrom(d + 1, {d}, O \cup {<<"cmp", d>>, <<"exit while", d>>})
    BY <2>1, LabelsOf
  <2>3. O2 = O \cup {cmp, exit}
    OBVIOUS
  <2> QED
    BY <2>2, <2>3
<1>2. O2 = O3 \cup {cmp} /\ cmp \in N2 /\ exit \in N2 /\ LR \in N2 /\ {} \cup {d} = {d}
  OBVIOUS
<1> HIDE DEF cmp, exit
<1>3. Legal(Do("label", cmp), s0, s1)
  BY <1>1, LegalLabelDo
<1> HIDE DEF O1, N1
<1>4. Legal(Do("label", exit), s1, s2)
  BY <1>1, LegalLabelDo DEF O1, N1
<1> HIDE DEF O2, O3, N2
<1>5. Legal(Do("alloc", d), s2, s3) /\ Legal(Do("free", d), s4, s5)
  BY <1>2, LegalAlloc, LegalFree
<1>6. Legal(GenStmts(s.init, off, env, d + 1), s3, s3)
  BY <1>1, <1>2, LegalSimples
<1>7. Legal(Offset(off), s3, s3)
  <2>1. AtDepth(off, s3)
    BY DEF AtDepth, St
  <2> QED
    BY <2>1, LegalOffset
<1>8. Legal(Label(cmp), s3, s4)
  BY <1>1, <1>2, LegalLabel
<1>9. Legal(conds, s4, s4)
  <2> DEFINE q == [i \in DOMAIN s.conds |-> Gen(s.conds[i], d, d + 1, env)]
  <2>1. PICK n \in Nat : n = Len(s.conds)
    OBVIOUS
  <2>2. DOMAIN s.conds = 1 .. n /\ \A i \in 1 .. n : s.conds[i] \in Expr
    BY <2>1
  <2>3. q \in [1 .. n -> {Gen(s.conds[i], d, d + 1, env) : i \in 1 .. n}]
    BY <2>2
  <2>4. \A i \in 1 .. n : Legal(q[i], s4, s4)
    BY <1>1, <2>2, LegalGen
  <2> HIDE DEF q, s4
  <2>5. Legal(FlattenSeq(q), s4, s4)
    BY <2>3, <2>4, LegalEach
  <2> QED
    BY <2>5 DEF q
<1>10. Legal(Test(d, exit), s4, s4)
  BY <1>1, <1>2, LegalTest
<1>11. Legal(GenStmt(s.body, off, env, d + 1), s5, s6)
  BY <1>1, <1>2, LegalStmt
<1>12. Legal(GenStmts(s.step, off, env, d + 1), s6, s6)
  <2>1. s.step \in Seq(Stmt)
    BY DEF Simple
  <2> QED
    BY <1>1, <1>2, <2>1, LegalStmts
<1>13. Legal(BranchIf("always", << >>, cmp), s6, s6)
  BY <1>1, <1>2, LegalBranch
<1>14. Legal(Label(exit), s6, s7)
  <2>1. Legal(Label(exit), s6, St({}, {}, {}, O, N2))
    BY <1>1, LegalLabel DEF O3
  <2>2. Weaker(s7, St({}, {}, {}, O, N2))
    BY DEF Weaker, St, N2
  <2> QED
    BY <2>1, <2>2, LegalTo
<1> DEFINE p1 == Do("label", cmp) \o Do("label", exit) \o Do("alloc", d)
                   \o GenStmts(s.init, off, env, d + 1)
           p2 == p1 \o Offset(off) \o Label(cmp) \o conds
           p3 == p2 \o Test(d, exit) \o Do("free", d) \o GenStmt(s.body, off, env, d + 1)
<1>15. GenFor(s, off, env, d)
         = p3 \o GenStmts(s.step, off, env, d + 1) \o BranchIf("always", << >>, cmp) \o Label(exit)
  BY DEF GenFor, cmp, exit
<1> HIDE DEF s0, s1, s2, s3, s4, s5, s6, s7, conds
<1>16. Legal(p1, s0, s3)
  BY <1>3, <1>4, <1>5, <1>6, LegalCat
<1> HIDE DEF p1
<1>17. Legal(p2, s0, s4)
  BY <1>7, <1>8, <1>9, <1>16, LegalCat
<1> HIDE DEF p2
<1>18. Legal(p3, s0, s6)
  BY <1>5, <1>10, <1>11, <1>17, LegalCat
<1> HIDE DEF p3
<1>19. Legal(p3 \o GenStmts(s.step, off, env, d + 1) \o BranchIf("always", << >>, cmp) \o Label(exit),
             s0, s7)
  BY <1>12, <1>13, <1>14, <1>18, LegalCat
<1> QED
  BY <1>15, <1>19 DEF s0, s7, F

(* if, with or without else.                                               *)
LEMMA LegalIf ==
  ASSUME NEW F, NEW O, NEW N, LR \in N, NEW s, s.cond \in Expr, s.then \in Stmt, s.else \in Stmt,
         NEW off, NEW d, FreeFrom(d, {}, O), NEW env, EnvOK(env)
  PROVE  Legal(GenIf(s, off, env, d), St({}, {}, F, O, N), St({}, {}, {}, O, N))
<1> DEFINE cross == <<"cross if", d>>
           exit == <<"exit if", d>>
           O1 == O \cup {cross}
           O2 == O \cup {cross} \cup {exit}
           O3 == O \cup {exit}
           N1 == N \cup {cross}
           N2 == N \cup {cross} \cup {exit}
           s0 == St({}, {}, F, O, N)
           s1 == St({}, {}, F, O1, N1)
           s2 == St({d}, {}, F, O1, N1)
           s3 == St({}, {}, {}, O1, N1)
           s4 == St({}, {}, {}, O2, N2)
           s5 == St({}, {}, {}, O3, N2)
           s6 == St({}, {}, {}, O, N)
           rest == Do("label", exit) \o BranchIf("always", << >>, exit) \o Label(cross)
                     \o GenStmt(s.else, off, env, d + 1) \o Label(exit)
           else == IF s.else.k = "nul" THEN Label(cross) ELSE rest
<1>1. /\ cross \notin O /\ exit \notin O1 /\ exit \notin O /\ cross \notin O3
      /\ cross[1] \notin DataKinds /\ exit[1] \notin DataKinds
      /\ FreeFrom(d + 1, {}, O3) /\ FreeFrom(d + 1, {d}, O1) /\ FreeFrom(d + 1, {}, O1)
  <2>1. "cross if" # "exit if" /\ {"cross if", "exit if"} \cap DataKinds = {}
    BY DEF DataKinds
  <2>2. /\ <<"cross if", d>> \notin O /\ <<"exit if", d>> \notin O /\ <<"cross if", d>> # <<"exit if", d>>
        /\ <<"cross if", d>>[1] \notin DataKinds /\ <<"exit if", d>>[1] \notin DataKinds
        /\ FreeFrom(d + 1, {}, O \cup {<<"cross if", d>>})
        /\ FreeFrom(d + 1, {d}, O \cup {<<"cross if", d>>})
        /\ FreeFrom(d + 1, {}, O \cup {<<"exit if", d>>})
        /\ FreeFrom(d + 1, {d}, O \cup {<<"exit if", d>>})
        /\ FreeFrom(d + 1, {d}, O \cup {<<"cross if", d>>, <<"exit if", d>>})
    BY <2>1, LabelsOf
  <2> QED
    BY <2>2
<1>2. /\ O2 = O3 \cup {cross} /\ cross \in N1 /\ exit \in N2 /\ LR \in N1 /\ LR \in N2
      /\ {} \cup {d} = {d}
  OBVIOUS
<1> HIDE DEF cross, exit
<1>3. Legal(Do("label", cross), s0, s1)
  BY <1>1, LegalLabelDo
<1>4. Legal(Label(cross), s3, s6)
  <2>1. Legal(Label(cross), s3, St({}, {}, {}, O, N1))
    BY <1>1, LegalLabel
  <2>2. Weaker(s6, St({}, {}, {}, O, N1))
    BY DEF Weaker, St
  <2> QED
    BY <2>1, <2>2, LegalTo
<1> HIDE DEF O1, N1
<1>5. Legal(Do("alloc", d), s1, s2) /\ Legal(Do("free", d), s2, s1)
  BY <1>2, LegalAlloc, LegalFree
<1>6. Legal(Gen(s.cond, d, d + 1, env), s2, s2)
  BY <1>1, LegalGen
<1>7. Legal(Test(d, cross), s2, s2)
  BY <1>1, <1>2, LegalTest
<1>8. Legal(GenStmt(s.then, off, env, d + 1), s1, s3)
  BY <1>1, <1>2, LegalStmt
<1>9. Legal(Do("label", exit), s3, s4)
  BY <1>1, LegalLabelDo DEF O1, N1
<1> HIDE DEF O2, O3, N2
<1>10. Legal(BranchIf("always", << >>, exit), s4, s4)
  BY <1>1, <1>2, LegalBranch
<1>11. Legal(Label(cross), s4, s5)
  BY <1>1, <1>2, LegalLabel
<1>12. Legal(GenStmt(s.else, off, env, d + 1), s5, s5)
  BY <1>1, <1>2, LegalStmt
<1>13. Legal(Label(exit), s5, s6)
  <2>1. Legal(Label(exit), s5, St({}, {}, {}, O, N2))
    BY <1>1, LegalLabel DEF O3
  <2>2. Weaker(s6, St({}, {}, {}, O, N2))
    BY DEF Weaker, St, N2
  <2> QED
    BY <2>1, <2>2, LegalTo
<1> DEFINE p1 == Do("label", cross) \o Do("alloc", d) \o Gen(s.cond, d, d + 1, env) \o Test(d, cross)
           p2 == p1 \o Do("free", d) \o GenStmt(s.then, off, env, d + 1)
<1>14. GenIf(s, off, env, d) = p2 \o else
  BY DEF GenIf, cross, exit
<1> HIDE DEF s0, s1, s2, s3, s4, s5, s6
<1>15. Legal(p1, s0, s2)
  BY <1>3, <1>5, <1>6, <1>7, LegalCat
<1>16. Legal(rest, s3, s6)
  <2> DEFINE r1 == Do("label", exit) \o BranchIf("always", << >>, exit) \o Label(cross)
  <2>1. Legal(r1, s3, s5)
    BY <1>9, <1>10, <1>11, LegalCat
  <2> HIDE DEF r1
  <2>2. Legal(r1 \o GenStmt(s.else, off, env, d + 1) \o Label(exit), s3, s6)
    BY <1>12, <1>13, <2>1, LegalCat
  <2> QED
    BY <2>2 DEF r1
<1>17. Legal(else, s3, s6)
  BY <1>4, <1>16
<1> HIDE DEF p1, rest, else
<1>18. Legal(p2, s0, s3)
  BY <1>5, <1>8, <1>15, LegalCat
<1> HIDE DEF p2
<1>19. Legal(p2 \o else, s0, s6)
  BY <1>17, <1>18, LegalCat
<1> QED
  BY <1>14, <1>19 DEF s0, s6

(* return: the value, its conversion, and the branch to the epilogue,      *)
(* whose label is known.                                                   *)
LEMMA LegalReturn ==
  ASSUME NEW F, NEW O, NEW N, LR \in N, NEW s, s.value \in Expr,
         NEW d, FreeFrom(d, {}, O), NEW env, EnvOK(env)
  PROVE  Legal(GenReturn(s, env, d), St({}, {}, F, O, N), St({}, {}, {}, O, N))
<1> DEFINE a == St({}, {}, F, O, N)
           b == St({d}, {}, F, O, N)
           c == St({}, {}, {}, O, N)
           r == R(IF env.type = "float" THEN S(0) ELSE X(0))
<1>1. d \in {d} /\ {} \cup {d} = {d} /\ FreeFrom(d + 1, {d}, O)
  <2>1. FreeFrom(d + 1, {} \cup {d}, O)
    BY FreeFromNext
  <2> QED
    BY <2>1
<1>2. Legal(Do("alloc", d), a, b) /\ Legal(Do("free", d), b, a)
  <2>1. d \notin {}
    OBVIOUS
  <2>2. /\ Legal(Do("alloc", d), a, St({} \cup {d}, {}, F, O, N))
        /\ Legal(Do("free", d), St({} \cup {d}, {}, F, O, N), a)
    BY <2>1, LegalAlloc, LegalFree
  <2> QED
    BY <1>1, <2>2
<1>3. Legal(GenConverted(s.value, env.type, d, d + 1, env), b, b)
  BY <1>1, LegalConverted
<1>4. Legal(Locked(<<d>>, Compute("mov", r, <<T(d)>>)), b, b)
  <2>1. Operand(T(d), St({d}, {d}, F, O, N)) /\ Operand(r, St({d}, {d}, F, O, N))
    BY TmpOperand, ScratchOperands DEF St
  <2> QED
    BY <2>1, LegalCompute1, LegalLocked1
<1>5. Legal(Do("unwind", 0), a, a)
  BY LegalPlain
<1>6. Legal(BranchIf("always", << >>, LR), a, c)
  <2>1. LR[1] \notin DataKinds
    BY DEF LR, DataKinds
  <2>2. Weaker(c, a)
    BY DEF Weaker, St
  <2> QED
    BY <2>1, <2>2, LegalBranch, LegalTo
<1> DEFINE p1 == Do("alloc", d) \o GenConverted(s.value, env.type, d, d + 1, env)
                   \o Locked(<<d>>, Compute("mov", r, <<T(d)>>))
<1>7. GenReturn(s, env, d)
        = p1 \o Do("free", d) \o Do("unwind", 0) \o BranchIf("always", << >>, LR)
  BY DEF GenReturn, LR
<1> HIDE DEF a, b, c
<1>8. Legal(p1, a, b)
  BY <1>2, <1>3, <1>4, LegalCat
<1> HIDE DEF p1
<1>9. Legal(p1 \o Do("free", d) \o Do("unwind", 0) \o BranchIf("always", << >>, LR), a, c)
  BY <1>2, <1>5, <1>6, <1>8, LegalCat
<1> QED
  BY <1>7, <1>9 DEF a, c

(* The scope of a block: an array is where its declaration puts it.  *)
LEMMA LocalsOK ==
  ASSUME NEW decls, IsList(decls), \A i \in DOMAIN decls : IsDecl(decls[i]),
         NEW env, EnvOK(env), NEW off
  PROVE  /\ EnvOK(Locals(decls, off, env))
         /\ \A i \in DOMAIN decls : decls[i].name \in DOMAIN Locals(decls, off, env).loc
<1> DEFINE new == Locals(decls, off, env)
           D == DOMAIN env.loc \cup {decls[i].name : i \in DOMAIN decls}
           loc == [x \in D |->
             IF \E i \in DOMAIN decls : decls[i].name = x
             THEN LET i == CHOOSE i \in DOMAIN decls : decls[i].name = x
                  IN [seg |-> "local", a |-> AddressOf(decls, i, off),
                      dims |-> decls[i].dims]
             ELSE env.loc[x]]
<1>1. new = [env EXCEPT !.loc = loc]
  BY DEF Locals
<1> HIDE DEF new, loc
<1>2. /\ new = [type |-> env.type, params |-> env.params, loc |-> loc]
  BY <1>1 DEF EnvOK
<1>3. /\ new = [type |-> new.type, params |-> new.params, loc |-> new.loc]
      /\ new.params = env.params /\ new.loc = loc
  BY <1>2
<1>4. DOMAIN loc = D /\ \A i \in DOMAIN decls : decls[i].name \in D
  BY DEF loc
<1>5. ASSUME NEW x \in D
      PROVE  loc[x].dims \in Seq(Nat) /\ (loc[x].seg = "arg" => loc[x].a \in Int)
  <2>1. CASE \E i \in DOMAIN decls : decls[i].name = x
    <3> DEFINE i == CHOOSE i \in DOMAIN decls : decls[i].name = x
    <3>1. i \in DOMAIN decls
      BY <2>1
    <3>2. loc[x] = [seg |-> "local", a |-> AddressOf(decls, i, off), dims |-> decls[i].dims]
      BY <2>1 DEF loc
    <3> HIDE DEF i
    <3>3. loc[x].seg = "local" /\ loc[x].dims = decls[i].dims
      BY <3>2
    <3> QED
      BY <3>1, <3>3 DEF IsDecl
  <2>2. CASE ~ \E i \in DOMAIN decls : decls[i].name = x
    <3>1. x \in DOMAIN env.loc /\ loc[x] = env.loc[x]
      BY <2>2 DEF loc
    <3> QED
      BY <3>1 DEF EnvOK
  <2> QED
    BY <2>1, <2>2
<1>6. EnvOK(new)
  BY <1>3, <1>4, <1>5 DEF EnvOK
<1> QED
  BY <1>3, <1>4, <1>6 DEF new

(* The initialisation of a local variable.                                 *)
LEMMA LegalInitLocal ==
  ASSUME NEW O, NEW N, NEW decl, IsDecl(decl), NEW off, NEW d, FreeFrom(d, {}, O),
         NEW env, EnvOK(env), decl.name \in DOMAIN env.loc
  PROVE  Legal(InitLocal(decl, off, env, d), St({}, {}, {}, O, N), St({}, {}, {}, O, N))
<1> DEFINE a == St({}, {}, {}, O, N)
           b == St({}, {}, {off}, O, N)
           id == [name |-> decl.name, type |-> decl.type, index |-> << >>]
<1>1. CASE decl.init = << >>
  BY <1>1, LegalSame DEF InitLocal
<1>2. CASE decl.init # << >>
  <2>1. AtDepth(off, a)
    BY DEF AtDepth, St
  <2>2. Legal(Offset(off), a, b)
    BY <2>1, LegalOffset
  <2>3. decl.init[1] \in Expr /\ id.index \in Seq(Expr) /\ id.name \in DOMAIN env.loc
    BY <1>2 DEF IsDecl
  <2> HIDE DEF id
  <2>4. Legal(GenAssign(id, decl.init[1], d, env), b, b)
    BY <2>3, LegalAssign
  <2>5. Weaker(a, b)
    BY DEF Weaker, St
  <2>6. Legal(GenAssign(id, decl.init[1], d, env), b, a)
    BY <2>4, <2>5, LegalTo
  <2> HIDE DEF a, b
  <2>7. Legal(Offset(off) \o GenAssign(id, decl.init[1], d, env), a, a)
    BY <2>2, <2>6, LegalCat
  <2> QED
    BY <1>2, <2>7 DEF InitLocal, id, a
<1> QED
  BY <1>1, <1>2

(* A block: its variables, their initialisation, its statements.           *)
LEMMA LegalBlock ==
  ASSUME NEW F, NEW O, NEW N, LR \in N, NEW s, IsBlock(s),
         NEW off, NEW d, FreeFrom(d, {}, O), NEW env, EnvOK(env)
  PROVE  Legal(GenBlock(s, off, env, d), St({}, {}, F, O, N), St({}, {}, {}, O, N))
<1> DEFINE inner == AddressOf(s.decls, Len(s.decls), off)
           local == Locals(s.decls, off, env)
           diff == inner - off
           move(n) == IF diff > 0 THEN AddSp(n) ELSE << >>
           q == [i \in DOMAIN s.decls |-> InitLocal(s.decls[i], inner, local, d)]
           a == St({}, {}, F, O, N)
           b == St({}, {}, {}, O, N)
<1>1. /\ IsList(s.decls) /\ \A i \in DOMAIN s.decls : IsDecl(s.decls[i])
      /\ s.stmts \in Seq(Stmt)
  BY DEF IsBlock
<1>2. EnvOK(local) /\ \A i \in DOMAIN s.decls : s.decls[i].name \in DOMAIN local.loc
  BY <1>1, LocalsOK
<1>3. FreeFrom(d + 1, {}, O)
  BY FreeFromNext
<1>4. \A n : Legal(move(n), a, a) /\ Legal(move(n), b, b)
  BY LegalAddSp, LegalSame
<1> HIDE DEF local, inner, move
<1>5. Legal(FlattenSeq(q), b, b)
  <2>1. PICK n \in Nat : n = Len(s.decls) /\ DOMAIN s.decls = 1 .. n
    BY <1>1 DEF IsList
  <2>2. q \in [1 .. n -> {InitLocal(s.decls[i], inner, local, d) : i \in 1 .. n}]
    BY <2>1
  <2>3. \A i \in 1 .. n : Legal(q[i], b, b)
    BY <1>1, <1>2, <2>1, LegalInitLocal
  <2> HIDE DEF q, b
  <2> QED
    BY <2>2, <2>3, LegalEach
<1>6. Legal(FlattenSeq(q), a, b)
  <2>1. Weaker(b, a)
    BY DEF Weaker, St
  <2> QED
    BY <1>5, <2>1, LegalFrom
<1>7. Legal(GenStmts(s.stmts, inner, local, d + 1), b, b)
  BY <1>1, <1>2, <1>3, LegalStmts
<1>8. GenBlock(s, off, env, d)
        = move(diff) \o FlattenSeq(q) \o GenStmts(s.stmts, inner, local, d + 1) \o move(- diff)
  BY DEF GenBlock, move, local, inner
<1> HIDE DEF a, b, q
<1>9. Legal(move(diff) \o FlattenSeq(q) \o GenStmts(s.stmts, inner, local, d + 1) \o move(- diff), a, b)
  BY <1>4, <1>6, <1>7, LegalCat
<1> QED
  BY <1>8, <1>9 DEF a, b

(* generate_statement: nothing stays allocated and every label is placed.  *)
LEMMA LegalStatement ==
  ASSUME NEW F, NEW O, NEW N, LR \in N, NEW s \in Stmt, NEW off, NEW d,
         FreeFrom(d, {}, O), NEW env, EnvOK(env),
         s.k = "assign" => Resolved(s.id, env),
         s.k = "call" => Resolved(s.call, env)
  PROVE  Legal(Statement(s, off, env, d), St({}, {}, F, O, N), St({}, {}, {}, O, N))
<1> DEFINE a == St({}, {}, F, O, N)
           b == St({}, {}, {off}, O, N)
           c == St({}, {}, {}, O, N)
           body == CASE s.k = "nul"    -> << >>
                     [] s.k = "block"  -> GenBlock(s, off, env, d)
                     [] s.k = "while"  -> GenWhile(s, off, env, d)
                     [] s.k = "for"    -> GenFor(s, off, env, d)
                     [] s.k = "if"     -> GenIf(s, off, env, d)
                     [] s.k = "assign" -> GenAssign(s.id, s.value, d, env)
                     [] s.k = "call"   -> CallFunction(s.call, d, env)
                     [] s.k = "return" -> GenReturn(s, env, d)
<1>1. IsStmt(s)
  BY WellFormed
<1>2. Weaker(c, b)
  BY DEF Weaker, St
<1>3. Legal(body, b, c)
  <2>1. CASE s.k = "nul"
    BY <1>2, <2>1, LegalNil
  <2>2. CASE IsBlock(s)
    <3>1. body = GenBlock(s, off, env, d)
      BY <2>2 DEF IsBlock
    <3> QED
      BY <2>2, <3>1, LegalBlock
  <2>3. CASE s.k = "while" /\ s.cond \in Expr /\ s.body \in Stmt
    BY <2>3, LegalWhile
  <2>4. CASE s.k = "for" /\ s.init \in Seq(Simple) /\ s.conds \in Seq(Expr)
               /\ s.step \in Seq(Simple) /\ s.body \in Stmt
    BY <2>4, LegalFor
  <2>5. CASE s.k = "if" /\ s.cond \in Expr /\ s.then \in Stmt /\ s.else \in Stmt
    BY <2>5, LegalIf
  <2>6. CASE s.k = "assign" /\ s.id \in Expr /\ s.id.k = "id" /\ s.value \in Expr
    <3>1. s.id.index \in Seq(Expr) /\ s.id.name \in DOMAIN env.loc
      BY <2>6, WellFormed DEF IsExpr, IsCall, Resolved
    <3>2. Legal(GenAssign(s.id, s.value, d, env), b, b)
      BY <2>6, <3>1, LegalAssign
    <3> QED
      BY <1>2, <2>6, <3>2, LegalTo
  <2>7. CASE s.k = "call" /\ s.call \in Expr /\ IsCall(s.call)
    <3>1. Legal(CallFunction(s.call, d, env), b, b)
      BY <2>7, LegalCallFunction
    <3> QED
      BY <1>2, <2>7, <3>1, LegalTo
  <2>8. CASE s.k = "return" /\ s.value \in Expr
    BY <2>8, LegalReturn
  <2> QED
    BY <1>1, <2>1, <2>2, <2>3, <2>4, <2>5, <2>6, <2>7, <2>8 DEF IsStmt
<1>4. Legal(Offset(off), a, b)
  <2>1. AtDepth(off, a)
    BY DEF AtDepth, St
  <2> QED
    BY <2>1, LegalOffset
<1>5. Statement(s, off, env, d) = Offset(off) \o body
  BY DEF Statement
<1> HIDE DEF a, b, c, body
<1>6. Legal(Offset(off) \o body, a, c)
  BY <1>3, <1>4, LegalCat
<1> QED
  BY <1>5, <1>6 DEF a, c

(* The first and the third part of for: assignments and calls, which are   *)
(* legal while the temporary of the condition is live.                     *)
LEMMA LegalSimple ==
  ASSUME NEW L, NEW F, NEW O, NEW N, NEW s \in Simple, NEW off, NEW d,
         FreeFrom(d, L, O), NEW env, EnvOK(env), AtDepth(off, St(L, {}, F, O, N)),
         s.k = "assign" => Resolved(s.id, env),
         s.k = "call" => Resolved(s.call, env)
  PROVE  Legal(Statement(s, off, env, d), St(L, {}, F, O, N), St(L, {}, {off}, O, N))
<1> DEFINE a == St(L, {}, F, O, N)
           b == St(L, {}, {off}, O, N)
<1>1. IsStmt(s) /\ s \in Stmt
  BY WellFormed DEF Simple
<1>2. Legal(Offset(off), a, b)
  BY LegalOffset
<1>3. CASE s.k = "assign"
  <2>1. s.id \in Expr /\ s.id.k = "id" /\ s.value \in Expr
    BY <1>1, <1>3 DEF IsStmt, IsBlock
  <2>2. s.id.index \in Seq(Expr) /\ s.id.name \in DOMAIN env.loc
    BY <1>3, <2>1, WellFormed DEF IsExpr, IsCall, Resolved
  <2>3. Legal(GenAssign(s.id, s.value, d, env), b, b)
    BY <2>1, <2>2, LegalAssign
  <2>4. Statement(s, off, env, d) = Offset(off) \o GenAssign(s.id, s.value, d, env)
    BY <1>3 DEF Statement
  <2> HIDE DEF a, b
  <2>5. Legal(Offset(off) \o GenAssign(s.id, s.value, d, env), a, b)
    BY <1>2, <2>3, LegalCat
  <2> QED
    BY <2>4, <2>5 DEF a, b
<1>4. CASE s.k = "call"
  <2>1. IsCall(s.call)
    BY <1>1, <1>4 DEF IsStmt, IsBlock
  <2>2. Legal(CallFunction(s.call, d, env), b, b)
    BY <1>4, <2>1, LegalCallFunction
  <2>3. Statement(s, off, env, d) = Offset(off) \o CallFunction(s.call, d, env)
    BY <1>4 DEF Statement
  <2> HIDE DEF a, b
  <2>4. Legal(Offset(off) \o CallFunction(s.call, d, env), a, b)
    BY <1>2, <2>2, LegalCat
  <2> QED
    BY <2>3, <2>4 DEF a, b
<1> QED
  BY <1>3, <1>4 DEF Simple

(* generate_function *)
LEMMA LegalFunction ==
  ASSUME NEW f, IsFunction(f)
  PROVE  Legal(GenFunction(f), St({}, {}, {0}, {LR}, {LR}), St({}, {}, {}, {}, {LR}))
<1> DEFINE arg(x) == CHOOSE i \in DOMAIN f.args : f.args[i].name = x
           D == DOMAIN f.globals \cup {f.args[i].name : i \in DOMAIN f.args}
           loc == [x \in D |-> IF \E i \in DOMAIN f.args : f.args[i].name = x
                               THEN [seg |-> "arg", a |-> arg(x) - 1,
                                     dims |-> f.args[arg(x)].dims]
                               ELSE f.globals[x]]
           env == [type |-> f.type, params |-> Len(f.args), loc |-> loc]
<1>1. ASSUME NEW x \in D
      PROVE  loc[x].dims \in Seq(Nat) /\ (loc[x].seg = "arg" => loc[x].a \in Int)
  <2>1. CASE \E i \in DOMAIN f.args : f.args[i].name = x
    <3>1. arg(x) \in DOMAIN f.args
      BY <2>1
    <3>2. loc[x] = [seg |-> "arg", a |-> arg(x) - 1, dims |-> f.args[arg(x)].dims]
      BY <2>1
    <3> HIDE DEF arg, loc
    <3>3. loc[x].a = arg(x) - 1 /\ loc[x].dims = f.args[arg(x)].dims
      BY <3>2
    <3>4. arg(x) \in Nat /\ f.args[arg(x)].dims \in Seq(Nat)
      BY <3>1 DEF IsFunction, IsList
    <3> QED
      BY <3>3, <3>4
  <2>2. CASE ~ \E i \in DOMAIN f.args : f.args[i].name = x
    <3>1. x \in DOMAIN f.globals /\ loc[x] = f.globals[x]
      BY <2>2
    <3>2. f.globals[x].seg = "global" /\ f.globals[x].dims \in Seq(Nat)
      BY <3>1 DEF IsFunction
    <3> QED
      BY <3>1, <3>2
  <2> QED
    BY <2>1, <2>2
<1>2. DOMAIN loc = D
  OBVIOUS
<1> HIDE DEF loc, D
<1>3. /\ env = [type |-> env.type, params |-> env.params, loc |-> env.loc]
      /\ env.loc = loc /\ env.params = Len(f.args)
  OBVIOUS
<1>4. EnvOK(env)
  <2>1. Len(f.args) \in Nat
    BY DEF IsFunction, IsList
  <2> HIDE DEF env
  <2> QED
    BY <1>1, <1>2, <1>3, <2>1 DEF EnvOK
<1>5. GenFunction(f) = GenBlock(f.body, 0, env, 1) \o Label(LR)
  BY DEF GenFunction, LR, loc, D
<1> HIDE DEF env
<1>6. IsBlock(f.body)
  BY WellFormed DEF IsFunction, IsStmt
<1>7. FreeFrom(1, {}, {LR})
  BY DEF FreeFrom, LR
<1>8. Legal(GenBlock(f.body, 0, env, 1), St({}, {}, {0}, {LR}, {LR}), St({}, {}, {}, {LR}, {LR}))
  BY <1>4, <1>6, <1>7, LegalBlock
<1>9. Legal(Label(LR), St({}, {}, {}, {LR}, {LR}), St({}, {}, {}, {}, {LR}))
  <2>1. LR \notin {} /\ LR[1] \notin DataKinds /\ {} \cup {LR} = {LR}
    BY DEF LR, DataKinds
  <2>2. Legal(Label(LR), St({}, {}, {}, {} \cup {LR}, {LR}), St({}, {}, {}, {}, {LR}))
    BY <2>1, LegalLabel
  <2> QED
    BY <2>1, <2>2
<1> QED
  BY <1>5, <1>8, <1>9, LegalCat

-----------------------------------------------------------------------------
(* Labels.  A label is open in the code c while its number ls[v] has no    *)
(* place in c.                                                             *)
Uses(f) == f \in {"b", "literal"}
(* f is a label in the text or in the data.                                *)
Places(f) == f \in {"label", "data"}
(* Where the code c has its labels.                                        *)
PlacesIn(c) == {k \in DOMAIN c : Places(c[k].f)}
(* The labels that have a number and no place in c.                        *)
Open(c, ls) == {v \in DOMAIN ls : \A k \in PlacesIn(c) : c[k].a # ls[v]}

(* Numbers are given to one label each and count up, a label of data is    *)
(* placed as data and no other is, and what a branch or a literal names    *)
(* has been placed or is open.                                             *)
IsData(v) == v[1] \in DataKinds

(* The label that the instruction i names has a place of its kind, or will *)
(* have.                                                                   *)
Target(c, ls, i) ==
  \/ \E j \in PlacesIn(c) : c[j].a = i.a /\ (c[j].f = "data" <=> i.f = "literal")
  \/ \E v \in Open(c, ls) : ls[v] = i.a /\ (IsData(v) <=> i.f = "literal")

(* What is said above, of the code c, the numbers ls and the next number   *)
(* n.                                                                      *)
LabelsOK(c, ls, n) ==
  /\ n \in Int
  /\ \A v \in DOMAIN ls : ls[v] \in Int /\ ls[v] < n
  /\ \A v, w \in DOMAIN ls : ls[v] = ls[w] => v = w
  /\ \A k \in PlacesIn(c) : c[k].a \in Int /\ c[k].a < n
  /\ \A k, j \in PlacesIn(c) : c[k].a = c[j].a => k = j
  /\ \A v \in DOMAIN ls : \A k \in PlacesIn(c) :
       c[k].a = ls[v] => (c[k].f = "data" <=> IsData(v))
  /\ \A k \in DOMAIN c : Uses(c[k].f) => Target(c, ls, c[k])

(* No instruction has a NULL for a register.  *)
Named(i) == i.d # NULL /\ \A j \in DOMAIN i.s : i.s[j] # NULL
(* The same of a piece of code.                                            *)
NamesOK(c) == \A k \in DOMAIN c : Named(c[k])

(* The indices of a script.                                                *)
LEMMA ScriptDomain ==
  ASSUME NEW s, Script(s)
  PROVE  Len(s) \in Nat /\ DOMAIN s = 1 .. Len(s)
BY DEF Script

(* Code printed behind other code.                                         *)
LEMMA CodeCat ==
  ASSUME NEW c, NEW e, Script(c), Script(e)
  PROVE  /\ Script(c \o e)
         /\ \A k \in DOMAIN c : k \in DOMAIN (c \o e) /\ (c \o e)[k] = c[k]
         /\ \A k \in DOMAIN (c \o e) :
              k \in DOMAIN c \/ \E j \in DOMAIN e : (c \o e)[k] = e[j]
         /\ NamesOK(c) /\ NamesOK(e) => NamesOK(c \o e)
<1>1. /\ Script(c \o e) /\ Len(c) \in Nat /\ Len(e) \in Nat
      /\ DOMAIN c = 1 .. Len(c) /\ DOMAIN e = 1 .. Len(e)
      /\ Len(c \o e) = Len(c) + Len(e)
      /\ DOMAIN (c \o e) = 1 .. Len(c) + Len(e)
      /\ \A k \in 1 .. Len(c) : (c \o e)[k] = c[k]
      /\ \A k \in 1 .. Len(e) : (c \o e)[Len(c) + k] = e[k]
  BY ScriptCat, ScriptDomain
<1>2. ASSUME NEW k \in DOMAIN (c \o e)
      PROVE  k \in DOMAIN c \/ \E j \in DOMAIN e : (c \o e)[k] = e[j]
  <2>1. CASE k <= Len(c)
    BY <1>1, <2>1
  <2>2. CASE k > Len(c)
    <3>1. k - Len(c) \in 1 .. Len(e) /\ Len(c) + (k - Len(c)) = k
      BY <1>1, <2>2
    <3>2. (c \o e)[Len(c) + (k - Len(c))] = e[k - Len(c)]
      BY <1>1, <3>1
    <3> QED
      BY <1>1, <3>1, <3>2
  <2> QED
    BY <1>1, <2>1, <2>2
<1>3. \A k \in DOMAIN c : k \in DOMAIN (c \o e) /\ (c \o e)[k] = c[k]
  BY <1>1
<1>4. NamesOK(c) /\ NamesOK(e) => NamesOK(c \o e)
  BY <1>2, <1>3 DEF NamesOK
<1> QED
  BY <1>1, <1>2, <1>3, <1>4

(* Instructions that have nothing to do with labels.  *)
LEMMA PlainCode ==
  ASSUME NEW c, NEW e, Script(c), Script(e),
         \A k \in DOMAIN e : ~ Uses(e[k].f) /\ ~ Places(e[k].f)
  PROVE  /\ PlacesIn(c \o e) = PlacesIn(c)
         /\ \A ls : Open(c \o e, ls) = Open(c, ls)
         /\ \A ls, n : LabelsOK(c, ls, n) => LabelsOK(c \o e, ls, n)
<1>1. PICK d : d = c \o e
  OBVIOUS
<1>2. /\ \A k \in DOMAIN c : k \in DOMAIN d /\ d[k] = c[k]
      /\ \A k \in DOMAIN d : k \in DOMAIN c \/ \E j \in DOMAIN e : d[k] = e[j]
  BY <1>1, CodeCat
<1>3. /\ PlacesIn(d) = PlacesIn(c)
      /\ \A k \in PlacesIn(c) : k \in DOMAIN c /\ d[k] = c[k]
  BY <1>2 DEF PlacesIn
<1>4. \A ls : Open(d, ls) = Open(c, ls)
  BY <1>3 DEF Open
<1>5. ASSUME NEW ls, NEW n, LabelsOK(c, ls, n)
      PROVE  LabelsOK(d, ls, n)
  <2>1. ASSUME NEW k \in DOMAIN d, Uses(d[k].f)
        PROVE  Target(d, ls, d[k])
    <3>1. k \in DOMAIN c /\ d[k] = c[k]
      BY <1>2, <2>1
    <3>2. Target(c, ls, c[k])
      BY <1>5, <2>1, <3>1 DEF LabelsOK
    <3>3. CASE \E j \in PlacesIn(c) : c[j].a = c[k].a /\ (c[j].f = "data" <=> c[k].f = "literal")
      BY <1>3, <3>1, <3>3 DEF Target
    <3>4. CASE \E v \in Open(c, ls) : ls[v] = c[k].a /\ (IsData(v) <=> c[k].f = "literal")
      BY <1>4, <3>1, <3>4 DEF Target
    <3> QED
      BY <3>2, <3>3, <3>4 DEF Target
  <2> QED
    BY <1>3, <1>5, <2>1 DEF LabelsOK
<1> QED
  BY <1>1, <1>3, <1>4, <1>5

(* A branch or a literal to a label that has a number.  *)
LEMMA UseCode ==
  ASSUME NEW c, Script(c), NEW ls, NEW n, LabelsOK(c, ls, n), NEW i, Uses(i.f),
         NEW v \in DOMAIN ls, i.a = ls[v], IsData(v) <=> i.f = "literal"
  PROVE  /\ Open(c \o <<i>>, ls) = Open(c, ls)
         /\ LabelsOK(c \o <<i>>, ls, n)
<1>1. PICK d : d = c \o <<i>>
  OBVIOUS
<1>2. /\ \A k \in DOMAIN c : k \in DOMAIN d /\ d[k] = c[k]
      /\ \A k \in DOMAIN d : k \in DOMAIN c \/ d[k] = i
  <2>1. Script(<<i>>) /\ \A j \in DOMAIN <<i>> : <<i>>[j] = i
    <3>1. <<i>> \in Seq({i}) /\ DOMAIN <<i>> = {1} /\ <<i>>[1] = i
      OBVIOUS
    <3>2. Script(<<i>>)
      BY <3>1 DEF Script
    <3> QED
      BY <3>1, <3>2
  <2> QED
    BY <1>1, <2>1, CodeCat
<1>3. /\ PlacesIn(d) = PlacesIn(c)
      /\ \A k \in PlacesIn(c) : k \in DOMAIN c /\ d[k] = c[k]
  BY <1>2 DEF PlacesIn, Uses, Places
<1>4. Open(d, ls) = Open(c, ls)
  BY <1>3 DEF Open
<1>5. Target(d, ls, i)
  <2>1. CASE v \in Open(c, ls)
    BY <1>4, <2>1 DEF Target
  <2>2. CASE v \notin Open(c, ls)
    <3>1. PICK j \in PlacesIn(c) : c[j].a = ls[v]
      BY <2>2 DEF Open
    <3>2. c[j].f = "data" <=> IsData(v)
      BY <3>1 DEF LabelsOK
    <3> QED
      BY <1>3, <3>1, <3>2 DEF Target
  <2> QED
    BY <2>1, <2>2
<1>6. ASSUME NEW k \in DOMAIN d, Uses(d[k].f)
      PROVE  Target(d, ls, d[k])
  <2>1. CASE k \in DOMAIN c
    <3>1. d[k] = c[k] /\ Target(c, ls, c[k])
      BY <1>2, <1>6, <2>1 DEF LabelsOK
    <3> QED
      BY <1>3, <1>4, <3>1 DEF Target
  <2>2. CASE d[k] = i
    BY <1>5, <2>2
  <2> QED
    BY <1>2, <2>1, <2>2
<1>7. LabelsOK(d, ls, n)
  BY <1>3, <1>6 DEF LabelsOK
<1> QED
  BY <1>1, <1>4, <1>7

(* The place of an open label.  *)
LEMMA PlaceCode ==
  ASSUME NEW c, Script(c), NEW ls, NEW n, LabelsOK(c, ls, n), NEW i, Places(i.f),
         NEW v \in Open(c, ls), i.a = ls[v], IsData(v) <=> i.f = "data"
  PROVE  /\ Open(c \o <<i>>, ls) = Open(c, ls) \ {v}
         /\ LabelsOK(c \o <<i>>, ls, n)
<1>1. PICK d : d = c \o <<i>>
  OBVIOUS
<1>2. PICK m : m = Len(c) + 1
  OBVIOUS
<1>3. /\ \A k \in DOMAIN c : k \in DOMAIN d /\ d[k] = c[k] /\ k # m
      /\ m \in DOMAIN d /\ d[m] = i
      /\ \A k \in DOMAIN d : k \in DOMAIN c \/ k = m
  <2>1. Script(<<i>>) /\ Len(<<i>>) = 1 /\ <<i>>[1] = i
    <3>1. <<i>> \in Seq({i})
      OBVIOUS
    <3> QED
      BY <3>1 DEF Script
  <2>2. /\ Script(d) /\ Len(c) \in Nat /\ Len(d) = Len(c) + 1
        /\ \A k \in 1 .. Len(c) : d[k] = c[k]
        /\ \A k \in 1 .. 1 : d[Len(c) + k] = <<i>>[k]
    BY <1>1, <2>1, ScriptCat
  <2>3. DOMAIN c = 1 .. Len(c) /\ DOMAIN d = 1 .. Len(d)
    BY <2>2, ScriptDomain
  <2> QED
    BY <1>2, <2>1, <2>2, <2>3
<1>4. /\ PlacesIn(d) = PlacesIn(c) \cup {m}
      /\ \A k \in PlacesIn(c) : k \in DOMAIN c /\ d[k] = c[k]
  BY <1>3 DEF PlacesIn
<1>5. /\ v \in DOMAIN ls /\ ls[v] \in Int /\ ls[v] < n
      /\ \A w \in DOMAIN ls : ls[w] = ls[v] => w = v
      /\ \A k \in PlacesIn(c) : c[k].a # ls[v]
  BY DEF LabelsOK, Open
<1>6. Open(d, ls) = Open(c, ls) \ {v}
  BY <1>3, <1>4, <1>5 DEF Open
<1>7. ASSUME NEW k \in DOMAIN d, Uses(d[k].f)
      PROVE  Target(d, ls, d[k])
  <2>1. k \in DOMAIN c /\ d[k] = c[k] /\ Target(c, ls, c[k])
    BY <1>3, <1>7 DEF LabelsOK, Uses, Places
  <2>2. CASE \E j \in PlacesIn(c) : c[j].a = c[k].a /\ (c[j].f = "data" <=> c[k].f = "literal")
    BY <1>4, <2>1, <2>2 DEF Target
  <2>3. CASE \E w \in Open(c, ls) : ls[w] = c[k].a /\ (IsData(w) <=> c[k].f = "literal")
    <3>1. PICK w \in Open(c, ls) : ls[w] = c[k].a /\ (IsData(w) <=> c[k].f = "literal")
      BY <2>3
    <3>2. CASE w = v
      BY <1>3, <1>4, <2>1, <3>1, <3>2 DEF Target
    <3>3. CASE w # v
      BY <1>6, <2>1, <3>1, <3>3 DEF Target
    <3> QED
      BY <3>2, <3>3
  <2> QED
    BY <2>1, <2>2, <2>3 DEF Target
<1>8. \A k, j \in PlacesIn(d) : d[k].a = d[j].a => k = j
  BY <1>3, <1>4, <1>5 DEF LabelsOK
<1>9. \A w \in DOMAIN ls : \A k \in PlacesIn(d) : d[k].a = ls[w] => (d[k].f = "data" <=> IsData(w))
  BY <1>3, <1>4, <1>5 DEF LabelsOK
<1>10. LabelsOK(d, ls, n)
  BY <1>3, <1>4, <1>5, <1>7, <1>8, <1>9 DEF LabelsOK
<1> QED
  BY <1>1, <1>6, <1>10

(* A new number for a label that is not open.  *)
LEMMA NewLabel ==
  ASSUME NEW c, NEW ls, NEW n, LabelsOK(c, ls, n), NEW v, v \notin Open(c, ls), NEW ms,
         ms = [l \in DOMAIN ls \cup {v} |-> IF l = v THEN n ELSE ls[l]]
  PROVE  /\ Open(c, ms) = Open(c, ls) \cup {v}
         /\ LabelsOK(c, ms, n + 1)
<1>1. /\ DOMAIN ms = DOMAIN ls \cup {v} /\ ms[v] = n
      /\ \A w \in DOMAIN ls : w # v => ms[w] = ls[w]
  OBVIOUS
<1>2. /\ n \in Int /\ \A k \in PlacesIn(c) : c[k].a # n
      /\ \A w \in DOMAIN ls : ls[w] # n
  BY DEF LabelsOK
<1>3. Open(c, ms) = Open(c, ls) \cup {v}
  BY <1>1, <1>2 DEF Open
<1>4. ASSUME NEW k \in DOMAIN c, Uses(c[k].f)
      PROVE  Target(c, ms, c[k])
  <2>1. Target(c, ls, c[k])
    BY <1>4 DEF LabelsOK
  <2>2. CASE \E w \in Open(c, ls) : ls[w] = c[k].a /\ (IsData(w) <=> c[k].f = "literal")
    <3>1. PICK w \in Open(c, ls) : ls[w] = c[k].a /\ (IsData(w) <=> c[k].f = "literal")
      BY <2>2
    <3>2. w # v /\ w \in DOMAIN ls
      BY <3>1 DEF Open
    <3> QED
      BY <1>1, <1>3, <3>1, <3>2 DEF Target
  <2> QED
    BY <2>1, <2>2 DEF Target
<1>5. \A w, x \in DOMAIN ms : ms[w] = ms[x] => w = x
  BY <1>1, <1>2 DEF LabelsOK
<1>6. \A w \in DOMAIN ms : ms[w] \in Int /\ ms[w] < n + 1
  <2> TAKE w \in DOMAIN ms
  <2>1. CASE w = v
    BY <1>1, <1>2, <2>1
  <2>2. CASE w # v
    <3>1. ls[w] \in Int /\ ls[w] < n /\ ms[w] = ls[w]
      BY <1>1, <2>2 DEF LabelsOK
    <3> QED
      BY <1>2, <3>1
  <2> QED
    BY <2>1, <2>2
<1>7. \A k \in PlacesIn(c) : c[k].a \in Int /\ c[k].a < n + 1
  <2> TAKE k \in PlacesIn(c)
  <2>1. c[k].a \in Int /\ c[k].a < n
    BY DEF LabelsOK
  <2> QED
    BY <1>2, <2>1
<1>8. \A w \in DOMAIN ms : \A k \in PlacesIn(c) : c[k].a = ms[w] => (c[k].f = "data" <=> IsData(w))
  BY <1>1, <1>2 DEF LabelsOK
<1>9. \A k, j \in PlacesIn(c) : c[k].a = c[j].a => k = j
  BY DEF LabelsOK
<1>10. n + 1 \in Int
  BY <1>2
<1> QED
  BY <1>3, <1>4, <1>5, <1>6, <1>7, <1>8, <1>9, <1>10 DEF LabelsOK

-----------------------------------------------------------------------------
(* The pool.  What RegPoolProofs shows of register.c holds under the code  *)
(* generator, as long as it does what RegPool!Next allows.                 *)
Proofs == INSTANCE RegPoolProofs WITH
            Val <- {0},
            rv <- [r \in Reg |-> 0],
            mem <- [d \in {Slot(k) : k \in 0 .. Spilled - 1} |-> 0],
            sp <- offset

(* The inductive invariant of the pool, without the machine.  *)
Typed ==
  /\ list \in [Index -> Reg]
  /\ top \in Nat
  /\ spillMax \in Nat \ {0}
  /\ spill \in [0 .. spillMax - 1 -> Tmp \cup {NULL}]
  /\ lockCnt \in Nat
  /\ regTmp \in [Reg -> Tmp \cup {NULL}]
  /\ regLock \in [Reg -> BOOLEAN]
  /\ live \subseteq Tmp
  /\ tmpReg \in [Tmp -> Reg \cup {NULL}]
  /\ tmpAddr \in [Tmp -> Nat]
  /\ frame \in Nat
  /\ offset \in Nat
  /\ held \in [Tmp -> Reg \cup {NULL}]

(* What RegPool keeps, with the depth of the stack pointer the compiler    *)
(* assumes.                                                                *)
Book ==
  /\ Typed
  /\ RegistersInUseFirst
  /\ SpillSlotsContiguous
  /\ offset = frame + RegSize * Spilled
  /\ LockCountExact
  /\ HeldNameValid

(* The assumption on the constants of the pool without the machine.  *)
LEMMA ShadowAssumption ==
  /\ Num \in Nat \ {0} /\ LockMax \in Nat /\ LockMax <= Num
  /\ SpillMax \in Nat \ {0} /\ {0} # {}
  /\ Frames \subseteq Nat /\ Frames # {}
  /\ NULL \notin Tmp /\ NULL \notin Int
BY PoolAssumption

(* Slots of the stack have addresses that are numbers.                     *)
LEMMA SlotNat ==
  ASSUME frame \in Nat
  PROVE  {Slot(k) : k \in 0 .. Spilled - 1} \subseteq Nat
BY DEF Slot, RegSize

(* The module of finite sets is instantiated with the others.  *)
LEMMA SameCardinality ==
  ASSUME NEW A
  PROVE  Proofs!Cardinality(A) = Cardinality(A)
BY DEF Proofs!Cardinality, Cardinality

(* The invariant of the pool is the one RegPoolProofs shows inductive.     *)
LEMMA BookOfProofs == Book <=> Proofs!PoolInv
<1>1. Proofs!RegistersInUseFirst <=> RegistersInUseFirst
  BY DEF Proofs!RegistersInUseFirst, RegistersInUseFirst, Proofs!Index, Index, Proofs!Reg, Reg
<1>2. Proofs!SpillSlotsContiguous <=> SpillSlotsContiguous
  BY DEF Proofs!SpillSlotsContiguous, SpillSlotsContiguous, Proofs!Spilled, Spilled,
         Proofs!Slot, Slot, Proofs!RegSize, RegSize
<1>3. Proofs!LockCountExact <=> LockCountExact
  <2>1. Proofs!Cardinality({r \in Reg : regLock[r]}) = Cardinality({r \in Reg : regLock[r]})
    BY SameCardinality
  <2> QED
    BY <2>1 DEF Proofs!LockCountExact, LockCountExact, Proofs!Index, Index, Proofs!Reg, Reg
<1>4. Proofs!HeldNameValid <=> HeldNameValid
  BY DEF Proofs!HeldNameValid, HeldNameValid
<1>5. Proofs!StackInStep <=> offset = frame + RegSize * Spilled
  BY DEF Proofs!StackInStep, Proofs!Spilled, Spilled, Proofs!Slot, Slot, Proofs!RegSize, RegSize
<1>6. Proofs!TypeOK <=> Typed
  <2>1. frame \in Nat => {Slot(k) : k \in 0 .. Spilled - 1} \subseteq Nat
    BY SlotNat
  <2> DEFINE D == {Slot(k) : k \in 0 .. Spilled - 1}
             m == [d \in D |-> 0]
  <2>2. DOMAIN m = D /\ \A d \in DOMAIN m : m[d] \in {0}
    OBVIOUS
  <2>3. frame \in Nat => DOMAIN m \subseteq Nat
    BY <2>1, <2>2
  <2>4. [r \in Reg |-> 0] \in [Reg -> {0}]
    OBVIOUS
  <2>5. Proofs!TypeOK <=> Typed /\ DOMAIN m \subseteq Nat
    <3> HIDE DEF D
    <3>1. Proofs!Index = Index /\ Proofs!Reg = Reg
      BY DEF Proofs!Index, Index, Proofs!Reg, Reg
    <3> QED
      BY <2>2, <2>4, <3>1 DEF Proofs!TypeOK, Typed, D
  <2> QED
    BY <2>3, <2>5 DEF Typed
<1> QED
  BY <1>1, <1>2, <1>3, <1>4, <1>5, <1>6 DEF Book, Proofs!PoolInv

(* The pool of the statement and that of the proofs are the same.          *)
LEMMA SamePool ==
  /\ Pool!Next <=> Proofs!Next
  /\ Pool!vars = Proofs!vars
<1>1. Pool!vars = Proofs!vars
  BY DEF Pool!vars, Proofs!vars
<1>2. \A f : Pool!EnterFrame(f) <=> Proofs!EnterFrame(f)
  BY DEF Pool!EnterFrame, Proofs!EnterFrame
<1>3. \A t : Pool!Alloc(t) <=> Proofs!Alloc(t)
  BY DEF Pool!Alloc, Proofs!Alloc, Pool!AllocRegBook, Proofs!AllocRegBook,
         Pool!AllocStackBook, Proofs!AllocStackBook, Pool!AllocStackCode,
         Proofs!AllocStackCode, Pool!machine, Proofs!machine, Pool!GrowSpill,
         Proofs!GrowSpill, Pool!RegSize, Proofs!RegSize
<1>4. \A t : Pool!Lock(t) <=> Proofs!Lock(t)
  <2> TAKE t
  <2>1. Pool!FirstUnlocked = Proofs!FirstUnlocked /\ Pool!SpillIndex(t) = Proofs!SpillIndex(t)
    BY DEF Pool!FirstUnlocked, Proofs!FirstUnlocked, Pool!FirstOf, Proofs!FirstOf,
           Pool!Index, Proofs!Index, Pool!SpillIndex, Proofs!SpillIndex, Pool!Spilled,
           Proofs!Spilled
  <2>2. Pool!LockFull(t) <=> Proofs!LockFull(t)
    BY DEF Pool!LockFull, Proofs!LockFull, Pool!book, Proofs!book, Pool!machine, Proofs!machine
  <2>3. Pool!LockInRegBook(t) <=> Proofs!LockInRegBook(t)
    BY DEF Pool!LockInRegBook, Proofs!LockInRegBook
  <2>4. Pool!LockSwapBook(t) <=> Proofs!LockSwapBook(t)
    BY <2>1 DEF Pool!LockSwapBook, Proofs!LockSwapBook
  <2>5. Pool!LockSwapCode(t) <=> Proofs!LockSwapCode(t)
    BY <2>1 DEF Pool!LockSwapCode, Proofs!LockSwapCode
  <2>6. Pool!machine = Proofs!machine
    BY DEF Pool!machine, Proofs!machine
  <2> QED
    BY <2>2, <2>3, <2>4, <2>5, <2>6 DEF Pool!Lock, Proofs!Lock, Pool!machine, Proofs!machine
<1>5. \A t : Pool!Unlock(t) <=> Proofs!Unlock(t)
  BY DEF Pool!Unlock, Proofs!Unlock, Pool!UnlockBook, Proofs!UnlockBook,
         Pool!machine, Proofs!machine
<1>6. \A t : Pool!Free(t) <=> Proofs!Free(t)
  <2> TAKE t
  <2>1. Pool!RegIndex(t) = Proofs!RegIndex(t) /\ Pool!SpillIndex(t) = Proofs!SpillIndex(t)
    BY DEF Pool!RegIndex, Proofs!RegIndex, Pool!FirstOf, Proofs!FirstOf,
           Pool!Index, Proofs!Index, Pool!SpillIndex, Proofs!SpillIndex, Pool!Spilled,
           Proofs!Spilled
  <2>2. Pool!FreeRegBook(t) <=> Proofs!FreeRegBook(t)
    BY <2>1 DEF Pool!FreeRegBook, Proofs!FreeRegBook
  <2>3. Pool!FreeRegLoadBook(t) <=> Proofs!FreeRegLoadBook(t)
    BY <2>1 DEF Pool!FreeRegLoadBook, Proofs!FreeRegLoadBook, Pool!RegSize, Proofs!RegSize
  <2>4. Pool!FreeRegLoadCode(t) <=> Proofs!FreeRegLoadCode(t)
    BY DEF Pool!FreeRegLoadCode, Proofs!FreeRegLoadCode, Pool!RegSize, Proofs!RegSize
  <2>5. Pool!FreeSlotBook(t) <=> Proofs!FreeSlotBook(t)
    BY <2>1 DEF Pool!FreeSlotBook, Proofs!FreeSlotBook, Pool!RegSize, Proofs!RegSize
  <2>6. Pool!FreeSlotCode(t) <=> Proofs!FreeSlotCode(t)
    BY <2>1 DEF Pool!FreeSlotCode, Proofs!FreeSlotCode, Pool!RegSize, Proofs!RegSize
  <2>7. Pool!Unlocked(t) <=> Proofs!Unlocked(t)
    BY DEF Pool!Unlocked, Proofs!Unlocked
  <2> QED
    BY <2>2, <2>3, <2>4, <2>5, <2>6, <2>7 DEF Pool!Free, Proofs!Free, Pool!machine, Proofs!machine
<1>7. \A t, v : Pool!Write(t, v) <=> Proofs!Write(t, v)
  BY DEF Pool!Write, Proofs!Write, Pool!book, Proofs!book
<1> QED
  BY <1>1, <1>2, <1>3, <1>4, <1>5, <1>6, <1>7 DEF Pool!Next, Proofs!Next

(* What the callers of register.c do as they may keeps its invariant.  *)
LEMMA KeepsBook ==
  ASSUME Book, Pool!Next \/ UNCHANGED Pool!vars
  PROVE  Book'
<1>1. Proofs!PoolInv
  BY BookOfProofs
<1>2. [Proofs!Next]_(Proofs!vars)
  BY SamePool DEF Pool!vars, Proofs!vars
<1>3. (Proofs!PoolInv)'
  BY <1>1, <1>2, ShadowAssumption, Proofs!StepInv
<1>4. (Book <=> Proofs!PoolInv)'
  BY BookOfProofs, PTL
<1> QED
  BY <1>3, <1>4

(* The searches of register.c, under the code generator.  *)
LEMMA Searches ==
  ASSUME Book
  PROVE  /\ \A t \in live : tmpReg[t] # NULL =>
              /\ RegIndex(t) \in Index /\ RegIndex(t) < top
              /\ list[RegIndex(t)] = tmpReg[t]
         /\ \A t \in live : tmpReg[t] = NULL =>
              /\ top > Num /\ RegIndex(t) = Num
              /\ SpillIndex(t) \in 0 .. Spilled - 1 /\ spill[SpillIndex(t)] = t
         /\ lockCnt < LockMax => FirstUnlocked \in Index /\ ~ regLock[list[FirstUnlocked]]
<1>1. Proofs!BookInv
  BY BookOfProofs, ShadowAssumption, Proofs!BookOfPool
<1>2. /\ Proofs!Index = Index /\ Proofs!Spilled = Spilled
      /\ Proofs!FirstUnlocked = FirstUnlocked
      /\ \A t : Proofs!RegIndex(t) = RegIndex(t) /\ Proofs!SpillIndex(t) = SpillIndex(t)
  BY DEF Proofs!Index, Index, Proofs!Spilled, Spilled, Proofs!FirstUnlocked, FirstUnlocked,
         Proofs!FirstOf, FirstOf, Proofs!RegIndex, RegIndex, Proofs!SpillIndex, SpillIndex
<1>3. ASSUME NEW t \in live, tmpReg[t] # NULL
      PROVE  /\ Proofs!RegIndex(t) \in Proofs!Index /\ Proofs!RegIndex(t) < top
             /\ list[Proofs!RegIndex(t)] = tmpReg[t]
  BY <1>1, <1>3, ShadowAssumption, Proofs!RegIndexFound
<1>4. ASSUME NEW t \in live, tmpReg[t] = NULL
      PROVE  /\ top > Num /\ Proofs!RegIndex(t) = Num
             /\ Proofs!SpillIndex(t) \in 0 .. Proofs!Spilled - 1
             /\ spill[Proofs!SpillIndex(t)] = t
  BY <1>1, <1>4, ShadowAssumption, Proofs!SpillIndexFound
<1>5. ASSUME lockCnt < LockMax
      PROVE  Proofs!FirstUnlocked \in Proofs!Index /\ ~ regLock[list[Proofs!FirstUnlocked]]
  BY <1>1, <1>5, ShadowAssumption, Proofs!FirstUnlockedFound
<1> QED
  BY <1>2, <1>3, <1>4, <1>5

(* Who has locked a temporary still has its name.  *)
LockedHeld == \A r \in Reg : regLock[r] => \E t \in live : held[t] = r

(* The temporaries whose register name the code generator holds.           *)
HeldNow == {t \in Tmp : held[t] # NULL}

(* At most two locks are held: a third is granted.  *)
LEMMA LockFree ==
  ASSUME Book, LockedHeld, NEW x, NEW y, HeldNow \subseteq {x, y}
  PROVE  lockCnt < LockMax
<1> DEFINE L == {r \in Reg : regLock[r]}
<1>1. PICK p : p = held[x]
  OBVIOUS
<1>2. PICK q : q = held[y]
  OBVIOUS
<1>3. ASSUME NEW r \in L
      PROVE  r = p \/ r = q
  <2>1. PICK t \in live : held[t] = r
    BY DEF LockedHeld
  <2>2. t \in HeldNow
    BY <2>1, PoolAssumption DEF HeldNow, Book, Typed, Reg, Index
  <2> QED
    BY <1>1, <1>2, <2>1, <2>2
<1>4. L \in SUBSET Reg
  OBVIOUS
<1> HIDE DEF L
<1>5. IsFiniteSet({p, q}) /\ Cardinality({p, q}) <= 2 /\ Cardinality({p, q}) \in Nat
  <2>1. IsFiniteSet({}) /\ Cardinality({}) = 0
    BY FS_EmptySet
  <2>2. IsFiniteSet({p}) /\ Cardinality({p}) = 1
    BY FS_Singleton
  <2>3. {p} \cup {q} = {p, q}
    OBVIOUS
  <2>4. IsFiniteSet({p, q}) /\ (Cardinality({p, q}) = 1 \/ Cardinality({p, q}) = 2)
    <3>1. IsFiniteSet({p} \cup {q}) /\ Cardinality({p} \cup {q}) = (IF q \in {p} THEN 1 ELSE 1 + 1)
      BY <2>2, FS_AddElement
    <3> QED
      BY <2>3, <3>1
  <2> QED
    BY <2>4
<1>6. Cardinality(L) <= Cardinality({p, q})
  <2>1. L \subseteq {p, q}
    BY <1>3
  <2> QED
    BY <1>5, <2>1, FS_Subset
<1>7. Cardinality(L) = lockCnt /\ lockCnt \in Nat
  BY DEF L, Book, Typed, LockCountExact
<1> QED
  BY <1>5, <1>6, <1>7, CompilerAssumption, PoolAssumption

(* Nothing is held: nothing is locked.  *)
LEMMA Unheld ==
  ASSUME Book, LockedHeld, HeldNow = {}
  PROVE  lockCnt = 0 /\ \A r \in Reg : ~ regLock[r]
<1>1. \A r \in Reg : ~ regLock[r]
  BY PoolAssumption DEF LockedHeld, HeldNow, Book, Typed, Reg, Index
<1>2. {r \in Reg : regLock[r]} = {}
  BY <1>1
<1>3. lockCnt = 0
  BY <1>2, FS_EmptySet DEF Book, LockCountExact
<1> QED
  BY <1>1, <1>3

(* Nothing is allocated, or one temporary: nothing is spilled.  *)
LEMMA FewLive ==
  ASSUME Book
  PROVE  /\ live = {} => top = 0
         /\ \A x : live \subseteq {x} => top <= Num /\ offset = frame
<1>1. 0 \in Index /\ Num \in Nat \ {0}
  BY PoolAssumption DEF Index
<1>2. top \in Nat
  BY DEF Book, Typed
<1>3. top > 0 => regTmp[list[0]] \in live /\ tmpReg[regTmp[list[0]]] = list[0]
  BY <1>1, <1>2 DEF Book, RegistersInUseFirst
<1>4. ASSUME NEW x, live \subseteq {x}
      PROVE  top <= Num /\ offset = frame
  <2>1. top <= Num
    <3> SUFFICES ASSUME top > Num PROVE FALSE
      BY <1>1, <1>2
    <3>1. 0 \in 0 .. Spilled - 1
      BY <1>1, <1>2 DEF Spilled
    <3>2. spill[0] \in live /\ tmpReg[spill[0]] = NULL
      BY <3>1 DEF Book, SpillSlotsContiguous
    <3>3. list[0] # NULL
      BY <1>1, PoolAssumption DEF Book, Typed, Reg, Index
    <3> QED
      BY <1>1, <1>2, <1>3, <1>4, <3>2, <3>3
  <2>2. Spilled = 0
    BY <1>1, <1>2, <2>1 DEF Spilled
  <2> QED
    BY <2>1, <2>2 DEF Book, Typed, RegSize
<1> QED
  BY <1>1, <1>2, <1>3, <1>4

(* What the pool's actions owe each other and the code generator.  *)
LEMMA PoolAlloc ==
  ASSUME Book, LockedHeld, NEW t \in Tmp, t \notin live,
         AllocRegBook(t) \/ AllocStackBook(t), UNCHANGED held
  PROVE  /\ Pool!Next /\ LockedHeld' /\ HeldNow' = HeldNow
         /\ live' = live \cup {t} /\ frame' = frame
<1>1. HeldNow' = HeldNow
  BY DEF HeldNow
<1>2. Num \in Nat \ {0} /\ top \in Nat
  BY PoolAssumption DEF Book, Typed
<1>3. CASE AllocRegBook(t)
  <2>1. Pool!AllocRegBook(t)
    BY <1>3 DEF AllocRegBook, Pool!AllocRegBook
  <2>2. Spilled = 0 /\ Spilled' = 0
    BY <1>2, <1>3 DEF AllocRegBook, Spilled
  <2>3. UNCHANGED Pool!machine
    BY <1>3, <2>2 DEF AllocRegBook, Pool!machine, Slot
  <2>4. Pool!Alloc(t)
    BY <2>1, <2>3 DEF Pool!Alloc
  <2>5. LockedHeld'
    BY <1>3 DEF AllocRegBook, LockedHeld, Book, Typed
  <2> QED
    BY <1>1, <1>3, <2>4, <2>5 DEF AllocRegBook, Pool!Next
<1>4. CASE AllocStackBook(t)
  <2>1. Pool!AllocStackBook(t)
    BY <1>4 DEF AllocStackBook, Pool!AllocStackBook, GrowSpill, Pool!GrowSpill, RegSize, Pool!RegSize
  <2>2. Spilled' = Spilled + 1 /\ Spilled \in Nat
    BY <1>2, <1>4 DEF AllocStackBook, Spilled
  <2>3. offset' = Slot(Spilled) /\ frame \in Nat /\ offset' = offset + 4
    BY <1>4, <2>2 DEF AllocStackBook, Slot, RegSize, Book, Typed
  <2>4. {Slot(k) : k \in 0 .. Spilled - 1}' = {Slot(k) : k \in 0 .. Spilled - 1} \cup {offset'}
    <3>1. \A k : Slot(k)' = Slot(k)
      BY <1>4 DEF AllocStackBook, Slot
    <3>2. 0 .. Spilled' - 1 = (0 .. Spilled - 1) \cup {Spilled}
      BY <2>2
    <3> QED
      BY <2>3, <3>1, <3>2
  <2>5. Pool!AllocStackCode(0)
    <3> DEFINE D == {Slot(k) : k \in 0 .. Spilled - 1}
    <3> HIDE DEF D
    <3>1. D' = D \cup {offset'}
      BY <2>4 DEF D
    <3>2. [d \in D' |-> 0] = [d \in D \cup {offset'} |-> IF d = offset' THEN 0 ELSE [e \in D |-> 0][d]]
      BY <3>1
    <3> QED
      BY <2>3, <3>2 DEF Pool!AllocStackCode, Pool!RegSize, D
  <2>6. Pool!Alloc(t)
    BY <2>1, <2>5 DEF Pool!Alloc
  <2>7. LockedHeld'
    BY <1>4 DEF AllocStackBook, LockedHeld
  <2> QED
    BY <1>1, <1>4, <2>6, <2>7 DEF AllocStackBook, Pool!Next
<1> QED
  BY <1>3, <1>4

(* ccmmc_register_lock is a step of the pool, and locks.                   *)
LEMMA PoolLock ==
  ASSUME Book, LockedHeld, NEW t \in live, lockCnt < LockMax,
         LockInRegBook(t) \/ LockSwapBook(t), held' = [held EXCEPT ![t] = tmpReg'[t]]
  PROVE  /\ Pool!Next /\ LockedHeld' /\ HeldNow' = HeldNow \cup {t}
         /\ live' = live /\ frame' = frame
<1>1. t \in Tmp /\ NULL \notin Reg
  BY PoolAssumption DEF Book, Typed, Reg, Index
<1>2. CASE LockInRegBook(t)
  <2>1. tmpReg[t] \in Reg /\ tmpReg' = tmpReg
    BY <1>1, <1>2 DEF LockInRegBook, Book, Typed
  <2>2. Pool!LockInRegBook(t) /\ UNCHANGED Pool!machine
    <3>1. Spilled' = Spilled /\ (\A k : Slot(k)' = Slot(k)) /\ offset' = offset
      BY <1>2 DEF LockInRegBook, Spilled, Slot
    <3>2. UNCHANGED Pool!machine
      BY <3>1 DEF Pool!machine
    <3> QED
      BY <1>2, <3>2 DEF LockInRegBook, Pool!LockInRegBook
  <2>3. Pool!Lock(t)
    BY <2>2 DEF Pool!Lock
  <2>4. LockedHeld'
    <3>1. ASSUME NEW r \in Reg, regLock'[r]
          PROVE  \E u \in live' : held'[u] = r
      <4>1. CASE r = tmpReg[t]
        BY <1>1, <1>2, <2>1, <4>1 DEF LockInRegBook, Book, Typed
      <4>2. CASE r # tmpReg[t]
        <5>1. regLock[r]
          BY <1>2, <3>1, <4>2 DEF LockInRegBook, Book, Typed
        <5>2. PICK u \in live : held[u] = r
          BY <5>1 DEF LockedHeld
        <5>3. u # t
          BY <1>1, <4>2, <5>2 DEF Book, HeldNameValid, Typed
        <5> QED
          BY <1>1, <1>2, <5>2, <5>3 DEF LockInRegBook, Book, Typed
      <4> QED
        BY <4>1, <4>2
    <3> QED
      BY <3>1 DEF LockedHeld
  <2>5. HeldNow' = HeldNow \cup {t}
    BY <1>1, <2>1 DEF HeldNow, Book, Typed
  <2> QED
    BY <1>1, <1>2, <2>3, <2>4, <2>5 DEF LockInRegBook, Pool!Next
<1>3. CASE LockSwapBook(t)
  <2> DEFINE r0 == list[FirstUnlocked]
  <2>1. r0 \in Reg /\ ~ regLock[r0]
    BY Searches DEF Book, Typed
  <2> HIDE DEF r0
  <2>2. tmpReg'[t] = r0 /\ tmpReg[t] = NULL
    BY <1>1, <1>3 DEF LockSwapBook, r0, Book, Typed
  <2>3. held[t] = NULL
    BY <1>1, <2>2 DEF Book, HeldNameValid, Typed
  <2>4. Pool!LockSwapBook(t)
    BY <1>3 DEF LockSwapBook, Pool!LockSwapBook, FirstUnlocked, Pool!FirstUnlocked, FirstOf,
          Pool!FirstOf, Index, Pool!Index, SpillIndex, Pool!SpillIndex, Spilled, Pool!Spilled
  <2>5. Pool!LockSwapCode(t)
    <3>1. Spilled' = Spilled /\ (\A k : Slot(k)' = Slot(k)) /\ offset' = offset
      BY <1>3 DEF LockSwapBook, Spilled, Slot
    <3>2. Pool!FirstUnlocked = FirstUnlocked
      BY DEF FirstUnlocked, Pool!FirstUnlocked, FirstOf, Pool!FirstOf, Index, Pool!Index
    <3> DEFINE D == {Slot(k) : k \in 0 .. Spilled - 1}
    <3>3. tmpAddr[t] \in D
      <4>1. tmpReg[t] = NULL /\ SpillIndex(t) \in 0 .. Spilled - 1 /\ spill[SpillIndex(t)] = t
        BY <2>2, Searches
      <4> QED
        BY <4>1 DEF Book, SpillSlotsContiguous
    <3>4. D' = D
      BY <3>1
    <3> HIDE DEF D
    <3>5. [r \in Reg |-> 0] = [[r \in Reg |-> 0] EXCEPT ![r0] = [d \in D |-> 0][tmpAddr[t]]]
      BY <3>3
    <3>6. [d \in D' |-> 0] = [[d \in D |-> 0] EXCEPT ![tmpAddr[t]] = [r \in Reg |-> 0][r0]]
      BY <2>1, <3>4
    <3> QED
      BY <3>1, <3>2, <3>5, <3>6 DEF Pool!LockSwapCode, D, r0
  <2>6. Pool!Lock(t)
    BY <2>4, <2>5 DEF Pool!Lock
  <2>7. LockedHeld'
    <3>1. ASSUME NEW r \in Reg, regLock'[r]
          PROVE  \E u \in live' : held'[u] = r
      <4>1. CASE r = r0
        BY <1>1, <1>3, <2>2, <4>1 DEF LockSwapBook, Book, Typed
      <4>2. CASE r # r0
        <5>1. regLock[r]
          BY <1>3, <3>1, <4>2 DEF LockSwapBook, Book, Typed, r0
        <5>2. PICK u \in live : held[u] = r
          BY <5>1 DEF LockedHeld
        <5>3. u # t
          BY <1>1, <2>3, <5>2
        <5> QED
          BY <1>1, <1>3, <5>2, <5>3 DEF LockSwapBook, Book, Typed
      <4> QED
        BY <4>1, <4>2
    <3> QED
      BY <3>1 DEF LockedHeld
  <2>8. HeldNow' = HeldNow \cup {t}
    BY <1>1, <2>1, <2>2 DEF HeldNow, Book, Typed
  <2> QED
    BY <1>1, <1>3, <2>6, <2>7, <2>8 DEF LockSwapBook, Pool!Next
<1> QED
  BY <1>2, <1>3

(* ccmmc_register_unlock is a step of the pool, and unlocks.               *)
LEMMA PoolUnlock ==
  ASSUME Book, LockedHeld, NEW t \in live, UnlockBook(t), held' = [held EXCEPT ![t] = NULL]
  PROVE  /\ Pool!Next /\ LockedHeld' /\ HeldNow' = HeldNow \ {t}
         /\ live' = live /\ frame' = frame
<1>1. t \in Tmp /\ NULL \notin Reg
  BY PoolAssumption DEF Book, Typed, Reg, Index
<1>2. Pool!Unlock(t)
  <2>1. Pool!UnlockBook(t)
    BY DEF UnlockBook, Pool!UnlockBook
  <2>2. Spilled' = Spilled /\ (\A k : Slot(k)' = Slot(k)) /\ offset' = offset
    BY DEF UnlockBook, Spilled, Slot
  <2>3. UNCHANGED Pool!machine
    BY <2>2 DEF Pool!machine
  <2> QED
    BY <2>1, <2>3 DEF Pool!Unlock
<1>3. LockedHeld'
  <2>1. ASSUME NEW r \in Reg, regLock'[r]
        PROVE  \E u \in live' : held'[u] = r
    <3>1. regLock[r]
      BY <1>1, <2>1 DEF UnlockBook, Book, Typed
    <3>2. PICK u \in live : held[u] = r
      BY <3>1 DEF LockedHeld
    <3>3. u # t
      <4>1. SUFFICES ASSUME u = t PROVE FALSE
        OBVIOUS
      <4>2. tmpReg[t] = r /\ r # NULL
        BY <1>1, <3>2, <4>1 DEF Book, HeldNameValid, Typed
      <4> QED
        BY <2>1, <3>1, <4>2 DEF UnlockBook, Book, Typed
    <3> QED
      BY <1>1, <3>2, <3>3 DEF UnlockBook, Book, Typed
  <2> QED
    BY <2>1 DEF LockedHeld
<1>4. HeldNow' = HeldNow \ {t}
  BY <1>1 DEF HeldNow, Book, Typed
<1> QED
  BY <1>1, <1>2, <1>3, <1>4 DEF UnlockBook, Pool!Next

(* ccmmc_register_free is a step of the pool; if it loads a register, the  *)
(* temporary that goes had one.                                            *)
LEMMA PoolFree ==
  ASSUME Book, LockedHeld, NEW t \in live, HeldNow = {},
         FreeRegBook(t) \/ FreeRegLoadBook(t) \/ FreeSlotBook(t), UNCHANGED held
  PROVE  /\ Pool!Next /\ LockedHeld' /\ HeldNow' = HeldNow
         /\ live' = live \ {t} /\ frame' = frame
         /\ FreeRegLoadBook(t) => tmpReg[t] # NULL
<1>1. t \in Tmp /\ NULL \notin Reg /\ Num \in Nat \ {0} /\ top \in Nat
  BY PoolAssumption DEF Book, Typed, Reg, Index
<1>2. \A r \in Reg : ~ regLock[r]
  BY Unheld
<1>3. Pool!Unlocked(t)
  BY <1>1, <1>2 DEF Pool!Unlocked, Book, Typed
<1>4. held' = [held EXCEPT ![t] = NULL] /\ HeldNow' = HeldNow
  BY <1>1 DEF HeldNow, Book, Typed
<1>5. LockedHeld'
  <2>1. regLock' = regLock
    BY DEF FreeRegBook, FreeRegLoadBook, FreeSlotBook
  <2> QED
    BY <1>2, <2>1 DEF LockedHeld
<1>6. Pool!RegIndex(t) = RegIndex(t) /\ Pool!SpillIndex(t) = SpillIndex(t)
  BY DEF RegIndex, Pool!RegIndex, SpillIndex, Pool!SpillIndex, Spilled, Pool!Spilled,
         FirstOf, Pool!FirstOf, Index, Pool!Index
<1>7. tmpReg[t] = NULL => /\ top > Num /\ RegIndex(t) = Num
                          /\ SpillIndex(t) \in 0 .. Spilled - 1 /\ spill[SpillIndex(t)] = t
  BY Searches
<1>8. tmpReg[t] # NULL => RegIndex(t) \in Index /\ list[RegIndex(t)] = tmpReg[t]
  BY Searches
<1> DEFINE D == {Slot(k) : k \in 0 .. Spilled - 1}
(* The deepest slot goes.  *)
<1>9. ASSUME top > Num, top' = top - 1, frame' = frame, offset' = offset - RegSize
      PROVE  /\ D' = D \ {offset} /\ offset' = offset - 4
             /\ tmpAddr[spill[top - 1 - Num]] \in D
             /\ \A j \in 0 .. Spilled - 1 : tmpAddr[spill[j]] \in D
  <2>1. Spilled' = Spilled - 1 /\ Spilled \in Nat \ {0} /\ top - 1 - Num = Spilled - 1
    BY <1>1, <1>9 DEF Spilled
  <2>2. offset = Slot(Spilled - 1) /\ \A k : Slot(k)' = Slot(k)
    BY <1>9, <2>1 DEF Book, Typed, Slot, RegSize
  <2>3. D' = {Slot(k) : k \in 0 .. Spilled - 2}
    BY <2>1, <2>2
  <2>4. \A k \in 0 .. Spilled - 2 : Slot(k) # Slot(Spilled - 1)
    BY <2>1 DEF Slot, RegSize, Book, Typed
  <2>5. 0 .. Spilled - 1 = (0 .. Spilled - 2) \cup {Spilled - 1}
    BY <2>1
  <2>6. \A j \in 0 .. Spilled - 1 : tmpAddr[spill[j]] = Slot(j)
    BY DEF Book, SpillSlotsContiguous
  <2>7. offset' = offset - 4
    BY <1>9 DEF RegSize
  <2> QED
    BY <2>1, <2>2, <2>3, <2>4, <2>5, <2>6, <2>7
<1>10. CASE FreeRegBook(t)
  <2>1. Pool!FreeRegBook(t)
    BY <1>6, <1>10 DEF FreeRegBook, Pool!FreeRegBook
  <2>2. Spilled = 0 /\ Spilled' = 0
    BY <1>1, <1>10 DEF FreeRegBook, Spilled
  <2>3. UNCHANGED Pool!machine
    BY <1>10, <2>2 DEF FreeRegBook, Pool!machine, Slot
  <2>4. Pool!Free(t)
    BY <1>3, <1>4, <2>1, <2>3 DEF Pool!Free
  <2>5. ~ FreeRegLoadBook(t)
    BY <1>1, <1>10 DEF FreeRegBook, FreeRegLoadBook
  <2> QED
    BY <1>1, <1>4, <1>5, <1>10, <2>4, <2>5 DEF FreeRegBook, Pool!Next
<1>11. CASE FreeRegLoadBook(t)
  <2>1. Pool!FreeRegLoadBook(t)
    BY <1>6, <1>11 DEF FreeRegLoadBook, Pool!FreeRegLoadBook, RegSize, Pool!RegSize
  <2>2. tmpReg[t] # NULL
    BY <1>1, <1>7, <1>11 DEF FreeRegLoadBook
  <2>3. /\ D' = D \ {offset} /\ offset' = offset - 4
        /\ tmpAddr[spill[top - 1 - Num]] \in D
    BY <1>9, <1>11 DEF FreeRegLoadBook
  <2> HIDE DEF D
  <2>4. [r \in Reg |-> 0] = [[r \in Reg |-> 0] EXCEPT ![tmpReg[t]] = [d \in D |-> 0][tmpAddr[spill[top - 1 - Num]]]]
    BY <2>3
  <2>5. [d \in D' |-> 0] = [d \in D \ {offset} |-> [e \in D |-> 0][d]]
    BY <2>3
  <2>6. Pool!FreeRegLoadCode(t)
    BY <2>3, <2>4, <2>5 DEF Pool!FreeRegLoadCode, Pool!RegSize, D
  <2>7. Pool!Free(t)
    BY <1>3, <1>4, <2>1, <2>6 DEF Pool!Free
  <2> QED
    BY <1>1, <1>4, <1>5, <1>11, <2>2, <2>7 DEF FreeRegLoadBook, Pool!Next
<1>12. CASE FreeSlotBook(t)
  <2>1. Pool!FreeSlotBook(t)
    BY <1>6, <1>12 DEF FreeSlotBook, Pool!FreeSlotBook, RegSize, Pool!RegSize
  <2>2. tmpReg[t] = NULL
    BY <1>1, <1>8, <1>12 DEF FreeSlotBook, Index
  <2>3. /\ D' = D \ {offset} /\ offset' = offset - 4
        /\ tmpAddr[spill[top - 1 - Num]] \in D
        /\ \A j \in 0 .. Spilled - 1 : tmpAddr[spill[j]] \in D
    BY <1>9, <1>12 DEF FreeSlotBook
  <2>4. spill[SpillIndex(t)] = t /\ tmpAddr[t] \in D
    BY <1>7, <2>2, <2>3
  <2>5. live' = live \ {t}
    BY <1>12, <2>4 DEF FreeSlotBook
  <2> HIDE DEF D
  <2> DEFINE m == [d \in D |-> 0]
  <2>6. [m EXCEPT ![tmpAddr[t]] = m[tmpAddr[spill[top - 1 - Num]]]] = m
    BY <2>3
  <2>7. [d \in D' |-> 0] = [d \in D \ {offset} |-> m[d]]
    BY <2>3
  <2>8. Pool!FreeSlotCode(t)
    <3>1. [d \in D' |-> 0] = [d \in DOMAIN m \ {offset} |->
            (IF SpillIndex(t) < top - 1 - Num
             THEN [m EXCEPT ![tmpAddr[t]] = m[tmpAddr[spill[top - 1 - Num]]]]
             ELSE m)[d]]
      BY <2>6, <2>7
    <3> QED
      BY <1>6, <2>3, <2>4, <3>1 DEF Pool!FreeSlotCode, Pool!RegSize, D
  <2>9. Pool!Free(t)
    BY <1>3, <1>4, <2>1, <2>8 DEF Pool!Free
  <2>10. ~ FreeRegLoadBook(t)
    BY <1>1, <1>7, <2>2 DEF FreeRegLoadBook
  <2> QED
    BY <1>1, <1>4, <1>5, <1>12, <2>5, <2>9, <2>10 DEF FreeSlotBook, Pool!Next
<1> QED
  BY <1>10, <1>11, <1>12

(* Steps that have nothing to do with the pool.  *)
LEMMA PoolSame ==
  ASSUME LockedHeld, UNCHANGED <<book, held>>
  PROVE  /\ UNCHANGED Pool!vars /\ LockedHeld' /\ HeldNow' = HeldNow
         /\ live' = live /\ frame' = frame
<1>1. Spilled' = Spilled /\ \A k : Slot(k)' = Slot(k)
  BY DEF book, Spilled, Slot
<1> QED
  BY <1>1 DEF book, LockedHeld, HeldNow, Pool!vars

(* Another current_offset, or the same.  *)
LEMMA PoolOffset ==
  ASSUME Book, LockedHeld, NEW f \in Frames, offset' = f, frame' = f,
         UNCHANGED <<list, top, spill, spillMax, lockCnt, regTmp, regLock, live,
                     tmpReg, tmpAddr, held>>,
         live = {} \/ ((\E x : live \subseteq {x}) /\ f = frame)
  PROVE  /\ Pool!Next \/ UNCHANGED Pool!vars
         /\ LockedHeld' /\ HeldNow' = HeldNow
         /\ live' = live /\ frame' = f
<1>1. LockedHeld' /\ HeldNow' = HeldNow
  BY DEF LockedHeld, HeldNow
<1>2. CASE live = {}
  <2>1. top = 0 /\ Num \in Nat
    BY <1>2, FewLive, PoolAssumption
  <2>2. Spilled = 0 /\ Spilled' = 0
    BY <2>1 DEF Spilled
  <2>3. Pool!EnterFrame(f)
    <3>1. [d \in {Slot(k) : k \in 0 .. Spilled - 1} |-> 0]' = [d \in {Slot(k) : k \in 0 .. Spilled - 1} |-> 0]
      <4>1. {Slot(k) : k \in 0 .. Spilled - 1}' = {} /\ {Slot(k) : k \in 0 .. Spilled - 1} = {}
        BY <2>2
      <4> QED
        BY <4>1
    <3> QED
      BY <2>1, <3>1 DEF Pool!EnterFrame
  <2> QED
    BY <1>1, <2>3 DEF Pool!Next
<1>3. CASE (\E x : live \subseteq {x}) /\ f = frame
  <2>1. offset = f
    BY <1>3, FewLive
  <2> QED
    BY <1>1, <1>3, <2>1, PoolSame DEF book
<1> QED
  BY <1>2, <1>3

-----------------------------------------------------------------------------
(* The inductive invariant.  The state a script is legal from is read off  *)
(* the variables, and what is left of the script is legal from it, up to   *)
(* a state in which nothing is allocated, locked or open.                  *)
Cur == St(live, HeldNow, {frame}, Open(code, labels), DOMAIN labels)

(* Nothing allocated, nothing locked, no label open.                       *)
Drained(z) == z.live = {} /\ z.lock = {} /\ z.open = {}

(* What is left of the script is legal and gives everything back.          *)
Ahead == \E z : Legal(todo, Cur, z) /\ Drained(z)

(* The code so far.                                                        *)
Text == Script(code) /\ NamesOK(code) /\ LabelsOK(code, labels, labelNumber)

(* Instructions without labels, all registers named.  *)
Plain(e) ==
  Script(e) /\ NamesOK(e) /\ \A k \in DOMAIN e : ~ Uses(e[k].f) /\ ~ Places(e[k].f)

(* The inductive invariant: the pool, the locks, the text, and the script. *)
CInv == Book /\ LockedHeld /\ Text /\ Plain(printBuf) /\ Ahead

(* What each action has to show; the pool's invariant follows.  *)
Proper ==
  /\ Pool!Next \/ UNCHANGED Pool!vars
  /\ LockedHeld' /\ Text' /\ Plain(printBuf)' /\ Ahead'

(* The next item of the script is allowed.  *)
LEMMA ItemAhead ==
  ASSUME CInv, todo # << >>
  PROVE  \E b, z : /\ Weaker(b, Cur) /\ Allowed(Head(todo), b)
                   /\ Legal(Tail(todo), Result(Head(todo), b), z) /\ Drained(z)
<1>1. PICK z : Legal(todo, Cur, z) /\ Drained(z)
  BY DEF CInv, Ahead
<1> QED
  BY <1>1, LegalFirst

(* The rest of the script is legal from a state that is weaker than the    *)
(* next.                                                                   *)
LEMMA Onward ==
  ASSUME NEW a, NEW z, Legal(todo', a, z), Drained(z), Weaker(a, Cur')
  PROVE  Ahead'
<1>1. Legal(todo', Cur', z)
  BY LegalFrom
<1> QED
  BY <1>1 DEF Ahead

(* The next state, part by part.                                           *)
LEMMA CurNext ==
  Cur' = St(live', HeldNow', {frame'}, Open(code', labels'), DOMAIN labels')
BY DEF Cur, Open, PlacesIn

(* Instructions that are printed.  *)
LEMMA PlainOne ==
  ASSUME NEW i, ~ Uses(i.f), ~ Places(i.f), Named(i)
  PROVE  Plain(<<i>>)
<1>1. <<i>> \in Seq({i}) /\ DOMAIN <<i>> = {1} /\ <<i>>[1] = i
  OBVIOUS
<1>2. Script(<<i>>)
  BY <1>1 DEF Script
<1> QED
  BY <1>1, <1>2 DEF Plain, NamesOK

(* No instruction at all.                                                  *)
LEMMA PlainNone == Plain(<< >>)
<1>1. << >> \in Seq({}) /\ DOMAIN << >> = {}
  OBVIOUS
<1> QED
  BY <1>1 DEF Plain, NamesOK, Script

(* Two such pieces of code.                                                *)
LEMMA PlainCat ==
  ASSUME NEW e, NEW g, Plain(e), Plain(g)
  PROVE  Plain(e \o g)
<1>1. Script(e) /\ Script(g) /\ NamesOK(e) /\ NamesOK(g)
  BY DEF Plain
<1>2. PICK d : d = e \o g
  OBVIOUS
<1>3. /\ Script(d) /\ NamesOK(d) /\ \A k \in DOMAIN e : d[k] = e[k]
      /\ \A k \in DOMAIN d : k \in DOMAIN e \/ \E j \in DOMAIN g : d[k] = g[j]
  BY <1>1, <1>2, CodeCat
<1>4. \A k \in DOMAIN d : ~ Uses(d[k].f) /\ ~ Places(d[k].f)
  BY <1>3 DEF Plain
<1> QED
  BY <1>2, <1>3, <1>4 DEF Plain

(* The stack pointer moves.                                                *)
LEMMA PlainSp ==
  ASSUME NEW n
  PROVE  Plain(<<Ins("sp", "", 0, << >>, n)>>)
<1> DEFINE i == Ins("sp", "", 0, << >>, n)
<1>1. i.f = "sp" /\ i.d = 0 /\ i.s = << >>
  BY DEF Ins
<1>2. 0 # NULL /\ DOMAIN << >> = {}
  BY PoolAssumption
<1> HIDE DEF i
<1>3. ~ Uses(i.f) /\ ~ Places(i.f) /\ Named(i)
  BY <1>1, <1>2 DEF Uses, Places, Named
<1>4. Plain(<<i>>)
  BY <1>3, PlainOne
<1> QED
  BY <1>4 DEF i

(* A transfer between a register and memory.  *)
LEMMA PlainMemory ==
  ASSUME NEW f \in {"ldr", "str", "swap", "move"}, NEW op, NEW d, d # NULL, NEW a
  PROVE  Plain(<<Ins(f, op, d, << >>, a)>>)
<1> DEFINE i == Ins(f, op, d, << >>, a)
<1>1. i.f = f /\ i.d = d /\ i.s = << >>
  BY DEF Ins
<1>2. DOMAIN << >> = {}
  OBVIOUS
<1> HIDE DEF i
<1>3. ~ Uses(i.f) /\ ~ Places(i.f) /\ Named(i)
  BY <1>1, <1>2 DEF Uses, Places, Named
<1>4. Plain(<<i>>)
  BY <1>3, PlainOne
<1> QED
  BY <1>4 DEF i

(* An instruction at the end.                                              *)
LEMMA AppendCat ==
  ASSUME NEW c, Script(c), NEW i
  PROVE  Append(c, i) = c \o <<i>>
<1>1. PICK S1 : c \in Seq(S1)
  BY DEF Script
<1>2. c \in Seq(S1 \cup {i}) /\ i \in S1 \cup {i}
  BY <1>1
<1> QED
  BY <1>2

(* Printing instructions without labels leaves the labels as they are.     *)
LEMMA PlainText ==
  ASSUME Text, NEW e, Plain(e), code' = code \o e, UNCHANGED <<labels, labelNumber>>
  PROVE  Text' /\ Open(code', labels') = Open(code, labels) /\ DOMAIN labels' = DOMAIN labels
<1>1. /\ Script(code \o e) /\ NamesOK(code \o e)
      /\ Open(code \o e, labels) = Open(code, labels)
      /\ LabelsOK(code \o e, labels, labelNumber)
  BY CodeCat, PlainCode DEF Text, Plain
<1>2. Text' <=> Script(code') /\ NamesOK(code') /\ LabelsOK(code', labels', labelNumber')
  BY DEF Text
<1>3. code' = code \o e /\ labels' = labels /\ labelNumber' = labelNumber
  OBVIOUS
<1> QED
  BY <1>1, <1>2, <1>3

(* Nothing is printed.                                                     *)
LEMMA SameText ==
  ASSUME Text, UNCHANGED <<code, labels, labelNumber>>
  PROVE  Text' /\ Open(code', labels') = Open(code, labels) /\ DOMAIN labels' = DOMAIN labels
<1>1. Text' <=> Script(code') /\ NamesOK(code') /\ LabelsOK(code', labels', labelNumber')
  BY DEF Text
<1>2. code' = code /\ labels' = labels /\ labelNumber' = labelNumber
  OBVIOUS
<1> QED
  BY <1>1, <1>2 DEF Text

-----------------------------------------------------------------------------
(* One lemma per action.  *)
LEMMA StepAlloc ==
  ASSUME CInv, GenAlloc
  PROVE  Proper
<1>1. PICK b, z : /\ Weaker(b, Cur) /\ Allowed(Head(todo), b)
                  /\ Legal(Tail(todo), Result(Head(todo), b), z) /\ Drained(z)
  BY ItemAhead DEF GenAlloc, Next1
<1>2. PICK i : i = Head(todo)
  OBVIOUS
<1>3. i.do = "alloc" /\ todo' = Tail(todo) /\ i.t = t0
  BY <1>2 DEF GenAlloc, Next1, t0
<1>4. b.live = live /\ b.lock = HeldNow /\ b.open = Open(code, labels)
        /\ b.frame \subseteq {frame} /\ b.known \subseteq DOMAIN labels
  BY <1>1 DEF Weaker, Cur, St
<1>5. t0 \in Tmp /\ t0 \notin live
  BY <1>1, <1>2, <1>3, <1>4 DEF GenAlloc, Allowed
<1>6. /\ Pool!Next /\ LockedHeld' /\ HeldNow' = HeldNow
      /\ live' = live \cup {t0} /\ frame' = frame
  BY <1>5, PoolAlloc DEF CInv, GenAlloc
<1>7. Text' /\ Open(code', labels') = Open(code, labels) /\ DOMAIN labels' = DOMAIN labels
  <2>1. CASE UNCHANGED code
    BY <2>1, SameText DEF CInv, GenAlloc
  <2>2. CASE Append1(Ins("sp", "", 0, << >>, RegSize))
    <3>1. code' = code \o <<Ins("sp", "", 0, << >>, RegSize)>>
      BY <2>2, AppendCat DEF Append1, CInv, Text
    <3> QED
      BY <3>1, PlainSp, PlainText DEF CInv, GenAlloc
  <2> QED
    BY <2>1, <2>2 DEF GenAlloc
<1>8. Plain(printBuf)'
  BY DEF CInv, GenAlloc, Plain, NamesOK
<1>9. Result(i, b) = St(b.live \cup {i.t}, b.lock, b.frame, b.open, b.known)
  BY <1>3 DEF Result
<1>10. Weaker(Result(i, b), Cur')
  BY <1>3, <1>4, <1>6, <1>7, <1>9, CurNext DEF Weaker, St
<1>11. Ahead'
  BY <1>1, <1>2, <1>3, <1>10, Onward
<1> QED
  BY <1>6, <1>7, <1>8, <1>11 DEF Proper

(* Two instructions.                                                       *)
LEMMA PlainTwo ==
  ASSUME NEW i, NEW j, Plain(<<i>>), Plain(<<j>>)
  PROVE  Plain(<<i, j>>)
<1>1. <<i, j>> \in Seq({i, j}) /\ DOMAIN <<i, j>> = {1, 2}
        /\ <<i, j>>[1] = i /\ <<i, j>>[2] = j
  OBVIOUS
<1>2. Script(<<i, j>>)
  BY <1>1 DEF Script
<1>3. 1 \in DOMAIN <<i>> /\ 1 \in DOMAIN <<j>> /\ <<i>>[1] = i /\ <<j>>[1] = j
  OBVIOUS
<1>4. /\ Named(i) /\ ~ Uses(i.f) /\ ~ Places(i.f)
      /\ Named(j) /\ ~ Uses(j.f) /\ ~ Places(j.f)
  BY <1>3 DEF Plain, NamesOK
<1>5. \A k \in DOMAIN <<i, j>> : <<i, j>>[k] = i \/ <<i, j>>[k] = j
  BY <1>1
<1> QED
  BY <1>2, <1>4, <1>5 DEF Plain, NamesOK

(* lock is granted, as at most two temporaries are locked.                 *)
LEMMA StepLock ==
  ASSUME CInv, GenLock
  PROVE  Proper
<1>1. PICK b, z : /\ Weaker(b, Cur) /\ Allowed(Head(todo), b)
                  /\ Legal(Tail(todo), Result(Head(todo), b), z) /\ Drained(z)
  BY ItemAhead DEF GenLock, Next1
<1>2. PICK i : i = Head(todo)
  OBVIOUS
<1>3. i.do = "lock" /\ todo' = Tail(todo)
  BY <1>2 DEF GenLock, Next1
<1>4. b.live = live /\ b.lock = HeldNow /\ b.open = Open(code, labels)
        /\ b.frame \subseteq {frame} /\ b.known \subseteq DOMAIN labels
  BY <1>1 DEF Weaker, Cur, St
<1>5. i.t = t0 /\ t0 \in live /\ \E x, y : HeldNow \subseteq {x, y}
  BY <1>1, <1>2, <1>3, <1>4 DEF Allowed, t0
<1>a. lockCnt < LockMax /\ lockCnt \in Nat /\ LockMax \in Nat
  BY <1>5, LockFree, PoolAssumption DEF CInv, Book, Typed
<1>b. (LockInRegBook(t0) \/ LockSwapBook(t0)) /\ held' = [held EXCEPT ![t0] = tmpReg'[t0]]
  <2>1. ~ lockCnt >= LockMax
    BY <1>a
  <2> QED
    BY <2>1 DEF GenLock
<1>6. /\ Pool!Next /\ LockedHeld' /\ HeldNow' = HeldNow \cup {t0}
      /\ live' = live /\ frame' = frame
  BY <1>5, <1>a, <1>b, PoolLock DEF CInv
<1>7. Text' /\ Open(code', labels') = Open(code, labels) /\ DOMAIN labels' = DOMAIN labels
  <2>1. CASE UNCHANGED code
    BY <2>1, SameText DEF CInv, GenLock
  <2>2. CASE Append1(Ins("swap", "", list[FirstUnlocked], << >>, tmpAddr[t0]))
    <3>1. code' = code \o <<Ins("swap", "", list[FirstUnlocked], << >>, tmpAddr[t0])>>
      BY <2>2, AppendCat DEF Append1, CInv, Text
    <3>2. list[FirstUnlocked] # NULL
      <4>1. FirstUnlocked \in Index /\ list \in [Index -> Reg]
        BY <1>a, Searches DEF CInv, Book, Typed
      <4>2. list[FirstUnlocked] \in Reg
        BY <4>1
      <4> QED
        BY <4>2, PoolAssumption DEF Reg, Index
    <3>3. Plain(<<Ins("swap", "", list[FirstUnlocked], << >>, tmpAddr[t0])>>)
      BY <3>2, PlainMemory
    <3> QED
      BY <3>1, <3>3, PlainText DEF CInv, GenLock
  <2> QED
    BY <1>a, <2>1, <2>2 DEF GenLock
<1>8. Plain(printBuf)'
  BY DEF CInv, GenLock, Plain, NamesOK
<1>9. Result(i, b) = St(b.live, b.lock \cup {i.t}, b.frame, b.open, b.known)
  BY <1>3 DEF Result
<1>10. Weaker(Result(i, b), Cur')
  BY <1>3, <1>4, <1>6, <1>7, <1>9, <1>5, CurNext DEF Weaker, St
<1>11. Ahead'
  BY <1>1, <1>2, <1>3, <1>10, Onward
<1> QED
  BY <1>6, <1>7, <1>8, <1>11 DEF Proper

(* unlock prints nothing.                                                  *)
LEMMA StepUnlock ==
  ASSUME CInv, GenUnlock
  PROVE  Proper
<1>1. PICK b, z : /\ Weaker(b, Cur) /\ Allowed(Head(todo), b)
                  /\ Legal(Tail(todo), Result(Head(todo), b), z) /\ Drained(z)
  BY ItemAhead DEF GenUnlock, Next1
<1>2. PICK i : i = Head(todo)
  OBVIOUS
<1>3. i.do = "unlock" /\ todo' = Tail(todo)
  BY <1>2 DEF GenUnlock, Next1
<1>4. b.live = live /\ b.lock = HeldNow /\ b.open = Open(code, labels)
        /\ b.frame \subseteq {frame} /\ b.known \subseteq DOMAIN labels
  BY <1>1 DEF Weaker, Cur, St
<1>5. i.t = t0 /\ t0 \in live
  BY <1>1, <1>2, <1>3, <1>4 DEF Allowed, t0
<1>6. /\ Pool!Next /\ LockedHeld' /\ HeldNow' = HeldNow \ {t0}
      /\ live' = live /\ frame' = frame
  BY <1>5, PoolUnlock DEF CInv, GenUnlock
<1>7. Text' /\ Open(code', labels') = Open(code, labels) /\ DOMAIN labels' = DOMAIN labels
  BY SameText DEF CInv, GenUnlock
<1>8. Plain(printBuf)'
  BY DEF CInv, GenUnlock, Plain, NamesOK
<1>9. Result(i, b) = St(b.live, b.lock \ {i.t}, b.frame, b.open, b.known)
  BY <1>3 DEF Result
<1>10. Weaker(Result(i, b), Cur')
  BY <1>3, <1>4, <1>6, <1>7, <1>9, <1>5, CurNext DEF Weaker, St
<1>11. Ahead'
  BY <1>1, <1>2, <1>3, <1>10, Onward
<1> QED
  BY <1>6, <1>7, <1>8, <1>11 DEF Proper

(* free, with the load, the move or nothing that it prints.                *)
LEMMA StepFree ==
  ASSUME CInv, GenFree
  PROVE  Proper
<1>1. PICK b, z : /\ Weaker(b, Cur) /\ Allowed(Head(todo), b)
                  /\ Legal(Tail(todo), Result(Head(todo), b), z) /\ Drained(z)
  BY ItemAhead DEF GenFree, Next1
<1>2. PICK i : i = Head(todo)
  OBVIOUS
<1>3. i.do = "free" /\ todo' = Tail(todo)
  BY <1>2 DEF GenFree, Next1
<1>4. b.live = live /\ b.lock = HeldNow /\ b.open = Open(code, labels)
        /\ b.frame \subseteq {frame} /\ b.known \subseteq DOMAIN labels
  BY <1>1 DEF Weaker, Cur, St
<1>5. i.t = t0 /\ t0 \in live /\ HeldNow = {}
  BY <1>1, <1>2, <1>3, <1>4 DEF Allowed, t0
<1>6. /\ Pool!Next /\ LockedHeld' /\ HeldNow' = HeldNow
      /\ live' = live \ {t0} /\ frame' = frame
      /\ FreeRegLoadBook(t0) => tmpReg[t0] # NULL
  BY <1>5, PoolFree DEF CInv, GenFree
<1>7. Text' /\ Open(code', labels') = Open(code, labels) /\ DOMAIN labels' = DOMAIN labels
  <2> DEFINE last == top - 1 - Num
             pop == <<Ins("sp", "", 0, << >>, - RegSize)>>
             load == <<Ins("ldr", "depth", tmpReg[t0], << >>, tmpAddr[spill[last]])>>
             move == <<Ins("move", tmpAddr[spill[last]], 0, << >>, tmpAddr[t0])>>
  <2>1. Plain(pop)
    BY PlainSp
  <2>2. CASE UNCHANGED code
    BY <2>2, SameText DEF CInv, GenFree
  <2>3. CASE FreeRegLoadBook(t0) /\ code' = code \o
               <<Ins("ldr", "depth", tmpReg[t0], << >>, tmpAddr[spill[last]]),
                 Ins("sp", "", 0, << >>, - RegSize)>>
    <3>1. Plain(load)
      BY <1>6, <2>3, PlainMemory
    <3>2. Plain(<<Ins("ldr", "depth", tmpReg[t0], << >>, tmpAddr[spill[last]]),
                  Ins("sp", "", 0, << >>, - RegSize)>>)
      BY <2>1, <3>1, PlainTwo
    <3> QED
      BY <2>3, <3>2, PlainText DEF CInv, GenFree
  <2>4. CASE code' = code \o (IF SpillIndex(t0) < last THEN move ELSE << >>) \o pop
    <3>1. Plain(move)
      BY PlainMemory, PoolAssumption
    <3>2. PICK m : m = IF SpillIndex(t0) < last THEN move ELSE << >>
      OBVIOUS
    <3> HIDE DEF pop, move
    <3>3. Plain(m)
      BY <3>1, <3>2, PlainNone
    <3>4. code' = code \o (m \o pop)
      <4>1. PICK S1 : code \in Seq(S1)
        BY DEF CInv, Text, Script
      <4>2. PICK S2 : m \in Seq(S2)
        BY <3>3 DEF Plain, Script
      <4>3. PICK S3 : pop \in Seq(S3)
        BY <2>1 DEF Plain, Script
      <4> DEFINE U == S1 \cup S2 \cup S3
      <4>4. code \in Seq(U) /\ m \in Seq(U) /\ pop \in Seq(U)
        BY <4>1, <4>2, <4>3
      <4> HIDE DEF U
      <4>5. (code \o m) \o pop = code \o (m \o pop)
        BY <4>4
      <4> QED
        BY <2>4, <3>2, <4>5
    <3>5. Plain(m \o pop)
      BY <2>1, <3>3, PlainCat
    <3> QED
      BY <3>4, <3>5, PlainText DEF CInv, GenFree
  <2> QED
    BY <2>2, <2>3, <2>4 DEF GenFree
<1>8. Plain(printBuf)'
  BY DEF CInv, GenFree, Plain, NamesOK
<1>9. Result(i, b) = St(b.live \ {i.t}, b.lock, b.frame, b.open, b.known)
  BY <1>3 DEF Result
<1>10. Weaker(Result(i, b), Cur')
  BY <1>3, <1>4, <1>6, <1>7, <1>9, <1>5, CurNext DEF Weaker, St
<1>11. Ahead'
  BY <1>1, <1>2, <1>3, <1>10, Onward
<1> QED
  BY <1>6, <1>7, <1>8, <1>11 DEF Proper

(* A label gets the next number and is open.                               *)
LEMMA StepLabel ==
  ASSUME CInv, GenLabel
  PROVE  Proper
<1>1. PICK b, z : /\ Weaker(b, Cur) /\ Allowed(Head(todo), b)
                  /\ Legal(Tail(todo), Result(Head(todo), b), z) /\ Drained(z)
  BY ItemAhead DEF GenLabel, Next1
<1>2. PICK i : i = Head(todo)
  OBVIOUS
<1>3. i.do = "label" /\ todo' = Tail(todo)
  BY <1>2 DEF GenLabel, Next1
<1>4. b.live = live /\ b.lock = HeldNow /\ b.open = Open(code, labels)
        /\ b.frame \subseteq {frame} /\ b.known \subseteq DOMAIN labels
  BY <1>1 DEF Weaker, Cur, St
<1>5. i.t = t0 /\ t0 \notin Open(code, labels)
  BY <1>1, <1>2, <1>3, <1>4 DEF Allowed, t0
<1>6. /\ UNCHANGED Pool!vars /\ LockedHeld' /\ HeldNow' = HeldNow
      /\ live' = live /\ frame' = frame
  BY PoolSame DEF CInv, GenLabel
<1>7. Text' /\ Open(code', labels') = Open(code, labels) \cup {t0}
        /\ DOMAIN labels' = DOMAIN labels \cup {t0}
  <2>1. PICK ms : ms = [l \in DOMAIN labels \cup {t0} |-> IF l = t0 THEN labelNumber ELSE labels[l]]
    OBVIOUS
  <2>2. /\ Open(code, ms) = Open(code, labels) \cup {t0}
        /\ LabelsOK(code, ms, labelNumber + 1)
    BY <1>5, <2>1, NewLabel DEF CInv, Text
  <2>3. code' = code /\ labels' = ms /\ labelNumber' = labelNumber + 1
    BY <2>1 DEF GenLabel
  <2>4. Text' <=> Script(code') /\ NamesOK(code') /\ LabelsOK(code', labels', labelNumber')
    BY DEF Text
  <2> QED
    BY <2>1, <2>2, <2>3, <2>4 DEF CInv, Text
<1>8. Plain(printBuf)'
  BY DEF CInv, GenLabel, Plain, NamesOK
<1>9. Result(i, b) = St(b.live, b.lock, b.frame, b.open \cup {i.t}, b.known \cup {i.t})
  BY <1>3 DEF Result
<1>10. Weaker(Result(i, b), Cur')
  BY <1>3, <1>4, <1>6, <1>7, <1>9, <1>5, CurNext DEF Weaker, St
<1>11. Ahead'
  BY <1>1, <1>2, <1>3, <1>10, Onward
<1> QED
  BY <1>6, <1>7, <1>8, <1>11 DEF Proper

(* caller_load prints what caller_save has left in print_buf.              *)
LEMMA StepLoad ==
  ASSUME CInv, GenLoad
  PROVE  Proper
<1>1. PICK b, z : /\ Weaker(b, Cur) /\ Allowed(Head(todo), b)
                  /\ Legal(Tail(todo), Result(Head(todo), b), z) /\ Drained(z)
  BY ItemAhead DEF GenLoad, Next1
<1>2. PICK i : i = Head(todo)
  OBVIOUS
<1>3. i.do = "load" /\ todo' = Tail(todo)
  BY <1>2 DEF GenLoad, Next1
<1>4. b.live = live /\ b.lock = HeldNow /\ b.open = Open(code, labels)
        /\ b.frame \subseteq {frame} /\ b.known \subseteq DOMAIN labels
  BY <1>1 DEF Weaker, Cur, St
<1>6. /\ UNCHANGED Pool!vars /\ LockedHeld' /\ HeldNow' = HeldNow
      /\ live' = live /\ frame' = frame
  BY PoolSame DEF CInv, GenLoad
<1>7. Text' /\ Open(code', labels') = Open(code, labels) /\ DOMAIN labels' = DOMAIN labels
  BY PlainText DEF CInv, GenLoad
<1>8. Plain(printBuf)'
  BY DEF CInv, GenLoad, Plain, NamesOK
<1>9. Result(i, b) = b
  BY <1>3 DEF Result
<1>10. Weaker(Result(i, b), Cur')
  BY <1>3, <1>4, <1>6, <1>7, <1>9, CurNext DEF Weaker, St
<1>11. Ahead'
  BY <1>1, <1>2, <1>3, <1>10, Onward
<1> QED
  BY <1>6, <1>7, <1>8, <1>11 DEF Proper

(* return moves the stack pointer back.                                    *)
LEMMA StepUnwind ==
  ASSUME CInv, GenUnwind
  PROVE  Proper
<1>1. PICK b, z : /\ Weaker(b, Cur) /\ Allowed(Head(todo), b)
                  /\ Legal(Tail(todo), Result(Head(todo), b), z) /\ Drained(z)
  BY ItemAhead DEF GenUnwind, Next1
<1>2. PICK i : i = Head(todo)
  OBVIOUS
<1>3. i.do = "unwind" /\ todo' = Tail(todo)
  BY <1>2 DEF GenUnwind, Next1
<1>4. b.live = live /\ b.lock = HeldNow /\ b.open = Open(code, labels)
        /\ b.frame \subseteq {frame} /\ b.known \subseteq DOMAIN labels
  BY <1>1 DEF Weaker, Cur, St
<1>6. /\ UNCHANGED Pool!vars /\ LockedHeld' /\ HeldNow' = HeldNow
      /\ live' = live /\ frame' = frame
  BY PoolSame DEF CInv, GenUnwind
<1>7. Text' /\ Open(code', labels') = Open(code, labels) /\ DOMAIN labels' = DOMAIN labels
  <2>1. code' = code \o <<Ins("sp", "", 0, << >>, - offset)>>
    BY AppendCat DEF GenUnwind, Append1, CInv, Text
  <2> QED
    BY <2>1, PlainSp, PlainText DEF CInv, GenUnwind
<1>8. Plain(printBuf)'
  BY DEF CInv, GenUnwind, Plain, NamesOK
<1>9. Result(i, b) = b
  BY <1>3 DEF Result
<1>10. Weaker(Result(i, b), Cur')
  BY <1>3, <1>4, <1>6, <1>7, <1>9, CurNext DEF Weaker, St
<1>11. Ahead'
  BY <1>1, <1>2, <1>3, <1>10, Onward
<1> QED
  BY <1>6, <1>7, <1>8, <1>11 DEF Proper

(* The operands of an allowed instruction have names.                      *)
LEMMA RegisterNamed ==
  ASSUME NEW o, NEW a, Operand(o, a), a.lock = HeldNow
  PROVE  Register(o) # NULL
BY DEF Operand, Register, HeldNow

(* An instruction: a branch or literal of a known label, the place of an   *)
(* open one, or one without labels.                                        *)
LEMMA StepEmit ==
  ASSUME CInv, GenEmit
  PROVE  Proper
<1>1. PICK b, z : /\ Weaker(b, Cur) /\ Allowed(Head(todo), b)
                  /\ Legal(Tail(todo), Result(Head(todo), b), z) /\ Drained(z)
  BY ItemAhead DEF GenEmit, Next1
<1>2. PICK i : i = Head(todo)
  OBVIOUS
<1>3. i.do = "emit" /\ todo' = Tail(todo)
  BY <1>2 DEF GenEmit, Next1
<1>4. b.live = live /\ b.lock = HeldNow /\ b.open = Open(code, labels)
        /\ b.frame \subseteq {frame} /\ b.known \subseteq DOMAIN labels
  BY <1>1 DEF Weaker, Cur, St
<1> DEFINE p == i.i
           j == Ins(p.f, p.op, Register(p.d), [k \in DOMAIN p.s |-> Register(p.s[k])],
                    IF p.f \in {"b", "label", "data", "literal"} THEN labels[p.a] ELSE p.a)
<1>5. EmitAllowed(p, b)
  BY <1>1, <1>2, <1>3 DEF Allowed
<1>a. code' = code \o <<j>> /\ UNCHANGED <<labels, labelNumber>>
  BY <1>2, AppendCat DEF GenEmit, Append1, CInv, Text
<1>b. /\ j.f = p.f
      /\ p.f \in {"b", "label", "data", "literal"} => j.a = labels[p.a]
  BY DEF Ins
<1>c. Named(j)
  <2>1. j.d = Register(p.d) /\ j.s = [k \in DOMAIN p.s |-> Register(p.s[k])]
    BY DEF Ins
  <2>2. Register(p.d) # NULL /\ \A k \in DOMAIN p.s : Register(p.s[k]) # NULL
    BY <1>4, <1>5, RegisterNamed DEF EmitAllowed
  <2> HIDE DEF j
  <2> QED
    BY <2>1, <2>2 DEF Named
<1>6. /\ UNCHANGED Pool!vars /\ LockedHeld' /\ HeldNow' = HeldNow
      /\ live' = live /\ frame' = frame
  BY PoolSame DEF CInv, GenEmit
<1> HIDE DEF j
<1>d. Text' <=> Script(code') /\ NamesOK(code') /\ LabelsOK(code', labels', labelNumber')
  BY DEF Text
<1>e. Script(code \o <<j>>) /\ NamesOK(code \o <<j>>)
  <2>1. <<j>> \in Seq({j}) /\ DOMAIN <<j>> = {1} /\ <<j>>[1] = j
    OBVIOUS
  <2>2. Script(<<j>>) /\ NamesOK(<<j>>)
    BY <1>c, <2>1 DEF Script, NamesOK
  <2> QED
    BY <2>2, CodeCat DEF CInv, Text
<1>7. /\ Text' /\ DOMAIN labels' = DOMAIN labels
      /\ Open(code', labels') = IF p.f \in {"label", "data"} THEN Open(code, labels) \ {p.a}
                                                            ELSE Open(code, labels)
  <2>1. CASE p.f \in {"b", "literal"}
    <3>1. p.a \in DOMAIN labels /\ (IsData(p.a) <=> p.f = "literal")
      BY <1>4, <1>5, <2>1 DEF EmitAllowed, IsData
    <3>2. Uses(j.f) /\ j.a = labels[p.a]
      BY <1>b, <2>1 DEF Uses
    <3>3. /\ Open(code \o <<j>>, labels) = Open(code, labels)
          /\ LabelsOK(code \o <<j>>, labels, labelNumber)
      BY <1>b, <3>1, <3>2, UseCode DEF CInv, Text
    <3> QED
      BY <1>a, <1>d, <1>e, <2>1, <3>3
  <2>2. CASE p.f \in {"label", "data"}
    <3>1. p.a \in Open(code, labels) /\ (IsData(p.a) <=> p.f = "data")
      BY <1>4, <1>5, <2>2 DEF EmitAllowed, IsData
    <3>2. Places(j.f) /\ j.a = labels[p.a]
      BY <1>b, <2>2 DEF Places
    <3>3. /\ Open(code \o <<j>>, labels) = Open(code, labels) \ {p.a}
          /\ LabelsOK(code \o <<j>>, labels, labelNumber)
      BY <1>b, <3>1, <3>2, PlaceCode DEF CInv, Text
    <3> QED
      BY <1>a, <1>d, <1>e, <2>2, <3>3
  <2>3. CASE p.f \notin {"b", "literal", "label", "data"}
    <3>1. ~ Uses(j.f) /\ ~ Places(j.f)
      BY <1>b, <2>3 DEF Uses, Places
    <3>2. Plain(<<j>>)
      BY <1>c, <3>1, PlainOne
    <3> QED
      BY <1>a, <2>3, <3>2, PlainText DEF CInv
  <2> QED
    BY <2>1, <2>2, <2>3
<1>8. Plain(printBuf)'
  BY DEF CInv, GenEmit, Plain, NamesOK
<1>9. Result(i, b) = St(b.live, b.lock, b.frame,
                      IF p.f \in {"label", "data"} THEN b.open \ {p.a} ELSE b.open,
                      b.known)
  BY <1>3 DEF Result
<1>10. Weaker(Result(i, b), Cur')
  BY <1>3, <1>4, <1>6, <1>7, <1>9, CurNext DEF Weaker, St
<1>11. Ahead'
  BY <1>1, <1>2, <1>3, <1>10, Onward
<1> QED
  BY <1>6, <1>7, <1>8, <1>11 DEF Proper

(* caller_save prints the stores, and leaves the loads in print_buf.       *)
LEMMA StepSave ==
  ASSUME CInv, GenSave
  PROVE  Proper
<1>1. PICK b, z : /\ Weaker(b, Cur) /\ Allowed(Head(todo), b)
                  /\ Legal(Tail(todo), Result(Head(todo), b), z) /\ Drained(z)
  BY ItemAhead DEF GenSave, Next1
<1>2. PICK i : i = Head(todo)
  OBVIOUS
<1>3. i.do = "save" /\ todo' = Tail(todo)
  BY <1>2 DEF GenSave, Next1
<1>4. b.live = live /\ b.lock = HeldNow /\ b.open = Open(code, labels)
        /\ b.frame \subseteq {frame} /\ b.known \subseteq DOMAIN labels
  BY <1>1 DEF Weaker, Cur, St
<1>6. /\ UNCHANGED Pool!vars /\ LockedHeld' /\ HeldNow' = HeldNow
      /\ live' = live /\ frame' = frame
  BY PoolSame DEF CInv, GenSave
<1> DEFINE bound == IF top < Num THEN top ELSE Num
           Each(f) == [k \in 1 .. bound |-> Ins(f, "sp", list[k - 1], << >>, k * RegSize)]
           Sp(n) == IF bound > 0 THEN <<Ins("sp", "", 0, << >>, n)>> ELSE << >>
<1>5. /\ code' = code \o Each("str") \o Sp(bound * RegSize)
      /\ printBuf' = Sp(- (bound * RegSize)) \o Each("ldr")
      /\ UNCHANGED <<labels, labelNumber>>
  BY DEF GenSave
<1>a. bound \in Nat /\ bound <= Num
  BY PoolAssumption DEF CInv, Book, Typed
<1>b. ASSUME NEW f \in {"str", "ldr"}
      PROVE  Plain(Each(f))
  <2>1. \A k \in 1 .. bound : list[k - 1] # NULL
    <3> TAKE k \in 1 .. bound
    <3>1. k - 1 \in Index /\ list \in [Index -> Reg]
      BY <1>a, PoolAssumption DEF CInv, Book, Typed, Index
    <3>2. list[k - 1] \in Reg
      BY <3>1
    <3> QED
      BY <3>2, PoolAssumption DEF Reg, Index
  <2> HIDE DEF bound
  <2>2. PICK e : e = Each(f)
    OBVIOUS
  <2>3. /\ DOMAIN e = 1 .. bound
        /\ \A k \in 1 .. bound : e[k] = Ins(f, "sp", list[k - 1], << >>, k * RegSize)
    BY <2>2
  <2>4. Script(e)
    <3>1. e \in Seq({e[k] : k \in 1 .. bound})
      BY <1>a, <2>2
    <3> QED
      BY <3>1 DEF Script
  <2>5. \A k \in DOMAIN e : Named(e[k]) /\ ~ Uses(e[k].f) /\ ~ Places(e[k].f)
    <3> TAKE k \in DOMAIN e
    <3>1. e[k].f = f /\ e[k].d = list[k - 1] /\ e[k].s = << >>
      BY <2>3 DEF Ins
    <3>2. DOMAIN << >> = {}
      OBVIOUS
    <3> QED
      BY <2>1, <2>3, <3>1, <3>2 DEF Named, Uses, Places
  <2>6. Plain(e)
    BY <2>4, <2>5 DEF Plain, NamesOK
  <2> QED
    BY <2>2, <2>6
<1>c. \A n : Plain(Sp(n))
  BY PlainSp, PlainNone
<1> HIDE DEF Each, Sp
<1>d. Plain(Each("str") \o Sp(bound * RegSize)) /\ Plain(Sp(- (bound * RegSize)) \o Each("ldr"))
  <2>1. Plain(Each("str")) /\ Plain(Each("ldr"))
    BY <1>b
  <2> HIDE DEF bound
  <2> QED
    BY <1>c, <2>1, PlainCat
<1>7. Text' /\ Open(code', labels') = Open(code, labels) /\ DOMAIN labels' = DOMAIN labels
  <2>1. code' = code \o (Each("str") \o Sp(bound * RegSize))
    <3>1. PICK e : e = Each("str")
      OBVIOUS
    <3>2. PICK s : s = Sp(bound * RegSize)
      OBVIOUS
    <3>3. PICK S1 : code \in Seq(S1)
      BY DEF CInv, Text, Script
    <3>4. PICK S2 : e \in Seq(S2)
      BY <1>b, <3>1 DEF Plain, Script
    <3>5. PICK S3 : s \in Seq(S3)
      BY <1>c, <3>2 DEF Plain, Script
    <3> DEFINE U == S1 \cup S2 \cup S3
    <3>6. code \in Seq(U) /\ e \in Seq(U) /\ s \in Seq(U)
      BY <3>3, <3>4, <3>5
    <3> HIDE DEF U
    <3>7. (code \o e) \o s = code \o (e \o s)
      BY <3>6
    <3> QED
      BY <1>5, <3>1, <3>2, <3>7
  <2> QED
    BY <1>5, <1>d, <2>1, PlainText DEF CInv
<1>8. Plain(printBuf)'
  <2>1. Plain(printBuf')
    BY <1>5, <1>d
  <2> QED
    BY <2>1 DEF Plain, NamesOK
<1>9. Result(i, b) = b
  BY <1>3 DEF Result
<1>10. Weaker(Result(i, b), Cur')
  BY <1>3, <1>4, <1>6, <1>7, <1>9, CurNext DEF Weaker, St
<1>11. Ahead'
  BY <1>1, <1>2, <1>3, <1>10, Onward
<1> QED
  BY <1>6, <1>7, <1>8, <1>11 DEF Proper

(* current_offset changes only while nothing is allocated, and otherwise   *)
(* stays what it is.                                                       *)
LEMMA StepOffset ==
  ASSUME CInv, GenOffset
  PROVE  Proper
<1>1. PICK b, z : /\ Weaker(b, Cur) /\ Allowed(Head(todo), b)
                  /\ Legal(Tail(todo), Result(Head(todo), b), z) /\ Drained(z)
  BY ItemAhead DEF GenOffset, Next1
<1>2. PICK i : i = Head(todo)
  OBVIOUS
<1>3. i.do = "offset" /\ todo' = Tail(todo)
  BY <1>2 DEF GenOffset, Next1
<1>4. b.live = live /\ b.lock = HeldNow /\ b.open = Open(code, labels)
        /\ b.frame \subseteq {frame} /\ b.known \subseteq DOMAIN labels
  BY <1>1 DEF Weaker, Cur, St
<1>5. i.t = t0 /\ HeldNow = {} /\ t0 \in Frames
        /\ (live = {} \/ ((\E x : live \subseteq {x}) /\ t0 = frame))
  BY <1>1, <1>2, <1>3, <1>4 DEF Allowed, AtDepth, GenOffset, t0
<1>6. /\ Pool!Next \/ UNCHANGED Pool!vars
      /\ LockedHeld' /\ HeldNow' = HeldNow
      /\ live' = live /\ frame' = t0
  BY <1>5, PoolOffset DEF CInv, GenOffset
<1>7. Text' /\ Open(code', labels') = Open(code, labels) /\ DOMAIN labels' = DOMAIN labels
  BY SameText DEF CInv, GenOffset
<1>8. Plain(printBuf)'
  BY DEF CInv, GenOffset, Plain, NamesOK
<1>9. Result(i, b) = St(b.live, b.lock, {i.t}, b.open, b.known)
  BY <1>3 DEF Result
<1>10. Weaker(Result(i, b), Cur')
  BY <1>3, <1>4, <1>6, <1>7, <1>9, <1>5, CurNext DEF Weaker, St
<1>11. Ahead'
  BY <1>1, <1>2, <1>3, <1>10, Onward
<1> QED
  BY <1>6, <1>7, <1>8, <1>11 DEF Proper

(* A call of generate_expression begins: its script takes its place.       *)
LEMMA StepExpression ==
  ASSUME CInv, CallExpression
  PROVE  Proper
<1>1. PICK b, z : /\ Weaker(b, Cur) /\ Allowed(Head(todo), b)
                  /\ Legal(Tail(todo), Result(Head(todo), b), z) /\ Drained(z)
  BY ItemAhead DEF CallExpression, Next1
<1>2. PICK i : i = Head(todo)
  OBVIOUS
<1>3. i.do = "gen"
  BY <1>2 DEF CallExpression, Next1
<1>4. b.live = live /\ b.lock = HeldNow /\ b.open = Open(code, labels)
        /\ b.frame \subseteq {frame} /\ b.known \subseteq DOMAIN labels
  BY <1>1 DEF Weaker, Cur, St
<1>6. /\ UNCHANGED Pool!vars /\ LockedHeld' /\ HeldNow' = HeldNow
      /\ live' = live /\ frame' = frame
  BY PoolSame DEF CInv, CallExpression, Instead
<1>7. Text' /\ Open(code', labels') = Open(code, labels) /\ DOMAIN labels' = DOMAIN labels
  BY SameText DEF CInv, CallExpression, Instead
<1>8. Plain(printBuf)'
  BY DEF CInv, CallExpression, Instead, Plain, NamesOK
<1> DEFINE a == St(b.live, {}, b.frame, b.open, b.known)
<1>5. /\ i.e \in Expr /\ i.t \in b.live /\ b.lock = {}
      /\ FreeFrom(i.n, b.live, b.open) /\ EnvOK(i.env) /\ Resolved(i.e, i.env)
  BY <1>1, <1>2, <1>3 DEF Allowed, CallExpression
<1>9. Legal(Expression(i.e, i.t, i.n, i.env), a, a)
  BY <1>5, LegalExpression
<1>10. Weaker(b, a) /\ Weaker(a, Cur')
  BY <1>4, <1>5, <1>6, <1>7, CurNext DEF Weaker, St
<1>11. Legal(Tail(todo), a, z)
  <2>1. Result(i, b) = b
    BY <1>3 DEF Result
  <2> HIDE DEF a
  <2> QED
    BY <1>1, <1>2, <1>10, <2>1, LegalFrom
<1>12. todo' = Expression(i.e, i.t, i.n, i.env) \o Tail(todo)
  BY <1>2 DEF CallExpression, Instead
<1> HIDE DEF a
<1>13. Legal(todo', a, z)
  BY <1>9, <1>11, <1>12, LegalCat
<1>14. Ahead'
  BY <1>1, <1>10, <1>13, Onward
<1> QED
  BY <1>6, <1>7, <1>8, <1>14 DEF Proper

(* A call of generate_statement begins: its script takes its place.        *)
LEMMA StepStatement ==
  ASSUME CInv, CallStatement
  PROVE  Proper
<1>1. PICK b, z : /\ Weaker(b, Cur) /\ Allowed(Head(todo), b)
                  /\ Legal(Tail(todo), Result(Head(todo), b), z) /\ Drained(z)
  BY ItemAhead DEF CallStatement, Next1
<1>2. PICK i : i = Head(todo)
  OBVIOUS
<1>3. i.do = "stmt"
  BY <1>2 DEF CallStatement, Next1
<1>4. b.live = live /\ b.lock = HeldNow /\ b.open = Open(code, labels)
        /\ b.frame \subseteq {frame} /\ b.known \subseteq DOMAIN labels
  BY <1>1 DEF Weaker, Cur, St
<1>6. /\ UNCHANGED Pool!vars /\ LockedHeld' /\ HeldNow' = HeldNow
      /\ live' = live /\ frame' = frame
  BY PoolSame DEF CInv, CallStatement, Instead
<1>7. Text' /\ Open(code', labels') = Open(code, labels) /\ DOMAIN labels' = DOMAIN labels
  BY SameText DEF CInv, CallStatement, Instead
<1>8. Plain(printBuf)'
  BY DEF CInv, CallStatement, Instead, Plain, NamesOK
<1> DEFINE a == St(b.live, {}, b.frame, b.open, b.known)
           c == St(b.live, {}, IF i.s \in Simple THEN {i.off} ELSE {}, b.open, b.known)
<1>5. /\ i.s \in Stmt /\ b.lock = {} /\ FreeFrom(i.d, b.live, b.open) /\ EnvOK(i.env)
      /\ AtDepth(i.off, b) /\ (b.live = {} \/ i.s \in Simple) /\ LR \in b.known
      /\ i.s.k = "assign" => Resolved(i.s.id, i.env)
      /\ i.s.k = "call" => Resolved(i.s.call, i.env)
  BY <1>1, <1>2, <1>3 DEF Allowed, CallStatement, LR
<1>9. Legal(Statement(i.s, i.off, i.env, i.d), a, c)
  <2>1. CASE i.s \in Simple
    <3>1. AtDepth(i.off, a)
      BY <1>5 DEF AtDepth, St
    <3>2. Legal(Statement(i.s, i.off, i.env, i.d), a, St(b.live, {}, {i.off}, b.open, b.known))
      BY <1>5, <2>1, <3>1, LegalSimple
    <3> QED
      BY <2>1, <3>2
  <2>2. CASE i.s \notin Simple
    <3>1. b.live = {} /\ FreeFrom(i.d, {}, b.open)
      BY <1>5, <2>2
    <3>2. Legal(Statement(i.s, i.off, i.env, i.d), St({}, {}, b.frame, b.open, b.known),
                St({}, {}, {}, b.open, b.known))
      BY <1>5, <3>1, LegalStatement
    <3> QED
      BY <2>2, <3>1, <3>2
  <2> QED
    BY <2>1, <2>2
<1>10. Weaker(a, Cur')
  BY <1>4, <1>5, <1>6, <1>7, CurNext DEF Weaker, St
<1>11. Legal(Tail(todo), c, z)
  <2>1. Result(i, b) = c
    BY <1>3, <1>5 DEF Result
  <2> HIDE DEF c
  <2> QED
    BY <1>1, <1>2, <2>1
<1>12. todo' = Statement(i.s, i.off, i.env, i.d) \o Tail(todo)
  BY <1>2 DEF CallStatement, Instead
<1> HIDE DEF a, c
<1>13. Legal(todo', a, z)
  BY <1>9, <1>11, <1>12, LegalCat
<1>14. Ahead'
  BY <1>1, <1>10, <1>13, Onward
<1> QED
  BY <1>6, <1>7, <1>8, <1>14 DEF Proper

(* The program runs, or has ended: the compiler has done its work.  *)
LEMMA StepRun ==
  ASSUME CInv, UNCHANGED <<book, held, genVars, code>>
  PROVE  Proper
<1>1. /\ UNCHANGED Pool!vars /\ LockedHeld' /\ HeldNow' = HeldNow
      /\ live' = live /\ frame' = frame
  BY PoolSame DEF CInv
<1>2. Text' /\ Open(code', labels') = Open(code, labels) /\ DOMAIN labels' = DOMAIN labels
  BY SameText DEF CInv, genVars
<1>3. Plain(printBuf)'
  BY DEF CInv, genVars, Plain, NamesOK
<1>4. PICK z : Legal(todo, Cur, z) /\ Drained(z)
  BY DEF CInv, Ahead
<1>5. Weaker(Cur, Cur')
  BY <1>1, <1>2, CurNext DEF Cur, Weaker, St
<1>6. todo' = todo
  BY DEF genVars
<1>7. Ahead'
  BY <1>4, <1>5, <1>6, Onward
<1> QED
  BY <1>1, <1>2, <1>3, <1>7 DEF Proper

-----------------------------------------------------------------------------
(* A function starts with an empty pool and the label of the epilogue.     *)
LEMMA StartPool ==
  ASSUME CInit
  PROVE  Pool!Init /\ Book
<1>1. 0 \in Frames /\ frame = 0 /\ offset = 0 /\ top = 0
  BY CompilerAssumption DEF CInit, BookInit
<1>2. Spilled = 0
  BY <1>1, PoolAssumption DEF Spilled
<1>3. {Slot(k) : k \in 0 .. Spilled - 1} = {}
  BY <1>2
<1>4. [d \in {Slot(k) : k \in 0 .. Spilled - 1} |-> 0] = [d \in {} |-> CHOOSE v \in {0} : TRUE]
  BY <1>3
<1>5. [r \in Reg |-> 0] \in [Reg -> {0}]
  OBVIOUS
<1>6. Pool!Reg = Reg /\ Pool!Index = Index /\ Proofs!Reg = Reg /\ Proofs!Index = Index
  BY DEF Pool!Reg, Reg, Pool!Index, Index, Proofs!Reg, Proofs!Index
<1>7. Pool!Init
  BY <1>1, <1>4, <1>5, <1>6 DEF Pool!Init, Pool!BookInit, CInit, BookInit
<1>8. Proofs!Init
  BY <1>1, <1>4, <1>5, <1>6 DEF Proofs!Init, Proofs!BookInit, CInit, BookInit
<1>9. Book
  BY <1>8, ShadowAssumption, Proofs!InitInv, BookOfProofs
<1> QED
  BY <1>7, <1>9

(* The invariant holds when a function is entered.                         *)
LEMMA StartInv ==
  ASSUME CInit
  PROVE  CInv
<1>1. Book /\ LockedHeld /\ HeldNow = {} /\ live = {} /\ frame = 0
  BY StartPool DEF CInit, BookInit, LockedHeld, HeldNow
<1>2. code = << >> /\ printBuf = << >> /\ labelNumber = 3
        /\ labels = [l \in {LR} |-> -1] /\ todo = GenFunction(program.f)
  BY DEF CInit, LR, Epilogue
<1>3. DOMAIN code = {} /\ PlacesIn(code) = {}
  BY <1>2 DEF PlacesIn
<1>4. DOMAIN labels = {LR} /\ labels[LR] = -1
  BY <1>2
<1>5. Open(code, labels) = {LR}
  BY <1>3, <1>4 DEF Open
<1>6. Text
  <2>1. Script(code) /\ NamesOK(code)
    BY <1>2, PlainNone DEF Plain
  <2>2. LabelsOK(code, labels, labelNumber)
    BY <1>2, <1>3, <1>4 DEF LabelsOK
  <2> QED
    BY <2>1, <2>2 DEF Text
<1>7. Plain(printBuf)
  BY <1>2, PlainNone
<1>8. IsFunction(program.f)
  BY CompilerAssumption DEF CInit
<1>9. Cur = St({}, {}, {0}, {LR}, {LR})
  BY <1>1, <1>4, <1>5 DEF Cur
<1>10. Drained(St({}, {}, {}, {}, {LR}))
  BY DEF Drained, St
<1>11. Ahead
  BY <1>2, <1>8, <1>9, <1>10, LegalFunction DEF Ahead
<1> QED
  BY <1>1, <1>6, <1>7, <1>11 DEF CInv

(* Every step of the compiler and of the program keeps the invariant, and  *)
(* is a step of the pool or leaves the pool alone.                         *)
LEMMA StepInvariant ==
  ASSUME CInv, [CNext]_allVars
  PROVE  CInv' /\ [Pool!Next]_(Pool!vars)
<1>1. Proper
  <2>1. CASE CallExpression
    BY <2>1, StepExpression
  <2>2. CASE CallStatement
    BY <2>2, StepStatement
  <2>3. CASE GenAlloc
    BY <2>3, StepAlloc
  <2>4. CASE GenLock
    BY <2>4, StepLock
  <2>5. CASE GenUnlock
    BY <2>5, StepUnlock
  <2>6. CASE GenFree
    BY <2>6, StepFree
  <2>7. CASE GenLabel
    BY <2>7, StepLabel
  <2>8. CASE GenEmit
    BY <2>8, StepEmit
  <2>9. CASE GenSave
    BY <2>9, StepSave
  <2>10. CASE GenLoad
    BY <2>10, StepLoad
  <2>11. CASE GenUnwind
    BY <2>11, StepUnwind
  <2>12. CASE GenOffset
    BY <2>12, StepOffset
  <2>13. CASE Run
    BY <2>13, StepRun DEF Run
  <2>14. CASE Returned \/ UNCHANGED allVars
    BY <2>14, StepRun DEF Returned, allVars, vars, book, genVars
  <2> QED
    BY <2>1, <2>2, <2>3, <2>4, <2>5, <2>6, <2>7, <2>8, <2>9, <2>10, <2>11, <2>12, <2>13, <2>14
       DEF CNext, Generate
<1>2. Book'
  BY <1>1, KeepsBook DEF Proper, CInv
<1> QED
  BY <1>1, <1>2 DEF Proper, CInv

(* The end of the script.  *)
LEMMA AtEnd ==
  ASSUME CInv, Compiled
  PROVE  live = {} /\ HeldNow = {} /\ Open(code, labels) = {}
<1>1. PICK z : Legal(<< >>, Cur, z) /\ Drained(z)
  BY DEF CInv, Ahead, Compiled
<1>2. PICK st : Runs(st, << >>, Cur, z)
  BY <1>1 DEF Legal
<1>3. Len(<< >>) = 0
  OBVIOUS
<1>4. Weaker(z, Cur)
  BY <1>2, <1>3 DEF Runs
<1> QED
  BY <1>1, <1>4 DEF Weaker, Drained, Cur, St

-----------------------------------------------------------------------------
(* code-generation.c, for every program that the semantic analysis lets    *)
(* through, any number of registers and any number of labels: whatever is  *)
(* left of the script of the function is legal in every state.             *)
THEOREM CompilerInvariant == CSpec => []CInv
<1>1. CInit => CInv
  BY StartInv
<1>2. CInv /\ [CNext]_allVars => CInv'
  BY StepInvariant
<1> QED
  BY <1>1, <1>2, PTL DEF CSpec

(* register.c lines 81-140: no expression, call or condition locks more    *)
(* temporaries than REG_LOCK_MAX allows, so that lock never returns NULL   *)
(* and no instruction names a register that the pool refused.              *)
THEOREM LocksAlwaysGranted == CSpec => []LocksGranted
<1>1. CInv => LocksGranted
  BY DEF CInv, Text, NamesOK, Named, LocksGranted
<1> QED
  BY <1>1, CompilerInvariant, PTL

(* state->label_number: in the text of a function no label is defined      *)
(* twice, and every branch and every literal has its label, in the text    *)
(* or in the data, however statements and short circuits are nested.       *)
THEOREM LabelsStayUnique == CSpec => []LabelsUnique
<1>1. CInv => LabelsUnique
  <2> SUFFICES ASSUME CInv, Compiled PROVE LabelsUnique
    BY DEF LabelsUnique
  <2> DEFINE Defined == {k \in DOMAIN code : code[k].f \in {"label", "data"}}
  <2>1. Defined = PlacesIn(code)
    BY DEF PlacesIn, Places
  <2>2. LabelsOK(code, labels, labelNumber) /\ Open(code, labels) = {}
    BY AtEnd DEF CInv, Text
  <2>3. \A k, j \in Defined : code[k].a = code[j].a => k = j
    BY <2>1, <2>2 DEF LabelsOK
  <2>4. ASSUME NEW k \in DOMAIN code, Uses(code[k].f)
        PROVE  \E j \in Defined : code[j].a = code[k].a
                 /\ (code[j].f = "data" <=> code[k].f = "literal")
    <3>1. Target(code, labels, code[k])
      BY <2>2, <2>4 DEF LabelsOK
    <3> QED
      BY <2>1, <2>2, <3>1 DEF Target
  <2>5. ASSUME NEW k \in DOMAIN code
        PROVE  /\ code[k].f = "b" => \E j \in Defined :
                    code[j].f = "label" /\ code[j].a = code[k].a
               /\ code[k].f = "literal" => \E j \in Defined :
                    code[j].f = "data" /\ code[j].a = code[k].a
    <3>1. CASE code[k].f = "b"
      <4>1. PICK j \in Defined : code[j].a = code[k].a /\ code[j].f # "data"
        BY <2>4, <3>1 DEF Uses
      <4> QED
        BY <3>1, <4>1
    <3>2. CASE code[k].f = "literal"
      <4>1. PICK j \in Defined : code[j].a = code[k].a /\ code[j].f = "data"
        BY <2>4, <3>2 DEF Uses
      <4> QED
        BY <3>2, <4>1
    <3> QED
      BY <3>1, <3>2
  <2> QED
    BY <2>3, <2>5 DEF LabelsUnique
<1> QED
  BY <1>1, CompilerInvariant, PTL

(* The handlers of code-generation.c give back what they take: when the    *)
(* function has been compiled nothing is allocated, spilled or locked.     *)
THEOREM PoolIsDrained == CSpec => []PoolDrained
<1>1. CInv => PoolDrained
  BY AtEnd, FewLive, Unheld DEF CInv, PoolDrained
<1> QED
  BY <1>1, CompilerInvariant, PTL

(* The code generator is a client that register.c can rely on: its steps   *)
(* are steps of RegPool's callers, which frees nothing that is locked and  *)
(* moves current_offset only while nothing is allocated.  With the         *)
(* theorems about RegPool this holds of the pool under every program.      *)
THEOREM CompilerUsesPool == CSpec => UsesPool
<1>1. CInit => Pool!Init
  BY StartPool
<1>2. CInv /\ [CNext]_allVars => [Pool!Next]_(Pool!vars)
  BY StepInvariant
<1> QED
  BY <1>1, <1>2, CompilerInvariant, PoolIsDrained, PTL DEF CSpec, UsesPool, Pool!Spec

(* register.c lines 101, 167 and 206: under every program the searches of  *)
(* the pool find what the code looks for, and none of the three assertions *)
(* fails while the compiler runs.                                          *)
THEOREM AssertionsHold == CSpec => []SearchFindsOwner
<1>1. CInv => SearchFindsOwner
  <2> SUFFICES ASSUME CInv, NEW t \in live
               PROVE  /\ top <= Num => RegIndex(t) < Num
                      /\ RegIndex(t) < Num => RegIndex(t) < top /\ tmpReg[t] = list[RegIndex(t)]
                      /\ RegIndex(t) >= Num => SpillIndex(t) < Spilled
                      /\ lockCnt < LockMax => FirstUnlocked < Num
    BY DEF SearchFindsOwner
  <2>1. Num \in Nat /\ top \in Nat /\ Spilled \in Nat
    BY PoolAssumption DEF CInv, Book, Typed, Spilled
  <2>2. lockCnt < LockMax => FirstUnlocked < Num
    BY <2>1, Searches DEF CInv, Index
  <2>3. CASE tmpReg[t] # NULL
    <3>1. /\ RegIndex(t) \in 0 .. Num - 1 /\ RegIndex(t) < top
          /\ list[RegIndex(t)] = tmpReg[t]
      BY <2>3, Searches DEF CInv, Index
    <3> QED
      BY <2>1, <2>2, <3>1
  <2>4. CASE tmpReg[t] = NULL
    <3>1. top > Num /\ RegIndex(t) = Num /\ SpillIndex(t) \in 0 .. Spilled - 1
      BY <2>4, Searches DEF CInv
    <3> QED
      BY <2>1, <2>2, <3>1
  <2> QED
    BY <2>3, <2>4
<1> QED
  BY <1>1, CompilerInvariant, PTL
=============================================================================
