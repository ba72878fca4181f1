--------------------------- MODULE ScopingProofs ----------------------------
(***************************************************************************)
(* Lemmas about the operators of SymbolTable and about the texts of        *)
(* ScopePasses.                                                            *)
(***************************************************************************)
EXTENDS ScopePasses, Induction

Scope == [syms : Seq(Symbol), next : Nat, by : Nat]
Table == [all : Seq(Scope), this : Nat, current : Nat]

(* The links lead to scopes that were opened before.  *)
Linked(T) == \A i \in DOMAIN T.all : T.all[i].next \in 0 .. i - 1

(* C are the scopes from the current one outwards.  *)
Chain(T, C) ==
  /\ C \subseteq DOMAIN T.all
  /\ T.current \in C
  /\ \A i \in C : i <= T.current
  /\ \A i \in C : T.all[i].next \in C \cup {0}
  /\ \A i, j \in C : j < i => j <= T.all[i].next

-----------------------------------------------------------------------------
(* A search along links that lead downwards is defined for every start. *)
SearchAlong(g, N, Stop, next) ==
  /\ g = [i \in 0 .. N |-> g[i]]
  /\ \A i \in 0 .. N : g[i] = IF i = 0 \/ i \in Stop THEN i ELSE g[next[i]]

LEMMA SearchExists ==
  ASSUME NEW N \in Nat, NEW Stop, NEW next, \A i \in 1 .. N : next[i] \in 0 .. i - 1
  PROVE  \E g : SearchAlong(g, N, Stop, next)
<1> DEFINE Is(g, n) ==
             g = [i \in 0 .. n |-> IF i = 0 \/ i \in Stop THEN i ELSE g[next[i]]]
           A == {n \in Nat : n <= N => \E g : Is(g, n)}
<1>1. 0 \in A
  <2>1. Is([i \in 0 .. 0 |-> 0], 0)
    OBVIOUS
  <2> QED
    BY <2>1
<1>2. ASSUME NEW n \in Nat, n \in A
      PROVE  n + 1 \in A
  <2>1. CASE n + 1 <= N
    <3>1. \E g : Is(g, n)
      BY <1>2, <2>1
    <3>2. PICK g : Is(g, n)
      BY <3>1
    <3> DEFINE h == [i \in 0 .. n + 1 |->
                       IF i <= n THEN g[i]
                       ELSE IF i \in Stop THEN i ELSE g[next[i]]]
    <3>3. \A i \in 0 .. n : h[i] = g[i]
      OBVIOUS
    <3>4. h[n + 1] = IF n + 1 \in Stop THEN n + 1 ELSE g[next[n + 1]]
      OBVIOUS
    <3>5. h = [i \in 0 .. n + 1 |-> h[i]]
      OBVIOUS
    <3> HIDE DEF h
    <3>6. ASSUME NEW i \in 0 .. n + 1
          PROVE  h[i] = IF i = 0 \/ i \in Stop THEN i ELSE h[next[i]]
      <4>1. CASE i = 0
        BY <3>2, <3>3, <4>1
      <4>2. CASE i \in 1 .. n
        <5>1. g[i] = IF i \in Stop THEN i ELSE g[next[i]]
          BY <3>2, <4>2
        <5>2. next[i] \in 0 .. n
          BY <4>2, <2>1
        <5> QED
          BY <3>3, <4>2, <5>1, <5>2
      <4>3. CASE i = n + 1
        <5>1. next[i] \in 0 .. n
          BY <4>3, <2>1
        <5> QED
          BY <3>3, <3>4, <4>3, <5>1
      <4> QED
        BY <4>1, <4>2, <4>3
    <3>7. Is(h, n + 1)
      BY <3>5, <3>6
    <3> QED
      BY <3>7
  <2>2. CASE ~ (n + 1 <= N)
    BY <2>2
  <2> QED
    BY <2>1, <2>2
<1>3. N \in A
  <2> HIDE DEF A
  <2> QED
    BY <1>1, <1>2, SetInduction
<1>4. PICK g : Is(g, N)
  BY <1>3
<1>5. g = [i \in 0 .. N |-> g[i]]
  BY <1>4
<1>6. \A i \in 0 .. N : g[i] = IF i = 0 \/ i \in Stop THEN i ELSE g[next[i]]
  BY <1>4
<1> QED
  BY <1>5, <1>6 DEF SearchAlong

LEMMA TableType ==
  ASSUME NEW T \in Table
  PROVE  /\ T.all \in Seq(Scope)
         /\ Len(T.all) \in Nat
         /\ DOMAIN T.all = 1 .. Len(T.all)
         /\ T.this \in Nat
         /\ T.current \in Nat
         /\ \A i \in 1 .. Len(T.all) : T.all[i] \in Scope
BY DEF Table

(* The search of Holder, by its definition.  *)
Searches(s, T, x) ==
  /\ s[0] = 0
  /\ \A i \in 1 .. Len(T.all) :
       s[i] = IF Named(T.all[i], x) # {} THEN i ELSE s[T.all[i].next]

LEMMA HolderDef ==
  ASSUME NEW T \in Table, Linked(T), NEW x
  PROVE  \E s : Holder(T, x) = s[T.current] /\ Searches(s, T, x)
<1> DEFINE N == Len(T.all)
           Is(g) == g = [i \in 0 .. N |->
                           IF i = 0 \/ Named(T.all[i], x) # {} THEN i
                           ELSE g[T.all[i].next]]
           Stop == {i \in 1 .. N : Named(T.all[i], x) # {}}
           next == [i \in 1 .. N |-> T.all[i].next]
<1>0. N \in Nat /\ DOMAIN T.all = 1 .. N
  BY TableType
<1>1. \E g : SearchAlong(g, N, Stop, next)
  <2>1. \A i \in 1 .. N : next[i] \in 0 .. i - 1
    BY <1>0 DEF Linked
  <2> HIDE DEF N, Stop, next
  <2> QED
    BY <1>0, <2>1, SearchExists
<1>2. PICK g : SearchAlong(g, N, Stop, next)
  BY <1>1
<1>3. Is(g)
  <2>1. \A i \in 0 .. N : g[i] = IF i = 0 \/ Named(T.all[i], x) # {} THEN i
                                  ELSE g[T.all[i].next]
    <3> TAKE i \in 0 .. N
    <3> HIDE DEF N
    <3>1. i # 0 => (i \in Stop <=> Named(T.all[i], x) # {}) /\ next[i] = T.all[i].next
      BY <1>0
    <3>2. g[i] = IF i = 0 \/ i \in Stop THEN i ELSE g[next[i]]
      BY <1>2 DEF SearchAlong
    <3> HIDE DEF Stop, next
    <3> QED
      BY <3>1, <3>2
  <2>2. g = [i \in 0 .. N |-> g[i]]
    BY <1>2 DEF SearchAlong
  <2> HIDE DEF N
  <2> QED
    BY <2>1, <2>2
<1> DEFINE s == CHOOSE search : Is(search)
<1>4. Is(s)
  <2> HIDE DEF Is
  <2> QED
    BY <1>3
<1>5. Holder(T, x) = s[T.current]
  BY DEF Holder
<1>6. Searches(s, T, x)
  <2> HIDE DEF s
  <2>1. \A i \in 0 .. N : s[i] = IF i = 0 \/ Named(T.all[i], x) # {} THEN i
                                  ELSE s[T.all[i].next]
    BY <1>4
  <2>2. s[0] = 0
    BY <2>1, <1>0
  <2>3. ASSUME NEW i \in 1 .. N
        PROVE  s[i] = IF Named(T.all[i], x) # {} THEN i ELSE s[T.all[i].next]
    <3>1. i \in 0 .. N /\ i # 0
      BY <1>0
    <3> QED
      BY <2>1, <3>1
  <2> QED
    BY <2>2, <2>3 DEF Searches
<1> HIDE DEF s
<1> QED
  BY <1>5, <1>6

(* The search ends at the innermost scope of the chain that has the name.  *)
LEMMA HolderInChain ==
  ASSUME NEW T \in Table, Linked(T), NEW C, Chain(T, C), NEW x
  PROVE  \/ /\ Holder(T, x) = 0
            /\ \A i \in C : Named(T.all[i], x) = {}
         \/ /\ Holder(T, x) \in C
            /\ Named(T.all[Holder(T, x)], x) # {}
            /\ \A i \in C : Named(T.all[i], x) # {} => i <= Holder(T, x)
<1>0. Len(T.all) \in Nat /\ DOMAIN T.all = 1 .. Len(T.all)
  BY TableType
<1>1. PICK s : Holder(T, x) = s[T.current] /\ Searches(s, T, x)
  BY HolderDef
<1> DEFINE Ends(i) ==
      \/ s[i] = 0 /\ \A j \in C : j <= i => Named(T.all[j], x) = {}
      \/ /\ s[i] \in C
         /\ Named(T.all[s[i]], x) # {}
         /\ \A j \in C : j <= i /\ Named(T.all[j], x) # {} => j <= s[i]
<1>2. C \subseteq 1 .. Len(T.all) /\ C \subseteq Nat
  BY <1>0 DEF Chain
<1>3. \A i \in C : Ends(i)
  <2> SUFFICES ASSUME {i \in C : ~ Ends(i)} # {}
               PROVE  FALSE
    OBVIOUS
  <2>1. PICK i \in {i \in C : ~ Ends(i)} : \A j \in {j \in C : ~ Ends(j)} : i <= j
    <3> HIDE DEF Ends
    <3> DEFINE B == {j \in C : ~ Ends(j)}
    <3>1. B \in SUBSET Nat /\ B # {}
      BY <1>2
    <3> HIDE DEF B
    <3>2. \E m \in B : \A k \in B : m <= k
      BY <3>1, LeastNumber
    <3> QED
      BY <3>2 DEF B
  <2>2. i \in C /\ i \in 1 .. Len(T.all) /\ i # 0
    BY <2>1, <1>2
  <2>3. s[i] = IF Named(T.all[i], x) # {} THEN i ELSE s[T.all[i].next]
    BY <1>1, <2>2 DEF Searches
  <2>4. CASE Named(T.all[i], x) # {}
    <3>1. s[i] = i
      BY <2>3, <2>4
    <3> QED
      BY <3>1, <2>1, <2>2, <2>4
  <2>5. CASE Named(T.all[i], x) = {}
    <3> DEFINE n == T.all[i].next
    <3>1. s[i] = s[n] /\ n \in C \cup {0} /\ n < i /\ n \in Nat
      BY <2>3, <2>5, <2>2, <1>0 DEF Chain, Linked
    <3>2. \A j \in C : j <= i => j = i \/ j <= n
      BY <2>2, <1>2 DEF Chain
    <3>3. CASE n = 0
      <4>1. s[i] = 0
        BY <1>1, <3>1, <3>3, <1>0 DEF Searches
      <4>2. \A j \in C : j <= i => Named(T.all[j], x) = {}
        BY <3>2, <3>3, <1>2, <2>5
      <4> QED
        BY <4>1, <4>2, <2>1
    <3>4. CASE n \in C
      <4>1. Ends(n)
        <5> HIDE DEF Ends
        <5> QED
          BY <3>1, <3>4, <2>1, <2>2
      <4> QED
        BY <4>1, <3>1, <3>2, <2>5, <2>1
    <3> QED
      BY <3>1, <3>3, <3>4
  <2> QED
    BY <2>4, <2>5
<1>4. T.current \in C /\ \A i \in C : i <= T.current
  BY DEF Chain
<1> HIDE DEF Ends
<1>5. Ends(T.current)
  BY <1>3, <1>4
<1> QED
  BY <1>1, <1>4, <1>5 DEF Ends

-----------------------------------------------------------------------------
(* What can be in a text, and the order in which it can be.  *)
Items ==
  [k : {"global", "function", "block", "local", "use", "call", "close"},
   name : Name \cup {NULL}, init : Name \cup {NULL}, params : Seq(Name)]

HasName(item) == item.k \in {"global", "function", "local", "use", "call"}

Texts == {t \in Seq(Items) : \A k \in DOMAIN t : HasName(t[k]) => t[k].name \in Name}

Grammatical(t) ==
  \A k \in DOMAIN t :
    /\ t[k].k \in {"global", "function"} => Level(t)[k - 1] = 0
    /\ t[k].k \in {"block", "local", "use", "call", "close"} => Level(t)[k - 1] >= 1
    /\ t[k].k = "local" => k > 1 /\ t[k - 1].k \in {"function", "block", "local"}

LEMMA TextType ==
  ASSUME NEW t \in Texts
  PROVE  /\ Len(t) \in Nat
         /\ DOMAIN t = 1 .. Len(t)
         /\ \A k \in 1 .. Len(t) : t[k] \in Items
BY DEF Texts

(* The sums of a sequence of numbers exist.  *)
SumsUp(g, N, d) ==
  /\ g = [k \in 0 .. N |-> g[k]]
  /\ g[0] = 0
  /\ \A k \in 1 .. N : g[k] = g[k - 1] + d[k]
  /\ \A k \in 0 .. N : g[k] \in Int

LEMMA SumsExist ==
  ASSUME NEW N \in Nat, NEW d, \A k \in 1 .. N : d[k] \in Int
  PROVE  \E g : SumsUp(g, N, d)
<1> DEFINE A == {n \in Nat : n <= N => \E g : SumsUp(g, n, d)}
<1>1. 0 \in A
  <2>1. SumsUp([k \in 0 .. 0 |-> 0], 0, d)
    BY DEF SumsUp
  <2> QED
    BY <2>1
<1>2. ASSUME NEW n \in Nat, n \in A
      PROVE  n + 1 \in A
  <2>1. CASE n + 1 <= N
    <3>1. \E g : SumsUp(g, n, d)
      BY <1>2, <2>1
    <3>2. PICK g : SumsUp(g, n, d)
      BY <3>1
    <3> DEFINE h == [k \in 0 .. n + 1 |-> IF k <= n THEN g[k] ELSE g[n] + d[n + 1]]
    <3>3. \A k \in 0 .. n : h[k] = g[k]
      OBVIOUS
    <3>4. h[n + 1] = g[n] + d[n + 1]
      OBVIOUS
    <3>5. h = [k \in 0 .. n + 1 |-> h[k]]
      OBVIOUS
    <3> HIDE DEF h
    <3>6. h[0] = 0
      BY <3>2, <3>3 DEF SumsUp
    <3>7. \A k \in 0 .. n + 1 : h[k] \in Int
      <4>1. g[n] \in Int /\ d[n + 1] \in Int
        BY <3>2, <2>1 DEF SumsUp
      <4>2. \A k \in 0 .. n : h[k] \in Int
        BY <3>2, <3>3 DEF SumsUp
      <4> QED
        BY <3>4, <4>1, <4>2
    <3>8. ASSUME NEW k \in 1 .. n + 1
          PROVE  h[k] = h[k - 1] + d[k]
      <4>1. CASE k = n + 1
        BY <4>1, <3>3, <3>4
      <4>2. CASE k \in 1 .. n
        <5>1. g[k] = g[k - 1] + d[k]
          BY <3>2, <4>2 DEF SumsUp
        <5> QED
          BY <3>3, <4>2, <5>1
      <4> QED
        BY <4>1, <4>2
    <3>9. SumsUp(h, n + 1, d)
      BY <3>5, <3>6, <3>7, <3>8 DEF SumsUp
    <3> QED
      BY <3>9
  <2>2. CASE ~ (n + 1 <= N)
    BY <2>2
  <2> QED
    BY <2>1, <2>2
<1>3. N \in A
  <2> HIDE DEF A
  <2> QED
    BY <1>1, <1>2, SetInduction
<1> QED
  BY <1>3

(* The level, by its definition.  *)
LevelFits(t) ==
  /\ Level(t)[0] = 0
  /\ \A k \in 1 .. Len(t) : Level(t)[k] = Level(t)[k - 1] + Opens(t, k)
  /\ \A k \in 0 .. Len(t) : Level(t)[k] \in Int

LEMMA LevelDef ==
  ASSUME NEW t \in Texts
  PROVE  LevelFits(t)
<1> DEFINE N == Len(t)
           d == [k \in 1 .. N |-> Opens(t, k)]
           Is(g) == g = [k \in 0 .. N |-> IF k = 0 THEN 0 ELSE g[k - 1] + Opens(t, k)]
<1>1. N \in Nat
  BY TextType
<1>2. \A k \in 1 .. N : Opens(t, k) \in Int
  BY DEF Opens
<1>3. PICK g : SumsUp(g, N, d)
  <2>1. \A k \in 1 .. N : d[k] \in Int
    BY <1>2
  <2> HIDE DEF d, N
  <2> QED
    BY <1>1, <2>1, SumsExist
<1>4. Is(g)
  <2>1. \A k \in 0 .. N : g[k] = IF k = 0 THEN 0 ELSE g[k - 1] + Opens(t, k)
    <3> TAKE k \in 0 .. N
    <3>1. k = 0 \/ k \in 1 .. N
      BY <1>1
    <3> HIDE DEF N
    <3>2. k \in 1 .. N => d[k] = Opens(t, k)
      OBVIOUS
    <3> HIDE DEF d
    <3> QED
      BY <1>3, <3>1, <3>2 DEF SumsUp
  <2>2. g = [k \in 0 .. N |-> g[k]]
    BY <1>3 DEF SumsUp
  <2> HIDE DEF N
  <2> QED
    BY <2>1, <2>2
<1> DEFINE l == CHOOSE level : Is(level)
<1>5. Is(l)
  <2> HIDE DEF Is
  <2> QED
    BY <1>4
<1>6. Level(t) = l
  BY DEF Level
<1> HIDE DEF l
<1>7. \A k \in 0 .. N : Level(t)[k] = IF k = 0 THEN 0 ELSE Level(t)[k - 1] + Opens(t, k)
  BY <1>5, <1>6
<1> HIDE DEF N
<1>8. Level(t)[0] = 0
  BY <1>1, <1>7
<1>9. \A k \in 1 .. N : Level(t)[k] = Level(t)[k - 1] + Opens(t, k)
  BY <1>1, <1>7
<1>10. \A k \in 0 .. N : Level(t)[k] \in Int
  <2> DEFINE A == {n \in Nat : n <= N => Level(t)[n] \in Int}
  <2>1. 0 \in A
    BY <1>8
  <2>2. ASSUME NEW n \in Nat, n \in A
        PROVE  n + 1 \in A
    <3>1. n + 1 <= N => Level(t)[n + 1] = Level(t)[n] + Opens(t, n + 1)
      BY <1>1, <1>9
    <3>2. n + 1 <= N => Opens(t, n + 1) \in Int
      BY <1>1, <1>2
    <3> QED
      BY <1>1, <2>2, <3>1, <3>2
  <2>3. Nat \subseteq A
    <3> HIDE DEF A
    <3> QED
      BY <2>1, <2>2, SetInduction
  <2> QED
    BY <2>3, <1>1
<1> QED
  BY <1>8, <1>9, <1>10 DEF LevelFits, N

LEMMA LevelNat ==
  ASSUME NEW t \in Texts, Grammatical(t), NEW k \in 0 .. Len(t)
  PROVE  Level(t)[k] \in Nat
<1>1. LevelFits(t) /\ Len(t) \in Nat /\ DOMAIN t = 1 .. Len(t)
  BY LevelDef, TextType
<1>2. CASE k = 0
  BY <1>1, <1>2 DEF LevelFits
<1>3. CASE k \in 1 .. Len(t)
  <2>1. /\ Level(t)[k] = Level(t)[k - 1] + Opens(t, k)
        /\ Level(t)[k - 1] \in Int
    BY <1>1, <1>3 DEF LevelFits
  <2>2. t[k].k \in {"global", "function", "block", "local", "use", "call", "close"}
    BY <1>3, TextType DEF Items
  <2>3. (Level(t)[k - 1] = 0 /\ Opens(t, k) >= 0) \/ Level(t)[k - 1] >= 1
    <3>1. CASE t[k].k \in {"global", "function"}
      <4>1. Level(t)[k - 1] = 0
        BY <1>1, <1>3, <3>1 DEF Grammatical
      <4>2. Opens(t, k) >= 0
        BY <3>1 DEF Opens, Opener
      <4> QED
        BY <4>1, <4>2
    <3>2. CASE t[k].k \in {"block", "local", "use", "call", "close"}
      BY <1>1, <1>3, <3>2 DEF Grammatical
    <3> QED
      BY <2>2, <3>1, <3>2
  <2>4. Opens(t, k) \in {-1, 0, 1}
    BY DEF Opens
  <2> QED
    BY <2>1, <2>3, <2>4
<1> QED
  BY <1>1, <1>2, <1>3

(* The level changes by one item at a time.  *)
LEMMA LevelStep ==
  ASSUME NEW t \in Texts, Grammatical(t), NEW k \in 1 .. Len(t)
  PROVE  /\ Opener(t, k) => Level(t)[k] = Level(t)[k - 1] + 1
         /\ t[k].k = "close" => Level(t)[k] = Level(t)[k - 1] - 1
         /\ ~ Opener(t, k) /\ t[k].k # "close" => Level(t)[k] = Level(t)[k - 1]
         /\ Level(t)[k] \in Nat
         /\ Level(t)[k - 1] \in Nat
<1>1. LevelFits(t) /\ Len(t) \in Nat
  BY LevelDef, TextType
<1>2. Level(t)[k] \in Nat /\ Level(t)[k - 1] \in Nat
  BY <1>1, LevelNat
<1>3. Level(t)[k] = Level(t)[k - 1] + Opens(t, k)
  BY <1>1 DEF LevelFits
<1> QED
  BY <1>2, <1>3 DEF Opens, Opener

LEMMA OpenDef ==
  ASSUME NEW t \in Texts, NEW k \in 0 .. Len(t), NEW m
  PROVE  m \in OpenBlocks(t, k) <=>
           /\ m \in 1 .. k
           /\ Opener(t, m)
           /\ \A n \in m .. k : Level(t)[n] >= Level(t)[m]
BY DEF OpenBlocks

(* Of two open blocks the inner one has the higher level.  *)
LEMMA OpenLevels ==
  ASSUME NEW t \in Texts, Grammatical(t), NEW k \in 0 .. Len(t),
         NEW m \in OpenBlocks(t, k)
  PROVE  /\ m \in 1 .. k
         /\ Opener(t, m)
         /\ Level(t)[m] \in 1 .. Level(t)[k]
         /\ \A n \in OpenBlocks(t, k) : m < n => Level(t)[m] < Level(t)[n]
         /\ \A n \in OpenBlocks(t, k) : Level(t)[m] = Level(t)[n] => m = n
<1>0. Len(t) \in Nat
  BY TextType
<1>1. /\ m \in 1 .. k
      /\ Opener(t, m)
      /\ \A n \in m .. k : Level(t)[n] >= Level(t)[m]
  BY OpenDef
<1>2. Level(t)[m] = Level(t)[m - 1] + 1 /\ Level(t)[m - 1] \in Nat
  BY <1>0, <1>1, LevelStep
<1>3. Level(t)[k] >= Level(t)[m] /\ Level(t)[k] \in Nat
  BY <1>0, <1>1, LevelNat
<1>4. ASSUME NEW a \in OpenBlocks(t, k), NEW b \in OpenBlocks(t, k), a < b
      PROVE  Level(t)[a] < Level(t)[b]
  <2>1. a \in 1 .. k /\ \A n \in a .. k : Level(t)[n] >= Level(t)[a]
    BY OpenDef
  <2>2. b \in 1 .. k /\ Opener(t, b)
    BY OpenDef
  <2>3. Level(t)[b] = Level(t)[b - 1] + 1 /\ Level(t)[b - 1] \in Nat
    BY <1>0, <2>2, LevelStep
  <2>4. Level(t)[b - 1] >= Level(t)[a] /\ Level(t)[a] \in Nat
    BY <1>0, <2>1, <2>2, <1>4, LevelNat
  <2> QED
    BY <2>3, <2>4
<1>5. ASSUME NEW n \in OpenBlocks(t, k), Level(t)[m] = Level(t)[n]
      PROVE  m = n
  <2>1. n \in 1 .. k /\ Level(t)[n] \in Nat
    BY <1>0, OpenDef, LevelNat
  <2>2. ~ (m < n) /\ ~ (n < m)
    BY <1>4, <1>5, <2>1
  <2> QED
    BY <1>1, <2>1, <2>2
<1> QED
  BY <1>1, <1>2, <1>3, <1>4, <1>5

(* On every level up to the present one a block is open.  *)
LEMMA OpenAtLevel ==
  ASSUME NEW t \in Texts, Grammatical(t), NEW k \in 0 .. Len(t),
         NEW v \in 1 .. Level(t)[k]
  PROVE  \E m \in OpenBlocks(t, k) : Level(t)[m] = v
<1>0. LevelFits(t) /\ Len(t) \in Nat
  BY LevelDef, TextType
<1> DEFINE B == {m \in 0 .. k : \A n \in m .. k : Level(t)[n] >= v}
<1>1. PICK m \in B : \A n \in B : m <= n
  <2>1. k \in B /\ B \in SUBSET Nat
    <3>1. \A n \in k .. k : n = k
      BY <1>0
    <3>2. Level(t)[k] >= v
      BY LevelNat
    <3> QED
      BY <1>0, <3>1, <3>2
  <2> HIDE DEF B
  <2> QED
    BY <2>1, LeastNumber
<1>2. m # 0
  BY <1>0, <1>1, LevelNat DEF LevelFits
<1>3. m - 1 \in 0 .. k /\ m \in 1 .. k /\ m \in 1 .. Len(t)
  BY <1>0, <1>1, <1>2
<1>4. Level(t)[m - 1] < v
  <2>1. m - 1 \notin B
    BY <1>1, <1>3
  <2>2. PICK n \in m - 1 .. k : ~ (Level(t)[n] >= v)
    BY <2>1, <1>3
  <2>3. n \notin m .. k
    BY <2>2, <1>1
  <2>4. n = m - 1
    BY <2>3, <1>3
  <2>5. Level(t)[m - 1] \in Nat /\ v \in Int
    BY <1>0, <1>3, LevelNat
  <2> QED
    BY <2>2, <2>4, <2>5
<1>5. Level(t)[m] >= v
  BY <1>1, <1>3
<1>6. Opener(t, m) /\ Level(t)[m] = v
  <2>1. /\ Opener(t, m) => Level(t)[m] = Level(t)[m - 1] + 1
        /\ ~ Opener(t, m) => Level(t)[m] <= Level(t)[m - 1]
        /\ Level(t)[m] \in Nat /\ Level(t)[m - 1] \in Nat /\ v \in Nat
    BY <1>3, LevelStep, LevelNat
  <2> QED
    BY <1>4, <1>5, <2>1
<1>7. m \in OpenBlocks(t, k)
  BY <1>1, <1>3, <1>6, OpenDef
<1> QED
  BY <1>6, <1>7

LEMMA InnermostDef ==
  ASSUME NEW t \in Texts, NEW k \in 0 .. Len(t)
  PROVE  \/ OpenBlocks(t, k) = {} /\ Innermost(t, k) = 0
         \/ /\ Innermost(t, k) \in OpenBlocks(t, k)
            /\ \A n \in OpenBlocks(t, k) : n <= Innermost(t, k)
<1>1. CASE OpenBlocks(t, k) = {}
  BY <1>1 DEF Innermost
<1>2. CASE OpenBlocks(t, k) # {}
  <2>1. k \in Nat /\ OpenBlocks(t, k) \in SUBSET (0 .. k)
    BY TextType DEF OpenBlocks
  <2>2. \E m \in OpenBlocks(t, k) : \A n \in OpenBlocks(t, k) : n <= m
    BY <1>2, <2>1, GreatestNumber
  <2> QED
    BY <1>2, <2>2 DEF Innermost
<1> QED
  BY <1>1, <1>2

(* Only the open blocks matter to which one is innermost.  *)
LEMMA InnermostSame ==
  ASSUME NEW t, NEW u, NEW k, NEW m, OpenBlocks(t, k) = OpenBlocks(u, m)
  PROVE  Innermost(t, k) = Innermost(u, m)
BY DEF Innermost

LEMMA InnermostLevel ==
  ASSUME NEW t \in Texts, Grammatical(t), NEW k \in 0 .. Len(t)
  PROVE  /\ Innermost(t, k) \in 0 .. k
         /\ Level(t)[Innermost(t, k)] = Level(t)[k]
         /\ Innermost(t, k) = 0 <=> Level(t)[k] = 0
<1>0. LevelFits(t) /\ Len(t) \in Nat
  BY LevelDef, TextType
<1>1. Level(t)[k] \in Nat
  BY LevelNat
<1>2. CASE Level(t)[k] = 0
  <2>1. OpenBlocks(t, k) = {}
    <3> SUFFICES ASSUME NEW m \in OpenBlocks(t, k) PROVE FALSE
      OBVIOUS
    <3>1. Level(t)[m] \in 1 .. Level(t)[k]
      BY OpenLevels
    <3> QED
      BY <3>1, <1>2
  <2>2. Innermost(t, k) = 0
    BY <2>1 DEF Innermost
  <2> QED
    BY <2>2, <1>2, <1>0 DEF LevelFits
<1>3. CASE Level(t)[k] # 0
  <2>1. PICK m \in OpenBlocks(t, k) : Level(t)[m] = Level(t)[k]
    BY <1>1, <1>3, OpenAtLevel
  <2>2. /\ Innermost(t, k) \in OpenBlocks(t, k)
        /\ \A n \in OpenBlocks(t, k) : n <= Innermost(t, k)
    BY <2>1, InnermostDef
  <2> DEFINE h == Innermost(t, k)
  <2>3. h \in 1 .. k /\ Level(t)[h] \in 1 .. Level(t)[k] /\ m \in 1 .. k
    BY <2>1, <2>2, OpenLevels
  <2>4. m < h => Level(t)[m] < Level(t)[h]
    BY <2>1, <2>2, OpenLevels
  <2>5. m = h
    BY <1>1, <2>1, <2>2, <2>3, <2>4
  <2> QED
    BY <2>1, <2>3, <2>5, <1>3
<1> QED
  BY <1>2, <1>3

-----------------------------------------------------------------------------
(* What one item does to the blocks that are open.  *)
LEMMA OpenAfterOpener ==
  ASSUME NEW t \in Texts, Grammatical(t), NEW k \in 1 .. Len(t), Opener(t, k)
  PROVE  /\ OpenBlocks(t, k) = OpenBlocks(t, k - 1) \cup {k}
         /\ Innermost(t, k) = k
<1>0. Len(t) \in Nat /\ k - 1 \in 0 .. Len(t)
  BY TextType
<1>1. Level(t)[k] = Level(t)[k - 1] + 1 /\ Level(t)[k - 1] \in Nat
  BY LevelStep
<1>2. k \in OpenBlocks(t, k)
  <2>1. \A n \in k .. k : n = k
    BY <1>0
  <2> QED
    BY <1>0, <1>1, <2>1, OpenDef
<1>3. ASSUME NEW m \in OpenBlocks(t, k)
      PROVE  m = k \/ m \in OpenBlocks(t, k - 1)
  <2>1. m \in 1 .. k /\ Opener(t, m) /\ \A n \in m .. k : Level(t)[n] >= Level(t)[m]
    BY <1>0, OpenDef
  <2>2. m # k => m \in 1 .. k - 1 /\ \A n \in m .. k - 1 : n \in m .. k
    BY <1>0, <2>1
  <2> QED
    BY <1>0, <2>1, <2>2, OpenDef
<1>4. ASSUME NEW m \in OpenBlocks(t, k - 1)
      PROVE  m \in OpenBlocks(t, k)
  <2>1. m \in 1 .. k - 1 /\ Opener(t, m) /\ \A n \in m .. k - 1 : Level(t)[n] >= Level(t)[m]
    BY <1>0, OpenDef
  <2>2. Level(t)[m] \in Nat /\ Level(t)[k - 1] >= Level(t)[m]
    BY <1>0, <2>1, LevelNat
  <2>3. \A n \in m .. k : n = k \/ n \in m .. k - 1
    BY <1>0, <2>1
  <2>4. \A n \in m .. k : Level(t)[n] >= Level(t)[m]
    BY <1>1, <2>1, <2>2, <2>3
  <2> QED
    BY <1>0, <2>1, <2>4, OpenDef
<1>5. OpenBlocks(t, k) = OpenBlocks(t, k - 1) \cup {k}
  BY <1>2, <1>3, <1>4
<1>6. Innermost(t, k) \in OpenBlocks(t, k) /\ k <= Innermost(t, k)
  BY <1>0, <1>2, InnermostDef
<1>7. Innermost(t, k) \in 1 .. k
  BY <1>0, <1>6, OpenDef
<1> QED
  BY <1>5, <1>6, <1>7

LEMMA OpenAfterPlain ==
  ASSUME NEW t \in Texts, Grammatical(t), NEW k \in 1 .. Len(t),
         ~ Opener(t, k), t[k].k # "close"
  PROVE  /\ OpenBlocks(t, k) = OpenBlocks(t, k - 1)
         /\ Innermost(t, k) = Innermost(t, k - 1)
<1>0. Len(t) \in Nat /\ k - 1 \in 0 .. Len(t)
  BY TextType
<1>1. Level(t)[k] = Level(t)[k - 1] /\ Level(t)[k - 1] \in Nat
  BY LevelStep
<1>2. ASSUME NEW m \in OpenBlocks(t, k)
      PROVE  m \in OpenBlocks(t, k - 1)
  <2>1. m \in 1 .. k /\ Opener(t, m) /\ \A n \in m .. k : Level(t)[n] >= Level(t)[m]
    BY <1>0, OpenDef
  <2>2. m \in 1 .. k - 1 /\ \A n \in m .. k - 1 : n \in m .. k
    BY <1>0, <2>1
  <2> QED
    BY <1>0, <2>1, <2>2, OpenDef
<1>3. ASSUME NEW m \in OpenBlocks(t, k - 1)
      PROVE  m \in OpenBlocks(t, k)
  <2>1. m \in 1 .. k - 1 /\ Opener(t, m) /\ \A n \in m .. k - 1 : Level(t)[n] >= Level(t)[m]
    BY <1>0, OpenDef
  <2>2. Level(t)[m] \in Nat /\ Level(t)[k - 1] >= Level(t)[m]
    BY <1>0, <2>1, LevelNat
  <2>3. \A n \in m .. k : n = k \/ n \in m .. k - 1
    BY <1>0, <2>1
  <2>4. \A n \in m .. k : Level(t)[n] >= Level(t)[m]
    BY <1>1, <2>1, <2>2, <2>3
  <2> QED
    BY <1>0, <2>1, <2>4, OpenDef
<1>4. OpenBlocks(t, k) = OpenBlocks(t, k - 1)
  BY <1>2, <1>3
<1> QED
  BY <1>4, InnermostSame

(* The blocks open before an open block began are those further out.  *)
LEMMA OpenNested ==
  ASSUME NEW t \in Texts, Grammatical(t), NEW k \in 0 .. Len(t),
         NEW b \in OpenBlocks(t, k)
  PROVE  \A m : m \in OpenBlocks(t, b - 1) <=> m \in OpenBlocks(t, k) /\ m < b
<1>0. Len(t) \in Nat
  BY TextType
<1>1. b \in 1 .. k /\ Opener(t, b) /\ \A n \in b .. k : Level(t)[n] >= Level(t)[b]
  BY OpenDef
<1>2. Level(t)[b] = Level(t)[b - 1] + 1 /\ Level(t)[b - 1] \in Nat
  BY <1>0, <1>1, LevelStep
<1>3. ASSUME NEW m \in OpenBlocks(t, k), m < b
      PROVE  m \in OpenBlocks(t, b - 1)
  <2>1. m \in 1 .. k /\ Opener(t, m) /\ \A n \in m .. k : Level(t)[n] >= Level(t)[m]
    BY OpenDef
  <2>2. m \in 1 .. b - 1 /\ b - 1 \in 0 .. Len(t) /\ \A n \in m .. b - 1 : n \in m .. k
    BY <1>0, <1>1, <1>3, <2>1
  <2> QED
    BY <2>1, <2>2, OpenDef
<1>4. ASSUME NEW m \in OpenBlocks(t, b - 1)
      PROVE  m \in OpenBlocks(t, k) /\ m < b
  <2>0. b - 1 \in 0 .. Len(t)
    BY <1>0, <1>1
  <2>1. m \in 1 .. b - 1 /\ Opener(t, m) /\ \A n \in m .. b - 1 : Level(t)[n] >= Level(t)[m]
    BY <2>0, OpenDef
  <2>2. Level(t)[m] \in Nat /\ Level(t)[b - 1] >= Level(t)[m]
    BY <1>0, <1>1, <2>1, LevelNat
  <2>3. \A n \in m .. k : n \in m .. b - 1 \/ n \in b .. k
    BY <1>0, <1>1, <2>1
  <2>4. \A n \in 0 .. k : Level(t)[n] \in Nat
    BY <1>0, LevelNat
  <2>5. ASSUME NEW n \in m .. k
        PROVE  Level(t)[n] >= Level(t)[m]
    <3>1. CASE n \in m .. b - 1
      BY <2>1, <3>1
    <3>2. CASE n \in b .. k
      <4>1. Level(t)[n] >= Level(t)[b] /\ Level(t)[n] \in Nat
        BY <1>0, <1>1, <2>4, <3>2
      <4> QED
        BY <4>1, <2>2, <1>2
    <3> QED
      BY <2>3, <3>1, <3>2
  <2> QED
    BY <1>0, <1>1, <2>1, <2>5, OpenDef
<1> QED
  BY <1>3, <1>4

(* A closing brace closes the innermost block.  *)
LEMMA OpenAfterClose ==
  ASSUME NEW t \in Texts, Grammatical(t), NEW k \in 1 .. Len(t), t[k].k = "close"
  PROVE  /\ Innermost(t, k - 1) \in OpenBlocks(t, k - 1)
         /\ OpenBlocks(t, k) = OpenBlocks(t, Innermost(t, k - 1) - 1)
         /\ Innermost(t, k) = Innermost(t, Innermost(t, k - 1) - 1)
<1> DEFINE h == Innermost(t, k - 1)
<1>0. Len(t) \in Nat /\ k - 1 \in 0 .. Len(t) /\ DOMAIN t = 1 .. Len(t)
  BY TextType
<1>1. Level(t)[k] = Level(t)[k - 1] - 1 /\ Level(t)[k - 1] \in Nat /\ Level(t)[k] \in Nat
  BY LevelStep
<1>2. /\ h \in OpenBlocks(t, k - 1)
      /\ Level(t)[h] = Level(t)[k - 1]
      /\ \A n \in OpenBlocks(t, k - 1) : n <= h
  <2>1. Level(t)[k - 1] # 0
    BY <1>1
  <2> QED
    BY <1>0, <2>1, InnermostLevel, InnermostDef
<1>3. ASSUME NEW m \in OpenBlocks(t, k)
      PROVE  m \in OpenBlocks(t, k - 1) /\ m < h
  <2>1. m \in 1 .. k /\ Opener(t, m) /\ \A n \in m .. k : Level(t)[n] >= Level(t)[m]
    BY <1>0, OpenDef
  <2>2. m # k
    BY <2>1 DEF Opener
  <2>3. m \in 1 .. k - 1 /\ \A n \in m .. k - 1 : n \in m .. k
    BY <1>0, <2>1, <2>2
  <2>4. m \in OpenBlocks(t, k - 1)
    BY <1>0, <2>1, <2>3, OpenDef
  <2>5. Level(t)[m] <= Level(t)[k] /\ Level(t)[m] \in Nat
    BY <1>0, <2>1, LevelNat
  <2>6. m # h
    BY <1>1, <1>2, <2>5
  <2>7. m <= h /\ h \in Nat
    BY <1>0, <1>2, <2>4, OpenDef
  <2> QED
    BY <2>1, <2>4, <2>6, <2>7
<1>4. ASSUME NEW m \in OpenBlocks(t, k - 1), m < h
      PROVE  m \in OpenBlocks(t, k)
  <2>1. m \in 1 .. k - 1 /\ Opener(t, m) /\ \A n \in m .. k - 1 : Level(t)[n] >= Level(t)[m]
    BY <1>0, OpenDef
  <2>2. Level(t)[m] < Level(t)[k - 1] /\ Level(t)[m] \in Nat
    <3> HIDE DEF h
    <3>1. Level(t)[m] < Level(t)[h]
      BY <1>0, <1>2, <1>4, OpenLevels
    <3>2. Level(t)[m] \in Nat
      BY <1>0, <2>1, LevelNat
    <3> QED
      BY <1>2, <3>1, <3>2
  <2>3. \A n \in m .. k : n = k \/ n \in m .. k - 1
    BY <1>0, <2>1
  <2>4. \A n \in m .. k : Level(t)[n] >= Level(t)[m]
    BY <1>1, <2>1, <2>2, <2>3
  <2> QED
    BY <1>0, <2>1, <2>4, OpenDef
<1>5. \A m : m \in OpenBlocks(t, h - 1) <=> m \in OpenBlocks(t, k - 1) /\ m < h
  <2> HIDE DEF h
  <2> QED
    BY <1>0, <1>2, OpenNested
<1>6. OpenBlocks(t, k) = OpenBlocks(t, h - 1)
  <2> HIDE DEF h
  <2> QED
    BY <1>3, <1>4, <1>5
<1> QED
  BY <1>2, <1>6, InnermostSame

-----------------------------------------------------------------------------
(* What was read of a text does not change its meaning when more is read.  *)
Prefix(t, u) ==
  /\ Len(t) <= Len(u)
  /\ \A k \in 1 .. Len(t) : u[k] = t[k]

LEMMA PrefixLevel ==
  ASSUME NEW t \in Texts, NEW u \in Texts, Prefix(t, u)
  PROVE  \A k \in 0 .. Len(t) : Level(u)[k] = Level(t)[k]
<1>0. LevelFits(t) /\ LevelFits(u) /\ Len(t) \in Nat /\ Len(u) \in Nat
  BY LevelDef, TextType
<1> DEFINE A == {n \in Nat : n <= Len(t) => Level(u)[n] = Level(t)[n]}
<1>1. 0 \in A
  BY <1>0 DEF LevelFits
<1>2. ASSUME NEW n \in Nat, n \in A
      PROVE  n + 1 \in A
  <2> SUFFICES ASSUME n + 1 <= Len(t)
               PROVE  Level(u)[n + 1] = Level(t)[n + 1]
    OBVIOUS
  <2>1. n + 1 \in 1 .. Len(t) /\ n + 1 \in 1 .. Len(u) /\ (n + 1) - 1 = n
    BY <1>0 DEF Prefix
  <2>2. Opens(u, n + 1) = Opens(t, n + 1)
    BY <2>1 DEF Prefix, Opens, Opener
  <2>3. Level(u)[n] = Level(t)[n]
    BY <1>2, <1>0
  <2> QED
    BY <1>0, <2>1, <2>2, <2>3 DEF LevelFits
<1>3. Nat \subseteq A
  <2> HIDE DEF A
  <2> QED
    BY <1>1, <1>2, SetInduction
<1> QED
  BY <1>0, <1>3

LEMMA PrefixOpen ==
  ASSUME NEW t \in Texts, NEW u \in Texts, Prefix(t, u), NEW k \in 0 .. Len(t)
  PROVE  /\ OpenBlocks(u, k) = OpenBlocks(t, k)
         /\ Innermost(u, k) = Innermost(t, k)
<1>0. Len(t) \in Nat /\ Len(u) \in Nat /\ k \in 0 .. Len(u)
  BY TextType DEF Prefix
<1>1. \A n \in 0 .. k : Level(u)[n] = Level(t)[n]
  BY <1>0, PrefixLevel
<1>2. \A n \in 1 .. k : Opener(u, n) <=> Opener(t, n)
  BY <1>0 DEF Prefix, Opener
<1>3. ASSUME NEW m
      PROVE  m \in OpenBlocks(u, k) <=> m \in OpenBlocks(t, k)
  <2>1. m \in 1 .. k => m \in 0 .. k /\ \A n \in m .. k : n \in 0 .. k
    BY <1>0
  <2>2. m \in OpenBlocks(u, k) <=>
           /\ m \in 1 .. k
           /\ Opener(u, m)
           /\ \A n \in m .. k : Level(u)[n] >= Level(u)[m]
    BY <1>0, OpenDef
  <2>3. m \in OpenBlocks(t, k) <=>
           /\ m \in 1 .. k
           /\ Opener(t, m)
           /\ \A n \in m .. k : Level(t)[n] >= Level(t)[m]
    BY <1>0, OpenDef
  <2> QED
    BY <1>1, <1>2, <2>1, <2>2, <2>3
<1>4. OpenBlocks(u, k) = OpenBlocks(t, k)
  BY <1>3
<1> QED
  BY <1>4, InnermostSame

-----------------------------------------------------------------------------
(* The declarations of a text.  *)
LEMMA DeclarationCases ==
  ASSUME NEW t, NEW d
  PROVE  d \in Declarations(t) <=>
           \/ \E k \in DOMAIN t :
                t[k].k \in {"global", "function", "local"} /\ d = OfItem(t, k)
           \/ \E k \in DOMAIN t :
                t[k].k = "function" /\ \E i \in DOMAIN t[k].params : d = OfParam(t, k, i)
<1>1. d \in Declarations(t) <=>
        \/ d \in {OfItem(t, k) : k \in {k \in DOMAIN t : t[k].k \in {"global", "function", "local"}}}
        \/ d \in UNION {{OfParam(t, k, i) : i \in DOMAIN t[k].params} :
                 k \in {k \in DOMAIN t : t[k].k = "function"}}
  BY DEF Declarations
<1> QED
  BY <1>1

LEMMA ItemType ==
  ASSUME NEW t \in Texts, NEW k \in 1 .. Len(t)
  PROVE  /\ t[k].k \in {"global", "function", "block", "local", "use", "call", "close"}
         /\ t[k].name \in Name \cup {NULL}
         /\ t[k].init \in Name \cup {NULL}
         /\ t[k].params \in Seq(Name)
         /\ DOMAIN t[k].params = 1 .. Len(t[k].params)
         /\ Len(t[k].params) \in Nat
         /\ \A i \in DOMAIN t[k].params : t[k].params[i] \in Name
         /\ HasName(t[k]) => t[k].name \in Name
<1>1. t[k] \in Items
  BY TextType
<1>2. HasName(t[k]) => t[k].name \in Name
  BY TextType DEF Texts
<1>3. t[k].params \in Seq(Name)
  BY <1>1 DEF Items
<1> QED
  BY <1>1, <1>2, <1>3 DEF Items

(* The first item of the block that a declaration belongs to, 0 for none.  *)
Home(t, d) == IF d.level = 0 THEN 0 ELSE Innermost(t, d.by[1])

LEMMA DeclarationType ==
  ASSUME NEW t \in Texts, Grammatical(t), NEW d \in Declarations(t)
  PROVE  /\ d \in Declaration
         /\ d.by[1] \in 1 .. Len(t)
         /\ d.level # 0 => Level(t)[d.by[1]] = d.level
         /\ d.by[2] = 0 => /\ d = OfItem(t, d.by[1])
                           /\ t[d.by[1]].k \in {"global", "function", "local"}
         /\ d.by[2] # 0 => /\ d = OfParam(t, d.by[1], d.by[2])
                           /\ t[d.by[1]].k = "function"
                           /\ d.by[2] \in DOMAIN t[d.by[1]].params
<1>0. DOMAIN t = 1 .. Len(t) /\ Len(t) \in Nat
  BY TextType
<1>1. CASE \E k \in DOMAIN t :
             t[k].k \in {"global", "function", "local"} /\ d = OfItem(t, k)
  <2>1. PICK k \in 1 .. Len(t) :
               t[k].k \in {"global", "function", "local"} /\ d = OfItem(t, k)
    BY <1>0, <1>1
  <2>2. t[k].name \in Name
    BY <2>1, ItemType DEF HasName
  <2>3. Level(t)[k] \in Nat
    BY <1>0, LevelNat
  <2>4. d.by[1] = k /\ d.by[2] = 0
    BY <2>1 DEF OfItem
  <2>5. d \in Declaration
    BY <2>1, <2>2, <2>3, <1>0 DEF OfItem, Declaration, Kinds
  <2>6. d.level # 0 => Level(t)[k] = d.level
    BY <2>1 DEF OfItem
  <2> QED
    BY <2>1, <2>4, <2>5, <2>6
<1>2. CASE \E k \in DOMAIN t :
             t[k].k = "function" /\ \E i \in DOMAIN t[k].params : d = OfParam(t, k, i)
  <2>1. PICK k \in 1 .. Len(t) :
               t[k].k = "function" /\ \E i \in DOMAIN t[k].params : d = OfParam(t, k, i)
    BY <1>0, <1>2
  <2>2. PICK i \in DOMAIN t[k].params : d = OfParam(t, k, i)
    BY <2>1
  <2>3. t[k].params[i] \in Name /\ i \in Nat \ {0}
    BY <2>2, ItemType
  <2>4. d.by[1] = k /\ d.by[2] = i /\ d.level = 1
    BY <2>2 DEF OfParam
  <2>5. d \in Declaration
    BY <2>2, <2>3, <1>0 DEF OfParam, Declaration, Kinds
  <2>6. Level(t)[k] = 1
    <3>1. Level(t)[k - 1] = 0
      BY <1>0, <2>1 DEF Grammatical
    <3>2. Level(t)[k] = Level(t)[k - 1] + 1
      BY <2>1, LevelStep DEF Opener
    <3> QED
      BY <3>1, <3>2
  <2> QED
    BY <2>1, <2>2, <2>3, <2>4, <2>5, <2>6
<1> QED
  BY <1>1, <1>2, DeclarationCases

(* Where it is says which declaration it is.  *)
LEMMA DeclarationUnique ==
  ASSUME NEW t \in Texts, Grammatical(t),
         NEW d \in Declarations(t), NEW e \in Declarations(t), d.by = e.by
  PROVE  d = e
BY DeclarationType

LEMMA HomeLevel ==
  ASSUME NEW t \in Texts, Grammatical(t), NEW d \in Declarations(t)
  PROVE  /\ Home(t, d) \in 0 .. d.by[1]
         /\ Level(t)[Home(t, d)] = d.level
         /\ d.level # 0 => Home(t, d) \in OpenBlocks(t, d.by[1])
         /\ d.level = 0 <=> Home(t, d) = 0
<1>0. LevelFits(t) /\ Len(t) \in Nat
  BY LevelDef, TextType
<1>1. d.by[1] \in 1 .. Len(t) /\ (d.level # 0 => Level(t)[d.by[1]] = d.level)
  BY DeclarationType
<1>2. CASE d.level = 0
  BY <1>0, <1>1, <1>2 DEF Home, LevelFits
<1>3. CASE d.level # 0
  <2> DEFINE b == d.by[1]
  <2>1. b \in 0 .. Len(t)
    BY <1>0, <1>1
  <2> HIDE DEF b
  <2>2. /\ Innermost(t, b) \in 0 .. b
        /\ Level(t)[Innermost(t, b)] = Level(t)[b]
        /\ Innermost(t, b) = 0 <=> Level(t)[b] = 0
    BY <2>1, InnermostLevel
  <2>3. Innermost(t, b) # 0 => Innermost(t, b) \in OpenBlocks(t, b)
    BY <2>1, InnermostDef
  <2>4. Home(t, d) = Innermost(t, b)
    BY <1>3 DEF Home, b
  <2> QED
    BY <1>1, <1>3, <2>2, <2>3, <2>4 DEF b
<1> QED
  BY <1>2, <1>3

(* A declaration is visible while its block is open.  *)
LEMMA VisibleHome ==
  ASSUME NEW t \in Texts, Grammatical(t), NEW k \in 1 .. Len(t) + 1,
         NEW d \in Declarations(t)
  PROVE  d \in VisibleAt(t, k) <=>
           d.by[1] < k /\ Home(t, d) \in OpenBlocks(t, k - 1) \cup {0}
<1> DEFINE b == d.by[1]
           h == Home(t, d)
<1>0. Len(t) \in Nat /\ b \in 1 .. Len(t) /\ d.level \in Nat
  BY TextType, DeclarationType DEF Declaration
<1>1. d \in VisibleAt(t, k) <=> b < k /\ \A m \in b .. k - 1 : Level(t)[m] >= d.level
  BY DEF VisibleAt
<1>2. /\ h \in 0 .. b
      /\ Level(t)[h] = d.level
      /\ d.level # 0 => h \in OpenBlocks(t, b) /\ h # 0
      /\ d.level = 0 => h = 0
  BY HomeLevel
<1> HIDE DEF b, h
<1>3. CASE d.level = 0
  <2>1. \A m \in b .. k - 1 : Level(t)[m] \in Nat
    BY <1>0, LevelNat
  <2> QED
    BY <1>1, <1>2, <1>3, <2>1 DEF h, b
<1>4. CASE d.level # 0 /\ b < k
  <2>0. b \in 0 .. Len(t) /\ k - 1 \in 0 .. Len(t) /\ b \in 0 .. k - 1
    BY <1>0, <1>4
  <2>1. /\ h \in 1 .. b
        /\ Opener(t, h)
        /\ \A n \in h .. b : Level(t)[n] >= Level(t)[h]
    BY <1>2, <1>4, <2>0, OpenDef
  <2>2. h \in OpenBlocks(t, k - 1) <=> \A n \in h .. k - 1 : Level(t)[n] >= Level(t)[h]
    <3>1. h \in 1 .. k - 1
      BY <2>0, <2>1
    <3> QED
      BY <2>0, <2>1, <3>1, OpenDef
  <2>3. \A n \in h .. k - 1 : n \in h .. b \/ n \in b .. k - 1
    BY <2>0, <2>1
  <2>4. \A n \in b .. k - 1 : n \in h .. k - 1
    BY <2>0, <2>1
  <2>5. h \in OpenBlocks(t, k - 1) <=> \A n \in b .. k - 1 : Level(t)[n] >= d.level
    BY <1>2, <2>1, <2>2, <2>3, <2>4
  <2> QED
    BY <1>1, <1>2, <1>4, <2>5 DEF h, b
<1>5. CASE ~ (b < k)
  BY <1>1, <1>5 DEF b
<1> QED
  BY <1>3, <1>4, <1>5

LEMMA DeclaredAt ==
  ASSUME NEW t \in Texts, NEW d \in Declarations(t)
  PROVE  d.by[1] \in 1 .. Len(t)
BY DeclarationCases, TextType DEF OfItem, OfParam

LEMMA PrefixDeclarations ==
  ASSUME NEW t \in Texts, NEW u \in Texts, Prefix(t, u), NEW d
  PROVE  d \in Declarations(t) <=> d \in Declarations(u) /\ d.by[1] <= Len(t)
<1>0. /\ Len(t) \in Nat /\ Len(u) \in Nat
      /\ DOMAIN t = 1 .. Len(t) /\ DOMAIN u = 1 .. Len(u)
      /\ Len(t) <= Len(u)
  BY TextType DEF Prefix
<1>1. \A k \in 1 .. Len(t) : Level(u)[k] = Level(t)[k]
  BY <1>0, PrefixLevel
<1>2. \A k \in 1 .. Len(t) : u[k] = t[k]
  BY DEF Prefix
<1>3. \A k \in 1 .. Len(t) : OfItem(u, k) = OfItem(t, k)
  BY <1>1, <1>2 DEF OfItem
<1>4. \A k \in 1 .. Len(t) : \A i : OfParam(u, k, i) = OfParam(t, k, i)
  BY <1>2 DEF OfParam
<1>5. ASSUME d \in Declarations(t)
      PROVE  d \in Declarations(u) /\ d.by[1] <= Len(t)
  <2>1. d.by[1] <= Len(t)
    BY <1>0, <1>5, DeclaredAt
  <2>2. CASE \E k \in DOMAIN t :
               t[k].k \in {"global", "function", "local"} /\ d = OfItem(t, k)
    BY <1>0, <1>2, <1>3, <2>1, <2>2, DeclarationCases
  <2>3. CASE \E k \in DOMAIN t :
               t[k].k = "function" /\ \E i \in DOMAIN t[k].params : d = OfParam(t, k, i)
    BY <1>0, <1>2, <1>4, <2>1, <2>3, DeclarationCases
  <2> QED
    BY <1>5, <2>2, <2>3, DeclarationCases
<1>6. ASSUME d \in Declarations(u), d.by[1] <= Len(t)
      PROVE  d \in Declarations(t)
  <2>2. CASE \E k \in DOMAIN u :
               u[k].k \in {"global", "function", "local"} /\ d = OfItem(u, k)
    <3>1. PICK k \in 1 .. Len(u) :
                 u[k].k \in {"global", "function", "local"} /\ d = OfItem(u, k)
      BY <1>0, <2>2
    <3>2. d.by[1] = k
      BY <3>1 DEF OfItem
    <3>3. k \in 1 .. Len(t)
      BY <1>0, <1>6, <3>1, <3>2
    <3> QED
      BY <1>0, <1>2, <1>3, <3>1, <3>3, DeclarationCases
  <2>3. CASE \E k \in DOMAIN u :
               u[k].k = "function" /\ \E i \in DOMAIN u[k].params : d = OfParam(u, k, i)
    <3>1. PICK k \in 1 .. Len(u) :
                 u[k].k = "function" /\ \E i \in DOMAIN u[k].params : d = OfParam(u, k, i)
      BY <1>0, <2>3
    <3>2. d.by[1] = k
      BY <3>1 DEF OfParam
    <3>3. k \in 1 .. Len(t)
      BY <1>0, <1>6, <3>1, <3>2
    <3> QED
      BY <1>0, <1>2, <1>4, <3>1, <3>3, DeclarationCases
  <2> QED
    BY <1>6, <2>2, <2>3, DeclarationCases
<1> QED
  BY <1>5, <1>6

LEMMA PrefixVisible ==
  ASSUME NEW t \in Texts, NEW u \in Texts, Prefix(t, u), NEW k \in 1 .. Len(t) + 1
  PROVE  VisibleAt(u, k) = VisibleAt(t, k)
<1>0. Len(t) \in Nat /\ Len(u) \in Nat
  BY TextType
<1>1. ASSUME NEW d, d \in Declarations(t)
      PROVE  d \in VisibleAt(u, k) <=> d \in VisibleAt(t, k)
  <2>1. d \in Declarations(u) /\ d.by[1] \in 1 .. Len(t)
    BY <1>1, PrefixDeclarations, DeclaredAt
  <2>2. \A m \in d.by[1] .. k - 1 : Level(u)[m] = Level(t)[m]
    BY <1>0, <2>1, PrefixLevel
  <2> QED
    BY <1>1, <2>1, <2>2 DEF VisibleAt
<1>2. ASSUME NEW d, d \in VisibleAt(u, k)
      PROVE  d \in Declarations(t)
  <2>1. d \in Declarations(u) /\ d.by[1] < k
    BY <1>2 DEF VisibleAt
  <2>2. d.by[1] <= Len(t)
    BY <1>0, <2>1, DeclaredAt
  <2> QED
    BY <2>1, <2>2, PrefixDeclarations
<1>3. \A d \in VisibleAt(t, k) : d \in Declarations(t)
  BY DEF VisibleAt
<1> QED
  BY <1>1, <1>2, <1>3

LEMMA PrefixLexical ==
  ASSUME NEW t \in Texts, NEW u \in Texts, Prefix(t, u), NEW k \in 1 .. Len(t) + 1,
         NEW x
  PROVE  Lexical(u, x, k) = Lexical(t, x, k)
<1>1. VisibleAt(u, k) = VisibleAt(t, k)
  BY PrefixVisible
<1> QED
  BY <1>1 DEF Lexical

LEMMA PrefixBinding ==
  ASSUME NEW t \in Texts, NEW u \in Texts, Prefix(t, u), NEW k \in 1 .. Len(t)
  PROVE  Mentions(u, k) = Mentions(t, k) /\ Binding(u, k) = Binding(t, k)
<1>1. Mentions(u, k) = Mentions(t, k)
  BY DEF Prefix, Mentions
<1>2. k \in 1 .. Len(t) + 1
  BY TextType
<1>3. \A x : Lexical(u, x, k) = Lexical(t, x, k)
  BY <1>2, PrefixLexical
<1> QED
  BY <1>1, <1>3 DEF Binding

(* A text that is not well-scoped does not become so by what follows.  *)
LEMMA PrefixScoped ==
  ASSUME NEW t \in Texts, NEW u \in Texts, Prefix(t, u), WellScoped(u)
  PROVE  WellScoped(t)
<1>0. /\ Len(t) \in Nat /\ Len(u) \in Nat
      /\ DOMAIN t = 1 .. Len(t) /\ DOMAIN u = 1 .. Len(u)
      /\ Len(t) <= Len(u)
  BY TextType DEF Prefix
<1>1. NamesDeclared(t)
  <2> SUFFICES ASSUME NEW k \in 1 .. Len(t), Mentions(t, k) # NULL
               PROVE  LET d == Lexical(t, Mentions(t, k), k) IN
                      d # NULL /\ d.kind = IF t[k].k = "call" THEN "function" ELSE "variable"
    BY <1>0 DEF NamesDeclared
  <2>1. k \in 1 .. Len(u) /\ k \in 1 .. Len(t) + 1 /\ u[k] = t[k]
    BY <1>0 DEF Prefix
  <2>2. Mentions(u, k) = Mentions(t, k)
    BY PrefixBinding
  <2>3. Lexical(u, Mentions(t, k), k) = Lexical(t, Mentions(t, k), k)
    BY <2>1, PrefixLexical
  <2>4. LET d == Lexical(u, Mentions(u, k), k) IN
        d # NULL /\ d.kind = IF u[k].k = "call" THEN "function" ELSE "variable"
    BY <1>0, <2>1, <2>2 DEF WellScoped, NamesDeclared
  <2> QED
    BY <2>1, <2>2, <2>3, <2>4
<1>2. DeclaredOnce(t)
  <2> SUFFICES ASSUME NEW d \in Declarations(t), NEW e \in Declarations(t),
                      d.name = e.name, d.level = e.level, d # e
               PROVE  /\ d.by[1] # e.by[1]
                      /\ d.by[1] < e.by[1] => d \notin VisibleAt(t, e.by[1])
    BY DEF DeclaredOnce
  <2>1. d \in Declarations(u) /\ e \in Declarations(u)
    BY PrefixDeclarations
  <2>2. e.by[1] \in 1 .. Len(t) + 1
    BY <1>0, DeclaredAt
  <2>3. VisibleAt(u, e.by[1]) = VisibleAt(t, e.by[1])
    BY <2>2, PrefixVisible
  <2> QED
    BY <2>1, <2>3 DEF WellScoped, DeclaredOnce
<1> QED
  BY <1>1, <1>2 DEF WellScoped

-----------------------------------------------------------------------------
(* The declarations of a block are its first items.  *)
LEMMA HeadOfBlock ==
  ASSUME NEW t \in Texts, Grammatical(t), NEW m \in 1 .. Len(t), t[m].k = "local"
  PROVE  /\ Innermost(t, m) \in 1 .. m - 1
         /\ Opener(t, Innermost(t, m))
         /\ \A n \in Innermost(t, m) + 1 .. m : t[n].k = "local"
<1>0. Len(t) \in Nat /\ DOMAIN t = 1 .. Len(t)
  BY TextType
<1> DEFINE Heads(i) == /\ Innermost(t, i) \in 1 .. i - 1
                       /\ Opener(t, Innermost(t, i))
                       /\ \A n \in Innermost(t, i) + 1 .. i : t[n].k = "local"
           B == {i \in 1 .. Len(t) : t[i].k = "local" /\ ~ Heads(i)}
<1>1. SUFFICES ASSUME B # {} PROVE FALSE
  BY <1>1
<1>2. PICK i \in B : \A j \in B : i <= j
  <2>1. B \in SUBSET Nat
    OBVIOUS
  <2> HIDE DEF B
  <2> QED
    BY <1>1, <2>1, LeastNumber
<1>3. i \in 1 .. Len(t) /\ t[i].k = "local" /\ ~ Heads(i)
  BY <1>2
<1>4. i > 1 /\ t[i - 1].k \in {"function", "block", "local"}
  BY <1>0, <1>3 DEF Grammatical
<1>5. Innermost(t, i) = Innermost(t, i - 1)
  BY <1>3, OpenAfterPlain DEF Opener
<1>6. i - 1 \in 1 .. Len(t)
  BY <1>0, <1>3, <1>4
<1>7. CASE t[i - 1].k = "local"
  <2>1. i - 1 \notin B
    BY <1>2, <1>6
  <2>2. Heads(i - 1)
    BY <1>6, <1>7, <2>1
  <2>3. Innermost(t, i) \in 1 .. i - 2 /\ Opener(t, Innermost(t, i))
    BY <1>5, <1>6, <2>2
  <2>4. \A n \in Innermost(t, i) + 1 .. i : n = i \/ n \in Innermost(t, i - 1) + 1 .. i - 1
    BY <1>5, <1>6, <2>3
  <2>5. \A n \in Innermost(t, i) + 1 .. i : t[n].k = "local"
    BY <1>3, <2>2, <2>4
  <2> QED
    BY <1>3, <1>6, <2>3, <2>5
<1>8. CASE t[i - 1].k # "local"
  <2>1. Opener(t, i - 1)
    BY <1>4, <1>8 DEF Opener
  <2>2. Innermost(t, i) = i - 1
    BY <1>5, <1>6, <2>1, OpenAfterOpener
  <2>3. \A n \in Innermost(t, i) + 1 .. i : n = i
    BY <1>6, <2>2
  <2> QED
    BY <1>3, <1>6, <2>1, <2>2, <2>3
<1> QED
  BY <1>7, <1>8

(* The items that follow its first one without a break, if they declare    *)
(* variables, declare them in the block.                                   *)
LEMMA RestOfHead ==
  ASSUME NEW t \in Texts, Grammatical(t), NEW h \in 1 .. Len(t), Opener(t, h),
         NEW m \in h .. Len(t), \A n \in h + 1 .. m : t[n].k = "local"
  PROVE  Innermost(t, m) = h
<1>0. Len(t) \in Nat /\ DOMAIN t = 1 .. Len(t)
  BY TextType
<1> DEFINE B == {i \in h .. m : Innermost(t, i) # h}
<1>1. SUFFICES ASSUME B # {} PROVE FALSE
  BY <1>0, <1>1
<1>2. PICK i \in B : \A j \in B : i <= j
  <2>1. B \in SUBSET Nat
    BY <1>0
  <2> HIDE DEF B
  <2> QED
    BY <1>1, <2>1, LeastNumber
<1>3. i # h
  BY <1>2, OpenAfterOpener
<1>4. i - 1 \in h .. m /\ i \in h + 1 .. m /\ i \in 1 .. Len(t)
  BY <1>0, <1>2, <1>3
<1>5. Innermost(t, i - 1) = h
  BY <1>0, <1>2, <1>4
<1>6. Innermost(t, i) = Innermost(t, i - 1)
  BY <1>4, OpenAfterPlain DEF Opener
<1> QED
  BY <1>2, <1>5, <1>6

-----------------------------------------------------------------------------
(* When a table holds the scopes of a text: one for each block, in the     *)
(* order of the blocks, linked to that of the block around it.             *)
ScopesOf(T, t) ==
  /\ Len(T.all) >= 1
  /\ T.all[1].by = 0 /\ T.all[1].next = 0
  /\ \A i \in 2 .. Len(T.all) :
       /\ T.all[i].by \in 1 .. Len(t)
       /\ Opener(t, T.all[i].by)
       /\ T.all[i].next \in 1 .. i - 1
       /\ T.all[T.all[i].next].by = Innermost(t, T.all[i].by - 1)
  /\ \A i, j \in 1 .. Len(T.all) : i < j => T.all[i].by < T.all[j].by
  /\ \A k \in 1 .. Len(t) : Opener(t, k) => \E i \in 2 .. Len(T.all) : T.all[i].by = k

(* When its symbols are the declarations D, those of the text.  *)
Means(sym, d) == sym.name = d.name /\ sym.kind = d.kind /\ sym.by = d.by

Holds(T, t, D) ==
  /\ \A i \in 1 .. Len(T.all) : \A j \in DOMAIN T.all[i].syms :
       \E d \in D : Means(T.all[i].syms[j], d) /\ Home(t, d) = T.all[i].by
  /\ \A d \in D : \E i \in 1 .. Len(T.all) : \E j \in DOMAIN T.all[i].syms :
       Means(T.all[i].syms[j], d) /\ Home(t, d) = T.all[i].by
  /\ \A i \in 1 .. Len(T.all) : \A j, l \in DOMAIN T.all[i].syms :
       T.all[i].syms[j].name = T.all[i].syms[l].name => j = l

SymbolsOf(T, t) == Holds(T, t, Declarations(t))

(* When the current scope is that of the innermost block.  *)
CurrentAt(T, t, k) ==
  /\ T.current \in 1 .. Len(T.all)
  /\ T.all[T.current].by = Innermost(t, k)

ChainAt(T, t, k) ==
  {i \in 1 .. Len(T.all) : T.all[i].by \in OpenBlocks(t, k) \cup {0}}

LEMMA ScopesLinked ==
  ASSUME NEW T \in Table, NEW t, ScopesOf(T, t)
  PROVE  Linked(T)
<1>1. Len(T.all) \in Nat /\ DOMAIN T.all = 1 .. Len(T.all)
  BY TableType
<1>2. ASSUME NEW i \in 1 .. Len(T.all)
      PROVE  T.all[i].next \in 0 .. i - 1
  <2>1. CASE i = 1
    BY <2>1 DEF ScopesOf
  <2>2. CASE i \in 2 .. Len(T.all)
    BY <2>2 DEF ScopesOf
  <2> QED
    BY <1>1, <2>1, <2>2
<1> QED
  BY <1>1, <1>2 DEF Linked

(* A block has one scope.  *)
LEMMA ScopesApart ==
  ASSUME NEW T \in Table, NEW t, ScopesOf(T, t),
         NEW i \in 1 .. Len(T.all), NEW j \in 1 .. Len(T.all)
  PROVE  /\ T.all[i].by \in Nat
         /\ T.all[i].by < T.all[j].by <=> i < j
         /\ T.all[i].by = T.all[j].by <=> i = j
<1>1. Len(T.all) \in Nat
  BY TableType
<1>2. T.all[i].by \in Nat /\ T.all[j].by \in Nat
  BY TableType DEF Scope
<1>3. i < j => T.all[i].by < T.all[j].by
  BY DEF ScopesOf
<1>4. j < i => T.all[j].by < T.all[i].by
  BY DEF ScopesOf
<1> QED
  BY <1>1, <1>2, <1>3, <1>4

LEMMA ChainAtIsChain ==
  ASSUME NEW T \in Table, NEW t \in Texts, Grammatical(t), ScopesOf(T, t),
         NEW k \in 0 .. Len(t), CurrentAt(T, t, k)
  PROVE  Chain(T, ChainAt(T, t, k))
<1> DEFINE C == ChainAt(T, t, k)
           n == Len(T.all)
           by(i) == T.all[i].by
<1>0. /\ n \in Nat /\ DOMAIN T.all = 1 .. n
      /\ Len(t) \in Nat
      /\ T.current \in 1 .. n /\ by(T.current) = Innermost(t, k)
      /\ n >= 1 /\ by(1) = 0
  BY TableType, TextType DEF CurrentAt, ScopesOf
<1>1. \A i : i \in C <=> i \in 1 .. n /\ by(i) \in OpenBlocks(t, k) \cup {0}
  BY DEF ChainAt
<1>2. \A i, j \in 1 .. n : /\ by(i) \in Nat
                           /\ by(i) < by(j) <=> i < j
                           /\ by(i) = by(j) <=> i = j
  BY ScopesApart
<1>3. T.current \in C
  BY <1>0, <1>1, InnermostDef
<1>4. ASSUME NEW i \in C
      PROVE  i <= T.current
  <2>1. i \in 1 .. n /\ by(i) \in OpenBlocks(t, k) \cup {0}
    BY <1>1
  <2>2. \A m \in OpenBlocks(t, k) : m <= Innermost(t, k)
    BY InnermostDef
  <2>3. by(i) <= by(T.current)
    <3>1. CASE by(i) = 0
      BY <1>0, <1>2, <3>1
    <3>2. CASE by(i) \in OpenBlocks(t, k)
      BY <1>0, <2>2, <3>2
    <3> QED
      BY <2>1, <3>1, <3>2
  <2>4. /\ by(T.current) \in Nat /\ by(i) \in Nat
        /\ by(T.current) < by(i) <=> T.current < i
    BY <1>0, <1>2, <2>1
  <2> QED
    BY <1>0, <2>1, <2>3, <2>4
<1>5. ASSUME NEW i \in C
      PROVE  /\ T.all[i].next \in C \cup {0}
             /\ \A j \in C : j < i => j <= T.all[i].next
  <2>0. i \in 1 .. n /\ by(i) \in OpenBlocks(t, k) \cup {0}
    BY <1>1
  <2>1. CASE i = 1
    <3>1. T.all[i].next = 0
      BY <2>1 DEF ScopesOf
    <3>2. \A j \in C : ~ (j < i)
      BY <1>1, <2>1
    <3> QED
      BY <3>1, <3>2
  <2>2. CASE i # 1
    <3> DEFINE next == T.all[i].next
    <3>1. i \in 2 .. n
      BY <1>0, <2>0, <2>2
    <3>2. next \in 1 .. i - 1 /\ next \in 1 .. n /\ by(next) = Innermost(t, by(i) - 1)
      BY <1>0, <3>1 DEF ScopesOf
    <3>3. by(i) # 0
      BY <1>0, <1>2, <2>0, <2>2
    <3>4. by(i) \in OpenBlocks(t, k)
      BY <2>0, <3>3
    <3>5. by(i) \in 1 .. k
      BY <3>4, OpenDef
    <3> HIDE DEF by, next
    <3>6. \A m : m \in OpenBlocks(t, by(i) - 1) <=> m \in OpenBlocks(t, k) /\ m < by(i)
      BY <3>4, OpenNested
    <3>7. \/ OpenBlocks(t, by(i) - 1) = {} /\ by(next) = 0
          \/ /\ by(next) \in OpenBlocks(t, by(i) - 1)
             /\ \A m \in OpenBlocks(t, by(i) - 1) : m <= by(next)
      <4>1. by(i) - 1 \in 0 .. Len(t)
        BY <1>0, <3>5
      <4> QED
        BY <3>2, <4>1, InnermostDef
    <3>8. next \in C
      BY <1>1, <3>2, <3>6, <3>7
    <3>9. ASSUME NEW j \in C, j < i
          PROVE  j <= next
      <4>1. j \in 1 .. n /\ by(j) < by(i) /\ by(j) \in Nat
        BY <1>1, <1>2, <2>0, <3>9
      <4>2. by(j) \in OpenBlocks(t, k) \cup {0}
        BY <1>1
      <4>3. by(j) <= by(next)
        <5>1. by(next) \in Nat
          BY <1>2, <3>2
        <5>2. by(j) = 0 \/ by(j) \in OpenBlocks(t, by(i) - 1)
          BY <3>6, <4>1, <4>2
        <5> QED
          BY <3>7, <4>1, <5>1, <5>2
      <4>4. by(next) < by(j) <=> next < j
        BY <1>2, <3>2, <4>1
      <4>5. by(next) \in Nat /\ next \in Nat /\ j \in Nat
        BY <1>2, <3>2, <4>1
      <4> QED
        BY <4>1, <4>3, <4>4, <4>5
    <3> QED
      BY <3>8, <3>9 DEF next
  <2> QED
    BY <2>1, <2>2
<1>6. C \subseteq DOMAIN T.all
  BY <1>0, <1>1
<1> HIDE DEF C
<1>7. Chain(T, C)
  BY <1>3, <1>4, <1>5, <1>6 DEF Chain
<1> QED
  BY <1>7 DEF C

LEMMA FirstNamed ==
  ASSUME NEW scope \in Scope, NEW x, Named(scope, x) # {}
  PROVE  /\ First(Named(scope, x)) \in DOMAIN scope.syms
         /\ scope.syms[First(Named(scope, x))].name = x
<1>1. Named(scope, x) \in SUBSET Nat
  BY DEF Named, Scope
<1>2. \E j \in Named(scope, x) : \A k \in Named(scope, x) : j <= k
  BY <1>1, LeastNumber
<1>3. First(Named(scope, x)) \in Named(scope, x)
  BY <1>2 DEF First
<1> QED
  BY <1>3 DEF Named

(* What a lookup finds is the innermost declaration of the name in the     *)
(* blocks around the current position.                                     *)
DeclaredAround(t, x, k) ==
  {d \in Declarations(t) : d.name = x /\ Home(t, d) \in OpenBlocks(t, k) \cup {0}}

LEMMA Lookup ==
  ASSUME NEW T \in Table, NEW t \in Texts, Grammatical(t), ScopesOf(T, t),
         SymbolsOf(T, t), NEW k \in 0 .. Len(t), CurrentAt(T, t, k), NEW x
  PROVE  \/ Retrieve(T, x) = NULL /\ DeclaredAround(t, x, k) = {}
         \/ /\ Retrieve(T, x) \in Symbol
            /\ Retrieve(T, x) # NULL
            /\ \E d \in DeclaredAround(t, x, k) :
                 /\ Means(Retrieve(T, x), d)
                 /\ \A e \in DeclaredAround(t, x, k) : e # d => e.level < d.level
<1> DEFINE C == ChainAt(T, t, k)
           n == Len(T.all)
           h == Holder(T, x)
           Ds == DeclaredAround(t, x, k)
<1>0. n \in Nat /\ DOMAIN T.all = 1 .. n /\ Len(t) \in Nat
  BY TableType, TextType
<1>1. \A i : i \in C <=> i \in 1 .. n /\ T.all[i].by \in OpenBlocks(t, k) \cup {0}
  BY DEF ChainAt
<1>2. \A d : d \in Ds <=> /\ d \in Declarations(t) /\ d.name = x
                          /\ Home(t, d) \in OpenBlocks(t, k) \cup {0}
  BY DEF DeclaredAround
<1>3. \/ /\ h = 0
         /\ \A i \in C : Named(T.all[i], x) = {}
      \/ /\ h \in C
         /\ Named(T.all[h], x) # {}
         /\ \A i \in C : Named(T.all[i], x) # {} => i <= h
  <2>1. Chain(T, C) /\ Linked(T)
    BY ChainAtIsChain, ScopesLinked
  <2> HIDE DEF C
  <2> QED
    BY <2>1, HolderInChain
<1> HIDE DEF C, Ds
<1>4. ASSUME NEW d \in Ds
      PROVE  \E i \in C : \E j \in DOMAIN T.all[i].syms :
               /\ T.all[i].by = Home(t, d)
               /\ Means(T.all[i].syms[j], d)
               /\ Named(T.all[i], x) # {}
  <2>1. PICK i \in 1 .. n : \E j \in DOMAIN T.all[i].syms :
               Means(T.all[i].syms[j], d) /\ Home(t, d) = T.all[i].by
    BY <1>2 DEF SymbolsOf, Holds
  <2>2. PICK j \in DOMAIN T.all[i].syms : Means(T.all[i].syms[j], d)
    BY <2>1
  <2>3. i \in C
    BY <1>1, <1>2, <2>1
  <2>4. T.all[i].syms[j].name = x
    BY <1>2, <2>2 DEF Means
  <2>5. j \in Named(T.all[i], x)
    BY <2>2, <2>4 DEF Named
  <2> QED
    BY <2>1, <2>2, <2>3, <2>5
<1>5. CASE h = 0
  <2>1. h \notin C
    BY <1>1, <1>5
  <2>2. \A i \in C : Named(T.all[i], x) = {}
    BY <1>3, <2>1
  <2>3. Ds = {}
    BY <1>4, <2>2
  <2>4. Retrieve(T, x) = NULL
    BY <1>5 DEF Retrieve
  <2> QED
    BY <2>3, <2>4 DEF Ds
<1>6. CASE h # 0
  <2>1. /\ h \in C
        /\ Named(T.all[h], x) # {}
        /\ \A i \in C : Named(T.all[i], x) # {} => i <= h
    BY <1>3, <1>6
  <2>2. h \in 1 .. n /\ T.all[h].by \in OpenBlocks(t, k) \cup {0}
    BY <1>1, <2>1
  <2>3. T.all[h] \in Scope
    BY <2>2, TableType
  <2> DEFINE j == First(Named(T.all[h], x))
             sym == T.all[h].syms[j]
  <2>4. j \in DOMAIN T.all[h].syms /\ sym.name = x
    <3> HIDE DEF h
    <3> QED
      BY <2>1, <2>3, FirstNamed
  <2>5. Retrieve(T, x) = sym
    BY <1>6 DEF Retrieve
  <2> HIDE DEF h, j
  <2>6. sym \in Symbol
    <3>1. T.all[h].syms \in Seq(Symbol)
      BY <2>3 DEF Scope
    <3> QED
      BY <2>4, <3>1
  <2>7. PICK d \in Declarations(t) : Means(sym, d) /\ Home(t, d) = T.all[h].by
    BY <2>2, <2>4 DEF SymbolsOf, Holds
  <2>8. d \in Ds
    BY <1>2, <2>2, <2>4, <2>7 DEF Means
  <2>9. ASSUME NEW e \in Ds, e # d
        PROVE  e.level < d.level
    <3>1. PICK i \in C : \E l \in DOMAIN T.all[i].syms :
                 /\ T.all[i].by = Home(t, e)
                 /\ Means(T.all[i].syms[l], e)
                 /\ Named(T.all[i], x) # {}
      BY <1>4
    <3>2. PICK l \in DOMAIN T.all[i].syms :
                 /\ T.all[i].by = Home(t, e)
                 /\ Means(T.all[i].syms[l], e)
      BY <3>1
    <3>3. i <= h /\ i \in 1 .. n
      BY <1>1, <2>1, <3>1
    <3>4. e \in Declarations(t) /\ e.name = x
      BY <1>2
    <3>5. i # h
      <4> SUFFICES ASSUME i = h PROVE FALSE
        OBVIOUS
      <4>1. T.all[h].syms[l].name = x
        BY <3>2, <3>4 DEF Means
      <4>2. l = j
        BY <2>2, <2>4, <3>2, <4>1 DEF SymbolsOf, Holds
      <4>3. e.by = d.by
        BY <2>7, <3>2, <4>2 DEF Means
      <4> QED
        BY <2>9, <3>4, <4>3, DeclarationUnique
    <3>6. T.all[i].by < T.all[h].by
      BY <1>0, <2>2, <3>3, <3>5, ScopesApart
    <3>7. Level(t)[Home(t, e)] = e.level /\ Level(t)[Home(t, d)] = d.level
      BY <2>7, <3>4, HomeLevel
    <3>8. T.all[i].by \in OpenBlocks(t, k) \cup {0}
      BY <1>1, <3>1
    <3>9. T.all[i].by \in Nat /\ T.all[h].by \in Nat
      BY <2>2, <3>3, ScopesApart
    <3>10. T.all[h].by \in OpenBlocks(t, k)
      BY <2>2, <3>6, <3>9
    <3>11. CASE T.all[i].by = 0
      <4>1. e.level = 0
        BY <3>2, <3>4, <3>11, HomeLevel
      <4>2. d.level # 0
        BY <2>7, <3>6, <3>11, HomeLevel
      <4>3. d.level \in Nat
        BY DeclarationType DEF Declaration
      <4> QED
        BY <4>1, <4>2, <4>3
    <3>12. CASE T.all[i].by \in OpenBlocks(t, k)
      <4>1. Level(t)[T.all[i].by] < Level(t)[T.all[h].by]
        BY <3>6, <3>10, <3>12, OpenLevels
      <4> QED
        BY <2>7, <3>2, <3>7, <4>1
    <3> QED
      BY <3>8, <3>11, <3>12
  <2>10. Retrieve(T, x) \in Symbol /\ Means(Retrieve(T, x), d)
    BY <2>5, <2>6, <2>7
  <2>11. Retrieve(T, x) # NULL
    BY <2>10, ScopeAssumption
  <2> HIDE DEF sym
  <2> QED
    BY <2>8, <2>9, <2>10, <2>11 DEF Ds
<1> QED
  BY <1>5, <1>6

LEMMA CheckLookup ==
  ASSUME NEW T \in Table, NEW t \in Texts, Grammatical(t), ScopesOf(T, t),
         SymbolsOf(T, t), CurrentAt(T, t, Len(t)), NEW x
  PROVE  \/ Retrieve(T, x) = NULL /\ Lexical(t, x, Len(t) + 1) = NULL
         \/ /\ Retrieve(T, x) \in Symbol
            /\ Retrieve(T, x) # NULL
            /\ Lexical(t, x, Len(t) + 1) # NULL
            /\ Means(Retrieve(T, x), Lexical(t, x, Len(t) + 1))
<1> DEFINE k == Len(t)
           r == Retrieve(T, x)
           vs == {d \in VisibleAt(t, k + 1) : d.name = x}
<1>0. k \in Nat /\ k \in 0 .. Len(t) /\ k + 1 \in 1 .. Len(t) + 1 /\ (k + 1) - 1 = k
  BY TextType
<1>1. \A d : d \in vs <=> d \in DeclaredAround(t, x, k)
  <2> TAKE d
  <2>1. d \in VisibleAt(t, k + 1) => d \in Declarations(t)
    BY DEF VisibleAt
  <2>2. d \in Declarations(t) => d.by[1] < k + 1
    BY <1>0, DeclaredAt
  <2>3. d \in Declarations(t) =>
          (d \in VisibleAt(t, k + 1) <=>
             d.by[1] < k + 1 /\ Home(t, d) \in OpenBlocks(t, k) \cup {0})
    <3> HIDE DEF k
    <3> QED
      BY <1>0, VisibleHome DEF k
  <2> QED
    BY <2>1, <2>2, <2>3 DEF DeclaredAround
<1>2. vs = DeclaredAround(t, x, k)
  BY <1>1
<1>3. Lexical(t, x, k + 1) = IF vs = {} THEN NULL
                             ELSE CHOOSE d \in vs : \A e \in vs : e.level <= d.level
  BY DEF Lexical
<1>4. \/ r = NULL /\ DeclaredAround(t, x, k) = {}
      \/ /\ r \in Symbol
         /\ r # NULL
         /\ \E d \in DeclaredAround(t, x, k) :
              /\ Means(r, d)
              /\ \A e \in DeclaredAround(t, x, k) : e # d => e.level < d.level
  BY <1>0, Lookup
<1> HIDE DEF vs, r
<1>5. CASE r = NULL /\ DeclaredAround(t, x, k) = {}
  BY <1>2, <1>3, <1>5 DEF r
<1>6. CASE /\ r \in Symbol
           /\ r # NULL
           /\ \E d \in DeclaredAround(t, x, k) :
                /\ Means(r, d)
                /\ \A e \in DeclaredAround(t, x, k) : e # d => e.level < d.level
  <2>1. PICK d \in vs : Means(r, d) /\ \A e \in vs : e # d => e.level < d.level
    BY <1>2, <1>6
  <2>2. \A e \in vs : e \in Declaration /\ e.level \in Nat
    BY <1>2, DeclarationType DEF DeclaredAround, Declaration
  <2>3. \A e \in vs : e.level <= d.level
    BY <2>1, <2>2
  <2>4. \A c \in vs : (\A e \in vs : e.level <= c.level) => c = d
    <3> SUFFICES ASSUME NEW c \in vs, \A e \in vs : e.level <= c.level, c # d
                 PROVE  FALSE
      OBVIOUS
    <3>1. c.level < d.level /\ d.level <= c.level
      BY <2>1
    <3>2. c.level \in Nat /\ d.level \in Nat
      BY <2>2
    <3> QED
      BY <3>1, <3>2
  <2>5. (CHOOSE c \in vs : \A e \in vs : e.level <= c.level) = d
    BY <2>3, <2>4
  <2>6. Lexical(t, x, k + 1) = d
    BY <1>3, <2>1, <2>5
  <2>7. d # NULL
    BY <2>1, <2>2, ScopeAssumption
  <2> QED
    BY <1>6, <2>1, <2>6, <2>7 DEF r
<1> QED
  BY <1>4, <1>5, <1>6

-----------------------------------------------------------------------------
(* What the operations on a table keep.                                    *)

(* The same scopes, with whatever symbols.  *)
SameScopes(T, U) ==
  /\ Len(U.all) = Len(T.all)
  /\ U.current = T.current /\ U.this = T.this
  /\ \A i \in 1 .. Len(T.all) :
       U.all[i].by = T.all[i].by /\ U.all[i].next = T.all[i].next

LEMMA SameScopesKeep ==
  ASSUME NEW T, NEW U, SameScopes(T, U), NEW t, ScopesOf(T, t), Len(T.all) \in Nat
  PROVE  ScopesOf(U, t)
<1> DEFINE n == Len(T.all)
<1>1. Len(U.all) = n /\ n \in Nat /\ n >= 1
  BY DEF SameScopes, ScopesOf
<1>2. \A i \in 1 .. n : U.all[i].by = T.all[i].by /\ U.all[i].next = T.all[i].next
  BY DEF SameScopes
<1>3. U.all[1].by = 0 /\ U.all[1].next = 0
  BY <1>1, <1>2 DEF ScopesOf
<1>4. ASSUME NEW i \in 2 .. n
      PROVE  /\ U.all[i].by \in 1 .. Len(t)
             /\ Opener(t, U.all[i].by)
             /\ U.all[i].next \in 1 .. i - 1
             /\ U.all[U.all[i].next].by = Innermost(t, U.all[i].by - 1)
  <2>1. i \in 1 .. n
    BY <1>1
  <2>2. T.all[i].next \in 1 .. n
    BY <1>1 DEF ScopesOf
  <2> QED
    BY <1>2, <2>1, <2>2, ZenonT(30) DEF ScopesOf
<1>5. \A i, j \in 1 .. n : i < j => U.all[i].by < U.all[j].by
  BY <1>2 DEF ScopesOf
<1>6. ASSUME NEW k \in 1 .. Len(t), Opener(t, k)
      PROVE  \E i \in 2 .. n : U.all[i].by = k
  <2>1. PICK i \in 2 .. n : T.all[i].by = k
    BY <1>6 DEF ScopesOf
  <2> QED
    BY <1>1, <1>2, <2>1
<1> HIDE DEF n
<1> QED
  BY <1>1, <1>3, <1>4, <1>5, <1>6 DEF ScopesOf

(* ccmmc_symbol_table_insert adds one symbol, in front.  *)
OneMore(old, new, sym) ==
  /\ Len(old) \in Nat /\ DOMAIN old = 1 .. Len(old)
  /\ DOMAIN new = 1 .. Len(old) + 1
  /\ new[1] = sym
  /\ \A j \in 1 .. Len(old) : new[j + 1] = old[j]

OthersSame(T, U, c) ==
  \A i \in 1 .. Len(T.all) : i # c => U.all[i].syms = T.all[i].syms

LEMMA InsertDef ==
  ASSUME NEW T \in Table, T.current \in 1 .. Len(T.all),
         NEW name \in Name, NEW kind \in Kinds, NEW by \in Nat \X Nat
  PROVE  /\ Insert(T, name, kind, by) \in Table
         /\ SameScopes(T, Insert(T, name, kind, by))
         /\ OthersSame(T, Insert(T, name, kind, by), T.current)
         /\ OneMore(T.all[T.current].syms, Insert(T, name, kind, by).all[T.current].syms,
                    [name |-> name, kind |-> kind, by |-> by, place |-> NULL])
<1> DEFINE c == T.current
           old == T.all[c].syms
           sym == [name |-> name, kind |-> kind, by |-> by, place |-> NULL]
           new == <<sym>> \o old
           all == [T.all EXCEPT ![c] = [T.all[c] EXCEPT !.syms = new]]
           U == Insert(T, name, kind, by)
<1>1. /\ T.all \in Seq(Scope) /\ Len(T.all) \in Nat /\ DOMAIN T.all = 1 .. Len(T.all)
      /\ T.all[c] \in Scope
      /\ \A i \in 1 .. Len(T.all) : T.all[i] \in Scope
  BY TableType
<1>2. old \in Seq(Symbol) /\ Len(old) \in Nat /\ DOMAIN old = 1 .. Len(old)
  BY <1>1, SMTT(30) DEF Scope
<1>3. sym \in Symbol
  BY DEF Symbol
<1> HIDE DEF sym
<1>4. /\ new \in Seq(Symbol)
      /\ DOMAIN new = 1 .. Len(old) + 1
      /\ new[1] = sym
      /\ \A j \in 1 .. Len(old) : new[j + 1] = old[j]
  BY <1>2, <1>3
<1> HIDE DEF old, new
<1>5. [T.all[c] EXCEPT !.syms = new] \in Scope
  BY <1>1, <1>4 DEF Scope
<1>6. /\ all \in Seq(Scope) /\ Len(all) = Len(T.all)
      /\ all[c] = [T.all[c] EXCEPT !.syms = new]
      /\ \A i \in 1 .. Len(T.all) : i # c => all[i] = T.all[i]
  BY <1>1, <1>5
<1>7. U = [T EXCEPT !.all = all]
  BY DEF Insert, sym, old, new
<1>8. U \in Table /\ U.all = all /\ U.current = c /\ U.this = T.this
  BY <1>6, <1>7 DEF Table
<1>9. /\ all[c].syms = new /\ all[c].by = T.all[c].by /\ all[c].next = T.all[c].next
  BY <1>1, <1>6 DEF Scope
<1>10. SameScopes(T, U)
  BY <1>6, <1>8, <1>9 DEF SameScopes
<1> HIDE DEF all, U
<1>11. U.all[c].syms = new /\ \A i \in 1 .. Len(T.all) : i # c => U.all[i].syms = T.all[i].syms
  BY <1>6, <1>8, <1>9
<1> QED
  BY <1>2, <1>4, <1>8, <1>10, <1>11 DEF U, old, sym, OneMore, OthersSame

LEMMA InsertHolds ==
  ASSUME NEW T \in Table, NEW t, NEW D, Holds(T, t, D),
         T.current \in 1 .. Len(T.all),
         NEW d \in Declaration, Home(t, d) = T.all[T.current].by,
         \A e \in D : e.name = d.name => Home(t, e) # Home(t, d)
  PROVE  Holds(Insert(T, d.name, d.kind, d.by), t, D \cup {d})
<1> DEFINE c == T.current
           n == Len(T.all)
           U == Insert(T, d.name, d.kind, d.by)
           old == T.all[c].syms
           new == U.all[c].syms
<1>1. d.name \in Name /\ d.kind \in Kinds /\ d.by \in Nat \X Nat
  BY DEF Declaration
<1>2. /\ SameScopes(T, U)
      /\ \A i \in 1 .. n : i # c => U.all[i].syms = T.all[i].syms
      /\ Len(old) \in Nat /\ DOMAIN old = 1 .. Len(old)
      /\ DOMAIN new = 1 .. Len(old) + 1
      /\ Means(new[1], d)
      /\ \A j \in 1 .. Len(old) : new[j + 1] = old[j]
  <2>1. /\ SameScopes(T, U)
        /\ \A i \in 1 .. n : i # c => U.all[i].syms = T.all[i].syms
        /\ Len(old) \in Nat /\ DOMAIN old = 1 .. Len(old)
        /\ DOMAIN new = 1 .. Len(old) + 1
        /\ new[1] = [name |-> d.name, kind |-> d.kind, by |-> d.by, place |-> NULL]
        /\ \A j \in 1 .. Len(old) : new[j + 1] = old[j]
    <3>1. /\ SameScopes(T, U)
          /\ OthersSame(T, U, c)
          /\ OneMore(old, new, [name |-> d.name, kind |-> d.kind, by |-> d.by,
                                place |-> NULL])
      BY <1>1, InsertDef
    <3> HIDE DEF U, old, new
    <3> QED
      BY <3>1 DEF OneMore, OthersSame
  <2>2. Means(new[1], d)
    <3> HIDE DEF new
    <3> QED
      BY <2>1 DEF Means
  <2> QED
    BY <2>1, <2>2
<1>3. Len(U.all) = n /\ \A i \in 1 .. n : U.all[i].by = T.all[i].by
  BY <1>2 DEF SameScopes
<1> HIDE DEF n, U, old, new
<1>4. \A j \in DOMAIN new : j = 1 \/ (j - 1 \in DOMAIN old /\ new[j] = old[j - 1])
  <2> TAKE j \in DOMAIN new
  <2>1. j \in 1 .. Len(old) + 1
    BY <1>2
  <2>2. CASE j # 1
    <3>1. PICK m \in 1 .. Len(old) : j = m + 1
      <4>1. j - 1 \in 1 .. Len(old) /\ (j - 1) + 1 = j
        BY <1>2, <2>1, <2>2
      <4> QED
        BY <4>1
    <3>2. j - 1 = m
      BY <3>1, <1>2
    <3> QED
      BY <1>2, <3>1, <3>2
  <2>3. CASE j = 1
    BY <2>3
  <2> QED
    BY <2>2, <2>3
<1>5. \A j \in DOMAIN old : j + 1 \in DOMAIN new /\ new[j + 1] = old[j]
  BY <1>2
<1>6. \A j \in DOMAIN old : old[j].name # d.name
  <2> TAKE j \in DOMAIN old
  <2>1. PICK e \in D : Means(old[j], e) /\ Home(t, e) = T.all[c].by
    BY DEF Holds, old
  <2> QED
    BY <2>1 DEF Means
<1>7. ASSUME NEW i \in 1 .. n, NEW j \in DOMAIN U.all[i].syms
      PROVE  \E e \in D \cup {d} :
               Means(U.all[i].syms[j], e) /\ Home(t, e) = U.all[i].by
  <2>1. CASE i # c
    <3>1. U.all[i].syms = T.all[i].syms /\ U.all[i].by = T.all[i].by
      BY <1>2, <1>3, <2>1
    <3>2. j \in DOMAIN T.all[i].syms
      BY <3>1
    <3>3. \E e \in D : Means(T.all[i].syms[j], e) /\ Home(t, e) = T.all[i].by
      BY <3>2 DEF Holds, n
    <3> QED
      BY <3>1, <3>3
  <2>2. CASE i = c /\ j = 1
    BY <1>2, <1>3, <2>2 DEF new
  <2>3. CASE i = c /\ j # 1
    <3>1. j \in DOMAIN new
      BY <2>3 DEF new
    <3>2. j - 1 \in DOMAIN old /\ new[j] = old[j - 1]
      BY <1>4, <2>3, <3>1
    <3>3. \E e \in D : Means(old[j - 1], e) /\ Home(t, e) = T.all[c].by
      BY <3>2 DEF Holds, old
    <3> QED
      BY <1>3, <2>3, <3>2, <3>3 DEF new
  <2> QED
    BY <2>1, <2>2, <2>3
<1>8. ASSUME NEW e \in D \cup {d}
      PROVE  \E i \in 1 .. n : \E j \in DOMAIN U.all[i].syms :
               Means(U.all[i].syms[j], e) /\ Home(t, e) = U.all[i].by
  <2>1. CASE e = d
    <3>1. 1 \in DOMAIN new
      BY <1>2
    <3> QED
      BY <1>2, <1>3, <2>1, <3>1 DEF new, n
  <2>2. CASE e \in D
    <3>1. PICK i \in 1 .. n : \E j \in DOMAIN T.all[i].syms :
             Means(T.all[i].syms[j], e) /\ Home(t, e) = T.all[i].by
      BY <2>2 DEF Holds, n
    <3>2. PICK j \in DOMAIN T.all[i].syms :
             Means(T.all[i].syms[j], e) /\ Home(t, e) = T.all[i].by
      BY <3>1
    <3>3. CASE i # c
      BY <1>2, <1>3, <3>2, <3>3
    <3>4. CASE i = c
      <4>1. j \in DOMAIN old /\ Means(old[j], e)
        BY <3>2, <3>4 DEF old
      <4>2. j + 1 \in DOMAIN new /\ Means(new[j + 1], e)
        BY <1>5, <4>1
      <4> QED
        BY <1>3, <3>2, <3>4, <4>2 DEF new
    <3> QED
      BY <3>3, <3>4
  <2> QED
    BY <2>1, <2>2
<1>9. ASSUME NEW i \in 1 .. n, NEW j \in DOMAIN U.all[i].syms, NEW l \in DOMAIN U.all[i].syms,
             U.all[i].syms[j].name = U.all[i].syms[l].name
      PROVE  j = l
  <2>1. CASE i # c
    BY <1>2, <1>9, <2>1 DEF Holds, n
  <2>2. CASE i = c
    <3>1. j \in DOMAIN new /\ l \in DOMAIN new /\ new[j].name = new[l].name
      BY <1>9, <2>2 DEF new
    <3>2. new[1].name = d.name
      BY <1>2 DEF Means
    <3>3. CASE j = 1 \/ l = 1
      BY <1>4, <1>6, <3>1, <3>2, <3>3
    <3>4. CASE j # 1 /\ l # 1
      <4>1. /\ j - 1 \in DOMAIN old /\ new[j] = old[j - 1]
            /\ l - 1 \in DOMAIN old /\ new[l] = old[l - 1]
        BY <1>4, <3>1, <3>4
      <4>2. j - 1 = l - 1
        BY <3>1, <4>1 DEF Holds, old
      <4>3. j \in Nat /\ l \in Nat
        BY <1>2, <3>1
      <4> QED
        BY <4>2, <4>3
    <3> QED
      BY <3>3, <3>4
  <2> QED
    BY <2>1, <2>2
<1> QED
  BY <1>3, <1>7, <1>8, <1>9 DEF Holds, U

(* A table with the same scopes and symbols holds the same.  *)
LEMMA SameAll ==
  ASSUME NEW T, NEW U, U.all = T.all, NEW t, NEW D, ScopesOf(T, t), Holds(T, t, D)
  PROVE  ScopesOf(U, t) /\ Holds(U, t, D)
BY DEF ScopesOf, Holds

LEMMA SameScopesCurrent ==
  ASSUME NEW T, NEW U, SameScopes(T, U), NEW t, NEW k, CurrentAt(T, t, k)
  PROVE  CurrentAt(U, t, k)
BY DEF SameScopes, CurrentAt

LEMMA SameScopesTrans ==
  ASSUME NEW T, NEW U, NEW V, SameScopes(T, U), SameScopes(U, V)
  PROVE  SameScopes(T, V)
BY DEF SameScopes

(* ccmmc_symbol_scope_exist looks at the declarations of the block.  *)
LEMMA ExistsHere ==
  ASSUME NEW T \in Table, NEW t, NEW D, ScopesOf(T, t), Holds(T, t, D),
         T.current \in 1 .. Len(T.all), NEW x
  PROVE  ScopeExist(T, x) <=>
           \E d \in D : d.name = x /\ Home(t, d) = T.all[T.current].by
<1> DEFINE c == T.current
<1>1. ASSUME ScopeExist(T, x)
      PROVE  \E d \in D : d.name = x /\ Home(t, d) = T.all[c].by
  <2>1. PICK j \in DOMAIN T.all[c].syms : T.all[c].syms[j].name = x
    BY <1>1 DEF ScopeExist, Named
  <2>2. \E d \in D : Means(T.all[c].syms[j], d) /\ Home(t, d) = T.all[c].by
    BY DEF Holds
  <2> QED
    BY <2>1, <2>2 DEF Means
<1>2. ASSUME NEW d \in D, d.name = x, Home(t, d) = T.all[c].by
      PROVE  ScopeExist(T, x)
  <2>1. PICK i \in 1 .. Len(T.all) : \E j \in DOMAIN T.all[i].syms :
           Means(T.all[i].syms[j], d) /\ Home(t, d) = T.all[i].by
    BY DEF Holds
  <2>2. i = c
    <3>1. T.all[i].by = T.all[c].by
      BY <1>2, <2>1
    <3>2. c \in 1 .. Len(T.all)
      OBVIOUS
    <3> HIDE DEF c
    <3> QED
      BY <3>1, <3>2, ScopesApart
  <2> QED
    BY <1>2, <2>1, <2>2 DEF ScopeExist, Named, Means
<1> QED
  BY <1>1, <1>2

(* The declarations read so far stay where they are.  *)
LEMMA PrefixHolds ==
  ASSUME NEW T, NEW t \in Texts, NEW u \in Texts, Prefix(t, u), NEW D, Holds(T, t, D),
         \A d \in D : d.by[1] \in 1 .. Len(t)
  PROVE  Holds(T, u, D)
<1>1. \A d \in D : Home(u, d) = Home(t, d)
  <2> TAKE d \in D
  <2>1. d.by[1] \in 0 .. Len(t)
    BY TextType
  <2>2. Innermost(u, d.by[1]) = Innermost(t, d.by[1])
    BY <2>1, PrefixOpen
  <2> QED
    BY <2>2 DEF Home
<1> QED
  BY <1>1 DEF Holds

(* An item that opens no block leaves the scopes as they are.  *)
LEMMA PlainScopes ==
  ASSUME NEW T \in Table, NEW t \in Texts, NEW u \in Texts, Prefix(t, u),
         Len(u) = Len(t) + 1, ~ Opener(u, Len(u)), ScopesOf(T, t)
  PROVE  ScopesOf(T, u)
<1>1. Len(t) \in Nat /\ Len(T.all) \in Nat
  BY TextType, TableType
<1>2. \A k \in 1 .. Len(t) : Opener(u, k) <=> Opener(t, k)
  BY DEF Prefix, Opener
<1>3. ASSUME NEW i \in 2 .. Len(T.all)
      PROVE  /\ T.all[i].by \in 1 .. Len(u)
             /\ Opener(u, T.all[i].by)
             /\ T.all[i].next \in 1 .. i - 1
             /\ T.all[T.all[i].next].by = Innermost(u, T.all[i].by - 1)
  <2>1. /\ T.all[i].by \in 1 .. Len(t)
        /\ Opener(t, T.all[i].by)
        /\ T.all[i].next \in 1 .. i - 1
        /\ T.all[T.all[i].next].by = Innermost(t, T.all[i].by - 1)
    BY DEF ScopesOf
  <2>2. T.all[i].by - 1 \in 0 .. Len(t)
    BY <1>1, <2>1
  <2>3. Innermost(u, T.all[i].by - 1) = Innermost(t, T.all[i].by - 1)
    BY <2>2, PrefixOpen
  <2> QED
    BY <1>1, <1>2, <2>1, <2>3
<1>4. ASSUME NEW k \in 1 .. Len(u), Opener(u, k)
      PROVE  \E i \in 2 .. Len(T.all) : T.all[i].by = k
  <2>1. k \in 1 .. Len(t)
    BY <1>1, <1>4
  <2> QED
    BY <1>2, <1>4, <2>1 DEF ScopesOf
<1> QED
  BY <1>3, <1>4 DEF ScopesOf

LEMMA OpenScopeDef ==
  ASSUME NEW T \in Table, NEW by \in Nat
  PROVE  /\ OpenScope(T, by) \in Table
         /\ Len(OpenScope(T, by).all) = Len(T.all) + 1
         /\ \A i \in 1 .. Len(T.all) : OpenScope(T, by).all[i] = T.all[i]
         /\ DOMAIN OpenScope(T, by).all[Len(T.all) + 1].syms = {}
         /\ OpenScope(T, by).all[Len(T.all) + 1].next = T.current
         /\ OpenScope(T, by).all[Len(T.all) + 1].by = by
         /\ OpenScope(T, by).current = Len(T.all) + 1
         /\ OpenScope(T, by).this = T.this
<1> DEFINE s == [syms |-> << >>, next |-> T.current, by |-> by]
           all == Append(T.all, s)
           n == Len(T.all) + 1
           U == OpenScope(T, by)
<1>1. T.all \in Seq(Scope) /\ Len(T.all) \in Nat /\ T.this \in Nat /\ T.current \in Nat
  BY TableType
<1>2. s \in Scope
  BY <1>1 DEF Scope
<1>3. U = [T EXCEPT !.all = all, !.current = n]
  BY DEF OpenScope
<1>4. DOMAIN s.syms = {} /\ s.next = T.current /\ s.by = by
  OBVIOUS
<1> HIDE DEF s, U
<1>5. all \in Seq(Scope)
  BY <1>1, <1>2
<1>6. /\ Len(all) = Len(T.all) + 1
      /\ all[Len(T.all) + 1] = s
      /\ \A i \in 1 .. Len(T.all) : all[i] = T.all[i]
  BY <1>1, <1>2
<1>7. n \in Nat /\ n = Len(T.all) + 1
  BY <1>1
<1> HIDE DEF all, n
<1>8. /\ U \in Table
      /\ U.all = all
      /\ U.current = n
      /\ U.this = T.this
  BY <1>1, <1>3, <1>5, <1>7 DEF Table
<1> QED
  BY <1>4, <1>6, <1>7, <1>8 DEF U

(* ccmmc_symbol_table_open_scope, for a block that begins.  *)
LEMMA OpenScopeKeeps ==
  ASSUME NEW T \in Table, NEW t \in Texts, NEW u \in Texts, Prefix(t, u),
         Grammatical(t), Grammatical(u), Len(u) = Len(t) + 1, Opener(u, Len(u)),
         ScopesOf(T, t), CurrentAt(T, t, Len(t)), NEW D, Holds(T, u, D)
  PROVE  /\ ScopesOf(OpenScope(T, Len(u)), u)
         /\ Holds(OpenScope(T, Len(u)), u, D)
         /\ CurrentAt(OpenScope(T, Len(u)), u, Len(u))
<1> DEFINE U == OpenScope(T, Len(u))
           n == Len(T.all)
<1>1. /\ Len(t) \in Nat /\ n \in Nat /\ n >= 1 /\ Len(u) \in Nat
      /\ T.current \in 1 .. n
  BY TextType, TableType DEF ScopesOf, CurrentAt
<1>2. /\ Len(U.all) = n + 1
      /\ \A i \in 1 .. n : U.all[i] = T.all[i]
      /\ DOMAIN U.all[n + 1].syms = {}
      /\ U.all[n + 1].next = T.current
      /\ U.all[n + 1].by = Len(u)
      /\ U.current = n + 1
  BY <1>1, OpenScopeDef
<1> HIDE DEF U
<1>3. Innermost(u, Len(u)) = Len(u)
  BY <1>1, OpenAfterOpener
<1>4. \A k \in 0 .. Len(t) : Innermost(u, k) = Innermost(t, k)
  BY PrefixOpen
<1>5. \A k \in 1 .. Len(t) : Opener(u, k) <=> Opener(t, k)
  BY DEF Prefix, Opener
<1>6. /\ U.all[1].by = 0 /\ U.all[1].next = 0
  BY <1>1, <1>2 DEF ScopesOf
<1>7. ASSUME NEW i \in 2 .. n + 1
      PROVE  /\ U.all[i].by \in 1 .. Len(u)
             /\ Opener(u, U.all[i].by)
             /\ U.all[i].next \in 1 .. i - 1
             /\ U.all[U.all[i].next].by = Innermost(u, U.all[i].by - 1)
  <2>1. CASE i = n + 1
    <3>1. U.all[T.current].by = Innermost(t, Len(t))
      BY <1>1, <1>2 DEF CurrentAt
    <3>2. Innermost(u, Len(u) - 1) = Innermost(t, Len(t))
      BY <1>1, <1>4
    <3>3. U.all[i].by = Len(u) /\ U.all[i].next = T.current
      BY <1>2, <2>1
    <3>4. Len(u) \in 1 .. Len(u) /\ T.current \in 1 .. i - 1
      BY <1>1, <2>1
    <3> QED
      BY <3>1, <3>2, <3>3, <3>4
  <2>2. CASE i \in 2 .. n
    <3>1. /\ T.all[i].by \in 1 .. Len(t)
          /\ Opener(t, T.all[i].by)
          /\ T.all[i].next \in 1 .. i - 1
          /\ T.all[T.all[i].next].by = Innermost(t, T.all[i].by - 1)
      BY <2>2 DEF ScopesOf
    <3>2. T.all[i].by - 1 \in 0 .. Len(t) /\ T.all[i].next \in 1 .. n
      BY <1>1, <2>2, <3>1, SMTT(30)
    <3>3. /\ U.all[i] = T.all[i]
          /\ U.all[T.all[i].next] = T.all[T.all[i].next]
      BY <1>1, <1>2, <2>2, <3>2, SMTT(30)
    <3>4. T.all[i].by \in 1 .. Len(u) /\ Opener(u, T.all[i].by)
      BY <1>1, <1>5, <3>1
    <3>5. Innermost(u, T.all[i].by - 1) = Innermost(t, T.all[i].by - 1)
      BY <1>4, <3>2
    <3> QED
      BY <3>1, <3>3, <3>4, <3>5
  <2> QED
    BY <1>1, <2>1, <2>2
<1>8. ASSUME NEW i \in 1 .. n + 1, NEW j \in 1 .. n + 1, i < j
      PROVE  U.all[i].by < U.all[j].by
  <2>1. i \in 1 .. n /\ T.all[i].by \in Nat
    BY <1>1, <1>8, ScopesApart
  <2>2. CASE j = n + 1
    <3>1. T.all[i].by <= Len(t)
      <4>1. CASE i = 1
        BY <1>1, <4>1 DEF ScopesOf
      <4>2. CASE i \in 2 .. n
        BY <1>1, <4>2 DEF ScopesOf
      <4> QED
        BY <1>1, <2>1, <4>1, <4>2
    <3> QED
      BY <1>1, <1>2, <2>1, <2>2, <3>1
  <2>3. CASE j \in 1 .. n
    BY <1>2, <1>8, <2>1, <2>3 DEF ScopesOf
  <2> QED
    BY <1>1, <2>2, <2>3
<1>9. ASSUME NEW k \in 1 .. Len(u), Opener(u, k)
      PROVE  \E i \in 2 .. n + 1 : U.all[i].by = k
  <2>1. CASE k = Len(u)
    BY <1>1, <1>2, <2>1
  <2>2. CASE k \in 1 .. Len(t)
    <3>1. PICK i \in 2 .. n : T.all[i].by = k
      BY <1>5, <1>9, <2>2 DEF ScopesOf
    <3> QED
      BY <1>1, <1>2, <3>1, SMTT(30)
  <2> QED
    BY <1>1, <2>1, <2>2
<1>10. ScopesOf(U, u)
  <2>1. PICK l : l = Len(U.all)
    OBVIOUS
  <2>2. l = n + 1 /\ l >= 1
    BY <1>1, <1>2, <2>1
  <2> QED
    BY <2>1, <2>2, <1>6, <1>7, <1>8, <1>9, SMTT(30) DEF ScopesOf
<1>11. Holds(U, u, D)
  <2>1. ASSUME NEW i \in 1 .. n + 1, DOMAIN U.all[i].syms # {}
        PROVE  i \in 1 .. n /\ U.all[i] = T.all[i]
    BY <1>1, <1>2, <2>1
  <2>2. \A i \in 1 .. n + 1 : \A j \in DOMAIN U.all[i].syms :
          \E d \in D : Means(U.all[i].syms[j], d) /\ Home(u, d) = U.all[i].by
    <3> TAKE i \in 1 .. n + 1
    <3> TAKE j \in DOMAIN U.all[i].syms
    <3> QED
      BY <2>1, SMTT(30) DEF Holds
  <2>3. \A d \in D : \E i \in 1 .. n + 1 : \E j \in DOMAIN U.all[i].syms :
          Means(U.all[i].syms[j], d) /\ Home(u, d) = U.all[i].by
    <3> TAKE d \in D
    <3>1. PICK i \in 1 .. n : \E j \in DOMAIN T.all[i].syms :
             Means(T.all[i].syms[j], d) /\ Home(u, d) = T.all[i].by
      BY DEF Holds
    <3>2. i \in 1 .. n + 1 /\ U.all[i] = T.all[i]
      BY <1>1, <1>2
    <3> QED
      BY <3>1, <3>2
  <2>4. \A i \in 1 .. n + 1 : \A j, l \in DOMAIN U.all[i].syms :
          U.all[i].syms[j].name = U.all[i].syms[l].name => j = l
    <3> TAKE i \in 1 .. n + 1
    <3> TAKE j, l \in DOMAIN U.all[i].syms
    <3> QED
      BY <2>1 DEF Holds
  <2> QED
    BY <1>2, <2>2, <2>3, <2>4 DEF Holds
<1>12. CurrentAt(U, u, Len(u))
  BY <1>1, <1>2, <1>3 DEF CurrentAt
<1> QED
  BY <1>10, <1>11, <1>12 DEF U

(* ccmmc_symbol_table_close_scope, at a closing brace.  *)
LEMMA CloseScopeKeeps ==
  ASSUME NEW T \in Table, NEW t \in Texts, Grammatical(t), ScopesOf(T, t),
         NEW k \in 1 .. Len(t), t[k].k = "close", CurrentAt(T, t, k - 1)
  PROVE  /\ CloseScope(T) \in Table
         /\ CloseScope(T).all = T.all
         /\ CloseScope(T).this = T.this
         /\ CurrentAt(CloseScope(T), t, k)
<1> DEFINE c == T.current
<1>1. /\ Len(t) \in Nat /\ k - 1 \in 0 .. Len(t)
      /\ Len(T.all) \in Nat
      /\ c \in 1 .. Len(T.all) /\ T.all[c] \in Scope
      /\ T.all[c].by = Innermost(t, k - 1)
  BY TextType, TableType DEF CurrentAt
<1>2. /\ Innermost(t, k - 1) \in OpenBlocks(t, k - 1)
      /\ Innermost(t, k) = Innermost(t, Innermost(t, k - 1) - 1)
  BY OpenAfterClose
<1>3. Innermost(t, k - 1) \in 1 .. k - 1
  BY <1>1, <1>2, OpenDef
<1>4. c \in 2 .. Len(T.all)
  BY <1>1, <1>3 DEF ScopesOf
<1>5. /\ T.all[c].next \in 1 .. c - 1
      /\ T.all[T.all[c].next].by = Innermost(t, T.all[c].by - 1)
  BY <1>4 DEF ScopesOf
<1>6. CloseScope(T) = [T EXCEPT !.current = T.all[c].next]
  BY DEF CloseScope
<1>7. T.all[c].next \in Nat
  BY <1>1 DEF Scope
<1>8. /\ CloseScope(T) \in Table
      /\ CloseScope(T).all = T.all
      /\ CloseScope(T).this = T.this
      /\ CloseScope(T).current = T.all[c].next
  BY <1>6, <1>7 DEF Table
<1>9. CurrentAt(CloseScope(T), t, k)
  BY <1>1, <1>2, <1>5, <1>8 DEF CurrentAt
<1> QED
  BY <1>8, <1>9

(* ccmmc_symbol_table_reopen_scope, at the block that comes next: what was *)
(* opened for it is what follows the scope reopened last.                  *)
ReopenedTo(T, k) ==
  /\ T.this \in 0 .. Len(T.all)
  /\ \A i \in 1 .. Len(T.all) : i <= T.this <=> T.all[i].by <= k

LEMMA ReopenScopeKeeps ==
  ASSUME NEW T \in Table, NEW t \in Texts, Grammatical(t), ScopesOf(T, t),
         NEW k \in 1 .. Len(t), Opener(t, k), ReopenedTo(T, k - 1)
  PROVE  /\ ReopenScope(T) \in Table
         /\ ReopenScope(T).all = T.all
         /\ CurrentAt(ReopenScope(T), t, k)
         /\ ReopenedTo(ReopenScope(T), k)
<1> DEFINE n == T.this + 1
<1>1. Len(t) \in Nat /\ Len(T.all) \in Nat /\ T.this \in Nat /\ T.this <= Len(T.all)
  BY TextType, TableType DEF ReopenedTo
<1>2. PICK i \in 2 .. Len(T.all) : T.all[i].by = k
  BY DEF ScopesOf
<1>3. i > T.this
  BY <1>1, <1>2 DEF ReopenedTo
<1>4. n \in 1 .. Len(T.all) /\ n <= i
  BY <1>1, <1>2, <1>3
<1>5. T.all[n].by \in Nat /\ T.all[n].by > k - 1
  <2>1. T.all[n].by \in Nat
    BY <1>4, ScopesApart
  <2>2. ~ (n <= T.this)
    BY <1>1
  <2> QED
    BY <1>4, <2>1, <2>2 DEF ReopenedTo
<1>6. n = i
  <2>1. ~ (T.all[n].by < T.all[i].by)
    BY <1>2, <1>5
  <2>2. ~ (n < i)
    BY <1>2, <1>4, <2>1, ScopesApart
  <2> QED
    BY <1>1, <1>2, <1>4, <2>2
<1>7. ReopenScope(T) = [T EXCEPT !.this = n, !.current = n]
  <2>1. T.this < Len(T.all)
    BY <1>1, <1>4
  <2> QED
    BY <2>1 DEF ReopenScope
<1>8. n \in Nat
  BY <1>1
<1> HIDE DEF n
<1>9. /\ ReopenScope(T) \in Table
      /\ ReopenScope(T).all = T.all
      /\ ReopenScope(T).this = n
      /\ ReopenScope(T).current = n
  BY <1>7, <1>8 DEF Table
<1>10. CurrentAt(ReopenScope(T), t, k)
  <2>1. Innermost(t, k) = k
    BY OpenAfterOpener
  <2> QED
    BY <1>2, <1>4, <1>6, <1>9, <2>1 DEF CurrentAt
<1>11. \A j \in 1 .. Len(T.all) : j <= n <=> T.all[j].by <= k
  <2> TAKE j \in 1 .. Len(T.all)
  <2>1. T.all[n].by = k
    BY <1>2, <1>6
  <2>2. T.all[n].by < T.all[j].by <=> n < j
    BY <1>4, ScopesApart
  <2>3. T.all[j].by \in Nat
    BY ScopesApart
  <2> QED
    BY <1>8, <2>1, <2>2, <2>3
<1> QED
  BY <1>1, <1>4, <1>9, <1>10, <1>11 DEF ReopenedTo

-----------------------------------------------------------------------------
(* The parameters of a function, one after the other.                      *)
ParamsDone(g, T, params) ==
  /\ g[0] = T
  /\ \A i \in 1 .. Len(params) : g[i] = InsertParam(g[i - 1], params[i], i)

LEMMA InsertParamsDef ==
  ASSUME NEW T, NEW params, Len(params) \in Nat
  PROVE  \E g : InsertParams(T, params) = g[Len(params)] /\ ParamsDone(g, T, params)
<1> DEFINE N == Len(params)
           Is(g, n) == g = [i \in 0 .. n |-> IF i = 0 THEN T
                                             ELSE InsertParam(g[i - 1], params[i], i)]
           A == {n \in Nat : \E g : Is(g, n)}
<1>1. 0 \in A
  <2>1. Is([i \in 0 .. 0 |-> T], 0)
    OBVIOUS
  <2> QED
    BY <2>1
<1>2. ASSUME NEW n \in Nat, n \in A
      PROVE  n + 1 \in A
  <2>1. PICK g : Is(g, n)
    BY <1>2
  <2> DEFINE h == [i \in 0 .. n + 1 |->
                     IF i <= n THEN g[i] ELSE InsertParam(g[n], params[n + 1], n + 1)]
  <2>2. \A i \in 0 .. n : h[i] = g[i]
    OBVIOUS
  <2>3. h[n + 1] = InsertParam(g[n], params[n + 1], n + 1)
    OBVIOUS
  <2>4. h = [i \in 0 .. n + 1 |-> h[i]]
    OBVIOUS
  <2> HIDE DEF h
  <2>5. ASSUME NEW i \in 0 .. n + 1
        PROVE  h[i] = IF i = 0 THEN T ELSE InsertParam(h[i - 1], params[i], i)
    <3>1. CASE i \in 0 .. n
      <4>1. g[i] = IF i = 0 THEN T ELSE InsertParam(g[i - 1], params[i], i)
        BY <2>1, <3>1
      <4>2. i # 0 => h[i - 1] = g[i - 1]
        BY <2>2, <3>1
      <4> QED
        BY <2>2, <3>1, <4>1, <4>2
    <3>2. CASE i = n + 1
      <4>1. h[i - 1] = g[n] /\ i # 0
        BY <2>2, <3>2
      <4> QED
        BY <2>3, <3>2, <4>1
    <3> QED
      BY <3>1, <3>2
  <2>6. Is(h, n + 1)
    BY <2>4, <2>5
  <2> QED
    BY <2>6
<1>3. N \in A
  <2> HIDE DEF A
  <2> QED
    BY <1>1, <1>2, SetInduction
<1>4. PICK g : Is(g, N)
  BY <1>3
<1> DEFINE s == CHOOSE done : Is(done, N)
<1>5. Is(s, N)
  <2> HIDE DEF Is
  <2> QED
    BY <1>4
<1>6. InsertParams(T, params) = s[N]
  BY DEF InsertParams
<1> HIDE DEF s
<1>7. \A i \in 0 .. N : s[i] = IF i = 0 THEN T ELSE InsertParam(s[i - 1], params[i], i)
  BY <1>5
<1>8. s[0] = T
  BY <1>7
<1>9. ASSUME NEW i \in 1 .. N
      PROVE  s[i] = InsertParam(s[i - 1], params[i], i)
  BY <1>7
<1>10. ParamsDone(s, T, params)
  BY <1>8, <1>9 DEF ParamsDone
<1> QED
  BY <1>6, <1>10

FirstParams(t, k, n) == {OfParam(t, k, i) : i \in 1 .. n}

LEMMA InsertParamsKeeps ==
  ASSUME NEW T \in Table, NEW u \in Texts, Grammatical(u), ScopesOf(T, u),
         NEW D, Holds(T, u, D), Here \in 1 .. Len(u),
         u[Here].k = "function", IsInjective(u[Here].params),
         CurrentAt(T, u, Here), \A d \in D : Home(u, d) # Here
  PROVE  /\ InsertParams(T, u[Here].params) \in Table
         /\ SameScopes(T, InsertParams(T, u[Here].params))
         /\ Holds(InsertParams(T, u[Here].params), u,
                  D \cup FirstParams(u, Here, Len(u[Here].params)))
<1> DEFINE params == u[Here].params
           N == Len(params)
           Good(U, n) == /\ U \in Table
                         /\ SameScopes(T, U)
                         /\ Holds(U, u, D \cup FirstParams(u, Here, n))
<1>1. /\ params \in Seq(Name) /\ N \in Nat /\ DOMAIN params = 1 .. N
      /\ \A i \in 1 .. N : params[i] \in Name
      /\ \A i, j \in 1 .. N : params[i] = params[j] => i = j
  BY ItemType, TextType DEF IsInjective
<1>2. PICK g : InsertParams(T, params) = g[N] /\ ParamsDone(g, T, params)
  BY <1>1, InsertParamsDef
<1>3. Opener(u, Here) /\ Innermost(u, Here) = Here /\ Here \in Nat
  BY OpenAfterOpener, TextType DEF Opener
<1> DEFINE A == {n \in Nat : n <= N => Good(g[n], n)}
<1>4. 0 \in A
  <2>1. FirstParams(u, Here, 0) = {}
    BY DEF FirstParams
  <2>2. SameScopes(T, T)
    BY DEF SameScopes
  <2>3. D \cup FirstParams(u, Here, 0) = D
    BY <2>1
  <2> QED
    BY <1>2, <2>2, <2>3 DEF ParamsDone
<1>5. ASSUME NEW n \in Nat, n \in A
      PROVE  n + 1 \in A
  <2> SUFFICES ASSUME n + 1 <= N
               PROVE  Good(g[n + 1], n + 1)
    OBVIOUS
  <2>1. PICK U : U = g[n]
    OBVIOUS
  <2>2. Good(U, n)
    BY <1>1, <1>5, <2>1
  <2> DEFINE d == OfParam(u, Here, n + 1)
             E == D \cup FirstParams(u, Here, n)
  <2>3. n + 1 \in 1 .. N
    BY <1>1
  <2>4. g[n + 1] = InsertParam(U, params[n + 1], n + 1)
    <3>1. (n + 1) - 1 = n
      OBVIOUS
    <3> QED
      BY <1>2, <2>1, <2>3, <3>1 DEF ParamsDone
  <2>5. /\ d.name = params[n + 1] /\ d.kind = "variable"
        /\ d.by = <<Here, n + 1>> /\ d.level = 1 /\ d \in Declaration
    BY <1>1, <1>3, <2>3 DEF OfParam, Declaration, Kinds
  <2>6. Home(u, d) = Here
    BY <1>3, <2>5 DEF Home
  <2>7. /\ U \in Table /\ SameScopes(T, U) /\ Holds(U, u, E)
    BY <2>2
  <2>8. CurrentAt(U, u, Here) /\ ScopesOf(U, u)
    <3>1. Len(T.all) \in Nat
      BY TableType
    <3> QED
      BY <2>7, <3>1, SameScopesCurrent, SameScopesKeep
  <2>9. \A e \in E : e.name = d.name => Home(u, e) # Here
    <3> SUFFICES ASSUME NEW e \in E, e.name = d.name, Home(u, e) = Here
                 PROVE  FALSE
      OBVIOUS
    <3>1. e \in FirstParams(u, Here, n)
      OBVIOUS
    <3>2. PICK i \in 1 .. n : e = OfParam(u, Here, i)
      BY <3>1 DEF FirstParams
    <3>3. params[i] = params[n + 1] /\ i \in 1 .. N
      BY <1>1, <2>3, <2>5, <3>2 DEF OfParam
    <3> QED
      BY <1>1, <2>3, <3>2, <3>3
  <2>10. U.current \in 1 .. Len(U.all) /\ U.all[U.current].by = Here
    BY <1>3, <2>8 DEF CurrentAt
  <2>11. ~ ScopeExist(U, params[n + 1])
    <3> HIDE DEF E, d
    <3> QED
      BY <2>5, <2>7, <2>8, <2>9, <2>10, ExistsHere
  <2>12. g[n + 1] = Insert(U, d.name, d.kind, d.by)
    BY <2>4, <2>5, <2>11 DEF InsertParam
  <2>13. Holds(Insert(U, d.name, d.kind, d.by), u, E \cup {d})
    <3> HIDE DEF E, d
    <3> QED
      BY <2>5, <2>6, <2>7, <2>9, <2>10, InsertHolds
  <2>14. /\ Insert(U, d.name, d.kind, d.by) \in Table
         /\ SameScopes(U, Insert(U, d.name, d.kind, d.by))
    <3>1. d.name \in Name /\ d.kind \in Kinds /\ d.by \in Nat \X Nat
      BY <2>5 DEF Declaration
    <3> HIDE DEF d
    <3> QED
      BY <2>7, <2>10, <3>1, InsertDef
  <2>15. E \cup {d} = D \cup FirstParams(u, Here, n + 1)
    <3>1. FirstParams(u, Here, n + 1) = FirstParams(u, Here, n) \cup {d}
      <4>1. \A i : i \in 1 .. n + 1 <=> i \in 1 .. n \/ i = n + 1
        OBVIOUS
      <4> QED
        BY <4>1 DEF FirstParams
    <3> QED
      BY <3>1
  <2>16. SameScopes(T, Insert(U, d.name, d.kind, d.by))
    BY <2>7, <2>14, SameScopesTrans
  <2> QED
    BY <2>12, <2>13, <2>14, <2>15, <2>16
<1>6. N \in A
  <2> HIDE DEF A
  <2> QED
    BY <1>1, <1>4, <1>5, SetInduction
<1>7. Good(g[N], N)
  <2> HIDE DEF Good
  <2>1. N <= N
    BY <1>1
  <2> HIDE DEF N
  <2> QED
    BY <1>6, <2>1
<1> QED
  BY <1>2, <1>7

-----------------------------------------------------------------------------
(* Symbols that differ in nothing but their places.                        *)
SameSymbols(T, U) ==
  \A i \in 1 .. Len(T.all) :
    /\ DOMAIN U.all[i].syms = DOMAIN T.all[i].syms
    /\ \A j \in DOMAIN T.all[i].syms :
         /\ U.all[i].syms[j].name = T.all[i].syms[j].name
         /\ U.all[i].syms[j].kind = T.all[i].syms[j].kind
         /\ U.all[i].syms[j].by = T.all[i].syms[j].by

LEMMA SameSymbolsKeep ==
  ASSUME NEW T, NEW U, SameScopes(T, U), SameSymbols(T, U), NEW t, NEW D, Holds(T, t, D)
  PROVE  Holds(U, t, D)
<1>1. Len(U.all) = Len(T.all)
  BY DEF SameScopes
<1>2. ASSUME NEW i \in 1 .. Len(T.all)
      PROVE  /\ U.all[i].by = T.all[i].by
             /\ DOMAIN U.all[i].syms = DOMAIN T.all[i].syms
             /\ \A j \in DOMAIN T.all[i].syms : \A d :
                  Means(U.all[i].syms[j], d) <=> Means(T.all[i].syms[j], d)
             /\ \A j \in DOMAIN T.all[i].syms :
                  U.all[i].syms[j].name = T.all[i].syms[j].name
  BY DEF SameScopes, SameSymbols, Means
<1>3. \A i \in 1 .. Len(U.all) : \A j \in DOMAIN U.all[i].syms :
        \E d \in D : Means(U.all[i].syms[j], d) /\ Home(t, d) = U.all[i].by
  <2> TAKE i \in 1 .. Len(U.all)
  <2> TAKE j \in DOMAIN U.all[i].syms
  <2>1. i \in 1 .. Len(T.all) /\ j \in DOMAIN T.all[i].syms
    BY <1>1, <1>2
  <2>2. PICK d \in D : Means(T.all[i].syms[j], d) /\ Home(t, d) = T.all[i].by
    BY <2>1 DEF Holds
  <2> QED
    BY <1>2, <2>1, <2>2
<1>4. \A d \in D : \E i \in 1 .. Len(U.all) : \E j \in DOMAIN U.all[i].syms :
        Means(U.all[i].syms[j], d) /\ Home(t, d) = U.all[i].by
  <2> TAKE d \in D
  <2>1. PICK i \in 1 .. Len(T.all) : \E j \in DOMAIN T.all[i].syms :
           Means(T.all[i].syms[j], d) /\ Home(t, d) = T.all[i].by
    BY DEF Holds
  <2>2. PICK j \in DOMAIN T.all[i].syms :
           Means(T.all[i].syms[j], d) /\ Home(t, d) = T.all[i].by
    BY <2>1
  <2> QED
    BY <1>1, <1>2, <2>2
<1>5. \A i \in 1 .. Len(U.all) : \A j, l \in DOMAIN U.all[i].syms :
        U.all[i].syms[j].name = U.all[i].syms[l].name => j = l
  <2> TAKE i \in 1 .. Len(U.all)
  <2> TAKE j, l \in DOMAIN U.all[i].syms
  <2>1. i \in 1 .. Len(T.all) /\ j \in DOMAIN T.all[i].syms /\ l \in DOMAIN T.all[i].syms
    BY <1>1, <1>2
  <2> QED
    BY <1>2, <2>1 DEF Holds
<1> QED
  BY <1>3, <1>4, <1>5 DEF Holds

(* What an operation that sets places in the current scope leaves alone.   *)
OnlyPlaces(T, U) ==
  /\ U \in Table
  /\ SameScopes(T, U)
  /\ SameSymbols(T, U)
  /\ OthersSame(T, U, T.current)

(* The address of the symbol that is called x in the current scope.        *)
PlaceSet(T, U, x, place) ==
  \A j \in DOMAIN T.all[T.current].syms :
    U.all[T.current].syms[j].place =
      IF T.all[T.current].syms[j].name = x THEN place
      ELSE T.all[T.current].syms[j].place

LEMMA SetPlaceKeeps ==
  ASSUME NEW T \in Table, NEW t \in Texts, Grammatical(t), ScopesOf(T, t),
         SymbolsOf(T, t), NEW k \in 0 .. Len(t), CurrentAt(T, t, k), NEW x,
         Named(T.all[T.current], x) # {}, NEW place \in Place
  PROVE  /\ OnlyPlaces(T, SetPlace(T, x, place))
         /\ PlaceSet(T, SetPlace(T, x, place), x, place)
<1> DEFINE c == T.current
           syms == T.all[c].syms
           f == First(Named(T.all[c], x))
           sym == [syms[f] EXCEPT !.place = place]
           new == [syms EXCEPT ![f] = sym]
           scope == [T.all[c] EXCEPT !.syms = new]
           all == [T.all EXCEPT ![c] = scope]
           U == SetPlace(T, x, place)
<1>1. /\ T.all \in Seq(Scope) /\ Len(T.all) \in Nat /\ DOMAIN T.all = 1 .. Len(T.all)
      /\ c \in 1 .. Len(T.all) /\ T.all[c] \in Scope
  BY TableType DEF CurrentAt
<1>2. Holder(T, x) = c
  <2>1. Chain(T, ChainAt(T, t, k)) /\ Linked(T)
    BY ChainAtIsChain, ScopesLinked
  <2>2. PICK C : Chain(T, C)
    BY <2>1
  <2>3. /\ c \in C /\ \A i \in C : i <= c
        /\ C \subseteq DOMAIN T.all
    BY <2>2 DEF Chain
  <2>4. /\ Holder(T, x) \in C
        /\ \A i \in C : Named(T.all[i], x) # {} => i <= Holder(T, x)
    BY <2>1, <2>2, <2>3, HolderInChain
  <2>5. Holder(T, x) \in Nat /\ Holder(T, x) <= c
    BY <1>1, <2>3, <2>4
  <2>6. c <= Holder(T, x)
    BY <2>3, <2>4
  <2> QED
    BY <1>1, <2>5, <2>6
<1>3. /\ syms \in Seq(Symbol) /\ f \in DOMAIN syms /\ syms[f].name = x
  BY <1>1, FirstNamed DEF Scope
<1>4. \A j \in DOMAIN syms : syms[j].name = x <=> j = f
  BY <1>1, <1>3 DEF SymbolsOf, Holds
<1>5. U = [T EXCEPT !.all = all]
  BY <1>2 DEF SetPlace
<1> HIDE DEF f, U
<1>6. /\ sym \in Symbol /\ sym.place = place
      /\ sym.name = syms[f].name /\ sym.kind = syms[f].kind /\ sym.by = syms[f].by
  <2>1. syms[f] \in Symbol
    BY <1>3
  <2> HIDE DEF syms
  <2> QED
    BY <2>1 DEF Symbol
<1> HIDE DEF sym
<1>7. /\ new \in Seq(Symbol) /\ DOMAIN new = DOMAIN syms
      /\ new[f] = sym
      /\ \A j \in DOMAIN syms : j # f => new[j] = syms[j]
  BY <1>3, <1>6
<1> HIDE DEF new
<1>8. scope \in Scope /\ scope.syms = new /\ scope.by = T.all[c].by /\ scope.next = T.all[c].next
  BY <1>1, <1>7 DEF Scope
<1> HIDE DEF scope
<1>9. /\ all \in Seq(Scope) /\ Len(all) = Len(T.all)
      /\ all[c] = scope
      /\ \A i \in 1 .. Len(T.all) : i # c => all[i] = T.all[i]
  BY <1>1, <1>8
<1> HIDE DEF all
<1>10. U \in Table /\ U.all = all /\ U.current = T.current /\ U.this = T.this
  BY <1>5, <1>9 DEF Table
<1>11. SameScopes(T, U)
  BY <1>8, <1>9, <1>10 DEF SameScopes
<1>12. OthersSame(T, U, c)
  BY <1>9, <1>10 DEF OthersSame
<1>13. \A j \in DOMAIN syms :
         /\ new[j].name = syms[j].name /\ new[j].kind = syms[j].kind
         /\ new[j].by = syms[j].by
         /\ new[j].place = IF syms[j].name = x THEN place ELSE syms[j].place
  <2> TAKE j \in DOMAIN syms
  <2>1. CASE j = f
    BY <1>3, <1>6, <1>7, <2>1
  <2>2. CASE j # f
    BY <1>4, <1>7, <2>2
  <2> QED
    BY <2>1, <2>2
<1>14. SameSymbols(T, U)
  <2> SUFFICES ASSUME NEW i \in 1 .. Len(T.all)
               PROVE  /\ DOMAIN U.all[i].syms = DOMAIN T.all[i].syms
                      /\ \A j \in DOMAIN T.all[i].syms :
                           /\ U.all[i].syms[j].name = T.all[i].syms[j].name
                           /\ U.all[i].syms[j].kind = T.all[i].syms[j].kind
                           /\ U.all[i].syms[j].by = T.all[i].syms[j].by
    BY DEF SameSymbols
  <2>1. CASE i = c
    BY <1>7, <1>8, <1>9, <1>10, <1>13, <2>1
  <2>2. CASE i # c
    BY <1>9, <1>10, <2>2
  <2> QED
    BY <2>1, <2>2
<1>15. \A j \in DOMAIN syms :
         U.all[c].syms[j].place = IF syms[j].name = x THEN place ELSE syms[j].place
  BY <1>8, <1>9, <1>10, <1>13
<1> QED
  BY <1>10, <1>11, <1>12, <1>14, <1>15 DEF OnlyPlaces, PlaceSet, U, syms

LEMMA OnlyPlacesKeep ==
  ASSUME NEW T \in Table, NEW U, OnlyPlaces(T, U), NEW t, NEW k,
         ScopesOf(T, t), SymbolsOf(T, t), CurrentAt(T, t, k)
  PROVE  ScopesOf(U, t) /\ SymbolsOf(U, t) /\ CurrentAt(U, t, k)
<1>1. Len(T.all) \in Nat /\ SameScopes(T, U) /\ SameSymbols(T, U)
  BY TableType DEF OnlyPlaces
<1> QED
  BY <1>1, SameScopesKeep, SameScopesCurrent, SameSymbolsKeep DEF SymbolsOf

LEMMA OnlyPlacesTrans ==
  ASSUME NEW T, NEW U, NEW V, OnlyPlaces(T, U), OnlyPlaces(U, V)
  PROVE  OnlyPlaces(T, V)
<1>1. /\ Len(U.all) = Len(T.all) /\ U.current = T.current
  BY DEF OnlyPlaces, SameScopes
<1>2. SameScopes(T, V)
  BY SameScopesTrans DEF OnlyPlaces
<1>3. SameSymbols(T, V)
  BY <1>1 DEF OnlyPlaces, SameSymbols
<1>4. OthersSame(T, V, T.current)
  BY <1>1 DEF OnlyPlaces, OthersSame
<1> QED
  BY <1>2, <1>3, <1>4 DEF OnlyPlaces

(* The places of names, one after the other.  *)
PlacesDone(g, T, names, places) ==
  /\ g[0] = T
  /\ \A i \in 1 .. Len(names) : g[i] = SetPlace(g[i - 1], names[i], places[i])

LEMMA PlaceAllDef ==
  ASSUME NEW T, NEW names, NEW places, Len(names) \in Nat
  PROVE  \E g : PlaceAll(T, names, places) = g[Len(names)]
                /\ PlacesDone(g, T, names, places)
<1> DEFINE N == Len(names)
           Is(g, n) == g = [i \in 0 .. n |-> IF i = 0 THEN T
                                             ELSE SetPlace(g[i - 1], names[i], places[i])]
           A == {n \in Nat : \E g : Is(g, n)}
<1>1. 0 \in A
  <2>1. Is([i \in 0 .. 0 |-> T], 0)
    OBVIOUS
  <2> QED
    BY <2>1
<1>2. ASSUME NEW n \in Nat, n \in A
      PROVE  n + 1 \in A
  <2>1. PICK g : Is(g, n)
    BY <1>2
  <2> DEFINE h == [i \in 0 .. n + 1 |->
                     IF i <= n THEN g[i] ELSE SetPlace(g[n], names[n + 1], places[n + 1])]
  <2>2. \A i \in 0 .. n : h[i] = g[i]
    OBVIOUS
  <2>3. h[n + 1] = SetPlace(g[n], names[n + 1], places[n + 1])
    OBVIOUS
  <2>4. h = [i \in 0 .. n + 1 |-> h[i]]
    OBVIOUS
  <2> HIDE DEF h
  <2>5. ASSUME NEW i \in 0 .. n + 1
        PROVE  h[i] = IF i = 0 THEN T ELSE SetPlace(h[i - 1], names[i], places[i])
    <3>1. CASE i \in 0 .. n
      <4>1. g[i] = IF i = 0 THEN T ELSE SetPlace(g[i - 1], names[i], places[i])
        BY <2>1, <3>1
      <4>2. i # 0 => h[i - 1] = g[i - 1]
        BY <2>2, <3>1
      <4> QED
        BY <2>2, <3>1, <4>1, <4>2
    <3>2. CASE i = n + 1
      <4>1. h[i - 1] = g[n] /\ i # 0
        BY <2>2, <3>2
      <4> QED
        BY <2>3, <3>2, <4>1
    <3> QED
      BY <3>1, <3>2
  <2>6. Is(h, n + 1)
    BY <2>4, <2>5
  <2> QED
    BY <2>6
<1>3. N \in A
  <2> HIDE DEF A
  <2> QED
    BY <1>1, <1>2, SetInduction
<1>4. PICK g : Is(g, N)
  BY <1>3
<1> DEFINE s == CHOOSE done : Is(done, N)
<1>5. Is(s, N)
  <2> HIDE DEF Is
  <2> QED
    BY <1>4
<1>6. PlaceAll(T, names, places) = s[N]
  BY DEF PlaceAll
<1> HIDE DEF s
<1>7. \A i \in 0 .. N : s[i] = IF i = 0 THEN T ELSE SetPlace(s[i - 1], names[i], places[i])
  BY <1>5
<1>8. s[0] = T
  BY <1>7
<1>9. ASSUME NEW i \in 1 .. N
      PROVE  s[i] = SetPlace(s[i - 1], names[i], places[i])
  BY <1>7
<1>10. PlacesDone(s, T, names, places)
  BY <1>8, <1>9 DEF PlacesDone
<1> QED
  BY <1>6, <1>10

(* The symbols of the current scope that have one of the names have the    *)
(* place of the name, and the others the place that they had.              *)
PlacesSet(T, U, names, places, n) ==
  \A j \in DOMAIN T.all[T.current].syms :
    /\ \A i \in 1 .. n : T.all[T.current].syms[j].name = names[i]
                         => U.all[T.current].syms[j].place = places[i]
    /\ (\A i \in 1 .. n : T.all[T.current].syms[j].name # names[i])
       => U.all[T.current].syms[j].place = T.all[T.current].syms[j].place

LEMMA PlaceAllKeeps ==
  ASSUME NEW T \in Table, NEW t \in Texts, Grammatical(t), ScopesOf(T, t),
         SymbolsOf(T, t), NEW k \in 0 .. Len(t), CurrentAt(T, t, k),
         NEW names, NEW places, Len(names) \in Nat,
         \A i \in 1 .. Len(names) :
           Named(T.all[T.current], names[i]) # {} /\ places[i] \in Place,
         \A i, j \in 1 .. Len(names) : names[i] = names[j] => i = j
  PROVE  /\ OnlyPlaces(T, PlaceAll(T, names, places))
         /\ PlacesSet(T, PlaceAll(T, names, places), names, places, Len(names))
<1> DEFINE N == Len(names)
           c == T.current
           Good(U, n) == OnlyPlaces(T, U) /\ PlacesSet(T, U, names, places, n)
<1>1. PICK g : PlaceAll(T, names, places) = g[N] /\ PlacesDone(g, T, names, places)
  BY PlaceAllDef
<1> DEFINE A == {n \in Nat : n <= N => Good(g[n], n)}
<1>2. 0 \in A
  <2>1. OnlyPlaces(T, T)
    BY DEF OnlyPlaces, SameScopes, SameSymbols, OthersSame
  <2>2. PlacesSet(T, T, names, places, 0)
    BY DEF PlacesSet
  <2> QED
    BY <1>1, <2>1, <2>2 DEF PlacesDone
<1>3. ASSUME NEW n \in Nat, n \in A
      PROVE  n + 1 \in A
  <2> SUFFICES ASSUME n + 1 <= N
               PROVE  Good(g[n + 1], n + 1)
    OBVIOUS
  <2>1. PICK U : U = g[n]
    OBVIOUS
  <2>2. Good(U, n)
    BY <1>3, <2>1
  <2>3. n + 1 \in 1 .. N
    OBVIOUS
  <2> DEFINE x == names[n + 1]
             V == SetPlace(U, x, places[n + 1])
  <2>4. g[n + 1] = V
    <3>1. (n + 1) - 1 = n
      OBVIOUS
    <3> QED
      BY <1>1, <2>1, <2>3, <3>1 DEF PlacesDone
  <2>5. /\ U \in Table /\ SameScopes(T, U) /\ SameSymbols(T, U)
        /\ OnlyPlaces(T, U) /\ PlacesSet(T, U, names, places, n)
    BY <2>2 DEF OnlyPlaces
  <2>6. ScopesOf(U, t) /\ SymbolsOf(U, t) /\ CurrentAt(U, t, k)
    BY <2>5, OnlyPlacesKeep
  <2>7. U.current = c /\ c \in 1 .. Len(T.all)
    BY <2>5 DEF SameScopes, CurrentAt
  <2>8. /\ DOMAIN U.all[c].syms = DOMAIN T.all[c].syms
        /\ \A j \in DOMAIN T.all[c].syms : U.all[c].syms[j].name = T.all[c].syms[j].name
    BY <2>5, <2>7 DEF SameSymbols
  <2>9. Named(U.all[U.current], x) # {} /\ places[n + 1] \in Place
    <3>1. Named(T.all[c], x) # {} /\ places[n + 1] \in Place
      BY <2>3
    <3> QED
      BY <2>7, <2>8, <3>1 DEF Named
  <2>10. /\ OnlyPlaces(U, V)
         /\ \A j \in DOMAIN U.all[c].syms :
              V.all[c].syms[j].place =
                IF U.all[c].syms[j].name = x THEN places[n + 1]
                ELSE U.all[c].syms[j].place
    <3> DEFINE p == places[n + 1]
    <3>1. /\ U \in Table /\ ScopesOf(U, t) /\ SymbolsOf(U, t) /\ CurrentAt(U, t, k)
          /\ Named(U.all[U.current], x) # {} /\ p \in Place
      BY <2>5, <2>6, <2>9
    <3> HIDE DEF x, p
    <3>2. /\ OnlyPlaces(U, SetPlace(U, x, p))
          /\ PlaceSet(U, SetPlace(U, x, p), x, p)
      BY <3>1, SetPlaceKeeps
    <3> QED
      BY <2>7, <3>2 DEF p, PlaceSet
  <2> HIDE DEF V
  <2>11. PlacesSet(T, V, names, places, n + 1)
    <3> SUFFICES ASSUME NEW j \in DOMAIN T.all[c].syms
                 PROVE  /\ \A i \in 1 .. n + 1 : T.all[c].syms[j].name = names[i]
                             => V.all[c].syms[j].place = places[i]
                        /\ (\A i \in 1 .. n + 1 : T.all[c].syms[j].name # names[i])
                           => V.all[c].syms[j].place = T.all[c].syms[j].place
      BY DEF PlacesSet
    <3> DEFINE y == T.all[c].syms[j].name
    <3>1. V.all[c].syms[j].place =
            IF y = x THEN places[n + 1] ELSE U.all[c].syms[j].place
      BY <2>8, <2>10
    <3>2. /\ \A i \in 1 .. n : y = names[i] => U.all[c].syms[j].place = places[i]
          /\ (\A i \in 1 .. n : y # names[i])
             => U.all[c].syms[j].place = T.all[c].syms[j].place
      BY <2>5 DEF PlacesSet
    <3> HIDE DEF y
    <3>3. ASSUME NEW i \in 1 .. n + 1, y = names[i]
          PROVE  V.all[c].syms[j].place = places[i]
      <4>1. CASE i = n + 1
        BY <3>1, <3>3, <4>1
      <4>2. CASE i \in 1 .. n
        <5>1. i \in 1 .. N /\ i # n + 1
          BY <2>3, <4>2
        <5>2. y # x
          BY <2>3, <3>3, <5>1
        <5> QED
          BY <3>1, <3>2, <3>3, <4>2, <5>2
      <4> QED
        BY <4>1, <4>2
    <3>4. ASSUME \A i \in 1 .. n + 1 : y # names[i]
          PROVE  V.all[c].syms[j].place = T.all[c].syms[j].place
      <4>1. y # x /\ \A i \in 1 .. n : y # names[i]
        BY <3>4
      <4> QED
        BY <3>1, <3>2, <4>1
    <3> QED
      BY <3>3, <3>4 DEF y
  <2>12. OnlyPlaces(T, V)
    BY <2>5, <2>10, OnlyPlacesTrans
  <2> QED
    BY <2>4, <2>11, <2>12
<1>4. N \in A
  <2> HIDE DEF A
  <2> QED
    BY <1>2, <1>3, SetInduction
<1>5. Good(g[N], N)
  <2> HIDE DEF Good
  <2>1. N <= N
    OBVIOUS
  <2> HIDE DEF N
  <2> QED
    BY <1>4, <2>1
<1> QED
  BY <1>1, <1>5

-----------------------------------------------------------------------------
(* A text that grows by one item.  *)
Grows(t, u) == Prefix(t, u) /\ Len(u) = Len(t) + 1

LEMMA ReadItem ==
  ASSUME NEW t \in Texts, NEW item \in Items, HasName(item) => item.name \in Name
  PROVE  /\ Append(t, item) \in Texts
         /\ Grows(t, Append(t, item))
         /\ Append(t, item)[Len(t) + 1] = item
<1> DEFINE u == Append(t, item)
<1>1. t \in Seq(Items) /\ Len(t) \in Nat /\ DOMAIN t = 1 .. Len(t)
  BY DEF Texts
<1>2. /\ u \in Seq(Items) /\ Len(u) = Len(t) + 1 /\ DOMAIN u = 1 .. Len(t) + 1
      /\ u[Len(t) + 1] = item
      /\ \A k \in 1 .. Len(t) : u[k] = t[k]
  BY <1>1
<1> HIDE DEF u
<1>3. \A k \in DOMAIN u : HasName(u[k]) => u[k].name \in Name
  <2> TAKE k \in DOMAIN u
  <2>1. CASE k = Len(t) + 1
    BY <1>2, <2>1
  <2>2. CASE k \in 1 .. Len(t)
    BY <1>1, <1>2, <2>2 DEF Texts
  <2> QED
    BY <1>1, <1>2, <2>1, <2>2
<1>4. u \in Texts
  BY <1>2, <1>3 DEF Texts
<1>5. Grows(t, u)
  BY <1>1, <1>2 DEF Grows, Prefix
<1> QED
  BY <1>2, <1>4, <1>5 DEF u

(* Where an item may stand.  *)
MayFollow(t, item) ==
  /\ item.k \in {"global", "function"} => Level(t)[Len(t)] = 0
  /\ item.k \in {"block", "local", "use", "call", "close"} => Level(t)[Len(t)] >= 1
  /\ item.k = "local" => Len(t) > 0 /\ t[Len(t)].k \in {"function", "block", "local"}

LEMMA ReadGrammatical ==
  ASSUME NEW t \in Texts, NEW u \in Texts, Grows(t, u), Grammatical(t),
         MayFollow(t, u[Len(t) + 1])
  PROVE  Grammatical(u)
<1>1. /\ Len(t) \in Nat /\ Len(u) = Len(t) + 1 /\ Prefix(t, u)
      /\ DOMAIN u = 1 .. Len(t) + 1 /\ DOMAIN t = 1 .. Len(t)
  BY TextType DEF Grows
<1>2. \A k \in 0 .. Len(t) : Level(u)[k] = Level(t)[k]
  BY <1>1, PrefixLevel
<1>3. \A k \in 1 .. Len(t) : u[k] = t[k]
  BY <1>1 DEF Prefix
<1> SUFFICES ASSUME NEW k \in 1 .. Len(t) + 1
             PROVE  /\ u[k].k \in {"global", "function"} => Level(u)[k - 1] = 0
                    /\ u[k].k \in {"block", "local", "use", "call", "close"}
                         => Level(u)[k - 1] >= 1
                    /\ u[k].k = "local" => k > 1 /\ u[k - 1].k \in {"function", "block", "local"}
  BY <1>1 DEF Grammatical
<1>4. CASE k = Len(t) + 1
  <2>1. Level(u)[k - 1] = Level(t)[Len(t)]
    BY <1>1, <1>2, <1>4
  <2>2. Len(t) > 0 => u[k - 1] = t[Len(t)] /\ k > 1
    BY <1>1, <1>3, <1>4
  <2> QED
    BY <1>4, <2>1, <2>2 DEF MayFollow
<1>5. CASE k \in 1 .. Len(t)
  <2>1. Level(u)[k - 1] = Level(t)[k - 1] /\ u[k] = t[k]
    BY <1>1, <1>2, <1>3, <1>5
  <2>2. k > 1 => u[k - 1] = t[k - 1]
    BY <1>1, <1>3, <1>5
  <2> QED
    BY <1>1, <1>5, <2>1, <2>2 DEF Grammatical
<1> QED
  BY <1>1, <1>4, <1>5

LEMMA NewDeclarations ==
  ASSUME NEW t \in Texts, NEW u \in Texts, Grows(t, u), NEW d
  PROVE  d \in Declarations(u) <=>
           \/ d \in Declarations(t)
           \/ /\ u[Len(t) + 1].k \in {"global", "function", "local"}
              /\ d = OfItem(u, Len(t) + 1)
           \/ /\ u[Len(t) + 1].k = "function"
              /\ \E i \in DOMAIN u[Len(t) + 1].params : d = OfParam(u, Len(t) + 1, i)
<1> DEFINE n == Len(t) + 1
<1>1. /\ Len(t) \in Nat /\ Len(u) = n /\ Prefix(t, u)
      /\ DOMAIN u = 1 .. n /\ n \in 1 .. n
  BY TextType DEF Grows
<1>2. d \in Declarations(t) <=> d \in Declarations(u) /\ d.by[1] <= Len(t)
  BY <1>1, PrefixDeclarations
<1>3. ASSUME d \in Declarations(u), ~ (d \in Declarations(t))
      PROVE  d.by[1] = n
  <2>1. d.by[1] \in 1 .. n
    BY <1>1, <1>3, DeclaredAt
  <2> QED
    BY <1>1, <1>2, <1>3, <2>1
<1>4. \A k : OfItem(u, k).by[1] = k
  BY DEF OfItem
<1>5. \A k, i : OfParam(u, k, i).by[1] = k
  BY DEF OfParam
<1> HIDE DEF n
<1>6. ASSUME d \in Declarations(u), d.by[1] = n
      PROVE  \/ u[n].k \in {"global", "function", "local"} /\ d = OfItem(u, n)
             \/ u[n].k = "function" /\ \E i \in DOMAIN u[n].params : d = OfParam(u, n, i)
  <2>1. CASE \E k \in DOMAIN u : u[k].k \in {"global", "function", "local"} /\ d = OfItem(u, k)
    BY <1>4, <1>6, <2>1
  <2>2. CASE \E k \in DOMAIN u : u[k].k = "function" /\
               \E i \in DOMAIN u[k].params : d = OfParam(u, k, i)
    BY <1>5, <1>6, <2>2
  <2> QED
    BY <1>6, <2>1, <2>2, DeclarationCases
<1>7. ASSUME \/ u[n].k \in {"global", "function", "local"} /\ d = OfItem(u, n)
             \/ u[n].k = "function" /\ \E i \in DOMAIN u[n].params : d = OfParam(u, n, i)
      PROVE  d \in Declarations(u)
  BY <1>1, <1>7, DeclarationCases
<1> QED
  BY <1>2, <1>3, <1>6, <1>7 DEF n

(* When the names of a text with one more item are in order.  *)
LEMMA ScopedStep ==
  ASSUME NEW t \in Texts, NEW u \in Texts, Grows(t, u), WellScoped(t),
         NEW n, n = Len(t) + 1,
         Mentions(u, n) # NULL =>
           /\ Lexical(t, Mentions(u, n), n) # NULL
           /\ Lexical(t, Mentions(u, n), n).kind =
                IF u[n].k = "call" THEN "function" ELSE "variable",
         \A d \in Declarations(t), e \in Declarations(u) :
           e.by[1] = n /\ d.name = e.name /\ d.level = e.level => d \notin VisibleAt(t, n),
         \A d, e \in Declarations(u) :
           d.by[1] = n /\ e.by[1] = n /\ d.name = e.name /\ d.level = e.level => d = e
  PROVE  WellScoped(u)
<1>1. /\ Len(t) \in Nat /\ Len(u) = n /\ Prefix(t, u) /\ n \in 1 .. Len(t) + 1
      /\ DOMAIN u = 1 .. n /\ DOMAIN t = 1 .. Len(t)
  BY TextType DEF Grows
<1>2. NamesDeclared(u)
  <2> SUFFICES ASSUME NEW k \in 1 .. n, Mentions(u, k) # NULL
               PROVE  /\ Lexical(u, Mentions(u, k), k) # NULL
                      /\ Lexical(u, Mentions(u, k), k).kind =
                           IF u[k].k = "call" THEN "function" ELSE "variable"
    BY <1>1 DEF NamesDeclared
  <2>1. k \in 1 .. Len(t) + 1
    BY <1>1
  <2>2. Lexical(u, Mentions(u, k), k) = Lexical(t, Mentions(u, k), k)
    BY <1>1, <2>1, PrefixLexical
  <2>3. CASE k = n
    BY <2>2, <2>3
  <2>4. CASE k \in 1 .. Len(t)
    <3>1. Mentions(u, k) = Mentions(t, k) /\ u[k] = t[k]
      BY <1>1, <2>4, PrefixBinding DEF Prefix
    <3>2. /\ Lexical(t, Mentions(t, k), k) # NULL
          /\ Lexical(t, Mentions(t, k), k).kind =
               IF t[k].k = "call" THEN "function" ELSE "variable"
      BY <1>1, <2>4, <3>1 DEF WellScoped, NamesDeclared
    <3> QED
      BY <2>2, <3>1, <3>2
  <2> QED
    BY <1>1, <2>3, <2>4
<1>3. DeclaredOnce(u)
  <2> SUFFICES ASSUME NEW d \in Declarations(u), NEW e \in Declarations(u),
                      d.name = e.name, d.level = e.level, d # e
               PROVE  /\ d.by[1] # e.by[1]
                      /\ d.by[1] < e.by[1] => d \notin VisibleAt(u, e.by[1])
    BY DEF DeclaredOnce
  <2>1. d.by[1] \in 1 .. n /\ e.by[1] \in 1 .. n
    BY <1>1, DeclaredAt
  <2>2. /\ d \in Declarations(t) <=> d.by[1] <= Len(t)
        /\ e \in Declarations(t) <=> e.by[1] <= Len(t)
    BY <1>1, PrefixDeclarations
  <2>3. VisibleAt(u, e.by[1]) = VisibleAt(t, e.by[1])
    BY <1>1, <2>1, PrefixVisible
  <2>4. CASE e.by[1] = n
    <3>1. d.by[1] # n
      BY <2>4
    <3>2. d \in Declarations(t)
      BY <1>1, <2>1, <2>2, <3>1
    <3>3. d \notin VisibleAt(t, n)
      BY <2>4, <3>2
    <3> QED
      BY <2>3, <2>4, <3>1, <3>3
  <2>5. CASE e.by[1] # n
    <3>1. e \in Declarations(t) /\ e.by[1] < n
      BY <1>1, <2>1, <2>2, <2>5
    <3>2. CASE d.by[1] = n
      BY <1>1, <2>1, <3>1, <3>2
    <3>3. CASE d.by[1] # n
      <4>1. d \in Declarations(t)
        BY <1>1, <2>1, <2>2, <3>3
      <4>2. /\ d.by[1] # e.by[1]
            /\ d.by[1] < e.by[1] => d \notin VisibleAt(t, e.by[1])
        BY <3>1, <4>1 DEF WellScoped, DeclaredOnce
      <4> QED
        BY <2>3, <4>2
    <3> QED
      BY <3>2, <3>3
  <2> QED
    BY <2>4, <2>5
<1> QED
  BY <1>2, <1>3 DEF WellScoped

-----------------------------------------------------------------------------
(* The current scope, and what is declared in it.                          *)
LEMMA InsideLevel ==
  ASSUME NEW T \in Table, NEW t \in Texts, Grammatical(t), ScopesOf(T, t),
         NEW k \in 0 .. Len(t), CurrentAt(T, t, k)
  PROVE  T.current = 1 <=> Level(t)[k] = 0
<1>1. T.all[T.current].by = Innermost(t, k) /\ T.current \in 1 .. Len(T.all)
  BY DEF CurrentAt
<1>2. Len(T.all) \in Nat
  BY TableType
<1>3. T.current # 1 => T.current \in 2 .. Len(T.all)
  BY <1>1, <1>2
<1>4. T.current = 1 <=> T.all[T.current].by = 0
  BY <1>1, <1>3 DEF ScopesOf
<1> QED
  BY <1>1, <1>4, InnermostLevel

LEMMA SameBlock ==
  ASSUME NEW t \in Texts, Grammatical(t), NEW d \in Declarations(t),
         NEW k \in 0 .. Len(t), d.by[1] <= k, NEW b \in OpenBlocks(t, k) \cup {0}
  PROVE  Home(t, d) = b <=> d.level = Level(t)[b] /\ d \in VisibleAt(t, k + 1)
<1>1. Len(t) \in Nat /\ k \in Nat /\ k + 1 \in 1 .. Len(t) + 1 /\ (k + 1) - 1 = k
  BY TextType
<1>2. d.by[1] \in 1 .. Len(t)
  BY DeclarationType
<1>3. d \in VisibleAt(t, k + 1) <=> Home(t, d) \in OpenBlocks(t, k) \cup {0}
  <2>1. d \in VisibleAt(t, k + 1) <=>
          d.by[1] < k + 1 /\ Home(t, d) \in OpenBlocks(t, (k + 1) - 1) \cup {0}
    BY <1>1, VisibleHome
  <2>2. d.by[1] < k + 1
    BY <1>1, <1>2
  <2> QED
    BY <1>1, <2>1, <2>2
<1>4. /\ Level(t)[Home(t, d)] = d.level
      /\ d.level = 0 <=> Home(t, d) = 0
  BY HomeLevel
<1>5. Level(t)[0] = 0
  BY LevelDef DEF LevelFits
<1>6. \A m \in OpenBlocks(t, k) : Level(t)[m] # 0
  BY OpenLevels
<1>7. ASSUME Home(t, d) \in OpenBlocks(t, k), b \in OpenBlocks(t, k),
             Level(t)[Home(t, d)] = Level(t)[b]
      PROVE  Home(t, d) = b
  BY <1>7, OpenLevels
<1> QED
  BY <1>3, <1>4, <1>5, <1>6, <1>7

(* What a declaration does, if the name is new in its block.               *)
NewInBlock(T, t, d) ==
  \A e \in Declarations(t) :
    e.name = d.name => /\ Home(t, e) # T.all[T.current].by
                       /\ e.level # d.level \/ e \notin VisibleAt(t, Len(t) + 1)

LEMMA DeclaresItem ==
  ASSUME NEW T \in Table, NEW t \in Texts, NEW u \in Texts, Grows(t, u),
         Grammatical(t), Grammatical(u), ScopesOf(T, t), SymbolsOf(T, t),
         CurrentAt(T, t, Len(t)), NEW n, n = Len(t) + 1,
         u[n].k \in {"global", "function", "local"}, NEW d, d = OfItem(u, n)
  PROVE  /\ d \in Declaration
         /\ d.name = u[n].name /\ d.by = <<n, 0>>
         /\ Home(u, d) = T.all[T.current].by
         /\ ScopeExist(T, d.name) => ~ WellScoped(u)
         /\ ~ ScopeExist(T, d.name) =>
              /\ NewInBlock(T, t, d)
              /\ Holds(Insert(T, d.name, d.kind, d.by), u, Declarations(t) \cup {d})
<1> DEFINE b == Innermost(t, Len(t))
<1>1. /\ Len(t) \in Nat /\ Len(u) = n /\ Prefix(t, u) /\ n \in 1 .. n
      /\ DOMAIN u = 1 .. n /\ n - 1 = Len(t) /\ Len(t) \in 0 .. Len(t)
      /\ Len(t) \in 0 .. Len(u)
  BY TextType DEF Grows
<1>2. /\ d \in Declarations(u)
  BY <1>1, DeclarationCases
<1>3. /\ d.name = u[n].name /\ d.by = <<n, 0>>
      /\ d.level = IF u[n].k = "local" THEN Level(u)[n] ELSE 0
  BY DEF OfItem
<1>4. d \in Declaration
  BY <1>1, <1>2, DeclarationType
<1>5. Level(u)[Len(t)] = Level(t)[Len(t)] /\ Innermost(u, Len(t)) = b
  BY <1>1, PrefixLevel, PrefixOpen
<1>6. Level(t)[b] = Level(t)[Len(t)] /\ (b = 0 <=> Level(t)[Len(t)] = 0)
  BY <1>1, InnermostLevel
<1>7. Home(u, d) = b /\ d.level = Level(t)[b]
  <2>1. CASE u[n].k = "local"
    <3>1. Level(u)[n] = Level(u)[Len(t)] /\ Innermost(u, n) = Innermost(u, Len(t))
      <4>1. ~ Opener(u, n) /\ u[n].k # "close"
        BY <2>1 DEF Opener
      <4> QED
        BY <1>1, <4>1, LevelStep, OpenAfterPlain
    <3>2. Level(u)[Len(t)] >= 1
      BY <1>1, <2>1 DEF Grammatical
    <3>3. Level(u)[Len(t)] # 0
      BY <1>1, <3>2, LevelNat
    <3> QED
      BY <1>3, <1>5, <1>6, <2>1, <3>1, <3>3 DEF Home
  <2>2. CASE u[n].k \in {"global", "function"}
    <3>1. Level(u)[Len(t)] = 0
      <4>1. Level(u)[n - 1] = 0
        BY <1>1, <2>2 DEF Grammatical
      <4> QED
        BY <1>1, <4>1
    <3> QED
      BY <1>3, <1>5, <1>6, <2>2, <3>1 DEF Home
  <2> QED
    BY <2>1, <2>2
<1>8. T.all[T.current].by = b /\ T.current \in 1 .. Len(T.all)
  BY DEF CurrentAt
<1>9. b \in OpenBlocks(t, Len(t)) \cup {0}
  BY <1>1, InnermostDef
<1> HIDE DEF b
<1>10. \A e \in Declarations(t) :
         Home(t, e) = b <=> e.level = d.level /\ e \in VisibleAt(t, Len(t) + 1)
  <2> TAKE e \in Declarations(t)
  <2>1. e.by[1] <= Len(t)
    BY <1>1, DeclaredAt
  <2> QED
    BY <1>1, <1>7, <1>9, <2>1, SameBlock
<1>11. ScopeExist(T, d.name) <=> \E e \in Declarations(t) : e.name = d.name /\ Home(t, e) = b
  BY <1>8, ExistsHere DEF SymbolsOf
<1>12. ASSUME ScopeExist(T, d.name)
       PROVE  ~ WellScoped(u)
  <2>1. PICK e \in Declarations(t) : e.name = d.name /\ Home(t, e) = b
    BY <1>11, <1>12
  <2>2. e.level = d.level /\ e \in VisibleAt(t, n)
    BY <1>10, <2>1
  <2>3. e.by[1] < n /\ e \in Declarations(u)
    <3>1. e.by[1] \in 1 .. Len(t)
      BY DeclaredAt
    <3> QED
      BY <1>1, <3>1, PrefixDeclarations
  <2>4. VisibleAt(u, n) = VisibleAt(t, n)
    <3>1. n \in 1 .. Len(t) + 1
      BY <1>1
    <3> QED
      BY <1>1, <3>1, PrefixVisible
  <2>5. d.by[1] = n /\ e # d /\ e \in VisibleAt(u, d.by[1])
    <3>1. d.by[1] = n
      BY <1>3
    <3>2. e # d
      BY <1>1, <2>3, <3>1, DeclaredAt
    <3> QED
      BY <2>2, <2>4, <3>1, <3>2
  <2> QED
    BY <1>2, <2>1, <2>2, <2>3, <2>5 DEF WellScoped, DeclaredOnce
<1>13. ASSUME ~ ScopeExist(T, d.name)
       PROVE  NewInBlock(T, t, d)
  BY <1>8, <1>10, <1>11, <1>13 DEF NewInBlock
<1>14. ASSUME ~ ScopeExist(T, d.name)
       PROVE  Holds(Insert(T, d.name, d.kind, d.by), u, Declarations(t) \cup {d})
  <2>1. \A e \in Declarations(t) : e.by[1] \in 1 .. Len(t)
    BY DeclaredAt
  <2>2. Holds(T, u, Declarations(t))
    BY <1>1, <2>1, PrefixHolds DEF SymbolsOf
  <2>3. \A e \in Declarations(t) : Home(u, e) = Home(t, e)
    <3> TAKE e \in Declarations(t)
    <3>1. e.by[1] \in 0 .. Len(t)
      BY <1>1, <2>1
    <3>2. Innermost(u, e.by[1]) = Innermost(t, e.by[1])
      BY <1>1, <3>1, PrefixOpen
    <3> QED
      BY <3>2 DEF Home
  <2>4. \A e \in Declarations(t) : e.name = d.name => Home(u, e) # Home(u, d)
    BY <1>7, <1>8, <1>13, <1>14, <2>3 DEF NewInBlock
  <2> QED
    BY <1>4, <1>7, <1>8, <2>2, <2>4, InsertHolds
<1> QED
  BY <1>3, <1>4, <1>7, <1>8, <1>12, <1>13, <1>14

(* An item that declares nothing.  *)
LEMMA DeclaresNothing ==
  ASSUME NEW t \in Texts, NEW u \in Texts, Grows(t, u),
         u[Len(t) + 1].k \in {"block", "use", "call", "close"}
  PROVE  /\ Declarations(u) = Declarations(t)
         /\ \A T : SymbolsOf(T, t) => Holds(T, u, Declarations(t))
<1>1. \A d : d \in Declarations(u) <=> d \in Declarations(t)
  <2> TAKE d
  <2>1. /\ u[Len(t) + 1].k \notin {"global", "function", "local"}
        /\ u[Len(t) + 1].k # "function"
    OBVIOUS
  <2> QED
    BY <2>1, NewDeclarations
<1>2. ASSUME NEW T, SymbolsOf(T, t)
      PROVE  Holds(T, u, Declarations(t))
  <2>1. \A d \in Declarations(t) : d.by[1] \in 1 .. Len(t)
    BY DeclaredAt
  <2> QED
    BY <1>2, <2>1, PrefixHolds DEF SymbolsOf, Grows
<1> QED
  BY <1>1, <1>2

-----------------------------------------------------------------------------
(* What the first pass has established while no error was found.           *)
Good(T, t, c) ==
  /\ T \in Table
  /\ t \in Texts
  /\ Grammatical(t)
  /\ ScopesOf(T, t)
  /\ SymbolsOf(T, t)
  /\ WellScoped(t)
  /\ c \in Seq((Nat \X Nat) \cup {NULL})
  /\ Len(c) = Len(t)
  /\ \A k \in 1 .. Len(t) : c[k] = Binding(t, k)

(* What was found for the name of an item is what it is bound to.          *)
LEMMA FoundBinding ==
  ASSUME NEW T, NEW t, NEW c, Good(T, t, c), CurrentAt(T, t, Len(t)),
         NEW u \in Texts, Grows(t, u), NEW n, n = Len(t) + 1,
         NEW found, found = IF Mentions(u, n) = NULL THEN NULL
                            ELSE Retrieve(T, Mentions(u, n))
  PROVE  /\ Binding(u, n) = IF found = NULL THEN NULL ELSE found.by
         /\ Binding(u, n) \in (Nat \X Nat) \cup {NULL}
         /\ Mentions(u, n) # NULL =>
              \/ found = NULL /\ Lexical(t, Mentions(u, n), n) = NULL
              \/ /\ found \in Symbol /\ found # NULL
                 /\ Lexical(t, Mentions(u, n), n) # NULL
                 /\ Lexical(t, Mentions(u, n), n).kind = found.kind
<1>1. /\ T \in Table /\ t \in Texts /\ Grammatical(t) /\ ScopesOf(T, t) /\ SymbolsOf(T, t)
      /\ Len(t) \in Nat /\ n \in 1 .. Len(t) + 1
  BY TextType DEF Good
<1>2. PICK x : x = Mentions(u, n)
  OBVIOUS
<1>3. Lexical(u, x, n) = Lexical(t, x, n)
  BY <1>1, PrefixLexical DEF Grows
<1>4. CASE x = NULL
  BY <1>2, <1>4 DEF Binding
<1>5. CASE x # NULL
  <2>1. found = Retrieve(T, x)
    BY <1>2, <1>5
  <2>2. \/ Retrieve(T, x) = NULL /\ Lexical(t, x, n) = NULL
        \/ /\ Retrieve(T, x) \in Symbol
           /\ Retrieve(T, x) # NULL
           /\ Lexical(t, x, n) # NULL
           /\ Means(Retrieve(T, x), Lexical(t, x, n))
    BY <1>1, CheckLookup
  <2>3. Binding(u, n) = IF Lexical(t, x, n) = NULL THEN NULL ELSE Lexical(t, x, n).by
    BY <1>2, <1>3, <1>5 DEF Binding
  <2>4. CASE found = NULL
    BY <1>2, <2>1, <2>2, <2>3, <2>4
  <2>5. CASE found # NULL
    <3>1. /\ found \in Symbol /\ Lexical(t, x, n) # NULL
          /\ found.by = Lexical(t, x, n).by /\ found.kind = Lexical(t, x, n).kind
      BY <2>1, <2>2, <2>5 DEF Means
    <3>2. found.by \in Nat \X Nat
      BY <3>1 DEF Symbol
    <3> QED
      BY <1>2, <2>3, <2>5, <3>1, <3>2
  <2> QED
    BY <2>4, <2>5
<1> QED
  BY <1>4, <1>5

LEMMA GoodRead ==
  ASSUME NEW T, NEW t, NEW c, Good(T, t, c),
         NEW u \in Texts, Grows(t, u), Grammatical(u),
         NEW U \in Table, ScopesOf(U, u), SymbolsOf(U, u), WellScoped(u),
         NEW b, b = Binding(u, Len(t) + 1), b \in (Nat \X Nat) \cup {NULL}
  PROVE  Good(U, u, Append(c, b))
<1>1. /\ t \in Texts /\ c \in Seq((Nat \X Nat) \cup {NULL}) /\ Len(c) = Len(t)
      /\ \A k \in 1 .. Len(t) : c[k] = Binding(t, k)
      /\ Len(t) \in Nat /\ Len(u) = Len(t) + 1 /\ Prefix(t, u)
  BY TextType DEF Good, Grows
<1> DEFINE e == Append(c, b)
<1>2. /\ e \in Seq((Nat \X Nat) \cup {NULL}) /\ Len(e) = Len(u)
      /\ e[Len(t) + 1] = b
      /\ \A k \in 1 .. Len(t) : e[k] = c[k]
  BY <1>1
<1> HIDE DEF e
<1>3. \A k \in 1 .. Len(u) : e[k] = Binding(u, k)
  <2> TAKE k \in 1 .. Len(u)
  <2>1. CASE k = Len(t) + 1
    BY <1>2, <2>1
  <2>2. CASE k \in 1 .. Len(t)
    BY <1>1, <1>2, <2>2, PrefixBinding
  <2> QED
    BY <1>1, <2>1, <2>2
<1> QED
  BY <1>2, <1>3 DEF Good, e

(* Whether the name of an item was found, and is of the right kind.        *)
Wanted(item) == IF item.k = "call" THEN "function" ELSE "variable"

LEMMA NameFound ==
  ASSUME NEW T, NEW t, NEW c, Good(T, t, c), CurrentAt(T, t, Len(t)),
         NEW u \in Texts, Grows(t, u), NEW n, n = Len(t) + 1, Mentions(u, n) # NULL
  PROVE  /\ ~ IsKind(Retrieve(T, Mentions(u, n)), Wanted(u[n])) => ~ WellScoped(u)
         /\ IsKind(Retrieve(T, Mentions(u, n)), Wanted(u[n])) =>
              /\ Lexical(t, Mentions(u, n), n) # NULL
              /\ Lexical(t, Mentions(u, n), n).kind = Wanted(u[n])
<1>1. PICK x, found : x = Mentions(u, n) /\ found = Retrieve(T, x)
  OBVIOUS
<1>2. \/ found = NULL /\ Lexical(t, x, n) = NULL
      \/ /\ found \in Symbol /\ found # NULL
         /\ Lexical(t, x, n) # NULL
         /\ Lexical(t, x, n).kind = found.kind
  <2>1. found = IF Mentions(u, n) = NULL THEN NULL ELSE Retrieve(T, Mentions(u, n))
    BY <1>1
  <2> QED
    BY <1>1, <2>1, FoundBinding
<1>3. Lexical(u, x, n) = Lexical(t, x, n)
  <2>1. t \in Texts /\ n \in 1 .. Len(t) + 1 /\ Prefix(t, u)
    BY TextType DEF Good, Grows
  <2> QED
    BY <2>1, PrefixLexical
<1>4. ASSUME ~ IsKind(found, Wanted(u[n]))
      PROVE  ~ WellScoped(u)
  <2>1. n \in DOMAIN u
    BY TextType DEF Good, Grows
  <2>2. ~ (/\ Lexical(u, x, n) # NULL
           /\ Lexical(u, x, n).kind = Wanted(u[n]))
    BY <1>2, <1>3, <1>4 DEF IsKind
  <2> QED
    BY <1>1, <2>1, <2>2 DEF WellScoped, NamesDeclared, Wanted
<1>5. ASSUME IsKind(found, Wanted(u[n]))
      PROVE  Lexical(t, x, n) # NULL /\ Lexical(t, x, n).kind = Wanted(u[n])
  BY <1>2, <1>5 DEF IsKind
<1> QED
  BY <1>1, <1>4, <1>5

(* The state of the first pass when it has read t without an error.        *)
Reads(T, t, c) == Good(T, t, c) /\ CurrentAt(T, t, Len(t))

LEMMA ReadsFacts ==
  ASSUME NEW T, NEW t, NEW c, Reads(T, t, c), NEW u \in Texts, Grows(t, u),
         MayFollow(t, u[Len(t) + 1])
  PROVE  /\ T \in Table /\ t \in Texts /\ Len(t) \in Nat /\ Len(u) = Len(t) + 1
         /\ DOMAIN u = 1 .. Len(t) + 1
         /\ Len(t) + 1 \in 1 .. Len(u) /\ (Len(t) + 1) - 1 = Len(t)
         /\ Len(t) \in 0 .. Len(t) /\ Len(t) \in 0 .. Len(u)
         /\ Prefix(t, u) /\ Grammatical(t) /\ Grammatical(u)
         /\ ScopesOf(T, t) /\ SymbolsOf(T, t) /\ CurrentAt(T, t, Len(t))
         /\ CurrentAt(T, u, Len(t))
         /\ Good(T, t, c) /\ WellScoped(t)
         /\ u[Len(t) + 1].k \in
              {"global", "function", "block", "local", "use", "call", "close"}
<1>1. /\ T \in Table /\ t \in Texts /\ Grammatical(t)
      /\ ScopesOf(T, t) /\ SymbolsOf(T, t) /\ CurrentAt(T, t, Len(t))
      /\ Good(T, t, c) /\ WellScoped(t)
  BY DEF Reads, Good
<1>2. /\ Len(t) \in Nat /\ Len(u) = Len(t) + 1 /\ DOMAIN u = 1 .. Len(t) + 1
      /\ Prefix(t, u)
      /\ Len(t) + 1 \in 1 .. Len(u) /\ (Len(t) + 1) - 1 = Len(t)
      /\ Len(t) \in 0 .. Len(t) /\ Len(t) \in 0 .. Len(u)
  BY <1>1, TextType DEF Grows
<1>3. Grammatical(u)
  BY <1>1, ReadGrammatical
<1>4. CurrentAt(T, u, Len(t))
  BY <1>1, <1>2, PrefixOpen DEF CurrentAt
<1>5. u[Len(t) + 1].k \in
        {"global", "function", "block", "local", "use", "call", "close"}
  BY <1>2, ItemType
<1> QED
  BY <1>1, <1>2, <1>3, <1>4, <1>5

LEMMA ReadReference ==
  ASSUME NEW T, NEW t, NEW c, Reads(T, t, c), NEW u \in Texts, Grows(t, u),
         NEW n, n = Len(t) + 1, MayFollow(t, u[n]), u[n].k \in {"use", "call"},
         NEW found, found = Retrieve(T, u[n].name)
  PROVE  /\ ~ IsKind(found, Wanted(u[n])) => ~ WellScoped(u)
         /\ IsKind(found, Wanted(u[n])) =>
              Reads(T, u, Append(c, IF found = NULL THEN NULL ELSE found.by))
<1>1. /\ T \in Table /\ t \in Texts /\ Len(t) \in Nat /\ Len(u) = n
      /\ n \in 1 .. Len(u) /\ n - 1 = Len(t) /\ DOMAIN u = 1 .. Len(u)
      /\ Grammatical(t) /\ Grammatical(u)
      /\ ScopesOf(T, t) /\ SymbolsOf(T, t) /\ CurrentAt(T, t, Len(t))
      /\ CurrentAt(T, u, Len(t)) /\ Prefix(t, u)
      /\ Good(T, t, c) /\ WellScoped(t)
  BY ReadsFacts
<1>2. Mentions(u, n) = u[n].name /\ u[n].name \in Name /\ u[n].name # NULL
  BY <1>1, ItemType, ScopeAssumption DEF Mentions, HasName
<1>3. /\ Binding(u, n) = IF found = NULL THEN NULL ELSE found.by
      /\ Binding(u, n) \in (Nat \X Nat) \cup {NULL}
  <2>1. found = IF Mentions(u, n) = NULL THEN NULL ELSE Retrieve(T, Mentions(u, n))
    BY <1>2
  <2> QED
    BY <1>1, <2>1, FoundBinding
<1>4. /\ ~ IsKind(found, Wanted(u[n])) => ~ WellScoped(u)
      /\ IsKind(found, Wanted(u[n])) =>
           /\ Lexical(t, Mentions(u, n), n) # NULL
           /\ Lexical(t, Mentions(u, n), n).kind = Wanted(u[n])
  BY <1>1, <1>2, NameFound
<1>5. Declarations(u) = Declarations(t) /\ Holds(T, u, Declarations(t))
  BY <1>1, DeclaresNothing
<1>6. ASSUME IsKind(found, Wanted(u[n]))
      PROVE  Reads(T, u, Append(c, IF found = NULL THEN NULL ELSE found.by))
  <2>1. WellScoped(u)
    <3>1. \A e \in Declarations(u) : e.by[1] # n
      BY <1>1, <1>5, DeclaredAt
    <3> QED
      BY <1>1, <1>4, <1>6, <3>1, ScopedStep DEF Wanted
  <2>2. ~ Opener(u, n) /\ u[n].k # "close"
    BY DEF Opener
  <2>3. ScopesOf(T, u)
    BY <1>1, <2>2, PlainScopes
  <2>4. SymbolsOf(T, u)
    BY <1>5 DEF SymbolsOf
  <2>5. Good(T, u, Append(c, IF found = NULL THEN NULL ELSE found.by))
    BY <1>1, <1>3, <2>1, <2>3, <2>4, GoodRead
  <2>6. CurrentAt(T, u, n)
    <3>1. Innermost(u, n) = Innermost(u, n - 1)
      BY <1>1, <2>2, OpenAfterPlain
    <3> QED
      BY <1>1, <3>1 DEF CurrentAt
  <2> QED
    BY <1>1, <2>5, <2>6 DEF Reads
<1> QED
  BY <1>4, <1>6

LEMMA ReadVariable ==
  ASSUME NEW T, NEW t, NEW c, Reads(T, t, c), NEW u \in Texts, Grows(t, u),
         NEW n, n = Len(t) + 1, MayFollow(t, u[n]), u[n].k \in {"global", "local"},
         NEW found, found = IF Mentions(u, n) = NULL THEN NULL
                            ELSE Retrieve(T, Mentions(u, n)),
         NEW bad, bad <=> \/ ScopeExist(T, u[n].name)
                          \/ Mentions(u, n) # NULL /\ ~ IsKind(found, "variable")
  PROVE  /\ bad => ~ WellScoped(u)
         /\ ~ bad => Reads(Insert(T, u[n].name, "variable", <<n, 0>>), u,
                           Append(c, IF found = NULL THEN NULL ELSE found.by))
<1> DEFINE d == OfItem(u, n)
           U == Insert(T, u[n].name, "variable", <<n, 0>>)
<1>1. /\ T \in Table /\ t \in Texts /\ Len(t) \in Nat /\ Len(u) = n
      /\ n \in 1 .. Len(u) /\ n - 1 = Len(t) /\ DOMAIN u = 1 .. Len(u)
      /\ Grammatical(t) /\ Grammatical(u)
      /\ ScopesOf(T, t) /\ SymbolsOf(T, t) /\ CurrentAt(T, t, Len(t))
      /\ CurrentAt(T, u, Len(t)) /\ Prefix(t, u)
      /\ Good(T, t, c) /\ WellScoped(t)
  BY ReadsFacts
<1>2. Wanted(u[n]) = "variable" /\ ~ Opener(u, n) /\ u[n].k # "close"
  BY DEF Wanted, Opener
<1>3. /\ Binding(u, n) = IF found = NULL THEN NULL ELSE found.by
      /\ Binding(u, n) \in (Nat \X Nat) \cup {NULL}
  BY <1>1, FoundBinding
<1>4. Mentions(u, n) # NULL =>
        /\ ~ IsKind(found, "variable") => ~ WellScoped(u)
        /\ IsKind(found, "variable") =>
             /\ Lexical(t, Mentions(u, n), n) # NULL
             /\ Lexical(t, Mentions(u, n), n).kind = "variable"
  BY <1>1, <1>2, NameFound
<1>5. /\ d \in Declaration
      /\ d.name = u[n].name /\ d.by = <<n, 0>>
      /\ Home(u, d) = T.all[T.current].by
      /\ ScopeExist(T, d.name) => ~ WellScoped(u)
      /\ ~ ScopeExist(T, d.name) =>
           /\ NewInBlock(T, t, d)
           /\ Holds(Insert(T, d.name, d.kind, d.by), u, Declarations(t) \cup {d})
  BY <1>1, DeclaresItem
<1>6. d.kind = "variable"
  BY DEF OfItem
<1> HIDE DEF d, U
<1>7. ASSUME bad
      PROVE  ~ WellScoped(u)
  BY <1>4, <1>5, <1>7
<1>8. ASSUME ~ bad
      PROVE  Reads(U, u, Append(c, IF found = NULL THEN NULL ELSE found.by))
  <2>1. /\ ~ ScopeExist(T, d.name) /\ NewInBlock(T, t, d)
        /\ Holds(U, u, Declarations(t) \cup {d})
    BY <1>5, <1>6, <1>8 DEF U
  <2>2. Declarations(u) = Declarations(t) \cup {d}
    <3>1. \A e : e \in Declarations(u) <=> e \in Declarations(t) \/ e = d
      <4> TAKE e
      <4>1. u[n].k \in {"global", "function", "local"} /\ u[n].k # "function"
        OBVIOUS
      <4> QED
        BY <1>1, <4>1, NewDeclarations DEF d
    <3> QED
      BY <3>1
  <2>3. U \in Table /\ SameScopes(T, U)
    <3>1. T.current \in 1 .. Len(T.all)
      BY <1>1 DEF CurrentAt
    <3>2. u[n].name \in Name /\ "variable" \in Kinds /\ <<n, 0>> \in Nat \X Nat
      BY <1>1, <1>5 DEF Declaration, Kinds
    <3> QED
      BY <1>1, <3>1, <3>2, InsertDef DEF U
  <2>4. ScopesOf(U, u)
    <3>1. ScopesOf(T, u)
      BY <1>1, <1>2, PlainScopes
    <3> QED
      BY <1>1, <2>3, <3>1, SameScopesKeep, TableType
  <2>5. SymbolsOf(U, u)
    BY <2>1, <2>2 DEF SymbolsOf
  <2>6. WellScoped(u)
    <3>1. \A e \in Declarations(t) : e.by[1] # n /\ e.by[1] < n
      BY <1>1, DeclaredAt
    <3>2. \A e \in Declarations(t), f \in Declarations(u) :
            f.by[1] = n /\ e.name = f.name /\ e.level = f.level
              => e \notin VisibleAt(t, n)
      BY <2>1, <2>2, <3>1 DEF NewInBlock
    <3>3. \A e, f \in Declarations(u) :
            e.by[1] = n /\ f.by[1] = n /\ e.name = f.name /\ e.level = f.level => e = f
      BY <2>2, <3>1
    <3>4. Mentions(u, n) # NULL =>
            /\ Lexical(t, Mentions(u, n), n) # NULL
            /\ Lexical(t, Mentions(u, n), n).kind =
                 IF u[n].k = "call" THEN "function" ELSE "variable"
      BY <1>4, <1>8
    <3> QED
      BY <1>1, <3>2, <3>3, <3>4, ScopedStep
  <2>7. Good(U, u, Append(c, IF found = NULL THEN NULL ELSE found.by))
    BY <1>1, <1>3, <2>3, <2>4, <2>5, <2>6, GoodRead
  <2>8. CurrentAt(U, u, n)
    <3>1. Innermost(u, n) = Innermost(u, n - 1)
      BY <1>1, <1>2, OpenAfterPlain
    <3>2. CurrentAt(T, u, n)
      BY <1>1, <3>1 DEF CurrentAt
    <3> QED
      BY <2>3, <3>2, SameScopesCurrent
  <2> QED
    BY <1>1, <2>7, <2>8 DEF Reads
<1> QED
  BY <1>7, <1>8 DEF U

LEMMA ReadBlock ==
  ASSUME NEW T, NEW t, NEW c, Reads(T, t, c), NEW u \in Texts, Grows(t, u),
         NEW n, n = Len(t) + 1, MayFollow(t, u[n]), u[n].k = "block"
  PROVE  Reads(OpenScope(T, n), u, Append(c, NULL))
<1>1. /\ T \in Table /\ t \in Texts /\ Len(t) \in Nat /\ Len(u) = n
      /\ n \in 1 .. Len(u) /\ n - 1 = Len(t) /\ DOMAIN u = 1 .. Len(u)
      /\ Grammatical(t) /\ Grammatical(u)
      /\ ScopesOf(T, t) /\ SymbolsOf(T, t) /\ CurrentAt(T, t, Len(t))
      /\ CurrentAt(T, u, Len(t)) /\ Prefix(t, u)
      /\ Good(T, t, c) /\ WellScoped(t)
  BY ReadsFacts
<1>2. Mentions(u, n) = NULL /\ Opener(u, n)
  BY DEF Mentions, Opener
<1>3. Declarations(u) = Declarations(t) /\ Holds(T, u, Declarations(t))
  BY <1>1, DeclaresNothing
<1>4. /\ OpenScope(T, n) \in Table
      /\ ScopesOf(OpenScope(T, n), u)
      /\ Holds(OpenScope(T, n), u, Declarations(t))
      /\ CurrentAt(OpenScope(T, n), u, n)
  <2>1. n \in Nat
    BY <1>1
  <2>2. OpenScope(T, n) \in Table
    BY <1>1, <2>1, OpenScopeDef
  <2>3. /\ ScopesOf(OpenScope(T, Len(u)), u)
        /\ Holds(OpenScope(T, Len(u)), u, Declarations(t))
        /\ CurrentAt(OpenScope(T, Len(u)), u, Len(u))
    BY <1>1, <1>2, <1>3, OpenScopeKeeps
  <2> QED
    BY <1>1, <2>2, <2>3
<1>5. WellScoped(u)
  <2>1. \A e \in Declarations(u) : e.by[1] # n
    BY <1>1, <1>3, DeclaredAt
  <2> QED
    BY <1>1, <1>2, <2>1, ScopedStep
<1>6. Binding(u, n) = NULL
  BY <1>2 DEF Binding
<1>7. Good(OpenScope(T, n), u, Append(c, NULL))
  BY <1>1, <1>3, <1>4, <1>5, <1>6, GoodRead DEF SymbolsOf
<1> QED
  BY <1>1, <1>4, <1>7 DEF Reads

LEMMA ReadClose ==
  ASSUME NEW T, NEW t, NEW c, Reads(T, t, c), NEW u \in Texts, Grows(t, u),
         NEW n, n = Len(t) + 1, MayFollow(t, u[n]), u[n].k = "close"
  PROVE  Reads(CloseScope(T), u, Append(c, NULL))
<1>1. /\ T \in Table /\ t \in Texts /\ Len(t) \in Nat /\ Len(u) = n
      /\ n \in 1 .. Len(u) /\ n - 1 = Len(t) /\ DOMAIN u = 1 .. Len(u)
      /\ Grammatical(t) /\ Grammatical(u)
      /\ ScopesOf(T, t) /\ SymbolsOf(T, t) /\ CurrentAt(T, t, Len(t))
      /\ CurrentAt(T, u, Len(t)) /\ Prefix(t, u)
      /\ Good(T, t, c) /\ WellScoped(t)
  BY ReadsFacts
<1>2. Mentions(u, n) = NULL /\ ~ Opener(u, n)
  BY DEF Mentions, Opener
<1>3. Declarations(u) = Declarations(t) /\ Holds(T, u, Declarations(t))
  BY <1>1, DeclaresNothing
<1>4. ScopesOf(T, u)
  BY <1>1, <1>2, PlainScopes
<1>5. /\ CloseScope(T) \in Table
      /\ CloseScope(T).all = T.all
      /\ CurrentAt(CloseScope(T), u, n)
  <2>1. CurrentAt(T, u, n - 1)
    BY <1>1
  <2> QED
    BY <1>1, <1>4, <2>1, CloseScopeKeeps
<1>6. ScopesOf(CloseScope(T), u) /\ Holds(CloseScope(T), u, Declarations(t))
  BY <1>3, <1>4, <1>5, SameAll
<1>7. WellScoped(u)
  <2>1. \A e \in Declarations(u) : e.by[1] # n
    BY <1>1, <1>3, DeclaredAt
  <2> QED
    BY <1>1, <1>2, <2>1, ScopedStep
<1>8. Binding(u, n) = NULL
  BY <1>2 DEF Binding
<1>9. Good(CloseScope(T), u, Append(c, NULL))
  BY <1>1, <1>3, <1>5, <1>6, <1>7, <1>8, GoodRead DEF SymbolsOf
<1> QED
  BY <1>1, <1>5, <1>9 DEF Reads

LEMMA ReadFunction ==
  ASSUME NEW T, NEW c, Reads(T, text, c), NEW u \in Texts, Grows(text, u),
         NEW n, n = Len(text) + 1, MayFollow(text, u[n]), u[n].k = "function"
  PROVE  /\ ScopeExist(T, u[n].name) => ~ WellScoped(u)
         /\ ~ IsInjective(u[n].params) => ~ WellScoped(u)
         /\ ~ ScopeExist(T, u[n].name) /\ IsInjective(u[n].params) =>
              Reads(InsertParams(OpenScope(Insert(T, u[n].name, "function", <<n, 0>>), n),
                                 u[n].params), u, Append(c, NULL))
<1> DEFINE d == OfItem(u, n)
           params == u[n].params
           T1 == Insert(T, u[n].name, "function", <<n, 0>>)
           T2 == OpenScope(T1, n)
           U == InsertParams(T2, params)
           D == Declarations(text) \cup {d}
<1>0. PICK t : t = text
  OBVIOUS
<1>1. /\ T \in Table /\ t \in Texts /\ Len(t) \in Nat /\ Len(u) = n /\ Grows(t, u)
      /\ n \in 1 .. Len(u) /\ n - 1 = Len(t) /\ DOMAIN u = 1 .. Len(u) /\ n = Len(t) + 1
      /\ Grammatical(t) /\ Grammatical(u)
      /\ ScopesOf(T, t) /\ SymbolsOf(T, t) /\ CurrentAt(T, t, Len(t))
      /\ CurrentAt(T, u, Len(t)) /\ Prefix(t, u)
      /\ Good(T, t, c) /\ WellScoped(t)
  BY <1>0, ReadsFacts
<1>2. Mentions(u, n) = NULL /\ Opener(u, n)
  BY DEF Mentions, Opener
<1>3. /\ d \in Declaration
      /\ d.name = u[n].name /\ d.by = <<n, 0>>
      /\ Home(u, d) = T.all[T.current].by
      /\ ScopeExist(T, d.name) => ~ WellScoped(u)
      /\ ~ ScopeExist(T, d.name) =>
           /\ NewInBlock(T, t, d)
           /\ Holds(Insert(T, d.name, d.kind, d.by), u, Declarations(t) \cup {d})
  BY <1>1, DeclaresItem
<1>4. d.kind = "function" /\ d.level = 0
  BY DEF OfItem
<1>5. /\ params \in Seq(Name) /\ Len(params) \in Nat /\ DOMAIN params = 1 .. Len(params)
  BY <1>1, ItemType
<1>6. Declarations(u) = D \cup FirstParams(u, n, Len(params))
  <2>1. \A e : e \in Declarations(u) <=>
                 \/ e \in Declarations(t)
                 \/ e = d
                 \/ \E i \in DOMAIN params : e = OfParam(u, n, i)
    <3> TAKE e
    <3>1. u[n].k \in {"global", "function", "local"}
      OBVIOUS
    <3> QED
      BY <1>1, <3>1, NewDeclarations
  <2>2. \A e : e \in FirstParams(u, n, Len(params)) <=>
                 \E i \in DOMAIN params : e = OfParam(u, n, i)
    BY <1>5 DEF FirstParams
  <2> HIDE DEF d, params
  <2> QED
    BY <1>0, <2>1, <2>2
<1>7. \A i : /\ OfParam(u, n, i).name = params[i] /\ OfParam(u, n, i).level = 1
             /\ OfParam(u, n, i).by = <<n, i>>
  BY DEF OfParam
<1>8. \A e \in Declarations(t) : e.by[1] \in 1 .. Len(t) /\ e.by[1] # n /\ e.by[1] < n
  BY <1>1, DeclaredAt
<1>9. ASSUME ~ IsInjective(params)
      PROVE  ~ WellScoped(u)
  <2>1. PICK i, j \in DOMAIN params : params[i] = params[j] /\ i # j
    BY <1>9 DEF IsInjective
  <2>2. /\ OfParam(u, n, i) \in Declarations(u)
        /\ OfParam(u, n, j) \in Declarations(u)
    BY <1>1, <2>1, DeclarationCases
  <2>3. OfParam(u, n, i) # OfParam(u, n, j)
    <3>1. OfParam(u, n, i).by[2] = i /\ OfParam(u, n, j).by[2] = j
      BY <1>7
    <3> QED
      BY <2>1, <3>1
  <2>4. OfParam(u, n, i).by[1] = OfParam(u, n, j).by[1]
    BY <1>7
  <2> QED
    BY <1>7, <2>1, <2>2, <2>3, <2>4 DEF WellScoped, DeclaredOnce
<1>10. T.current \in 1 .. Len(T.all) /\ Home(u, d) = 0
  BY <1>4 DEF Home, Reads, CurrentAt
<1> HIDE DEF d, params, T1, T2, U, D
<1>11. ASSUME ~ ScopeExist(T, d.name), IsInjective(params)
       PROVE  Reads(U, u, Append(c, NULL))
  <2>1. Holds(T1, u, D) /\ NewInBlock(T, t, d)
    BY <1>0, <1>3, <1>4, <1>11 DEF D, T1
  <2>2. T1 \in Table /\ SameScopes(T, T1)
    <3>1. u[n].name \in Name /\ "function" \in Kinds /\ <<n, 0>> \in Nat \X Nat
      BY <1>1, <1>3 DEF Declaration, Kinds
    <3> QED
      BY <1>1, <1>10, <3>1, InsertDef DEF T1
  <2>3. ScopesOf(T1, t) /\ CurrentAt(T1, t, Len(t))
    BY <1>1, <2>2, SameScopesKeep, SameScopesCurrent, TableType
  <2>4. /\ T2 \in Table /\ ScopesOf(T2, u) /\ Holds(T2, u, D) /\ CurrentAt(T2, u, n)
    <3>1. n \in Nat
      BY <1>1
    <3>2. T2 \in Table
      BY <2>2, <3>1, OpenScopeDef DEF T2
    <3>3. /\ ScopesOf(OpenScope(T1, Len(u)), u)
          /\ Holds(OpenScope(T1, Len(u)), u, D)
          /\ CurrentAt(OpenScope(T1, Len(u)), u, Len(u))
      BY <1>1, <1>2, <2>1, <2>2, <2>3, OpenScopeKeeps
    <3> QED
      BY <1>1, <3>2, <3>3 DEF T2
  <2>5. \A e \in D : Home(u, e) # n
    <3> TAKE e \in D
    <3>1. CASE e = d
      BY <1>1, <1>10, <3>1
    <3>2. CASE e \in Declarations(t)
      <4>1. e \in Declarations(u)
        BY <1>6, <3>2 DEF D
      <4>2. Home(u, e) \in 0 .. e.by[1]
        BY <1>1, <4>1, HomeLevel
      <4> QED
        BY <1>1, <1>8, <3>2, <4>2
    <3> QED
      BY <1>0, <3>1, <3>2 DEF D
  <2>6. /\ U \in Table /\ SameScopes(T2, U)
        /\ Holds(U, u, Declarations(u))
    <3>1. n = Here
      BY DEF Here
    <3>2. /\ InsertParams(T2, u[Here].params) \in Table
          /\ SameScopes(T2, InsertParams(T2, u[Here].params))
          /\ Holds(InsertParams(T2, u[Here].params), u,
                   D \cup FirstParams(u, Here, Len(u[Here].params)))
      <4>1. /\ Here \in 1 .. Len(u) /\ u[Here].k = "function"
            /\ IsInjective(u[Here].params) /\ CurrentAt(T2, u, Here)
            /\ \A e \in D : Home(u, e) # Here
        BY <1>1, <1>11, <2>4, <2>5, <3>1 DEF params
      <4> QED
        BY <1>1, <2>4, <4>1, InsertParamsKeeps
    <3> QED
      BY <1>6, <3>1, <3>2 DEF U, params
  <2>7. ScopesOf(U, u) /\ CurrentAt(U, u, n)
    BY <2>4, <2>6, SameScopesKeep, SameScopesCurrent, TableType
  <2>8. WellScoped(u)
    <3>1. \A e \in Declarations(u) : e.by[1] = n =>
            e = d \/ \E i \in 1 .. Len(params) : e = OfParam(u, n, i)
      BY <1>0, <1>6, <1>8 DEF D, FirstParams
    <3>2. \A e \in Declarations(t), f \in Declarations(u) :
            f.by[1] = n /\ e.name = f.name /\ e.level = f.level
              => e \notin VisibleAt(t, n)
      <4> SUFFICES ASSUME NEW e \in Declarations(t), NEW f \in Declarations(u),
                          f.by[1] = n, e.name = f.name, e.level = f.level,
                          e \in VisibleAt(t, n)
                   PROVE  FALSE
        OBVIOUS
      <4>1. CASE f = d
        BY <1>1, <2>1, <4>1 DEF NewInBlock
      <4>2. CASE \E i \in 1 .. Len(params) : f = OfParam(u, n, i)
        <5>1. e.level = 1
          BY <1>7, <4>2
        <5>2. Home(t, e) \in OpenBlocks(t, Len(t)) \cup {0} /\ Level(t)[Home(t, e)] = 1
          <6>1. n \in 1 .. Len(t) + 1
            BY <1>1
          <6> QED
            BY <1>1, <5>1, <6>1, VisibleHome, HomeLevel
        <5>3. Level(t)[Len(t)] = 0
          BY <1>0 DEF MayFollow
        <5>4. Home(t, e) \in OpenBlocks(t, Len(t))
          BY <1>1, <5>1, <5>2, HomeLevel
        <5>5. Level(t)[Home(t, e)] \in 1 .. Level(t)[Len(t)]
          <6>1. Len(t) \in 0 .. Len(t)
            BY <1>1
          <6> QED
            BY <1>1, <5>4, <6>1, OpenLevels
        <5> QED
          BY <5>2, <5>3, <5>5
      <4> QED
        BY <3>1, <4>1, <4>2
    <3>3. \A e, f \in Declarations(u) :
            e.by[1] = n /\ f.by[1] = n /\ e.name = f.name /\ e.level = f.level => e = f
      <4> SUFFICES ASSUME NEW e \in Declarations(u), NEW f \in Declarations(u),
                          e.by[1] = n, f.by[1] = n, e.name = f.name, e.level = f.level
                   PROVE  e = f
        OBVIOUS
      <4>1. /\ e = d \/ \E i \in 1 .. Len(params) : e = OfParam(u, n, i)
            /\ f = d \/ \E i \in 1 .. Len(params) : f = OfParam(u, n, i)
        BY <3>1
      <4>2. \A i, j \in 1 .. Len(params) : params[i] = params[j] => i = j
        BY <1>5, <1>11 DEF IsInjective
      <4> QED
        BY <1>4, <1>7, <4>1, <4>2
    <3> QED
      BY <1>1, <1>2, <3>2, <3>3, ScopedStep
  <2>9. Binding(u, n) = NULL
    BY <1>2 DEF Binding
  <2>10. Good(U, u, Append(c, NULL))
    BY <1>1, <2>6, <2>7, <2>8, <2>9, GoodRead DEF SymbolsOf
  <2> QED
    BY <1>1, <2>7, <2>10 DEF Reads
<1> QED
  BY <1>3, <1>9, <1>11 DEF U, T2, T1, params
=============================================================================
