-------------------------- MODULE ScopePassesProofs --------------------------
(***************************************************************************)
(* The two passes see the same scopes: proofs for ScopePasses, for every   *)
(* set of names and programs of any length.                                *)
(***************************************************************************)
EXTENDS ScopingProofs

(* A text with an error in it is not well-scoped, and stays so.            *)
ErrorInv ==
  /\ text \in Texts
  /\ phase \in {"check", "failed", "generate", "done"}
  /\ anyError \in BOOLEAN
  /\ anyError => ~ WellScoped(text)
  /\ phase = "failed" => anyError
  /\ phase \in {"generate", "done"} => ~ anyError

(* As long as there is none, the table holds the scopes of the text and    *)
(* the declarations in them.                                               *)
TableInv == ~ anyError => Good(table, text, checked)

CheckInv ==
  phase = "check" =>
    /\ pos = 1 /\ generated = << >> /\ offsets = << >>
    /\ ~ anyError =>
         /\ CurrentAt(table, text, Len(text))
         /\ declaring /\ Inside =>
              Len(text) > 0 /\ text[Len(text)].k \in {"function", "block", "local"}

(* The second pass is in the scope that the first was in at this item, and *)
(* has reopened what was opened before it.                                 *)
ReplayInv ==
  phase = "generate" =>
    /\ pos \in 1 .. Len(text) + 1
    /\ CurrentAt(table, text, pos - 1)
    /\ ReopenedTo(table, pos - 1)
    /\ generated \in Seq((Nat \X Nat) \cup {NULL})
    /\ Len(generated) = pos - 1

(* Where the locals of the block at depth v begin, and the place of one of *)
(* the variables of block h.                                               *)
Base(depths, v) == IF v = 1 THEN 0 ELSE depths[v - 1]

PlaceIn(depths, h, by) ==
  IF by[2] # 0 THEN <<"arg", by[2] - 1>>
  ELSE <<"local", Base(depths, Level(text)[h]) + 4 * (by[1] - h)>>

(* The variables of the blocks that are open after item k have their       *)
(* places, those of a block behind those of the blocks around it.          *)
Placed(T, depths, k) ==
  /\ depths \in Seq(Nat)
  /\ Len(depths) = Level(text)[k]
  /\ \A v, w \in 1 .. Len(depths) : v <= w => depths[v] <= depths[w]
  /\ \A h \in OpenBlocks(text, k) :
       depths[Level(text)[h]] = Base(depths, Level(text)[h]) + 4 * Cardinality(Locals(h))
  /\ \A i \in 1 .. Len(T.all) : T.all[i].by \in OpenBlocks(text, k) =>
       \A j \in DOMAIN T.all[i].syms :
         T.all[i].syms[j].place = PlaceIn(depths, T.all[i].by, T.all[i].syms[j].by)

PlaceInv == phase = "generate" => Placed(table, offsets, pos - 1)

ScopeInv ==
  ErrorInv /\ TableInv /\ CheckInv /\ ReplayInv /\ PlaceInv /\ SameSymbol

-----------------------------------------------------------------------------
LEMMA ScopeInit ==
  Init => ScopeInv
<1> SUFFICES ASSUME Init
             PROVE  ScopeInv
  OBVIOUS
<1>1. /\ text = << >> /\ phase = "check" /\ anyError = FALSE /\ declaring = FALSE
      /\ checked = << >> /\ pos = 1 /\ generated = << >> /\ offsets = << >>
      /\ table = OpenScope(EmptyTable, 0)
  BY DEF Init
<1>2. text \in Texts /\ Len(text) = 0 /\ DOMAIN text = {}
  BY <1>1 DEF Texts
<1>3. EmptyTable \in Table /\ Len(EmptyTable.all) = 0 /\ EmptyTable.current = 0
  BY DEF EmptyTable, Table
<1>4. /\ table \in Table /\ Len(table.all) = 1 /\ table.current = 1
      /\ DOMAIN table.all[1].syms = {} /\ table.all[1].next = 0 /\ table.all[1].by = 0
  <2>1. PICK E \in Table : E = EmptyTable
    BY <1>3
  <2>2. /\ OpenScope(E, 0) \in Table
        /\ Len(OpenScope(E, 0).all) = Len(E.all) + 1
        /\ DOMAIN OpenScope(E, 0).all[Len(E.all) + 1].syms = {}
        /\ OpenScope(E, 0).all[Len(E.all) + 1].next = E.current
        /\ OpenScope(E, 0).all[Len(E.all) + 1].by = 0
        /\ OpenScope(E, 0).current = Len(E.all) + 1
    BY OpenScopeDef
  <2>3. Len(E.all) = 0 /\ E.current = 0 /\ table = OpenScope(E, 0)
    BY <1>1, <1>3, <2>1
  <2>4. Len(E.all) + 1 = 1
    BY <2>3
  <2> QED
    BY <2>2, <2>3, <2>4
<1>5. \A d : d \notin Declarations(text)
  BY <1>2, DeclarationCases
<1>6. Grammatical(text)
  BY <1>2 DEF Grammatical
<1>7. ScopesOf(table, text)
  BY <1>2, <1>4 DEF ScopesOf
<1>8. SymbolsOf(table, text)
  BY <1>4, <1>5 DEF SymbolsOf, Holds
<1>9. WellScoped(text)
  BY <1>2, <1>5 DEF WellScoped, NamesDeclared, DeclaredOnce
<1>10. /\ checked \in Seq((Nat \X Nat) \cup {NULL}) /\ Len(checked) = Len(text)
       /\ \A k \in 1 .. Len(text) : checked[k] = Binding(text, k)
  BY <1>1, <1>2
<1>11. Good(table, text, checked)
  BY <1>2, <1>4, <1>6, <1>7, <1>8, <1>9, <1>10 DEF Good
<1>12. CurrentAt(table, text, Len(text))
  <2>1. 0 \in 0 .. Len(text) /\ 0 .. 0 = {0}
    BY <1>2
  <2>2. Innermost(text, 0) = 0
    BY <1>2, <1>6, <2>1, InnermostLevel
  <2> QED
    BY <1>2, <1>4, <2>2 DEF CurrentAt
<1>13. SameSymbol
  <2>1. DOMAIN generated = {}
    BY <1>1
  <2> QED
    BY <2>1 DEF SameSymbol
<1>14. ErrorInv /\ TableInv /\ CheckInv /\ ReplayInv /\ PlaceInv
  BY <1>1, <1>2, <1>11, <1>12 DEF ErrorInv, TableInv, CheckInv, ReplayInv, PlaceInv
<1> QED
  BY <1>13, <1>14 DEF ScopeInv

(* A step of the first pass, by what it makes of the text and the table.   *)
LEMMA CheckKeeps ==
  ASSUME ScopeInv, phase = "check", phase' = "check", genVars' = genVars,
         text' \in Texts, anyError' \in BOOLEAN, anyError' => ~ WellScoped(text'),
         ~ anyError' =>
           /\ Reads(table', text', checked')
           /\ declaring' /\ table'.current # 1 =>
                Len(text') > 0 /\ text'[Len(text')].k \in {"function", "block", "local"}
  PROVE  ScopeInv'
<1>1. pos = 1 /\ generated = << >> /\ offsets = << >>
  BY DEF ScopeInv, CheckInv
<1>2. pos' = 1 /\ generated' = << >> /\ offsets' = << >>
  BY <1>1 DEF genVars
<1>3. ErrorInv' /\ TableInv'
  BY DEF ErrorInv, TableInv, Reads
<1>4. CheckInv'
  BY <1>2 DEF CheckInv, Reads, Inside
<1>5. ReplayInv' /\ PlaceInv'
  BY DEF ReplayInv, PlaceInv
<1>6. SameSymbol'
  <2>1. DOMAIN generated' = {}
    BY <1>2
  <2> QED
    BY <2>1 DEF SameSymbol
<1> QED
  BY <1>3, <1>4, <1>5, <1>6 DEF ScopeInv

(* The first pass, before an item is read.  *)
LEMMA CheckState ==
  ASSUME ScopeInv, phase = "check"
  PROVE  /\ text \in Texts /\ Len(text) \in Nat
         /\ anyError => ~ WellScoped(text)
         /\ ~ anyError =>
              /\ Reads(table, text, checked)
              /\ Inside <=> Level(text)[Len(text)] >= 1
              /\ ~ Inside <=> Level(text)[Len(text)] = 0
              /\ declaring /\ Inside =>
                   Len(text) > 0 /\ text[Len(text)].k \in {"function", "block", "local"}
<1>1. text \in Texts /\ Len(text) \in Nat /\ (anyError => ~ WellScoped(text))
  BY TextType DEF ScopeInv, ErrorInv
<1>2. ASSUME ~ anyError
      PROVE  /\ Reads(table, text, checked)
             /\ Inside <=> Level(text)[Len(text)] >= 1
             /\ ~ Inside <=> Level(text)[Len(text)] = 0
             /\ declaring /\ Inside =>
                  Len(text) > 0 /\ text[Len(text)].k \in {"function", "block", "local"}
  <2>1. Reads(table, text, checked)
    BY <1>2 DEF ScopeInv, TableInv, CheckInv, Reads
  <2>2. /\ table \in Table /\ Grammatical(text) /\ ScopesOf(table, text)
        /\ CurrentAt(table, text, Len(text)) /\ Len(text) \in 0 .. Len(text)
    BY <1>1, <2>1 DEF Reads, Good
  <2>3. PICK T, t : T = table /\ t = text
    OBVIOUS
  <2>4. /\ T.current = 1 <=> Level(t)[Len(t)] = 0
        /\ Level(t)[Len(t)] \in Nat
    BY <1>1, <2>2, <2>3, InsideLevel, LevelNat
  <2>5. Inside <=> T.current # 1
    BY <2>3 DEF Inside
  <2> QED
    BY <1>2, <2>1, <2>3, <2>4, <2>5 DEF ScopeInv, CheckInv
<1> QED
  BY <1>1, <1>2

-----------------------------------------------------------------------------
(* One lemma for each operation of the first pass.                         *)
LEMMA ItemIn ==
  ASSUME NEW k \in {"global", "block", "local", "use", "call", "close"},
         NEW x \in Name \cup {NULL}, NEW init \in Name \cup {NULL}
  PROVE  /\ Item(k, x, init) \in Items
         /\ Item(k, x, init).k = k
         /\ Item(k, x, init).name = x
         /\ Item(k, x, init).init = init
BY DEF Item, Items

LEMMA MentionsOf ==
  ASSUME NEW u, NEW n
  PROVE  /\ u[n].k \in {"use", "call"} => Mentions(u, n) = u[n].name
         /\ u[n].k = "local" => Mentions(u, n) = u[n].init
         /\ u[n].k \in {"global", "function", "block", "close"} => Mentions(u, n) = NULL
BY DEF Mentions

LEMMA DeclGlobalKeeps ==
  ASSUME ScopeInv, NEW x \in Name, DeclGlobal(x)
  PROVE  ScopeInv'
<1>1. PICK t, T, c, item, n, u :
        /\ t = text /\ T = table /\ c = checked /\ item = Item("global", x, NULL)
        /\ n = Len(t) + 1 /\ u = Append(t, item)
  OBVIOUS
<1>2. /\ phase = "check" /\ phase' = "check" /\ genVars' = genVars /\ ~ Inside
      /\ text' = u /\ checked' = Append(c, NULL) /\ declaring' = declaring
      /\ IF ScopeExist(T, x)
         THEN anyError' = TRUE /\ table' = T
         ELSE table' = Insert(T, x, "variable", <<n, 0>>) /\ anyError' = anyError
  BY <1>1 DEF DeclGlobal, Read, Here
<1>3. /\ t \in Texts /\ Len(t) \in Nat /\ (anyError => ~ WellScoped(t))
      /\ ~ anyError => Reads(T, t, c) /\ Level(t)[Len(t)] = 0
  BY <1>1, <1>2, CheckState
<1>4. /\ item \in Items /\ item.k = "global" /\ item.name = x /\ item.init = NULL
      /\ NULL \in Name \cup {NULL}
  BY <1>1, ItemIn
<1>5. u \in Texts /\ Grows(t, u) /\ u[n] = item
  BY <1>1, <1>3, <1>4, ReadItem
<1>6. Prefix(t, u)
  BY <1>5 DEF Grows
<1>7. anyError => ~ WellScoped(u)
  BY <1>3, <1>5, <1>6, PrefixScoped
<1>8. ASSUME ~ anyError
      PROVE  /\ ScopeExist(T, x) => ~ WellScoped(u)
             /\ ~ ScopeExist(T, x) =>
                  Reads(Insert(T, x, "variable", <<n, 0>>), u, Append(c, NULL))
  <2>1. MayFollow(t, u[n])
    BY <1>3, <1>4, <1>5, <1>8 DEF MayFollow
  <2>2. Mentions(u, n) = NULL
    BY <1>4, <1>5, MentionsOf
  <2>3. PICK found, bad : found = NULL /\ (bad <=> ScopeExist(T, x))
    OBVIOUS
  <2>4. /\ found = IF Mentions(u, n) = NULL THEN NULL ELSE Retrieve(T, Mentions(u, n))
        /\ bad <=> \/ ScopeExist(T, u[n].name)
                   \/ Mentions(u, n) # NULL /\ ~ IsKind(found, "variable")
    BY <1>4, <1>5, <2>2, <2>3
  <2>5. /\ bad => ~ WellScoped(u)
        /\ ~ bad => Reads(Insert(T, u[n].name, "variable", <<n, 0>>), u,
                          Append(c, IF found = NULL THEN NULL ELSE found.by))
    BY <1>1, <1>3, <1>4, <1>5, <1>8, <2>1, <2>4, ReadVariable, ZenonT(30)
  <2> QED
    BY <1>4, <1>5, <2>3, <2>5
<1>9. anyError' \in BOOLEAN /\ (anyError' => ~ WellScoped(u))
  BY <1>2, <1>7, <1>8 DEF ScopeInv, ErrorInv
<1>10. ~ anyError' => Reads(table', u, checked')
  BY <1>2, <1>8, <1>9 DEF ScopeInv, ErrorInv
<1>11. ~ anyError' => table'.current = 1
  <2> SUFFICES ASSUME ~ anyError'
               PROVE  table'.current = 1
    OBVIOUS
  <2>1. ~ anyError /\ ~ ScopeExist(T, x) /\ table' = Insert(T, x, "variable", <<n, 0>>)
    BY <1>2
  <2>2. T \in Table /\ T.current \in 1 .. Len(T.all)
    BY <1>3, <2>1 DEF Reads, Good, CurrentAt
  <2>3. SameScopes(T, table')
    <3>1. "variable" \in Kinds /\ <<n, 0>> \in Nat \X Nat
      BY <1>1, <1>3 DEF Kinds
    <3> QED
      BY <2>1, <2>2, <3>1, InsertDef
  <2> QED
    BY <1>1, <1>2, <2>3 DEF SameScopes, Inside
<1> QED
  BY <1>2, <1>5, <1>9, <1>10, <1>11, CheckKeeps

LEMMA DeclFunctionKeeps ==
  ASSUME ScopeInv, NEW x \in Name, NEW params \in ParamLists, DeclFunction(x, params)
  PROVE  ScopeInv'
<1>1. PICK t, T, c, item, n, u, close, T1 :
        /\ t = text /\ T = table /\ c = checked
        /\ item = [Item("function", x, NULL) EXCEPT !.params = params]
        /\ close = Item("close", NULL, NULL)
        /\ n = Len(t) + 1 /\ u = Append(t, item)
        /\ T1 = InsertParams(OpenScope(Insert(T, x, "function", <<n, 0>>), n), params)
  OBVIOUS
<1>2. /\ phase = "check" /\ phase' = "check" /\ genVars' = genVars /\ ~ Inside
      /\ declaring' = TRUE
  BY DEF DeclFunction, Read
<1>3. /\ t \in Texts /\ Len(t) \in Nat /\ (anyError => ~ WellScoped(t))
      /\ ~ anyError => Reads(T, t, c) /\ Level(t)[Len(t)] = 0
  BY <1>1, <1>2, CheckState
<1>4. /\ item \in Items /\ item.k = "function" /\ item.name = x /\ item.params = params
  BY <1>1, ScopeAssumption DEF Item, Items
<1>5. u \in Texts /\ Grows(t, u) /\ u[n] = item
  <2>1. u = Append(t, item) /\ n = Len(t) + 1
    BY <1>1
  <2>2. item \in Items /\ (HasName(item) => item.name \in Name)
    BY <1>4
  <2> QED
    BY <1>3, <2>1, <2>2, ReadItem
<1>6. Prefix(t, u) /\ Len(u) = n
  BY <1>1, <1>5 DEF Grows
<1>7. anyError => ~ WellScoped(u)
  BY <1>3, <1>5, <1>6, PrefixScoped
<1>8. ASSUME ~ anyError
      PROVE  /\ ScopeExist(T, x) => ~ WellScoped(u)
             /\ ~ IsInjective(params) => ~ WellScoped(u)
             /\ ~ ScopeExist(T, x) /\ IsInjective(params) =>
                  Reads(T1, u, Append(c, NULL))
  <2>1. MayFollow(t, u[n])
    BY <1>3, <1>4, <1>5, <1>8 DEF MayFollow
  <2>2. /\ ScopeExist(T, u[n].name) => ~ WellScoped(u)
        /\ ~ IsInjective(u[n].params) => ~ WellScoped(u)
        /\ ~ ScopeExist(T, u[n].name) /\ IsInjective(u[n].params) =>
             Reads(InsertParams(OpenScope(Insert(T, u[n].name, "function", <<n, 0>>), n),
                                u[n].params), u, Append(c, NULL))
    BY <1>1, <1>3, <1>4, <1>5, <1>8, <2>1, ReadFunction
  <2> QED
    BY <1>1, <1>4, <1>5, <2>2
<1>9. CASE ScopeExist(T, x)
  <2>1. /\ text' = t \o <<item, close>> /\ anyError' = TRUE
    BY <1>1, <1>9 DEF DeclFunction
  <2>2. close \in Items /\ close.k = "close"
    <3>1. NULL \in Name \cup {NULL} /\ close = Item("close", NULL, NULL)
      BY <1>1
    <3> QED
      BY <3>1, ItemIn
  <2>3. Append(u, close) \in Texts /\ Grows(u, Append(u, close))
    BY <1>5, <2>2, ReadItem DEF HasName
  <2>4. text' = Append(u, close)
    <3>1. t \in Seq(Items)
      BY <1>3 DEF Texts
    <3>2. t \o <<item, close>> = Append(Append(t, item), close)
      BY <1>4, <2>2, <3>1
    <3> QED
      BY <1>1, <2>1, <3>2
  <2>5. ~ WellScoped(u)
    BY <1>7, <1>8, <1>9
  <2>6. ~ WellScoped(text')
    BY <1>5, <2>3, <2>4, <2>5, PrefixScoped DEF Grows
  <2> QED
    BY <1>2, <2>1, <2>3, <2>4, <2>6, CheckKeeps
<1>10. CASE ~ ScopeExist(T, x)
  <2>1. /\ text' = u /\ checked' = Append(c, NULL)
        /\ table' = T1
        /\ anyError' = (anyError \/ ~ IsInjective(params))
    BY <1>1, <1>10 DEF DeclFunction, Read, Here
  <2>2. anyError' \in BOOLEAN /\ (anyError' => ~ WellScoped(u))
    BY <1>7, <1>8, <2>1 DEF ScopeInv, ErrorInv
  <2>3. ~ anyError' => Reads(table', u, checked')
    BY <1>8, <1>10, <2>1
  <2>4. Len(u) > 0 /\ u[Len(u)].k \in {"function", "block", "local"}
    BY <1>1, <1>3, <1>4, <1>5, <1>6
  <2> QED
    BY <1>2, <1>5, <2>1, <2>2, <2>3, <2>4, CheckKeeps
<1> QED
  BY <1>9, <1>10

LEMMA OpenBlockKeeps ==
  ASSUME ScopeInv, OpenBlock
  PROVE  ScopeInv'
<1>1. PICK t, T, c, item, n, u :
        /\ t = text /\ T = table /\ c = checked /\ item = Item("block", NULL, NULL)
        /\ n = Len(t) + 1 /\ u = Append(t, item)
  OBVIOUS
<1>2. /\ phase = "check" /\ phase' = "check" /\ genVars' = genVars /\ Inside
      /\ text' = u /\ checked' = Append(c, NULL) /\ anyError' = anyError
      /\ table' = OpenScope(T, n)
  BY <1>1 DEF OpenBlock, Read, Here
<1>3. /\ t \in Texts /\ Len(t) \in Nat /\ (anyError => ~ WellScoped(t))
      /\ ~ anyError => Reads(T, t, c) /\ Level(t)[Len(t)] >= 1
  BY <1>1, <1>2, CheckState
<1>4. item \in Items /\ item.k = "block" /\ ~ HasName(item)
  <2>1. NULL \in Name \cup {NULL}
    OBVIOUS
  <2> QED
    BY <1>1, <2>1, ItemIn DEF HasName
<1>5. u \in Texts /\ Grows(t, u) /\ u[n] = item
  BY <1>1, <1>3, <1>4, ReadItem
<1>6. Prefix(t, u) /\ Len(u) = n
  BY <1>1, <1>5 DEF Grows
<1>7. anyError => ~ WellScoped(u)
  BY <1>3, <1>5, <1>6, PrefixScoped
<1>8. ~ anyError => Reads(OpenScope(T, n), u, Append(c, NULL))
  <2>1. ~ anyError => MayFollow(t, u[n])
    BY <1>3, <1>4, <1>5 DEF MayFollow
  <2> QED
    BY <1>1, <1>3, <1>4, <1>5, <2>1, ReadBlock
<1>9. Len(u) > 0 /\ u[Len(u)].k \in {"function", "block", "local"}
  BY <1>1, <1>3, <1>4, <1>5, <1>6
<1>10. anyError \in BOOLEAN
  BY DEF ScopeInv, ErrorInv
<1> QED
  BY <1>2, <1>5, <1>7, <1>8, <1>9, <1>10, CheckKeeps

LEMMA DeclLocalKeeps ==
  ASSUME ScopeInv, NEW x \in Name, NEW init \in Name \cup {NULL}, DeclLocal(x, init)
  PROVE  ScopeInv'
<1>1. PICK t, T, c, item, n, u, found, bad :
        /\ t = text /\ T = table /\ c = checked /\ item = Item("local", x, init)
        /\ n = Len(t) + 1 /\ u = Append(t, item)
        /\ found = IF init = NULL THEN NULL ELSE Retrieve(T, init)
        /\ bad <=> ScopeExist(T, x) \/ (init # NULL /\ ~ IsKind(found, "variable"))
  OBVIOUS
<1>2. /\ phase = "check" /\ phase' = "check" /\ genVars' = genVars /\ Inside /\ declaring
      /\ text' = u /\ checked' = Append(c, IF found = NULL THEN NULL ELSE found.by)
      /\ IF bad
         THEN anyError' = TRUE /\ table' = T
         ELSE table' = Insert(T, x, "variable", <<n, 0>>) /\ anyError' = anyError
  BY <1>1 DEF DeclLocal, Read, Here
<1>3. /\ t \in Texts /\ Len(t) \in Nat /\ (anyError => ~ WellScoped(t))
      /\ ~ anyError => /\ Reads(T, t, c) /\ Level(t)[Len(t)] >= 1
                       /\ Len(t) > 0 /\ t[Len(t)].k \in {"function", "block", "local"}
  BY <1>1, <1>2, CheckState
<1>4. item \in Items /\ item.k = "local" /\ item.name = x /\ item.init = init
  BY <1>1, ItemIn
<1>5. u \in Texts /\ Grows(t, u) /\ u[n] = item
  BY <1>1, <1>3, <1>4, ReadItem
<1>6. Prefix(t, u) /\ Len(u) = n
  BY <1>1, <1>5 DEF Grows
<1>7. anyError => ~ WellScoped(u)
  BY <1>3, <1>5, <1>6, PrefixScoped
<1>8. ASSUME ~ anyError
      PROVE  /\ bad => ~ WellScoped(u)
             /\ ~ bad => Reads(Insert(T, x, "variable", <<n, 0>>), u,
                               Append(c, IF found = NULL THEN NULL ELSE found.by))
  <2>1. MayFollow(t, u[n])
    BY <1>3, <1>4, <1>5, <1>8 DEF MayFollow
  <2>2. Mentions(u, n) = init
    BY <1>4, <1>5, MentionsOf
  <2>3. /\ found = IF Mentions(u, n) = NULL THEN NULL ELSE Retrieve(T, Mentions(u, n))
        /\ bad <=> \/ ScopeExist(T, u[n].name)
                   \/ Mentions(u, n) # NULL /\ ~ IsKind(found, "variable")
    BY <1>1, <1>4, <1>5, <2>2
  <2>4. /\ bad => ~ WellScoped(u)
        /\ ~ bad => Reads(Insert(T, u[n].name, "variable", <<n, 0>>), u,
                          Append(c, IF found = NULL THEN NULL ELSE found.by))
    <3>1. /\ Reads(T, t, c) /\ n = Len(t) + 1 /\ u[n].k \in {"global", "local"}
      BY <1>1, <1>3, <1>4, <1>5, <1>8
    <3> QED
      BY <1>5, <2>1, <2>3, <3>1, ReadVariable
  <2> QED
    BY <1>4, <1>5, <2>4
<1>9. anyError' \in BOOLEAN /\ (anyError' => ~ WellScoped(u))
  BY <1>2, <1>7, <1>8 DEF ScopeInv, ErrorInv
<1>10. ~ anyError' => Reads(table', u, checked')
  BY <1>2, <1>8, <1>9 DEF ScopeInv, ErrorInv
<1>11. Len(u) > 0 /\ u[Len(u)].k \in {"function", "block", "local"}
  BY <1>1, <1>3, <1>4, <1>5, <1>6
<1> QED
  BY <1>2, <1>5, <1>9, <1>10, <1>11, CheckKeeps

LEMMA ReferKeeps ==
  ASSUME ScopeInv, NEW x \in Name, NEW k \in {"use", "call"}, NEW kind,
         kind = IF k = "call" THEN "function" ELSE "variable", Refer(k, kind, x)
  PROVE  ScopeInv'
<1>1. PICK t, T, c, item, n, u, found :
        /\ t = text /\ T = table /\ c = checked /\ item = Item(k, x, NULL)
        /\ n = Len(t) + 1 /\ u = Append(t, item) /\ found = Retrieve(T, x)
  OBVIOUS
<1>2. /\ phase = "check" /\ phase' = "check" /\ genVars' = genVars /\ Inside
      /\ text' = u /\ checked' = Append(c, IF found = NULL THEN NULL ELSE found.by)
      /\ table' = T /\ declaring' = FALSE
      /\ anyError' = (anyError \/ ~ IsKind(found, kind))
  BY <1>1 DEF Refer, Read
<1>3. /\ t \in Texts /\ Len(t) \in Nat /\ (anyError => ~ WellScoped(t))
      /\ ~ anyError => Reads(T, t, c) /\ Level(t)[Len(t)] >= 1
  BY <1>1, <1>2, CheckState
<1>4. item \in Items /\ item.k = k /\ item.name = x
  <2>1. NULL \in Name \cup {NULL} /\ x \in Name \cup {NULL}
    OBVIOUS
  <2>2. k \in {"global", "block", "local", "use", "call", "close"}
    OBVIOUS
  <2> QED
    BY <1>1, <2>1, <2>2, ItemIn
<1>5. u \in Texts /\ Grows(t, u) /\ u[n] = item
  BY <1>1, <1>3, <1>4, ReadItem
<1>6. Prefix(t, u) /\ Len(u) = n
  BY <1>1, <1>5 DEF Grows
<1>7. anyError => ~ WellScoped(u)
  BY <1>3, <1>5, <1>6, PrefixScoped
<1>8. ASSUME ~ anyError
      PROVE  /\ ~ IsKind(found, kind) => ~ WellScoped(u)
             /\ IsKind(found, kind) =>
                  Reads(T, u, Append(c, IF found = NULL THEN NULL ELSE found.by))
  <2>1. MayFollow(t, u[n])
    BY <1>3, <1>4, <1>5, <1>8 DEF MayFollow
  <2>2. kind = Wanted(u[n]) /\ found = Retrieve(T, u[n].name) /\ u[n].k \in {"use", "call"}
    BY <1>1, <1>4, <1>5 DEF Wanted
  <2>3. Reads(T, t, c) /\ n = Len(t) + 1
    BY <1>1, <1>3, <1>8
  <2>4. /\ ~ IsKind(found, Wanted(u[n])) => ~ WellScoped(u)
        /\ IsKind(found, Wanted(u[n])) =>
             Reads(T, u, Append(c, IF found = NULL THEN NULL ELSE found.by))
    BY <1>5, <2>1, <2>2, <2>3, ReadReference
  <2> QED
    BY <2>2, <2>4
<1>9. anyError' \in BOOLEAN /\ (anyError' => ~ WellScoped(u))
  BY <1>2, <1>7, <1>8 DEF ScopeInv, ErrorInv
<1>10. ~ anyError' => Reads(table', u, checked')
  BY <1>2, <1>8
<1> QED
  BY <1>2, <1>5, <1>9, <1>10, CheckKeeps

LEMMA CloseBlockKeeps ==
  ASSUME ScopeInv, CloseBlock
  PROVE  ScopeInv'
<1>1. PICK t, T, c, item, n, u :
        /\ t = text /\ T = table /\ c = checked /\ item = Item("close", NULL, NULL)
        /\ n = Len(t) + 1 /\ u = Append(t, item)
  OBVIOUS
<1>2. /\ phase = "check" /\ phase' = "check" /\ genVars' = genVars /\ Inside
      /\ text' = u /\ checked' = Append(c, NULL) /\ anyError' = anyError
      /\ table' = CloseScope(T) /\ declaring' = FALSE
  BY <1>1 DEF CloseBlock
<1>3. /\ t \in Texts /\ Len(t) \in Nat /\ (anyError => ~ WellScoped(t))
      /\ ~ anyError => Reads(T, t, c) /\ Level(t)[Len(t)] >= 1
  BY <1>1, <1>2, CheckState
<1>4. item \in Items /\ item.k = "close" /\ ~ HasName(item)
  <2>1. NULL \in Name \cup {NULL}
    OBVIOUS
  <2> QED
    BY <1>1, <2>1, ItemIn DEF HasName
<1>5. u \in Texts /\ Grows(t, u) /\ u[n] = item
  BY <1>1, <1>3, <1>4, ReadItem
<1>6. Prefix(t, u) /\ Len(u) = n
  BY <1>1, <1>5 DEF Grows
<1>7. anyError => ~ WellScoped(u)
  BY <1>3, <1>5, <1>6, PrefixScoped
<1>8. ~ anyError => Reads(CloseScope(T), u, Append(c, NULL))
  <2>1. ~ anyError => MayFollow(t, u[n])
    BY <1>3, <1>4, <1>5 DEF MayFollow
  <2> QED
    BY <1>1, <1>3, <1>4, <1>5, <2>1, ReadClose
<1>9. anyError \in BOOLEAN
  BY DEF ScopeInv, ErrorInv
<1> QED
  BY <1>2, <1>5, <1>7, <1>8, <1>9, CheckKeeps

(* The scopes are walked over again: first the global one is reopened.     *)
LEMMA EndCheckKeeps ==
  ASSUME ScopeInv, EndCheck
  PROVE  ScopeInv'
<1>1. /\ phase = "check" /\ text' = text /\ anyError' = anyError /\ checked' = checked
      /\ pos' = pos /\ generated' = generated /\ offsets' = offsets
      /\ pos = 1 /\ generated = << >> /\ offsets = << >>
  BY DEF EndCheck, genVars, ScopeInv, CheckInv
<1>2. SameSymbol'
  <2>1. DOMAIN generated' = {}
    BY <1>1
  <2> QED
    BY <2>1 DEF SameSymbol
<1>3. CASE anyError
  <2>1. phase' = "failed"
    BY <1>3 DEF EndCheck
  <2>2. ErrorInv' /\ TableInv' /\ CheckInv' /\ ReplayInv' /\ PlaceInv'
    BY <1>1, <1>3, <2>1 DEF ScopeInv, ErrorInv, TableInv, CheckInv, ReplayInv, PlaceInv
  <2> QED
    BY <1>2, <2>2 DEF ScopeInv
<1>4. CASE ~ anyError
  <2>1. PICK t, T : t = text /\ T = table
    OBVIOUS
  <2>2. phase' = "generate" /\ table' = ReopenScope([T EXCEPT !.this = 0, !.current = 0])
    BY <1>4, <2>1 DEF EndCheck
  <2>3. Good(T, t, checked)
    BY <1>4, <2>1 DEF ScopeInv, TableInv
  <2>4. /\ t \in Texts /\ Grammatical(t) /\ ScopesOf(T, t) /\ SymbolsOf(T, t) /\ T \in Table
        /\ Len(t) \in Nat /\ Len(T.all) \in Nat /\ 0 \in 0 .. Len(t)
    BY <2>3, TextType, TableType DEF Good
  <2> DEFINE U0 == [T EXCEPT !.this = 0, !.current = 0]
  <2>5. U0 \in Table /\ U0.all = T.all /\ U0.this = 0
    BY <2>4 DEF Table
  <2> HIDE DEF U0
  <2>6. ReopenScope(U0) = [U0 EXCEPT !.this = 1, !.current = 1]
    <3>1. U0.this < Len(U0.all) /\ U0.this + 1 = 1
      BY <2>4, <2>5 DEF ScopesOf
    <3> QED
      BY <3>1 DEF ReopenScope
  <2>7. /\ table' \in Table /\ table'.all = T.all /\ table'.this = 1 /\ table'.current = 1
    <3>1. table' = [U0 EXCEPT !.this = 1, !.current = 1]
      BY <2>2, <2>6 DEF U0
    <3> QED
      BY <2>5, <3>1 DEF Table
  <2>8. PICK U : U = table'
    OBVIOUS
  <2>9. ScopesOf(U, t) /\ Holds(U, t, Declarations(t))
    BY <2>4, <2>7, <2>8, SameAll DEF SymbolsOf
  <2>10. Good(U, t, checked)
    BY <2>3, <2>7, <2>8, <2>9 DEF Good, SymbolsOf
  <2>11. Innermost(t, 0) = 0 /\ Level(t)[0] = 0 /\ OpenBlocks(t, 0) = {}
    <3>1. Innermost(t, 0) = 0
      BY <2>4, InnermostLevel
    <3>2. \A m : m \notin OpenBlocks(t, 0)
      BY <2>4, OpenDef
    <3> QED
      BY <2>4, <3>1, <3>2, LevelDef DEF LevelFits
  <2>12. CurrentAt(U, t, 0)
    BY <2>4, <2>7, <2>8, <2>11 DEF CurrentAt, ScopesOf
  <2>13. ReopenedTo(U, 0)
    <3>1. U.this \in 0 .. Len(U.all)
      BY <2>4, <2>7, <2>8 DEF ScopesOf
    <3>2. \A i \in 1 .. Len(U.all) : i <= 1 <=> U.all[i].by <= 0
      <4> TAKE i \in 1 .. Len(U.all)
      <4>1. CASE i = 1
        BY <2>9, <4>1 DEF ScopesOf
      <4>2. CASE i \in 2 .. Len(U.all)
        BY <2>9, <4>2 DEF ScopesOf
      <4> QED
        BY <2>4, <2>7, <2>8, <4>1, <4>2
    <3> QED
      BY <2>7, <2>8, <3>1, <3>2 DEF ReopenedTo
  <2>14. ReplayInv'
    <3>1. /\ CurrentAt(table', text', pos' - 1)
          /\ ReopenedTo(table', pos' - 1)
      BY <1>1, <2>1, <2>8, <2>12, <2>13
    <3>2. /\ pos' \in 1 .. Len(text') + 1 /\ Len(generated') = pos' - 1
          /\ generated' \in Seq((Nat \X Nat) \cup {NULL})
      BY <1>1, <2>1, <2>4
    <3> QED
      BY <3>1, <3>2 DEF ReplayInv
  <2>15. PlaceInv'
    <3>1. OpenBlocks(text', pos' - 1) = {} /\ Level(text')[pos' - 1] = 0
      BY <1>1, <2>1, <2>11
    <3>2. offsets' = << >> /\ << >> \in Seq(Nat) /\ Len(<< >>) = 0
      BY <1>1
    <3> QED
      BY <1>1, <2>4, <3>1, <3>2 DEF PlaceInv, Placed
  <2>16. ErrorInv' /\ TableInv' /\ CheckInv'
    BY <1>1, <1>4, <2>1, <2>2, <2>8, <2>10 DEF ScopeInv, ErrorInv, TableInv, CheckInv
  <2> QED
    BY <1>2, <2>14, <2>15, <2>16 DEF ScopeInv
<1> QED
  BY <1>3, <1>4

-----------------------------------------------------------------------------
(* The places that the second pass gives to the variables of a block.      *)

LEMMA LocalsAre ==
  ASSUME text \in Texts, NEW h \in 1 .. Len(text)
  PROVE  \E n \in Nat : /\ Locals(h) = h + 1 .. h + n
                        /\ Cardinality(Locals(h)) = n
                        /\ h + n <= Len(text)
<1>1. Len(text) \in Nat /\ h \in Nat
  BY TextType
<1>2. PICK S : S = Locals(h)
  OBVIOUS
<1>3. S \subseteq h + 1 .. Len(text) /\ \A m \in S : h + 1 .. m \subseteq S
  <2>1. ASSUME NEW m \in S, NEW n \in h + 1 .. m
        PROVE  n \in S
    <3>1. m \in h + 1 .. Len(text) /\ \A l \in h + 1 .. m : text[l].k = "local"
      BY <1>2 DEF Locals
    <3>2. n \in h + 1 .. Len(text) /\ h + 1 .. n \subseteq h + 1 .. m
      BY <1>1, <3>1
    <3> QED
      BY <1>2, <3>1, <3>2 DEF Locals
  <2>2. S \subseteq h + 1 .. Len(text)
    BY <1>2 DEF Locals
  <2> QED
    BY <2>1, <2>2
<1>4. CASE S = {}
  <2>1. h + 1 .. h + 0 = {} /\ h + 0 <= Len(text)
    BY <1>1
  <2>2. Cardinality(S) = 0
    BY <1>4, FS_EmptySet
  <2> QED
    BY <1>2, <1>4, <2>1, <2>2
<1>5. CASE S # {}
  <2>1. S \in SUBSET (0 .. Len(text))
    BY <1>1, <1>3
  <2>2. PICK m \in S : \A k \in S : k <= m
    BY <1>1, <1>5, <2>1, GreatestNumber
  <2>3. S = h + 1 .. m /\ m \in h + 1 .. Len(text)
    <3>1. m \in h + 1 .. Len(text) /\ h + 1 .. m \subseteq S
      BY <1>3, <2>2
    <3>2. \A k \in S : k \in h + 1 .. m
      BY <1>1, <1>3, <2>2, <3>1
    <3> QED
      BY <3>1, <3>2
  <2>4. Cardinality(h + 1 .. m) = m - (h + 1) + 1
    BY <1>1, <2>3, FS_Interval
  <2>5. /\ m - h \in Nat /\ h + (m - h) = m /\ m - (h + 1) + 1 = m - h /\ m <= Len(text)
    BY <1>1, <2>3
  <2> QED
    BY <1>2, <2>3, <2>4, <2>5
<1> QED
  BY <1>4, <1>5

(* A symbol of a block is a parameter of the function or a local variable. *)
LEMMA SymbolInBlock ==
  ASSUME NEW T \in Table, NEW c, Good(T, text, c), NEW i \in 1 .. Len(T.all),
         T.all[i].by # 0, NEW j \in DOMAIN T.all[i].syms
  PROVE  /\ T.all[i].syms[j] \in Symbol
         /\ \/ /\ T.all[i].syms[j].by[2] # 0
               /\ T.all[i].syms[j].by[1] = T.all[i].by
               /\ text[T.all[i].by].k = "function"
               /\ T.all[i].syms[j].by[2] \in DOMAIN text[T.all[i].by].params
               /\ T.all[i].syms[j].name = text[T.all[i].by].params[T.all[i].syms[j].by[2]]
            \/ /\ T.all[i].syms[j].by[2] = 0
               /\ T.all[i].syms[j].by[1] \in Locals(T.all[i].by)
               /\ T.all[i].syms[j].name = text[T.all[i].syms[j].by[1]].name
<1>1. PICK t, h, sym : t = text /\ h = T.all[i].by /\ sym = T.all[i].syms[j]
  OBVIOUS
<1>2. /\ t \in Texts /\ Grammatical(t) /\ ScopesOf(T, t) /\ SymbolsOf(T, t)
      /\ Len(t) \in Nat
  BY <1>1, TextType DEF Good
<1>3. sym \in Symbol
  <2>1. T.all[i] \in Scope
    BY TableType
  <2> QED
    BY <1>1, <2>1 DEF Scope
<1>4. PICK d \in Declarations(t) : Means(sym, d) /\ Home(t, d) = h
  BY <1>1, <1>2 DEF SymbolsOf, Holds
<1>5. /\ d.by[1] \in 1 .. Len(t)
      /\ d.by[2] = 0 => /\ d = OfItem(t, d.by[1])
                        /\ t[d.by[1]].k \in {"global", "function", "local"}
      /\ d.by[2] # 0 => /\ d = OfParam(t, d.by[1], d.by[2])
                        /\ t[d.by[1]].k = "function"
                        /\ d.by[2] \in DOMAIN t[d.by[1]].params
      /\ sym.name = d.name /\ sym.by = d.by
  BY <1>2, <1>4, DeclarationType DEF Means
<1>6. d.level # 0 /\ h = Innermost(t, d.by[1])
  BY <1>1, <1>4 DEF Home
<1>7. CASE d.by[2] # 0
  <2>1. t[d.by[1]].k = "function" /\ d.name = t[d.by[1]].params[d.by[2]]
    BY <1>5, <1>7 DEF OfParam
  <2>2. h = d.by[1]
    BY <1>2, <1>5, <1>6, <2>1, OpenAfterOpener DEF Opener
  <2> QED
    BY <1>1, <1>3, <1>5, <1>7, <2>1, <2>2
<1>8. CASE d.by[2] = 0
  <2> DEFINE m == d.by[1]
  <2>1. t[m].k = "local" /\ d.name = t[m].name
    BY <1>5, <1>6, <1>8 DEF OfItem
  <2>2. /\ h \in 1 .. m - 1
        /\ \A n \in h + 1 .. m : t[n].k = "local"
    BY <1>2, <1>5, <1>6, <2>1, HeadOfBlock
  <2>3. m \in h + 1 .. Len(t)
    BY <1>2, <1>5, <2>2
  <2>4. m \in Locals(h)
    BY <1>1, <2>2, <2>3 DEF Locals
  <2> QED
    BY <1>1, <1>3, <1>5, <1>8, <2>1, <2>4
<1> QED
  BY <1>7, <1>8

(* And they all are symbols of the block.  *)
LEMMA BlockSymbols ==
  ASSUME NEW T \in Table, NEW c, Good(T, text, c), NEW k \in 1 .. Len(text),
         Opener(text, k), CurrentAt(T, text, k)
  PROVE  /\ T.all[T.current].by = k
         /\ \A m \in Locals(k) :
              \E j \in DOMAIN T.all[T.current].syms :
                /\ T.all[T.current].syms[j].name = text[m].name
                /\ T.all[T.current].syms[j].by = <<m, 0>>
         /\ text[k].k = "function" =>
              \A q \in DOMAIN text[k].params :
                \E j \in DOMAIN T.all[T.current].syms :
                  /\ T.all[T.current].syms[j].name = text[k].params[q]
                  /\ T.all[T.current].syms[j].by = <<k, q>>
<1>1. PICK t : t = text
  OBVIOUS
<1>2. /\ t \in Texts /\ Grammatical(t) /\ ScopesOf(T, t) /\ SymbolsOf(T, t)
      /\ Len(t) \in Nat /\ DOMAIN t = 1 .. Len(t) /\ k \in 1 .. Len(t) /\ Opener(t, k)
  BY <1>1, TextType DEF Good
<1>3. Innermost(t, k) = k /\ T.all[T.current].by = k /\ T.current \in 1 .. Len(T.all)
  BY <1>1, <1>2, OpenAfterOpener DEF CurrentAt
<1>4. ASSUME NEW d \in Declarations(t), Home(t, d) = k
      PROVE  \E j \in DOMAIN T.all[T.current].syms :
               /\ T.all[T.current].syms[j].name = d.name
               /\ T.all[T.current].syms[j].by = d.by
  <2>1. PICK i \in 1 .. Len(T.all) : \E j \in DOMAIN T.all[i].syms :
          Means(T.all[i].syms[j], d) /\ Home(t, d) = T.all[i].by
    BY <1>2 DEF SymbolsOf, Holds
  <2>2. T.all[i].by = T.all[T.current].by
    BY <1>3, <1>4, <2>1
  <2>3. i = T.current
    BY <1>2, <1>3, <2>2, ScopesApart
  <2> QED
    BY <2>1, <2>3 DEF Means
<1>5. ASSUME NEW m \in Locals(k)
      PROVE  \E j \in DOMAIN T.all[T.current].syms :
               /\ T.all[T.current].syms[j].name = text[m].name
               /\ T.all[T.current].syms[j].by = <<m, 0>>
  <2>1. m \in k + 1 .. Len(t) /\ \A n \in k + 1 .. m : t[n].k = "local"
    BY <1>1 DEF Locals
  <2>2. m \in 1 .. Len(t) /\ m \in k .. Len(t) /\ t[m].k = "local"
    BY <1>2, <2>1
  <2>3. Innermost(t, m) = k
    BY <1>2, <2>1, <2>2, RestOfHead
  <2> DEFINE d == OfItem(t, m)
  <2>4. d \in Declarations(t)
    BY <1>2, <2>2, DeclarationCases
  <2>5. d.by = <<m, 0>> /\ d.name = t[m].name /\ d.level = Level(t)[m] /\ d.by[1] = m
    BY <2>2 DEF OfItem
  <2>6. Level(t)[m] # 0
    <3>1. m \in 0 .. Len(t)
      BY <2>2
    <3> QED
      BY <1>2, <2>3, <3>1, InnermostLevel
  <2>7. Home(t, d) = k
    BY <2>3, <2>5, <2>6 DEF Home
  <2> HIDE DEF d
  <2> QED
    BY <1>1, <1>4, <2>4, <2>5, <2>7
<1>6. ASSUME text[k].k = "function", NEW q \in DOMAIN text[k].params
      PROVE  \E j \in DOMAIN T.all[T.current].syms :
               /\ T.all[T.current].syms[j].name = text[k].params[q]
               /\ T.all[T.current].syms[j].by = <<k, q>>
  <2> DEFINE d == OfParam(t, k, q)
  <2>1. d \in Declarations(t)
    BY <1>1, <1>2, <1>6, DeclarationCases
  <2>2. d.by = <<k, q>> /\ d.name = t[k].params[q] /\ d.level = 1 /\ d.by[1] = k
    BY DEF OfParam
  <2>3. Home(t, d) = k
    BY <1>3, <2>2 DEF Home
  <2> HIDE DEF d
  <2> QED
    BY <1>1, <1>4, <2>1, <2>2, <2>3
<1> QED
  BY <1>3, <1>5, <1>6

(* attr.is_arg and attr.arg_num: code-generation.c lines 1289 to 1294.      *)
LEMMA PlaceParamsKeeps ==
  ASSUME NEW T \in Table, NEW c, Good(T, text, c), NEW k \in 1 .. Len(text),
         text[k].k = "function", CurrentAt(T, text, k)
  PROVE  /\ OnlyPlaces(T, PlaceParams(T, text[k].params))
         /\ \A j \in DOMAIN T.all[T.current].syms :
              T.all[T.current].syms[j].by[2] # 0 =>
                PlaceParams(T, text[k].params).all[T.current].syms[j].place =
                  <<"arg", T.all[T.current].syms[j].by[2] - 1>>
<1> DEFINE params == text[k].params
           N == Len(params)
           places == [i \in DOMAIN params |-> <<"arg", i - 1>>]
           cur == T.current
<1>1. PICK t : t = text
  OBVIOUS
<1>2. /\ t \in Texts /\ Grammatical(t) /\ ScopesOf(T, t) /\ SymbolsOf(T, t)
      /\ Len(t) \in Nat /\ k \in 0 .. Len(t)
      /\ cur \in 1 .. Len(T.all)
  BY <1>1, TextType DEF Good, CurrentAt
<1>3. N \in Nat /\ DOMAIN params = 1 .. N
  BY <1>1, <1>2, ItemType
<1>4. Opener(text, k)
  BY DEF Opener
<1>5. /\ T.all[cur].by = k
      /\ \A q \in 1 .. N : \E j \in DOMAIN T.all[cur].syms :
           /\ T.all[cur].syms[j].name = params[q]
           /\ T.all[cur].syms[j].by = <<k, q>>
  BY <1>3, <1>4, BlockSymbols, ZenonT(30)
<1>6. \A j \in DOMAIN T.all[cur].syms : T.all[cur].syms[j].by[2] # 0 =>
        /\ T.all[cur].syms[j].by[2] \in 1 .. N
        /\ T.all[cur].syms[j].name = params[T.all[cur].syms[j].by[2]]
  <2> TAKE j \in DOMAIN T.all[cur].syms
  <2>1. T.all[cur].by # 0
    BY <1>2, <1>5
  <2>2. \/ /\ T.all[cur].syms[j].by[2] \in DOMAIN text[T.all[cur].by].params
           /\ T.all[cur].syms[j].name =
                text[T.all[cur].by].params[T.all[cur].syms[j].by[2]]
        \/ T.all[cur].syms[j].by[2] = 0
    <3> HIDE DEF cur
    <3> QED
      BY <1>2, <2>1, SymbolInBlock
  <2> QED
    BY <1>3, <1>5, <2>2
<1>7. \A i \in 1 .. N : places[i] = <<"arg", i - 1>> /\ places[i] \in Place
  BY <1>3 DEF Place
<1>8. \A i \in 1 .. N : Named(T.all[cur], params[i]) # {}
  BY <1>5 DEF Named
<1>9. \A i, j \in 1 .. N : params[i] = params[j] => i = j
  <2> SUFFICES ASSUME NEW i \in 1 .. N, NEW j \in 1 .. N, params[i] = params[j]
               PROVE  i = j
    OBVIOUS
  <2>1. PICK a \in DOMAIN T.all[cur].syms :
          T.all[cur].syms[a].name = params[i] /\ T.all[cur].syms[a].by = <<k, i>>
    BY <1>5
  <2>2. PICK b \in DOMAIN T.all[cur].syms :
          T.all[cur].syms[b].name = params[j] /\ T.all[cur].syms[b].by = <<k, j>>
    BY <1>5
  <2>3. a = b
    BY <1>2, <2>1, <2>2, ZenonT(30) DEF SymbolsOf, Holds
  <2>4. <<k, i>> = <<k, j>>
    BY <2>1, <2>2, <2>3, Zenon
  <2> QED
    BY <2>4
<1>10. PlaceParams(T, params) = PlaceAll(T, params, places)
  BY DEF PlaceParams
<1> HIDE DEF params, places
<1>11. /\ OnlyPlaces(T, PlaceAll(T, params, places))
       /\ PlacesSet(T, PlaceAll(T, params, places), params, places, N)
  <2>1. CurrentAt(T, t, k)
    BY <1>1
  <2> QED
    BY <1>2, <1>3, <1>7, <1>8, <1>9, <2>1, PlaceAllKeeps
<1>12. ASSUME NEW j \in DOMAIN T.all[cur].syms, T.all[cur].syms[j].by[2] # 0
       PROVE  PlaceParams(T, params).all[cur].syms[j].place =
                <<"arg", T.all[cur].syms[j].by[2] - 1>>
  <2>1. /\ T.all[cur].syms[j].by[2] \in 1 .. N
        /\ T.all[cur].syms[j].name = params[T.all[cur].syms[j].by[2]]
    BY <1>6, <1>12
  <2>2. PICK q : q = T.all[cur].syms[j].by[2]
    OBVIOUS
  <2>3. q \in 1 .. N /\ T.all[cur].syms[j].name = params[q]
    BY <2>1, <2>2
  <2>4. PlaceAll(T, params, places).all[cur].syms[j].place = places[q]
    BY <1>11, <2>3 DEF PlacesSet
  <2>5. places[q] = <<"arg", q - 1>>
    BY <1>7, <2>3
  <2> QED
    BY <1>10, <2>2, <2>4, <2>5
<1> QED
  BY <1>10, <1>11, <1>12 DEF params

(* generate_local_variable for the declarations of a block:                *)
(* code-generation.c lines 1181 to 1207 and 1229 to 1231.                  *)
LEMMA PlaceLocalsKeeps ==
  ASSUME NEW T \in Table, NEW c, Good(T, text, c), NEW k \in 1 .. Len(text),
         Opener(text, k), CurrentAt(T, text, k), NEW offset \in Nat
  PROVE  /\ OnlyPlaces(T, PlaceLocals(T, k, offset))
         /\ \A j \in DOMAIN T.all[T.current].syms :
              PlaceLocals(T, k, offset).all[T.current].syms[j].place =
                IF T.all[T.current].syms[j].by[2] # 0
                THEN T.all[T.current].syms[j].place
                ELSE <<"local", offset + 4 * (T.all[T.current].syms[j].by[1] - k)>>
<1> DEFINE cur == T.current
<1>1. PICK t : t = text
  OBVIOUS
<1>2. /\ t \in Texts /\ Grammatical(t) /\ ScopesOf(T, t) /\ SymbolsOf(T, t)
      /\ Len(t) \in Nat /\ k \in 0 .. Len(t) /\ k \in Nat
      /\ cur \in 1 .. Len(T.all)
  BY <1>1, TextType DEF Good, CurrentAt
<1>3. PICK N \in Nat : /\ Locals(k) = k + 1 .. k + N
                       /\ Cardinality(Locals(k)) = N
                       /\ k + N <= Len(text)
  BY <1>1, <1>2, LocalsAre
<1> DEFINE names == [i \in 1 .. N |-> text[k + i].name]
           places == [i \in 1 .. N |-> <<"local", offset + 4 * i>>]
<1>4. Len(names) = N
  OBVIOUS
<1>5. \A i \in 1 .. N : places[i] = <<"local", offset + 4 * i>> /\ places[i] \in Place
  BY DEF Place
<1>6. /\ T.all[cur].by = k
      /\ \A i \in 1 .. N : \E j \in DOMAIN T.all[cur].syms :
           /\ T.all[cur].syms[j].name = names[i]
           /\ T.all[cur].syms[j].by = <<k + i, 0>>
  <2>1. \A i \in 1 .. N : k + i \in Locals(k) /\ names[i] = text[k + i].name
    BY <1>2, <1>3
  <2>2. /\ T.all[cur].by = k
        /\ \A m \in Locals(k) : \E j \in DOMAIN T.all[cur].syms :
             /\ T.all[cur].syms[j].name = text[m].name
             /\ T.all[cur].syms[j].by = <<m, 0>>
    BY BlockSymbols
  <2> HIDE DEF names
  <2> QED
    BY <2>1, <2>2
<1>7. \A j \in DOMAIN T.all[cur].syms : T.all[cur].syms[j].by[2] = 0 =>
        /\ T.all[cur].syms[j].by[1] - k \in 1 .. N
        /\ T.all[cur].syms[j].name = names[T.all[cur].syms[j].by[1] - k]
  <2> SUFFICES ASSUME NEW j \in DOMAIN T.all[cur].syms, T.all[cur].syms[j].by[2] = 0
               PROVE  /\ T.all[cur].syms[j].by[1] - k \in 1 .. N
                      /\ T.all[cur].syms[j].name = names[T.all[cur].syms[j].by[1] - k]
    OBVIOUS
  <2>1. T.all[cur].by # 0
    BY <1>2, <1>6
  <2>2. /\ T.all[cur].syms[j].by[1] \in Locals(k)
        /\ T.all[cur].syms[j].name = text[T.all[cur].syms[j].by[1]].name
    BY <1>2, <1>6, <2>1, SymbolInBlock
  <2>3. PICK m : m = T.all[cur].syms[j].by[1]
    OBVIOUS
  <2>4. m - k \in 1 .. N /\ k + (m - k) = m
    <3>1. m \in k + 1 .. k + N
      BY <1>3, <2>2, <2>3
    <3> QED
      BY <1>2, <3>1
  <2> QED
    BY <2>2, <2>3, <2>4
<1>8. \A i \in 1 .. N : Named(T.all[cur], names[i]) # {}
  <2> HIDE DEF names
  <2> QED
    BY <1>6 DEF Named
<1>9. \A i, j \in 1 .. N : names[i] = names[j] => i = j
  <2> HIDE DEF names
  <2> SUFFICES ASSUME NEW i \in 1 .. N, NEW j \in 1 .. N, names[i] = names[j]
               PROVE  i = j
    OBVIOUS
  <2>1. PICK a \in DOMAIN T.all[cur].syms :
          T.all[cur].syms[a].name = names[i] /\ T.all[cur].syms[a].by = <<k + i, 0>>
    BY <1>6
  <2>2. PICK b \in DOMAIN T.all[cur].syms :
          T.all[cur].syms[b].name = names[j] /\ T.all[cur].syms[b].by = <<k + j, 0>>
    BY <1>6
  <2>3. a = b
    BY <1>2, <2>1, <2>2, ZenonT(30) DEF SymbolsOf, Holds
  <2>4. <<k + i, 0>> = <<k + j, 0>>
    BY <2>1, <2>2, <2>3, Zenon
  <2>5. k + i = k + j
    BY <2>4
  <2> QED
    BY <1>2, <2>5
<1>10. PlaceLocals(T, k, offset) = PlaceAll(T, names, places)
  BY <1>3 DEF PlaceLocals
<1> HIDE DEF names, places
<1>11. /\ OnlyPlaces(T, PlaceAll(T, names, places))
       /\ PlacesSet(T, PlaceAll(T, names, places), names, places, N)
  <2>1. CurrentAt(T, t, k) /\ Len(names) \in Nat
    BY <1>1, <1>4
  <2>2. \A i \in 1 .. Len(names) : Named(T.all[T.current], names[i]) # {} /\ places[i] \in Place
    BY <1>4, <1>5, <1>8
  <2>3. \A i, j \in 1 .. Len(names) : names[i] = names[j] => i = j
    BY <1>4, <1>9
  <2> QED
    BY <1>2, <1>4, <2>1, <2>2, <2>3, PlaceAllKeeps
<1>12. ASSUME NEW j \in DOMAIN T.all[cur].syms
       PROVE  PlaceAll(T, names, places).all[cur].syms[j].place =
                IF T.all[cur].syms[j].by[2] # 0
                THEN T.all[cur].syms[j].place
                ELSE <<"local", offset + 4 * (T.all[cur].syms[j].by[1] - k)>>
  <2>1. CASE T.all[cur].syms[j].by[2] = 0
    <3>1. PICK i : i = T.all[cur].syms[j].by[1] - k
      OBVIOUS
    <3>2. i \in 1 .. N /\ T.all[cur].syms[j].name = names[i]
      BY <1>7, <2>1, <3>1
    <3>3. PlaceAll(T, names, places).all[cur].syms[j].place = places[i]
      BY <1>11, <3>2 DEF PlacesSet
    <3> QED
      BY <1>5, <2>1, <3>1, <3>2, <3>3
  <2>2. CASE T.all[cur].syms[j].by[2] # 0
    <3>1. \A i \in 1 .. N : T.all[cur].syms[j].name # names[i]
      <4> SUFFICES ASSUME NEW i \in 1 .. N, T.all[cur].syms[j].name = names[i]
                   PROVE  FALSE
        OBVIOUS
      <4>1. PICK a \in DOMAIN T.all[cur].syms :
              T.all[cur].syms[a].name = names[i] /\ T.all[cur].syms[a].by = <<k + i, 0>>
        BY <1>6
      <4>2. a = j
        BY <1>2, <4>1, ZenonT(30) DEF SymbolsOf, Holds
      <4>3. T.all[cur].syms[j].by = <<k + i, 0>>
        BY <4>1, <4>2, Zenon
      <4> QED
        BY <2>2, <4>3
    <3> QED
      BY <1>11, <2>2, <3>1 DEF PlacesSet
  <2> QED
    BY <2>1, <2>2
<1> QED
  BY <1>10, <1>11, <1>12

-----------------------------------------------------------------------------
(* What an item does to the places.  *)
LEMMA PlacedPlain ==
  ASSUME text \in Texts, Grammatical(text), NEW k \in 1 .. Len(text),
         ~ Opener(text, k), text[k].k # "close", NEW T, NEW depths,
         Placed(T, depths, k - 1)
  PROVE  Placed(T, depths, k)
<1>1. PICK t : t = text
  OBVIOUS
<1>2. OpenBlocks(t, k) = OpenBlocks(t, k - 1) /\ Level(t)[k] = Level(t)[k - 1]
  BY <1>1, OpenAfterPlain, LevelStep
<1> QED
  BY <1>1, <1>2 DEF Placed

LEMMA PlacedClose ==
  ASSUME text \in Texts, Grammatical(text), NEW k \in 1 .. Len(text),
         text[k].k = "close", NEW T, NEW depths, Placed(T, depths, k - 1),
         NEW U, U.all = T.all
  PROVE  Placed(U, Front(depths), k)
<1>1. PICK t, f : t = text /\ f = Front(depths)
  OBVIOUS
<1> DEFINE b == Innermost(t, k - 1)
<1>2. /\ Len(t) \in Nat /\ k - 1 \in 0 .. Len(t) /\ k \in 1 .. Len(t) /\ t[k].k = "close"
      /\ t \in Texts /\ Grammatical(t)
  BY <1>1, TextType
<1>3. /\ b \in OpenBlocks(t, k - 1) /\ OpenBlocks(t, k) = OpenBlocks(t, b - 1)
  BY <1>2, OpenAfterClose
<1>4. \A m : m \in OpenBlocks(t, k) <=> m \in OpenBlocks(t, k - 1) /\ m < b
  BY <1>2, <1>3, OpenNested
<1>5. /\ Level(t)[k] = Level(t)[k - 1] - 1 /\ Level(t)[k] \in Nat
      /\ Level(t)[k - 1] \in Nat
      /\ Level(t)[b] = Level(t)[k - 1]
  BY <1>2, LevelStep, InnermostLevel
<1>6. \A m \in OpenBlocks(t, k) : Level(t)[m] \in 1 .. Level(t)[k]
  <2> TAKE m \in OpenBlocks(t, k)
  <2>1. m \in OpenBlocks(t, k - 1) /\ m < b
    BY <1>4
  <2>2. Level(t)[m] \in 1 .. Level(t)[k - 1] /\ Level(t)[m] < Level(t)[b]
    BY <1>2, <1>3, <2>1, OpenLevels
  <2> QED
    BY <1>5, <2>2
<1>7. /\ depths \in Seq(Nat) /\ Len(depths) = Level(t)[k - 1]
      /\ \A v, w \in 1 .. Len(depths) : v <= w => depths[v] <= depths[w]
  BY <1>1 DEF Placed
<1>8. /\ f \in Seq(Nat) /\ Len(f) = Level(t)[k]
      /\ \A v \in 1 .. Level(t)[k] : v \in 1 .. Len(depths) /\ f[v] = depths[v]
  BY <1>1, <1>5, <1>7, SMTT(30) DEF Front
<1>9. \A v \in 1 .. Level(t)[k] : Base(f, v) = Base(depths, v)
  <2> TAKE v \in 1 .. Level(t)[k]
  <2>1. v # 1 => v - 1 \in 1 .. Level(t)[k]
    BY <1>5
  <2> QED
    BY <1>8, <2>1 DEF Base
<1>10. \A h \in OpenBlocks(t, k) :
         /\ f[Level(t)[h]] = depths[Level(t)[h]]
         /\ Base(f, Level(t)[h]) = Base(depths, Level(t)[h])
         /\ h \in OpenBlocks(t, k - 1)
  BY <1>4, <1>6, <1>8, <1>9
<1>11. \A h \in OpenBlocks(t, k) :
         f[Level(t)[h]] = Base(f, Level(t)[h]) + 4 * Cardinality(Locals(h))
  BY <1>1, <1>10 DEF Placed
<1>12. \A i \in 1 .. Len(T.all) : T.all[i].by \in OpenBlocks(t, k) =>
         \A j \in DOMAIN T.all[i].syms :
           T.all[i].syms[j].place = PlaceIn(f, T.all[i].by, T.all[i].syms[j].by)
  <2> SUFFICES ASSUME NEW i \in 1 .. Len(T.all), T.all[i].by \in OpenBlocks(t, k),
                      NEW j \in DOMAIN T.all[i].syms
               PROVE  T.all[i].syms[j].place = PlaceIn(f, T.all[i].by, T.all[i].syms[j].by)
    OBVIOUS
  <2>1. T.all[i].syms[j].place = PlaceIn(depths, T.all[i].by, T.all[i].syms[j].by)
    BY <1>1, <1>10 DEF Placed
  <2>2. Base(f, Level(text)[T.all[i].by]) = Base(depths, Level(text)[T.all[i].by])
    BY <1>1, <1>10
  <2> QED
    BY <2>1, <2>2 DEF PlaceIn
<1>13. \A v, w \in 1 .. Len(f) : v <= w => f[v] <= f[w]
  BY <1>7, <1>8
<1> QED
  BY <1>1, <1>8, <1>11, <1>12, <1>13 DEF Placed

(* A block begins behind the locals of the block around it.  *)
Around(depths) == IF Len(depths) = 0 THEN 0 ELSE depths[Len(depths)]

LEMMA PlacedOpen ==
  ASSUME text \in Texts, Grammatical(text), NEW k \in 1 .. Len(text), Opener(text, k),
         NEW T, NEW depths, Placed(T, depths, k - 1), NEW U,
         NEW c, c \in 1 .. Len(T.all), T.all[c].by = k,
         \A i \in 1 .. Len(T.all) : T.all[i].by = k => i = c,
         Len(U.all) = Len(T.all),
         \A i \in 1 .. Len(T.all) : U.all[i].by = T.all[i].by,
         OthersSame(T, U, c),
         \A j \in DOMAIN U.all[c].syms :
           U.all[c].syms[j].place =
             IF U.all[c].syms[j].by[2] # 0 THEN <<"arg", U.all[c].syms[j].by[2] - 1>>
             ELSE <<"local", Around(depths) + 4 * (U.all[c].syms[j].by[1] - k)>>
  PROVE  Placed(U, Append(depths, Around(depths) + 4 * Cardinality(Locals(k))), k)
<1>1. PICK t, L : t = text /\ L = Level(text)[k - 1]
  OBVIOUS
<1>2. /\ Len(t) \in Nat /\ k - 1 \in 0 .. Len(t) /\ k \in 1 .. Len(t) /\ Opener(t, k)
      /\ t \in Texts /\ Grammatical(t)
  BY <1>1, TextType
<1>3. OpenBlocks(t, k) = OpenBlocks(t, k - 1) \cup {k}
  BY <1>2, OpenAfterOpener
<1>4. /\ Level(t)[k] = L + 1 /\ L \in Nat
  BY <1>1, <1>2, LevelStep
<1>5. /\ depths \in Seq(Nat) /\ Len(depths) = L
      /\ \A v, w \in 1 .. L : v <= w => depths[v] <= depths[w]
      /\ \A v \in 1 .. L : depths[v] \in Nat
  BY <1>1, <1>4, SMTT(30) DEF Placed
<1>6. PICK N \in Nat : Cardinality(Locals(k)) = N
  BY <1>1, <1>2, LocalsAre
<1>7. /\ Around(depths) \in Nat
      /\ L = 0 => Around(depths) = 0
      /\ L # 0 => Around(depths) = depths[L]
  BY <1>4, <1>5, SMTT(30) DEF Around
<1>8. PICK A, f : A = Around(depths) /\ f = Append(depths, A + 4 * N)
  OBVIOUS
<1>9. A \in Nat /\ A + 4 * N \in Nat /\ A <= A + 4 * N
  BY <1>7, <1>8, SMTT(30)
<1>10. /\ f \in Seq(Nat) /\ Len(f) = L + 1
       /\ \A v \in 1 .. L : f[v] = depths[v]
       /\ f[L + 1] = A + 4 * N
  <2>1. PICK x \in Nat : x = A + 4 * N
    BY <1>9
  <2>2. depths \in Seq(Nat) /\ Len(depths) = L /\ L \in Nat /\ f = Append(depths, x)
    BY <1>4, <1>5, <1>8, <2>1
  <2>3. /\ f \in Seq(Nat) /\ Len(f) = L + 1
        /\ \A v \in 1 .. L : f[v] = depths[v]
        /\ f[L + 1] = x
    BY <2>2
  <2> QED
    BY <2>1, <2>3
<1>11. \A v, w \in 1 .. L + 1 : v <= w => f[v] <= f[w]
  <2> SUFFICES ASSUME NEW v \in 1 .. L + 1, NEW w \in 1 .. L + 1, v <= w
               PROVE  f[v] <= f[w]
    OBVIOUS
  <2>1. CASE w \in 1 .. L
    BY <1>4, <1>5, <1>10, <2>1, SMTT(30)
  <2>2. CASE w = L + 1 /\ v = L + 1
    BY <1>9, <1>10, <2>2
  <2>3. CASE w = L + 1 /\ v \in 1 .. L
    <3>1. L \in 1 .. L /\ L # 0 /\ v <= L
      BY <1>4, <2>3
    <3>2. depths[v] <= depths[L] /\ depths[v] \in Nat /\ depths[L] = A
      BY <1>5, <1>7, <1>8, <2>3, <3>1
    <3> QED
      BY <1>9, <1>10, <2>3, <3>2
  <2> QED
    BY <1>4, <2>1, <2>2, <2>3
<1>12. Base(f, L + 1) = A
  <2>1. L # 0 => L \in 1 .. L
    BY <1>4
  <2> QED
    BY <1>4, <1>7, <1>8, <1>10, <2>1 DEF Base
<1>13. \A v \in 1 .. L : Base(f, v) = Base(depths, v)
  <2> TAKE v \in 1 .. L
  <2>1. v # 1 => v - 1 \in 1 .. L
    BY <1>4
  <2> QED
    BY <1>10, <2>1 DEF Base
<1>14. \A m \in OpenBlocks(t, k - 1) : Level(t)[m] \in 1 .. L
  BY <1>1, <1>2, OpenLevels
<1>15. ASSUME NEW h \in OpenBlocks(t, k)
       PROVE  f[Level(t)[h]] = Base(f, Level(t)[h]) + 4 * Cardinality(Locals(h))
  <2>1. CASE h = k
    BY <1>4, <1>6, <1>10, <1>12, <2>1
  <2>2. CASE h \in OpenBlocks(t, k - 1)
    <3>1. depths[Level(t)[h]] = Base(depths, Level(t)[h]) + 4 * Cardinality(Locals(h))
      BY <1>1, <2>2 DEF Placed
    <3> QED
      BY <1>10, <1>13, <1>14, <2>2, <3>1
  <2> QED
    BY <1>3, <2>1, <2>2
<1>16. ASSUME NEW i \in 1 .. Len(U.all), U.all[i].by \in OpenBlocks(t, k),
              NEW j \in DOMAIN U.all[i].syms
       PROVE  U.all[i].syms[j].place = PlaceIn(f, U.all[i].by, U.all[i].syms[j].by)
  <2>1. CASE i = c
    <3>1. U.all[i].by = k
      BY <2>1
    <3>2. Base(f, Level(text)[k]) = A
      BY <1>1, <1>4, <1>12
    <3> QED
      BY <1>8, <2>1, <3>1, <3>2 DEF PlaceIn
  <2>2. CASE i # c
    <3>1. /\ U.all[i].by = T.all[i].by /\ T.all[i].by # k
          /\ U.all[i].syms = T.all[i].syms /\ i \in 1 .. Len(T.all)
      BY <2>2 DEF OthersSame
    <3>2. T.all[i].by \in OpenBlocks(t, k - 1)
      BY <1>3, <1>16, <3>1
    <3>3. T.all[i].syms[j].place = PlaceIn(depths, T.all[i].by, T.all[i].syms[j].by)
      BY <1>1, <3>1, <3>2 DEF Placed
    <3>4. Base(f, Level(text)[T.all[i].by]) = Base(depths, Level(text)[T.all[i].by])
      BY <1>1, <1>13, <1>14, <3>2
    <3> QED
      BY <3>1, <3>3, <3>4 DEF PlaceIn
  <2> QED
    BY <2>1, <2>2
<1>17. Placed(U, f, k)
  BY <1>1, <1>4, <1>10, <1>11, <1>15, <1>16 DEF Placed
<1> QED
  BY <1>6, <1>8, <1>17

-----------------------------------------------------------------------------
(* A name is found again, or else the declaration found is one that        *)
(* follows in the same list.                                               *)
LEMMA FoundAgain ==
  ASSUME NEW T, NEW c, Good(T, text, c), NEW k \in 1 .. Len(text),
         CurrentAt(T, text, k - 1), Mentions(text, k) # NULL,
         NEW found, found = Retrieve(T, Mentions(text, k))
  PROVE  /\ found \in Symbol /\ found # NULL
         /\ \/ found.by = Binding(text, k)
            \/ text[k].k = "local" /\ DeclaredLater(k)
<1>1. PICK t, x, r, vs, da :
        /\ t = text /\ x = Mentions(t, k) /\ r = Retrieve(T, x)
        /\ vs = {d \in VisibleAt(t, k) : d.name = x}
        /\ da = DeclaredAround(t, x, k - 1)
  OBVIOUS
<1>2. /\ T \in Table /\ t \in Texts /\ Grammatical(t) /\ ScopesOf(T, t)
      /\ SymbolsOf(T, t) /\ WellScoped(t) /\ CurrentAt(T, t, k - 1)
      /\ Len(t) \in Nat /\ k - 1 \in 0 .. Len(t) /\ k \in 1 .. Len(t) + 1
      /\ k \in 1 .. Len(t) /\ DOMAIN t = 1 .. Len(t) /\ found = r /\ x # NULL
  BY <1>1, TextType DEF Good
<1>3. \A d : d \in vs <=> d \in da /\ d.by[1] < k
  <2> TAKE d
  <2>1. d \in VisibleAt(t, k) => d \in Declarations(t)
    BY DEF VisibleAt
  <2>2. d \in Declarations(t) =>
          (d \in VisibleAt(t, k) <=>
             d.by[1] < k /\ Home(t, d) \in OpenBlocks(t, k - 1) \cup {0})
    BY <1>2, VisibleHome
  <2> QED
    BY <1>1, <2>1, <2>2 DEF DeclaredAround
<1>4. Lexical(t, x, k) = IF vs = {} THEN NULL
                         ELSE CHOOSE d \in vs : \A e \in vs : e.level <= d.level
  BY <1>1 DEF Lexical
<1>5. vs # {}
  BY <1>1, <1>2, <1>4 DEF WellScoped, NamesDeclared
<1>6. da # {}
  BY <1>3, <1>5
<1>7. /\ r \in Symbol /\ r # NULL
      /\ \E d \in da : Means(r, d) /\ \A e \in da : e # d => e.level < d.level
  <2>1. \/ r = NULL /\ da = {}
        \/ /\ r \in Symbol
           /\ r # NULL
           /\ \E d \in da :
                /\ Means(r, d)
                /\ \A e \in da : e # d => e.level < d.level
    BY <1>1, <1>2, Lookup
  <2> QED
    BY <1>6, <2>1
<1>8. PICK d \in da : Means(r, d) /\ \A e \in da : e # d => e.level < d.level
  BY <1>7
<1>9. \A e \in da : /\ e \in Declarations(t) /\ e \in Declaration /\ e.level \in Nat
                    /\ e.by[1] \in 1 .. Len(t)
                    /\ Home(t, e) \in OpenBlocks(t, k - 1) \cup {0}
                    /\ e.name = x
  BY <1>1, <1>2, DeclarationType DEF DeclaredAround, Declaration
<1>10. CASE d.by[1] < k
  <2>1. d \in vs
    BY <1>3, <1>10
  <2>2. \A e \in vs : e.level <= d.level
    BY <1>3, <1>8, <1>9
  <2>3. \A b \in vs : (\A e \in vs : e.level <= b.level) => b = d
    <3> SUFFICES ASSUME NEW b \in vs, \A e \in vs : e.level <= b.level, b # d
                 PROVE  FALSE
      OBVIOUS
    <3>1. b.level < d.level /\ d.level <= b.level /\ b.level \in Nat /\ d.level \in Nat
      BY <1>3, <1>8, <1>9, <2>1
    <3> QED
      BY <3>1
  <2>4. (CHOOSE b \in vs : \A e \in vs : e.level <= b.level) = d
    BY <2>1, <2>2, <2>3
  <2>5. Lexical(t, x, k) = d /\ d # NULL
    BY <1>4, <1>9, <2>1, <2>4, ScopeAssumption
  <2>6. Binding(t, k) = d.by
    BY <1>1, <1>2, <2>5 DEF Binding
  <2> QED
    BY <1>1, <1>2, <1>7, <1>8, <2>6 DEF Means
<1>11. CASE ~ (d.by[1] < k)
  <2> DEFINE m == d.by[1]
             h == Home(t, d)
  <2>1. PICK e \in vs : TRUE
    BY <1>5
  <2>2. e \in da /\ e # d
    BY <1>3, <1>11, <2>1
  <2>3. d.level # 0
    BY <1>8, <1>9, <2>2
  <2>4. m \in 1 .. Len(t) /\ k <= m
    BY <1>2, <1>9, <1>11
  <2>5. h \in OpenBlocks(t, k - 1) /\ h = Innermost(t, m)
    <3>1. h # 0
      BY <1>2, <1>9, <2>3, HomeLevel
    <3> QED
      BY <1>9, <2>3, <3>1 DEF Home
  <2>6. h \in 1 .. k - 1
    BY <1>2, <2>5, OpenDef
  <2>7. d.by[2] = 0
    <3> SUFFICES ASSUME d.by[2] # 0
                 PROVE  FALSE
      OBVIOUS
    <3>1. Opener(t, m)
      BY <1>2, <1>9, DeclarationType DEF Opener
    <3>2. h = m
      BY <1>2, <2>4, <2>5, <3>1, OpenAfterOpener
    <3> QED
      BY <1>2, <2>4, <2>6, <3>2
  <2>8. t[m].k = "local" /\ d.name = t[m].name
    BY <1>2, <1>9, <2>3, <2>7, DeclarationType DEF OfItem
  <2>9. \A n \in h + 1 .. m : t[n].k = "local"
    BY <1>2, <2>4, <2>5, <2>8, HeadOfBlock
  <2>10. k \in h + 1 .. m /\ k .. m \subseteq h + 1 .. m /\ m \in k .. Len(t)
    BY <1>2, <2>4, <2>6
  <2>11. t[k].k = "local" /\ t[m].name = t[k].init
    <3>1. t[k].k = "local"
      BY <2>9, <2>10
    <3>2. Mentions(t, k) = t[k].init
      BY <3>1 DEF Mentions
    <3> QED
      BY <1>1, <1>9, <2>8, <3>1, <3>2
  <2>12. DeclaredLater(k)
    <3>1. \A n \in k .. m : t[n].k = "local"
      BY <2>9, <2>10
    <3> QED
      BY <1>1, <2>10, <2>11, <3>1 DEF DeclaredLater
  <2> QED
    BY <1>1, <1>2, <1>7, <2>11, <2>12
<1> QED
  BY <1>10, <1>11

-----------------------------------------------------------------------------
(* One lemma for each operation of the second pass.                        *)
LEMMA GenState ==
  ASSUME ScopeInv, phase = "generate", pos <= Len(text)
  PROVE  /\ text \in Texts /\ Len(text) \in Nat /\ DOMAIN text = 1 .. Len(text)
         /\ Grammatical(text) /\ pos \in 1 .. Len(text) /\ pos - 1 \in 0 .. Len(text)
         /\ (pos + 1) - 1 = pos
         /\ ~ anyError /\ Good(table, text, checked)
         /\ table \in Table /\ ScopesOf(table, text) /\ SymbolsOf(table, text)
         /\ checked[pos] = Binding(text, pos)
         /\ CurrentAt(table, text, pos - 1) /\ ReopenedTo(table, pos - 1)
         /\ generated \in Seq((Nat \X Nat) \cup {NULL}) /\ Len(generated) = pos - 1
         /\ Placed(table, offsets, pos - 1)
<1>1. /\ text \in Texts /\ ~ anyError /\ Good(table, text, checked)
  BY DEF ScopeInv, ErrorInv, TableInv
<1>2. /\ pos \in 1 .. Len(text) + 1
      /\ CurrentAt(table, text, pos - 1) /\ ReopenedTo(table, pos - 1)
      /\ generated \in Seq((Nat \X Nat) \cup {NULL}) /\ Len(generated) = pos - 1
      /\ Placed(table, offsets, pos - 1)
  BY DEF ScopeInv, ReplayInv, PlaceInv
<1>3. Len(text) \in Nat /\ DOMAIN text = 1 .. Len(text)
  BY <1>1, TextType
<1>4. pos \in 1 .. Len(text) /\ pos - 1 \in 0 .. Len(text) /\ (pos + 1) - 1 = pos
  BY <1>2, <1>3
<1>5. /\ Grammatical(text) /\ table \in Table /\ ScopesOf(table, text)
      /\ SymbolsOf(table, text) /\ checked[pos] = Binding(text, pos)
  BY <1>1, <1>4 DEF Good
<1> QED
  BY <1>1, <1>2, <1>3, <1>4, <1>5

LEMMA GenKeeps ==
  ASSUME ScopeInv, phase = "generate", pos <= Len(text), phase' = "generate",
         text' = text, checked' = checked, anyError' = anyError, pos' = pos + 1,
         NEW b, b \in (Nat \X Nat) \cup {NULL}, generated' = Append(generated, b),
         b = Binding(text, pos) \/ (text[pos].k = "local" /\ DeclaredLater(pos)),
         table' \in Table, ScopesOf(table', text), SymbolsOf(table', text),
         CurrentAt(table', text, pos), ReopenedTo(table', pos),
         Placed(table', offsets', pos)
  PROVE  ScopeInv'
<1>1. /\ text \in Texts /\ Len(text) \in Nat /\ DOMAIN text = 1 .. Len(text)
      /\ Grammatical(text) /\ pos \in 1 .. Len(text) /\ (pos + 1) - 1 = pos
      /\ ~ anyError /\ Good(table, text, checked)
      /\ checked[pos] = Binding(text, pos)
      /\ generated \in Seq((Nat \X Nat) \cup {NULL}) /\ Len(generated) = pos - 1
  BY GenState
<1>2. Good(table', text, checked)
  BY <1>1 DEF Good
<1>3. ErrorInv' /\ TableInv' /\ CheckInv'
  BY <1>1, <1>2 DEF ScopeInv, ErrorInv, TableInv, CheckInv
<1>4. /\ generated' \in Seq((Nat \X Nat) \cup {NULL}) /\ Len(generated') = pos
      /\ DOMAIN generated = 1 .. pos - 1 /\ DOMAIN generated' = 1 .. pos
      /\ generated'[pos] = b
      /\ \A k \in 1 .. pos - 1 : generated'[k] = generated[k]
  BY <1>1
<1>5. ReplayInv'
  <2>1. pos' \in 1 .. Len(text') + 1 /\ pos' - 1 = pos
    BY <1>1
  <2>2. CurrentAt(table', text', pos' - 1) /\ ReopenedTo(table', pos' - 1)
    BY <2>1
  <2> QED
    BY <1>4, <2>1, <2>2 DEF ReplayInv
<1>6. PlaceInv'
  <2>1. pos' - 1 = pos
    BY <1>1
  <2>2. /\ OpenBlocks(text', pos' - 1) = OpenBlocks(text, pos)
        /\ Level(text') = Level(text)
        /\ \A h : Locals(h)' = Locals(h)
    BY <2>1 DEF Locals
  <2> QED
    BY <2>1, <2>2 DEF PlaceInv, Placed, PlaceIn
<1>7. SameSymbol'
  <2>1. \A k : DeclaredLater(k)' <=> DeclaredLater(k)
    BY DEF DeclaredLater
  <2> SUFFICES ASSUME NEW k \in 1 .. pos
               PROVE  generated'[k] = checked[k] \/ (text[k].k = "local" /\ DeclaredLater(k))
    BY <1>4, <2>1 DEF SameSymbol
  <2>2. CASE k = pos
    BY <1>1, <1>4, <2>2
  <2>3. CASE k \in 1 .. pos - 1
    BY <1>4, <2>3 DEF ScopeInv, SameSymbol
  <2> QED
    BY <1>1, <2>2, <2>3
<1> QED
  BY <1>3, <1>5, <1>6, <1>7 DEF ScopeInv

(* An item that neither opens nor closes a block leaves the table alone.   *)
LEMMA GenPlainKeeps ==
  ASSUME ScopeInv, phase = "generate", pos <= Len(text),
         text[pos].k \in {"global", "local", "use", "call"},
         NEW found, Step(table, found), offsets' = offsets,
         Mentions(text, pos) = NULL => found = NULL,
         Mentions(text, pos) # NULL => found = Retrieve(table, Mentions(text, pos))
  PROVE  ScopeInv'
<1>1. PICK t, T : t = text /\ T = table
  OBVIOUS
<1>2. /\ t \in Texts /\ Len(t) \in Nat /\ Grammatical(t)
      /\ pos \in 1 .. Len(t) /\ pos - 1 \in 0 .. Len(t)
      /\ Good(T, t, checked) /\ T \in Table /\ ScopesOf(T, t) /\ SymbolsOf(T, t)
      /\ CurrentAt(T, t, pos - 1) /\ ReopenedTo(T, pos - 1)
      /\ Placed(T, offsets, pos - 1)
  BY <1>1, GenState
<1>3. ~ Opener(t, pos) /\ t[pos].k # "close"
  BY <1>1 DEF Opener
<1>4. /\ phase' = "generate" /\ text' = text /\ checked' = checked
      /\ anyError' = anyError /\ pos' = pos + 1 /\ table' = table
      /\ generated' = Append(generated, IF found = NULL THEN NULL ELSE found.by)
  BY DEF Step
<1>5. PICK b : b = IF found = NULL THEN NULL ELSE found.by
  OBVIOUS
<1>6. /\ b \in (Nat \X Nat) \cup {NULL}
      /\ b = Binding(text, pos) \/ (text[pos].k = "local" /\ DeclaredLater(pos))
  <2>1. CASE Mentions(text, pos) = NULL
    BY <1>5, <2>1 DEF Binding
  <2>2. CASE Mentions(text, pos) # NULL
    <3>1. found = Retrieve(table, Mentions(text, pos))
      BY <2>2
    <3>2. Good(table, text, checked) /\ CurrentAt(table, text, pos - 1) /\ pos \in 1 .. Len(text)
      BY <1>1, <1>2
    <3>3. /\ found \in Symbol /\ found # NULL
          /\ \/ found.by = Binding(text, pos)
             \/ text[pos].k = "local" /\ DeclaredLater(pos)
      BY <2>2, <3>1, <3>2, FoundAgain
    <3> QED
      BY <1>5, <3>3 DEF Symbol
  <2> QED
    BY <2>1, <2>2
<1>7. CurrentAt(T, t, pos)
  <2>1. Innermost(t, pos) = Innermost(t, pos - 1)
    BY <1>2, <1>3, OpenAfterPlain
  <2> QED
    BY <1>2, <2>1 DEF CurrentAt
<1>8. ReopenedTo(T, pos)
  <2>1. \A i \in 1 .. Len(T.all) : T.all[i].by \in Nat /\ T.all[i].by # pos
    <3> SUFFICES ASSUME NEW i \in 1 .. Len(T.all)
                 PROVE  T.all[i].by \in Nat /\ T.all[i].by # pos
      OBVIOUS
    <3>1. T.all[i].by \in Nat
      BY <1>2, ScopesApart
    <3>2. i = 1 \/ i \in 2 .. Len(T.all)
      OBVIOUS
    <3>3. pos # 0
      BY <1>2
    <3> QED
      BY <1>2, <1>3, <3>1, <3>2, <3>3 DEF ScopesOf
  <2>2. pos \in Nat
    BY <1>2
  <2>3. \A i \in 1 .. Len(T.all) : T.all[i].by <= pos - 1 <=> T.all[i].by <= pos
    BY <2>1, <2>2
  <2> QED
    BY <1>2, <2>3 DEF ReopenedTo
<1>9. Placed(T, offsets, pos)
  BY <1>1, <1>2, <1>3, PlacedPlain
<1>10. /\ table' \in Table /\ ScopesOf(table', text) /\ SymbolsOf(table', text)
       /\ CurrentAt(table', text, pos) /\ ReopenedTo(table', pos)
       /\ Placed(table', offsets', pos)
  BY <1>1, <1>2, <1>4, <1>7, <1>8, <1>9
<1> QED
  BY <1>4, <1>5, <1>6, <1>10, GenKeeps

(* GenGlobal, GenLocal, GenUse and GenCall.  *)
LEMMA GenItemKeeps ==
  ASSUME ScopeInv, GenGlobal \/ GenLocal \/ GenUse \/ GenCall
  PROVE  ScopeInv'
<1>1. CASE GenGlobal
  <2>1. /\ phase = "generate" /\ pos <= Len(text) /\ text[pos].k = "global"
        /\ Step(table, NULL) /\ offsets' = offsets
    BY <1>1 DEF GenGlobal, At
  <2>2. Mentions(text, pos) = NULL
    BY <2>1, MentionsOf
  <2> QED
    BY <2>1, <2>2, GenPlainKeeps
<1>2. CASE GenLocal
  <2>1. PICK found : found = IF text[pos].init = NULL THEN NULL
                             ELSE Retrieve(table, text[pos].init)
    OBVIOUS
  <2>2. /\ phase = "generate" /\ pos <= Len(text) /\ text[pos].k = "local"
        /\ Step(table, found) /\ offsets' = offsets
    BY <1>2, <2>1 DEF GenLocal, At
  <2>3. Mentions(text, pos) = text[pos].init
    BY <2>2, MentionsOf
  <2> QED
    BY <2>1, <2>2, <2>3, GenPlainKeeps
<1>3. CASE GenUse \/ GenCall
  <2>1. PICK found : found = Retrieve(table, text[pos].name)
    OBVIOUS
  <2>2. /\ phase = "generate" /\ pos <= Len(text) /\ text[pos].k \in {"use", "call"}
        /\ Step(table, found) /\ offsets' = offsets
    BY <1>3, <2>1 DEF GenUse, GenCall, At
  <2>3. Mentions(text, pos) = text[pos].name
    BY <2>2, MentionsOf
  <2>4. Mentions(text, pos) # NULL
    <3>1. text \in Texts /\ pos \in DOMAIN text
      BY <2>2, GenState
    <3>2. text[pos].name \in Name
      BY <2>2, <3>1 DEF Texts, HasName
    <3> QED
      BY <2>3, <3>2, ScopeAssumption
  <2> QED
    BY <2>1, <2>2, <2>3, <2>4, GenPlainKeeps
<1> QED
  BY <1>1, <1>2, <1>3

(* An item that opens a block, whose variables get their places.           *)
LEMMA GenOpenKeeps ==
  ASSUME ScopeInv, phase = "generate", pos <= Len(text), Opener(text, pos),
         NEW R, R = ReopenScope(table), NEW U, Step(U, NULL), OnlyPlaces(R, U),
         \A j \in DOMAIN U.all[R.current].syms :
           U.all[R.current].syms[j].place =
             IF U.all[R.current].syms[j].by[2] # 0
             THEN <<"arg", U.all[R.current].syms[j].by[2] - 1>>
             ELSE <<"local", Around(offsets) + 4 * (U.all[R.current].syms[j].by[1] - pos)>>,
         offsets' = Append(offsets, Around(offsets) + 4 * Cardinality(Locals(pos)))
  PROVE  ScopeInv'
<1>1. PICK t, T : t = text /\ T = table
  OBVIOUS
<1>2. /\ t \in Texts /\ Len(t) \in Nat /\ Grammatical(t)
      /\ pos \in 1 .. Len(t) /\ pos - 1 \in 0 .. Len(t) /\ Opener(t, pos)
      /\ Good(T, t, checked) /\ T \in Table /\ ScopesOf(T, t) /\ SymbolsOf(T, t)
      /\ CurrentAt(T, t, pos - 1) /\ ReopenedTo(T, pos - 1)
      /\ Placed(T, offsets, pos - 1)
  BY <1>1, GenState
<1>3. /\ phase' = "generate" /\ text' = text /\ checked' = checked
      /\ anyError' = anyError /\ pos' = pos + 1 /\ table' = U
      /\ generated' = Append(generated, NULL)
  BY DEF Step
<1>4. /\ R \in Table /\ R.all = T.all /\ CurrentAt(R, t, pos) /\ ReopenedTo(R, pos)
  BY <1>1, <1>2, ReopenScopeKeeps
<1>5. ScopesOf(R, t) /\ SymbolsOf(R, t)
  <2>1. R.all = T.all /\ ScopesOf(T, t) /\ SymbolsOf(T, t)
    BY <1>2, <1>4
  <2>2. ScopesOf(R, t)
    BY <2>1 DEF ScopesOf
  <2>3. SymbolsOf(R, t)
    BY <2>1, SMTT(30) DEF SymbolsOf, Holds
  <2> QED
    BY <2>2, <2>3
<1>6. U \in Table /\ ScopesOf(U, t) /\ SymbolsOf(U, t) /\ CurrentAt(U, t, pos)
  BY <1>4, <1>5, OnlyPlacesKeep DEF OnlyPlaces
<1>7. SameScopes(R, U) /\ OthersSame(R, U, R.current)
  BY DEF OnlyPlaces
<1>8. ReopenedTo(U, pos)
  BY <1>4, <1>7 DEF ReopenedTo, SameScopes
<1>9. R.current \in 1 .. Len(T.all) /\ T.all[R.current].by = pos
  <2>1. Innermost(t, pos) = pos
    BY <1>2, OpenAfterOpener
  <2> QED
    BY <1>4, <2>1 DEF CurrentAt
<1>10. \A i \in 1 .. Len(T.all) : T.all[i].by = pos => i = R.current
  BY <1>2, <1>9, ScopesApart
<1>11. /\ Len(U.all) = Len(T.all)
       /\ \A i \in 1 .. Len(T.all) : U.all[i].by = T.all[i].by
       /\ OthersSame(T, U, R.current)
  BY <1>4, <1>7 DEF SameScopes, OthersSame
<1>12. Placed(U, Append(offsets, Around(offsets) + 4 * Cardinality(Locals(pos))), pos)
  <2>1. PICK c : c = R.current
    OBVIOUS
  <2>2. /\ c \in 1 .. Len(T.all) /\ T.all[c].by = pos
        /\ \A i \in 1 .. Len(T.all) : T.all[i].by = pos => i = c
        /\ OthersSame(T, U, c)
    BY <1>9, <1>10, <1>11, <2>1
  <2>3. \A j \in DOMAIN U.all[c].syms :
          U.all[c].syms[j].place =
            IF U.all[c].syms[j].by[2] # 0 THEN <<"arg", U.all[c].syms[j].by[2] - 1>>
            ELSE <<"local", Around(offsets) + 4 * (U.all[c].syms[j].by[1] - pos)>>
    BY <2>1
  <2>4. /\ text \in Texts /\ Grammatical(text) /\ pos \in 1 .. Len(text)
        /\ Opener(text, pos) /\ Placed(T, offsets, pos - 1)
    BY <1>1, <1>2
  <2> QED
    BY <1>11, <2>2, <2>3, <2>4, PlacedOpen
<1>13. Binding(text, pos) = NULL
  <2>1. Mentions(text, pos) = NULL
    BY MentionsOf DEF Opener
  <2> QED
    BY <2>1 DEF Binding
<1>14. /\ table' \in Table /\ ScopesOf(table', text) /\ SymbolsOf(table', text)
       /\ CurrentAt(table', text, pos) /\ ReopenedTo(table', pos)
       /\ Placed(table', offsets', pos)
  BY <1>1, <1>3, <1>6, <1>8, <1>12
<1> QED
  BY <1>3, <1>13, <1>14, GenKeeps

LEMMA GenFunctionKeeps ==
  ASSUME ScopeInv, GenFunction
  PROVE  ScopeInv'
<1>1. PICK R, P, U : /\ R = ReopenScope(table) /\ P = PlaceParams(R, text[pos].params)
                     /\ U = PlaceLocals(P, pos, 0)
  OBVIOUS
<1>2. /\ phase = "generate" /\ pos <= Len(text) /\ text[pos].k = "function"
      /\ Step(U, NULL) /\ offsets' = <<Depth(pos, 0)>> /\ Opener(text, pos)
  BY <1>1 DEF GenFunction, At, Opener
<1>3. /\ text \in Texts /\ Len(text) \in Nat /\ Grammatical(text)
      /\ pos \in 1 .. Len(text) /\ pos - 1 \in 0 .. Len(text)
      /\ DOMAIN text = 1 .. Len(text)
      /\ Good(table, text, checked) /\ table \in Table /\ ScopesOf(table, text)
      /\ ReopenedTo(table, pos - 1) /\ Placed(table, offsets, pos - 1)
  BY <1>2, GenState
<1>4. /\ R \in Table /\ R.all = table.all /\ CurrentAt(R, text, pos)
  <2>1. PICK t, T : t = text /\ T = table
    OBVIOUS
  <2>2. R = ReopenScope(T) /\ T \in Table /\ t \in Texts /\ Grammatical(t)
        /\ ScopesOf(T, t) /\ pos \in 1 .. Len(t) /\ Opener(t, pos) /\ ReopenedTo(T, pos - 1)
    BY <1>1, <1>2, <1>3, <2>1
  <2> QED
    BY <2>1, <2>2, ReopenScopeKeeps
<1>5. Good(R, text, checked)
  BY <1>3, <1>4 DEF Good, ScopesOf, SymbolsOf, Holds
<1>6. /\ OnlyPlaces(R, P)
      /\ \A j \in DOMAIN R.all[R.current].syms :
           R.all[R.current].syms[j].by[2] # 0 =>
             P.all[R.current].syms[j].place = <<"arg", R.all[R.current].syms[j].by[2] - 1>>
  BY <1>1, <1>2, <1>3, <1>4, <1>5, PlaceParamsKeeps
<1>7. P \in Table /\ Good(P, text, checked) /\ CurrentAt(P, text, pos)
  <2>1. ScopesOf(R, text) /\ SymbolsOf(R, text)
    BY <1>5 DEF Good
  <2>2. PICK t : t = text
    OBVIOUS
  <2>3. ScopesOf(P, t) /\ SymbolsOf(P, t) /\ CurrentAt(P, t, pos)
    BY <1>4, <1>6, <2>1, <2>2, OnlyPlacesKeep
  <2>4. P \in Table
    BY <1>6 DEF OnlyPlaces
  <2> QED
    BY <1>5, <2>2, <2>3, <2>4 DEF Good
<1>8. /\ OnlyPlaces(P, U)
      /\ \A j \in DOMAIN P.all[P.current].syms :
           U.all[P.current].syms[j].place =
             IF P.all[P.current].syms[j].by[2] # 0 THEN P.all[P.current].syms[j].place
             ELSE <<"local", 0 + 4 * (P.all[P.current].syms[j].by[1] - pos)>>
  <2>1. PICK o \in Nat : o = 0
    OBVIOUS
  <2>2. /\ OnlyPlaces(P, PlaceLocals(P, pos, o))
        /\ \A j \in DOMAIN P.all[P.current].syms :
             PlaceLocals(P, pos, o).all[P.current].syms[j].place =
               IF P.all[P.current].syms[j].by[2] # 0 THEN P.all[P.current].syms[j].place
               ELSE <<"local", o + 4 * (P.all[P.current].syms[j].by[1] - pos)>>
    BY <1>2, <1>3, <1>7, PlaceLocalsKeeps
  <2>3. U = PlaceLocals(P, pos, o)
    BY <1>1, <2>1
  <2> QED
    BY <2>1, <2>2, <2>3
<1>9. OnlyPlaces(R, U) /\ P.current = R.current /\ R.current \in 1 .. Len(R.all)
      /\ Len(P.all) = Len(R.all)
  BY <1>4, <1>6, <1>8, OnlyPlacesTrans DEF OnlyPlaces, SameScopes, CurrentAt
<1>10. Len(offsets) = 0 /\ offsets \in Seq(Nat)
  <2>1. Level(text)[pos - 1] = 0
    BY <1>2, <1>3 DEF Grammatical
  <2> QED
    BY <1>3, <2>1 DEF Placed
<1>11. Around(offsets) = 0
  BY <1>10 DEF Around
<1>12. ASSUME NEW j \in DOMAIN U.all[R.current].syms
       PROVE  U.all[R.current].syms[j].place =
                IF U.all[R.current].syms[j].by[2] # 0
                THEN <<"arg", U.all[R.current].syms[j].by[2] - 1>>
                ELSE <<"local", Around(offsets) + 4 * (U.all[R.current].syms[j].by[1] - pos)>>
  <2>1. PICK c : c = R.current
    OBVIOUS
  <2>2. SameSymbols(R, P) /\ SameSymbols(P, U)
    BY <1>6, <1>8 DEF OnlyPlaces
  <2>3. /\ j \in DOMAIN P.all[c].syms /\ j \in DOMAIN R.all[c].syms
        /\ P.all[c].syms[j].by = R.all[c].syms[j].by
        /\ U.all[c].syms[j].by = P.all[c].syms[j].by
    BY <1>9, <1>12, <2>1, <2>2, SMTT(30) DEF SameSymbols
  <2>4. /\ U.all[c].syms[j].place =
             IF P.all[c].syms[j].by[2] # 0 THEN P.all[c].syms[j].place
             ELSE <<"local", 0 + 4 * (P.all[c].syms[j].by[1] - pos)>>
        /\ R.all[c].syms[j].by[2] # 0 =>
             P.all[c].syms[j].place = <<"arg", R.all[c].syms[j].by[2] - 1>>
    BY <1>6, <1>8, <1>9, <2>1, <2>3
  <2> QED
    BY <1>11, <2>1, <2>3, <2>4
<1>13. offsets' = Append(offsets, Around(offsets) + 4 * Cardinality(Locals(pos)))
  <2>1. PICK N : N = 0 + 4 * Cardinality(Locals(pos))
    OBVIOUS
  <2>2. offsets' = <<N>> /\ offsets = << >>
    BY <1>2, <1>10, <2>1 DEF Depth
  <2>3. Append(offsets, N) = <<N>>
    BY <2>2
  <2> QED
    BY <1>11, <2>1, <2>2, <2>3
<1> QED
  BY <1>1, <1>2, <1>9, <1>12, <1>13, GenOpenKeeps

LEMMA GenBlockKeeps ==
  ASSUME ScopeInv, GenBlock
  PROVE  ScopeInv'
<1>1. PICK R, U : R = ReopenScope(table) /\ U = PlaceLocals(R, pos, Last(offsets))
  OBVIOUS
<1>2. /\ phase = "generate" /\ pos <= Len(text) /\ text[pos].k = "block"
      /\ Step(U, NULL) /\ offsets' = Append(offsets, Depth(pos, Last(offsets)))
      /\ Opener(text, pos)
  BY <1>1 DEF GenBlock, At, Opener
<1>3. /\ text \in Texts /\ Len(text) \in Nat /\ Grammatical(text)
      /\ pos \in 1 .. Len(text) /\ pos - 1 \in 0 .. Len(text)
      /\ DOMAIN text = 1 .. Len(text)
      /\ Good(table, text, checked) /\ table \in Table /\ ScopesOf(table, text)
      /\ ReopenedTo(table, pos - 1) /\ Placed(table, offsets, pos - 1)
  BY <1>2, GenState
<1>4. /\ R \in Table /\ R.all = table.all /\ CurrentAt(R, text, pos)
  <2>1. PICK t, T : t = text /\ T = table
    OBVIOUS
  <2>2. R = ReopenScope(T) /\ T \in Table /\ t \in Texts /\ Grammatical(t)
        /\ ScopesOf(T, t) /\ pos \in 1 .. Len(t) /\ Opener(t, pos) /\ ReopenedTo(T, pos - 1)
    BY <1>1, <1>2, <1>3, <2>1
  <2> QED
    BY <2>1, <2>2, ReopenScopeKeeps
<1>5. Good(R, text, checked)
  BY <1>3, <1>4 DEF Good, ScopesOf, SymbolsOf, Holds
<1>6. Len(offsets) # 0 /\ offsets \in Seq(Nat)
  <2>1. Level(text)[pos - 1] >= 1
    BY <1>2, <1>3 DEF Grammatical
  <2> QED
    BY <1>3, <2>1 DEF Placed
<1>7. Last(offsets) = Around(offsets) /\ Last(offsets) \in Nat
  BY <1>6 DEF Around, Last
<1>8. /\ OnlyPlaces(R, U)
      /\ \A j \in DOMAIN R.all[R.current].syms :
           U.all[R.current].syms[j].place =
             IF R.all[R.current].syms[j].by[2] # 0 THEN R.all[R.current].syms[j].place
             ELSE <<"local", Last(offsets) + 4 * (R.all[R.current].syms[j].by[1] - pos)>>
  <2>1. PICK o \in Nat : o = Last(offsets)
    BY <1>7
  <2>2. U = PlaceLocals(R, pos, o)
    BY <1>1, <2>1
  <2>3. /\ OnlyPlaces(R, PlaceLocals(R, pos, o))
        /\ \A j \in DOMAIN R.all[R.current].syms :
             PlaceLocals(R, pos, o).all[R.current].syms[j].place =
               IF R.all[R.current].syms[j].by[2] # 0 THEN R.all[R.current].syms[j].place
               ELSE <<"local", o + 4 * (R.all[R.current].syms[j].by[1] - pos)>>
    BY <1>2, <1>3, <1>4, <1>5, PlaceLocalsKeeps
  <2> QED
    BY <2>1, <2>2, <2>3
<1>9. R.current \in 1 .. Len(R.all) /\ R.all[R.current].by = pos
  <2>1. PICK t : t = text
    OBVIOUS
  <2>2. Innermost(t, pos) = pos
    BY <1>2, <1>3, <2>1, OpenAfterOpener
  <2> QED
    BY <1>4, <2>1, <2>2 DEF CurrentAt
<1>10. \A j \in DOMAIN R.all[R.current].syms : R.all[R.current].syms[j].by[2] = 0
  <2> TAKE j \in DOMAIN R.all[R.current].syms
  <2>1. R.all[R.current].by # 0 /\ text[R.all[R.current].by].k # "function"
    BY <1>2, <1>3, <1>9
  <2>2. PICK c : c = R.current
    OBVIOUS
  <2>3. c \in 1 .. Len(R.all) /\ R.all[c].by # 0 /\ j \in DOMAIN R.all[c].syms
        /\ text[R.all[c].by].k # "function"
    BY <1>9, <2>1, <2>2
  <2>4. R.all[c].syms[j].by[2] = 0
    BY <1>4, <1>5, <2>3, SymbolInBlock
  <2> QED
    BY <2>2, <2>4
<1>11. ASSUME NEW j \in DOMAIN U.all[R.current].syms
       PROVE  U.all[R.current].syms[j].place =
                IF U.all[R.current].syms[j].by[2] # 0
                THEN <<"arg", U.all[R.current].syms[j].by[2] - 1>>
                ELSE <<"local", Around(offsets) + 4 * (U.all[R.current].syms[j].by[1] - pos)>>
  <2>1. SameSymbols(R, U)
    BY <1>8 DEF OnlyPlaces
  <2>2. /\ j \in DOMAIN R.all[R.current].syms
        /\ U.all[R.current].syms[j].by = R.all[R.current].syms[j].by
    BY <1>9, <1>11, <2>1 DEF SameSymbols
  <2> QED
    BY <1>7, <1>8, <1>10, <2>2
<1>12. offsets' = Append(offsets, Around(offsets) + 4 * Cardinality(Locals(pos)))
  BY <1>2, <1>7 DEF Depth
<1> QED
  BY <1>1, <1>2, <1>8, <1>11, <1>12, GenOpenKeeps

LEMMA GenCloseKeeps ==
  ASSUME ScopeInv, GenClose
  PROVE  ScopeInv'
<1>1. PICK t, T, U : t = text /\ T = table /\ U = CloseScope(T)
  OBVIOUS
<1>2. /\ phase = "generate" /\ pos <= Len(text) /\ text[pos].k = "close"
      /\ Step(U, NULL) /\ offsets' = Front(offsets)
  BY <1>1 DEF GenClose, At
<1>3. /\ t \in Texts /\ Len(t) \in Nat /\ Grammatical(t)
      /\ pos \in 1 .. Len(t) /\ pos - 1 \in 0 .. Len(t) /\ t[pos].k = "close"
      /\ Good(T, t, checked) /\ T \in Table /\ ScopesOf(T, t) /\ SymbolsOf(T, t)
      /\ CurrentAt(T, t, pos - 1) /\ ReopenedTo(T, pos - 1)
      /\ Placed(T, offsets, pos - 1)
  BY <1>1, <1>2, GenState
<1>4. /\ phase' = "generate" /\ text' = text /\ checked' = checked
      /\ anyError' = anyError /\ pos' = pos + 1 /\ table' = U
      /\ generated' = Append(generated, NULL)
  BY <1>2 DEF Step
<1>5. U \in Table /\ U.all = T.all /\ U.this = T.this /\ CurrentAt(U, t, pos)
  BY <1>1, <1>3, CloseScopeKeeps
<1>6. ScopesOf(U, t) /\ SymbolsOf(U, t)
  BY <1>3, <1>5 DEF ScopesOf, SymbolsOf, Holds
<1>7. ReopenedTo(U, pos)
  <2>1. \A i \in 1 .. Len(T.all) : T.all[i].by \in Nat /\ T.all[i].by # pos
    <3> SUFFICES ASSUME NEW i \in 1 .. Len(T.all)
                 PROVE  T.all[i].by \in Nat /\ T.all[i].by # pos
      OBVIOUS
    <3>1. T.all[i].by \in Nat
      BY <1>3, ScopesApart
    <3>2. i = 1 \/ i \in 2 .. Len(T.all)
      OBVIOUS
    <3>3. pos # 0 /\ ~ Opener(t, pos)
      BY <1>3 DEF Opener
    <3> QED
      BY <1>3, <3>1, <3>2, <3>3 DEF ScopesOf
  <2>2. pos \in Nat
    BY <1>3
  <2>3. \A i \in 1 .. Len(T.all) : T.all[i].by <= pos - 1 <=> T.all[i].by <= pos
    BY <2>1, <2>2
  <2> QED
    BY <1>3, <1>5, <2>3 DEF ReopenedTo
<1>8. Placed(U, Front(offsets), pos)
  BY <1>1, <1>3, <1>5, PlacedClose
<1>9. Binding(text, pos) = NULL
  <2>1. Mentions(text, pos) = NULL
    BY <1>2, MentionsOf
  <2> QED
    BY <2>1 DEF Binding
<1>10. /\ table' \in Table /\ ScopesOf(table', text) /\ SymbolsOf(table', text)
       /\ CurrentAt(table', text, pos) /\ ReopenedTo(table', pos)
       /\ Placed(table', offsets', pos)
  BY <1>1, <1>2, <1>4, <1>5, <1>6, <1>7, <1>8
<1> QED
  BY <1>2, <1>4, <1>9, <1>10, GenKeeps

-----------------------------------------------------------------------------
LEMMA EndGenerateKeeps ==
  ASSUME ScopeInv, EndGenerate
  PROVE  ScopeInv'
<1>1. /\ phase = "generate" /\ phase' = "done"
      /\ text' = text /\ table' = table /\ anyError' = anyError
      /\ checked' = checked /\ generated' = generated
  BY DEF EndGenerate, genVars
<1>2. ErrorInv' /\ TableInv' /\ CheckInv' /\ ReplayInv' /\ PlaceInv'
  BY <1>1 DEF ScopeInv, ErrorInv, TableInv, CheckInv, ReplayInv, PlaceInv
<1>3. SameSymbol'
  BY <1>1 DEF ScopeInv, SameSymbol, DeclaredLater
<1> QED
  BY <1>2, <1>3 DEF ScopeInv

(* Every step of either pass keeps the invariant.  *)
LEMMA ScopeStep ==
  ScopeInv /\ [Next]_vars => ScopeInv'
<1> SUFFICES ASSUME ScopeInv, [Next]_vars
             PROVE  ScopeInv'
  OBVIOUS
<1>1. CASE Check
  <2>1. ASSUME NEW x \in Name, DeclGlobal(x)
        PROVE  ScopeInv'
    BY <2>1, DeclGlobalKeeps
  <2>2. ASSUME NEW x \in Name, NEW params \in ParamLists, DeclFunction(x, params)
        PROVE  ScopeInv'
    BY <2>2, DeclFunctionKeeps
  <2>3. ASSUME NEW x \in Name, NEW init \in Name \cup {NULL}, DeclLocal(x, init)
        PROVE  ScopeInv'
    BY <2>3, DeclLocalKeeps
  <2>4. ASSUME NEW x \in Name, Use(x)
        PROVE  ScopeInv'
    <3>1. Refer("use", "variable", x)
      BY <2>4 DEF Use
    <3> QED
      BY <3>1, ReferKeeps
  <2>5. ASSUME NEW x \in Name, Call(x)
        PROVE  ScopeInv'
    <3>1. Refer("call", "function", x)
      BY <2>5 DEF Call
    <3> QED
      BY <3>1, ReferKeeps
  <2>6. CASE OpenBlock
    BY <2>6, OpenBlockKeeps
  <2>7. CASE CloseBlock
    BY <2>7, CloseBlockKeeps
  <2>8. CASE EndCheck
    BY <2>8, EndCheckKeeps
  <2> QED
    BY <1>1, <2>1, <2>2, <2>3, <2>4, <2>5, <2>6, <2>7, <2>8 DEF Check
<1>2. CASE Generate
  <2>1. CASE GenGlobal \/ GenLocal \/ GenUse \/ GenCall
    BY <2>1, GenItemKeeps
  <2>2. CASE GenFunction
    BY <2>2, GenFunctionKeeps
  <2>3. CASE GenBlock
    BY <2>3, GenBlockKeeps
  <2>4. CASE GenClose
    BY <2>4, GenCloseKeeps
  <2>5. CASE EndGenerate
    BY <2>5, EndGenerateKeeps
  <2> QED
    BY <1>2, <2>1, <2>2, <2>3, <2>4, <2>5 DEF Generate
<1>3. CASE UNCHANGED vars
  <2>1. /\ phase' = phase /\ text' = text /\ table' = table /\ anyError' = anyError
        /\ declaring' = declaring /\ checked' = checked /\ pos' = pos
        /\ generated' = generated /\ offsets' = offsets
    BY <1>3 DEF vars
  <2>2. ErrorInv' /\ TableInv'
    BY <2>1 DEF ScopeInv, ErrorInv, TableInv
  <2>3. CheckInv' /\ ReplayInv'
    BY <2>1 DEF ScopeInv, CheckInv, ReplayInv, Inside
  <2>4. PlaceInv'
    <3>1. \A h : Locals(h)' = Locals(h)
      BY <2>1 DEF Locals
    <3> QED
      BY <2>1, <3>1 DEF ScopeInv, PlaceInv, Placed, PlaceIn
  <2>5. SameSymbol'
    BY <2>1 DEF ScopeInv, SameSymbol, DeclaredLater
  <2> QED
    BY <2>2, <2>3, <2>4, <2>5 DEF ScopeInv
<1> QED
  BY <1>1, <1>2, <1>3 DEF Next, Exited

(* The inductive invariant: the table holds the scopes of the text and its *)
(* declarations, the second pass is in the scope that the first was in at  *)
(* the same item, and every variable that a statement can name has the     *)
(* place that its block and its position in the block give it.             *)
THEOREM ScopesHold == Spec => []ScopeInv
<1> QED
  BY ScopeInit, ScopeStep, PTL DEF Spec

(* The semantic analysis lets through exactly the programs in which every  *)
(* name is declared, once in its block, and used as what it is.            *)
THEOREM AcceptsWellScopedHolds == Spec => []AcceptsWellScoped
<1>1. ScopeInv => AcceptsWellScoped
  <2> SUFFICES ASSUME ScopeInv
               PROVE  AcceptsWellScoped
    OBVIOUS
  <2>1. phase = "failed" => ~ WellScoped(text)
    BY DEF ScopeInv, ErrorInv
  <2>2. Accepted => WellScoped(text)
    BY DEF Accepted, ScopeInv, ErrorInv, TableInv, Good
  <2> QED
    BY <2>1, <2>2 DEF AcceptsWellScoped
<1> QED
  BY <1>1, ScopesHold, PTL

(* What ccmmc_symbol_table_retrieve finds during the check is the          *)
(* innermost declaration of the name in a block that is still open.        *)
THEOREM CheckedLexicallyHolds == Spec => []CheckedLexically
<1>1. ScopeInv => CheckedLexically
  <2> SUFFICES ASSUME ScopeInv, Accepted
               PROVE  \A k \in DOMAIN checked : checked[k] = Binding(text, k)
    BY DEF CheckedLexically
  <2>1. Good(table, text, checked)
    BY DEF Accepted, ScopeInv, ErrorInv, TableInv
  <2>2. DOMAIN checked = 1 .. Len(text)
    BY <2>1 DEF Good
  <2> QED
    BY <2>1, <2>2 DEF Good
<1> QED
  BY <1>1, ScopesHold, PTL

(* ccmmc_symbol_table_reopen_scope opens the scopes again in step with the *)
(* blocks of the program, and at its end none is left over.                *)
THEOREM ReplayInStepHolds == Spec => []ReplayInStep
<1>1. ScopeInv => ReplayInStep
  <2> SUFFICES ASSUME ScopeInv, phase = "generate"
               PROVE  /\ table.current # 0
                      /\ table.all[table.current].by = Innermost(text, pos - 1)
                      /\ pos > Len(text) => table.this = Len(table.all)
    BY DEF ReplayInStep
  <2>1. /\ pos \in 1 .. Len(text) + 1
        /\ CurrentAt(table, text, pos - 1) /\ ReopenedTo(table, pos - 1)
        /\ Good(table, text, checked)
    BY DEF ScopeInv, ErrorInv, TableInv, ReplayInv
  <2>2. table \in Table /\ text \in Texts /\ ScopesOf(table, text)
    BY <2>1 DEF Good
  <2>3. Len(text) \in Nat /\ Len(table.all) \in Nat
    BY <2>2, TextType, TableType
  <2>4. table.current # 0 /\ table.all[table.current].by = Innermost(text, pos - 1)
    BY <2>1, <2>3 DEF CurrentAt
  <2>5. ASSUME pos > Len(text)
        PROVE  table.this = Len(table.all)
    <3>1. pos - 1 = Len(text)
      BY <2>1, <2>3, <2>5
    <3>2. PICK N : N = Len(table.all)
      OBVIOUS
    <3>3. N \in 1 .. N /\ (N = 1 \/ N \in 2 .. N)
      <4>1. N \in Nat /\ N >= 1
        BY <2>2, <2>3, <3>2 DEF ScopesOf
      <4> QED
        BY <4>1
    <3>4. table.all[N].by <= Len(text)
      BY <2>2, <2>3, <3>2, <3>3 DEF ScopesOf
    <3>5. N <= table.this /\ table.this \in 0 .. N
      BY <2>1, <3>1, <3>2, <3>3, <3>4 DEF ReopenedTo
    <3> QED
      BY <2>3, <3>2, <3>5
  <2> QED
    BY <2>4, <2>5
<1> QED
  BY <1>1, ScopesHold, PTL

(* The code generation finds the symbol that the check found, but for the  *)
(* initialisers of a list of declarations that name one further on in it.  *)
THEOREM SameSymbolHolds == Spec => []SameSymbol
<1>1. ScopeInv => SameSymbol
  BY DEF ScopeInv
<1> QED
  BY <1>1, ScopesHold, PTL

-----------------------------------------------------------------------------
(* The place of a variable of block h, as its item and its index give it.  *)
PlaceFits(sym, depths, h) ==
  LET v == Level(text)[h]
      m == sym.by[1]
      q == sym.by[2]
  IN /\ h \in 1 .. Len(text) /\ v \in 1 .. Len(depths) /\ Base(depths, v) \in Nat
     /\ q \in Nat
     /\ q # 0 =>
          sym.place = <<"arg", q - 1>> /\ sym.name = text[h].params[q] /\ v = 1
     /\ q = 0 =>
          /\ sym.place = <<"local", Base(depths, v) + 4 * (m - h)>>
          /\ sym.name = text[m].name
          /\ m \in Nat /\ m - h \in Nat /\ m - h >= 1
          /\ Base(depths, v) + 4 * (m - h) <= depths[v]

LEMMA PlaceOf ==
  ASSUME NEW T \in Table, NEW c, Good(T, text, c), NEW k \in 0 .. Len(text),
         NEW depths, Placed(T, depths, k),
         NEW i \in 1 .. Len(T.all), T.all[i].by \in OpenBlocks(text, k),
         NEW j \in DOMAIN T.all[i].syms
  PROVE  PlaceFits(T.all[i].syms[j], depths, T.all[i].by)
<1>1. PICK t, h, v, m, q : /\ t = text /\ h = T.all[i].by /\ v = Level(text)[h]
                           /\ m = T.all[i].syms[j].by[1] /\ q = T.all[i].syms[j].by[2]
  OBVIOUS
<1>2. /\ t \in Texts /\ Grammatical(t) /\ Len(t) \in Nat /\ k \in 0 .. Len(t)
      /\ h \in OpenBlocks(t, k) /\ DOMAIN t = 1 .. Len(t)
  BY <1>1, TextType DEF Good
<1>3. h \in 1 .. k /\ Level(t)[h] \in 1 .. Level(t)[k] /\ Opener(t, h)
  BY <1>2, OpenLevels
<1>4. h \in 1 .. Len(text) /\ h # 0 /\ h \in Nat /\ T.all[i].by # 0
  BY <1>1, <1>2, <1>3
<1>5. /\ depths \in Seq(Nat) /\ Len(depths) = Level(t)[k]
      /\ depths[v] = Base(depths, v) + 4 * Cardinality(Locals(h))
      /\ T.all[i].syms[j].place = PlaceIn(depths, h, T.all[i].syms[j].by)
  BY <1>1 DEF Placed
<1>6. v \in 1 .. Len(depths)
  BY <1>1, <1>3, <1>5
<1>7. Base(depths, v) \in Nat
  <2>1. v # 1 => v - 1 \in 1 .. Len(depths)
    BY <1>5, <1>6
  <2>2. \A w \in 1 .. Len(depths) : depths[w] \in Nat
    BY <1>5, SMTT(30)
  <2> QED
    BY <2>1, <2>2 DEF Base
<1>8. /\ T.all[i].syms[j] \in Symbol
      /\ \/ /\ q # 0 /\ m = h
            /\ text[h].k = "function"
            /\ T.all[i].syms[j].name = text[h].params[q]
         \/ /\ q = 0 /\ m \in Locals(h)
            /\ T.all[i].syms[j].name = text[m].name
  BY <1>1, <1>4, SymbolInBlock
<1>9. q \in Nat /\ m \in Nat
  <2>1. PICK by : by = T.all[i].syms[j].by
    OBVIOUS
  <2>2. by \in Nat \X Nat
    BY <1>8, <2>1 DEF Symbol
  <2>3. by[1] \in Nat /\ by[2] \in Nat
    BY <2>2
  <2> QED
    BY <1>1, <2>1, <2>3
<1>10. ASSUME q # 0
       PROVE  /\ T.all[i].syms[j].place = <<"arg", q - 1>>
              /\ T.all[i].syms[j].name = text[h].params[q]
              /\ v = 1
  <2>1. t[h].k = "function"
    BY <1>1, <1>8, <1>10
  <2>2. Level(t)[h - 1] = 0 /\ Level(t)[h] = Level(t)[h - 1] + 1
    BY <1>1, <1>2, <1>3, <1>4, <2>1, LevelStep DEF Grammatical
  <2>3. T.all[i].syms[j].place = <<"arg", q - 1>>
    BY <1>1, <1>5, <1>10 DEF PlaceIn
  <2>4. v = 1
    BY <1>1, <2>2
  <2> QED
    BY <1>8, <1>10, <2>3, <2>4
<1>11. ASSUME q = 0
       PROVE  /\ T.all[i].syms[j].place = <<"local", Base(depths, v) + 4 * (m - h)>>
              /\ T.all[i].syms[j].name = text[m].name
              /\ m - h \in Nat /\ m - h >= 1
              /\ Base(depths, v) + 4 * (m - h) <= depths[v]
  <2>1. PICK N \in Nat : Locals(h) = h + 1 .. h + N /\ Cardinality(Locals(h)) = N
    BY <1>1, <1>2, <1>4, LocalsAre
  <2>2. m \in h + 1 .. h + N
    BY <1>8, <1>11, <2>1
  <2>3. m - h \in Nat /\ m - h >= 1 /\ m - h <= N
    BY <1>4, <1>9, <2>1, <2>2
  <2>4. PICK b \in Nat, x \in Nat : b = Base(depths, v) /\ x = m - h
    BY <1>7, <2>3
  <2>5. b + 4 * x <= b + 4 * N
    BY <2>3, <2>4
  <2>6. T.all[i].syms[j].place = <<"local", Base(depths, v) + 4 * (m - h)>>
    BY <1>1, <1>5, <1>11 DEF PlaceIn
  <2> QED
    BY <1>5, <1>8, <1>11, <2>1, <2>3, <2>4, <2>5, <2>6
<1> QED
  BY <1>1, <1>4, <1>6, <1>7, <1>9, <1>10, <1>11 DEF PlaceFits

(* Variables of two blocks, one in the other, are not in the same place.   *)
LEMMA PlacesOfBlocks ==
  ASSUME NEW T \in Table, NEW c, Good(T, text, c), NEW k \in 0 .. Len(text),
         NEW depths, Placed(T, depths, k),
         NEW i \in 1 .. Len(T.all), T.all[i].by \in OpenBlocks(text, k),
         NEW j \in DOMAIN T.all[i].syms,
         NEW l \in 1 .. Len(T.all), T.all[l].by \in OpenBlocks(text, k),
         NEW r \in DOMAIN T.all[l].syms,
         T.all[i].by < T.all[l].by
  PROVE  T.all[i].syms[j].place # T.all[l].syms[r].place
<1>1. PICK t, h, v, m, q : /\ t = text /\ h = T.all[i].by /\ v = Level(text)[h]
                           /\ m = T.all[i].syms[j].by[1] /\ q = T.all[i].syms[j].by[2]
  OBVIOUS
<1>2. PICK h2, v2, m2, q2 : /\ h2 = T.all[l].by /\ v2 = Level(text)[h2]
                            /\ m2 = T.all[l].syms[r].by[1] /\ q2 = T.all[l].syms[r].by[2]
  OBVIOUS
<1>3. /\ h \in 1 .. Len(text) /\ v \in 1 .. Len(depths) /\ Base(depths, v) \in Nat
      /\ q # 0 => /\ T.all[i].syms[j].place = <<"arg", q - 1>> /\ v = 1
      /\ q = 0 =>
           /\ T.all[i].syms[j].place = <<"local", Base(depths, v) + 4 * (m - h)>>
           /\ m - h \in Nat /\ m - h >= 1
           /\ Base(depths, v) + 4 * (m - h) <= depths[v]
  <2>1. PlaceFits(T.all[i].syms[j], depths, T.all[i].by)
    BY PlaceOf
  <2> QED
    BY <1>1, <2>1 DEF PlaceFits
<1>4. /\ h2 \in 1 .. Len(text) /\ v2 \in 1 .. Len(depths) /\ Base(depths, v2) \in Nat
      /\ q2 # 0 => /\ T.all[l].syms[r].place = <<"arg", q2 - 1>> /\ v2 = 1
      /\ q2 = 0 =>
           /\ T.all[l].syms[r].place = <<"local", Base(depths, v2) + 4 * (m2 - h2)>>
           /\ m2 - h2 \in Nat /\ m2 - h2 >= 1
  <2>1. PlaceFits(T.all[l].syms[r], depths, T.all[l].by)
    BY PlaceOf
  <2> QED
    BY <1>2, <2>1 DEF PlaceFits
<1>5. v < v2
  <2>1. /\ t \in Texts /\ Grammatical(t) /\ k \in 0 .. Len(t)
        /\ h \in OpenBlocks(t, k) /\ h2 \in OpenBlocks(t, k) /\ h < h2
    BY <1>1, <1>2 DEF Good
  <2> QED
    BY <1>1, <1>2, <2>1, OpenLevels
<1>6. /\ depths \in Seq(Nat) /\ Len(depths) \in Nat
      /\ \A a, b \in 1 .. Len(depths) : a <= b => depths[a] <= depths[b]
  BY DEF Placed
<1>7. v2 # 1
  BY <1>3, <1>4, <1>5, <1>6
<1>8. CASE q # 0
  BY <1>3, <1>4, <1>7, <1>8
<1>9. CASE q = 0
  <2>1. v <= v2 - 1 /\ v2 - 1 \in 1 .. Len(depths)
    <3>1. v \in 1 .. Len(depths) /\ v2 \in 1 .. Len(depths) /\ Len(depths) \in Nat
      BY <1>3, <1>4, <1>6
    <3> QED
      BY <1>5, <3>1
  <2>2. Base(depths, v2) = depths[v2 - 1] /\ depths[v] <= depths[v2 - 1]
    BY <1>3, <1>6, <1>7, <2>1 DEF Base
  <2>3. PICK p, p2 : p = Base(depths, v) + 4 * (m - h) /\ p2 = Base(depths, v2) + 4 * (m2 - h2)
    OBVIOUS
  <2>4. depths[v] \in Nat /\ Base(depths, v2) \in Nat /\ p \in Nat
    <3>1. PICK b \in Nat, x \in Nat : b = Base(depths, v) /\ x = m - h
      BY <1>3, <1>9
    <3>2. p \in Nat
      BY <2>3, <3>1, SMTT(30)
    <3>3. \A w \in 1 .. Len(depths) : depths[w] \in Nat
      BY <1>6
    <3> QED
      BY <1>3, <1>4, <3>2, <3>3
  <2>5. p <= Base(depths, v2)
    BY <1>3, <1>9, <2>2, <2>3, <2>4, SMTT(30)
  <2>6. p2 \in Nat /\ Base(depths, v2) < p2
    <3>1. PICK b \in Nat, x \in Nat : b = Base(depths, v2) /\ x = m2 - h2 /\ x >= 1
      BY <1>4, <1>7
    <3>2. b + 4 * x \in Nat /\ b < b + 4 * x
      BY <3>1
    <3> QED
      BY <2>3, <3>1, <3>2
  <2>7. p # p2
    BY <2>4, <2>5, <2>6
  <2>8. T.all[i].syms[j].place = <<"local", p>>
    BY <1>3, <1>9, <2>3
  <2>9. T.all[l].syms[r].place = <<"local", p2>>
    BY <1>4, <1>7, <2>3
  <2> QED
    BY <2>7, <2>8, <2>9
<1> QED
  BY <1>8, <1>9

(* Two variables of the same block are not in the same place.  *)
LEMMA PlacesOfBlock ==
  ASSUME NEW T \in Table, NEW c, Good(T, text, c), NEW k \in 0 .. Len(text),
         NEW depths, Placed(T, depths, k),
         NEW i \in 1 .. Len(T.all), T.all[i].by \in OpenBlocks(text, k),
         NEW j \in DOMAIN T.all[i].syms, NEW r \in DOMAIN T.all[i].syms,
         T.all[i].syms[j].place = T.all[i].syms[r].place
  PROVE  j = r
<1>1. PICK h, v, m, q : /\ h = T.all[i].by /\ v = Level(text)[h]
                        /\ m = T.all[i].syms[j].by[1] /\ q = T.all[i].syms[j].by[2]
  OBVIOUS
<1>2. PICK m2, q2 : m2 = T.all[i].syms[r].by[1] /\ q2 = T.all[i].syms[r].by[2]
  OBVIOUS
<1>3. /\ h \in 1 .. Len(text) /\ Base(depths, v) \in Nat /\ q \in Nat
      /\ q # 0 => /\ T.all[i].syms[j].place = <<"arg", q - 1>>
                  /\ T.all[i].syms[j].name = text[h].params[q]
      /\ q = 0 =>
           /\ T.all[i].syms[j].place = <<"local", Base(depths, v) + 4 * (m - h)>>
           /\ T.all[i].syms[j].name = text[m].name
           /\ m \in Nat /\ m - h \in Nat
  <2>1. PlaceFits(T.all[i].syms[j], depths, T.all[i].by)
    BY PlaceOf
  <2> QED
    BY <1>1, <2>1 DEF PlaceFits
<1>4. /\ q2 \in Nat
      /\ q2 # 0 => /\ T.all[i].syms[r].place = <<"arg", q2 - 1>>
                   /\ T.all[i].syms[r].name = text[h].params[q2]
      /\ q2 = 0 =>
           /\ T.all[i].syms[r].place = <<"local", Base(depths, v) + 4 * (m2 - h)>>
           /\ T.all[i].syms[r].name = text[m2].name
           /\ m2 \in Nat /\ m2 - h \in Nat
  <2>1. PlaceFits(T.all[i].syms[r], depths, T.all[i].by)
    BY PlaceOf
  <2> QED
    BY <1>1, <1>2, <2>1 DEF PlaceFits
<1>5. T.all[i].syms[j].name = T.all[i].syms[r].name
  <2>1. CASE q # 0
    <3>1. q2 # 0 /\ <<"arg", q - 1>> = <<"arg", q2 - 1>>
      BY <1>3, <1>4, <2>1, SMTT(30)
    <3>2. q = q2
      <4>1. q - 1 = q2 - 1
        BY <3>1
      <4>2. q \in Nat /\ q2 \in Nat
        BY <1>3, <1>4
      <4> QED
        BY <4>1, <4>2
    <3> QED
      BY <1>3, <1>4, <2>1, <3>2
  <2>2. CASE q = 0
    <3>1. q2 = 0 /\ Base(depths, v) + 4 * (m - h) = Base(depths, v) + 4 * (m2 - h)
      BY <1>3, <1>4, <2>2
    <3>2. h \in Nat /\ m \in Nat /\ m2 \in Nat
      BY <1>3, <1>4, <2>2, <3>1
    <3>3. PICK b \in Nat : b = Base(depths, v)
      BY <1>3
    <3>4. m = m2
      BY <3>1, <3>2, <3>3
    <3> QED
      BY <1>3, <1>4, <2>2, <3>1, <3>4
  <2> QED
    BY <2>1, <2>2
<1>6. SymbolsOf(T, text)
  BY DEF Good
<1> QED
  BY <1>5, <1>6 DEF SymbolsOf, Holds

(* A scope that declares what is visible here is that of an open block.    *)
LEMMA VisibleScope ==
  ASSUME NEW T \in Table, NEW c, Good(T, text, c), NEW k \in 1 .. Len(text) + 1,
         NEW d \in VisibleAt(text, k), d.level > 0,
         NEW i \in 1 .. Len(T.all), NEW j \in DOMAIN T.all[i].syms,
         T.all[i].syms[j].by = d.by
  PROVE  T.all[i].by \in OpenBlocks(text, k - 1)
<1>1. PICK t : t = text
  OBVIOUS
<1>2. t \in Texts /\ Grammatical(t) /\ SymbolsOf(T, t) /\ k \in 1 .. Len(t) + 1
  BY <1>1 DEF Good
<1>3. d \in Declarations(t)
  BY <1>1 DEF VisibleAt
<1>4. Home(t, d) \in OpenBlocks(t, k - 1) \cup {0}
  BY <1>1, <1>2, <1>3, VisibleHome
<1>5. Home(t, d) # 0
  BY <1>2, <1>3, HomeLevel
<1>6. PICK e \in Declarations(t) : Means(T.all[i].syms[j], e) /\ Home(t, e) = T.all[i].by
  BY <1>2 DEF SymbolsOf, Holds
<1>7. e = d
  <2>1. e.by = d.by
    BY <1>6 DEF Means
  <2> QED
    BY <1>2, <1>3, <2>1, DeclarationUnique
<1> QED
  BY <1>1, <1>4, <1>5, <1>6, <1>7

(* Every variable of the blocks around an item has its place on the stack  *)
(* or among the arguments, and no two of them share one.                   *)
THEOREM PlacesApartHold == Spec => []PlacesApart
<1>1. ScopeInv => PlacesApart
  <2> SUFFICES ASSUME ScopeInv, phase = "generate", pos > 1
               PROVE  PlacesApart
    BY DEF PlacesApart
  <2> DEFINE seen == {i \in DOMAIN table.all : \E d \in VisibleAt(text, pos) :
                        d.level > 0 /\ \E j \in DOMAIN table.all[i].syms :
                          table.all[i].syms[j].by = d.by}
             chain == {table.all[i] : i \in seen}
             symbols == UNION {{s.syms[j] : j \in DOMAIN s.syms} : s \in chain}
  <2>1. /\ pos \in 1 .. Len(text) + 1 /\ Good(table, text, checked)
        /\ Placed(table, offsets, pos - 1)
    BY DEF ScopeInv, ErrorInv, TableInv, ReplayInv, PlaceInv
  <2>2. table \in Table /\ text \in Texts /\ Len(text) \in Nat
        /\ DOMAIN table.all = 1 .. Len(table.all) /\ ScopesOf(table, text)
    BY <2>1, TextType, TableType DEF Good
  <2>3. pos - 1 \in 0 .. Len(text)
    BY <2>1, <2>2
  <2>4. ASSUME NEW i \in seen
        PROVE  i \in 1 .. Len(table.all) /\ table.all[i].by \in OpenBlocks(text, pos - 1)
    <3>1. PICK d \in VisibleAt(text, pos) :
            d.level > 0 /\ \E j \in DOMAIN table.all[i].syms : table.all[i].syms[j].by = d.by
      BY <2>4
    <3>2. PICK j \in DOMAIN table.all[i].syms : table.all[i].syms[j].by = d.by
      BY <3>1
    <3>3. i \in 1 .. Len(table.all)
      BY <2>2, <2>4
    <3> QED
      BY <2>1, <2>2, <3>1, <3>2, <3>3, VisibleScope
  <2>5. ASSUME NEW a \in symbols
        PROVE  \E i \in seen : \E j \in DOMAIN table.all[i].syms : a = table.all[i].syms[j]
    BY <2>5
  <2> HIDE DEF seen
  <2>6. ASSUME NEW i \in seen, NEW j \in DOMAIN table.all[i].syms
        PROVE  table.all[i].syms[j].place # NULL
    <3>1. PICK sym, h, m, q, v : /\ sym = table.all[i].syms[j] /\ h = table.all[i].by
                                 /\ m = sym.by[1] /\ q = sym.by[2] /\ v = Level(text)[h]
      OBVIOUS
    <3>2. PlaceFits(sym, offsets, h)
      BY <2>1, <2>2, <2>3, <2>4, <2>6, <3>1, PlaceOf
    <3>3. /\ q \in Nat
          /\ q # 0 => sym.place = <<"arg", q - 1>>
          /\ q = 0 => /\ sym.place = <<"local", Base(offsets, v) + 4 * (m - h)>>
                      /\ m - h \in Nat /\ Base(offsets, v) \in Nat
      BY <3>1, <3>2 DEF PlaceFits
    <3>4. CASE q # 0
      <4>1. <<"arg", q - 1>> \in Place
        BY <3>3, <3>4 DEF Place
      <4> QED
        BY <3>1, <3>3, <3>4, <4>1, ScopeAssumption
    <3>5. CASE q = 0
      <4>1. PICK b \in Nat, x \in Nat : b = Base(offsets, v) /\ x = m - h
        BY <3>3, <3>5
      <4>2. <<"local", b + 4 * x>> \in Place
        BY DEF Place
      <4> QED
        BY <3>1, <3>3, <3>5, <4>1, <4>2, ScopeAssumption
    <3> QED
      BY <3>4, <3>5
  <2>7. ASSUME NEW i \in seen, NEW j \in DOMAIN table.all[i].syms,
               NEW l \in seen, NEW r \in DOMAIN table.all[l].syms,
               table.all[i].syms[j].place = table.all[l].syms[r].place
        PROVE  table.all[i].syms[j] = table.all[l].syms[r]
    <3>1. /\ i \in 1 .. Len(table.all) /\ table.all[i].by \in OpenBlocks(text, pos - 1)
          /\ l \in 1 .. Len(table.all) /\ table.all[l].by \in OpenBlocks(text, pos - 1)
      BY <2>4
    <3>2. /\ table.all[i].by \in Nat /\ table.all[l].by \in Nat
          /\ table.all[i].by = table.all[l].by <=> i = l
      BY <2>2, <3>1, ScopesApart
    <3>3. ~ (table.all[i].by < table.all[l].by)
      BY <2>1, <2>2, <2>3, <2>7, <3>1, PlacesOfBlocks
    <3>4. ~ (table.all[l].by < table.all[i].by)
      BY <2>1, <2>2, <2>3, <2>7, <3>1, PlacesOfBlocks
    <3>5. i = l
      BY <3>2, <3>3, <3>4
    <3>6. j = r
      BY <2>1, <2>2, <2>3, <2>7, <3>1, <3>5, PlacesOfBlock
    <3> QED
      BY <3>5, <3>6
  <2> HIDE DEF chain, symbols
  <2>8. ASSUME NEW a \in symbols, NEW b \in symbols
        PROVE  a.place # NULL /\ (a # b => a.place # b.place)
    <3>1. PICK i \in seen : \E j \in DOMAIN table.all[i].syms : a = table.all[i].syms[j]
      BY <2>5
    <3>2. PICK j \in DOMAIN table.all[i].syms : a = table.all[i].syms[j]
      BY <3>1
    <3>3. PICK l \in seen : \E r \in DOMAIN table.all[l].syms : b = table.all[l].syms[r]
      BY <2>5
    <3>4. PICK r \in DOMAIN table.all[l].syms : b = table.all[l].syms[r]
      BY <3>3
    <3> QED
      BY <2>6, <2>7, <3>2, <3>4
  <2> QED
    BY <2>8 DEF PlacesApart, seen, chain, symbols
<1> QED
  BY <1>1, ScopesHold, PTL
=============================================================================
