---------------------------- MODULE SymbolTable -----------------------------
(***************************************************************************)
(* symbol-table.c: the scopes of a program in the order in which they were *)
(* opened, each linked to the scope around it.  The semantic analysis      *)
(* opens them; the code generation walks over them a second time.          *)
(*                                                                         *)
(* A table is a record:                                                    *)
(*   all      the scopes, in the order of all_next                         *)
(*   this     this_scope, the scope reopened last                          *)
(*   current  the innermost scope                                          *)
(* this and current are positions in all, 0 for NULL.  A scope has its     *)
(* symbols, the newest first (a name always has the same hash, so that the *)
(* order between buckets does not show), next for current_next, and by,    *)
(* the construct that opened it, which the code does not store.            *)
(***************************************************************************)
EXTENDS Integers, Sequences

CONSTANT NULL

(* ccmmc_symbol_table_init *)
EmptyTable == [all |-> << >>, this |-> 0, current |-> 0]

OpenScope(T, by) ==
  [T EXCEPT !.all = Append(@, [syms |-> << >>, next |-> T.current, by |-> by]),
            !.current = Len(T.all) + 1]

(* MUTANT of ReopenScope: goes on from the scope that is current *)
ReopenScope_Current(T) ==
  LET next == IF T.current < Len(T.all) THEN T.current + 1 ELSE 0
  IN [T EXCEPT !.this = next, !.current = next]

(* Behind the last scope, all_next is NULL. *)
ReopenScope(T) ==
  LET next == IF T.this < Len(T.all) THEN T.this + 1 ELSE 0
  IN [T EXCEPT !.this = next, !.current = next]

(* MUTANT of CloseScope: goes back in the order of opening *)
CloseScope_Previous(T) == [T EXCEPT !.current = @ - 1]

CloseScope(T) == [T EXCEPT !.current = T.all[@].next]

(* attr.addr = 0; is_arg is left as malloc returned it.  *)
Insert(T, name, kind, by) ==
  [T EXCEPT !.all[T.current].syms =
     <<[name |-> name, kind |-> kind, by |-> by, place |-> NULL]>> \o @]

-----------------------------------------------------------------------------
(* The symbols of a name in one scope, and the first of them.  *)
Named(scope, name) == {j \in DOMAIN scope.syms : scope.syms[j].name = name}

First(js) == CHOOSE j \in js : \A k \in js : j <= k

(* ccmmc_symbol_scope_exist, for the current scope *)
ScopeExist(T, name) == Named(T.all[T.current], name) # {}

(* MUTANT of Holder: the search starts at the outermost scope *)
Holder_Outermost(T, name) ==
  IF \E i \in DOMAIN T.all : Named(T.all[i], name) # {}
  THEN First({i \in DOMAIN T.all : Named(T.all[i], name) # {}})
  ELSE 0

(* The scope in which the search for a name ends, 0 if in none.  *)
Holder(T, name) ==
  LET search[i \in 0 .. Len(T.all)] ==
        IF i = 0 \/ Named(T.all[i], name) # {} THEN i ELSE search[T.all[i].next]
  IN search[T.current]

(* ccmmc_symbol_table_retrieve *)
Retrieve(T, name) ==
  LET i == Holder(T, name) IN
  IF i = 0 THEN NULL ELSE T.all[i].syms[First(Named(T.all[i], name))]

(* Retrieve(T, name)->attr = place *)
SetPlace(T, name, place) ==
  LET i == Holder(T, name)
      j == First(Named(T.all[i], name))
  IN [T EXCEPT !.all[i].syms[j].place = place]
=============================================================================
