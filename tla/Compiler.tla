------------------------------ MODULE Compiler ------------------------------
(***************************************************************************)
(* The code generator at work, and the program it generates.  A behaviour  *)
(* takes one function, carries out its script (StmtGen.tla, ExprGen.tla)   *)
(* against the register pool (RegPool.tla) while the instructions pile up  *)
(* in code, and then runs the code (Machine.tla).  What the result means   *)
(* is the subject of Meaning.tla.                                          *)
(*                                                                         *)
(* The functions of the code generator call each other recursively: todo   *)
(* is what is left to do in all calls that have begun, the innermost       *)
(* first.                                                                  *)
(*                                                                         *)
(* The pool is moved once, in the order of the text, whereas the code that *)
(* the pool prints runs as often as the branches around it let it.         *)
(***************************************************************************)
EXTENDS StmtGen

CONSTANTS
  Programs,  \* the functions to compile, with their initial memory
  Expr,      \* the expressions in them
  Stmt       \* the statements in them

VARIABLES
  program,      \* the function being compiled
  todo,         \* the rest of its script
  labelNumber,  \* state->label_number
  labels,       \* the C variables that hold label numbers
  printBuf      \* pool->print_buf: what caller_load will print

genVars == <<program, todo, labelNumber, labels, printBuf>>
allVars == <<vars, genVars, code, pc, calls>>

(* Syntax trees, as the grammar and the semantic analysis let them be.     *)
IsCall(e) ==
  e.k = "call" /\ e.args \in Seq(Expr) /\ (e.name = "write" => Len(e.args) = 1)

IsExpr(e) ==
  \/ e.k = "const"
  \/ e.k = "id" /\ e.index \in Seq(Expr)
  \/ e.k = "bin" /\ e.l \in Expr /\ e.r \in Expr
  \/ e.k = "un" /\ e.op \in {"pos", "neg", "not"} /\ e.l \in Expr
  \/ IsCall(e)

IsDecl(decl) ==
  /\ decl.dims \in Seq(Nat)
  /\ decl.init = << >> \/ decl.init[1] \in Expr

IsList(q) == Len(q) \in Nat /\ DOMAIN q = 1 .. Len(q)

IsBlock(s) ==
  /\ s.k = "block"
  /\ s.stmts \in Seq(Stmt)
  /\ IsList(s.decls) /\ \A i \in DOMAIN s.decls : IsDecl(s.decls[i])

(* What the first and the third part of for are made of.  *)
Simple == {s \in Stmt : s.k \in {"assign", "call"}}

IsStmt(s) ==
  \/ s.k = "nul"
  \/ IsBlock(s)
  \/ s.k = "while" /\ s.cond \in Expr /\ s.body \in Stmt
  \/ s.k = "for" /\ s.init \in Seq(Simple) /\ s.conds \in Seq(Expr)
       /\ s.step \in Seq(Simple) /\ s.body \in Stmt
  \/ s.k = "if" /\ s.cond \in Expr /\ s.then \in Stmt /\ s.else \in Stmt
  \/ s.k = "assign" /\ s.id \in Expr /\ s.id.k = "id" /\ s.value \in Expr
  \/ s.k = "call" /\ s.call \in Expr /\ IsCall(s.call)
  \/ s.k = "return" /\ s.value \in Expr

IsFunction(f) ==
  /\ f.body \in Stmt /\ f.body.k = "block"
  /\ IsList(f.args) /\ \A i \in DOMAIN f.args : f.args[i].dims \in Seq(Nat)
  /\ \A x \in DOMAIN f.globals :
       f.globals[x].seg = "global" /\ f.globals[x].dims \in Seq(Nat)

(* REG_LOCK_MAX is 3 (register.h), and a function starts at depth 0.       *)
ASSUME CompilerAssumption ==
  /\ LockMax >= 3
  /\ 0 \in Frames
  /\ \A e \in Expr : IsExpr(e)
  /\ \A s \in Stmt : IsStmt(s)
  /\ \A p \in Programs : IsFunction(p.f)

Epilogue == -1   \* stands for the label .LR_name, which has no number

(* What the function finds in memory and in registers when it is entered:  *)
(* global variables and arguments.                                         *)
InitialMemory(p) ==
  LET global(d) == {xi \in (DOMAIN p.f.globals) \X (0 .. 8) :
                      /\ xi[2] \in DOMAIN p.init[xi[1]]
                      /\ p.f.globals[xi[1]].a - 4 * xi[2] = d}
      arg(d) == {k \in DOMAIN p.f.args : k > ArgRegs /\ ArgSlot(k - 1) = d}
  IN [d \in Depths |->
        IF global(d) # {}
        THEN LET xi == CHOOSE xi \in global(d) : TRUE IN p.init[xi[1]][xi[2]]
        ELSE IF arg(d) # {}
        THEN p.init[p.f.args[CHOOSE k \in arg(d) : TRUE].name][0]
        ELSE Junk]

InitialRegisters(p) ==
  [r \in Registers |->
     IF \E k \in DOMAIN p.f.args : k <= ArgRegs /\ r = X(k - 1)
     THEN p.init[p.f.args[r - X(0) + 1].name][0]
     ELSE Junk]

CInit ==
  /\ BookInit /\ frame = 0
  /\ program \in Programs
  /\ todo = GenFunction(program.f)
  /\ labelNumber = 3
  /\ labels = [l \in {<<"LR", 0>>} |-> Epilogue]
  /\ printBuf = << >>
  /\ code = << >>
  /\ pc = 1
  /\ calls = << >>
  /\ sp = 0
  /\ rv = InitialRegisters(program)
  /\ mem = InitialMemory(program)

-----------------------------------------------------------------------------
(* The compiler.  Do(what, t) is carried out by the action for what.  *)
Next1(what) == todo # << >> /\ Head(todo).do = what /\ todo' = Tail(todo)
t0 == Head(todo).t

Ins(f, op, d, s, a) == [f |-> f, op |-> op, d |-> d, s |-> s, a |-> a]
Append1(i) == code' = Append(code, i)
Idle == UNCHANGED <<program, pc, calls, rv, mem, sp>>

(* The symbols of the names in it are dereferenced, and line 448 asserts   *)
(* that an array argument is a name.                                       *)
Resolved(e, env) ==
  /\ e.k = "id" => e.name \in DOMAIN env.loc
  /\ e.k = "call" => \A i \in DOMAIN e.args :
       e.params[i] = "array" => e.args[i].k = "id" /\ e.args[i].name \in DOMAIN env.loc

(* generate_expression and generate_statement: what the call does comes    *)
(* before what is left of its caller.                                      *)
Instead(script) ==
  /\ todo' = script \o Tail(todo)
  /\ UNCHANGED <<book, held, code, labelNumber, labels, printBuf>> /\ Idle

CallExpression ==
  LET c == Head(todo) IN
  /\ todo # << >> /\ c.do = "gen"
  /\ Resolved(c.e, c.env)
  /\ Instead(Expression(c.e, c.t, c.n, c.env))

CallStatement ==
  LET c == Head(todo) IN
  /\ todo # << >> /\ c.do = "stmt"
  /\ c.s.k = "assign" => Resolved(c.s.id, c.env)
  /\ c.s.k = "call" => Resolved(c.s.call, c.env)
  /\ Instead(Statement(c.s, c.off, c.env, c.d))

(* ccmmc_register_alloc: malloc returns an address of Tmp *)
GenAlloc ==
  /\ Next1("alloc")
  /\ t0 \in Tmp
  /\ \/ AllocRegBook(t0) /\ UNCHANGED code
     \/ AllocStackBook(t0) /\ Append1(Ins("sp", "", 0, << >>, RegSize))
  /\ UNCHANGED <<held, labelNumber, labels, printBuf>> /\ Idle

(* ccmmc_register_lock *)
GenLock ==
  /\ Next1("lock")
  /\ \/ lockCnt >= LockMax /\ UNCHANGED <<book, code>>
     \/ LockInRegBook(t0) /\ UNCHANGED code
     \/ LockSwapBook(t0)
          /\ Append1(Ins("swap", "", list[FirstUnlocked], << >>, tmpAddr[t0]))
  /\ held' = [held EXCEPT ![t0] = IF lockCnt >= LockMax THEN NULL ELSE tmpReg'[t0]]
  /\ UNCHANGED <<labelNumber, labels, printBuf>> /\ Idle

(* ccmmc_register_unlock *)
GenUnlock ==
  /\ Next1("unlock")
  /\ UnlockBook(t0)
  /\ held' = [held EXCEPT ![t0] = NULL]
  /\ UNCHANGED <<code, labelNumber, labels, printBuf>> /\ Idle

(* ccmmc_register_free *)
GenFree ==
  LET last == top - 1 - Num IN
  /\ Next1("free")
  /\ \/ FreeRegBook(t0) /\ UNCHANGED code
     \/ FreeRegLoadBook(t0)
          /\ code' = code \o
               <<Ins("ldr", "depth", tmpReg[t0], << >>, tmpAddr[spill[last]]),
                 Ins("sp", "", 0, << >>, - RegSize)>>
     \/ FreeSlotBook(t0)
          /\ code' = code
               \o (IF SpillIndex(t0) < last
                   THEN <<Ins("move", tmpAddr[spill[last]], 0, << >>, tmpAddr[t0])>>
                   ELSE << >>)
               \o <<Ins("sp", "", 0, << >>, - RegSize)>>
  /\ UNCHANGED <<held, labelNumber, labels, printBuf>> /\ Idle

(* MUTANT of GenLabel: the number is not counted up *)
GenLabel_Stale ==
  /\ Next1("label")
  /\ labels' = [l \in DOMAIN labels \cup {t0} |->
                  IF l = t0 THEN labelNumber ELSE labels[l]]
  /\ UNCHANGED <<book, held, code, labelNumber, printBuf>> /\ Idle

(* label = state->label_number++ *)
GenLabel ==
  /\ Next1("label")
  /\ labels' = [l \in DOMAIN labels \cup {t0} |->
                  IF l = t0 THEN labelNumber ELSE labels[l]]
  /\ labelNumber' = labelNumber + 1
  /\ UNCHANGED <<book, held, code, printBuf>> /\ Idle

(* fprintf of an instruction *)
Register(o) == IF o[1] = "t" THEN held[o[2]] ELSE o[2]

GenEmit ==
  LET i == Head(todo).i IN
  /\ Next1("emit")
  /\ Append1(Ins(i.f, i.op, Register(i.d),
                 [k \in DOMAIN i.s |-> Register(i.s[k])],
                 IF i.f \in {"b", "label", "data", "literal"} THEN labels[i.a]
                 ELSE i.a))
  /\ UNCHANGED <<book, held, labelNumber, labels, printBuf>> /\ Idle

(* ccmmc_register_caller_save and ccmmc_register_caller_load *)
GenSave ==
  LET bound == IF top < Num THEN top ELSE Num
      Each(f) == [k \in 1 .. bound |-> Ins(f, "sp", list[k - 1], << >>, k * RegSize)]
      Sp(n) == IF bound > 0 THEN <<Ins("sp", "", 0, << >>, n)>> ELSE << >>
  IN
  /\ Next1("save")
  /\ code' = code \o Each("str") \o Sp(bound * RegSize)
  /\ printBuf' = Sp(- (bound * RegSize)) \o Each("ldr")
  /\ UNCHANGED <<book, held, labelNumber, labels>> /\ Idle

GenLoad ==
  /\ Next1("load")
  /\ code' = code \o printBuf
  /\ UNCHANGED <<book, held, labelNumber, labels, printBuf>> /\ Idle

(* return: add sp, sp, current_offset *)
GenUnwind ==
  /\ Next1("unwind")
  /\ Append1(Ins("sp", "", 0, << >>, - offset))
  /\ UNCHANGED <<book, held, labelNumber, labels, printBuf>> /\ Idle

(* A handler starts with a current_offset of its own, or goes on with it.  *)
GenOffset ==
  /\ Next1("offset")
  /\ t0 \in Frames
  /\ offset' = t0
  /\ frame' = t0
  /\ UNCHANGED <<list, top, spill, spillMax, lockCnt, regTmp, regLock, live,
                 tmpReg, tmpAddr, held, code, labelNumber, labels, printBuf>>
  /\ Idle

Generate ==
  \/ CallExpression \/ CallStatement
  \/ GenAlloc \/ GenLock \/ GenUnlock \/ GenFree \/ GenLabel \/ GenEmit
  \/ GenSave \/ GenLoad \/ GenUnwind \/ GenOffset

(* The generated program.  *)
Compiled == todo = << >>
Finished == Compiled /\ pc > Len(code)

Run ==
  /\ Compiled
  /\ pc <= Len(code)
  /\ Execute(code[pc])
  /\ UNCHANGED <<book, held, genVars, code>>

(* The function has returned: nothing is left to do. *)
Returned == Finished /\ UNCHANGED allVars

CNext == Generate \/ Run \/ Returned

(* The compiler and the processor go on while they can.  *)
CSpec == CInit /\ [][CNext]_allVars /\ WF_allVars(CNext)

-----------------------------------------------------------------------------
(* generate_block lines 1213-1261 and return lines 1159-1171: whichever    *)
(* way the function ends, and wherever a statement branches, the stack     *)
(* pointer is back at the frame pointer when the epilogue pops lr and fp,  *)
(* and it is never above it.                                               *)
StackBalanced ==
  /\ Compiled => sp >= 0
  /\ Finished => sp = 0

(* register.c lines 81-140: no instruction names a temporary that the pool *)
(* refused to lock.                                                        *)
LocksGranted ==
  \A k \in DOMAIN code :
    code[k].d # NULL /\ \A j \in DOMAIN code[k].s : code[k].s[j] # NULL

(* state->label_number: every label is defined once in the file, and every *)
(* branch and literal has its label.                                       *)
LabelsUnique ==
  Compiled /\ pc = 1 =>
    LET Defined == {k \in DOMAIN code : code[k].f \in {"label", "data"}} IN
    /\ \A k, j \in Defined : code[k].a = code[j].a => k = j
    /\ \A k \in DOMAIN code :
         /\ code[k].f = "b" => \E j \in Defined :
              code[j].f = "label" /\ code[j].a = code[k].a
         /\ code[k].f = "literal" => \E j \in Defined :
              code[j].f = "data" /\ code[j].a = code[k].a

(* The pool as RegPool.tla has it, without the machine: register.c relies  *)
(* on its callers for what RegPool!Next allows them.                       *)
Pool == INSTANCE RegPool WITH
          Val <- {0},
          rv <- [r \in Reg |-> 0],
          mem <- [d \in {Slot(k) : k \in 0 .. Spilled - 1} |-> 0],
          sp <- offset

(* The handlers give back what they take: after the function the pool is   *)
(* empty and unlocked.                                                     *)
PoolDrained == Compiled => live = {} /\ top = 0 /\ lockCnt = 0

(* code-generation.c uses the pool as register.c asks of its callers: it   *)
(* locks and frees what it has allocated, frees nothing that is locked,    *)
(* and sets current_offset to another value only while nothing is          *)
(* allocated; and it gives everything back.                                *)
UsesPool == Pool!Spec /\ []PoolDrained

(* Every function that terminates does so when it is compiled.  *)
Terminates == <>Finished
=============================================================================
