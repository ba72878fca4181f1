------------------------------ MODULE Machine -------------------------------
(***************************************************************************)
(* The processor that runs the generated assembly: what the instructions   *)
(* which code-generation.c prints do to the registers and the stack.       *)
(*                                                                         *)
(* It is external to the compiler.  An instruction is a record: its class  *)
(* f, a detail op, the register d it names first, the other registers s,   *)
(* and a datum a.  Instructions that are always printed together (a        *)
(* comparison and its cset or its branch, the address computation of a     *)
(* load, the swap of lock) are one instruction here.  Addresses are depths *)
(* below the frame pointer.                                                *)
(*                                                                         *)
(* A word below W is an int, modulo W; the word W + k holds the bits of    *)
(* the float k.  The two encodings are disjoint, so that a value computed  *)
(* with the instruction of the wrong type is wrong.                        *)
(***************************************************************************)
EXTENDS RegPool, Sequences

CONSTANTS
  ArgRegs,  \* number of argument registers: 8, x0 to x7
  W,        \* number of ints
  Junk,     \* what registers and memory hold before they are written
  Depths    \* addresses that exist

ASSUME MachineAssumption ==
  /\ ArgRegs \in Nat \ {0}
  /\ W \in Nat \ {0}
  /\ Junk \in Int
  /\ Depths \subseteq Int

VARIABLES
  code,   \* the instructions printed so far
  pc,     \* the next instruction to run
  calls   \* the calls the program made, with their arguments

machineVars == <<rv, mem, sp, pc, calls>>

X(i) == Num + i
S(i) == Num + ArgRegs + i
X9 == S(19)
Registers == Index \cup {X(i) : i \in 0 .. ArgRegs - 1}
                   \cup {S(i) : i \in {0, 16, 17, 18}} \cup {X9}

FloatBits(k) == W + (k % W)
FloatOf(w) == IF w >= W THEN w - W ELSE (w + 5) % W

Truth(b) == IF b THEN 1 ELSE 0

Alu(op, a) ==
  CASE op = "mov"    -> a[1]
    [] op = "lsl2"   -> (4 * a[1]) % W
    [] op = "+"      -> (a[1] + a[2]) % W
    [] op = "-"      -> (a[1] - a[2]) % W
    [] op = "*"      -> (a[1] * a[2]) % W
    [] op = "<"      -> Truth(a[1] < a[2])
    [] op = "=="     -> Truth(a[1] = a[2])
    [] op = "neg"    -> (- a[1]) % W
    [] op = "not"    -> Truth(a[1] = 0)
    [] op = "scvtf"  -> FloatBits(a[1])
    [] op = "fcvtas" -> FloatOf(a[1])
    [] op = "f+"     -> FloatBits(FloatOf(a[1]) + FloatOf(a[2]))
    [] op = "f-"     -> FloatBits(FloatOf(a[1]) - FloatOf(a[2]))
    [] op = "f*"     -> FloatBits(FloatOf(a[1]) * FloatOf(a[2]))
    [] op = "f<"     -> Truth(FloatOf(a[1]) < FloatOf(a[2]))
    [] op = "f=="    -> Truth(FloatOf(a[1]) = FloatOf(a[2]))
    [] op = "fneg"   -> FloatBits(- FloatOf(a[1]))
    [] op = "fnot"   -> Truth(FloatOf(a[1]) = 0)

(* Memory that does not exist reads as Junk.  *)
Word(a) == IF a \in DOMAIN mem THEN mem[a] ELSE Junk

(* The address an ldr or str computes: the depth a itself, an address in   *)
(* an argument register or in a stack argument, or relative to sp; minus   *)
(* the byte offset in the register s[1], if there is one.                  *)
Address(i) ==
  LET base == CASE i.op = "depth" -> i.a
                [] i.op = "xreg"  -> rv[X(i.a)]
                [] i.op = "slot"  -> Word(i.a)
                [] i.op = "sp"    -> sp + i.a
  IN base - (IF i.s = << >> THEN 0 ELSE rv[i.s[1]])

(* The literal .float behind a label. *)
Literal(l) ==
  LET def == CHOOSE k \in DOMAIN code : code[k].f = "data" /\ code[k].a = l
  IN code[def].op

(* alu, mov of an immediate, ldr: one register changes.  *)
SetRegister(i) ==
  /\ i.f \in {"alu", "imm", "ldr", "literal", "address"}
  /\ rv' = [rv EXCEPT ![i.d] =
              CASE i.f = "alu"     -> Alu(i.op, [k \in DOMAIN i.s |-> rv[i.s[k]]])
                [] i.f = "imm"     -> i.a
                [] i.f = "ldr"     -> Word(Address(i))
                [] i.f = "literal" -> Literal(i.a)
                [] i.f = "address" -> Address(i)]
  /\ pc' = pc + 1
  /\ UNCHANGED <<mem, sp, calls>>

Store(i) ==
  /\ i.f = "str"
  /\ mem' = [d \in DOMAIN mem |-> IF d = Address(i) THEN rv[i.d] ELSE mem[d]]
  /\ pc' = pc + 1
  /\ UNCHANGED <<rv, sp, calls>>

(* The swap printed by lock and the move printed by free, through w10.  *)
Swap(i) ==
  /\ i.f = "swap"
  /\ rv' = [rv EXCEPT ![i.d] = Word(i.a)]
  /\ mem' = [d \in DOMAIN mem |-> IF d = i.a THEN rv[i.d] ELSE mem[d]]
  /\ pc' = pc + 1
  /\ UNCHANGED <<sp, calls>>

Move(i) ==
  /\ i.f = "move"
  /\ mem' = [d \in DOMAIN mem |-> IF d = i.a THEN Word(i.op) ELSE mem[d]]
  /\ pc' = pc + 1
  /\ UNCHANGED <<rv, sp, calls>>

MoveSp(i) ==
  /\ i.f = "sp"
  /\ sp' = sp + i.a
  /\ pc' = pc + 1
  /\ UNCHANGED <<rv, mem, calls>>

Position(l) == CHOOSE k \in DOMAIN code : code[k].f = "label" /\ code[k].a = l

Taken(i) ==
  CASE i.op = "always" -> TRUE
    [] i.op = "z"      -> rv[i.s[1]] = 0
    [] i.op = "nz"     -> rv[i.s[1]] # 0
    [] i.op = "fz"     -> FloatOf(rv[i.s[1]]) = 0
    [] i.op = "fnz"    -> FloatOf(rv[i.s[1]]) # 0

Branch(i) ==
  /\ i.f \in {"b", "label", "data"}
  /\ pc' = IF i.f = "b" /\ Taken(i) THEN Position(i.a) ELSE pc + 1
  /\ UNCHANGED <<rv, mem, sp, calls>>

(* What a callee returns: any function that depends on its arguments and   *)
(* on the calls before it, so that the order of the calls shows.           *)
Answer(args, before) ==
  LET sum[k \in 0 .. Len(args)] ==
        IF k = 0 THEN 1 + 3 * Len(before) ELSE sum[k - 1] + k * args[k]
  IN sum[Len(args)] % W

(* bl: the callee reads its arguments, the element an array argument       *)
(* points at, and overwrites whatever it may.                              *)
CallOut(i) ==
  LET Arg(k) == IF k <= ArgRegs THEN rv[X(k - 1)]
                ELSE Word(sp - (k - 1 - ArgRegs) * 8)
      args == [k \in DOMAIN i.a |->
                 CASE i.a[k] = "array" -> Word(Arg(k))
                   [] i.a[k] = "s0" -> rv[S(0)]
                   [] OTHER -> Arg(k)]
      v == Answer(args, calls)
  IN
  /\ i.f = "bl"
  /\ calls' = Append(calls, <<i.op.name, args>>)
  /\ rv' = [r \in Registers |->
              CASE r = X(0) /\ i.op.type = "int"   -> v
                [] r = S(0) /\ i.op.type = "float" -> FloatBits(v)
                [] OTHER -> Junk]
  /\ mem' = [d \in DOMAIN mem |-> IF d > sp THEN Junk ELSE mem[d]]
  /\ pc' = pc + 1
  /\ UNCHANGED sp

Execute(i) ==
  \/ SetRegister(i)
  \/ Store(i)
  \/ Swap(i)
  \/ Move(i)
  \/ MoveSp(i)
  \/ Branch(i)
  \/ CallOut(i)
=============================================================================
