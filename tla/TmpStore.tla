------------------------------ MODULE TmpStore ------------------------------
(***************************************************************************)
(* What the register pool of register.c promises to the code generator: a  *)
(* temporary is a cell with a value of its own.  A new temporary holds an  *)
(* arbitrary value, an instruction of the generated program changes the    *)
(* temporary it names and no other, naming, unnaming or freeing a          *)
(* temporary changes no other.  Where the values live (registers, spill slots), the swaps and   *)
(* the moves are of no concern at this level.                              *)
(***************************************************************************)

CONSTANTS
  Tmp,   \* addresses malloc can return for a CcmmcTmp
  Val    \* values of a 32-bit register

VARIABLES
  store,   \* value of every temporary that is allocated
  named    \* temporaries whose register the caller knows by name

TypeOK ==
  /\ DOMAIN store \subseteq Tmp
  /\ \A t \in DOMAIN store : store[t] \in Val
  /\ named \subseteq DOMAIN store

Init ==
  /\ store = [t \in {} |-> CHOOSE v \in Val : TRUE]
  /\ named = {}

(* ccmmc_register_alloc: the new temporary holds whatever was there. *)
Alloc(t) ==
  /\ t \notin DOMAIN store
  /\ \E v \in Val :
       store' = [u \in DOMAIN store \cup {t} |-> IF u = t THEN v ELSE store[u]]
  /\ UNCHANGED named

(* ccmmc_register_lock: a name is given, or refused.  *)
Lock(t) ==
  /\ t \in DOMAIN store
  /\ \/ named' = named \cup {t}
     \/ named' = named \ {t}
  /\ UNCHANGED store

(* ccmmc_register_unlock *)
Unlock(t) ==
  /\ t \in DOMAIN store
  /\ named' = named \ {t}
  /\ UNCHANGED store

(* An emitted instruction whose destination is the name lock returned. *)
Write(t, v) ==
  /\ t \in named
  /\ store' = [store EXCEPT ![t] = v]
  /\ UNCHANGED named

(* ccmmc_register_free *)
Free(t) ==
  /\ t \in DOMAIN store
  /\ store' = [u \in DOMAIN store \ {t} |-> store[u]]
  /\ named' = named \ {t}

Next ==
  \E t \in Tmp :
    \/ Alloc(t)
    \/ Lock(t)
    \/ Unlock(t)
    \/ Free(t)
    \/ \E v \in Val : Write(t, v)

storeVars == <<store, named>>

Spec == Init /\ [][Next]_storeVars
=============================================================================
