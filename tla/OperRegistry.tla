---------------------------- MODULE OperRegistry ----------------------------
(***************************************************************************)
(* The operator registry of src/lib-sxe-jitson/sxe-jitson-oper.c.          *)
(*                                                                         *)
(* opers[1..num_opers] are the registered operators (opers[0], zeroed by   *)
(* the first calloc, is the invalid operation 0); type_opers[t] for        *)
(* t < num_types holds num_opers slots of per-type functions.  The C       *)
(* arrays are modelled as functions over their possible indices together   *)
(* with the state of the block: "null", "live" or "freed"; touching a      *)
(* NULL block (opers before the first register) sets `fault`, after which *)
(* the process has undefined behaviour and the model stops.  Functions are model values; the type of *)
(* an argument is a type id.                                               *)
(***************************************************************************)
EXTENDS Naturals, Sequences

CONSTANTS
    Names,          \* operator names
    Funcs,          \* operator functions (non-NULL)
    Types,          \* type ids of arguments
    MaxOpers,       \* bound on num_opers
    NULL,
    CallerOps       \* operation ids callers pass to add_to_type and apply

MaxType == CHOOSE t \in Types : \A u \in Types : u <= t

Oper     == [name : Names \cup {NULL}, binary : BOOLEAN, right : BOOLEAN, def : Funcs \cup {NULL}]
ZeroOper == [name |-> NULL, binary |-> FALSE, right |-> FALSE, def |-> NULL]
Slots    == [0..MaxOpers -> Funcs \cup {NULL}]
NoSlots  == [num_opers |-> 0, opers |-> [i \in 0..MaxOpers |-> NULL]]

VARIABLES
    num_opers, opers, opersBlock,
    num_types, type_opers, typeOpersBlock,  \* type_opers[t] = [num_opers |-> n, opers |-> slots]
    result,     \* what the last apply returned
    fault,      \* a NULL or freed block was accessed
    finished    \* sxe_jitson_oper_fini was called

vars == <<num_opers, opers, opersBlock, num_types, type_opers, typeOpersBlock, result, fault, finished>>

PerType == [num_opers : 0..(MaxOpers + 1), opers : Slots]

TypeOK ==
    /\ num_opers \in 0..MaxOpers
    /\ opers \in [0..MaxOpers -> Oper]
    /\ num_types \in 0..(MaxType + 1)
    /\ type_opers \in [0..MaxType -> PerType]
    /\ {opersBlock, typeOpersBlock} \subseteq {"null", "live", "freed"}
    /\ result \in Funcs \cup {NULL}
    /\ fault \in BOOLEAN /\ finished \in BOOLEAN

\* The static initialisers of lines 48-52.
Init ==
    /\ num_opers = 0 /\ opers = [i \in 0..MaxOpers |-> ZeroOper] /\ opersBlock = "null"
    /\ num_types = 0
    /\ type_opers = [t \in 0..MaxType |-> NoSlots]
    /\ typeOpersBlock = "null"
    /\ result = NULL /\ fault = FALSE /\ finished = FALSE

\* The registry is torn down once, at shutdown (spec 4.4 lifecycles), and
\* a process that touched freed or NULL memory is not modelled further.
Running == ~fault /\ ~finished

\* The step touches a block that is NULL or freed.
Fault ==
    /\ fault' = TRUE
    /\ UNCHANGED <<num_opers, opers, opersBlock, num_types, type_opers, typeOpersBlock, result, finished>>

(***************************************************************************)
(* sxe_jitson_oper_register, lines 65-84: calloc two entries for the       *)
(* first operator, else abort on a duplicate name and realloc one more.    *)
(***************************************************************************)
Register(o) ==
    /\ Running
    /\ num_opers < MaxOpers
    /\ num_opers # 0 => \A i \in 1..num_opers : opers[i].name # o.name
    /\ opers' = IF num_opers = 0
                THEN [[i \in 0..MaxOpers |-> ZeroOper] EXCEPT ![1] = o]
                ELSE [opers EXCEPT ![num_opers + 1] = o]
    /\ num_opers' = num_opers + 1
    /\ opersBlock' = "live"
    /\ UNCHANGED <<num_types, type_opers, typeOpersBlock, result, fault, finished>>

\* Mutant: the slots between the old num_opers and op left uninitialised.
GrowSlotsNoInit(pt, op) ==
    [num_opers |-> op + 1,
     opers     |-> [i \in 0..MaxOpers |-> IF i < pt.num_opers THEN pt.opers[i] ELSE CHOOSE f \in Funcs : TRUE]]

\* Mutant: the slots grown one past op + 1.
GrowSlotsOneMore(pt, op) ==
    [num_opers |-> op + 2,
     opers     |-> [i \in 0..MaxOpers |-> IF i < pt.num_opers THEN pt.opers[i] ELSE NULL]]

\* Lines 105-113: realloc type t's slots to op + 1 and NULL the new ones.
GrowSlots(pt, op) ==
    [num_opers |-> op + 1,
     opers     |-> [i \in 0..MaxOpers |-> IF i < pt.num_opers THEN pt.opers[i] ELSE NULL]]

(***************************************************************************)
(* sxe_jitson_oper_add_to_type, lines 86-116: assert op <= num_opers;      *)
(* grow type_opers to type + 1 entries, initialising the new types; grow  *)
(* the type's slots to op + 1; store the function.                        *)
(***************************************************************************)
AddToType(op, type, f) ==
    /\ Running
    /\ op <= num_opers
    /\ LET grown == IF type >= num_types
                    THEN [t \in 0..MaxType |->
                            IF t >= num_types /\ t <= type THEN NoSlots ELSE type_opers[t]]
                    ELSE type_opers
           pt    == IF op >= grown[type].num_opers THEN GrowSlots(grown[type], op) ELSE grown[type]
       IN  /\ type_opers' = [grown EXCEPT ![type] = [pt EXCEPT !.opers[op] = f]]
           /\ num_types' = IF type >= num_types THEN type + 1 ELSE num_types
           /\ typeOpersBlock' = IF type >= num_types THEN "live" ELSE typeOpersBlock
           /\ UNCHANGED <<num_opers, opers, opersBlock, result, fault, finished>>

(***************************************************************************)
(* Dispatch, lines 131-142 and 151-162: the governing type's override if   *)
(* type < num_types, op < its num_opers and the slot is set; else the      *)
(* default; else NULL with errno EOPNOTSUPP.                               *)
(***************************************************************************)
Dispatch(op, type) ==
    IF type < num_types /\ op < type_opers[type].num_opers /\ type_opers[type].opers[op] # NULL
    THEN type_opers[type].opers[op]
    ELSE opers[op].def

(***************************************************************************)
(* sxe_jitson_oper_apply_unary, lines 125-143: asserts op <= num_opers and *)
(* that op is not binary (reading opers[op]).                              *)
(***************************************************************************)
ApplyUnary(op, type) ==
    /\ Running
    /\ op <= num_opers
    /\ IF opersBlock # "live"
       THEN Fault
       ELSE /\ ~opers[op].binary
            /\ result' = Dispatch(op, type)
            /\ UNCHANGED <<num_opers, opers, opersBlock, num_types, type_opers, typeOpersBlock, fault, finished>>

(***************************************************************************)
(* sxe_jitson_oper_apply_binary, lines 145-163: the right argument's type  *)
(* governs when the operator has SXE_JITSON_OPER_TYPE_RIGHT.               *)
(***************************************************************************)
ApplyBinary(lt, op, rt) ==
    /\ Running
    /\ op <= num_opers
    /\ IF opersBlock # "live"
       THEN Fault
       ELSE /\ opers[op].binary
            /\ result' = Dispatch(op, IF opers[op].right THEN rt ELSE lt)
            /\ UNCHANGED <<num_opers, opers, opersBlock, num_types, type_opers, typeOpersBlock, fault, finished>>

(***************************************************************************)
(* sxe_jitson_oper_fini, lines 165-177: free every type's slots,           *)
(* type_opers and opers; reset opers and num_opers only (num_types and     *)
(* type_opers are left dangling).                                          *)
(***************************************************************************)
Fini ==
    /\ Running
    /\ opersBlock' = "null" /\ num_opers' = 0
    /\ typeOpersBlock' = IF typeOpersBlock = "null" THEN "null" ELSE "freed"
    /\ finished' = TRUE
    /\ UNCHANGED <<opers, num_types, type_opers, result, fault>>

Next ==
    \/ \E o \in Oper : o.name # NULL /\ Register(o)
    \/ \E op \in CallerOps, t \in Types, f \in Funcs : AddToType(op, t, f)
    \/ \E op \in CallerOps, t \in Types : ApplyUnary(op, t)
    \/ \E op \in CallerOps, lt, rt \in Types : ApplyBinary(lt, op, rt)
    \/ Fini

Spec == Init /\ [][Next]_vars

-----------------------------------------------------------------------------
\* The registered operators and the overrides as callers see them.
Registered == [i \in 1..num_opers |-> opers[i]]

Overrides ==
    [x \in (0..MaxOpers) \X Types |->
        IF typeOpersBlock = "live" /\ x[2] < num_types /\ x[1] < type_opers[x[2]].num_opers
        THEN type_opers[x[2]].opers[x[1]]
        ELSE NULL]

Abstract == INSTANCE OperAbstract WITH ops <- Registered, overrides <- Overrides

(***************************************************************************)
(* The registry implements OperAbstract (spec 4.4): register appends an   *)
(* operator with a fresh name, add_to_type changes only the override of   *)
(* one registered operator for one type (the slots it grows over read as  *)
(* NULL), apply returns the governing type's override, else the default,  *)
(* else NULL, and fini forgets everything.                                *)
(***************************************************************************)
ImplementsOperSpec == Abstract!AbsSpec
=============================================================================
