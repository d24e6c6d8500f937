---------------------------- MODULE OperAbstract ----------------------------
(***************************************************************************)
(* The operator registry as the spec (section 4.4) describes it: a list of *)
(* registered operators, each with an arity, a governing side for binary   *)
(* operators and an optional default function, and a sparse matrix of      *)
(* per-type overrides.  Dispatch takes the override for the governing      *)
(* argument's type, else the default, else fails (EOPNOTSUPP, NULL).       *)
(***************************************************************************)
EXTENDS Naturals, Sequences

CONSTANTS Names, Funcs, Types, MaxOpers, NULL

Oper == [name : Names, binary : BOOLEAN, right : BOOLEAN, def : Funcs \cup {NULL}]

VARIABLES
    ops,        \* the registered operators; operator i is ops[i]
    overrides,  \* <<op, type>> -> the function installed for it, or NULL
    result      \* what the last apply returned

absVars == <<ops, overrides, result>>

NoOverrides == [x \in (0..MaxOpers) \X Types |-> NULL]

AbsInit ==
    /\ ops = <<>>
    /\ overrides = NoOverrides
    /\ result = NULL

RegisterOp(o) ==
    /\ \A i \in DOMAIN ops : ops[i].name # o.name
    /\ ops' = Append(ops, o)
    /\ UNCHANGED <<overrides, result>>

Override(op, t, f) ==
    /\ op \in DOMAIN ops
    /\ overrides' = [overrides EXCEPT ![<<op, t>>] = f]
    /\ UNCHANGED <<ops, result>>

\* Dispatch on the governing type t.
Dispatch(op, t) ==
    IF overrides[<<op, t>>] # NULL THEN overrides[<<op, t>>] ELSE ops[op].def

ApplyOp(op, lt, rt) ==
    /\ op \in DOMAIN ops
    /\ result' = Dispatch(op, IF ops[op].binary /\ ops[op].right THEN rt ELSE lt)
    /\ UNCHANGED <<ops, overrides>>

Reset ==
    /\ ops' = <<>>
    /\ overrides' = NoOverrides
    /\ UNCHANGED result

AbsNext ==
    \/ \E o \in Oper : RegisterOp(o)
    \/ \E op \in 1..MaxOpers, t \in Types, f \in Funcs : Override(op, t, f)
    \/ \E op \in 1..MaxOpers, lt, rt \in Types : ApplyOp(op, lt, rt)
    \/ Reset

AbsSpec == AbsInit /\ [][AbsNext]_absVars
=============================================================================
