----------------------------- MODULE ClientMacro -----------------------------
(***************************************************************************)
(* The client soroban! generates from the source of a contract             *)
(* (soroban-rs-macros/src/lib.rs), and the conversion of the arguments of  *)
(* its methods (soroban-rs/src/scval.rs), as functions of their inputs.    *)
(*                                                                         *)
(* A source is the sequence of its items, [kind, name, functions]: a       *)
(* struct, an impl block, or another.  A function is [name, public, env,   *)
(* params, returns]: it may do without the env, which params counts.       *)
(***************************************************************************)
EXTENDS Integers, Sequences, FiniteSets, SequencesExt

CONSTANT Limit \* the length a VecM, a StringM or a BytesM holds

Skipped == {"__constructor", "new"}

\* The loop looks at the kinds of items only: any struct will do, and the
\* functions of every impl block are taken.
HasStruct(items) == \E i \in DOMAIN items : items[i].kind = "struct"

MethodsOf(items) ==
    UNION {Range(items[i].functions) : i \in {j \in DOMAIN items : items[j].kind = "impl"}}

\* A method per function, public or not, without the first parameter, the env or
\* not; one without a return type gets none either.
MethodOf(f) ==
    [name |-> f.name, args |-> IF f.params = 0 THEN 0 ELSE f.params - 1, returns |-> f.returns]

Generated(items) ==
    {MethodOf(f) : f \in {g \in MethodsOf(items) : g.name \notin Skipped}}

\* Without a struct the macro panics; the body of a method is a Result, so that
\* one without a return type does not compile.
Compiles(items) == HasStruct(items) /\ \A m \in Generated(items) : m.returns

(***************************************************************************)
(* Arguments.  A native value is [type, value]: the value of a Sized type  *)
(* is its length, and a Duration has milliseconds, in an ScVal seconds.    *)
(***************************************************************************)
Sized == {"String", "bytes", "Vec"}

TooLong(n) == n.type \in Sized /\ n.value > Limit

ToScVal(n) ==
    [type |-> n.type, value |-> IF n.type = "Duration" THEN n.value \div 1000 ELSE n.value]
=============================================================================
