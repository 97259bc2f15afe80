----------------------------- MODULE MCPrograms -----------------------------
(***************************************************************************)
(* Runs of the example programs for TLC: any two, with one key or with     *)
(* one each, and a client of any of the sources.                           *)
(***************************************************************************)
EXTENDS Programs, TLC

Fn(name, public, params, returns) ==
    [name |-> name, public |-> public, env |-> TRUE, params |-> params, returns |-> returns]
Envless(name, params) == [Fn(name, TRUE, params, TRUE) EXCEPT !.env = FALSE]
Struct(name) == [kind |-> "struct", name |-> name, functions |-> <<>>]
Impl(functions) == [kind |-> "impl", name |-> "", functions |-> functions]
Use == [kind |-> "use", name |-> "", functions |-> <<>>]

\* fixtures/lib.rs.
Fixture == <<Use, Struct("TokenMock"),
             Impl(<<Fn("__constructor", TRUE, 2, FALSE), Fn("send", TRUE, 3, TRUE)>>)>>

\* Two impl blocks, and a second struct after the contract, as in crates/multisig.
Blocks == <<Struct("Token"), Impl(<<Fn("new", TRUE, 1, TRUE), Fn("total", TRUE, 1, TRUE)>>), Use,
            Struct("Signature"), Impl(<<Fn("burn", TRUE, 2, TRUE)>>)>>

\* A private helper, which gets a method too.
Helper == <<Struct("Token"), Impl(<<Fn("send", TRUE, 2, TRUE), Fn("check", FALSE, 2, TRUE)>>)>>

\* Functions that do without the env: one without parameters, and one whose only
\* argument its method loses.
Bare == <<Struct("Token"), Impl(<<Envless("total", 0), Envless("burn", 1)>>)>>

\* A function without a return type, and a source without a struct.
Silent == <<Struct("Token"), Impl(<<Fn("burn", TRUE, 2, FALSE)>>)>>
Empty == <<Use, Impl(<<Fn("burn", TRUE, 2, TRUE)>>)>>

MCSources == {Fixture, Blocks, Helper, Bare, Silent, Empty}

\* A value converted as it is, a Duration, a String that fits and one that does not.
MCNatives == {[type |-> "u32", value |-> 7], [type |-> "Duration", value |-> 1500],
              [type |-> "String", value |-> 2], [type |-> "String", value |-> 3]}

Symmetry == Permutations(Runs)
=============================================================================
