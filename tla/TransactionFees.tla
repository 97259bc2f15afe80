--------------------------- MODULE TransactionFees ---------------------------
(***************************************************************************)
(* How a transaction gets its fee and its Soroban data: the builder and    *)
(* simulate_transaction (transaction.rs), simulate_transaction_with_auth   *)
(* (auth.rs).                                                              *)
(*                                                                         *)
(* A caller adds operations, builds, and simulates as often as it likes,   *)
(* by either path: both functions are public and take the transaction by   *)
(* value, so what one returned may be handed to the other, and a copy kept *)
(* over an error.  The answers of the RPC server are inputs, at prices     *)
(* that change from one to the next.                                       *)
(***************************************************************************)
EXTENDS Integers, Sequences

CONSTANTS
    BaseFee,         \* DEFAULT_TRANSACTION_FEES
    AuthFeeBuffer,   \* AUTH_FEE_BUFFER
    U32, U64,        \* 2^32 and 2^64, or smaller
    MinFees,         \* the min_resource_fee of an answer
    OperationLimit,  \* what a transaction holds: 100
    MaxOperations,   \* bound: operations added to the builder
    MaxAnswers       \* bound: answers of the server

\* The server computes min_resource_fee as a signed 64-bit number.
ASSUME FeesAssumption ==
    /\ BaseFee \in Nat \ {0} /\ AuthFeeBuffer \in Nat
    /\ OperationLimit \in Nat /\ MaxOperations \in Nat /\ MaxAnswers \in Nat
    /\ U32 \in Nat /\ U64 \in Nat
    /\ BaseFee < U32 /\ 2 * (OperationLimit * BaseFee + AuthFeeBuffer) < U64
    /\ 0 \in MinFees /\ \A fee \in MinFees : fee \in Nat /\ 2 * fee < U64

VARIABLES
    operations,  \* how many operations the builder or the transaction has
    tx,          \* the transaction as the caller holds it, or NoTx
    pass,        \* the simulation under way or done last
    result,      \* what the last call returned
    answers      \* auxiliary: the answers of the server so far

vars == <<operations, tx, pass, result, answers>>

\* data, results: they decode.  foreign: an entry has an Address credential.
Answer == [fee : MinFees, error : BOOLEAN, data : BOOLEAN, results : BOOLEAN, foreign : BOOLEAN]

\* An answer that reports an error carries nothing else.
Answers == {a \in Answer : a.error => a.fee = 0 /\ ~a.data /\ a.results /\ ~a.foreign}

\* A transaction without operations is answered with an error.
AnswersNow == {a \in Answers : operations = 0 => a.error}

\* ext is 0 for TransactionExt::V0 and n for V1 with the data of answer n.
Tx == [fee : 1..(U32 - 1), ext : 0..MaxAnswers]
NoTx == [fee |-> 0, ext |-> 0]

TypeOK ==
    /\ operations \in 0..MaxOperations
    /\ tx \in Tx \cup {NoTx}
    /\ tx # NoTx => operations <= OperationLimit
    /\ pass \in {"none", "simulated", "recorded", "enforced"}
    /\ result \in {"None", "Ok", "InvalidArgument", "NotSupported", "SigningFailed", "XdrEncodingFailed",
                   "NetworkRequestFailed", "TransactionSimulationFailed", "TransactionFailed"}
    /\ answers \in Seq(Answers)
    /\ Len(answers) <= MaxAnswers

Init ==
    /\ operations = 0
    /\ tx = NoTx
    /\ pass = "none"
    /\ result = "None"
    /\ answers = <<>>
-----------------------------------------------------------------------------
\* add_operation; extend_footprint_ttl is the same with an operation it makes.
AddOperation ==
    /\ tx = NoTx
    /\ operations < MaxOperations
    /\ operations' = operations + 1
    /\ UNCHANGED <<tx, pass, result, answers>>

Fails(error) ==
    /\ result' = error
    /\ pass' = "none"
    /\ UNCHANGED <<operations, tx>>

\* TransactionBuilder::build.  Both of its errors have one kind.
Build ==
    /\ tx = NoTx
    /\ \/ Fails("XdrEncodingFailed")
       \/ /\ operations <= OperationLimit
          /\ tx' = [fee |-> BaseFee, ext |-> 0]
          /\ result' = "Ok"
          /\ UNCHANGED <<operations, pass>>
    /\ UNCHANGED answers
-----------------------------------------------------------------------------
\* u32::try_from of a sum in u64: a set of one fee, or empty for an error.
TryFrom(sum) == {n \in {sum % U64} : n < U32}

\* Fault: what simulation asks is added to the fee of the last time.
AccumulatedFee(a) == TryFrom(tx.fee + a.fee)

SimulatedFee(a) == TryFrom(operations * BaseFee + a.fee)

AuthFee(a) == TryFrom(operations * BaseFee + a.fee + AuthFeeBuffer)

\* Fault: data the transaction has already is kept.
FirstExt(a) == IF a.data /\ tx.ext = 0 THEN Len(answers) + 1 ELSE tx.ext

NewExt(a) == IF a.data THEN Len(answers) + 1 ELSE tx.ext

Larger(m, n) == IF m < n THEN n ELSE m

Idle == tx # NoTx /\ pass # "recorded" /\ Len(answers) < MaxAnswers

\* simulate_transaction signs what it sends: an account may have no signers, one
\* of them may fail, or they may be more than an envelope holds.
SigningFails ==
    /\ Idle
    /\ Fails("SigningFailed") \/ Fails("XdrEncodingFailed")
    /\ UNCHANGED answers

\* env.simulate_transaction.
RequestFails ==
    /\ Idle \/ pass = "recorded"
    /\ Fails("NetworkRequestFailed")
    /\ UNCHANGED answers

(***************************************************************************)
(* simulate_transaction.  An error in the answer is only printed, results  *)
(* that do not decode count as none, and data that does not decode leaves  *)
(* the extension as it was.                                                *)
(***************************************************************************)
SimulateTransaction(a) ==
    /\ Idle
    /\ answers' = Append(answers, a)
    /\ \/ /\ SimulatedFee(a) = {}
          /\ Fails("InvalidArgument")
       \/ /\ SimulatedFee(a) # {}
          /\ a.results /\ a.foreign
          /\ Fails("NotSupported")
       \/ /\ ~(a.results /\ a.foreign)
          /\ \E fee \in SimulatedFee(a) :
                 tx' = [fee |-> Larger(BaseFee, fee), ext |-> NewExt(a)]
          /\ pass' = "simulated"
          /\ result' = "Ok"
          /\ UNCHANGED operations

(***************************************************************************)
(* simulate_transaction_with_auth: the recording pass and the enforcing    *)
(* one.  What it does with the entries in between is in AuthEntries.       *)
(***************************************************************************)
Record(a) ==
    /\ Idle
    /\ answers' = Append(answers, a)
    /\ \/ Fails("TransactionSimulationFailed")  \* an error, or results too few
       \/ /\ ~a.error /\ a.results
          /\ \/ Fails("NotSupported") \/ Fails("XdrEncodingFailed")  \* entries
             \/ pass' = "recorded" /\ UNCHANGED <<operations, tx, result>>

Enforce(a) ==
    /\ pass = "recorded" /\ Len(answers) < MaxAnswers
    /\ answers' = Append(answers, a)
    /\ \/ /\ a.error
          /\ Fails("TransactionSimulationFailed")
       \/ /\ ~a.error /\ ~a.data
          /\ Fails("TransactionFailed")
       \/ /\ a.data /\ AuthFee(a) = {}
          /\ Fails("InvalidArgument")
       \/ /\ a.data
          /\ \E fee \in AuthFee(a) : tx' = [fee |-> fee, ext |-> Len(answers')]
          /\ pass' = "enforced"
          /\ result' = "Ok"
          /\ UNCHANGED operations
-----------------------------------------------------------------------------
Next ==
    \/ AddOperation \/ Build \/ SigningFails \/ RequestFails
    \/ \E a \in AnswersNow : SimulateTransaction(a) \/ Record(a) \/ Enforce(a)

Spec == Init /\ [][Next]_vars
-----------------------------------------------------------------------------
Simulated == result = "Ok" /\ pass \in {"simulated", "enforced"}

\* What answer n asks, in exact arithmetic.
Needed(n) == operations * BaseFee + answers[n].fee

Margin == IF pass = "enforced" THEN AuthFeeBuffer ELSE 0

\* Whatever was simulated before and at whatever price, a simulation that
\* succeeds leaves the fee its own answer asks for: not cut off at a width, not
\* added up over simulations, not the recording pass's
\* (transaction.rs:293-299, auth.rs:296-301).
FeeIsOfLatestAnswer ==
    Simulated => LET n == Len(answers) IN
        /\ tx.fee >= Needed(n) + Margin
        /\ tx.fee <= Larger(BaseFee, Needed(n) + Margin)

\* Whatever was simulated since a transaction got its resources, with success or
\* not, its fee pays for them; unless a later simulation that gave no resources,
\* with an error or data that does not decode, has put its own fee in place and
\* left the old resources.  A call that failed never does (transaction.rs:293-333).
ResourcesArePaid ==
    tx.ext # 0 =>
        /\ answers[tx.ext].data
        /\ \/ tx.fee >= Needed(tx.ext)
           \/ \E n \in (tx.ext + 1)..Len(answers) :
                  ~answers[n].data /\ tx.fee = Larger(BaseFee, Needed(n))
=============================================================================
