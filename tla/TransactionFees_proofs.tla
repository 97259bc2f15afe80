------------------------ MODULE TransactionFees_proofs ------------------------
(***************************************************************************)
(* Proofs about TransactionFees: for any prices, widths and operation      *)
(* limit that FeesAssumption allows, and any sequence of simulations.      *)
(***************************************************************************)
EXTENDS TransactionFees, TLAPS

\* A simulated transaction is a transaction, and was answered; the resources of
\* one are of an answer there was.
Phases ==
    /\ pass # "none" => tx # NoTx
    /\ tx.ext \in 0..Len(answers)
    /\ Simulated => Len(answers) > 0

IInv == TypeOK /\ Phases /\ FeeIsOfLatestAnswer /\ ResourcesArePaid
-----------------------------------------------------------------------------
(***************************************************************************)
(* The arithmetic.                                                         *)
(***************************************************************************)
\* The fees of the operations stay below those of a full transaction.
LEMMA OperationFees ==
    ASSUME NEW n \in Nat, n <= OperationLimit
    PROVE  n * BaseFee \in Nat /\ n * BaseFee <= OperationLimit * BaseFee
BY FeesAssumption

\* The sums of transaction.rs:293-295 and auth.rs:296-298 do not wrap in u64, so
\* that narrowing one gives the sum itself or an error.
LEMMA SumIsExact ==
    ASSUME NEW n \in Nat, n <= OperationLimit, NEW fee \in MinFees, NEW extra \in {0, AuthFeeBuffer},
           NEW m \in TryFrom(n * BaseFee + fee + extra)
    PROVE  m = n * BaseFee + fee + extra /\ m < U32 /\ m \in Nat
<1>1. n * BaseFee \in Nat /\ n * BaseFee <= OperationLimit * BaseFee
    BY OperationFees
<1>2. OperationLimit * BaseFee \in Nat
    BY FeesAssumption
<1> DEFINE sum == n * BaseFee + fee + extra
<1>3. fee \in Nat /\ extra \in Nat /\ 2 * fee < U64 /\ U64 \in Nat /\ U64 > 0
    BY FeesAssumption
<1>4. sum \in Nat /\ sum < U64
    BY <1>1, <1>2, <1>3, FeesAssumption
<1>5. sum % U64 = sum
    BY <1>3, <1>4
<1> QED BY <1>4, <1>5 DEF TryFrom

LEMMA LargerIsEither ==
    ASSUME NEW m \in Nat, NEW n \in Nat
    PROVE  /\ Larger(m, n) \in {m, n}
           /\ Larger(m, n) >= m /\ Larger(m, n) >= n
BY DEF Larger
-----------------------------------------------------------------------------
(***************************************************************************)
(* The steps.                                                              *)
(***************************************************************************)
\* An answer that has arrived, whatever it leads to.
LEMMA Appended ==
    ASSUME TypeOK, Len(answers) < MaxAnswers, NEW a \in Answers, answers' = Append(answers, a)
    PROVE  /\ answers' \in Seq(Answers)
           /\ Len(answers') = Len(answers) + 1 /\ Len(answers') \in 1..MaxAnswers
           /\ answers'[Len(answers')] = a
BY FeesAssumption DEF TypeOK

\* At most one answer arrives in a step.
Arrives ==
    \/ answers' = answers
    \/ Len(answers) < MaxAnswers /\ \E a \in Answers : answers' = Append(answers, a)

\* As long as the transaction stays, its resources are paid or not as before:
\* answers that come only add to those there were.
LEMMA ResourcesStay ==
    ASSUME IInv, UNCHANGED <<operations, tx>>, Arrives
    PROVE  /\ answers' \in Seq(Answers) /\ Len(answers') <= MaxAnswers
           /\ tx'.ext \in 0..Len(answers')
           /\ ResourcesArePaid'
<1>1. /\ answers' \in Seq(Answers) /\ Len(answers') <= MaxAnswers
      /\ Len(answers') >= Len(answers) /\ Len(answers) \in Nat /\ Len(answers') \in Nat
      /\ \A n \in 1..Len(answers) : answers'[n] = answers[n]
    <2>1. CASE answers' = answers
        BY <2>1 DEF IInv, TypeOK
    <2>2. CASE Len(answers) < MaxAnswers /\ \E a \in Answers : answers' = Append(answers, a)
        <3>1. PICK a \in Answers : answers' = Append(answers, a)
            BY <2>2
        <3> QED BY <2>2, <3>1, FeesAssumption DEF IInv, TypeOK
    <2> QED BY <2>1, <2>2 DEF Arrives
<1>2. tx'.ext \in 0..Len(answers')
    BY <1>1 DEF IInv, Phases
<1>3. ASSUME tx.ext # 0
      PROVE  /\ answers'[tx.ext].data
             /\ \/ tx.fee >= Needed(tx.ext)'
                \/ \E n \in (tx.ext + 1)..Len(answers') :
                       ~answers'[n].data /\ tx.fee = Larger(BaseFee, Needed(n)')
    <2>1. tx.ext \in 1..Len(answers) /\ answers[tx.ext].data
        BY <1>3 DEF IInv, Phases, ResourcesArePaid
    <2>2. \A n \in 1..Len(answers) : Needed(n)' = Needed(n)
        BY <1>1 DEF Needed
    <2>3. CASE tx.fee >= Needed(tx.ext)
        BY <1>1, <2>1, <2>2, <2>3
    <2>4. CASE \E n \in (tx.ext + 1)..Len(answers) :
                   ~answers[n].data /\ tx.fee = Larger(BaseFee, Needed(n))
        <3>1. PICK n \in (tx.ext + 1)..Len(answers) :
                  ~answers[n].data /\ tx.fee = Larger(BaseFee, Needed(n))
            BY <2>4
        <3>2. n \in 1..Len(answers) /\ n \in (tx.ext + 1)..Len(answers')
            BY <1>1, <2>1
        <3> QED BY <1>1, <2>1, <2>2, <3>1, <3>2
    <2> QED BY <1>3, <2>3, <2>4 DEF IInv, ResourcesArePaid
<1>4. ResourcesArePaid'
    BY <1>3 DEF ResourcesArePaid
<1> QED BY <1>1, <1>2, <1>4

\* A call that fails leaves the caller the copy it kept.
LEMMA FailsKeepsIInv ==
    ASSUME IInv, NEW error, Fails(error), Arrives,
           error \in {"InvalidArgument", "NotSupported", "SigningFailed", "XdrEncodingFailed",
                      "NetworkRequestFailed", "TransactionSimulationFailed", "TransactionFailed"}
    PROVE  IInv'
<1>1. /\ answers' \in Seq(Answers) /\ Len(answers') <= MaxAnswers
      /\ tx'.ext \in 0..Len(answers') /\ ResourcesArePaid'
    BY ResourcesStay DEF Fails
<1>2. TypeOK' /\ Phases'
    BY <1>1 DEF IInv, TypeOK, Phases, Fails, Simulated
<1>3. ~Simulated'
    BY DEF Fails, Simulated
<1> QED BY <1>1, <1>2, <1>3 DEF IInv, FeeIsOfLatestAnswer

\* What a simulation that succeeds must leave.
LEMMA SucceedsKeepsIInv ==
    ASSUME IInv, NEW a \in Answers, Len(answers) < MaxAnswers, answers' = Append(answers, a),
           tx # NoTx, UNCHANGED operations, result' = "Ok",
           NEW fee \in 1..(U32 - 1), NEW ext \in 0..MaxAnswers, tx' = [fee |-> fee, ext |-> ext],
           pass' \in {"simulated", "enforced"},
           IF a.data THEN ext = Len(answers) + 1
           ELSE ext = tx.ext /\ fee = Larger(BaseFee, operations * BaseFee + a.fee),
           LET sum == operations * BaseFee + a.fee
                      + (IF pass' = "enforced" THEN AuthFeeBuffer ELSE 0)
           IN  fee >= sum /\ fee <= Larger(BaseFee, sum)
    PROVE  IInv'
<1>1. /\ answers' \in Seq(Answers)
      /\ Len(answers') = Len(answers) + 1 /\ Len(answers') \in 1..MaxAnswers
      /\ answers'[Len(answers')] = a
    BY Appended DEF IInv
<1>2. tx' \in Tx /\ tx' # NoTx /\ tx'.fee = fee /\ tx'.ext = ext
    BY FeesAssumption DEF Tx, NoTx
<1>3. TypeOK'
    BY <1>1, <1>2 DEF IInv, TypeOK
<1>4. FeeIsOfLatestAnswer'
    BY <1>1, <1>2 DEF FeeIsOfLatestAnswer, Needed, Margin
<1>5. ResourcesArePaid' /\ tx'.ext \in 0..Len(answers')
    <2> DEFINE last == Len(answers) + 1
               sum == operations * BaseFee + a.fee
    <2>1. /\ last = Len(answers') /\ answers'[last] = a /\ last \in 1..MaxAnswers
          /\ operations' * BaseFee + answers'[last].fee = sum
        BY <1>1
    <2> HIDE DEF last, sum
    <2>2. ASSUME a.data PROVE ResourcesArePaid'
        <3>1. tx'.ext = last
            BY <1>2, <2>2 DEF last
        <3>2. operations * BaseFee \in Nat
            BY OperationFees, FeesAssumption DEF IInv, TypeOK
        <3>3. a.fee \in Nat
            BY FeesAssumption DEF Answers, Answer
        <3>4. sum \in Nat /\ fee \in Nat /\ AuthFeeBuffer \in Nat
            BY <3>2, <3>3, FeesAssumption DEF sum
        <3>5. fee >= sum + (IF pass' = "enforced" THEN AuthFeeBuffer ELSE 0)
            BY DEF sum
        <3>6. tx'.fee >= sum
            BY <1>2, <3>4, <3>5
        <3> QED BY <1>1, <2>1, <2>2, <3>1, <3>6 DEF ResourcesArePaid, Needed
    <2>3. ASSUME ~a.data PROVE ResourcesArePaid'
        <3>1. tx'.ext = tx.ext /\ tx.ext \in 0..Len(answers) /\ Len(answers) \in Nat
            BY <1>2, <2>3 DEF IInv, TypeOK, Phases
        <3>2. tx.ext # 0 => answers[tx.ext].data /\ answers'[tx.ext] = answers[tx.ext]
            BY <3>1 DEF IInv, TypeOK, ResourcesArePaid
        <3>3. last \in (tx.ext + 1)..Len(answers')
            BY <2>1, <3>1 DEF last
        <3>4. tx'.fee = Larger(BaseFee, sum)
            BY <1>2, <2>3 DEF sum
        <3>5. tx'.ext # 0 =>
                  \E n \in (tx'.ext + 1)..Len(answers') :
                      /\ ~answers'[n].data
                      /\ tx'.fee = Larger(BaseFee, operations' * BaseFee + answers'[n].fee)
            BY <2>1, <2>3, <3>1, <3>3, <3>4
        <3>6. tx'.ext # 0 => answers'[tx'.ext].data
            BY <3>1, <3>2
        <3> QED BY <3>5, <3>6 DEF ResourcesArePaid, Needed
    <2>4. tx'.ext \in 0..Len(answers')
        BY <1>2, <2>1 DEF IInv, Phases, TypeOK, last
    <2> QED BY <2>2, <2>3, <2>4
<1>6. Phases'
    BY <1>1, <1>2, <1>5 DEF Phases
<1> QED BY <1>3, <1>4, <1>5, <1>6 DEF IInv

LEMMA SimulateKeepsIInv ==
    ASSUME IInv, NEW a \in Answers, SimulateTransaction(a)
    PROVE  IInv'
<1>1. Idle /\ tx # NoTx /\ Len(answers) < MaxAnswers /\ answers' = Append(answers, a)
    BY DEF SimulateTransaction, Idle
<1>2. Arrives
    BY <1>1 DEF Arrives
<1>3. CASE Fails("InvalidArgument") \/ Fails("NotSupported")
    BY <1>2, <1>3, FailsKeepsIInv
<1>4. CASE pass' = "simulated"
    <2>1. PICK fee \in SimulatedFee(a) :
              tx' = [fee |-> Larger(BaseFee, fee), ext |-> NewExt(a)]
        BY <1>4 DEF SimulateTransaction, Fails
    <2>2. result' = "Ok" /\ UNCHANGED operations
        BY <1>4 DEF SimulateTransaction, Fails
    <2>3. operations \in Nat /\ operations <= OperationLimit /\ a.fee \in MinFees
        BY <1>1, FeesAssumption DEF IInv, TypeOK, Answers, Answer
    <2> DEFINE sum == operations * BaseFee + a.fee
    <2>4. sum \in Nat /\ sum = sum + 0
        BY <2>3, OperationFees, FeesAssumption
    <2>5. fee \in TryFrom(operations * BaseFee + a.fee + 0)
        BY <2>4 DEF SimulatedFee
    <2>6. fee = sum /\ fee < U32 /\ fee \in Nat
        BY <2>3, <2>4, <2>5, SumIsExact
    <2>7. Larger(BaseFee, fee) \in 1..(U32 - 1) /\ Larger(BaseFee, fee) >= fee
        BY <2>6, LargerIsEither, FeesAssumption
    <2>8. /\ NewExt(a) \in 0..MaxAnswers
          /\ IF a.data THEN NewExt(a) = Len(answers) + 1
             ELSE NewExt(a) = tx.ext /\ Larger(BaseFee, fee) = Larger(BaseFee, operations * BaseFee + a.fee)
        BY <1>1, <2>6, FeesAssumption DEF IInv, TypeOK, NewExt, Tx, NoTx
    <2>9. LET s == operations * BaseFee + a.fee + (IF pass' = "enforced" THEN AuthFeeBuffer ELSE 0)
          IN  Larger(BaseFee, fee) >= s /\ Larger(BaseFee, fee) <= Larger(BaseFee, s)
        BY <1>4, <2>4, <2>6, <2>7, FeesAssumption
    <2> QED BY <1>1, <1>4, <2>1, <2>2, <2>7, <2>8, <2>9, SucceedsKeepsIInv
<1> QED BY <1>3, <1>4 DEF SimulateTransaction

LEMMA RecordKeepsIInv ==
    ASSUME IInv, NEW a \in Answers, Record(a)
    PROVE  IInv'
<1>1. tx # NoTx /\ Len(answers) < MaxAnswers /\ answers' = Append(answers, a)
    BY DEF Record, Idle
<1>2. Arrives
    BY <1>1 DEF Arrives
<1>3. CASE \E error \in {"TransactionSimulationFailed", "NotSupported", "XdrEncodingFailed"} : Fails(error)
    BY <1>2, <1>3, FailsKeepsIInv
<1>4. CASE pass' = "recorded" /\ UNCHANGED <<operations, tx, result>>
    <2>1. /\ answers' \in Seq(Answers) /\ Len(answers') <= MaxAnswers
          /\ tx'.ext \in 0..Len(answers') /\ ResourcesArePaid'
        BY <1>2, <1>4, ResourcesStay
    <2>2. TypeOK' /\ Phases'
        BY <1>1, <1>4, <2>1 DEF IInv, TypeOK, Phases, Simulated
    <2>3. ~Simulated'
        BY <1>4 DEF Simulated
    <2> QED BY <2>1, <2>2, <2>3 DEF IInv, FeeIsOfLatestAnswer
<1> QED BY <1>3, <1>4 DEF Record

LEMMA EnforceKeepsIInv ==
    ASSUME IInv, NEW a \in AnswersNow, Enforce(a)
    PROVE  IInv'
<1>1. pass = "recorded" /\ Len(answers) < MaxAnswers /\ answers' = Append(answers, a)
    BY DEF Enforce
<1>2. a \in Answers /\ tx # NoTx
    BY <1>1 DEF AnswersNow, IInv, Phases
<1>3. answers' \in Seq(Answers) /\ Len(answers') = Len(answers) + 1 /\ Len(answers') \in 1..MaxAnswers
    BY <1>1, <1>2, Appended DEF IInv
<1>4. CASE \E error \in {"TransactionSimulationFailed", "TransactionFailed", "InvalidArgument"} :
               Fails(error)
    BY <1>1, <1>2, <1>4, FailsKeepsIInv DEF Arrives
<1>5. CASE pass' = "enforced"
    <2>1. PICK fee \in AuthFee(a) : tx' = [fee |-> fee, ext |-> Len(answers')]
        BY <1>5 DEF Enforce, Fails
    <2>2. a.data /\ result' = "Ok" /\ UNCHANGED operations
        BY <1>5 DEF Enforce, Fails
    <2>3. operations # 0
        BY <1>2, <2>2 DEF AnswersNow, Answers
    <2>4. operations \in Nat /\ operations <= OperationLimit /\ a.fee \in MinFees
        BY <1>2, FeesAssumption DEF IInv, TypeOK, Answers, Answer
    <2>5. fee = operations * BaseFee + a.fee + AuthFeeBuffer /\ fee < U32 /\ fee \in Nat
        BY <2>4, SumIsExact DEF AuthFee
    <2>6. operations * BaseFee \in Nat /\ operations * BaseFee >= 1
        BY <2>3, <2>4, FeesAssumption
    <2> DEFINE base == operations * BaseFee
    <2>7. fee \in 1..(U32 - 1)
        <3> HIDE DEF base
        <3>1. base \in Nat /\ base >= 1 /\ fee = base + a.fee + AuthFeeBuffer
            BY <2>5, <2>6 DEF base
        <3> QED BY <2>4, <2>5, <3>1, FeesAssumption
    <2>8. fee <= Larger(BaseFee, fee)
        BY <2>5, LargerIsEither, FeesAssumption
    <2> QED BY <1>1, <1>2, <1>3, <1>5, <2>1, <2>2, <2>5, <2>7, <2>8, SucceedsKeepsIInv, FeesAssumption
<1> QED BY <1>4, <1>5 DEF Enforce

LEMMA OthersKeepIInv ==
    ASSUME IInv, AddOperation \/ Build \/ SigningFails \/ RequestFails \/ UNCHANGED vars
    PROVE  IInv'
<1>1. CASE AddOperation
    <2>1. pass = "none" /\ ~Simulated' /\ tx'.ext = 0
        BY <1>1 DEF AddOperation, IInv, Phases, Simulated, NoTx
    <2>2. TypeOK' /\ Phases'
        BY <1>1, <2>1, FeesAssumption DEF AddOperation, IInv, TypeOK, Phases
    <2> QED BY <2>1, <2>2 DEF IInv, FeeIsOfLatestAnswer, ResourcesArePaid
<1>2. CASE Build
    <2>1. CASE Fails("XdrEncodingFailed")
        BY <1>2, <2>1, FailsKeepsIInv DEF Build, Arrives
    <2>2. CASE ~Fails("XdrEncodingFailed")
        <3>1. /\ tx = NoTx /\ operations <= OperationLimit /\ tx' = [fee |-> BaseFee, ext |-> 0]
              /\ result' = "Ok" /\ UNCHANGED <<operations, pass, answers>>
            BY <1>2, <2>2 DEF Build
        <3>2. tx' \in Tx /\ tx' # NoTx /\ tx'.ext = 0
            BY <3>1, FeesAssumption DEF Tx, NoTx
        <3>3. pass = "none" /\ ~Simulated' /\ Len(answers) \in Nat
            BY <3>1 DEF IInv, TypeOK, Phases, Simulated
        <3>4. TypeOK' /\ Phases'
            BY <3>1, <3>2, <3>3 DEF IInv, TypeOK, Phases
        <3>5. FeeIsOfLatestAnswer'
            BY <3>3 DEF FeeIsOfLatestAnswer
        <3>6. ResourcesArePaid'
            BY <3>2 DEF ResourcesArePaid
        <3> QED BY <3>4, <3>5, <3>6 DEF IInv
    <2> QED BY <2>1, <2>2
<1>3. CASE SigningFails \/ RequestFails
    BY <1>3, FailsKeepsIInv DEF SigningFails, RequestFails, Arrives
<1>4. CASE UNCHANGED vars
    BY <1>4 DEF vars, IInv, TypeOK, Phases, Simulated, FeeIsOfLatestAnswer, ResourcesArePaid,
                Needed, Margin
<1> QED BY <1>1, <1>2, <1>3, <1>4

LEMMA InitIInv == Init => IInv
BY FeesAssumption DEF Init, IInv, TypeOK, Phases, Simulated, FeeIsOfLatestAnswer,
                      ResourcesArePaid, NoTx, Tx

LEMMA NextKeepsIInv == IInv /\ [Next]_vars => IInv'
<1> SUFFICES ASSUME IInv, [Next]_vars PROVE IInv'
    OBVIOUS
<1>1. \A a \in AnswersNow : a \in Answers
    BY DEF AnswersNow
<1>2. ASSUME NEW a \in AnswersNow, SimulateTransaction(a) PROVE IInv'
    BY <1>1, <1>2, SimulateKeepsIInv
<1>3. ASSUME NEW a \in AnswersNow, Record(a) PROVE IInv'
    BY <1>1, <1>3, RecordKeepsIInv
<1>4. ASSUME NEW a \in AnswersNow, Enforce(a) PROVE IInv'
    BY <1>4, EnforceKeepsIInv
<1>5. CASE AddOperation \/ Build \/ SigningFails \/ RequestFails \/ UNCHANGED vars
    BY <1>5, OthersKeepIInv
<1> QED BY <1>2, <1>3, <1>4, <1>5 DEF Next
-----------------------------------------------------------------------------
\* The invariant holds in every reachable state.
THEOREM Invariance == Spec => []IInv
BY InitIInv, NextKeepsIInv, PTL DEF Spec

\* A fee is a positive u32, whatever the server asks (transaction.rs:295-299).
THEOREM TypeCorrect == Spec => []TypeOK
<1>1. IInv => TypeOK
    BY DEF IInv
<1> QED BY <1>1, Invariance, PTL

\* After any number of simulations on either path, the fee is what the last
\* answer asks, or the base fee where that is more (transaction.rs:293-299,
\* auth.rs:296-301).
THEOREM FeeIsExact == Spec => []FeeIsOfLatestAnswer
<1>1. IInv => FeeIsOfLatestAnswer
    BY DEF IInv
<1> QED BY <1>1, Invariance, PTL

\* For any sequence of simulations on either path, successful or not, the fee of a
\* transaction pays for its resources, unless a later answer without any, an error
\* or one that does not decode, put its own fee in place (transaction.rs:293-333).
THEOREM FeePaysForResources == Spec => []ResourcesArePaid
<1>1. IInv => ResourcesArePaid
    BY DEF IInv
<1> QED BY <1>1, Invariance, PTL
=============================================================================
