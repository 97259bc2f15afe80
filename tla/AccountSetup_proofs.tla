------------------------- MODULE AccountSetup_proofs -------------------------
(***************************************************************************)
(* Proofs about AccountSetup: any number of administrators, keys, weights  *)
(* and thresholds, and configurations of any length.  Then the parser they *)
(* share with TransactionResults, and that specification: any number of    *)
(* transactions, contracts, values and lists of events.                    *)
(***************************************************************************)
EXTENDS AccountSetup, TransactionResults, WellFoundedInduction, TLAPS

-----------------------------------------------------------------------------
(***************************************************************************)
(* The ledger applies the operations of a configuration one after the      *)
(* other.  That this adds up to the configuration is an induction over     *)
(* their number, carried out with the least counterexample.                *)
(***************************************************************************)
\* A set of numbers has a least one.
LEMMA Least ==
    ASSUME NEW T \in SUBSET Nat, T # {}
    PROVE  \E n \in T : \A m \in T : n <= m
<1>1. PICK n \in T : \A m \in T : ~(<<m, n>> \in OpToRel(<, Nat))
  BY NatLessThanWellFounded, WFMin
<1>2. \A m \in T : ~(m < n)
  BY <1>1 DEF OpToRel
<1> QED
  BY <1>2

\* F is the recursion of AfterEach over the first m operations.
StepsOf(acc, ops, m, F) ==
    F = [n \in 0..m |-> IF n = 0 THEN acc ELSE ApplyOperation(F[n - 1], ops[n])]

\* The recursion defines a function.
LEMMA StepsExist ==
    ASSUME NEW acc, NEW ops, NEW m \in Nat
    PROVE  \E F : StepsOf(acc, ops, m, F)
<1> DEFINE T == {n \in Nat : ~\E F : StepsOf(acc, ops, n, F)}
<1> SUFFICES ASSUME T # {} PROVE FALSE
  OBVIOUS
<1>1. PICK n \in T : \A k \in T : n <= k
  <2> HIDE DEF T
  <2>1. T \in SUBSET Nat
    BY DEF T
  <2> QED
    BY <2>1, Least
<1>2. CASE n = 0
  <2> DEFINE F == [k \in 0..0 |-> acc]
  <2>1. StepsOf(acc, ops, 0, F)
    BY DEF StepsOf
  <2> QED
    BY <2>1, <1>1, <1>2
<1>3. CASE n # 0
  <2>1. n - 1 \in Nat /\ n - 1 \notin T
    BY <1>1, <1>3
  <2>2. PICK F : StepsOf(acc, ops, n - 1, F)
    BY <2>1
  <2> DEFINE last == ApplyOperation(F[n - 1], ops[n])
             H == [k \in 0..n |-> IF k < n THEN F[k] ELSE last]
  <2>3. ASSUME NEW k \in 0..n
        PROVE  H[k] = IF k = 0 THEN acc ELSE ApplyOperation(H[k - 1], ops[k])
    <3> HIDE DEF last
    <3>1. CASE k = 0
      BY <3>1, <2>1, <2>2, <1>3 DEF StepsOf
    <3>2. CASE k # 0 /\ k < n
      <4>1. k \in 0..(n - 1) /\ k - 1 \in 0..n /\ k - 1 < n
        BY <3>2
      <4>2. H[k] = F[k] /\ H[k - 1] = F[k - 1]
        BY <3>2, <4>1
      <4>3. F[k] = ApplyOperation(F[k - 1], ops[k])
        BY <3>2, <4>1, <2>2 DEF StepsOf
      <4> QED
        BY <3>2, <4>2, <4>3
    <3>3. CASE k = n
      <4>1. H[n] = last /\ H[n - 1] = F[n - 1]
        BY <2>1
      <4> QED
        BY <3>3, <4>1, <1>3 DEF last
    <3> QED
      BY <3>1, <3>2, <3>3
  <2>4. StepsOf(acc, ops, n, H)
    <3> HIDE DEF last
    <3>1. H = [k \in 0..n |-> H[k]]
      OBVIOUS
    <3> HIDE DEF H
    <3> QED
      BY <2>3, <3>1 DEF StepsOf
  <2> QED
    BY <2>4, <1>1
<1> QED
  BY <1>2, <1>3

\* What one operation after the other means.
LEMMA AfterEachSteps ==
    ASSUME NEW acc, NEW ops, Len(ops) \in Nat
    PROVE  /\ AfterEach(acc, ops)[0] = acc
           /\ \A n \in 1..Len(ops) :
                  AfterEach(acc, ops)[n] = ApplyOperation(AfterEach(acc, ops)[n - 1], ops[n])
<1> DEFINE P(F) == StepsOf(acc, ops, Len(ops), F)
<1>1. AfterEach(acc, ops) = CHOOSE F : P(F)
  BY Zenon DEF AfterEach, StepsOf
<1>2. \E F : P(F)
  BY StepsExist
<1>3. P(AfterEach(acc, ops))
  <2> HIDE DEF P
  <2> QED
    BY <1>1, <1>2
<1> DEFINE F == AfterEach(acc, ops)
<1>4. StepsOf(acc, ops, Len(ops), F)
  BY <1>3
<1> HIDE DEF F
<1>5. F[0] = acc /\ \A n \in 1..Len(ops) : F[n] = ApplyOperation(F[n - 1], ops[n])
  BY <1>4 DEF StepsOf
<1> QED
  BY <1>5 DEF F

\* An operation leaves an account of the same sequence number.
LEMMA OperationType ==
    ASSUME NEW acc \in AccountEntry, NEW op \in SetOptions
    PROVE  /\ ApplyOperation(acc, op) \in AccountEntry
           /\ ApplyOperation(acc, op) =
                  [seq |-> acc.seq, master |-> Chosen(op.master, acc.master),
                   thresholds |-> Chosen(op.thresholds, acc.thresholds),
                   signers |-> IF op.signer = None THEN acc.signers
                               ELSE [acc.signers EXCEPT ![op.signer[1]] = op.signer[2]]]
<1> DEFINE master == Chosen(op.master, acc.master)
           thresholds == Chosen(op.thresholds, acc.thresholds)
           signers == IF op.signer = None THEN acc.signers
                      ELSE [acc.signers EXCEPT ![op.signer[1]] = op.signer[2]]
<1>1. acc.seq \in Nat /\ acc.signers \in [Keys -> Weights]
  BY DEF AccountEntry
<1>2. master \in Weights /\ thresholds \in ThresholdSet
  BY AccountSetupAssumption DEF Chosen, SetOptions, AccountEntry, Options, ThresholdSet
<1>3. signers \in [Keys -> Weights]
  BY <1>1 DEF SetOptions
<1>4. ApplyOperation(acc, op) = [acc EXCEPT !.master = master, !.thresholds = thresholds,
                                            !.signers = signers]
  BY DEF ApplyOperation
<1> HIDE DEF master, thresholds, signers
<1>5. ApplyOperation(acc, op) = [seq |-> acc.seq, master |-> master, thresholds |-> thresholds,
                                 signers |-> signers]
  BY <1>4 DEF AccountEntry
<1> QED
  BY <1>1, <1>2, <1>3, <1>5 DEF AccountEntry, master, thresholds, signers

\* The weight of a key after the first n signers of a configuration.
Places(c, k, n) == {i \in 1..n : c.signers[i][1] = k}
LastOf(c, places, old) ==
    IF places = {} THEN old ELSE c.signers[CHOOSE i \in places : \A j \in places : j <= i][2]
WeightAt(c, k, n, old) == LastOf(c, Places(c, k, n), old)

\* Each signer of the configuration replaces the weight of its own key and of no other.
LEMMA WeightAtSteps ==
    ASSUME NEW c, NEW k, NEW n \in Nat, NEW old
    PROVE  /\ WeightAt(c, k, 0, old) = old
           /\ WeightAt(c, k, n + 1, old) = IF c.signers[n + 1][1] = k THEN c.signers[n + 1][2]
                                           ELSE WeightAt(c, k, n, old)
<1>1. Places(c, k, 0) = {}
  BY DEF Places
<1>2. Places(c, k, n + 1) = IF c.signers[n + 1][1] = k THEN Places(c, k, n) \cup {n + 1}
                            ELSE Places(c, k, n)
  <2>1. 1..(n + 1) = (1..n) \cup {n + 1}
    OBVIOUS
  <2> QED
    BY <2>1 DEF Places
<1>3. CASE c.signers[n + 1][1] = k
  <2> DEFINE P == Places(c, k, n + 1)
  <2>1. n + 1 \in P /\ \A j \in P : j <= n + 1 /\ j \in Nat
    BY <1>2, <1>3 DEF Places
  <2> HIDE DEF P
  <2>2. (CHOOSE i \in P : \A j \in P : j <= i) = n + 1
    <3>1. \A i \in P : (\A j \in P : j <= i) => i = n + 1
      BY <2>1
    <3> QED
      BY <2>1, <3>1
  <2>3. WeightAt(c, k, n + 1, old) = IF P = {} THEN old
                                     ELSE c.signers[CHOOSE i \in P : \A j \in P : j <= i][2]
    BY DEF P, WeightAt, LastOf
  <2>4. WeightAt(c, k, n + 1, old) = c.signers[n + 1][2]
    BY <2>1, <2>2, <2>3
  <2> QED
    BY <1>1, <1>3, <2>4 DEF WeightAt, LastOf
<1>4. CASE c.signers[n + 1][1] # k
  <2>1. Places(c, k, n + 1) = Places(c, k, n)
    BY <1>2, <1>4
  <2>2. WeightAt(c, k, n + 1, old) = WeightAt(c, k, n, old)
    BY <2>1 DEF WeightAt
  <2> QED
    BY <1>1, <1>4, <2>2 DEF WeightAt, LastOf
<1> QED
  BY <1>3, <1>4

\* configure has an operation for each signer, and the thresholds come last.
LEMMA OperationsFacts ==
    ASSUME NEW c \in Config
    PROVE  LET ops == OperationsOf(c)
               n == Len(c.signers)
               set == c.master # Unset \/ c.thresholds # Unset
           IN  /\ n \in Nat /\ c.signers \in Seq(Keys \X Weights) /\ DOMAIN c.signers = 1..n
               /\ ops \in Seq(SetOptions)
               /\ Len(ops) \in {n, n + 1}
               /\ ~set => Len(ops) = n
               /\ \A i \in 1..n : ops[i] = CreateSignerOperation(c.signers[i])
               /\ set => Len(ops) = n + 1 /\ ops[n + 1] =
                      [master |-> c.master, thresholds |-> c.thresholds, signer |-> None]
<1> DEFINE n == Len(c.signers)
           set == c.master # Unset \/ c.thresholds # Unset
           adds == [i \in DOMAIN c.signers |-> CreateSignerOperation(c.signers[i])]
           sets == CreateThresholdsOperation(c)
           op == [master |-> c.master, thresholds |-> c.thresholds, signer |-> None]
<1>1. /\ c.signers \in Seq(Keys \X Weights) /\ n \in Nat /\ DOMAIN c.signers = 1..n
      /\ c.master \in Options /\ c.thresholds \in Thresholds \cup {Unset}
  BY DEF Config
<1>2. \A i \in 1..n : CreateSignerOperation(c.signers[i]) \in SetOptions
  <2>1. \A i \in 1..n : c.signers[i] \in Keys \X Weights
    BY <1>1
  <2> QED
    BY <2>1 DEF CreateSignerOperation, SetOptions, Options
<1>3. adds \in Seq(SetOptions) /\ Len(adds) = n
  BY <1>1, <1>2
<1>4. op \in SetOptions
  BY <1>1 DEF SetOptions
<1>5. sets = IF set THEN <<op>> ELSE <<>>
  BY DEF CreateThresholdsOperation
<1>6. OperationsOf(c) = adds \o sets
  BY DEF OperationsOf
<1>7. \A i \in 1..n : adds[i] = CreateSignerOperation(c.signers[i])
  BY <1>1
<1> HIDE DEF adds, sets, op, n
<1>8. CASE set
  <2>1. sets = <<op>>
    BY <1>5, <1>8
  <2>2. /\ adds \o <<op>> \in Seq(SetOptions) /\ Len(adds \o <<op>>) = n + 1
        /\ \A i \in 1..n : (adds \o <<op>>)[i] = adds[i]
        /\ (adds \o <<op>>)[n + 1] = op
    BY <1>1, <1>3, <1>4
  <2> QED
    BY <1>1, <1>6, <1>7, <1>8, <2>1, <2>2 DEF op, n
<1>9. CASE ~set
  <2>1. sets = <<>>
    BY <1>5, <1>9
  <2>2. adds \o <<>> = adds
    BY <1>3
  <2> QED
    BY <1>1, <1>3, <1>6, <1>7, <1>9, <2>1, <2>2 DEF n
<1> QED
  BY <1>8, <1>9

\* Every account in between is an account, with the sequence number of the first.
LEMMA AfterEachType ==
    ASSUME NEW acc \in AccountEntry, NEW ops \in Seq(SetOptions), NEW m \in 0..Len(ops)
    PROVE  AfterEach(acc, ops)[m] \in AccountEntry /\ AfterEach(acc, ops)[m].seq = acc.seq
<1> DEFINE F == AfterEach(acc, ops)
           T == {n \in 0..Len(ops) : ~(F[n] \in AccountEntry /\ F[n].seq = acc.seq)}
<1>1. /\ Len(ops) \in Nat /\ F[0] = acc
      /\ \A n \in 1..Len(ops) : F[n] = ApplyOperation(F[n - 1], ops[n]) /\ ops[n] \in SetOptions
  BY AfterEachSteps
<1> HIDE DEF F
<1>2. SUFFICES ASSUME T # {} PROVE FALSE
  BY DEF F
<1>3. PICK n \in T : \A k \in T : n <= k
  <2>1. T \in SUBSET Nat
    BY <1>1
  <2> HIDE DEF T
  <2> QED
    BY <1>2, <2>1, Least
<1>4. CASE n = 0
  BY <1>1, <1>3, <1>4
<1>5. CASE n # 0
  <2>1. n \in 1..Len(ops) /\ n - 1 \in 0..Len(ops) /\ n - 1 \notin T
    BY <1>1, <1>3, <1>5
  <2>2. F[n - 1] \in AccountEntry /\ F[n - 1].seq = acc.seq
    BY <2>1
  <2>3. F[n] \in AccountEntry /\ F[n].seq = acc.seq
    <3> DEFINE before == F[n - 1]
               op == ops[n]
    <3>1. before \in AccountEntry /\ op \in SetOptions /\ F[n] = ApplyOperation(before, op)
      BY <1>1, <2>1, <2>2
    <3>2. before.seq = acc.seq
      BY <2>2
    <3> HIDE DEF before, op
    <3> QED
      BY <3>1, <3>2, OperationType
  <2> QED
    BY <1>3, <2>3
<1> QED
  BY <1>4, <1>5

\* The account after the first n signers of a configuration.
Partly(c, acc, n) ==
    [acc EXCEPT !.signers = [k \in Keys |-> WeightAt(c, k, n, acc.signers[k])]]

\* The first operations of a configuration leave the account as its first signers say.
LEMMA SignersApply ==
    ASSUME NEW c \in Config, NEW acc \in AccountEntry, NEW m \in 0..Len(c.signers)
    PROVE  AfterEach(acc, OperationsOf(c))[m] = Partly(c, acc, m)
<1> DEFINE ops == OperationsOf(c)
           F == AfterEach(acc, ops)
           T == {n \in 0..Len(c.signers) : F[n] # Partly(c, acc, n)}
<1>1. /\ Len(c.signers) \in Nat /\ Len(ops) \in Nat /\ Len(ops) >= Len(c.signers)
      /\ ops \in Seq(SetOptions)
      /\ \A i \in 1..Len(c.signers) :
             c.signers[i] \in Keys \X Weights /\ ops[i] = CreateSignerOperation(c.signers[i])
  <2>1. /\ Len(c.signers) \in Nat /\ Len(ops) \in {Len(c.signers), Len(c.signers) + 1}
        /\ ops \in Seq(SetOptions) /\ c.signers \in Seq(Keys \X Weights)
        /\ \A i \in 1..Len(c.signers) : ops[i] = CreateSignerOperation(c.signers[i])
    BY OperationsFacts
  <2> HIDE DEF ops
  <2>2. \A i \in 1..Len(c.signers) : c.signers[i] \in Keys \X Weights
    BY <2>1
  <2> QED
    BY <2>1, <2>2
<1>2. F[0] = acc /\ \A n \in 1..Len(ops) : F[n] = ApplyOperation(F[n - 1], ops[n])
  BY <1>1, AfterEachSteps
<1>3. \A n \in 0..Len(ops) : F[n] \in AccountEntry
  BY <1>1, AfterEachType
<1> HIDE DEF F, ops
<1>4. SUFFICES ASSUME T # {} PROVE FALSE
  BY DEF F, ops
<1>5. PICK n \in T : \A k \in T : n <= k
  <2>1. T \in SUBSET Nat
    BY <1>1
  <2> HIDE DEF T
  <2> QED
    BY <1>4, <2>1, Least
<1>6. acc.signers \in [Keys -> Weights]
  BY DEF AccountEntry
<1>7. CASE n = 0
  <2>1. [k \in Keys |-> WeightAt(c, k, 0, acc.signers[k])] = acc.signers
    <3>1. \A k \in Keys : WeightAt(c, k, 0, acc.signers[k]) = acc.signers[k]
      BY WeightAtSteps, 0 \in Nat
    <3> QED
      BY <1>6, <3>1
  <2>2. Partly(c, acc, 0) = [acc EXCEPT !.signers = acc.signers]
    BY <2>1 DEF Partly
  <2>3. [acc EXCEPT !.signers = acc.signers] = acc
    BY DEF AccountEntry
  <2> QED
    BY <1>2, <1>5, <1>7, <2>2, <2>3
<1>8. CASE n # 0
  <2> DEFINE s == c.signers[n]
             old == [k \in Keys |-> WeightAt(c, k, n - 1, acc.signers[k])]
             new == [k \in Keys |-> WeightAt(c, k, n, acc.signers[k])]
  <2>1. /\ n \in 1..Len(c.signers) /\ n - 1 \in 0..Len(c.signers) /\ n - 1 \notin T /\ n - 1 \in Nat
        /\ n \in 1..Len(ops) /\ n - 1 \in 0..Len(ops)
    BY <1>1, <1>5, <1>8
  <2>2. F[n - 1] = Partly(c, acc, n - 1) /\ F[n - 1] \in AccountEntry
    BY <1>3, <2>1
  <2>3. s \in Keys \X Weights /\ ops[n] = CreateSignerOperation(s) /\ ops[n] \in SetOptions
    BY <1>1, <2>1
  <2>4. /\ F[n - 1].signers = old /\ F[n - 1].seq = acc.seq
        /\ F[n - 1].master = acc.master /\ F[n - 1].thresholds = acc.thresholds
    BY <2>2 DEF Partly, AccountEntry
  <2>5. new = [old EXCEPT ![s[1]] = s[2]]
    <3>1. ASSUME NEW k \in Keys
          PROVE  WeightAt(c, k, n, acc.signers[k]) =
                     IF s[1] = k THEN s[2] ELSE WeightAt(c, k, n - 1, acc.signers[k])
      <4> DEFINE p == n - 1
                 before == acc.signers[k]
      <4>1. p \in Nat /\ p + 1 = n
        BY <2>1
      <4> HIDE DEF p, before
      <4>2. WeightAt(c, k, p + 1, before) = IF c.signers[p + 1][1] = k THEN c.signers[p + 1][2]
                                           ELSE WeightAt(c, k, p, before)
        BY <4>1, WeightAtSteps
      <4> QED
        BY <4>1, <4>2 DEF p, before
    <3>2. s[1] \in Keys
      BY <2>3
    <3> HIDE DEF s
    <3> QED
      BY <3>1, <3>2
  <2>6. ops[n].signer = s /\ s # None /\ ops[n].master = Unset /\ ops[n].thresholds = Unset
    BY <2>3, AccountSetupAssumption DEF CreateSignerOperation
  <2> HIDE DEF s, old, new
  <2>7. F[n] = [seq |-> acc.seq, master |-> acc.master, thresholds |-> acc.thresholds,
                signers |-> new]
    <3>1. F[n] = ApplyOperation(F[n - 1], ops[n])
      BY <1>2, <2>1
    <3>2. ApplyOperation(F[n - 1], ops[n]) =
              [seq |-> F[n - 1].seq, master |-> Chosen(ops[n].master, F[n - 1].master),
               thresholds |-> Chosen(ops[n].thresholds, F[n - 1].thresholds),
               signers |-> IF ops[n].signer = None THEN F[n - 1].signers
                           ELSE [F[n - 1].signers EXCEPT ![ops[n].signer[1]] = ops[n].signer[2]]]
      BY <2>2, <2>3, OperationType
    <3> QED
      BY <2>4, <2>5, <2>6, <3>1, <3>2 DEF Chosen
  <2>8. Partly(c, acc, n) = [seq |-> acc.seq, master |-> acc.master,
                             thresholds |-> acc.thresholds, signers |-> new]
    <3>1. Partly(c, acc, n) = [acc EXCEPT !.signers = new]
      BY DEF Partly, new
    <3> QED
      BY <3>1 DEF AccountEntry
  <2> QED
    BY <1>5, <2>7, <2>8
<1> QED
  BY <1>7, <1>8

\* A configuration is applied as a whole: all its weights, of a key named twice
\* the last, and its thresholds, to what was there before.
LEMMA ConfigurationApplies ==
    ASSUME NEW c \in Config, NEW acc \in AccountEntry
    PROVE  LET ops == OperationsOf(c) IN
           AfterEach([acc EXCEPT !.seq = acc.seq + 1], ops)[Len(ops)] = Configured(c, acc)
<1> DEFINE ops == OperationsOf(c)
           used == [acc EXCEPT !.seq = acc.seq + 1]
           n == Len(c.signers)
           set == c.master # Unset \/ c.thresholds # Unset
           F == AfterEach(used, ops)
           signers == [k \in Keys |-> WeightAt(c, k, n, acc.signers[k])]
<1>1. /\ n \in Nat /\ ops \in Seq(SetOptions) /\ Len(ops) \in {n, n + 1}
      /\ ~set => Len(ops) = n
      /\ set => /\ Len(ops) = n + 1
                /\ ops[n + 1] = [master |-> c.master, thresholds |-> c.thresholds, signer |-> None]
      /\ DOMAIN c.signers = 1..n
  BY OperationsFacts
<1>2. /\ used \in AccountEntry /\ used.signers = acc.signers /\ used.seq = acc.seq + 1
      /\ used.master = acc.master /\ used.thresholds = acc.thresholds
  BY DEF AccountEntry
<1>3. signers = [k \in Keys |-> WeightOf(c, k, acc.signers[k])]
  <2>1. ASSUME NEW k \in Keys
        PROVE  WeightAt(c, k, n, acc.signers[k]) = WeightOf(c, k, acc.signers[k])
    <3>1. {i \in DOMAIN c.signers : c.signers[i][1] = k} = Places(c, k, n)
      BY <1>1 DEF Places
    <3>2. WeightOf(c, k, acc.signers[k]) =
              LastOf(c, {i \in DOMAIN c.signers : c.signers[i][1] = k}, acc.signers[k])
      BY DEF WeightOf, LastOf
    <3> QED
      BY <3>1, <3>2 DEF WeightAt
  <2> QED
    BY <2>1
<1>4. Configured(c, acc) = [seq |-> acc.seq + 1, master |-> Chosen(c.master, acc.master),
                            thresholds |-> Chosen(c.thresholds, acc.thresholds),
                            signers |-> signers]
  BY <1>3 DEF Configured
<1>5. F[n] = [seq |-> acc.seq + 1, master |-> acc.master, thresholds |-> acc.thresholds,
              signers |-> signers]
  <2>1. F[n] = Partly(c, used, n)
    <3> HIDE DEF used
    <3> QED
      BY <1>1, <1>2, SignersApply
  <2>2. Partly(c, used, n) = [used EXCEPT !.signers = signers]
    BY <1>2 DEF Partly
  <2> HIDE DEF used, signers, F
  <2> QED
    BY <1>2, <2>1, <2>2 DEF AccountEntry
<1>6. F[n] \in AccountEntry /\ \A i \in 1..Len(ops) : F[i] = ApplyOperation(F[i - 1], ops[i])
  <2>1. n \in 0..Len(ops) /\ Len(ops) \in Nat
    BY <1>1
  <2> HIDE DEF used
  <2> QED
    BY <1>1, <1>2, <2>1, AfterEachSteps, AfterEachType
<1> HIDE DEF ops, F, signers
<1>7. CASE ~set
  BY <1>1, <1>4, <1>5, <1>7 DEF Chosen, ops, F
<1>8. CASE set
  <2>1. /\ Len(ops) = n + 1 /\ n + 1 \in 1..Len(ops) /\ ops[n + 1] \in SetOptions
        /\ ops[n + 1].master = c.master /\ ops[n + 1].thresholds = c.thresholds
        /\ ops[n + 1].signer = None
    BY <1>1, <1>8
  <2>2. F[n + 1] = ApplyOperation(F[n], ops[n + 1])
    BY <1>1, <1>6, <2>1
  <2>3. F[n + 1] = [seq |-> F[n].seq, master |-> Chosen(c.master, F[n].master),
                    thresholds |-> Chosen(c.thresholds, F[n].thresholds),
                    signers |-> F[n].signers]
    BY <1>6, <2>1, <2>2, OperationType
  <2>4. F[n + 1] = Configured(c, acc)
    BY <1>4, <1>5, <2>3
  <2> QED
    BY <2>1, <2>4 DEF F, ops
<1> QED
  BY <1>7, <1>8

-----------------------------------------------------------------------------
(***************************************************************************)
(* The inductive invariant.                                                *)
(***************************************************************************)
\* What the ledger records of a transaction that took effect.
Changes == [kind : {"state", "updated"}, type : {"account"}, data : AccountEntry]
Records == [tx : Tx, before : AccountEntry, after : AccountEntry, version : {"V3", "V4"},
            changes : Seq(Seq(Changes))]

\* The operations were applied to the account before, and the changes of the
\* last one end with the account after.
Recorded(rec) ==
    LET ops == rec.tx.operations IN
    /\ rec.tx.seq = rec.before.seq + 1
    /\ rec.after = AfterEach([rec.before EXCEPT !.seq = rec.before.seq + 1], ops)[Len(ops)]
    /\ Len(rec.changes) = Len(ops)
    /\ Len(ops) > 0 =>
           /\ Len(rec.changes[Len(ops)]) = 2
           /\ rec.changes[Len(ops)][1].kind = "state"
           /\ rec.changes[Len(ops)][2] = Change("updated", rec.after)

\* The account has one state per sequence number: what an administrator read
\* and what a transaction found are the same if their numbers are.
History ==
    /\ \A i \in DOMAIN applied : applied[i].before.seq < account.seq
    /\ \A a \in Admins :
          /\ read[a].seq <= account.seq
          /\ read[a].seq = account.seq => read[a] = account
          /\ \A i \in DOMAIN applied :
                applied[i].before.seq = read[a].seq => applied[i].before = read[a]

\* The transaction of an administrator is made of its configuration and follows
\* the account it read; a transaction of a call that failed is gone.
Made(a) ==
    /\ Len(config[a].signers) <= MaxSigners
    /\ pc[a] \in {"building", "sequence"} \/ (pc[a] = "done" /\ tx[a] = NoTx)
           \/ tx[a].seq = read[a].seq + 1
    /\ pc[a] = "building" \/ (pc[a] = "done" /\ tx[a] = NoTx)
           \/ tx[a].operations = OperationsOf(config[a])
    /\ pc[a] \in {"signed", "sent"} => tx[a].fee >= Len(tx[a].operations) * BaseFee
    /\ entry[a] # None => pc[a] = "done" /\ entry[a] = Configured(config[a], read[a])

Types == TypeOK /\ applied \in Seq(Records)

IInv ==
    /\ Types
    /\ \A i \in DOMAIN applied : Recorded(applied[i])
    /\ History
    /\ \A a \in Admins : Made(a)

-----------------------------------------------------------------------------
(***************************************************************************)
(* Steps of an administrator.                                              *)
(***************************************************************************)
Phases == {"building", "sequence", "simulate", "signed", "sent", "done"}

\* A step of a moves only what is a's, and a reads the account or nothing.
LEMMA AdminKeeps ==
    ASSUME IInv, NEW a \in Admins, account' = account, applied' = applied,
           pc' \in [Admins -> Phases], config' \in [Admins -> Config], tx' \in [Admins -> Tx],
           entry' \in [Admins -> AccountEntry \cup {None}], read' \in [Admins -> AccountEntry],
           pending' \subseteq Tx, Len(tx'[a].operations) <= MaxSigners + 1,
           \A b \in Admins \ {a} :
               /\ pc'[b] = pc[b] /\ config'[b] = config[b] /\ tx'[b] = tx[b]
               /\ entry'[b] = entry[b] /\ read'[b] = read[b],
           read'[a] \in {read[a], account}, Made(a)'
    PROVE  IInv'
<1>1. Types'
  <2>1. \A b \in Admins : Len(tx'[b].operations) <= MaxSigners + 1
    BY DEF IInv, Types, TypeOK
  <2>2. /\ account' \in AccountEntry /\ applied' \in Seq(Records)
        /\ \A i \in DOMAIN applied' :
              applied'[i].tx \in Tx /\ applied'[i].before \in AccountEntry
              /\ applied'[i].after \in AccountEntry
    BY DEF IInv, Types, TypeOK
  <2> QED
    BY <2>1, <2>2 DEF Types, TypeOK, Phases
<1>2. \A i \in DOMAIN applied' : Recorded(applied'[i])
  BY DEF IInv
<1>3. History'
  <2>1. account.seq \in Nat /\ History
    BY DEF IInv, Types, TypeOK, AccountEntry
  <2>2. \A i \in DOMAIN applied : applied[i].before.seq < account.seq
    BY <2>1 DEF History
  <2>3. ASSUME NEW b \in Admins
        PROVE  /\ read'[b].seq <= account.seq
               /\ read'[b].seq = account.seq => read'[b] = account
               /\ \A i \in DOMAIN applied :
                     applied[i].before.seq = read'[b].seq => applied[i].before = read'[b]
    <3>1. CASE read'[b] = read[b]
      BY <2>1, <3>1 DEF History
    <3>2. CASE read'[b] = account
      <4>1. \A i \in DOMAIN applied : applied[i].before.seq # account.seq
        <5>1. \A i \in DOMAIN applied : applied[i].before.seq \in Nat
          BY DEF IInv, Types, TypeOK, AccountEntry
        <5> QED
          BY <2>1, <2>2, <5>1
      <4> QED
        BY <2>1, <3>2, <4>1
    <3> QED
      BY <3>1, <3>2
  <2> QED
    BY <2>2, <2>3 DEF History
<1>4. ASSUME NEW b \in Admins \ {a} PROVE Made(b)'
  <2>1. Made(b)
    BY DEF IInv
  <2> QED
    BY <2>1 DEF Made
<1> QED
  BY <1>1, <1>2, <1>3, <1>4 DEF IInv

\* What the types say of one administrator.
LEMMA AdminFacts ==
    ASSUME IInv, NEW a \in Admins
    PROVE  /\ pc \in [Admins -> Phases] /\ config \in [Admins -> Config] /\ tx \in [Admins -> Tx]
           /\ entry \in [Admins -> AccountEntry \cup {None}] /\ read \in [Admins -> AccountEntry]
           /\ account \in AccountEntry /\ pending \subseteq Tx
           /\ Len(tx[a].operations) <= MaxSigners + 1 /\ Made(a)
BY DEF IInv, Types, TypeOK, Phases

\* The builders change the configuration of an account not configured yet.
LEMMA BuildingKeeps ==
    ASSUME IInv, NEW a \in Admins, Building(a), NEW c \in Config,
           config' = [config EXCEPT ![a] = c], Len(c.signers) <= MaxSigners
    PROVE  IInv'
<1>1. /\ pc[a] = "building" /\ pc' = pc /\ tx' = tx /\ entry' = entry /\ read' = read
      /\ account' = account /\ applied' = applied /\ pending' = pending
  BY DEF Building, network
<1>2. config' \in [Admins -> Config] /\ config'[a] = c
      /\ \A b \in Admins \ {a} : config'[b] = config[b]
  BY AdminFacts
<1>3. Made(a)'
  BY <1>1, <1>2, AdminFacts DEF Made
<1> QED
  BY <1>1, <1>2, <1>3, AdminFacts, AdminKeeps

\* The calls of the AccountConfig builder keep the invariant.
LEMMA ConfigKeeps ==
    ASSUME IInv, NEW a \in Admins, WithMasterWeight(a) \/ WithThresholds(a) \/ AddSigner(a)
    PROVE  IInv'
<1> DEFINE c == config[a]
<1>1. c \in Config /\ Len(c.signers) <= MaxSigners /\ config \in [Admins -> Config]
  BY AdminFacts DEF Made
<1>2. ASSUME NEW w \in Weights, Building(a), config' = [config EXCEPT ![a].master = w]
      PROVE  IInv'
  <2> DEFINE d == [c EXCEPT !.master = w]
  <2>1. d \in Config /\ d.signers = c.signers
    BY <1>1 DEF Config, Options
  <2>2. config' = [config EXCEPT ![a] = d]
    BY <1>2
  <2> HIDE DEF d
  <2> QED
    BY <1>1, <1>2, <2>1, <2>2, BuildingKeeps
<1>3. ASSUME NEW t \in Thresholds, Building(a), config' = [config EXCEPT ![a].thresholds = t]
      PROVE  IInv'
  <2> DEFINE d == [c EXCEPT !.thresholds = t]
  <2>1. d \in Config /\ d.signers = c.signers
    BY <1>1 DEF Config
  <2>2. config' = [config EXCEPT ![a] = d]
    BY <1>3
  <2> HIDE DEF d
  <2> QED
    BY <1>1, <1>3, <2>1, <2>2, BuildingKeeps
<1>4. ASSUME NEW s \in Keys \X Weights, Building(a), Len(config[a].signers) < MaxSigners,
             config' = [config EXCEPT ![a].signers = Append(@, s)]
      PROVE  IInv'
  <2> DEFINE signers == Append(c.signers, s)
             d == [c EXCEPT !.signers = signers]
  <2>1. c.signers \in Seq(Keys \X Weights)
    BY <1>1 DEF Config
  <2>2. signers \in Seq(Keys \X Weights) /\ Len(signers) = Len(c.signers) + 1
    BY <2>1
  <2>3. config' = [config EXCEPT ![a] = d]
    BY <1>4
  <2> HIDE DEF signers
  <2>4. d \in Config /\ d.signers = signers
    BY <1>1, <2>2 DEF Config
  <2>5. Len(d.signers) <= MaxSigners
    BY <1>4, <2>1, <2>2, <2>4, AccountSetupAssumption
  <2> HIDE DEF d
  <2> QED
    BY <1>4, <2>3, <2>4, <2>5, BuildingKeeps
<1> QED
  BY <1>2, <1>3, <1>4 DEF WithMasterWeight, WithThresholds, AddSigner

\* The transaction an administrator starts from has no operation.
LEMMA NoTxFacts == NoTx \in Tx /\ NoTx.operations = <<>> /\ Len(NoTx.operations) = 0
<1> DEFINE ops == <<>>
<1>1. ops \in Seq(SetOptions) /\ Len(ops) = 0
  OBVIOUS
<1>2. NoTx = [operations |-> ops, seq |-> 0, fee |-> 0]
  BY DEF NoTx
<1> HIDE DEF ops
<1>3. NoTx \in Tx /\ NoTx.operations = ops
  BY <1>1, <1>2 DEF Tx
<1> QED
  BY <1>1, <1>3 DEF ops

\* A call that fails, or whose envelope the network may have all the same.
LEMMA FailsKeeps ==
    ASSUME IInv, NEW a \in Admins, pc[a] \in {"sequence", "simulate", "signed", "sent"},
           Fails(a), account' = account, applied' = applied, pending' \subseteq Tx
    PROVE  IInv'
<1>1. /\ pc' = [pc EXCEPT ![a] = "done"] /\ tx' = [tx EXCEPT ![a] = NoTx]
      /\ config' = config /\ entry' = entry /\ read' = read
  BY DEF Fails
<1>2. /\ pc' \in [Admins -> Phases] /\ tx' \in [Admins -> Tx] /\ pc'[a] = "done" /\ tx'[a] = NoTx
      /\ \A b \in Admins \ {a} : pc'[b] = pc[b] /\ tx'[b] = tx[b]
  BY <1>1, AdminFacts, NoTxFacts DEF Phases
<1>3. entry[a] = None
  BY AdminFacts DEF Made
<1>4. Made(a)'
  BY <1>1, <1>2, <1>3, AdminFacts DEF Made
<1>5. Len(tx'[a].operations) <= MaxSigners + 1
  BY <1>2, NoTxFacts, AccountSetupAssumption
<1> QED
  BY <1>1, <1>2, <1>4, <1>5, AdminFacts, AdminKeeps

\* configure makes the operations.
LEMMA ConfigureKeeps ==
    ASSUME IInv, NEW a \in Admins, Configure(a)
    PROVE  IInv'
<1> DEFINE c == config[a]
           x == [operations |-> OperationsOf(c), seq |-> 0, fee |-> BaseFee]
<1>1. /\ pc[a] = "building" /\ pc' = [pc EXCEPT ![a] = "sequence"] /\ tx' = [tx EXCEPT ![a] = x]
      /\ config' = config /\ entry' = entry /\ read' = read
      /\ account' = account /\ applied' = applied /\ pending' = pending
  BY DEF Configure, network
<1>2. c \in Config /\ Len(c.signers) <= MaxSigners
  BY AdminFacts DEF Made
<1>3. /\ OperationsOf(c) \in Seq(SetOptions) /\ Len(c.signers) \in Nat
      /\ Len(OperationsOf(c)) \in {Len(c.signers), Len(c.signers) + 1}
  <2> HIDE DEF c
  <2> QED
    BY <1>2, OperationsFacts
<1>4. x \in Tx /\ x.operations = OperationsOf(c)
  <2> HIDE DEF c
  <2> QED
    BY <1>3, AccountSetupAssumption DEF Tx
<1>5. Len(x.operations) <= MaxSigners + 1
  BY <1>2, <1>3, <1>4, AccountSetupAssumption
<1> HIDE DEF x
<1>6. /\ pc' \in [Admins -> Phases] /\ tx' \in [Admins -> Tx] /\ pc'[a] = "sequence" /\ tx'[a] = x
      /\ \A b \in Admins \ {a} : pc'[b] = pc[b] /\ tx'[b] = tx[b]
  BY <1>1, <1>4, AdminFacts DEF Phases
<1>7. Made(a)'
  BY <1>1, <1>4, <1>6, AdminFacts DEF Made
<1> QED
  BY <1>1, <1>5, <1>6, <1>7, AdminFacts, AdminKeeps

\* The builder reads the account, and takes its next sequence number.
LEMMA SequenceKeeps ==
    ASSUME IInv, NEW a \in Admins, GetSequence(a)
    PROVE  IInv'
<1>1. /\ pc[a] = "sequence" /\ account' = account /\ applied' = applied /\ pending' = pending
  BY DEF GetSequence, network
<1>2. CASE Fails(a)
  BY <1>1, <1>2, AdminFacts, FailsKeeps
<1>3. CASE /\ read' = [read EXCEPT ![a] = account]
           /\ tx' = [tx EXCEPT ![a].seq = account.seq + 1]
           /\ pc' = [pc EXCEPT ![a] = "simulate"]
           /\ UNCHANGED <<config, entry>>
  <2> DEFINE x == [tx[a] EXCEPT !.seq = account.seq + 1]
  <2>1. tx[a] \in Tx /\ account.seq \in Nat
    BY AdminFacts DEF AccountEntry
  <2>2. x \in Tx /\ x.operations = tx[a].operations /\ x.seq = account.seq + 1
    BY <2>1 DEF Tx
  <2>3. tx' = [tx EXCEPT ![a] = x]
    BY <1>3
  <2> HIDE DEF x
  <2>4. /\ pc' \in [Admins -> Phases] /\ tx' \in [Admins -> Tx] /\ read' \in [Admins -> AccountEntry]
        /\ pc'[a] = "simulate" /\ tx'[a] = x /\ read'[a] = account
        /\ \A b \in Admins \ {a} : pc'[b] = pc[b] /\ tx'[b] = tx[b] /\ read'[b] = read[b]
    BY <1>3, <2>2, <2>3, AdminFacts DEF Phases
  <2>5. entry[a] = None /\ tx[a].operations = OperationsOf(config[a])
    BY <1>1, AdminFacts DEF Made
  <2>6. Made(a)'
    BY <1>3, <2>2, <2>4, <2>5, AdminFacts DEF Made
  <2>7. Len(tx'[a].operations) <= MaxSigners + 1
    BY <2>2, <2>4, AdminFacts
  <2> QED
    BY <1>1, <1>3, <2>4, <2>6, <2>7, AdminFacts, AdminKeeps
<1> QED
  BY <1>2, <1>3 DEF GetSequence

\* Signing puts the fee in: a base fee for each operation.
LEMMA SimulateKeeps ==
    ASSUME IInv, NEW a \in Admins, SimulateAndSign(a)
    PROVE  IInv'
<1>1. /\ pc[a] = "simulate" /\ account' = account /\ applied' = applied /\ pending' = pending
  BY DEF SimulateAndSign, network
<1>2. CASE Fails(a)
  BY <1>1, <1>2, AdminFacts, FailsKeeps
<1>3. CASE /\ tx' = [tx EXCEPT ![a] = Simulated(@)]
           /\ pc' = [pc EXCEPT ![a] = "signed"]
           /\ UNCHANGED <<config, entry, read>>
  <2> DEFINE old == tx[a]
             n == Len(old.operations)
             fee == IF old.operations = <<>> THEN BaseFee ELSE n * BaseFee
             x == Simulated(old)
  <2>1. old \in Tx /\ n \in Nat /\ (old.operations = <<>> => n = 0)
    BY AdminFacts DEF Tx
  <2>2. BaseFee \in Nat
    BY AccountSetupAssumption
  <2> HIDE DEF n
  <2>3. fee \in Nat /\ fee >= n * BaseFee
    <3>1. n * BaseFee \in Nat
      BY <2>1, <2>2
    <3>2. 0 * BaseFee = 0
      BY <2>2
    <3> QED
      BY <2>1, <2>2, <3>1, <3>2
  <2>4. x = [old EXCEPT !.fee = fee]
    BY DEF Simulated, n
  <2> HIDE DEF fee, x
  <2>5. x \in Tx /\ x.operations = old.operations /\ x.seq = old.seq /\ x.fee = fee
    BY <2>1, <2>3, <2>4 DEF Tx
  <2>6. tx' = [tx EXCEPT ![a] = x]
    BY <1>3 DEF x
  <2>7. /\ pc' \in [Admins -> Phases] /\ tx' \in [Admins -> Tx]
        /\ pc'[a] = "signed" /\ tx'[a] = x
        /\ \A b \in Admins \ {a} : pc'[b] = pc[b] /\ tx'[b] = tx[b]
    BY <1>3, <2>5, <2>6, AdminFacts DEF Phases
  <2>8. /\ entry[a] = None /\ tx[a].operations = OperationsOf(config[a])
        /\ tx[a].seq = read[a].seq + 1
    BY <1>1, AdminFacts DEF Made
  <2>9. tx'[a].fee >= Len(tx'[a].operations) * BaseFee
    BY <2>3, <2>5, <2>7 DEF n
  <2>10. Made(a)'
    BY <1>3, <2>5, <2>7, <2>8, <2>9, AdminFacts DEF Made
  <2>11. Len(tx'[a].operations) <= MaxSigners + 1
    BY <2>5, <2>7, AdminFacts
  <2> QED
    BY <1>1, <1>3, <2>7, <2>10, <2>11, AdminFacts, AdminKeeps
<1> QED
  BY <1>2, <1>3 DEF SimulateAndSign

\* The network gets the envelope as it was signed.
LEMMA SendKeeps ==
    ASSUME IInv, NEW a \in Admins, Send(a)
    PROVE  IInv'
<1>1. pc[a] = "signed" /\ account' = account /\ applied' = applied
  BY DEF Send, network
<1>2. pending' \subseteq Tx
  BY AdminFacts DEF Send, network
<1>3. CASE Fails(a)
  BY <1>1, <1>2, <1>3, AdminFacts, FailsKeeps
<1>4. CASE pc' = [pc EXCEPT ![a] = "sent"] /\ UNCHANGED <<config, tx, entry, read>>
  <2>1. pc' \in [Admins -> Phases] /\ pc'[a] = "sent" /\ \A b \in Admins \ {a} : pc'[b] = pc[b]
    BY <1>4, AdminFacts DEF Phases
  <2>2. Made(a)'
    BY <1>1, <1>4, <2>1, AdminFacts DEF Made
  <2> QED
    BY <1>1, <1>2, <1>4, <2>1, <2>2, AdminFacts, AdminKeeps
<1> QED
  BY <1>3, <1>4 DEF Send

\* The parser finds the account as the last operation left it, if there was one.
LEMMA ParserFindsAfter ==
    ASSUME NEW rec \in Records, Recorded(rec),
           NEW meta, meta = [version |-> rec.version, operations |-> rec.changes, soroban |-> None]
    PROVE  ExtractAccountEntry(meta) \in {None, rec.after}
<1> DEFINE n == Len(rec.tx.operations)
           last == rec.changes[n]
           updates == {i \in DOMAIN last : last[i].kind = "updated" /\ last[i].type = "account"}
<1>1. /\ rec.changes \in Seq(Seq(Changes)) /\ n \in Nat /\ Len(rec.changes) = n
      /\ rec.version \in {"V3", "V4"} /\ meta.version = rec.version /\ meta.operations = rec.changes
  BY DEF Records, Recorded, Tx
<1>2. CASE n = 0
  <2>1. meta.operations = <<>>
    BY <1>1, <1>2
  <2> QED
    BY <2>1 DEF ExtractAccountEntry
<1>3. CASE n > 0
  <2>1. meta.operations # <<>> /\ LastOperation(meta.operations) = last
    BY <1>1, <1>3 DEF LastOperation, Last
  <2>2. last \in Seq(Changes) /\ Len(last) = 2 /\ last[1].kind = "state"
        /\ last[2] = Change("updated", rec.after)
    BY <1>1, <1>3 DEF Recorded
  <2>3. DOMAIN last = {1, 2} /\ last[2].kind = "updated" /\ last[2].type = "account"
        /\ last[2].data = rec.after
    BY <2>2 DEF Change
  <2>4. updates = {2}
    BY <2>2, <2>3
  <2>5. ExtractAccountEntry(meta) =
            IF updates = {} THEN None
            ELSE last[CHOOSE i \in updates : \A j \in updates : j <= i].data
    <3> HIDE DEF last
    <3>1. ExtractAccountEntry(meta) = FindAccount(last)
      BY <1>1, <2>1 DEF ExtractAccountEntry
    <3> QED
      BY <3>1 DEF FindAccount
  <2> HIDE DEF updates, last
  <2>6. (CHOOSE i \in updates : \A j \in updates : j <= i) = 2
    BY <2>4
  <2> QED
    BY <2>3, <2>4, <2>5, <2>6
<1> QED
  BY <1>1, <1>2, <1>3

\* The transaction of an administrator that was applied was applied to what the
\* administrator read, and to the configuration.
LEMMA AppliedAsRead ==
    ASSUME IInv, NEW a \in Admins, NEW i \in DOMAIN applied, applied[i].tx = tx[a],
           tx[a].seq = read[a].seq + 1, tx[a].operations = OperationsOf(config[a])
    PROVE  applied[i].before = read[a] /\ applied[i].after = Configured(config[a], read[a])
<1> DEFINE rec == applied[i]
<1>1. rec \in Records /\ Recorded(rec)
  BY DEF IInv, Types
<1>2. rec.before \in AccountEntry /\ read[a] \in AccountEntry /\ config[a] \in Config
  BY <1>1, AdminFacts DEF Records
<1>3. rec.before.seq = read[a].seq
  BY <1>1, <1>2 DEF Recorded, AccountEntry
<1>4. rec.before = read[a]
  BY <1>3 DEF IInv, History
<1>5. rec.after = AfterEach([read[a] EXCEPT !.seq = read[a].seq + 1],
                            OperationsOf(config[a]))[Len(OperationsOf(config[a]))]
  BY <1>1, <1>4 DEF Recorded
<1>6. rec.after = Configured(config[a], read[a])
  BY <1>2, <1>5, ConfigurationApplies
<1> QED
  BY <1>4, <1>6

\* The answer.
LEMMA ParsedKeeps ==
    ASSUME IInv, NEW a \in Admins, Parsed(a)
    PROVE  IInv'
<1>1. /\ pc[a] = "sent" /\ account' = account /\ applied' = applied /\ pending' = pending
  BY DEF Parsed, network
<1>2. CASE Fails(a)
  BY <1>1, <1>2, AdminFacts, FailsKeeps
<1>3. ASSUME NEW i \in DOMAIN applied, applied[i].tx = tx[a],
             Parse("AccountSetOptions", ResponseTo(i)).ok,
             entry' = [entry EXCEPT ![a] = Parse("AccountSetOptions", ResponseTo(i)).value],
             pc' = [pc EXCEPT ![a] = "done"], UNCHANGED <<config, tx, read>>
      PROVE  IInv'
  <2> DEFINE meta == [version |-> applied[i].version, operations |-> applied[i].changes,
                      soroban |-> None]
             value == Parse("AccountSetOptions", ResponseTo(i)).value
  <2>1. ExtractAccountEntry(meta) \in {None, applied[i].after}
    BY ParserFindsAfter DEF IInv, Types
  <2>2. value \in {None, applied[i].after}
    <3>1. ResponseTo(i).meta = meta
      BY DEF ResponseTo
    <3>2. CheckTxSuccess(ResponseTo(i))
      BY <1>3 DEF Parse, Err
    <3>3. value = IF meta = None THEN None ELSE ExtractAccountEntry(meta)
      BY <3>1, <3>2 DEF Parse, Ok
    <3> HIDE DEF meta, value
    <3> QED
      BY <2>1, <3>3
  <2>3. /\ tx[a].seq = read[a].seq + 1 /\ tx[a].operations = OperationsOf(config[a])
        /\ entry[a] = None
    BY <1>1, AdminFacts DEF Made
  <2>4. applied[i].after = Configured(config[a], read[a])
    BY <1>3, <2>3, AppliedAsRead
  <2>5. applied[i].after \in AccountEntry
    BY DEF IInv, Types, TypeOK
  <2> HIDE DEF value
  <2>6. /\ pc' \in [Admins -> Phases] /\ entry' \in [Admins -> AccountEntry \cup {None}]
        /\ pc'[a] = "done" /\ entry'[a] = value
        /\ \A b \in Admins \ {a} : pc'[b] = pc[b] /\ entry'[b] = entry[b]
    <3>1. entry' = [entry EXCEPT ![a] = value]
      BY <1>3 DEF value
    <3> QED
      BY <1>3, <2>2, <2>5, <3>1, AdminFacts DEF Phases
  <2>7. Configured(config[a], read[a])' = Configured(config[a], read[a])
    BY <1>3 DEF Configured, WeightOf, Chosen
  <2>8. Made(a)'
    BY <1>3, <2>2, <2>3, <2>4, <2>6, <2>7, AdminFacts DEF Made
  <2> QED
    BY <1>1, <1>3, <2>6, <2>8, AdminFacts, AdminKeeps
<1> QED
  BY <1>2, <1>3 DEF Parsed

-----------------------------------------------------------------------------
(***************************************************************************)
(* Steps of the ledger.                                                    *)
(***************************************************************************)
\* A step that uses up a sequence number, and may append one record of it.
LEMMA LedgerKeeps ==
    ASSUME IInv, account' \in AccountEntry, account'.seq = account.seq + 1, UNCHANGED <<admin, read>>,
           pending' \subseteq pending,
           \/ applied' = applied
           \/ \E rec \in Records :
                 Recorded(rec) /\ rec.before = account /\ applied' = Append(applied, rec)
    PROVE  IInv'
<1>1. pc' = pc /\ config' = config /\ tx' = tx /\ entry' = entry /\ read' = read
  BY DEF admin
<1>2. /\ applied' \in Seq(Records)
      /\ \A i \in DOMAIN applied' :
            \/ i \in DOMAIN applied /\ applied'[i] = applied[i]
            \/ applied'[i].before = account /\ Recorded(applied'[i])
  <2>1. applied \in Seq(Records)
    BY DEF IInv, Types
  <2>2. CASE applied' = applied
    BY <2>1, <2>2
  <2>3. ASSUME NEW rec \in Records, Recorded(rec), rec.before = account,
               applied' = Append(applied, rec)
        PROVE  /\ applied' \in Seq(Records)
               /\ \A i \in DOMAIN applied' :
                     \/ i \in DOMAIN applied /\ applied'[i] = applied[i]
                     \/ applied'[i].before = account /\ Recorded(applied'[i])
    <3>1. Append(applied, rec) \in Seq(Records)
          /\ \A i \in DOMAIN Append(applied, rec) :
                \/ i \in DOMAIN applied /\ Append(applied, rec)[i] = applied[i]
                \/ Append(applied, rec)[i] = rec
      BY <2>1
    <3> QED
      BY <2>3, <3>1
  <2> QED
    BY <2>2, <2>3
<1>3. Types'
  <2>1. \A i \in DOMAIN applied' :
            applied'[i].tx \in Tx /\ applied'[i].before \in AccountEntry
            /\ applied'[i].after \in AccountEntry
    <3>1. \A i \in DOMAIN applied' : applied'[i] \in Records
      BY <1>2
    <3> QED
      BY <3>1 DEF Records
  <2> QED
    BY <1>1, <1>2, <2>1 DEF IInv, Types, TypeOK
<1>4. \A i \in DOMAIN applied' : Recorded(applied'[i])
  BY <1>2 DEF IInv
<1>5. History'
  <2>1. account.seq \in Nat /\ History /\ \A a \in Admins : read[a].seq \in Nat
    BY DEF IInv, Types, TypeOK, AccountEntry
  <2>2. ASSUME NEW i \in DOMAIN applied'
        PROVE  /\ applied'[i].before.seq < account'.seq
               /\ \A a \in Admins : applied'[i].before.seq = read[a].seq => applied'[i].before = read[a]
    <3>1. CASE i \in DOMAIN applied /\ applied'[i] = applied[i]
      <4>1. applied[i].before.seq \in Nat
        BY <3>1 DEF IInv, Types, TypeOK, AccountEntry
      <4> QED
        BY <2>1, <3>1, <4>1 DEF History
    <3>2. CASE applied'[i].before = account
      BY <2>1, <3>2 DEF History
    <3> QED
      BY <1>2, <3>1, <3>2
  <2>3. \A a \in Admins : read[a].seq <= account'.seq /\ read[a].seq # account'.seq
    BY <2>1 DEF History
  <2> QED
    BY <1>1, <2>2, <2>3 DEF History
<1>6. \A a \in Admins : Made(a)'
  BY <1>1 DEF IInv, Made
<1> QED
  BY <1>3, <1>4, <1>5, <1>6 DEF IInv

\* A transaction the network applies keeps the invariant.
LEMMA ApplyKeeps ==
    ASSUME IInv, NEW x \in pending, Apply(x)
    PROVE  IInv'
<1> DEFINE used == [account EXCEPT !.seq = x.seq]
           ops == x.operations
           n == Len(ops)
           after == AfterEach(used, ops)
           rec(version) == [tx |-> x, before |-> account, after |-> after[n], version |-> version,
                            changes |-> [m \in DOMAIN ops |-> <<Change("state", after[m - 1]),
                                                                Change("updated", after[m])>>]]
<1>1. /\ x.seq = account.seq + 1 /\ account' = after[n] /\ pending' = pending \ {x}
      /\ UNCHANGED <<admin, read>>
      /\ \E version \in {"V3", "V4"} : applied' = Append(applied, rec(version))
  BY DEF Apply
<1>2. /\ x \in Tx /\ ops \in Seq(SetOptions) /\ n \in Nat /\ DOMAIN ops = 1..n
      /\ account \in AccountEntry
  BY DEF IInv, Types, TypeOK, Tx
<1>3. used \in AccountEntry /\ used.seq = account.seq + 1
      /\ used = [account EXCEPT !.seq = account.seq + 1]
  <2>1. used = [account EXCEPT !.seq = account.seq + 1]
    BY <1>1
  <2>2. account.seq + 1 \in Nat
    BY <1>2 DEF AccountEntry
  <2> HIDE DEF used
  <2> QED
    BY <1>2, <2>1, <2>2 DEF AccountEntry
<1>4. \A m \in 0..n : after[m] \in AccountEntry /\ after[m].seq = account.seq + 1
  <2> HIDE DEF used
  <2> QED
    BY <1>2, <1>3, AfterEachType
<1> HIDE DEF after, used
<1>5. ASSUME NEW version \in {"V3", "V4"}
      PROVE  rec(version) \in Records /\ Recorded(rec(version)) /\ rec(version).before = account
  <2> DEFINE pair(m) == <<Change("state", after[m - 1]), Change("updated", after[m])>>
             changes == [m \in DOMAIN ops |-> pair(m)]
             r == rec(version)
  <2>1. ASSUME NEW m \in 1..n
        PROVE  /\ pair(m) \in Seq(Changes) /\ Len(pair(m)) = 2 /\ pair(m)[1].kind = "state"
               /\ pair(m)[2] = Change("updated", after[m])
    <3>1. after[m - 1] \in AccountEntry /\ after[m] \in AccountEntry
      BY <1>2, <1>4
    <3> DEFINE one == Change("state", after[m - 1])
               two == Change("updated", after[m])
    <3>2. one \in Changes /\ two \in Changes /\ one.kind = "state"
      BY <3>1 DEF Change, Changes
    <3> HIDE DEF one, two
    <3>3. <<one, two>> \in Seq(Changes) /\ Len(<<one, two>>) = 2
          /\ <<one, two>>[1] = one /\ <<one, two>>[2] = two
      BY <3>2
    <3> QED
      BY <3>2, <3>3 DEF one, two
  <2> HIDE DEF pair
  <2>2. changes \in Seq(Seq(Changes)) /\ Len(changes) = n /\ \A m \in 1..n : changes[m] = pair(m)
    BY <1>2, <2>1
  <2>3. /\ r.tx = x /\ r.before = account /\ r.after = after[n] /\ r.version = version
        /\ r.changes = changes
    BY DEF pair
  <2>4. r \in Records
    <3>1. after[n] \in AccountEntry
      BY <1>2, <1>4
    <3>2. r = [tx |-> x, before |-> account, after |-> after[n], version |-> version,
               changes |-> changes]
      BY DEF pair
    <3> HIDE DEF changes, r
    <3> QED
      BY <1>2, <2>2, <3>1, <3>2 DEF Records
  <2> HIDE DEF changes, r, rec
  <2>5. r.after = AfterEach([r.before EXCEPT !.seq = r.before.seq + 1],
                            r.tx.operations)[Len(r.tx.operations)]
    BY <1>3, <2>3 DEF after
  <2>6. Recorded(r)
    <3>1. r.tx.seq = r.before.seq + 1 /\ Len(r.changes) = Len(ops)
      BY <1>1, <2>2, <2>3
    <3>2. ASSUME n > 0
          PROVE  /\ Len(changes[n]) = 2 /\ changes[n][1].kind = "state"
                 /\ changes[n][2] = Change("updated", after[n])
      <4>1. n \in 1..n
        BY <1>2, <3>2
      <4> QED
        BY <2>1, <2>2, <4>1
    <3> QED
      BY <2>3, <2>5, <3>1, <3>2 DEF Recorded
  <2> QED
    BY <2>3, <2>4, <2>6 DEF r
<1>6. PICK version \in {"V3", "V4"} : applied' = Append(applied, rec(version))
  BY <1>1
<1> HIDE DEF rec
<1>7. \E r \in Records : Recorded(r) /\ r.before = account /\ applied' = Append(applied, r)
  BY <1>5, <1>6
<1>8. account' \in AccountEntry /\ account'.seq = account.seq + 1
  BY <1>1, <1>2, <1>4
<1> QED
  BY <1>1, <1>7, <1>8, LedgerKeeps

\* A transaction the network refuses keeps the invariant.
LEMMA RefuseKeeps ==
    ASSUME IInv, NEW x \in pending, Refuse(x)
    PROVE  IInv'
<1>1. /\ x.seq = account.seq + 1 /\ account' = [account EXCEPT !.seq = x.seq]
      /\ pending' = pending \ {x} /\ applied' = applied /\ UNCHANGED <<admin, read>>
  BY DEF Refuse
<1>2. account' \in AccountEntry /\ account'.seq = account.seq + 1
  <2>1. account' = [account EXCEPT !.seq = account.seq + 1]
    BY <1>1
  <2>2. account \in AccountEntry /\ account.seq + 1 \in Nat
    BY DEF IInv, Types, TypeOK, AccountEntry
  <2> QED
    BY <2>1, <2>2 DEF AccountEntry
<1> QED
  BY <1>1, <1>2, LedgerKeeps

-----------------------------------------------------------------------------
\* Nothing has been read, made or applied at the start.
LEMMA InitHolds == Init => IInv
<1> SUFFICES ASSUME Init PROVE IInv
  OBVIOUS
<1> USE DEF Init
<1>1. account \in AccountEntry /\ account.seq = 0
  BY AccountSetupAssumption DEF AccountEntry, ThresholdSet
<1>2. EmptyConfig \in Config /\ EmptyConfig.signers = <<>>
  <2> DEFINE none == <<>>
  <2>1. none \in Seq(Keys \X Weights)
    OBVIOUS
  <2>2. EmptyConfig = [master |-> Unset, thresholds |-> Unset, signers |-> none]
    BY DEF EmptyConfig
  <2> HIDE DEF none
  <2>3. EmptyConfig \in Config /\ EmptyConfig.signers = none
    BY <2>1, <2>2 DEF Config, Options
  <2> QED
    BY <2>3 DEF none
<1>3. \A a \in Admins :
          /\ pc[a] = "building" /\ config[a] = EmptyConfig /\ tx[a] = NoTx /\ entry[a] = None
          /\ read[a] = account
  OBVIOUS
<1>4. applied = <<>> /\ applied \in Seq(Records) /\ \A i \in DOMAIN applied : FALSE
  OBVIOUS
<1>5. Types
  <2>1. /\ pc \in [Admins -> Phases] /\ config \in [Admins -> Config] /\ tx \in [Admins -> Tx]
        /\ entry \in [Admins -> AccountEntry \cup {None}] /\ read \in [Admins -> AccountEntry]
    BY <1>1, <1>2, NoTxFacts DEF Phases
  <2>2. \A a \in Admins : Len(tx[a].operations) <= MaxSigners + 1
    BY <1>3, NoTxFacts, AccountSetupAssumption
  <2>3. pending \subseteq Tx
    OBVIOUS
  <2> HIDE DEF Init
  <2> QED
    BY <1>1, <1>4, <2>1, <2>2, <2>3 DEF Types, TypeOK, Phases
<1>6. History
  <2> HIDE DEF Init
  <2> QED
    BY <1>1, <1>3, <1>4 DEF History
<1>7. \A a \in Admins : Made(a)
  <2> HIDE DEF Init
  <2>1. Len(EmptyConfig.signers) <= MaxSigners
    <3>1. Len(<<>>) = 0
      OBVIOUS
    <3> QED
      BY <1>2, <3>1, AccountSetupAssumption
  <2> QED
    BY <1>3, <2>1 DEF Made
<1> QED
  BY <1>4, <1>5, <1>6, <1>7 DEF IInv

\* Every step keeps the invariant.
LEMMA NextKeeps == IInv /\ [Next]_vars => IInv'
<1> SUFFICES ASSUME IInv, [Next]_vars PROVE IInv'
  OBVIOUS
<1>1. ASSUME NEW a \in Admins, WithMasterWeight(a) \/ WithThresholds(a) \/ AddSigner(a)
      PROVE  IInv'
  BY <1>1, ConfigKeeps
<1>2. ASSUME NEW a \in Admins, Configure(a) PROVE IInv'
  BY <1>2, ConfigureKeeps
<1>3. ASSUME NEW a \in Admins, GetSequence(a) PROVE IInv'
  BY <1>3, SequenceKeeps
<1>4. ASSUME NEW a \in Admins, SimulateAndSign(a) PROVE IInv'
  BY <1>4, SimulateKeeps
<1>5. ASSUME NEW a \in Admins, Send(a) PROVE IInv'
  BY <1>5, SendKeeps
<1>6. ASSUME NEW a \in Admins, Parsed(a) PROVE IInv'
  BY <1>6, ParsedKeeps
<1>7. ASSUME NEW x \in pending, Apply(x) PROVE IInv'
  BY <1>7, ApplyKeeps
<1>8. ASSUME NEW x \in pending, Refuse(x) PROVE IInv'
  BY <1>8, RefuseKeeps
<1>9. CASE UNCHANGED vars
  <2>1. /\ pc' = pc /\ config' = config /\ tx' = tx /\ entry' = entry /\ account' = account
        /\ pending' = pending /\ applied' = applied /\ read' = read
    BY <1>9 DEF vars
  <2>2. Types'
    BY <2>1 DEF IInv, Types, TypeOK
  <2>3. History'
    BY <2>1 DEF IInv, History
  <2>4. \A a \in Admins : Made(a)'
    BY <2>1 DEF IInv, Made
  <2> QED
    BY <2>1, <2>2, <2>3, <2>4 DEF IInv
<1> QED
  BY <1>1, <1>2, <1>3, <1>4, <1>5, <1>6, <1>7, <1>8, <1>9 DEF Next

\* What an administrator holds follows from what it read and configured, however
\* the administrators and the ledger take turns.
THEOREM Invariance == Spec => []IInv
BY InitHolds, NextKeeps, PTL DEF Spec

\* The state has its types.
THEOREM TypeCorrect == Spec => []TypeOK
<1>1. IInv => TypeOK
  BY DEF IInv, Types
<1> QED
  BY <1>1, Invariance, PTL

\* A transaction that took effect found the account its configure had read.
LEMMA AppliedToReadNow == IInv => ConfigAppliedToWhatWasRead
<1> SUFFICES ASSUME IInv, NEW a \in Admins, NEW i \in DOMAIN applied, tx[a] # NoTx,
                    pc[a] \in {"signed", "sent", "done"}, applied[i].tx = tx[a]
             PROVE  applied[i].before = read[a] /\ applied[i].after = Configured(config[a], read[a])
  BY DEF ConfigAppliedToWhatWasRead
<1>1. tx[a].seq = read[a].seq + 1 /\ tx[a].operations = OperationsOf(config[a])
  BY DEF IInv, Made
<1> QED
  BY <1>1, AppliedAsRead

\* A configuration takes effect as a whole, on the account as it was read before
\* three awaits, or not at all (account.rs:605-624).
THEOREM ConfigurationIsOfRead == Spec => []ConfigAppliedToWhatWasRead
BY AppliedToReadNow, Invariance, PTL

\* The entry an administrator gets is the account its own transaction left,
\* whatever the others did since (parser.rs:112-137).
THEOREM EntriesAreOwn == Spec => []EntryIsOwn
<1>1. IInv => EntryIsOwn
  BY DEF IInv, Made, EntryIsOwn, Succeeded
<1> QED
  BY <1>1, Invariance, PTL

\* The fee of a signed envelope covers its operations without a simulation to
\* say so (transaction.rs:293-307).
THEOREM EnvelopesPay == Spec => []EnvelopePaysForOperations
<1>1. IInv => EnvelopePaysForOperations
  BY DEF IInv, Made, EnvelopePaysForOperations
<1> QED
  BY <1>1, Invariance, PTL

-----------------------------------------------------------------------------
(***************************************************************************)
(* The parser, of any response.                                            *)
(***************************************************************************)
\* Metadata of version V3 and of V4 that hold the same parse to the same, for
\* every kind of parser (parser.rs:112-151).
THEOREM VersionsParseAlike ==
    ASSUME NEW result, NEW operations, NEW soroban,
           NEW type \in {"AccountSetOptions", "InvokeFunction", "Deploy"},
           NEW metas, metas = [v \in {"V3", "V4"} |-> [version |-> v, operations |-> operations,
                                                       soroban |-> soroban]],
           metas["V3"] # None, metas["V4"] # None
    PROVE  Parse(type, [result |-> result, meta |-> metas["V3"]])
               = Parse(type, [result |-> result, meta |-> metas["V4"]])
<1> DEFINE r3 == [result |-> result, meta |-> metas["V3"]]
           r4 == [result |-> result, meta |-> metas["V4"]]
<1>1. ExtractAccountEntry(metas["V3"]) = ExtractAccountEntry(metas["V4"])
  BY DEF ExtractAccountEntry
<1>2. ExtractReturnValue(metas["V3"]) = ExtractReturnValue(metas["V4"])
  BY DEF ExtractReturnValue
<1>3. r3.result = r4.result /\ r3.meta = metas["V3"] /\ r4.meta = metas["V4"]
  OBVIOUS
<1> HIDE DEF r3, r4
<1>4. ReturnValue(r3) = ReturnValue(r4)
  BY <1>2, <1>3 DEF ReturnValue
<1>5. CheckTxSuccess(r3) <=> CheckTxSuccess(r4)
  BY <1>3 DEF CheckTxSuccess
<1>6. InvokeFunction(r3) = InvokeFunction(r4)
  BY <1>3, <1>4 DEF InvokeFunction, OperationResult
<1>7. Parse(type, r3) = Parse(type, r4)
  BY <1>1, <1>3, <1>4, <1>5, <1>6 DEF Parse
<1> QED
  BY <1>7 DEF r3, r4

\* A value the getters return of a successful transaction is the one the parser
\* returns for the same response, in whatever version (response.rs:34-71).
THEOREM GettersAgree ==
    ASSUME NEW answer, CheckTxSuccess(answer), GetReturnValue(answer).ok,
           GetReturnValue(answer).value # None
    PROVE  Parse("InvokeFunction", answer) = GetReturnValue(answer)
<1>1. /\ answer.meta # None /\ answer.meta.version = "V3" /\ answer.meta.soroban # None
      /\ GetReturnValue(answer) = Ok(answer.meta.soroban.value)
  BY DEF GetReturnValue, GetSorobanMeta, Ok, Err
<1>2. ReturnValue(answer) = answer.meta.soroban.value
  BY <1>1 DEF ReturnValue, ExtractReturnValue
<1>3. InvokeFunction(answer) = answer.meta.soroban.value
  BY <1>1, <1>2 DEF InvokeFunction, Ok
<1> QED
  BY <1>1, <1>3 DEF Parse

(***************************************************************************)
(* TransactionResults: what a response of an outcome holds.                *)
(***************************************************************************)
Responses(o) == [result : {Result(o)}, meta : {None} \cup Metas(o)]

\* An outcome is of one of the kinds, and its value is what that kind returns.
LEMMA OutcomeFacts ==
    ASSUME NEW o \in Outcome
    PROVE  /\ o.kind \in Kinds /\ o.ok \in BOOLEAN /\ o.value \in ReturnsOf(o.kind)
           /\ o.version \in {"V3", "V4"}
BY DEF Outcome

\* The parts of a response are the result and the metadata of its outcome.
LEMMA ResponseFacts ==
    ASSUME NEW o \in Outcome, NEW r \in Responses(o)
    PROVE  /\ r.result = Result(o) /\ (CheckTxSuccess(r) <=> o.ok)
           /\ r.meta # None => r.meta.version = o.version /\ r.meta.soroban \in SorobanMetas(o)
<1>1. r.result = Result(o) /\ r.meta \in {None} \cup Metas(o)
  BY DEF Responses
<1>2. CheckTxSuccess(r) <=> o.ok
  <2>1. Result(o) # None /\ Result(o).ok = o.ok
    BY ResultsAssumption DEF Result
  <2> QED
    BY <1>1, <2>1 DEF CheckTxSuccess
<1>3. ASSUME r.meta # None PROVE r.meta.version = o.version /\ r.meta.soroban \in SorobanMetas(o)
  <2>1. r.meta \in Metas(o)
    BY <1>1, <1>3
  <2> QED
    BY <2>1 DEF Metas
<1> QED
  BY <1>1, <1>2, <1>3

\* The return value of a successful host function, in either version.
LEMMA HostFunctionReturns ==
    ASSUME NEW o \in Outcome, NEW r \in Responses(o), o.ok, r.meta # None, RunsHostFunction(o)
    PROVE  /\ ReturnValue(r) = o.value /\ o.value # None
           /\ r.meta.version = o.version /\ r.meta.soroban # None
<1>1. o.value # None /\ None # [value |-> o.value, events |-> o.events]
  BY ResultsAssumption
<1>2. r.meta.soroban = [value |-> o.value, events |-> o.events]
  <2>1. o.kind # "setoptions"
    BY DEF RunsHostFunction
  <2> QED
    BY <1>1, <2>1, ResponseFacts DEF SorobanMetas
<1>3. r.meta.version = o.version /\ r.meta.version \in {"V3", "V4"}
  BY ResponseFacts, OutcomeFacts
<1> QED
  BY <1>1, <1>2, <1>3 DEF ReturnValue, ExtractReturnValue

\* Whatever a response returns is no value, a contract's address or data.
LEMMA ReturnValueType ==
    ASSUME NEW o \in Outcome, NEW r \in Responses(o)
    PROVE  \/ ReturnValue(r) = None
           \/ \E v : ReturnValue(r) = Data(v)
           \/ \E id \in ContractIds : ReturnValue(r) = Address(id)
<1>1. \/ ReturnValue(r) = None
      \/ r.meta # None /\ r.meta.soroban # None /\ ReturnValue(r) = r.meta.soroban.value
  BY DEF ReturnValue, ExtractReturnValue
<1> SUFFICES ASSUME r.meta # None, r.meta.soroban # None, ReturnValue(r) = r.meta.soroban.value
             PROVE  \/ ReturnValue(r) = None
                    \/ \E v : ReturnValue(r) = Data(v)
                    \/ \E id \in ContractIds : ReturnValue(r) = Address(id)
  BY <1>1
<1>2. ReturnValue(r) \in {None, Data(Void), o.value}
  <2>1. r.meta.soroban \in SorobanMetas(o)
    BY ResponseFacts
  <2>2. ASSUME NEW s \in SorobanMetas(o), s # None PROVE s.value \in {None, Data(Void), o.value}
    <3>1. CASE o.kind = "setoptions"
      BY <2>2, <3>1 DEF SorobanMetas
    <3>2. CASE o.kind # "setoptions" /\ ~o.ok
      BY <2>2, <3>2 DEF SorobanMetas
    <3>3. CASE o.kind # "setoptions" /\ o.ok
      BY <2>2, <3>3 DEF SorobanMetas
    <3> QED
      BY <3>1, <3>2, <3>3
  <2> QED
    BY <2>1, <2>2
<1>3. \/ o.value = None
      \/ \E v : o.value = Data(v)
      \/ \E id \in ContractIds : o.value = Address(id)
  BY OutcomeFacts DEF ReturnsOf
<1> QED
  BY <1>2, <1>3

(***************************************************************************)
(* The network.                                                            *)
(***************************************************************************)
\* Whoever has a response has one of what became of the transaction.
ResultsInv ==
    /\ protocol \in {22, 23}
    /\ outcome \in [Txs -> Outcome \cup {None}]
    /\ DOMAIN response = Txs
    /\ \A x \in Txs : response[x] # None =>
          outcome[x] # None /\ response[x] \in Responses(outcome[x])

\* An answer is taken from the outcome of its transaction, which is final.
LEMMA ResultsNextKeeps == ResultsInv /\ [ResultsNext]_resultsVars => ResultsInv'
<1> SUFFICES ASSUME ResultsInv, [ResultsNext]_resultsVars PROVE ResultsInv'
  OBVIOUS
<1>1. CASE Upgrade
  BY <1>1 DEF Upgrade, ResultsInv
<1>2. ASSUME NEW x \in Txs, Execute(x) PROVE ResultsInv'
  <2>1. PICK o \in Outcome : outcome' = [outcome EXCEPT ![x] = o]
    BY <1>2 DEF Execute
  <2>2. outcome[x] = None /\ UNCHANGED <<protocol, response>>
    BY <1>2 DEF Execute
  <2>3. \A y \in Txs : outcome[y] # None => outcome'[y] = outcome[y]
    BY <2>1, <2>2 DEF ResultsInv
  <2>4. outcome' \in [Txs -> Outcome \cup {None}]
    BY <2>1 DEF ResultsInv
  <2> QED
    BY <2>2, <2>3, <2>4 DEF ResultsInv
<1>3. ASSUME NEW x \in Txs, Answer(x) PROVE ResultsInv'
  <2>1. PICK meta \in {None} \cup Metas(outcome[x]) :
            response' = [response EXCEPT ![x] = [result |-> Result(outcome[x]), meta |-> meta]]
    BY <1>3 DEF Answer
  <2>2. outcome[x] # None /\ UNCHANGED <<protocol, outcome>>
    BY <1>3 DEF Answer
  <2>3. DOMAIN response' = Txs /\ response'[x] \in Responses(outcome[x])
        /\ \A y \in Txs \ {x} : response'[y] = response[y]
    BY <2>1 DEF ResultsInv, Responses
  <2> QED
    BY <2>2, <2>3 DEF ResultsInv
<1>4. CASE UNCHANGED resultsVars
  BY <1>4 DEF ResultsInv, resultsVars
<1> QED
  BY <1>1, <1>2, <1>3, <1>4 DEF ResultsNext

\* The inductive invariant.
THEOREM ResultsInvariance == ResultsSpec => []ResultsInv
<1>1. ResultsInit => ResultsInv
  BY DEF ResultsInit, ResultsInv
<1> QED
  BY <1>1, ResultsNextKeeps, PTL DEF ResultsSpec

\* What the invariant says of a transaction that was answered.
LEMMA AnsweredFacts ==
    ASSUME ResultsInv, NEW x \in Answered
    PROVE  outcome[x] \in Outcome /\ response[x] \in Responses(outcome[x])
BY DEF ResultsInv, Answered

\* Whatever a caller has an answer to happened, and a deployment it parses gives
\* the id of a contract, no id or a failure (parser.rs:76-93, 166-171).
THEOREM ResultsTypeCorrect == ResultsSpec => []ResultsTypeOK
<1>1. ASSUME ResultsInv, NEW x \in Txs, response[x] # None
      PROVE  /\ outcome[x] # None
             /\ Parse("Deploy", response[x]).value \in ContractIds \cup {None, "TransactionFailed"}
  <2>1. outcome[x] \in Outcome /\ response[x] \in Responses(outcome[x])
    BY <1>1, AnsweredFacts DEF Answered
  <2>2. outcome[x] # None
    BY <1>1 DEF ResultsInv
  <2>3. ExtractContractId(ReturnValue(response[x])) \in ContractIds \cup {None}
    BY <2>1, ReturnValueType DEF ExtractContractId, Data, Address
  <2> QED
    BY <2>2, <2>3 DEF Parse, Ok, Err
<1>2. ResultsInv => ResultsTypeOK
  BY <1>1 DEF ResultsInv, ResultsTypeOK
<1> QED
  BY <1>2, ResultsInvariance, PTL

\* A parser says of a transaction that it succeeded exactly when it did, and
\* finds in the metadata what its host function returned (parser.rs:50-73,
\* 103-109).
THEOREM ParserFinds == ResultsSpec => []ParserFindsReturn
<1>1. ASSUME ResultsInv, NEW x \in Answered
      PROVE  LET found == Parse("InvokeFunction", response[x]) IN
             /\ found.ok <=> outcome[x].ok
             /\ found.ok /\ x \in WithMeta /\ RunsHostFunction(outcome[x]) =>
                    found.value = outcome[x].value
  <2> DEFINE o == outcome[x]
             r == response[x]
             found == Parse("InvokeFunction", r)
  <2>1. o \in Outcome /\ r \in Responses(o)
    BY <1>1, AnsweredFacts
  <2>2. CheckTxSuccess(r) <=> o.ok
    BY <2>1, ResponseFacts
  <2>3. /\ CheckTxSuccess(r) => found = [ok |-> TRUE, value |-> InvokeFunction(r)]
        /\ ~CheckTxSuccess(r) => found.ok = FALSE
    BY DEF Parse, Ok, Err
  <2>4. o.ok \in BOOLEAN
    BY <2>1, OutcomeFacts
  <2>5. ASSUME o.ok, r.meta # None, RunsHostFunction(o) PROVE InvokeFunction(r) = o.value
    BY <2>1, <2>5, HostFunctionReturns DEF InvokeFunction
  <2> HIDE DEF o, found
  <2>6. /\ found.ok <=> o.ok
        /\ found.ok /\ r.meta # None /\ RunsHostFunction(o) => found.value = o.value
    BY <2>2, <2>3, <2>4, <2>5
  <2> QED
    BY <2>6 DEF WithMeta, o, found
<1>2. ResultsInv => ParserFindsReturn
  BY <1>1 DEF ParserFindsReturn
<1> QED
  BY <1>2, ResultsInvariance, PTL

\* The upgrade of the network changes nothing for the caller of a host function
\* (parser.rs:139-151).
THEOREM UpgradeIsUnseen == ResultsSpec => []UpgradeChangesNoResult
<1>1. ASSUME ResultsInv, NEW x \in WithMeta, NEW y \in WithMeta, RunsHostFunction(outcome[x]),
             outcome[y] = [outcome[x] EXCEPT !.version = outcome[y].version],
             NEW type \in {"InvokeFunction", "Deploy"}
      PROVE  Parse(type, response[x]) = Parse(type, response[y])
  <2> DEFINE o == outcome[x]
             p == outcome[y]
             r == response[x]
             s == response[y]
  <2>1. /\ o \in Outcome /\ r \in Responses(o) /\ r.meta # None
        /\ p \in Outcome /\ s \in Responses(p) /\ s.meta # None
    BY <1>1, AnsweredFacts DEF WithMeta
  <2>2. p.kind = o.kind /\ p.ok = o.ok /\ p.value = o.value
    <3>1. o = [kind |-> o.kind, ok |-> o.ok, value |-> o.value, events |-> o.events,
               version |-> o.version]
      BY <2>1 DEF Outcome
    <3> QED
      BY <1>1, <3>1
  <2>3. (CheckTxSuccess(r) <=> o.ok) /\ (CheckTxSuccess(s) <=> o.ok)
    BY <2>1, <2>2, ResponseFacts
  <2>4. CASE ~o.ok
    BY <2>3, <2>4 DEF Parse
  <2>5. CASE o.ok
    <3>1. RunsHostFunction(p)
      BY <1>1, <2>2 DEF RunsHostFunction
    <3>2. ReturnValue(r) = o.value /\ o.value # None
      BY <1>1, <2>1, <2>5, HostFunctionReturns
    <3>3. ReturnValue(s) = o.value
      BY <2>1, <2>2, <2>5, <3>1, HostFunctionReturns
    <3>4. InvokeFunction(r) = InvokeFunction(s)
      BY <3>2, <3>3 DEF InvokeFunction
    <3> HIDE DEF o, p, r, s
    <3> QED
      BY <2>3, <2>5, <3>2, <3>3, <3>4 DEF Parse, r, s
  <2> QED
    BY <2>4, <2>5
<1>2. ResultsInv => UpgradeChangesNoResult
  BY <1>1 DEF UpgradeChangesNoResult
<1> QED
  BY <1>2, ResultsInvariance, PTL

\* What the getters return of a successful transaction is what the parser
\* returns, with the events its call emitted; they refuse what a host function
\* returned after the upgrade and never before (response.rs:34-71).
THEOREM DecodersAgreeAlways == ResultsSpec => []DecodersAgree
<1>1. ASSUME ResultsInv, NEW x \in Answered, outcome[x].ok
      PROVE  LET got == GetReturnValue(response[x])
                 events == GetEvents(response[x])
             IN  /\ got.ok => Parse("InvokeFunction", response[x]) = got
                 /\ got.ok <=> events.ok
                 /\ events.ok => events.value = outcome[x].events
                 /\ x \in WithMeta /\ RunsHostFunction(outcome[x]) =>
                        (got.ok <=> outcome[x].version = "V3")
  <2> DEFINE o == outcome[x]
             r == response[x]
             got == GetReturnValue(r)
             events == GetEvents(r)
  <2>1. o \in Outcome /\ r \in Responses(o)
    BY <1>1, AnsweredFacts
  <2>2. CASE r.meta = None \/ r.meta.version # "V3" \/ r.meta.soroban = None
    <3>1. got = Err("InvalidArgument") /\ events = Err("InvalidArgument")
      BY <2>2 DEF GetReturnValue, GetEvents, GetSorobanMeta, Err
    <3>2. x \in WithMeta /\ RunsHostFunction(o) => o.version # "V3"
      BY <1>1, <2>1, <2>2, HostFunctionReturns DEF WithMeta
    <3> QED
      BY <3>1, <3>2 DEF Err
  <2>3. CASE r.meta # None /\ r.meta.version = "V3" /\ r.meta.soroban # None
    <3>1. got = Ok(r.meta.soroban.value) /\ events = Ok(r.meta.soroban.events)
      BY <2>3 DEF GetReturnValue, GetEvents, GetSorobanMeta, Ok
    <3>2. o.version = "V3" /\ r.meta.soroban \in SorobanMetas(o)
      BY <2>1, <2>3, ResponseFacts
    <3>3. r.meta.soroban.events = o.events /\ r.meta.soroban.value \in {o.value, Data(Void)}
      BY <1>1, <2>3, <3>2 DEF SorobanMetas
    <3>4. CheckTxSuccess(r)
      BY <1>1, <2>1, ResponseFacts
    <3>5. Parse("InvokeFunction", r) = got
      <4>1. got.ok /\ got.value = r.meta.soroban.value
        BY <3>1 DEF Ok
      <4>2. CASE got.value # None
        BY <3>4, <4>1, <4>2, GettersAgree
      <4>3. CASE got.value = None
        <5>1. ReturnValue(r) = None
          BY <2>3, <4>1, <4>3 DEF ReturnValue, ExtractReturnValue
        <5>2. InvokeFunction(r) = OperationResult(r)
          BY <5>1 DEF InvokeFunction
        <5>3. r.result = Result(o)
          BY <2>1, ResponseFacts
        <5>4. ~RunsHostFunction(o)
          BY <1>1, <2>1, <2>3, <4>1, <4>3, <5>1, HostFunctionReturns
        <5>5. OperationResult(r) = None
          BY <5>3, <5>4 DEF OperationResult, Result, ExtractOperationResult
        <5> QED
          BY <3>1, <3>4, <4>1, <4>3, <5>2, <5>5 DEF Parse, Ok
      <4> QED
        BY <4>2, <4>3
    <3>6. got.ok /\ events.ok /\ events.value = o.events
      BY <3>1, <3>3 DEF Ok
    <3> QED
      BY <3>2, <3>5, <3>6
  <2> QED
    BY <2>2, <2>3
<1>2. ResultsInv => DecodersAgree
  BY <1>1 DEF DecodersAgree
<1> QED
  BY <1>2, ResultsInvariance, PTL
=============================================================================
