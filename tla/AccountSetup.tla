---------------------------- MODULE AccountSetup ----------------------------
(***************************************************************************)
(* Several administrators configure one account: AccountConfig and its     *)
(* builders, Account::get_sequence and configure (account.rs), the build   *)
(* and simulation under it (transaction.rs), and the parsing of the answer *)
(* (parser.rs).                                                            *)
(*                                                                         *)
(* Each administrator has an Account of its own, with a signer, for the    *)
(* same account of the ledger.  configure takes it by value.  The ledger,  *)
(* which applies the operations of a transaction in order and records what *)
(* each changed, is external.                                              *)
(***************************************************************************)
EXTENDS ResponseParser, Integers

CONSTANTS
    Admins,
    Keys,        \* signers other than the master key
    Weights,     \* 0 removes a signer
    Thresholds,  \* of low, medium and high security
    Unset,       \* an Option left out
    BaseFee,     \* DEFAULT_TRANSACTION_FEES
    MaxSigners   \* bound: signers in a configuration

\* The master key starts with the weight 1; a signer is never no signer.
ASSUME AccountSetupAssumption ==
    /\ {0, 1} \subseteq Weights /\ Weights \subseteq Nat
    /\ Thresholds \subseteq [low : Nat, med : Nat, high : Nat]
    /\ None \notin Keys \X Weights
    /\ BaseFee \in Nat /\ MaxSigners \in Nat

VARIABLES
    pc,       \* "building", an await of configure, "signed", "sent" or "done"
    config,   \* the AccountConfig
    tx,       \* the transaction being built or signed
    entry,    \* the account entry found in the answer, or None
    \* The network
    account,  \* the account on the ledger
    pending,  \* transactions in the queue
    applied,  \* the transactions that took effect, in order
    \* Auxiliary
    read      \* the account as each administrator's configure loaded it

admin == <<pc, config, tx, entry>>
network == <<account, pending, applied>>
vars == <<pc, config, tx, entry, account, pending, applied, read>>

Options == {Unset} \cup Weights
ThresholdSet == [low : Nat, med : Nat, high : Nat]

AccountEntry == [seq : Nat, master : Weights, thresholds : ThresholdSet, signers : [Keys -> Weights]]

\* AccountConfig: with_thresholds sets the three thresholds at once.
Config == [master : Options, thresholds : Thresholds \cup {Unset}, signers : Seq(Keys \X Weights)]
EmptyConfig == [master |-> Unset, thresholds |-> Unset, signers |-> <<>>]

\* The options of a SetOptions operation the library sets.
SetOptions == [master : Options, thresholds : Thresholds \cup {Unset},
               signer : (Keys \X Weights) \cup {None}]
Tx == [operations : Seq(SetOptions), seq : Nat, fee : Nat]
NoTx == [operations |-> <<>>, seq |-> 0, fee |-> 0]

TypeOK ==
    /\ pc \in [Admins -> {"building", "sequence", "simulate", "signed", "sent", "done"}]
    /\ config \in [Admins -> Config]
    /\ tx \in [Admins -> Tx]
    /\ \A a \in Admins : Len(tx[a].operations) <= MaxSigners + 1
    /\ entry \in [Admins -> AccountEntry \cup {None}]
    /\ account \in AccountEntry
    /\ pending \subseteq Tx
    /\ \A i \in DOMAIN applied :
          applied[i].tx \in Tx /\ applied[i].before \in AccountEntry /\ applied[i].after \in AccountEntry
    /\ read \in [Admins -> AccountEntry]

Init ==
    /\ pc = [a \in Admins |-> "building"]
    /\ config = [a \in Admins |-> EmptyConfig]
    /\ tx = [a \in Admins |-> NoTx]
    /\ entry = [a \in Admins |-> None]
    /\ account = [seq |-> 0, master |-> 1, thresholds |-> [low |-> 0, med |-> 0, high |-> 0],
                  signers |-> [k \in Keys |-> 0]]
    /\ pending = {}
    /\ applied = <<>>
    /\ read = [a \in Admins |-> account]
-----------------------------------------------------------------------------
(***************************************************************************)
(* AccountConfig.                                                          *)
(***************************************************************************)
Building(a) == pc[a] = "building" /\ UNCHANGED <<pc, tx, entry, network, read>>

WithMasterWeight(a) ==
    /\ Building(a)
    /\ \E w \in Weights : config' = [config EXCEPT ![a].master = w]

WithThresholds(a) ==
    /\ Building(a)
    /\ \E t \in Thresholds : config' = [config EXCEPT ![a].thresholds = t]

AddSigner(a) ==
    /\ Building(a)
    /\ Len(config[a].signers) < MaxSigners
    /\ \E s \in Keys \X Weights : config' = [config EXCEPT ![a].signers = Append(@, s)]

CreateSignerOperation(s) == [master |-> Unset, thresholds |-> Unset, signer |-> s]

\* None when there is nothing to set.
CreateThresholdsOperation(c) ==
    IF c.master = Unset /\ c.thresholds = Unset THEN <<>>
    ELSE <<[master |-> c.master, thresholds |-> c.thresholds, signer |-> None]>>

\* Fault: the thresholds are added inside the loop over the signers.
OperationsInLoop(c) ==
    FlattenSeq([i \in DOMAIN c.signers |->
                   <<CreateSignerOperation(c.signers[i])>> \o CreateThresholdsOperation(c)])

\* configure: an operation per signer, then the thresholds.
OperationsOf(c) ==
    [i \in DOMAIN c.signers |-> CreateSignerOperation(c.signers[i])] \o CreateThresholdsOperation(c)
-----------------------------------------------------------------------------
(***************************************************************************)
(* configure, from one await to the next.  A call that fails leaves        *)
(* nothing: the account and the configuration were taken by value.         *)
(***************************************************************************)
Fails(a) ==
    /\ pc' = [pc EXCEPT ![a] = "done"]
    /\ tx' = [tx EXCEPT ![a] = NoTx]
    /\ UNCHANGED <<config, entry, read>>

Configure(a) ==
    /\ pc[a] = "building"
    /\ pc' = [pc EXCEPT ![a] = "sequence"]
    /\ tx' = [tx EXCEPT ![a] = [operations |-> OperationsOf(config[a]), seq |-> 0, fee |-> BaseFee]]
    /\ UNCHANGED <<config, entry, network, read>>

\* TransactionBuilder::build, through get_sequence and load.
GetSequence(a) ==
    /\ pc[a] = "sequence"
    /\ \/ Fails(a)
       \/ /\ read' = [read EXCEPT ![a] = account]
          /\ tx' = [tx EXCEPT ![a].seq = account.seq + 1]
          /\ pc' = [pc EXCEPT ![a] = "simulate"]
          /\ UNCHANGED <<config, entry>>
    /\ UNCHANGED network

\* Faults: the fee of a single operation; the sequence number read once more.
DefaultFee(x) == x

SequenceAgain(x) == [x EXCEPT !.fee = Len(x.operations) * BaseFee, !.seq = account.seq + 1]

\* The server answers with an error: none of this is for Soroban.  Only the
\* count of the operations goes into the fee.
Simulated(x) ==
    [x EXCEPT !.fee = IF x.operations = <<>> THEN BaseFee ELSE Len(x.operations) * BaseFee]

SimulateAndSign(a) ==
    /\ pc[a] = "simulate"
    /\ \/ Fails(a)
       \/ /\ tx' = [tx EXCEPT ![a] = Simulated(@)]
          /\ pc' = [pc EXCEPT ![a] = "signed"]
          /\ UNCHANGED <<config, entry, read>>
    /\ UNCHANGED network

\* Env::send_transaction: the network refuses the envelope or loses it, or has
\* it in its queue, whether the caller hears of it or not.
Send(a) ==
    /\ pc[a] = "signed"
    /\ \/ Fails(a) /\ UNCHANGED network
       \/ /\ tx[a].operations # <<>> /\ tx[a].fee >= Len(tx[a].operations) * BaseFee
          /\ tx[a].seq = account.seq + 1
          /\ pending' = pending \cup {tx[a]}
          /\ \/ Fails(a)
             \/ pc' = [pc EXCEPT ![a] = "sent"] /\ UNCHANGED <<config, tx, entry, read>>
          /\ UNCHANGED <<account, applied>>

ResponseTo(i) ==
    [result |-> [ok |-> TRUE, operations |-> [op \in DOMAIN applied[i].tx.operations |-> None]],
     meta |-> [version |-> applied[i].version, operations |-> applied[i].changes, soroban |-> None]]

\* The answer of the poll and what Parser finds in it, or no answer in time.
Parsed(a) ==
    /\ pc[a] = "sent"
    /\ \/ Fails(a)
       \/ \E i \in DOMAIN applied :
             /\ applied[i].tx = tx[a]
             /\ Parse("AccountSetOptions", ResponseTo(i)).ok
             /\ entry' = [entry EXCEPT ![a] = Parse("AccountSetOptions", ResponseTo(i)).value]
             /\ pc' = [pc EXCEPT ![a] = "done"]
             /\ UNCHANGED <<config, tx, read>>
    /\ UNCHANGED network
-----------------------------------------------------------------------------
(***************************************************************************)
(* The ledger.                                                             *)
(***************************************************************************)
Chosen(option, old) == IF option = Unset THEN old ELSE option

ApplyOperation(acc, op) ==
    [acc EXCEPT
        !.master = Chosen(op.master, @),
        !.thresholds = Chosen(op.thresholds, @),
        !.signers = IF op.signer = None THEN @ ELSE [@ EXCEPT ![op.signer[1]] = op.signer[2]]]

Change(kind, acc) == [kind |-> kind, type |-> "account", data |-> acc]

\* The account after each of the operations; 0 is before the first.
AfterEach(acc, ops) ==
    LET after[n \in 0..Len(ops)] ==
            IF n = 0 THEN acc ELSE ApplyOperation(after[n - 1], ops[n])
    IN  after

\* The sequence number is used up before the operations.
Apply(x) ==
    LET after == AfterEach([account EXCEPT !.seq = x.seq], x.operations)
        last == after[Len(x.operations)]
    IN
    /\ x \in pending /\ x.seq = account.seq + 1
    /\ \E version \in {"V3", "V4"} :
           applied' = Append(applied,
               [tx |-> x, before |-> account, after |-> last, version |-> version,
                changes |-> [n \in DOMAIN x.operations |->
                    <<Change("state", after[n - 1]), Change("updated", after[n])>>]])
    /\ account' = last
    /\ pending' = pending \ {x}
    /\ UNCHANGED <<admin, read>>

\* The transaction fails, and nothing but the sequence number changes.
Refuse(x) ==
    /\ x \in pending /\ x.seq = account.seq + 1
    /\ account' = [account EXCEPT !.seq = x.seq]
    /\ pending' = pending \ {x}
    /\ UNCHANGED <<admin, applied, read>>

Next ==
    \/ \E a \in Admins :
          \/ WithMasterWeight(a) \/ WithThresholds(a) \/ AddSigner(a)
          \/ Configure(a) \/ GetSequence(a) \/ SimulateAndSign(a) \/ Send(a) \/ Parsed(a)
    \/ \E x \in pending : Apply(x) \/ Refuse(x)

Spec == Init /\ [][Next]_vars
-----------------------------------------------------------------------------
Succeeded == {a \in Admins : entry[a] # None}

\* The last of the weights a configuration gives a key, if it gives any.
WeightOf(c, k, old) ==
    LET places == {i \in DOMAIN c.signers : c.signers[i][1] = k} IN
    IF places = {} THEN old
    ELSE c.signers[CHOOSE i \in places : \A j \in places : j <= i][2]

Configured(c, acc) ==
    [seq |-> acc.seq + 1,
     master |-> Chosen(c.master, acc.master),
     thresholds |-> Chosen(c.thresholds, acc.thresholds),
     signers |-> [k \in Keys |-> WeightOf(c, k, acc.signers[k])]]

\* A configuration takes effect as a whole, and on the account its configure
\* loaded: nobody else's change comes between the two, although three awaits do
\* (account.rs:605-624, transaction.rs:181-194).
ConfigAppliedToWhatWasRead ==
    \A a \in Admins : \A i \in DOMAIN applied :
        tx[a] # NoTx /\ pc[a] \in {"signed", "sent", "done"} /\ applied[i].tx = tx[a] =>
            applied[i].before = read[a] /\ applied[i].after = Configured(config[a], read[a])

\* The entry found in the answer is the account as the administrator's own
\* transaction left it, whoever configured it since (parser.rs:112-137).
EntryIsOwn ==
    \A a \in Succeeded : entry[a] = Configured(config[a], read[a])

\* Every envelope configure returns offers what its operations cost, although
\* no simulation priced them (transaction.rs:293-307).
EnvelopePaysForOperations ==
    \A a \in Admins :
        pc[a] \in {"signed", "sent"} => tx[a].fee >= Len(tx[a].operations) * BaseFee
=============================================================================
