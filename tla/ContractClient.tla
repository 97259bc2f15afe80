--------------------------- MODULE ContractClient ---------------------------
(***************************************************************************)
(* Contract calls against a network: Contract::deploy, invoke and          *)
(* extend_ttl (contract.rs), the build, simulate, sign and send path they  *)
(* share (transaction.rs), Env and the RPC client (env.rs, rpc.rs).        *)
(*                                                                         *)
(* Tasks run concurrently.  Each owns a clone of one account, so each has  *)
(* guards of its own while all share the account's sequence number, and a  *)
(* Contract value.  A step goes from one await to the next: what runs      *)
(* between two awaits only touches the task's own values.  The account has *)
(* a signer.                                                               *)
(*                                                                         *)
(* The ledger, its queue and the RPC server are outside this repository:   *)
(* they are modelled by the answers the code handles.                      *)
(***************************************************************************)
EXTENDS Integers, Sequences, FiniteSets

CONSTANTS
    Tasks,
    ContractIds,    \* contracts that exist from the start
    NoConfigs,
    Args,           \* arguments of invoke
    InitialGuards,  \* the guard lists an account may start with
    AnyCall,
    MaxRemaining,
    MaxCalls        \* bound: calls of each task

Operations == {"upload", "create", "invoke", "extend"}

\* The contract calls a guard finds in the transactions these paths build:
\* upload and invoke carry no authorization entry, create carries one that
\* creates a contract, extend is no InvokeHostFunction (operation.rs).
CallsInBuilt == [o \in Operations |-> [c \in ContractIds |-> 0]]

G == INSTANCE Guards WITH Contracts <- ContractIds, Txs <- Operations, CallsIn <- CallsInBuilt

Salts == UNION {{t} \X (1..MaxCalls[t]) : t \in Tasks}
Ids == ContractIds \cup Salts

\* A budget is a u16, the scope of guards that count transactions is no contract,
\* and a missing option is no value.
ASSUME ClientAssumption ==
    /\ AnyCall \notin ContractIds
    /\ MaxRemaining \in Nat
    /\ MaxCalls \in [Tasks -> Nat]
    /\ InitialGuards \subseteq Seq(G!Guard)
    /\ NoConfigs \notin [id : Ids, guards : Seq(G!Guard)]

VARIABLES
    pc,        \* the await the task is in: "idle", "sequence", "simulate", "submit", "poll"
    tx,        \* the transaction it is building or has sent; kept when a call succeeds
    account,   \* the guards of its account
    configs,   \* Contract.client_configs: NoConfigs or [id, guards]
    calls,     \* how many calls it started
    ret,       \* what its last call returned
    \* The network
    sequence,  \* the account's sequence number on the ledger
    pending,   \* transactions in the queue
    applied,   \* transactions on the ledger, with their outcome
    code,      \* whether the wasm is on the ledger
    contracts, \* contracts on the ledger
    \* Auxiliary
    grant,     \* the guards each account started with
    signed     \* what was signed for sending, by whom: a task's account or its contract's

client == <<pc, tx, account, configs, calls, ret>>
network == <<sequence, pending, applied, code, contracts>>
aux == <<grant, signed>>
vars == <<pc, tx, account, configs, calls, ret,
          sequence, pending, applied, code, contracts, grant, signed>>

TxArgs == {<<>>} \cup Salts \cup (Ids \X Args)

\* ext: what simulation made of the transaction.  Only "V1" carries Soroban
\* data; "error" and "undecodable" both leave TransactionExt::V0.
Tx == [op : Operations, arg : TxArgs, seq : Nat, ext : {"built", "V1", "error", "undecodable"}]
NoTx == [op |-> "none", arg |-> <<>>, seq |-> 0, ext |-> "built"]

TypeOK ==
    /\ pc \in [Tasks -> {"idle", "sequence", "simulate", "submit", "poll"}]
    /\ \A t \in Tasks : tx[t] \in Tx \cup {NoTx}
    /\ account \in [Tasks -> Seq(G!Guard)]
    /\ \A t \in Tasks : configs[t] \in {NoConfigs} \cup [id : Ids, guards : Seq(G!Guard)]
    /\ calls \in [Tasks -> Nat] /\ \A t \in Tasks : calls[t] <= MaxCalls[t]
    /\ ret \in [Tasks -> {"None", "Ok", "Unauthorized", "Err"}]
    /\ sequence \in Nat
    /\ pending \subseteq Tx
    /\ applied \subseteq [tx : Tx, ok : BOOLEAN]
    /\ code \in BOOLEAN
    /\ contracts \subseteq Ids
    /\ signed \subseteq [by : Tasks, with : {"account", "configs"}, tx : Tx]

Init ==
    /\ pc = [t \in Tasks |-> "idle"]
    /\ tx = [t \in Tasks |-> NoTx]
    /\ account \in [Tasks -> InitialGuards]
    /\ configs \in [Tasks -> {NoConfigs} \cup [id : ContractIds, guards : InitialGuards]]
    /\ calls = [t \in Tasks |-> 0]
    /\ ret = [t \in Tasks |-> "None"]
    /\ sequence = 0
    /\ pending = {}
    /\ applied = {}
    /\ code = FALSE
    /\ contracts = ContractIds
    /\ grant = account
    /\ signed = {}
-----------------------------------------------------------------------------
(***************************************************************************)
(* Starting a call and returning from one.                                 *)
(***************************************************************************)
Begin(t, o, arg) ==
    /\ tx' = [tx EXCEPT ![t] = [op |-> o, arg |-> arg, seq |-> 0, ext |-> "built"]]
    /\ pc' = [pc EXCEPT ![t] = "sequence"]
    /\ calls' = [calls EXCEPT ![t] = @ + 1]
    /\ ret' = [ret EXCEPT ![t] = "None"]

Ready(t) == pc[t] = "idle" /\ calls[t] < MaxCalls[t]

\* deploy takes the Contract by value: it is back, with its configs set, only
\* when the deployment succeeds.
Deploy(t) ==
    /\ Ready(t)
    /\ Begin(t, "upload", <<>>)
    /\ configs' = [configs EXCEPT ![t] = NoConfigs]
    /\ UNCHANGED <<account, network, aux>>

NotDeployed(t) ==
    /\ Ready(t)
    /\ configs[t] = NoConfigs
    /\ calls' = [calls EXCEPT ![t] = @ + 1]
    /\ ret' = [ret EXCEPT ![t] = "Err"]
    /\ tx' = [tx EXCEPT ![t] = NoTx]
    /\ UNCHANGED <<pc, account, configs, network, aux>>

Invoke(t, arg) ==
    /\ Ready(t)
    /\ configs[t] # NoConfigs
    /\ Begin(t, "invoke", <<configs[t].id, arg>>)
    /\ UNCHANGED <<account, configs, network, aux>>

ExtendTtl(t) ==
    /\ Ready(t)
    /\ configs[t] # NoConfigs
    /\ Begin(t, "extend", <<>>)
    /\ UNCHANGED <<account, configs, network, aux>>

Return(t, r) ==
    /\ pc' = [pc EXCEPT ![t] = "idle"]
    /\ ret' = [ret EXCEPT ![t] = r]

Fails(t) ==
    /\ Return(t, "Err")
    /\ tx' = [tx EXCEPT ![t] = NoTx]
    /\ UNCHANGED <<account, configs, calls, aux>>

(***************************************************************************)
(* TransactionBuilder::build: one past the sequence number the ledger had  *)
(* when it answered.                                                       *)
(***************************************************************************)
GetSequence(t) ==
    /\ pc[t] = "sequence"
    /\ \/ Fails(t)
       \/ /\ tx' = [tx EXCEPT ![t].seq = sequence + 1]
          /\ pc' = [pc EXCEPT ![t] = "simulate"]
          /\ UNCHANGED <<account, configs, calls, ret, aux>>
    /\ UNCHANGED network

(***************************************************************************)
(* simulate_transaction and sign_transaction.  The call fails when the     *)
(* request does, when the fee leaves u32, or when an entry needs someone   *)
(* else's signature; an error in the answer is only printed.  invoke signs *)
(* with the account in the contract's configs, the others with the task's. *)
(***************************************************************************)
SignsWith(t) == IF tx[t].op = "invoke" THEN "configs" ELSE "account"
SigningGuards(t) == IF tx[t].op = "invoke" THEN configs[t].guards ELSE account[t]

\* Fault: sign_transaction_unsafe, past the guards.
SignUnguarded(t) ==
    /\ signed' = signed \cup {[by |-> t, with |-> SignsWith(t), tx |-> tx'[t]]}
    /\ UNCHANGED <<account, configs>>

Sign(t) ==
    /\ IF tx[t].op = "invoke"
       THEN /\ configs' = [configs EXCEPT ![t].guards = G!UpdateGuards(@, "invoke")]
            /\ UNCHANGED account
       ELSE /\ account' = [account EXCEPT ![t] = G!UpdateGuards(@, tx[t].op)]
            /\ UNCHANGED configs
    /\ signed' = signed \cup {[by |-> t, with |-> SignsWith(t), tx |-> tx'[t]]}

Simulate(t) ==
    /\ pc[t] = "simulate"
    /\ \/ Fails(t)
       \/ /\ ~G!CheckGuards(SigningGuards(t), tx[t].op)
          /\ Return(t, "Unauthorized")
          /\ UNCHANGED <<tx, account, configs, calls, aux>>
       \/ /\ G!CheckGuards(SigningGuards(t), tx[t].op)
          /\ \E ext \in {"V1", "error", "undecodable"} :
                 tx' = [tx EXCEPT ![t].ext = ext]
          /\ Sign(t)
          /\ pc' = [pc EXCEPT ![t] = "submit"]
          /\ UNCHANGED <<calls, ret, grant>>
    /\ UNCHANGED network

(***************************************************************************)
(* What follows an answer of send_transaction: upload_wasm is followed by  *)
(* the creation, with a fresh salt; a created contract is parsed out of    *)
(* the answer and becomes the configs, with a clone of the account.        *)
(***************************************************************************)
\* Fault: the configs are set from the preimage, before the creation is sent.
StartCreateConfigsFirst(t) ==
    /\ tx' = [tx EXCEPT ![t] = [op |-> "create", arg |-> <<t, calls[t]>>, seq |-> 0, ext |-> "built"]]
    /\ pc' = [pc EXCEPT ![t] = "sequence"]
    /\ configs' = [configs EXCEPT ![t] = [id |-> <<t, calls[t]>>, guards |-> account[t]]]
    /\ UNCHANGED <<account, calls, ret, aux>>

StartCreate(t) ==
    /\ tx' = [tx EXCEPT ![t] = [op |-> "create", arg |-> <<t, calls[t]>>, seq |-> 0, ext |-> "built"]]
    /\ pc' = [pc EXCEPT ![t] = "sequence"]
    /\ UNCHANGED <<account, configs, calls, ret, aux>>

\* Fault: an answer without a contract id still sets the configs.
SentWithoutId(t) ==
    IF tx[t].op = "upload" THEN StartCreate(t)
    ELSE /\ configs' = IF tx[t].op = "create"
                       THEN [configs EXCEPT ![t] = [id |-> NoConfigs, guards |-> account[t]]]
                       ELSE configs
         /\ Return(t, "Ok")
         /\ UNCHANGED <<tx, account, calls, aux>>

Sent(t) ==
    CASE tx[t].op = "upload" -> StartCreate(t)
      [] tx[t].op = "create" ->
            \/ Fails(t)  \* no contract id in the answer
            \/ /\ configs' = [configs EXCEPT ![t] = [id |-> tx[t].arg, guards |-> account[t]]]
               /\ Return(t, "Ok")
               /\ UNCHANGED <<tx, account, calls, aux>>
      [] OTHER -> Return(t, "Ok") /\ UNCHANGED <<tx, account, configs, calls, aux>>

\* An error whose text says "Contract code already exists" is success for
\* upload_wasm and an error for the rest.
CodeExists(t) ==
    IF tx[t].op = "upload" THEN StartCreate(t) ELSE Fails(t)

(***************************************************************************)
(* send_transaction_polling: hands the envelope over, then polls for the   *)
(* transaction until it is on the ledger or a time limit.                  *)
(***************************************************************************)
Acceptable(x) == x.seq = sequence + 1 /\ x.ext = "V1"

Submit(t) ==
    /\ pc[t] = "submit"
    /\ \/ Fails(t) /\ UNCHANGED network                    \* lost, or refused
       \/ code /\ CodeExists(t) /\ UNCHANGED network
       \/ /\ \/ Acceptable(tx[t]) /\ pending' = pending \cup {tx[t]}
             \/ pending' = pending                         \* told to try again later
          /\ pc' = [pc EXCEPT ![t] = "poll"]
          /\ UNCHANGED <<tx, account, configs, calls, ret, aux>>
          /\ UNCHANGED <<sequence, applied, code, contracts>>
       \/ /\ Acceptable(tx[t]) /\ pending' = pending \cup {tx[t]}
          /\ Fails(t)                                      \* the answer was lost
          /\ UNCHANGED <<sequence, applied, code, contracts>>

\* Faults: any outcome of the transaction is taken for success; the poll asks
\* for the account's sequence number and not for the transaction; it has no time
\* limit.
PollAnyOutcome(t) ==
    /\ pc[t] = "poll"
    /\ \/ (\E ok \in BOOLEAN : [tx |-> tx[t], ok |-> ok] \in applied) /\ Sent(t)
       \/ Fails(t)
    /\ UNCHANGED network

PollBySequence(t) ==
    /\ pc[t] = "poll"
    /\ \/ (\E a \in applied : a.tx.seq = tx[t].seq) /\ Sent(t)
       \/ Fails(t)
    /\ UNCHANGED network

PollUntilApplied(t) ==
    /\ pc[t] = "poll"
    /\ \/ [tx |-> tx[t], ok |-> TRUE] \in applied /\ Sent(t)
       \/ [tx |-> tx[t], ok |-> FALSE] \in applied /\ Fails(t)
    /\ UNCHANGED network

Poll(t) ==
    /\ pc[t] = "poll"
    /\ \/ [tx |-> tx[t], ok |-> TRUE] \in applied /\ Sent(t)
       \/ [tx |-> tx[t], ok |-> FALSE] \in applied /\ Fails(t)
       \/ Fails(t)                                         \* the time limit, or an RPC error
    /\ UNCHANGED network

(***************************************************************************)
(* The ledger.                                                             *)
(***************************************************************************)
CanSucceed(x) ==
    CASE x.op = "create" -> code
      [] x.op = "invoke" -> x.arg[1] \in contracts
      [] OTHER -> TRUE

Apply(x) ==
    /\ x \in pending /\ x.seq = sequence + 1
    /\ sequence' = sequence + 1
    /\ pending' = {y \in pending : y.seq > x.seq}
    /\ \/ /\ applied' = applied \cup {[tx |-> x, ok |-> FALSE]}
          /\ UNCHANGED <<code, contracts>>
       \/ /\ CanSucceed(x)
          /\ applied' = applied \cup {[tx |-> x, ok |-> TRUE]}
          /\ code' = (code \/ x.op = "upload")
          /\ contracts' = IF x.op = "create" THEN contracts \cup {x.arg} ELSE contracts
    /\ UNCHANGED <<client, aux>>

Evict(x) ==
    /\ x \in pending
    /\ pending' = pending \ {x}
    /\ UNCHANGED <<client, aux, sequence, applied, code, contracts>>
-----------------------------------------------------------------------------
Call(t) == Deploy(t) \/ NotDeployed(t) \/ ExtendTtl(t) \/ \E arg \in Args : Invoke(t, arg)

Answer(t) == GetSequence(t) \/ Simulate(t) \/ Submit(t) \/ Poll(t)

Next ==
    \/ \E t \in Tasks : Call(t) \/ Answer(t)
    \/ \E x \in pending : Apply(x) \/ Evict(x)

Spec == Init /\ [][Next]_vars

\* Every await ends: the RPC client answers or gives up.
FairSpec == Spec /\ \A t \in Tasks : WF_vars(Answer(t))
-----------------------------------------------------------------------------
\* A transaction that creates a contract is handed to the network only once
\* its code is on the ledger, however the upload ended (contract.rs:182, 266-276).
CreateFollowsUpload ==
    \A x \in pending \cup {tx[t] : t \in {u \in Tasks : pc[u] \in {"submit", "poll"}}} :
        x.op = "create" => code

\* A Contract that says where it is deployed is deployed there
\* (contract.rs:209-221).
ConfigsNameAContract ==
    \A t \in Tasks : configs[t] # NoConfigs => configs[t].id \in contracts

\* However calls fail, time out or are tried again, every transaction an
\* account signed for sending was paid for out of its budget, so no more of them
\* can ever reach the ledger than it granted.
Spent(t, i) == grant[t][i].remaining - account[t][i].remaining
LedgerWithinBudget ==
    \A t \in Tasks : \A i \in DOMAIN grant[t] :
        grant[t][i].scope = AnyCall =>
            Cardinality({s \in signed : s.by = t /\ s.with = "account"}) <= Spent(t, i)

\* What the doc of simulate_transaction says (transaction.rs:272-278): an error
\* if simulation fails.
SimulationErrorsStop ==
    \A t \in Tasks : pc[t] \in {"submit", "poll"} => tx[t].ext # "error"

\* What the example of a guarded invocation expects
\* (examples/invoke_contract.rs:41-64): an invocation is refused only when the
\* authorized calls are used up.
AuthorizedInvokeIsSigned ==
    \A t \in Tasks :
        ret[t] = "Unauthorized" /\ tx[t].op = "invoke" =>
            \E i \in DOMAIN configs[t].guards : configs[t].guards[i].remaining = 0

\* Two tasks that got hold of the same sequence number do not both succeed,
\* unless they sent the very same transaction.
OneWinnerPerSequence ==
    \A t, u \in Tasks :
        ret[t] = "Ok" /\ ret[u] = "Ok" /\ tx[t].seq = tx[u].seq => tx[t] = tx[u]

\* Every call returns.
CallsReturn == \A t \in Tasks : pc[t] # "idle" ~> pc[t] = "idle"

\* The promise of LedgerCalls: what the caller is told, what was handed over last,
\* ever, and what took effect.
Told == [None |-> "none", Ok |-> "ok", Unauthorized |-> "error", Err |-> "error"]
AnswerOf == [t \in Tasks |-> IF pc[t] # "idle" THEN "running" ELSE Told[ret[t]]]
LastOf == [t \in Tasks |-> IF tx[t].ext = "built" THEN NoTx ELSE tx[t]]
HandedOf == {s.tx : s \in signed}
EffectsOf == {a.tx : a \in {b \in applied : b.ok}}

Promise == INSTANCE LedgerCalls WITH
    Transactions <- Tx,
    SeqOfTx <- LAMBDA x : x.seq,
    NoTx <- NoTx,
    answer <- AnswerOf,
    last <- LastOf,
    handed <- HandedOf,
    effects <- EffectsOf

KeepsPromise == Promise!Spec
=============================================================================
