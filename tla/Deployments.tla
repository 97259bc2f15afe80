----------------------------- MODULE Deployments -----------------------------
(***************************************************************************)
(* Contracts on several networks: the life of a Contract value             *)
(* (contract.rs), the operations it builds (operation.rs), the id a        *)
(* contract gets and is predicted to get (crypto.rs), and the network a    *)
(* transaction is built, signed and sent for (env.rs, signer.rs).          *)
(*                                                                         *)
(* The same accounts exist on every network.  Contract calls use one Env   *)
(* throughout; a caller of TransactionBuilder may use several.  A          *)
(* transaction is one step here: how calls interleave at their awaits is   *)
(* in ContractClient.  Hashes are modelled by what is hashed.  The ledgers *)
(* are external.                                                           *)
(***************************************************************************)
EXTENDS Integers, Sequences, FiniteSets

CONSTANTS
    Nets,
    Accounts,
    Handles,    \* values of type Contract
    Wasms,      \* the files that can be read
    Constructs, \* those whose contract has a constructor
    Mentions,   \* those whose bytes contain "__constructor" anywhere
    Args,       \* arguments a caller gives a constructor
    Salts,      \* salts a caller chooses
    None,
    ExtendTo,   \* the ledger extend_ttl is asked for
    MaxTxs      \* bound: transactions handed to the networks

ASSUME DeploymentsAssumption ==
    /\ Constructs \subseteq Mentions /\ Mentions \subseteq Wasms
    /\ None \notin Wasms \cup Args \cup Nets \cup Accounts
    /\ ExtendTo \in Nat \ {0} /\ MaxTxs \in Nat

VARIABLES
    contract,   \* None or [wasm, configs, deployed] for each handle
    deploying,  \* None or what deploy still has to create
    ledger,     \* [code, contracts, ttl, seq, effects] for each network
    predicted,  \* auxiliary: ids computed with calculate_contract_id
    sent        \* auxiliary: envelopes handed to a network

vars == <<contract, deploying, ledger, predicted, sent>>

\* Contract::from_configs has no bytes.
Empty == <<>>

\* ContractIdPreimage.  A random salt is never drawn twice.
Preimages == [account : Accounts, salt : Salts \cup ({"random"} \X Nat)]
Ids == [network : Nets, preimage : Preimages]

Configs == [id : Ids, net : Nets, account : Accounts]

TypeOK ==
    /\ \A h \in Handles : contract[h] # None =>
          /\ contract[h].wasm \in Wasms \cup {Empty}
          /\ contract[h].configs \in Configs \cup {None}
    /\ deploying \in [Handles -> [net : Nets, account : Accounts, args : Args \cup {None}] \cup {None}]
    /\ \A h \in Handles : deploying[h] # None => contract[h] # None
    /\ \A n \in Nets :
          /\ ledger[n].code \subseteq Wasms \cup {Empty}
          /\ \A c \in ledger[n].contracts : c.id \in Ids /\ c.id \in DOMAIN ledger[n].ttl
          /\ ledger[n].seq \in [Accounts -> Nat]
          /\ ledger[n].effects \subseteq sent
    /\ Cardinality(sent) <= MaxTxs

Init ==
    /\ contract = [h \in Handles |-> None]
    /\ deploying = [h \in Handles |-> None]
    /\ ledger = [n \in Nets |-> [code |-> {}, contracts |-> {}, ttl |-> <<>>,
                                 seq |-> [a \in Accounts |-> 0], effects |-> {}]]
    /\ predicted = {}
    /\ sent = {}
-----------------------------------------------------------------------------
(***************************************************************************)
(* Operations.  A contract is created with an authorization entry for the  *)
(* same arguments; constructor arguments make it a CreateContractV2.       *)
(***************************************************************************)
UploadWasm(wasm) == [kind |-> "upload", wasm |-> wasm]

CreateContract(preimage, wasm, args) ==
    LET host == [version |-> IF args = None THEN 1 ELSE 2,
                 preimage |-> preimage, wasm |-> wasm, args |-> args]
    IN  [kind |-> "create", host |-> host, auth |-> host]

InvokeContract(id) == [kind |-> "invoke", id |-> id]

ExtendFootprintTtl(to) == [kind |-> "extend", to |-> to]

\* The id of a contract: calculate_contract_id, and what the ledger does.
\* Fault: the network is left out of the hash.
IdAnywhere(account, salt, network) ==
    [network |-> CHOOSE n \in Nets : TRUE, preimage |-> [account |-> account, salt |-> salt]]

CalculateContractId(account, salt, network) ==
    [network |-> network, preimage |-> [account |-> account, salt |-> salt]]

LedgerId(n, preimage) == [network |-> n, preimage |-> preimage]

\* build with default extension, then a simulation that leaves the footprint of
\* an extend as it is: empty.
Build(account, net, op) ==
    [op |-> op, source |-> account, seq |-> ledger[net].seq[account] + 1, footprint |-> {}]

\* Signer::sign_transaction: over the network id and the transaction.
\* Fault: the payload has the transaction only.
PayloadOfTx(tx, network) == [tx |-> tx]

Payload(tx, network) == [network |-> network, tx |-> tx]

Sign(tx, net) == [tx |-> tx, by |-> tx.source, payload |-> Payload(tx, net), signedFor |-> net]
-----------------------------------------------------------------------------
(***************************************************************************)
(* The networks.                                                           *)
(***************************************************************************)
Verifies(n, e) == e.by = e.tx.source /\ e.payload = Payload(e.tx, n)

CanSucceed(n, op) ==
    /\ op.kind = "create" =>
            /\ op.host.wasm \in ledger[n].code
            /\ op.auth = op.host
            /\ \A c \in ledger[n].contracts : c.id # LedgerId(n, op.host.preimage)
            /\ (op.host.args # None) <=> (op.host.wasm \in Constructs)
    /\ op.kind = "invoke" => \E c \in ledger[n].contracts : c.id = op.id
    /\ op.kind = "upload" => op.wasm # Empty

Applied(n, e) ==
    LET op == e.tx.op
        old == ledger[n]
        new == IF op.kind = "create" THEN {LedgerId(n, op.host.preimage)} ELSE {}
        extended == IF op.kind = "extend" THEN {i \in e.tx.footprint : old.ttl[i] < op.to} ELSE {}
    IN  [code |-> old.code \cup (IF op.kind = "upload" THEN {op.wasm} ELSE {}),
         contracts |-> old.contracts
                       \cup {[id |-> i, wasm |-> op.host.wasm, args |-> op.host.args] : i \in new},
         ttl |-> [i \in DOMAIN old.ttl \cup new |->
                     IF i \in new THEN 0 ELSE IF i \in extended THEN op.to ELSE old.ttl[i]],
         seq |-> [old.seq EXCEPT ![e.tx.source] = e.tx.seq],
         effects |-> old.effects \cup {e}]

\* The envelope is lost or refused, or takes effect, with or without an answer.
Send(e, n, ok) ==
    /\ Cardinality(sent) < MaxTxs
    /\ sent' = sent \cup {e}
    /\ \/ ~ok /\ UNCHANGED ledger
       \/ /\ Verifies(n, e)
          /\ e.tx.seq = ledger[n].seq[e.tx.source] + 1
          /\ CanSucceed(n, e.tx.op)
          /\ ledger' = [ledger EXCEPT ![n] = Applied(n, e)]
-----------------------------------------------------------------------------
(***************************************************************************)
(* Contract values.                                                        *)
(***************************************************************************)
Free(h) == contract[h] = None /\ UNCHANGED <<deploying, ledger, predicted, sent>>

\* from_configs takes any id.  Those a caller has: of a contract there is, on the
\* network of the Env or on another, or computed in advance, perhaps of none.
GivenIds ==
    {c.id : c \in UNION {ledger[n].contracts : n \in Nets}}
        \cup {p.id : p \in predicted}
GivenConfigs == [id : GivenIds, net : Nets, account : Accounts]

Made(wasm, configs) == [wasm |-> wasm, configs |-> configs, args |-> None, deployed |-> FALSE]

\* new and new_with_reader: a file that cannot be read gives an error, and no
\* value.
New(h) ==
    /\ Free(h)
    /\ \E w \in Wasms, configs \in GivenConfigs \cup {None} :
           contract' = [contract EXCEPT ![h] = Made(w, configs)]

FromConfigs(h) ==
    /\ Free(h)
    /\ \E configs \in GivenConfigs : contract' = [contract EXCEPT ![h] = Made(Empty, configs)]

Clone(h, g) ==
    /\ contract[g] # None /\ deploying[g] = None
    /\ Free(h)
    /\ contract' = [contract EXCEPT ![h] = contract[g]]

\* deploy takes the value.
Ready(h) == contract[h] # None /\ deploying[h] = None

\* deploy: upload_wasm, whose failure because the code is there is no failure.
Deploy(h, n, a) ==
    /\ Ready(h)
    /\ \E args \in Args \cup {None}, ok \in BOOLEAN :
          /\ Send(Sign(Build(a, n, UploadWasm(contract[h].wasm)), n), n, ok)
          /\ IF ok \/ contract[h].wasm \in ledger[n].code
             THEN /\ deploying' = [deploying EXCEPT ![h] = [net |-> n, account |-> a, args |-> args]]
                  /\ UNCHANGED contract
             ELSE /\ contract' = [contract EXCEPT ![h] = None]
                  /\ UNCHANGED deploying
    /\ UNCHANGED predicted

\* has_constructor
PassedArgs(h) == IF contract[h].wasm \in Mentions THEN deploying[h].args ELSE None

\* Fault: the configs get the Env the contract had.
CreatedConfigs(h, id) ==
    [id |-> id, net |-> IF contract[h].configs = None THEN deploying[h].net ELSE contract[h].configs.net,
     account |-> deploying[h].account]

NewConfigs(h, id) == [id |-> id, net |-> deploying[h].net, account |-> deploying[h].account]

\* The rest of deploy.  The value is gone unless the id is in the answer.
Create(h) ==
    /\ deploying[h] # None
    /\ LET n == deploying[h].net
           a == deploying[h].account
           preimage == [account |-> a, salt |-> <<"random", Cardinality(sent)>>]
       IN  \E ok \in BOOLEAN :
              /\ Send(Sign(Build(a, n, CreateContract(preimage, contract[h].wasm, PassedArgs(h))), n), n, ok)
              /\ contract' = [contract EXCEPT ![h] =
                     IF ok THEN [wasm |-> @.wasm, configs |-> NewConfigs(h, LedgerId(n, preimage)),
                                 args |-> deploying[h].args, deployed |-> TRUE]
                     ELSE None]
    /\ deploying' = [deploying EXCEPT ![h] = None]
    /\ UNCHANGED predicted

Invoke(h) ==
    /\ Ready(h) /\ contract[h].configs # None
    /\ LET c == contract[h].configs IN
       \E ok \in BOOLEAN :
           Send(Sign(Build(c.account, c.net, InvokeContract(c.id)), c.net), c.net, ok)
    /\ UNCHANGED <<contract, deploying, predicted>>

\* extend_ttl: its Env and account need not be those of the configs.
ExtendTtl(h, n, a) ==
    /\ Ready(h) /\ contract[h].configs # None
    /\ \E ok \in BOOLEAN : Send(Sign(Build(a, n, ExtendFootprintTtl(ExtendTo)), n), n, ok)
    /\ UNCHANGED <<contract, deploying, predicted>>

(***************************************************************************)
(* A caller of TransactionBuilder, with an Env each to build, to sign and  *)
(* to send with, creates a contract with a salt of its own and has its id  *)
(* computed for the network it sends to.                                   *)
(***************************************************************************)
CreateWithBuilder(a, built, signed, n) ==
    \E salt \in Salts, w \in Wasms \ Constructs, ok \in BOOLEAN :
        LET preimage == [account |-> a, salt |-> salt] IN
        /\ Send(Sign(Build(a, built, CreateContract(preimage, w, None)), signed), n, ok)
        /\ predicted' = predicted \cup
               {[net |-> n, preimage |-> preimage, id |-> CalculateContractId(a, salt, n)]}
        /\ UNCHANGED <<contract, deploying>>
-----------------------------------------------------------------------------
Next ==
    \/ \E h \in Handles :
          \/ New(h) \/ FromConfigs(h) \/ Create(h) \/ Invoke(h)
          \/ \E g \in Handles : Clone(h, g)
          \/ \E n \in Nets, a \in Accounts : Deploy(h, n, a) \/ ExtendTtl(h, n, a)
    \/ \E a \in Accounts, built, signed, n \in Nets : CreateWithBuilder(a, built, signed, n)

Spec == Init /\ [][Next]_vars
-----------------------------------------------------------------------------
\* A transaction takes effect on no network but the one it was signed for,
\* whichever networks it was built on and sent to (signer.rs:116-155).
NoEffectElsewhere ==
    \A n \in Nets : \A e \in ledger[n].effects : e.signedFor = n

\* A Contract that deploy returned names a contract that exists on the network
\* its configs call, runs its own code, and was constructed with the arguments
\* given if it has a constructor (contract.rs:176-224).
DeployedIsAsConfigured ==
    \A h \in Handles : contract[h] # None /\ contract[h].deployed =>
        \E c \in ledger[contract[h].configs.net].contracts :
            /\ c.id = contract[h].configs.id
            /\ c.wasm = contract[h].wasm
            /\ c.wasm \in Constructs => c.args = contract[h].args

\* The id computed in advance is the id of the contract that gets created from
\* that account and salt on that network, and of no other contract anywhere
\* (crypto.rs:53-75).
PredictedIdsComeTrue ==
    \A p \in predicted : \A n \in Nets : \A c \in ledger[n].contracts :
        c.id = p.id <=> n = p.net /\ c.id.preimage = p.preimage
=============================================================================
