-------------------------- MODULE Deployments_proofs --------------------------
(***************************************************************************)
(* Proofs about Deployments: whatever networks a caller mixes, effects     *)
(* happen where they were signed for, and ids are those of the network     *)
(* they were computed for.                                                 *)
(***************************************************************************)
EXTENDS Deployments, FiniteSetTheorems, TLAPS

Ledgers ==
    [code : SUBSET (Wasms \cup {Empty}),
     contracts : SUBSET [id : Ids, wasm : Wasms \cup {Empty}, args : Args \cup {None}],
     ttl : UNION {[D -> Nat] : D \in SUBSET Ids},
     seq : [Accounts -> Nat],
     effects : SUBSET sent]

Networks ==
    /\ DOMAIN ledger = Nets
    /\ \A n \in Nets :
          /\ ledger[n] \in Ledgers
          /\ \A c \in ledger[n].contracts :
                c.id \in DOMAIN ledger[n].ttl /\ c.id = LedgerId(n, c.id.preimage)
    /\ IsFiniteSet(sent) /\ Cardinality(sent) <= MaxTxs

Values ==
    /\ DOMAIN contract = Handles
    /\ \A h \in Handles : contract[h] # None =>
          /\ contract[h].wasm \in Wasms \cup {Empty}
          /\ contract[h].configs \in Configs \cup {None}
          /\ contract[h].args \in Args \cup {None}
          /\ contract[h].deployed => contract[h].configs.net \in Nets
    /\ deploying \in [Handles -> [net : Nets, account : Accounts, args : Args \cup {None}] \cup {None}]
    /\ \A h \in Handles : deploying[h] # None => contract[h] # None

\* A signature covers the network it was made for.
SignedAsSaid == \A e \in sent : e.payload = Payload(e.tx, e.signedFor)

Computed == \A p \in predicted : p.id \in Ids /\ p.id = LedgerId(p.net, p.preimage)

IInv == Networks /\ Values /\ SignedAsSaid /\ Computed /\ NoEffectElsewhere /\ DeployedIsAsConfigured
-----------------------------------------------------------------------------
(***************************************************************************)
(* Sending.                                                                *)
(***************************************************************************)
Operation(op) ==
    \/ \E w \in Wasms \cup {Empty} : op = UploadWasm(w)
    \/ \E p \in Preimages, w \in Wasms \cup {Empty}, args \in Args \cup {None} :
           op = CreateContract(p, w, args)
    \/ \E id \in Ids : op = InvokeContract(id)
    \/ op = ExtendFootprintTtl(ExtendTo)

\* What a call adds to a ledger, whichever operation it sends.
Created(n, op) ==
    IF op.kind = "create"
    THEN {[id |-> LedgerId(n, op.host.preimage), wasm |-> op.host.wasm, args |-> op.host.args]}
    ELSE {}

LEMMA AppliedContracts ==
    ASSUME NEW n, NEW e
    PROVE  /\ Applied(n, e).contracts = ledger[n].contracts \cup Created(n, e.tx.op)
           /\ Applied(n, e).effects = ledger[n].effects \cup {e}
<1> DEFINE op == e.tx.op
           new == IF op.kind = "create" THEN {LedgerId(n, op.host.preimage)} ELSE {}
<1>1. {[id |-> i, wasm |-> op.host.wasm, args |-> op.host.args] : i \in new} = Created(n, op)
    BY DEF Created
<1> QED BY <1>1 DEF Applied

LEMMA SendKeeps ==
    ASSUME IInv, NEW a \in Accounts, NEW built \in Nets, NEW signed \in Nets, NEW n \in Nets,
           NEW op, Operation(op), NEW ok \in BOOLEAN,
           Send(Sign(Build(a, built, op), signed), n, ok)
    PROVE  /\ Networks' /\ SignedAsSaid' /\ NoEffectElsewhere'
           /\ \A m \in Nets : ledger[m].contracts \subseteq ledger'[m].contracts
           /\ ok => Created(n, op) \subseteq ledger'[n].contracts
<1> DEFINE e == Sign(Build(a, built, op), signed)
<1>1. /\ e.tx.op = op /\ e.tx.source = a /\ e.tx.footprint = {} /\ e.signedFor = signed
      /\ e.payload = Payload(e.tx, signed) /\ e.tx.seq = ledger[built].seq[a] + 1
    BY DEF Sign, Build
<1>2. Cardinality(sent) < MaxTxs /\ sent' = sent \cup {e}
    BY DEF Send
<1> HIDE DEF e
<1>3. IsFiniteSet(sent') /\ Cardinality(sent') <= MaxTxs
    <2>1. IsFiniteSet(sent) /\ Cardinality(sent) \in Nat
        BY FS_CardinalityType DEF IInv, Networks
    <2>2. /\ IsFiniteSet(sent \cup {e})
          /\ Cardinality(sent \cup {e}) \in {Cardinality(sent), Cardinality(sent) + 1}
        BY <2>1, FS_AddElement
    <2> QED BY <1>2, <2>1, <2>2, DeploymentsAssumption
<1>4. SignedAsSaid'
    BY <1>1, <1>2 DEF IInv, SignedAsSaid
<1>5. CASE UNCHANGED ledger /\ ~ok
    <2>1. \A m \in Nets : ledger'[m] \in Ledgers'
        BY <1>2, <1>5 DEF IInv, Networks, Ledgers
    <2>2. Networks'
        BY <1>3, <1>5, <2>1 DEF IInv, Networks
    <2> QED BY <1>4, <1>5, <2>2 DEF IInv, NoEffectElsewhere
<1>6. CASE /\ Verifies(n, e) /\ e.tx.seq = ledger[n].seq[e.tx.source] + 1
           /\ ledger' = [ledger EXCEPT ![n] = Applied(n, e)]
    <2>1. DOMAIN ledger = Nets /\ ledger'[n] = Applied(n, e)
          /\ \A m \in Nets \ {n} : ledger'[m] = ledger[m]
        BY <1>6 DEF IInv, Networks
    <2>2. signed = n
        BY <1>1, <1>6 DEF Verifies, Payload
    <2>3. /\ ledger'[n].contracts = ledger[n].contracts \cup Created(n, op)
          /\ ledger'[n].effects = ledger[n].effects \cup {e}
        BY <1>1, <2>1, AppliedContracts
    <2>4. NoEffectElsewhere'
        BY <1>1, <2>1, <2>2, <2>3 DEF IInv, NoEffectElsewhere
    <2>5. ledger[n] \in Ledgers
        BY DEF IInv, Networks
    <2>6. ledger'[n] \in Ledgers'
        <3> DEFINE new == IF op.kind = "create" THEN {LedgerId(n, op.host.preimage)} ELSE {}
                   up == IF op.kind = "upload" THEN {op.wasm} ELSE {}
        <3>1. /\ Created(n, op) \in SUBSET [id : Ids, wasm : Wasms \cup {Empty}, args : Args \cup {None}]
              /\ new \in SUBSET Ids /\ up \in SUBSET (Wasms \cup {Empty})
            BY DEF Operation, Created, UploadWasm, CreateContract, InvokeContract, ExtendFootprintTtl,
                   LedgerId, Ids
        <3>2. /\ Applied(n, e).code = ledger[n].code \cup up
              /\ Applied(n, e).seq = [ledger[n].seq EXCEPT ![a] = e.tx.seq]
            BY <1>1 DEF Applied
        <3>3. Applied(n, e).seq \in [Accounts -> Nat]
            BY <1>1, <1>6, <2>5, <3>2 DEF Ledgers
        <3>4. Applied(n, e).ttl = [i \in DOMAIN ledger[n].ttl \cup new |->
                                       IF i \in new THEN 0 ELSE ledger[n].ttl[i]]
            BY <1>1 DEF Applied
        <3>5. PICK D \in SUBSET Ids : ledger[n].ttl \in [D -> Nat]
            BY <2>5 DEF Ledgers
        <3>6. Applied(n, e).ttl \in [D \cup new -> Nat] /\ D \cup new \in SUBSET Ids
            <4> HIDE DEF new
            <4> QED BY <3>1, <3>4, <3>5
        <3>7. Applied(n, e) = [code |-> Applied(n, e).code, contracts |-> Applied(n, e).contracts,
                               ttl |-> Applied(n, e).ttl, seq |-> Applied(n, e).seq,
                               effects |-> Applied(n, e).effects]
            BY DEF Applied
        <3>8. Applied(n, e).effects \in SUBSET (sent')
            BY <1>2, <2>1, <2>3, <2>5 DEF Ledgers
        <3>9. Applied(n, e).ttl \in UNION {[E -> Nat] : E \in SUBSET Ids}
            BY <3>6
        <3>10. Applied(n, e).contracts \in SUBSET [id : Ids, wasm : Wasms \cup {Empty}, args : Args \cup {None}]
            BY <2>1, <2>3, <2>5, <3>1 DEF Ledgers
        <3>11. Applied(n, e).code \in SUBSET (Wasms \cup {Empty})
            BY <2>5, <3>1, <3>2 DEF Ledgers
        <3> QED BY <2>1, <3>3, <3>7, <3>8, <3>9, <3>10, <3>11 DEF Ledgers
    <2>7. \A c \in ledger'[n].contracts :
              c.id \in DOMAIN ledger'[n].ttl /\ c.id = LedgerId(n, c.id.preimage)
        <3> SUFFICES ASSUME NEW c \in ledger'[n].contracts
                     PROVE  c.id \in DOMAIN ledger'[n].ttl /\ c.id = LedgerId(n, c.id.preimage)
            OBVIOUS
        <3>1. CASE c \in ledger[n].contracts
            BY <2>1, <3>1 DEF IInv, Networks, Applied
        <3>2. CASE c \in Created(n, op)
            BY <1>1, <2>1, <3>2 DEF Created, Applied, LedgerId
        <3> QED BY <2>3, <3>1, <3>2
    <2>8. \A m \in Nets \ {n} : ledger'[m] \in Ledgers'
        BY <1>2, <2>1 DEF IInv, Networks, Ledgers
    <2>9. Networks'
        BY <1>3, <1>6, <2>1, <2>6, <2>7, <2>8 DEF IInv, Networks
    <2> QED BY <1>4, <2>1, <2>3, <2>4, <2>9
<1> QED BY <1>5, <1>6 DEF Send, e

-----------------------------------------------------------------------------
(***************************************************************************)
(* Contract values.                                                        *)
(***************************************************************************)
\* A value that is as configured stays so while contracts stay on their ledgers.
AsConfigured(h) ==
    contract[h] # None /\ contract[h].deployed =>
        \E c \in ledger[contract[h].configs.net].contracts :
            /\ c.id = contract[h].configs.id
            /\ c.wasm = contract[h].wasm
            /\ c.wasm \in Constructs => c.args = contract[h].args

LEMMA StaysAsConfigured ==
    ASSUME IInv, NEW g \in Handles, NEW h \in Handles, contract'[h] = contract[g],
           \A m \in Nets : ledger[m].contracts \subseteq ledger'[m].contracts
    PROVE  AsConfigured(h)'
<1> SUFFICES ASSUME contract[g] # None, contract[g].deployed
             PROVE  \E c \in ledger'[contract[g].configs.net].contracts :
                        /\ c.id = contract[g].configs.id
                        /\ c.wasm = contract[g].wasm
                        /\ c.wasm \in Constructs => c.args = contract[g].args
    BY DEF AsConfigured
<1>1. contract[g].configs.net \in Nets
    BY DEF IInv, Values
<1>2. PICK c \in ledger[contract[g].configs.net].contracts :
          /\ c.id = contract[g].configs.id
          /\ c.wasm = contract[g].wasm
          /\ c.wasm \in Constructs => c.args = contract[g].args
    BY DEF IInv, DeployedIsAsConfigured
<1>3. c \in ledger'[contract[g].configs.net].contracts
    BY <1>1
<1> QED BY <1>2, <1>3

\* One handle gets a value that is as it should be, the others keep theirs.
LEMMA OneChanges ==
    ASSUME IInv, NEW h \in Handles, NEW v, contract' = [contract EXCEPT ![h] = v],
           v # None =>
               /\ v.wasm \in Wasms \cup {Empty} /\ v.configs \in Configs \cup {None}
               /\ v.args \in Args \cup {None}
               /\ v.deployed => v.configs.net \in Nets,
           AsConfigured(h)',
           \A m \in Nets : ledger[m].contracts \subseteq ledger'[m].contracts,
           deploying' \in [Handles -> [net : Nets, account : Accounts, args : Args \cup {None}]
                                      \cup {None}],
           \A g \in Handles : deploying'[g] # None =>
               (g # h /\ deploying[g] # None) \/ (g = h /\ v # None)
    PROVE  Values' /\ DeployedIsAsConfigured'
<1>1. contract'[h] = v /\ \A g \in Handles \ {h} : contract'[g] = contract[g]
    BY DEF IInv, Values
<1>2. Values'
    BY <1>1 DEF IInv, Values
<1>3. \A g \in Handles \ {h} : AsConfigured(g)'
    BY <1>1, StaysAsConfigured
<1>4. DeployedIsAsConfigured'
    BY <1>3 DEF DeployedIsAsConfigured, AsConfigured
<1> QED BY <1>2, <1>4

LEMMA NoneChanges ==
    ASSUME IInv, UNCHANGED contract,
           deploying' \in [Handles -> [net : Nets, account : Accounts, args : Args \cup {None}]
                                      \cup {None}],
           \A g \in Handles : deploying'[g] # None => contract[g] # None,
           \A m \in Nets : ledger[m].contracts \subseteq ledger'[m].contracts
    PROVE  Values' /\ DeployedIsAsConfigured'
<1>1. Values'
    BY DEF IInv, Values
<1>2. \A g \in Handles : AsConfigured(g)'
    BY StaysAsConfigured
<1> QED BY <1>1, <1>2 DEF DeployedIsAsConfigured, AsConfigured

\* What leaves the networks alone.
LEMMA NetworksStay ==
    ASSUME IInv, UNCHANGED <<ledger, predicted, sent>>
    PROVE  /\ Networks' /\ SignedAsSaid' /\ Computed' /\ NoEffectElsewhere'
           /\ \A m \in Nets : ledger[m].contracts \subseteq ledger'[m].contracts
<1>1. Ledgers' = Ledgers
    BY DEF Ledgers
<1> QED BY <1>1 DEF IInv, Networks, SignedAsSaid, Computed, NoEffectElsewhere

\* The configs a caller has are configs.
LEMMA GivenAreConfigs == IInv => GivenConfigs \subseteq Configs
<1> SUFFICES ASSUME IInv PROVE GivenIds \subseteq Ids
    BY DEF GivenConfigs, Configs
<1>1. ASSUME NEW n \in Nets, NEW c \in ledger[n].contracts PROVE c.id \in Ids
    BY DEF IInv, Networks, Ledgers
<1>2. ASSUME NEW p \in predicted PROVE p.id \in Ids
    BY DEF IInv, Computed
<1> QED BY <1>1, <1>2 DEF GivenIds

LEMMA MadeKeepsIInv ==
    ASSUME IInv, NEW h \in Handles, New(h) \/ FromConfigs(h) \/ \E g \in Handles : Clone(h, g)
    PROVE  IInv'
<1>1. contract[h] = None /\ UNCHANGED <<deploying, ledger, predicted, sent>>
    BY DEF New, FromConfigs, Clone, Free
<1>2. /\ Networks' /\ SignedAsSaid' /\ Computed' /\ NoEffectElsewhere'
      /\ \A m \in Nets : ledger[m].contracts \subseteq ledger'[m].contracts
    BY <1>1, NetworksStay
<1>3. /\ deploying' \in [Handles -> [net : Nets, account : Accounts, args : Args \cup {None}] \cup {None}]
      /\ \A g \in Handles : deploying'[g] # None => g # h /\ deploying[g] # None
    BY <1>1 DEF IInv, Values
<1>4. ASSUME NEW w \in Wasms \cup {Empty}, NEW configs \in Configs \cup {None},
             contract' = [contract EXCEPT ![h] = Made(w, configs)]
      PROVE  IInv'
    <2>1. /\ Made(w, configs).wasm = w /\ Made(w, configs).configs = configs
          /\ Made(w, configs).args = None /\ ~Made(w, configs).deployed
        BY DEF Made
    <2>2. AsConfigured(h)'
        BY <1>4, <2>1 DEF IInv, Values, AsConfigured
    <2>3. Values' /\ DeployedIsAsConfigured'
        BY <1>2, <1>3, <1>4, <2>1, <2>2, OneChanges
    <2> QED BY <1>2, <2>3 DEF IInv
<1>5. CASE New(h) \/ FromConfigs(h)
    BY <1>4, <1>5, GivenAreConfigs DEF New, FromConfigs
<1>6. ASSUME NEW g \in Handles, Clone(h, g) PROVE IInv'
    <2>1. contract' = [contract EXCEPT ![h] = contract[g]]
        BY <1>6 DEF Clone
    <2>2. AsConfigured(h)'
        BY <1>2, <2>1, StaysAsConfigured DEF IInv, Values
    <2>3. Values' /\ DeployedIsAsConfigured'
        BY <1>2, <1>3, <2>1, <2>2, OneChanges DEF IInv, Values
    <2> QED BY <1>2, <2>3 DEF IInv
<1> QED BY <1>5, <1>6

LEMMA DeployKeepsIInv ==
    ASSUME IInv, NEW h \in Handles, NEW n \in Nets, NEW a \in Accounts, Deploy(h, n, a)
    PROVE  IInv'
<1>1. PICK args \in Args \cup {None}, ok \in BOOLEAN :
          /\ Send(Sign(Build(a, n, UploadWasm(contract[h].wasm)), n), n, ok)
          /\ \/ /\ deploying' = [deploying EXCEPT ![h] = [net |-> n, account |-> a, args |-> args]]
                /\ UNCHANGED contract
             \/ /\ contract' = [contract EXCEPT ![h] = None]
                /\ UNCHANGED deploying
    BY DEF Deploy
<1>2. contract[h] # None /\ deploying[h] = None /\ UNCHANGED predicted
    BY DEF Deploy, Ready
<1>3. Operation(UploadWasm(contract[h].wasm))
    BY <1>2 DEF IInv, Values, Operation
<1>4. /\ Networks' /\ SignedAsSaid' /\ NoEffectElsewhere'
      /\ \A m \in Nets : ledger[m].contracts \subseteq ledger'[m].contracts
    BY <1>1, <1>3, SendKeeps
<1>5. Computed'
    BY <1>2 DEF IInv, Computed
<1>6. CASE /\ deploying' = [deploying EXCEPT ![h] = [net |-> n, account |-> a, args |-> args]]
           /\ UNCHANGED contract
    <2>1. Values' /\ DeployedIsAsConfigured'
        BY <1>2, <1>4, <1>6, NoneChanges DEF IInv, Values
    <2> QED BY <1>4, <1>5, <2>1 DEF IInv
<1>7. CASE contract' = [contract EXCEPT ![h] = None] /\ UNCHANGED deploying
    <2>1. AsConfigured(h)'
        BY <1>7 DEF IInv, Values, AsConfigured
    <2>2. Values' /\ DeployedIsAsConfigured'
        BY <1>2, <1>4, <1>7, <2>1, OneChanges DEF IInv, Values
    <2> QED BY <1>4, <1>5, <2>2 DEF IInv
<1> QED BY <1>1, <1>6, <1>7

\* What deploy created is what its configs name.
LEMMA CreateKeepsIInv ==
    ASSUME IInv, NEW h \in Handles, Create(h)
    PROVE  IInv'
<1> DEFINE n == deploying[h].net
           a == deploying[h].account
           preimage == [account |-> a, salt |-> <<"random", Cardinality(sent)>>]
           op == CreateContract(preimage, contract[h].wasm, PassedArgs(h))
           made == [wasm |-> contract[h].wasm, configs |-> NewConfigs(h, LedgerId(n, preimage)),
                    args |-> deploying[h].args, deployed |-> TRUE]
<1>1. PICK ok \in BOOLEAN :
          /\ Send(Sign(Build(a, n, op), n), n, ok)
          /\ contract' = [contract EXCEPT ![h] = IF ok THEN made ELSE None]
    BY DEF Create, IInv, Values
<1>2. /\ deploying[h] # None /\ contract[h] # None
      /\ deploying' = [deploying EXCEPT ![h] = None] /\ UNCHANGED predicted
    BY DEF Create, IInv, Values
<1>3. n \in Nets /\ a \in Accounts /\ deploying[h].args \in Args \cup {None}
      /\ contract[h].wasm \in Wasms \cup {Empty}
    BY <1>2 DEF IInv, Values
<1>4. preimage \in Preimages
    BY <1>3, FS_CardinalityType DEF IInv, Networks, Preimages
<1>5. PassedArgs(h) \in Args \cup {None}
    BY <1>3 DEF PassedArgs
<1>6. Operation(op)
    BY <1>3, <1>4, <1>5 DEF Operation
<1>7. /\ Networks' /\ SignedAsSaid' /\ NoEffectElsewhere'
      /\ \A m \in Nets : ledger[m].contracts \subseteq ledger'[m].contracts
      /\ ok => Created(n, op) \subseteq ledger'[n].contracts
    BY <1>1, <1>3, <1>6, SendKeeps
<1>8. Computed'
    BY <1>2 DEF IInv, Computed
<1>9. /\ made.wasm \in Wasms \cup {Empty} /\ made.configs \in Configs
      /\ made.args \in Args \cup {None} /\ made.configs.net \in Nets
    BY <1>3, <1>4 DEF NewConfigs, Configs, LedgerId, Ids
<1>10. AsConfigured(h)'
    <2>1. CASE ~ok
        BY <1>1, <2>1 DEF IInv, Values, AsConfigured
    <2>2. CASE ok
        <3> DEFINE c == [id |-> LedgerId(n, preimage), wasm |-> contract[h].wasm,
                         args |-> PassedArgs(h)]
        <3>1. c \in ledger'[n].contracts
            BY <1>7, <2>2 DEF Created, CreateContract
        <3>2. contract'[h] = made
            BY <1>1, <2>2 DEF IInv, Values
        <3>3. made.configs.net = n /\ made.configs.id = LedgerId(n, preimage)
            BY DEF NewConfigs
        <3>4. c.wasm \in Constructs => c.args = deploying[h].args
            BY DeploymentsAssumption DEF PassedArgs
        <3> HIDE DEF c, n, preimage
        <3>5. c.id = LedgerId(n, preimage) /\ c.wasm = contract[h].wasm
            BY DEF c
        <3> QED BY <3>1, <3>2, <3>3, <3>4, <3>5 DEF AsConfigured
    <2> QED BY <2>1, <2>2
<1>11. Values' /\ DeployedIsAsConfigured'
    <2>1. \A g \in Handles : deploying'[g] # None => g # h /\ deploying[g] # None
        BY <1>2 DEF IInv, Values
    <2>2. deploying' \in [Handles -> [net : Nets, account : Accounts, args : Args \cup {None}]
                                     \cup {None}]
        BY <1>2 DEF IInv, Values
    <2> DEFINE v == IF ok THEN made ELSE None
    <2>3. v # None => /\ v.wasm \in Wasms \cup {Empty} /\ v.configs \in Configs \cup {None}
                      /\ v.args \in Args \cup {None}
                      /\ v.deployed => v.configs.net \in Nets
        BY <1>9
    <2>4. contract' = [contract EXCEPT ![h] = v]
        BY <1>1
    <2> HIDE DEF v
    <2> QED BY <1>7, <1>10, <2>1, <2>2, <2>3, <2>4, OneChanges
<1> QED BY <1>7, <1>8, <1>11 DEF IInv

LEMMA UseKeepsIInv ==
    ASSUME IInv, NEW h \in Handles,
           Invoke(h) \/ \E n \in Nets, a \in Accounts : ExtendTtl(h, n, a)
    PROVE  IInv'
<1>1. UNCHANGED <<contract, deploying, predicted>>
    BY DEF Invoke, ExtendTtl
<1>2. /\ Networks' /\ SignedAsSaid' /\ NoEffectElsewhere'
      /\ \A m \in Nets : ledger[m].contracts \subseteq ledger'[m].contracts
    <2>1. CASE Invoke(h)
        <3> DEFINE c == contract[h].configs
        <3>1. c \in Configs
            BY <2>1 DEF Invoke, Ready, IInv, Values
        <3>2. c.net \in Nets /\ c.account \in Accounts /\ c.id \in Ids
            BY <3>1 DEF Configs
        <3>3. Operation(InvokeContract(c.id))
            BY <3>2 DEF Operation
        <3> QED BY <2>1, <3>2, <3>3, SendKeeps DEF Invoke
    <2>2. ASSUME NEW n \in Nets, NEW a \in Accounts, ExtendTtl(h, n, a)
          PROVE  /\ Networks' /\ SignedAsSaid' /\ NoEffectElsewhere'
                 /\ \A m \in Nets : ledger[m].contracts \subseteq ledger'[m].contracts
        <3>1. Operation(ExtendFootprintTtl(ExtendTo))
            BY DEF Operation
        <3> QED BY <2>2, <3>1, SendKeeps DEF ExtendTtl
    <2> QED BY <2>1, <2>2
<1>3. Values' /\ DeployedIsAsConfigured'
    BY <1>1, <1>2, NoneChanges DEF IInv, Values
<1> QED BY <1>1, <1>2, <1>3 DEF IInv, Computed

LEMMA BuilderKeepsIInv ==
    ASSUME IInv, NEW a \in Accounts, NEW built \in Nets, NEW signed \in Nets, NEW n \in Nets,
           CreateWithBuilder(a, built, signed, n)
    PROVE  IInv'
<1>1. PICK salt \in Salts, w \in Wasms \ Constructs, ok \in BOOLEAN :
          LET preimage == [account |-> a, salt |-> salt] IN
          /\ Send(Sign(Build(a, built, CreateContract(preimage, w, None)), signed), n, ok)
          /\ predicted' = predicted \cup
                 {[net |-> n, preimage |-> preimage, id |-> CalculateContractId(a, salt, n)]}
          /\ UNCHANGED <<contract, deploying>>
    BY DEF CreateWithBuilder
<1> DEFINE preimage == [account |-> a, salt |-> salt]
<1>2. preimage \in Preimages
    BY DEF Preimages
<1>3. Operation(CreateContract(preimage, w, None))
    BY <1>2 DEF Operation
<1>4. /\ Networks' /\ SignedAsSaid' /\ NoEffectElsewhere'
      /\ \A m \in Nets : ledger[m].contracts \subseteq ledger'[m].contracts
    BY <1>1, <1>3, SendKeeps
<1>5. Computed'
    <2> DEFINE p == [net |-> n, preimage |-> preimage, id |-> CalculateContractId(a, salt, n)]
    <2>1. predicted' = predicted \cup {p}
        BY <1>1
    <2>2. p.id \in Ids /\ p.id = LedgerId(p.net, p.preimage)
        BY <1>2 DEF CalculateContractId, LedgerId, Ids
    <2> HIDE DEF p
    <2> QED BY <2>1, <2>2 DEF IInv, Computed
<1>6. Values' /\ DeployedIsAsConfigured'
    BY <1>1, <1>4, NoneChanges DEF IInv, Values
<1> QED BY <1>4, <1>5, <1>6 DEF IInv

LEMMA InitIInv == Init => IInv
<1> SUFFICES ASSUME Init PROVE IInv
    OBVIOUS
<1>1. IsFiniteSet(sent) /\ Cardinality(sent) = 0
    BY FS_EmptySet DEF Init
<1>2. <<>> \in UNION {[D -> Nat] : D \in SUBSET Ids}
    <2>1. <<>> \in [{} -> Nat]
        OBVIOUS
    <2> QED BY <2>1
<1>3. Networks
    <2>0. DOMAIN ledger = Nets /\ Cardinality(sent) <= MaxTxs
        BY <1>1, DeploymentsAssumption DEF Init
    <2> SUFFICES ASSUME NEW n \in Nets PROVE ledger[n] \in Ledgers /\ ledger[n].contracts = {}
        BY <1>1, <2>0 DEF Networks
    <2>1. ledger[n] = [code |-> {}, contracts |-> {}, ttl |-> <<>>,
                       seq |-> [a \in Accounts |-> 0], effects |-> {}]
        BY DEF Init
    <2> DEFINE empty == <<>>
    <2>2. empty \in UNION {[D -> Nat] : D \in SUBSET Ids}
        BY <1>2
    <2>3. ledger[n] = [code |-> {}, contracts |-> {}, ttl |-> empty,
                       seq |-> [a \in Accounts |-> 0], effects |-> {}]
        BY <2>1
    <2>4. [a \in Accounts |-> 0] \in [Accounts -> Nat]
        OBVIOUS
    <2> HIDE DEF empty
    <2> QED BY <2>2, <2>3, <2>4 DEF Ledgers
<1>4. Values /\ SignedAsSaid /\ Computed
    BY DEF Init, Values, SignedAsSaid, Computed
<1>5. NoEffectElsewhere /\ DeployedIsAsConfigured
    BY DEF Init, NoEffectElsewhere, DeployedIsAsConfigured
<1> QED BY <1>3, <1>4, <1>5 DEF IInv

LEMMA NextKeepsIInv == IInv /\ [Next]_vars => IInv'
<1> SUFFICES ASSUME IInv, [Next]_vars PROVE IInv'
    OBVIOUS
<1>1. ASSUME NEW h \in Handles,
             New(h) \/ FromConfigs(h) \/ \E g \in Handles : Clone(h, g)
      PROVE  IInv'
    BY <1>1, MadeKeepsIInv
<1>2. ASSUME NEW h \in Handles, NEW n \in Nets, NEW a \in Accounts, Deploy(h, n, a) PROVE IInv'
    BY <1>2, DeployKeepsIInv
<1>3. ASSUME NEW h \in Handles, Create(h) PROVE IInv'
    BY <1>3, CreateKeepsIInv
<1>4. ASSUME NEW h \in Handles, Invoke(h) \/ \E n \in Nets, a \in Accounts : ExtendTtl(h, n, a)
      PROVE  IInv'
    BY <1>4, UseKeepsIInv
<1>5. ASSUME NEW a \in Accounts, NEW built \in Nets, NEW signed \in Nets, NEW n \in Nets,
             CreateWithBuilder(a, built, signed, n)
      PROVE  IInv'
    BY <1>5, BuilderKeepsIInv
<1>6. CASE UNCHANGED vars
    <2>1. Values' /\ DeployedIsAsConfigured'
        BY <1>6, NoneChanges DEF vars, IInv, Values
    <2> QED BY <1>6, <2>1, NetworksStay DEF vars, IInv
<1> QED BY <1>1, <1>2, <1>3, <1>4, <1>5, <1>6 DEF Next
-----------------------------------------------------------------------------
\* The invariant holds in every reachable state.
THEOREM Invariance == Spec => []IInv
BY InitIInv, NextKeepsIInv, PTL DEF Spec

\* Values, ledgers and what is sent have the shapes they should.
THEOREM TypeCorrect == Spec => []TypeOK
<1>1. IInv => TypeOK
    BY DEF IInv, Values, Networks, Ledgers, TypeOK
<1> QED BY <1>1, Invariance, PTL

\* A transaction takes effect on no network but the one it was signed for, for
\* any networks, accounts and mixture of Envs (signer.rs:116-155).
THEOREM EffectsStayHome == Spec => []NoEffectElsewhere
<1>1. IInv => NoEffectElsewhere
    BY DEF IInv
<1> QED BY <1>1, Invariance, PTL

\* What deploy returns exists as it says (contract.rs:176-224).
THEOREM DeployKeepsItsWord == Spec => []DeployedIsAsConfigured
<1>1. IInv => DeployedIsAsConfigured
    BY DEF IInv
<1> QED BY <1>1, Invariance, PTL

\* An id computed in advance names that one contract (crypto.rs:53-75).
THEOREM PredictionsAreRight == Spec => []PredictedIdsComeTrue
<1>1. IInv => PredictedIdsComeTrue
    <2> SUFFICES ASSUME IInv, NEW p \in predicted, NEW n \in Nets, NEW c \in ledger[n].contracts
                 PROVE  c.id = p.id <=> n = p.net /\ c.id.preimage = p.preimage
        BY DEF PredictedIdsComeTrue
    <2>1. p.id = LedgerId(p.net, p.preimage) /\ c.id = LedgerId(n, c.id.preimage)
        BY DEF IInv, Computed, Networks
    <2>2. \A m1, m2, x1, x2 : LedgerId(m1, x1) = LedgerId(m2, x2) <=> m1 = m2 /\ x1 = x2
        BY DEF LedgerId
    <2> QED BY <2>1, <2>2
<1> QED BY <1>1, Invariance, PTL
=============================================================================
