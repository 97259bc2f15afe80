----------------------- MODULE ContractClient_proofs ------------------------
(***************************************************************************)
(* ContractClient's types, its safety invariants and its refinement of     *)
(* LedgerCalls, for any number of tasks, contracts, calls and guards.      *)
(***************************************************************************)
EXTENDS ContractClient, TLAPS, FiniteSetTheorems

Configs == [id : Ids, guards : Seq(G!Guard)]

\* TypeOK with the domains of the functions it speaks of.
Types ==
    /\ TypeOK
    /\ tx \in [Tasks -> Tx \cup {NoTx}]
    /\ configs \in [Tasks -> {NoConfigs} \cup Configs]
    /\ grant \in [Tasks -> Seq(G!Guard)]

\* Where a call is, and what its transaction has been through.
Phase(t) ==
    /\ pc[t] # "idle" => /\ tx[t] \in Tx
                         /\ calls[t] \in 1..MaxCalls[t]
                         /\ tx[t].op = "invoke" => configs[t] \in Configs
                         /\ tx[t].op = "create" => code /\ tx[t].arg \in Salts
    /\ pc[t] \in {"sequence", "simulate"} => tx[t].ext = "built"
    /\ pc[t] \in {"submit", "poll"} => tx[t].ext # "built" /\ \E s \in signed : s.tx = tx[t]
    /\ ret[t] = "Ok" => pc[t] = "idle" /\ [tx |-> tx[t], ok |-> TRUE] \in applied

\* What the network knows is what was signed, and the ledger applied one
\* transaction per sequence number.
Network ==
    /\ \A x \in pending : /\ \E s \in signed : s.tx = x
                          /\ x.op = "create" => code /\ x.arg \in Salts
    /\ \A a \in applied : /\ a.tx.seq <= sequence
                          /\ a.ok /\ a.tx.op = "upload" => code
                          /\ a.ok /\ a.tx.op = "create" => a.tx.arg \in contracts
    /\ \A a, b \in applied : a.tx.seq = b.tx.seq => a = b

\* The guards of an account keep their kinds, and pay for what it signs.
SignedBy(t) == {s \in signed : s.by = t /\ s.with = "account"}
Budget ==
    /\ IsFiniteSet(signed)
    /\ \A t \in Tasks :
          /\ DOMAIN account[t] = DOMAIN grant[t]
          /\ \A i \in DOMAIN grant[t] :
                /\ account[t][i].scope = grant[t][i].scope
                /\ grant[t][i].scope = AnyCall => Cardinality(SignedBy(t)) <= Spent(t, i)

IInv ==
    /\ Types
    /\ \A t \in Tasks : Phase(t)
    /\ Network
    /\ ConfigsNameAContract
    /\ Budget

(***************************************************************************)
(* Guards: the transactions of these paths cost a guard of transactions    *)
(* one, and one of contract calls nothing.                                 *)
(***************************************************************************)
LEMMA UpdateTakesOne ==
    ASSUME NEW g \in G!Guard, NEW o \in Operations
    PROVE  /\ G!Update(g, o) \in G!Guard
           /\ G!Update(g, o).scope = g.scope
           /\ g.scope = AnyCall /\ G!Check(g, o) => G!Update(g, o).remaining = g.remaining - 1
<1>1. G!Cost(g, o) = IF g.scope = AnyCall THEN 1 ELSE 0
  BY DEF G!Guard, G!Cost, CallsInBuilt
<1>2. CASE G!Cost(g, o) > 0 /\ g.remaining >= G!Cost(g, o)
  <2>1. G!Cost(g, o) = 1 /\ g.remaining \in 1..MaxRemaining
    BY <1>1, <1>2, ClientAssumption DEF G!Guard
  <2>2. G!Update(g, o) = [g EXCEPT !.remaining = g.remaining - 1]
    BY <1>2, <2>1 DEF G!Update
  <2> QED
    BY <2>1, <2>2, ClientAssumption DEF G!Guard
<1>3. CASE ~(G!Cost(g, o) > 0 /\ g.remaining >= G!Cost(g, o))
  <2>1. G!Update(g, o) = g
    BY <1>3 DEF G!Update
  <2>2. ~(g.scope = AnyCall /\ G!Check(g, o))
    BY <1>1, <1>3, ClientAssumption DEF G!Guard, G!Check
  <2> QED
    BY <2>1, <2>2
<1> QED
  BY <1>2, <1>3

LEMMA UpdateGuardsTakesOne ==
    ASSUME NEW gs \in Seq(G!Guard), NEW o \in Operations
    PROVE  /\ G!UpdateGuards(gs, o) \in Seq(G!Guard)
           /\ DOMAIN G!UpdateGuards(gs, o) = DOMAIN gs
           /\ \A i \in DOMAIN gs :
                 /\ gs[i] \in G!Guard
                 /\ G!UpdateGuards(gs, o)[i] \in G!Guard
                 /\ G!UpdateGuards(gs, o)[i].scope = gs[i].scope
                 /\ gs[i].scope = AnyCall /\ G!CheckGuards(gs, o) =>
                        G!UpdateGuards(gs, o)[i].remaining = gs[i].remaining - 1
<1>1. \A i \in 1..Len(gs) : gs[i] \in G!Guard /\ G!Update(gs[i], o) \in G!Guard
  BY UpdateTakesOne
<1>2. G!UpdateGuards(gs, o) = [i \in 1..Len(gs) |-> G!Update(gs[i], o)]
  BY DEF G!UpdateGuards
<1>3. G!UpdateGuards(gs, o) \in Seq(G!Guard)
  BY <1>1, <1>2
<1> QED
  BY <1>1, <1>2, <1>3, UpdateTakesOne DEF G!CheckGuards
(***************************************************************************)
(* What an action leaves alone stays as the invariant says.                *)
(***************************************************************************)
\* The values of every other task.
Others(t) ==
    \A u \in Tasks \ {t} :
        /\ pc'[u] = pc[u] /\ tx'[u] = tx[u] /\ calls'[u] = calls[u]
        /\ configs'[u] = configs[u] /\ ret'[u] = ret[u]

Grows ==
    /\ signed \subseteq signed'
    /\ applied \subseteq applied'
    /\ code => code'
    /\ contracts \subseteq contracts'

LEMMA OthersKeepPhase ==
    ASSUME IInv, NEW t \in Tasks, Others(t), Grows
    PROVE  \A u \in Tasks \ {t} : Phase(u)'
<1> SUFFICES ASSUME NEW u \in Tasks \ {t}
             PROVE  Phase(u)'
  OBVIOUS
<1>1. Phase(u)
  BY DEF IInv
<1>2. /\ pc'[u] = pc[u] /\ tx'[u] = tx[u] /\ calls'[u] = calls[u]
      /\ configs'[u] = configs[u] /\ ret'[u] = ret[u]
  BY DEF Others
<1> QED
  BY <1>1, <1>2 DEF Phase, Grows

LEMMA NetworkKept ==
    ASSUME IInv, UNCHANGED network, signed \subseteq signed'
    PROVE  Network' /\ Grows
BY DEF IInv, Network, Grows, network

LEMMA BudgetKept ==
    ASSUME IInv, UNCHANGED <<account, grant, signed>>
    PROVE  Budget'
BY DEF IInv, Budget, SignedBy, Spent

\* Types, but for the values a step changed.
LEMMA TypesKept ==
    ASSUME IInv,
           pc' \in [Tasks -> {"idle", "sequence", "simulate", "submit", "poll"}],
           tx' \in [Tasks -> Tx \cup {NoTx}],
           account' \in [Tasks -> Seq(G!Guard)],
           configs' \in [Tasks -> {NoConfigs} \cup Configs],
           calls' \in [Tasks -> Nat], \A t \in Tasks : calls'[t] <= MaxCalls[t],
           ret' \in [Tasks -> {"None", "Ok", "Unauthorized", "Err"}],
           signed' \subseteq [by : Tasks, with : {"account", "configs"}, tx : Tx],
           UNCHANGED grant,
           pending' \subseteq Tx,
           UNCHANGED <<sequence, applied, code, contracts>>
    PROVE  Types'
BY DEF IInv, Types, TypeOK, Configs

\* A transaction stays one.
LEMMA TxUpdated ==
    ASSUME NEW x \in Tx
    PROVE  /\ \A n \in Nat : [x EXCEPT !.seq = n] \in Tx
           /\ \A e \in {"built", "V1", "error", "undecodable"} : [x EXCEPT !.ext = e] \in Tx
BY DEF Tx

\* A call that failed leaves no transaction, and no trace elsewhere.
LEMMA FailsKeepsIInv ==
    ASSUME IInv, NEW t \in Tasks, pc[t] # "idle", Fails(t),
           UNCHANGED <<sequence, applied, code, contracts>>,
           pending' = pending \/ (pending' = pending \cup {tx[t]} /\ pc[t] = "submit")
    PROVE  IInv'
<1>1. /\ pc' = [pc EXCEPT ![t] = "idle"]
      /\ ret' = [ret EXCEPT ![t] = "Err"]
      /\ tx' = [tx EXCEPT ![t] = NoTx]
      /\ UNCHANGED <<account, configs, calls, grant, signed>>
  BY DEF Fails, Return, aux
<1>2. Types /\ Phase(t) /\ Network /\ ConfigsNameAContract
  BY DEF IInv
<1>3. Types'
  BY <1>1, <1>2, TypesKept DEF Types, TypeOK, Phase
<1>4. Grows
  BY <1>1 DEF Grows
<1>5. Others(t)
  BY <1>1, <1>2 DEF Others, Types, TypeOK
<1>6. Phase(t)'
  BY <1>1, <1>2 DEF Phase, Types, TypeOK
<1>7. Network'
  BY <1>1, <1>2 DEF Network, Phase
<1>8. ConfigsNameAContract'
  BY <1>1, <1>2 DEF ConfigsNameAContract
<1>9. Budget'
  BY <1>1, BudgetKept
<1> QED
  BY <1>3, <1>4, <1>5, <1>6, <1>7, <1>8, <1>9, OthersKeepPhase DEF IInv
(***************************************************************************)
(* Each action keeps the invariant.                                        *)
(***************************************************************************)
\* A call that begins.
LEMMA BeginKeepsIInv ==
    ASSUME IInv, NEW t \in Tasks, NEW o \in {"upload", "invoke", "extend"}, NEW arg \in TxArgs,
           Ready(t), Begin(t, o, arg),
           \/ UNCHANGED configs
           \/ configs' = [configs EXCEPT ![t] = NoConfigs],
           o = "invoke" => configs[t] # NoConfigs /\ UNCHANGED configs,
           UNCHANGED <<account, network, aux>>
    PROVE  IInv'
<1> DEFINE new == [op |-> o, arg |-> arg, seq |-> 0, ext |-> "built"]
<1>1. /\ pc' = [pc EXCEPT ![t] = "sequence"]
      /\ ret' = [ret EXCEPT ![t] = "None"]
      /\ tx' = [tx EXCEPT ![t] = new]
      /\ calls' = [calls EXCEPT ![t] = @ + 1]
      /\ pc[t] = "idle" /\ calls[t] < MaxCalls[t]
      /\ UNCHANGED <<account, grant, signed, network>>
  BY DEF Begin, Ready, aux
<1>2. Types /\ Phase(t) /\ ConfigsNameAContract
  BY DEF IInv
<1>3. new \in Tx
  BY DEF Tx, Operations
<1>4. calls[t] + 1 \in 1..MaxCalls[t]
  BY <1>1, <1>2, ClientAssumption DEF Types, TypeOK
<1>5. Types'
  <2>1. configs' \in [Tasks -> {NoConfigs} \cup Configs]
    BY <1>2 DEF Types
  <2>2. /\ tx' \in [Tasks -> Tx \cup {NoTx}] /\ calls' \in [Tasks -> Nat]
        /\ \A u \in Tasks : calls'[u] <= MaxCalls[u]
    BY <1>1, <1>2, <1>3, <1>4 DEF Types, TypeOK
  <2>3. /\ pc' \in [Tasks -> {"idle", "sequence", "simulate", "submit", "poll"}]
        /\ ret' \in [Tasks -> {"None", "Ok", "Unauthorized", "Err"}]
        /\ account' \in [Tasks -> Seq(G!Guard)]
        /\ signed' \subseteq [by : Tasks, with : {"account", "configs"}, tx : Tx]
        /\ pending' \subseteq Tx
    BY <1>1, <1>2 DEF Types, TypeOK, network
  <2> QED
    BY <1>1, <2>1, <2>2, <2>3, TypesKept DEF network
<1>6. Network' /\ Grows
  BY <1>1, NetworkKept
<1>7. Others(t)
  BY <1>1, <1>2 DEF Others, Types, TypeOK
<1>8. Phase(t)'
  <2>1. pc'[t] = "sequence" /\ tx'[t] = new /\ calls'[t] \in 1..MaxCalls[t] /\ ret'[t] = "None"
    BY <1>1, <1>2, <1>4 DEF Types, TypeOK
  <2>2. o = "invoke" => configs'[t] \in Configs
    BY <1>2 DEF Types
  <2> QED
    BY <2>1, <2>2, <1>3 DEF Phase
<1>9. ConfigsNameAContract'
  BY <1>1, <1>2 DEF ConfigsNameAContract, Types, network
<1>10. Budget'
  BY <1>1, BudgetKept
<1> QED
  BY <1>5, <1>6, <1>7, <1>8, <1>9, <1>10, OthersKeepPhase DEF IInv

LEMMA CallKeepsIInv ==
    ASSUME IInv, NEW t \in Tasks, Call(t)
    PROVE  IInv'
<1>1. CASE Deploy(t)
  BY <1>1, BeginKeepsIInv DEF Deploy, TxArgs
<1>2. CASE ExtendTtl(t)
  BY <1>2, BeginKeepsIInv DEF ExtendTtl, TxArgs
<1>3. ASSUME NEW arg \in Args, Invoke(t, arg)
      PROVE  IInv'
  <2>1. configs[t].id \in Ids
    BY <1>3 DEF Invoke, IInv, Types, Configs
  <2>2. <<configs[t].id, arg>> \in TxArgs
    BY <2>1 DEF TxArgs
  <2> QED
    BY <1>3, <2>2, BeginKeepsIInv DEF Invoke
<1>4. CASE NotDeployed(t)
  <2>1. /\ pc[t] = "idle" /\ calls[t] < MaxCalls[t]
        /\ calls' = [calls EXCEPT ![t] = @ + 1]
        /\ ret' = [ret EXCEPT ![t] = "Err"]
        /\ tx' = [tx EXCEPT ![t] = NoTx]
        /\ UNCHANGED <<pc, account, configs, grant, signed, network>>
    BY <1>4 DEF NotDeployed, Ready, aux
  <2>2. Types /\ ConfigsNameAContract
    BY DEF IInv
  <2>3. calls[t] + 1 \in 0..MaxCalls[t]
    BY <2>1, <2>2, ClientAssumption DEF Types, TypeOK
  <2>4. Types'
    BY <2>1, <2>2, <2>3, TypesKept DEF Types, TypeOK, network
  <2>5. Network' /\ Grows
    BY <2>1, NetworkKept
  <2>6. Others(t)
    BY <2>1, <2>2 DEF Others, Types, TypeOK
  <2>7. Phase(t)'
    BY <2>1, <2>2 DEF Phase, Types, TypeOK
  <2>8. ConfigsNameAContract'
    BY <2>1, <2>2 DEF ConfigsNameAContract, network
  <2>9. Budget'
    BY <2>1, BudgetKept
  <2> QED
    BY <2>4, <2>5, <2>6, <2>7, <2>8, <2>9, OthersKeepPhase DEF IInv
<1> QED
  BY <1>1, <1>2, <1>3, <1>4 DEF Call

LEMMA GetSequenceKeepsIInv ==
    ASSUME IInv, NEW t \in Tasks, GetSequence(t)
    PROVE  IInv'
<1>1. CASE Fails(t)
  BY <1>1, FailsKeepsIInv DEF GetSequence, network
<1>2. CASE ~Fails(t)
  <2>1. /\ pc[t] = "sequence"
        /\ tx' = [tx EXCEPT ![t].seq = sequence + 1]
        /\ pc' = [pc EXCEPT ![t] = "simulate"]
        /\ UNCHANGED <<account, configs, calls, ret, grant, signed, network>>
    BY <1>2 DEF GetSequence, aux
  <2>2. Types /\ Phase(t) /\ ConfigsNameAContract
    BY DEF IInv
  <2>3. tx[t] \in Tx /\ tx'[t] = [tx[t] EXCEPT !.seq = sequence + 1] /\ sequence + 1 \in Nat
    BY <2>1, <2>2 DEF Types, TypeOK, Phase
  <2>4. /\ tx'[t] \in Tx
        /\ tx'[t].op = tx[t].op /\ tx'[t].arg = tx[t].arg /\ tx'[t].ext = tx[t].ext
    BY <2>3 DEF Tx
  <2>5. tx' \in [Tasks -> Tx \cup {NoTx}]
    BY <2>1, <2>2, <2>3, <2>4 DEF Types
  <2>6. Types'
    BY <2>1, <2>2, <2>5, TypesKept DEF Types, TypeOK, network
  <2>7. Network' /\ Grows
    BY <2>1, NetworkKept
  <2>8. Others(t)
    BY <2>1, <2>2 DEF Others, Types, TypeOK
  <2>9. Phase(t)'
    <3>1. pc'[t] = "simulate"
      BY <2>1, <2>2 DEF Types, TypeOK
    <3> QED
      BY <3>1, <2>1, <2>2, <2>4 DEF Phase, network
  <2>10. ConfigsNameAContract'
    BY <2>1, <2>2 DEF ConfigsNameAContract, network
  <2>11. Budget'
    BY <2>1, BudgetKept
  <2> QED
    BY <2>6, <2>7, <2>8, <2>9, <2>10, <2>11, OthersKeepPhase DEF IInv
<1> QED
  BY <1>1, <1>2
\* Signing pays for the signature, if the account signs and not the contract's.
LEMMA SignKeepsBudget ==
    ASSUME IInv, NEW t \in Tasks, Sign(t), tx[t] \in Tx, UNCHANGED grant,
           G!CheckGuards(SigningGuards(t), tx[t].op)
    PROVE  Budget'
<1> DEFINE new == [by |-> t, with |-> SignsWith(t), tx |-> tx'[t]]
<1>1. Types /\ Budget
  BY DEF IInv
<1>2. signed' = signed \cup {new} /\ IsFiniteSet(signed')
  BY <1>1, FS_AddElement DEF Sign, Budget
<1>3. tx[t].op \in Operations
  BY DEF Tx
<1>4. ASSUME NEW u \in Tasks
      PROVE  /\ DOMAIN account'[u] = DOMAIN grant'[u]
             /\ \A i \in DOMAIN grant'[u] :
                   /\ account'[u][i].scope = grant'[u][i].scope
                   /\ grant'[u][i].scope = AnyCall => Cardinality(SignedBy(u)') <= Spent(u, i)'
  <2>1. CASE u = t /\ tx[t].op # "invoke"
    <3>1. account'[t] = G!UpdateGuards(account[t], tx[t].op)
      BY <1>1, <2>1 DEF Sign, Types, TypeOK
    <3>2. G!CheckGuards(account[t], tx[t].op)
      BY <2>1 DEF SigningGuards
    <3>3. account[t] \in Seq(G!Guard) /\ grant[t] \in Seq(G!Guard)
      BY <1>1 DEF Types, TypeOK
    <3>4. DOMAIN account'[t] = DOMAIN grant[t]
      BY <1>1, <1>3, <3>1, <3>3, UpdateGuardsTakesOne DEF Budget
    <3>5. SignedBy(t)' = SignedBy(t) \cup {new}
      BY <1>2, <2>1 DEF SignedBy, SignsWith
    <3>6. /\ IsFiniteSet(SignedBy(t))
          /\ Cardinality(SignedBy(t)) \in Nat
          /\ Cardinality(SignedBy(t)') \in Nat
          /\ Cardinality(SignedBy(t)') <= Cardinality(SignedBy(t)) + 1
      <4>1. IsFiniteSet(SignedBy(t))
        BY <1>1, FS_Subset DEF Budget, SignedBy
      <4>2. /\ IsFiniteSet(SignedBy(t) \cup {new})
            /\ \/ Cardinality(SignedBy(t) \cup {new}) = Cardinality(SignedBy(t)) + 1
               \/ Cardinality(SignedBy(t) \cup {new}) = Cardinality(SignedBy(t))
        BY <4>1, FS_AddElement
      <4>3. Cardinality(SignedBy(t)) \in Nat
        BY <4>1, FS_CardinalityType
      <4> HIDE DEF new
      <4> QED
        BY <3>5, <4>1, <4>2, <4>3
    <3>7. ASSUME NEW i \in DOMAIN grant[t]
          PROVE  /\ account'[t][i].scope = grant[t][i].scope
                 /\ grant[t][i].scope = AnyCall =>
                        account'[t][i].remaining = account[t][i].remaining - 1
      <4>1. /\ i \in DOMAIN account[t]
            /\ account[t][i].scope = grant[t][i].scope
        BY <1>1 DEF Budget
      <4>2. /\ account'[t][i].scope = account[t][i].scope
            /\ account[t][i].scope = AnyCall =>
                   account'[t][i].remaining = account[t][i].remaining - 1
        BY <1>3, <3>1, <3>2, <3>3, <4>1, UpdateGuardsTakesOne
      <4> QED
        BY <4>1, <4>2
    <3>8. ASSUME NEW i \in DOMAIN grant[t], grant[t][i].scope = AnyCall
          PROVE  Cardinality(SignedBy(t)') <= Spent(t, i)'
      <4>1. account[t][i] \in G!Guard /\ grant[t][i] \in G!Guard
        BY <1>1, <3>3 DEF Budget
      <4>2. account[t][i].remaining \in Int /\ grant[t][i].remaining \in Int
        BY <4>1, ClientAssumption DEF G!Guard
      <4>3. Spent(t, i)' = Spent(t, i) + 1 /\ Spent(t, i) \in Int
        BY <4>2, <3>7, <3>8 DEF Spent
      <4>4. Cardinality(SignedBy(t)) <= Spent(t, i)
        BY <1>1, <3>8 DEF Budget
      <4> QED
        BY <3>6, <4>3, <4>4
    <3> QED
      BY <2>1, <3>4, <3>7, <3>8
  <2>2. CASE ~(u = t /\ tx[t].op # "invoke")
    <3>1. account'[u] = account[u]
      BY <1>1, <2>2 DEF Sign, Types, TypeOK
    <3>2. SignedBy(u)' = SignedBy(u)
      BY <1>2, <2>2 DEF SignedBy, SignsWith
    <3> QED
      BY <1>1, <3>1, <3>2 DEF Budget, Spent
  <2> QED
    BY <2>1, <2>2
<1> QED
  BY <1>2, <1>4 DEF Budget

LEMMA SimulateKeepsIInv ==
    ASSUME IInv, NEW t \in Tasks, Simulate(t)
    PROVE  IInv'
<1>1. CASE Fails(t)
  BY <1>1, FailsKeepsIInv DEF Simulate, network
<1>2. CASE Return(t, "Unauthorized") /\ UNCHANGED <<tx, account, configs, calls, aux, network>>
  <2>1. /\ pc' = [pc EXCEPT ![t] = "idle"]
        /\ ret' = [ret EXCEPT ![t] = "Unauthorized"]
        /\ UNCHANGED <<tx, account, configs, calls, grant, signed, network>>
    BY <1>2 DEF Return, aux
  <2>2. Types /\ Phase(t) /\ ConfigsNameAContract
    BY DEF IInv
  <2>3. Types'
    BY <2>1, <2>2, TypesKept DEF Types, TypeOK, network
  <2>4. Network' /\ Grows
    BY <2>1, NetworkKept
  <2>5. Others(t)
    BY <2>1, <2>2 DEF Others, Types, TypeOK
  <2>6. Phase(t)'
    BY <2>1, <2>2 DEF Phase, Types, TypeOK
  <2>7. ConfigsNameAContract'
    BY <2>1, <2>2 DEF ConfigsNameAContract, network
  <2>8. Budget'
    BY <2>1, BudgetKept
  <2> QED
    BY <2>3, <2>4, <2>5, <2>6, <2>7, <2>8, OthersKeepPhase DEF IInv
<1>3. ASSUME pc[t] = "simulate",
             G!CheckGuards(SigningGuards(t), tx[t].op),
             NEW ext \in {"V1", "error", "undecodable"},
             tx' = [tx EXCEPT ![t].ext = ext],
             Sign(t),
             pc' = [pc EXCEPT ![t] = "submit"],
             UNCHANGED <<calls, ret, grant, network>>
      PROVE  IInv'
  <2>1. Types /\ Phase(t) /\ ConfigsNameAContract
    BY DEF IInv
  <2>2. tx[t] \in Tx /\ tx'[t] = [tx[t] EXCEPT !.ext = ext]
    BY <1>3, <2>1 DEF Types, Phase
  <2>3. /\ tx'[t] \in Tx /\ tx[t].op \in Operations
        /\ tx'[t].op = tx[t].op /\ tx'[t].arg = tx[t].arg /\ tx'[t].ext = ext
    BY <2>2 DEF Tx
  <2>4. tx' \in [Tasks -> Tx \cup {NoTx}]
    BY <1>3, <2>1, <2>2, <2>3 DEF Types
  <2>5. signed' = signed \cup {[by |-> t, with |-> SignsWith(t), tx |-> tx'[t]]}
    BY <1>3 DEF Sign
  <2>6. \E s \in signed' : s.tx = tx'[t]
    <3> DEFINE new == [by |-> t, with |-> SignsWith(t), tx |-> tx'[t]]
    <3>1. new \in signed' /\ new.tx = tx'[t]
      BY <2>5
    <3> HIDE DEF new
    <3> QED
      BY <3>1
  <2>7. /\ account' \in [Tasks -> Seq(G!Guard)]
        /\ configs' \in [Tasks -> {NoConfigs} \cup Configs]
        /\ tx[t].op = "invoke" => configs'[t] \in Configs
        /\ \A u \in Tasks \ {t} : configs'[u] = configs[u]
        /\ \A u \in Tasks : configs'[u] # NoConfigs =>
               configs[u] # NoConfigs /\ configs'[u].id = configs[u].id
    <3>1. CASE tx[t].op = "invoke"
      <4>1. /\ configs[t] \in Configs
            /\ UNCHANGED account
            /\ configs' = [configs EXCEPT ![t].guards = G!UpdateGuards(@, "invoke")]
        BY <1>3, <2>1, <3>1 DEF Sign, Phase
      <4>2. G!UpdateGuards(configs[t].guards, "invoke") \in Seq(G!Guard)
        BY <4>1, UpdateGuardsTakesOne DEF Configs, Operations
      <4>3. /\ configs'[t] = [configs[t] EXCEPT !.guards = G!UpdateGuards(configs[t].guards, "invoke")]
            /\ \A u \in Tasks \ {t} : configs'[u] = configs[u]
        BY <4>1, <2>1 DEF Types
      <4>4. configs'[t] \in Configs /\ configs'[t].id = configs[t].id
        BY <4>1, <4>2, <4>3 DEF Configs
      <4>5. \A u \in Tasks : configs'[u] # NoConfigs =>
               configs[u] # NoConfigs /\ configs'[u].id = configs[u].id
        <5>1. configs[t] # NoConfigs
          BY <4>1, ClientAssumption DEF Configs
        <5> QED
          BY <4>3, <4>4, <5>1
      <4> QED
        BY <2>1, <4>1, <4>3, <4>4, <4>5 DEF Types, TypeOK
    <3>2. CASE tx[t].op # "invoke"
      <4>1. account' = [account EXCEPT ![t] = G!UpdateGuards(@, tx[t].op)] /\ UNCHANGED configs
        BY <1>3, <3>2 DEF Sign
      <4>2. G!UpdateGuards(account[t], tx[t].op) \in Seq(G!Guard)
        BY <2>1, <2>3, UpdateGuardsTakesOne DEF Types, TypeOK
      <4> QED
        BY <2>1, <3>2, <4>1, <4>2 DEF Types, TypeOK
    <3> QED
      BY <3>1, <3>2
  <2>8. signed' \subseteq [by : Tasks, with : {"account", "configs"}, tx : Tx]
    BY <2>1, <2>3, <2>5 DEF Types, TypeOK, SignsWith
  <2>9. Types'
    BY <1>3, <2>1, <2>4, <2>7, <2>8, TypesKept DEF Types, TypeOK, network
  <2>10. Network' /\ Grows
    BY <1>3, <2>5, NetworkKept
  <2>11. Others(t)
    BY <1>3, <2>1, <2>7 DEF Others, Types, TypeOK
  <2>12. Phase(t)'
    <3>1. pc'[t] = "submit"
      BY <1>3, <2>1 DEF Types, TypeOK
    <3> QED
      BY <1>3, <3>1, <2>1, <2>3, <2>6, <2>7 DEF Phase, network
  <2>13. ConfigsNameAContract'
    BY <1>3, <2>1, <2>7 DEF ConfigsNameAContract, network
  <2>14. Budget'
    BY <1>3, <2>2, SignKeepsBudget
  <2> QED
    BY <2>9, <2>10, <2>11, <2>12, <2>13, <2>14, OthersKeepPhase DEF IInv
<1> QED
  BY <1>1, <1>2, <1>3 DEF Simulate
\* The upload is followed by the creation, once the code is there.
LEMMA StartCreateKeepsIInv ==
    ASSUME IInv, NEW t \in Tasks, pc[t] # "idle", code, StartCreate(t), UNCHANGED network
    PROVE  IInv'
<1> DEFINE new == [op |-> "create", arg |-> <<t, calls[t]>>, seq |-> 0, ext |-> "built"]
<1>1. /\ tx' = [tx EXCEPT ![t] = new]
      /\ pc' = [pc EXCEPT ![t] = "sequence"]
      /\ UNCHANGED <<account, configs, calls, ret, grant, signed, network>>
  BY DEF StartCreate, aux
<1>2. Types /\ Phase(t) /\ ConfigsNameAContract
  BY DEF IInv
<1>3. <<t, calls[t]>> \in Salts /\ calls[t] \in 1..MaxCalls[t]
  BY <1>2 DEF Phase, Salts
<1>4. new \in Tx
  BY <1>3 DEF Tx, Operations, TxArgs
<1>5. Types'
  BY <1>1, <1>2, <1>4, TypesKept DEF Types, TypeOK, network
<1>6. Network' /\ Grows
  BY <1>1, NetworkKept
<1>7. Others(t)
  BY <1>1, <1>2 DEF Others, Types, TypeOK
<1>8. Phase(t)'
  <2>1. pc'[t] = "sequence" /\ tx'[t] = new
    BY <1>1, <1>2 DEF Types, TypeOK
  <2>2. ret'[t] # "Ok"
    BY <1>1, <1>2 DEF Phase
  <2> QED
    BY <2>1, <2>2, <1>1, <1>3, <1>4 DEF Phase, network
<1>9. ConfigsNameAContract'
  BY <1>1, <1>2 DEF ConfigsNameAContract, network
<1>10. Budget'
  BY <1>1, BudgetKept
<1> QED
  BY <1>5, <1>6, <1>7, <1>8, <1>9, <1>10, OthersKeepPhase DEF IInv

\* A call that returns Ok saw its last transaction succeed.
LEMMA SentKeepsIInv ==
    ASSUME IInv, NEW t \in Tasks, pc[t] # "idle",
           [tx |-> tx[t], ok |-> TRUE] \in applied, Sent(t), UNCHANGED network
    PROVE  IInv'
<1>1. Types /\ Phase(t) /\ ConfigsNameAContract /\ Network
  BY DEF IInv
<1> DEFINE a == [tx |-> tx[t], ok |-> TRUE]
<1>2. /\ tx[t].op = "upload" => code
      /\ tx[t].op = "create" => tx[t].arg \in contracts
  <2>1. a \in applied /\ a.tx = tx[t] /\ a.ok
    OBVIOUS
  <2> HIDE DEF a
  <2> QED
    BY <1>1, <2>1 DEF Network
<1>3. CASE tx[t].op = "upload"
  BY <1>2, <1>3, StartCreateKeepsIInv DEF Sent
<1>4. CASE tx[t].op = "create" /\ Fails(t)
  BY <1>4, FailsKeepsIInv DEF network
<1>5. CASE /\ Return(t, "Ok")
           /\ UNCHANGED <<tx, account, calls, aux>>
           /\ \/ UNCHANGED configs
              \/ /\ tx[t].op = "create"
                 /\ configs' = [configs EXCEPT ![t] = [id |-> tx[t].arg, guards |-> account[t]]]
  <2> DEFINE new == [id |-> tx[t].arg, guards |-> account[t]]
  <2>1. /\ pc' = [pc EXCEPT ![t] = "idle"]
        /\ ret' = [ret EXCEPT ![t] = "Ok"]
        /\ UNCHANGED <<tx, account, calls, grant, signed, network>>
    BY <1>5 DEF Return, aux
  <2>2. tx[t].op = "create" => new \in Configs
    BY <1>1 DEF Configs, Types, TypeOK, Phase, Ids
  <2>3. configs' \in [Tasks -> {NoConfigs} \cup Configs]
    BY <1>1, <1>5, <2>2 DEF Types
  <2>4. Types'
    BY <1>1, <2>1, <2>3, TypesKept DEF Types, TypeOK, network
  <2>5. Network' /\ Grows
    BY <2>1, NetworkKept
  <2>6. Others(t)
    BY <1>1, <1>5, <2>1 DEF Others, Types, TypeOK
  <2>7. Phase(t)'
    <3>1. pc'[t] = "idle" /\ tx'[t] = tx[t] /\ applied' = applied
      BY <1>1, <2>1 DEF Types, TypeOK, network
    <3> QED
      BY <3>1 DEF Phase
  <2>8. ConfigsNameAContract'
    BY <1>1, <1>2, <1>5, <2>1 DEF ConfigsNameAContract, Types, network
  <2>9. Budget'
    BY <2>1, BudgetKept
  <2> QED
    BY <2>4, <2>5, <2>6, <2>7, <2>8, <2>9, OthersKeepPhase DEF IInv
<1> QED
  BY <1>3, <1>4, <1>5 DEF Sent

LEMMA SubmitKeepsIInv ==
    ASSUME IInv, NEW t \in Tasks, Submit(t)
    PROVE  IInv'
<1>1. pc[t] = "submit" /\ Types /\ Phase(t) /\ ConfigsNameAContract /\ Network
  BY DEF IInv, Submit
<1>2. CASE Fails(t) /\ UNCHANGED network
  BY <1>1, <1>2, FailsKeepsIInv DEF network
<1>3. CASE code /\ CodeExists(t) /\ UNCHANGED network
  <2>1. CASE tx[t].op = "upload"
    BY <1>1, <1>3, <2>1, StartCreateKeepsIInv DEF CodeExists
  <2>2. CASE tx[t].op # "upload"
    BY <1>1, <1>3, <2>2, FailsKeepsIInv DEF CodeExists, network
  <2> QED
    BY <2>1, <2>2
<1>4. CASE /\ pending' = pending \cup {tx[t]} \/ pending' = pending
           /\ pc' = [pc EXCEPT ![t] = "poll"]
           /\ UNCHANGED <<tx, account, configs, calls, ret, aux>>
           /\ UNCHANGED <<sequence, applied, code, contracts>>
  <2>1. UNCHANGED <<grant, signed>>
    BY <1>4 DEF aux
  <2>2. Types'
    BY <1>1, <1>4, <2>1, TypesKept DEF Types, TypeOK, Phase
  <2>3. Grows
    BY <1>4, <2>1 DEF Grows
  <2>4. Network'
    BY <1>1, <1>4, <2>1 DEF Network, Phase
  <2>5. Others(t)
    BY <1>1, <1>4 DEF Others, Types, TypeOK
  <2>6. Phase(t)'
    <3>1. pc'[t] = "poll"
      BY <1>1, <1>4 DEF Types, TypeOK
    <3> QED
      BY <1>1, <1>4, <2>1, <3>1 DEF Phase
  <2>7. ConfigsNameAContract'
    BY <1>1, <1>4 DEF ConfigsNameAContract
  <2>8. Budget'
    BY <1>4, <2>1, BudgetKept
  <2> QED
    BY <2>2, <2>3, <2>4, <2>5, <2>6, <2>7, <2>8, OthersKeepPhase DEF IInv
<1>5. CASE /\ pending' = pending \cup {tx[t]}
           /\ Fails(t)
           /\ UNCHANGED <<sequence, applied, code, contracts>>
  BY <1>1, <1>5, FailsKeepsIInv
<1> QED
  BY <1>2, <1>3, <1>4, <1>5 DEF Submit

LEMMA PollKeepsIInv ==
    ASSUME IInv, NEW t \in Tasks, Poll(t)
    PROVE  IInv'
<1>1. CASE Fails(t)
  BY <1>1, FailsKeepsIInv DEF Poll, network
<1>2. CASE [tx |-> tx[t], ok |-> TRUE] \in applied /\ Sent(t)
  BY <1>2, SentKeepsIInv DEF Poll
<1> QED
  BY <1>1, <1>2 DEF Poll
LEMMA ApplyKeepsIInv ==
    ASSUME IInv, NEW x \in pending, Apply(x)
    PROVE  IInv'
<1>1. Types /\ Network /\ ConfigsNameAContract /\ x \in Tx /\ x.seq = sequence + 1
  BY DEF IInv, Types, TypeOK, Apply
<1>2. PICK ok \in BOOLEAN :
          /\ applied' = applied \cup {[tx |-> x, ok |-> ok]}
          /\ ok /\ x.op = "upload" => code'
          /\ ok /\ x.op = "create" => x.arg \in contracts'
          /\ code => code'
          /\ code' \in BOOLEAN
          /\ contracts \subseteq contracts'
          /\ contracts' \subseteq Ids
  <2>1. CASE applied' = applied \cup {[tx |-> x, ok |-> FALSE]} /\ UNCHANGED <<code, contracts>>
    BY <1>1, <2>1 DEF Types, TypeOK
  <2>2. CASE /\ applied' = applied \cup {[tx |-> x, ok |-> TRUE]}
             /\ code' = (code \/ x.op = "upload")
             /\ contracts' = IF x.op = "create" THEN contracts \cup {x.arg} ELSE contracts
    <3>1. x.op = "create" => x.arg \in Ids
      BY <1>1 DEF Network, Ids
    <3> QED
      BY <1>1, <2>2, <3>1 DEF Types, TypeOK
  <2> QED
    BY <2>1, <2>2 DEF Apply
<1>3. /\ sequence' = sequence + 1
      /\ pending' = {y \in pending : y.seq > x.seq}
      /\ UNCHANGED <<pc, tx, account, configs, calls, ret, grant, signed>>
  BY DEF Apply, client, aux
<1>4. Types'
  <2>1. applied' \subseteq [tx : Tx, ok : BOOLEAN] /\ sequence' \in Nat /\ pending' \subseteq Tx
    BY <1>1, <1>2, <1>3 DEF Types, TypeOK
  <2> QED
    BY <1>1, <1>2, <1>3, <2>1 DEF Types, TypeOK, Configs
<1>5. Grows
  BY <1>2, <1>3 DEF Grows
<1>6. ASSUME NEW t \in Tasks
      PROVE  Phase(t)'
  BY <1>2, <1>3 DEF IInv, Phase
<1>7. Network'
  <2> DEFINE new == [tx |-> x, ok |-> ok]
  <2>1. new.tx = x /\ new.ok = ok /\ applied' = applied \cup {new}
    BY <1>2
  <2>2. sequence \in Nat /\ \A a \in applied : a.tx.seq <= sequence /\ a.tx.seq \in Nat
    BY <1>1 DEF Network, Types, TypeOK, Tx
  <2>3. \A a \in applied : a.tx.seq # new.tx.seq
    BY <1>1, <2>1, <2>2
  <2> HIDE DEF new
  <2>4. \A y \in pending' : /\ \E s \in signed' : s.tx = y
                            /\ y.op = "create" => code' /\ y.arg \in Salts
    BY <1>1, <1>2, <1>3 DEF Network
  <2>5. \A a \in applied' : /\ a.tx.seq <= sequence'
                            /\ a.ok /\ a.tx.op = "upload" => code'
                            /\ a.ok /\ a.tx.op = "create" => a.tx.arg \in contracts'
    <3> SUFFICES ASSUME NEW a \in applied'
                 PROVE  /\ a.tx.seq <= sequence'
                        /\ a.ok /\ a.tx.op = "upload" => code'
                        /\ a.ok /\ a.tx.op = "create" => a.tx.arg \in contracts'
      OBVIOUS
    <3>1. CASE a \in applied
      BY <1>1, <1>2, <1>3, <2>2, <3>1 DEF Network
    <3>2. CASE a = new
      BY <1>1, <1>2, <1>3, <2>1, <2>2, <3>2
    <3> QED
      BY <2>1, <3>1, <3>2
  <2>6. \A a, b \in applied' : a.tx.seq = b.tx.seq => a = b
    BY <1>1, <2>1, <2>3 DEF Network
  <2> QED
    BY <2>4, <2>5, <2>6 DEF Network
<1>8. ConfigsNameAContract'
  BY <1>1, <1>2, <1>3 DEF ConfigsNameAContract
<1>9. Budget'
  BY <1>3, BudgetKept
<1> QED
  BY <1>4, <1>6, <1>7, <1>8, <1>9 DEF IInv

LEMMA EvictKeepsIInv ==
    ASSUME IInv, NEW x \in pending, Evict(x)
    PROVE  IInv'
<1>1. /\ pending' = pending \ {x}
      /\ UNCHANGED <<pc, tx, account, configs, calls, ret, grant, signed>>
      /\ UNCHANGED <<sequence, applied, code, contracts>>
  BY DEF Evict, client, aux
<1>2. Types'
  BY <1>1 DEF IInv, Types, TypeOK
<1>3. \A t \in Tasks : Phase(t)'
  BY <1>1 DEF IInv, Phase
<1>4. Network'
  BY <1>1 DEF IInv, Network
<1>5. ConfigsNameAContract' /\ Budget'
  BY <1>1, BudgetKept DEF IInv, ConfigsNameAContract
<1> QED
  BY <1>2, <1>3, <1>4, <1>5 DEF IInv

LEMMA InitIInv == Init => IInv
<1> SUFFICES ASSUME Init
             PROVE  IInv
  OBVIOUS
<1>1. Types
  <2>1. [id : ContractIds, guards : InitialGuards] \subseteq Configs
    BY ClientAssumption DEF Configs, Ids
  <2>2. configs \in [Tasks -> {NoConfigs} \cup Configs]
    BY <2>1 DEF Init
  <2>3. account \in [Tasks -> Seq(G!Guard)] /\ grant = account
    BY ClientAssumption DEF Init
  <2>4. contracts \subseteq Ids /\ calls \in [Tasks -> Nat] /\ \A t \in Tasks : calls[t] <= MaxCalls[t]
    BY ClientAssumption DEF Init, Ids
  <2> QED
    BY <2>2, <2>3, <2>4 DEF Init, Types, TypeOK, Configs
<1>2. \A t \in Tasks : Phase(t)
  BY DEF Init, Phase
<1>3. Network
  BY DEF Init, Network
<1>4. ConfigsNameAContract
  BY ClientAssumption DEF Init, ConfigsNameAContract
<1>5. Budget
  <2>1. IsFiniteSet(signed)
    BY FS_EmptySet DEF Init
  <2>2. \A t \in Tasks : SignedBy(t) = {}
    BY DEF Init, SignedBy
  <2>3. ASSUME NEW t \in Tasks, NEW i \in DOMAIN grant[t]
        PROVE  Spent(t, i) = 0
    <3>1. account[t] = grant[t] /\ grant[t] \in Seq(G!Guard)
      BY <1>1 DEF Init, Types
    <3>2. grant[t][i] \in G!Guard
      BY <3>1
    <3>3. grant[t][i].remaining \in Int
      BY <3>2, ClientAssumption DEF G!Guard
    <3> QED
      BY <3>1, <3>3 DEF Spent
  <2>4. Cardinality({}) = 0
    BY FS_EmptySet
  <2> QED
    BY <2>1, <2>2, <2>3, <2>4 DEF Init, Budget
<1> QED
  BY <1>1, <1>2, <1>3, <1>4, <1>5 DEF IInv

LEMMA NextKeepsIInv == IInv /\ [Next]_vars => IInv'
<1> SUFFICES ASSUME IInv, [Next]_vars
             PROVE  IInv'
  OBVIOUS
<1>1. ASSUME NEW t \in Tasks, Call(t)
      PROVE  IInv'
  BY <1>1, CallKeepsIInv
<1>2. ASSUME NEW t \in Tasks, Answer(t)
      PROVE  IInv'
  BY <1>2, GetSequenceKeepsIInv, SimulateKeepsIInv, SubmitKeepsIInv, PollKeepsIInv DEF Answer
<1>3. ASSUME NEW x \in pending, Apply(x) \/ Evict(x)
      PROVE  IInv'
  BY <1>3, ApplyKeepsIInv, EvictKeepsIInv
<1>4. CASE UNCHANGED vars
  <2>1. /\ UNCHANGED <<pc, tx, account, configs, calls, ret, grant, signed>>
        /\ UNCHANGED <<sequence, pending, applied, code, contracts>>
    BY <1>4 DEF vars
  <2>2. Types' /\ Network' /\ ConfigsNameAContract' /\ Budget'
    BY <2>1, BudgetKept DEF IInv, Types, TypeOK, Network, ConfigsNameAContract
  <2>3. \A t \in Tasks : Phase(t)'
    BY <2>1 DEF IInv, Phase
  <2> QED
    BY <2>2, <2>3 DEF IInv
<1> QED
  BY <1>1, <1>2, <1>3, <1>4 DEF Next

LEMMA Invariance == Spec => []IInv
BY InitIInv, NextKeepsIInv, PTL DEF Spec

(***************************************************************************)
(* The invariants of the runs.                                             *)
(***************************************************************************)
\* Every variable keeps its type; in particular no answer sets configs to
\* anything but an id with the guards that are left, and no guard underflows.
THEOREM TypeCorrect == Spec => []TypeOK
<1>1. IInv => TypeOK
  BY DEF IInv, Types
<1> QED
  BY <1>1, Invariance, PTL

\* A transaction that creates a contract is handed over only once its code is on
\* the ledger, however the upload ended, for any number of tasks.
THEOREM CreatesFollowUploads == Spec => []CreateFollowsUpload
<1>1. IInv => CreateFollowsUpload
  BY DEF IInv, Network, Phase, CreateFollowsUpload
<1> QED
  BY <1>1, Invariance, PTL

\* A Contract that says where it is deployed is deployed there.
THEOREM ConfigsAreDeployed == Spec => []ConfigsNameAContract
<1>1. IInv => ConfigsNameAContract
  BY DEF IInv
<1> QED
  BY <1>1, Invariance, PTL

\* However calls fail, time out or are tried again, an account never signs more
\* transactions than its guards paid for, for any guards.
THEOREM SigningIsPaid == Spec => []LedgerWithinBudget
<1>1. IInv => LedgerWithinBudget
  BY DEF IInv, Budget, SignedBy, LedgerWithinBudget
<1> QED
  BY <1>1, Invariance, PTL

\* Two calls that return Ok for transactions with one sequence number sent the
\* same transaction.
THEOREM OneWinner == Spec => []OneWinnerPerSequence
<1>1. IInv => OneWinnerPerSequence
  <2> SUFFICES ASSUME IInv, NEW t \in Tasks, NEW u \in Tasks,
                      ret[t] = "Ok", ret[u] = "Ok", tx[t].seq = tx[u].seq
               PROVE  tx[t] = tx[u]
    BY DEF OneWinnerPerSequence
  <2> DEFINE a == [tx |-> tx[t], ok |-> TRUE]
             b == [tx |-> tx[u], ok |-> TRUE]
  <2>1. a \in applied /\ b \in applied
    BY DEF IInv, Phase
  <2>2. a.tx = tx[t] /\ b.tx = tx[u]
    OBVIOUS
  <2> HIDE DEF a, b
  <2>3. a = b
    BY <2>1, <2>2 DEF IInv, Network
  <2> QED
    BY <2>2, <2>3
<1> QED
  BY <1>1, Invariance, PTL
(***************************************************************************)
(* The refinement of LedgerCalls.                                          *)
(***************************************************************************)
LEMMA InitMaps == Init => Promise!Init
<1> SUFFICES ASSUME Init
             PROVE  Promise!Init
  OBVIOUS
<1>1. AnswerOf = [t \in Tasks |-> "none"]
  BY DEF Init, AnswerOf, Told
<1>2. LastOf = [t \in Tasks |-> NoTx]
  BY DEF Init, LastOf, NoTx
<1>3. HandedOf = {} /\ EffectsOf = {}
  BY DEF Init, HandedOf, EffectsOf
<1> QED
  BY <1>1, <1>2, <1>3 DEF Promise!Init
\* A step of one task changes the promise for that task only.
LEMMA OthersMap ==
    ASSUME IInv, NEW t \in Tasks, Others(t)
    PROVE  /\ AnswerOf' = [AnswerOf EXCEPT ![t] = AnswerOf'[t]]
           /\ LastOf' = [LastOf EXCEPT ![t] = LastOf'[t]]
           /\ AnswerOf[t] = AnswerOf'[t] => UNCHANGED AnswerOf
           /\ LastOf[t] = LastOf'[t] => UNCHANGED LastOf
<1>1. \A u \in Tasks \ {t} : AnswerOf'[u] = AnswerOf[u]
  BY DEF AnswerOf, Others
<1>2. \A u \in Tasks \ {t} : LastOf'[u] = LastOf[u]
  BY DEF LastOf, Others
<1>3. /\ AnswerOf = [u \in Tasks |-> AnswerOf[u]]
      /\ AnswerOf' = [u \in Tasks |-> AnswerOf'[u]]
  BY DEF AnswerOf
<1>4. /\ LastOf = [u \in Tasks |-> LastOf[u]]
      /\ LastOf' = [u \in Tasks |-> LastOf'[u]]
  BY DEF LastOf
<1> QED
  BY <1>1, <1>2, <1>3, <1>4

LEMMA AnswersAt ==
    ASSUME IInv, NEW t \in Tasks
    PROVE  /\ pc[t] # "idle" => AnswerOf[t] = "running"
           /\ pc[t] = "idle" => AnswerOf[t] # "running"
           /\ pc[t] = "idle" /\ ret[t] = "Ok" => AnswerOf[t] = "ok"
           /\ pc[t] = "idle" /\ ret[t] \in {"Err", "Unauthorized"} => AnswerOf[t] = "error"
           /\ tx[t].ext = "built" => LastOf[t] = NoTx
           /\ tx[t].ext # "built" => LastOf[t] = tx[t]
BY DEF IInv, Types, TypeOK, AnswerOf, LastOf, Told

\* The same of the next state.
LEMMA AnswersAtNext ==
    ASSUME IInv', NEW t \in Tasks
    PROVE  /\ pc'[t] # "idle" => AnswerOf'[t] = "running"
           /\ pc'[t] = "idle" /\ ret'[t] = "Ok" => AnswerOf'[t] = "ok"
           /\ pc'[t] = "idle" /\ ret'[t] \in {"Err", "Unauthorized"} => AnswerOf'[t] = "error"
           /\ tx'[t].ext = "built" => LastOf'[t] = NoTx
           /\ tx'[t].ext # "built" => LastOf'[t] = tx'[t]
BY DEF IInv, Types, TypeOK, AnswerOf, LastOf, Told

LEMMA FailsMaps ==
    ASSUME IInv, IInv', NEW t \in Tasks, pc[t] # "idle", Fails(t), UNCHANGED applied
    PROVE  Promise!ReturnError(t)
<1>1. Types
  BY DEF IInv
<1>2. /\ pc' = [pc EXCEPT ![t] = "idle"]
      /\ ret' = [ret EXCEPT ![t] = "Err"]
      /\ tx' = [tx EXCEPT ![t] = NoTx]
      /\ UNCHANGED <<configs, calls, signed>>
  BY DEF Fails, Return, aux
<1>3. Others(t)
  BY <1>1, <1>2 DEF Others, Types, TypeOK
<1>4. pc'[t] = "idle" /\ ret'[t] = "Err" /\ tx'[t].ext = "built"
  BY <1>1, <1>2 DEF Types, TypeOK, NoTx
<1>5. AnswerOf[t] = "running" /\ AnswerOf'[t] = "error" /\ LastOf'[t] = NoTx
  BY <1>4, AnswersAt, AnswersAtNext
<1>6. UNCHANGED HandedOf /\ UNCHANGED EffectsOf
  BY <1>2 DEF HandedOf, EffectsOf
<1> QED
  BY <1>3, <1>5, <1>6, OthersMap DEF Promise!ReturnError

LEMMA CallMaps ==
    ASSUME IInv, IInv', NEW t \in Tasks, Call(t)
    PROVE  Promise!Start(t) \/ Promise!Refuse(t)
<1>1. Types
  BY DEF IInv
<1>2. /\ pc[t] = "idle"
      /\ Others(t)
      /\ tx'[t].ext = "built"
      /\ \/ pc'[t] # "idle"
         \/ pc'[t] = "idle" /\ ret'[t] = "Err"
      /\ UNCHANGED <<signed, applied>>
  <2>1. ASSUME NEW o \in Operations, NEW arg, Ready(t), Begin(t, o, arg),
               \/ UNCHANGED configs
               \/ configs' = [configs EXCEPT ![t] = NoConfigs],
               UNCHANGED <<network, aux>>
        PROVE  /\ pc[t] = "idle"
               /\ Others(t)
               /\ tx'[t].ext = "built"
               /\ pc'[t] # "idle"
               /\ UNCHANGED <<signed, applied>>
    BY <1>1, <2>1 DEF Types, TypeOK, Ready, Begin, Others, network, aux
  <2>2. CASE Deploy(t)
    BY <2>1, <2>2 DEF Deploy, Operations
  <2>3. CASE ExtendTtl(t)
    BY <2>1, <2>3 DEF ExtendTtl, Operations
  <2>4. CASE \E arg \in Args : Invoke(t, arg)
    BY <2>1, <2>4 DEF Invoke, Operations
  <2>5. CASE NotDeployed(t)
    BY <1>1, <2>5 DEF Types, TypeOK, NotDeployed, Ready, NoTx, Others, network, aux
  <2> QED
    BY <2>2, <2>3, <2>4, <2>5 DEF Call
<1>3. AnswerOf[t] # "running" /\ LastOf'[t] = NoTx
  BY <1>2, AnswersAt, AnswersAtNext
<1>4. AnswerOf'[t] = "running" \/ AnswerOf'[t] = "error"
  BY <1>2, AnswersAtNext
<1>5. UNCHANGED HandedOf /\ UNCHANGED EffectsOf
  BY <1>2 DEF HandedOf, EffectsOf
<1>6. /\ AnswerOf' = [AnswerOf EXCEPT ![t] = AnswerOf'[t]]
      /\ LastOf' = [LastOf EXCEPT ![t] = NoTx]
  BY <1>2, <1>3, OthersMap
<1>7. CASE AnswerOf'[t] = "running"
  BY <1>3, <1>5, <1>6, <1>7 DEF Promise!Start
<1>8. CASE AnswerOf'[t] = "error"
  BY <1>3, <1>5, <1>6, <1>8 DEF Promise!Refuse
<1> QED
  BY <1>4, <1>7, <1>8
\* A step of a running call that neither returns nor signs.
LEMMA GoesOnMaps ==
    ASSUME IInv, IInv', NEW t \in Tasks, Others(t), pc[t] # "idle", pc'[t] # "idle",
           UNCHANGED <<signed, applied>>,
           \/ tx'[t] = tx[t]
           \/ tx[t].ext = "built" /\ tx'[t].ext = "built"
           \/ tx'[t].ext = "built" /\ tx[t].ext # "built"
    PROVE  Promise!Prepare(t) \/ UNCHANGED Promise!vars
<1>1. AnswerOf[t] = "running" /\ AnswerOf'[t] = "running"
  BY AnswersAt, AnswersAtNext
<1>2. UNCHANGED AnswerOf
  BY <1>1, OthersMap
<1>3. UNCHANGED HandedOf /\ UNCHANGED EffectsOf
  BY DEF HandedOf, EffectsOf
<1>4. CASE LastOf'[t] = LastOf[t]
  <2>1. UNCHANGED LastOf
    BY <1>4, OthersMap
  <2> QED
    BY <1>2, <1>3, <2>1 DEF Promise!vars
<1>5. CASE LastOf'[t] = NoTx
  <2>1. LastOf' = [LastOf EXCEPT ![t] = NoTx]
    BY <1>5, OthersMap
  <2> QED
    BY <1>1, <1>2, <1>3, <2>1 DEF Promise!Prepare
<1>6. LastOf'[t] = LastOf[t] \/ LastOf'[t] = NoTx
  BY AnswersAt, AnswersAtNext
<1> QED
  BY <1>4, <1>5, <1>6

LEMMA StartCreateMaps ==
    ASSUME IInv, IInv', NEW t \in Tasks, pc[t] # "idle", StartCreate(t), UNCHANGED network
    PROVE  Promise!Prepare(t) \/ UNCHANGED Promise!vars
<1>1. Types
  BY DEF IInv
<1>2. /\ Others(t)
      /\ pc'[t] # "idle"
      /\ tx'[t].ext = "built"
      /\ UNCHANGED <<signed, applied>>
  BY <1>1 DEF StartCreate, Types, TypeOK, Others, network, aux
<1> QED
  BY <1>2, GoesOnMaps

LEMMA AnswerMaps ==
    ASSUME IInv, IInv', NEW t \in Tasks, Answer(t)
    PROVE  \/ Promise!Prepare(t) \/ Promise!Hand(t)
           \/ Promise!ReturnOk(t) \/ Promise!ReturnError(t)
           \/ UNCHANGED Promise!vars
<1>1. Types /\ Phase(t)
  BY DEF IInv
<1>2. pc[t] # "idle"
  BY DEF Answer, GetSequence, Simulate, Submit, Poll
<1>3. CASE Fails(t) /\ UNCHANGED applied
  BY <1>2, <1>3, FailsMaps
<1>4. CASE StartCreate(t) /\ UNCHANGED network
  BY <1>2, <1>4, StartCreateMaps
<1>5. CASE GetSequence(t) /\ ~Fails(t)
  <2>1. /\ Others(t)
        /\ pc'[t] # "idle"
        /\ UNCHANGED <<signed, applied>>
        /\ tx'[t] = [tx[t] EXCEPT !.seq = sequence + 1]
        /\ tx[t] \in Tx /\ tx[t].ext = "built"
    BY <1>1, <1>5 DEF GetSequence, Types, TypeOK, Phase, Others, network, aux
  <2>2. tx'[t].ext = "built"
    BY <2>1 DEF Tx
  <2> QED
    BY <1>2, <2>1, <2>2, GoesOnMaps
<1>6. CASE Simulate(t) /\ Return(t, "Unauthorized") /\ UNCHANGED <<tx, account, configs, calls, aux>>
  <2>1. /\ Others(t)
        /\ pc'[t] = "idle" /\ ret'[t] = "Unauthorized"
        /\ tx'[t].ext = "built"
        /\ UNCHANGED <<signed, applied>>
    BY <1>1, <1>6 DEF Simulate, Return, Types, TypeOK, Phase, Others, network, aux
  <2>2. AnswerOf[t] = "running" /\ AnswerOf'[t] = "error" /\ LastOf'[t] = NoTx
    BY <1>2, <2>1, AnswersAt, AnswersAtNext
  <2>3. UNCHANGED HandedOf /\ UNCHANGED EffectsOf
    BY <2>1 DEF HandedOf, EffectsOf
  <2> QED
    BY <2>1, <2>2, <2>3, OthersMap DEF Promise!ReturnError
<1>7. ASSUME pc[t] = "simulate",
             NEW ext \in {"V1", "error", "undecodable"},
             tx' = [tx EXCEPT ![t].ext = ext],
             Sign(t),
             pc' = [pc EXCEPT ![t] = "submit"],
             UNCHANGED <<calls, ret, grant, network>>
      PROVE  Promise!Hand(t)
  <2>1. /\ Phase(t)'
        /\ pc'[t] = "submit"
        /\ tx'[t] \in Tx /\ tx'[t].ext # "built"
        /\ UNCHANGED applied
    BY <1>1, <1>7 DEF IInv, Phase, Types, TypeOK, network
  <2>2. \A u \in Tasks \ {t} : configs'[u] = configs[u]
    BY <1>1, <1>7 DEF Sign, Types
  <2>3. Others(t)
    BY <1>1, <1>7, <2>2 DEF Others, Types, TypeOK
  <2>4. AnswerOf[t] = "running" /\ AnswerOf'[t] = "running" /\ LastOf'[t] = tx'[t]
    BY <1>2, <2>1, AnswersAt, AnswersAtNext
  <2>5. HandedOf' = HandedOf \cup {tx'[t]}
    <3> DEFINE new == [by |-> t, with |-> SignsWith(t), tx |-> tx'[t]]
    <3>1. signed' = signed \cup {new} /\ new.tx = tx'[t]
      BY <1>7 DEF Sign
    <3> HIDE DEF new
    <3> QED
      BY <3>1 DEF HandedOf
  <2>6. UNCHANGED EffectsOf /\ UNCHANGED AnswerOf
    BY <2>1, <2>3, <2>4, OthersMap DEF EffectsOf
  <2> QED
    BY <2>1, <2>3, <2>4, <2>5, <2>6, OthersMap DEF Promise!Hand
<1>8. CASE /\ pc' = [pc EXCEPT ![t] = "poll"]
           /\ UNCHANGED <<tx, account, configs, calls, ret, aux>>
           /\ UNCHANGED applied
  <2>1. Others(t) /\ pc'[t] # "idle" /\ UNCHANGED signed
    BY <1>1, <1>8 DEF Others, Types, TypeOK, aux
  <2> QED
    BY <1>2, <1>8, <2>1, GoesOnMaps
<1>9. CASE /\ pc[t] = "poll"
           /\ Return(t, "Ok")
           /\ [tx |-> tx[t], ok |-> TRUE] \in applied
           /\ UNCHANGED <<tx, account, calls, aux, applied>>
           /\ \A u \in Tasks \ {t} : configs'[u] = configs[u]
  <2>1. Others(t) /\ pc'[t] = "idle" /\ ret'[t] = "Ok" /\ UNCHANGED signed
    BY <1>1, <1>9 DEF Return, Others, Types, TypeOK, aux
  <2>2. tx[t].ext # "built" /\ tx'[t] = tx[t]
    BY <1>1, <1>9 DEF Phase
  <2>3. /\ AnswerOf[t] = "running" /\ AnswerOf'[t] = "ok"
        /\ LastOf[t] = tx[t] /\ LastOf'[t] = LastOf[t]
    BY <1>2, <2>1, <2>2, AnswersAt, AnswersAtNext
  <2>4. tx[t] \in EffectsOf
    <3> DEFINE a == [tx |-> tx[t], ok |-> TRUE]
    <3>1. a \in applied /\ a.ok /\ a.tx = tx[t]
      BY <1>9
    <3> HIDE DEF a
    <3> QED
      BY <3>1 DEF EffectsOf
  <2>5. UNCHANGED HandedOf /\ UNCHANGED EffectsOf
    BY <1>9, <2>1 DEF HandedOf, EffectsOf
  <2> QED
    BY <2>1, <2>3, <2>4, <2>5, OthersMap DEF Promise!ReturnOk
<1>10. CASE GetSequence(t)
  BY <1>3, <1>5, <1>10 DEF GetSequence, network
<1>11. CASE Simulate(t)
  BY <1>3, <1>6, <1>7, <1>11 DEF Simulate, network
<1>12. CASE Submit(t)
  BY <1>3, <1>4, <1>8, <1>12 DEF Submit, CodeExists, network
<1>13. CASE Poll(t)
  <2>1. CASE Fails(t)
    BY <1>3, <1>13, <2>1 DEF Poll, network
  <2>2. CASE [tx |-> tx[t], ok |-> TRUE] \in applied /\ Sent(t)
    <3>1. pc[t] = "poll" /\ UNCHANGED network
      BY <1>13 DEF Poll
    <3>2. CASE tx[t].op = "upload"
      BY <1>4, <2>2, <3>1, <3>2 DEF Sent
    <3>3. CASE tx[t].op = "create"
      <4>1. CASE Fails(t)
        BY <1>3, <3>1, <4>1 DEF network
      <4>2. CASE ~Fails(t)
        <5>1. /\ configs' = [configs EXCEPT ![t] = [id |-> tx[t].arg, guards |-> account[t]]]
              /\ Return(t, "Ok")
              /\ UNCHANGED <<tx, account, calls, aux>>
          BY <2>2, <3>3, <4>2 DEF Sent
        <5>2. \A u \in Tasks \ {t} : configs'[u] = configs[u]
          BY <1>1, <5>1 DEF Types
        <5> QED
          BY <1>9, <2>2, <3>1, <5>1, <5>2 DEF network
      <4> QED
        BY <4>1, <4>2
    <3>4. CASE tx[t].op \notin {"upload", "create"}
      <4>1. Return(t, "Ok") /\ UNCHANGED <<tx, account, configs, calls, aux>>
        BY <2>2, <3>4 DEF Sent
      <4> QED
        BY <1>9, <2>2, <3>1, <4>1 DEF network
    <3> QED
      BY <3>2, <3>3, <3>4
  <2> QED
    BY <1>13, <2>1, <2>2 DEF Poll
<1> QED
  BY <1>10, <1>11, <1>12, <1>13 DEF Answer

\* The ledger's steps take effect once per sequence number, and only for what was
\* handed over.
LEMMA ApplyMaps ==
    ASSUME IInv, IInv', NEW x \in pending, Apply(x)
    PROVE  Promise!TakeEffect \/ UNCHANGED Promise!vars
<1>1. UNCHANGED <<AnswerOf, LastOf, HandedOf>>
  BY DEF Apply, client, aux, AnswerOf, LastOf, HandedOf
<1>2. CASE applied' = applied \cup {[tx |-> x, ok |-> FALSE]}
  <2> DEFINE new == [tx |-> x, ok |-> FALSE]
  <2>1. new.ok = FALSE /\ applied' = applied \cup {new}
    BY <1>2
  <2> HIDE DEF new
  <2>2. UNCHANGED EffectsOf
    BY <2>1 DEF EffectsOf
  <2> QED
    BY <1>1, <2>2 DEF Promise!vars
<1>3. CASE applied' = applied \cup {[tx |-> x, ok |-> TRUE]}
  <2> DEFINE new == [tx |-> x, ok |-> TRUE]
  <2>1. new.ok /\ new.tx = x /\ applied' = applied \cup {new}
    BY <1>3
  <2> HIDE DEF new
  <2>2. EffectsOf' = EffectsOf \cup {x}
    BY <2>1 DEF EffectsOf
  <2>3. \A y \in EffectsOf : y.seq # x.seq
    <3>1. \A a \in applied : a.tx.seq <= sequence /\ a.tx.seq \in Nat
      BY DEF IInv, Network, Types, TypeOK, Tx
    <3>2. x.seq = sequence + 1 /\ sequence \in Nat
      BY DEF Apply, IInv, Types, TypeOK
    <3>3. \A a \in applied : a.tx.seq # x.seq
      BY <3>1, <3>2
    <3> QED
      BY <3>3 DEF EffectsOf
  <2>4. x \in HandedOf \ EffectsOf
    <3>1. x \in HandedOf
      BY DEF IInv, Network, HandedOf
    <3> QED
      BY <2>3, <3>1
  <2> QED
    BY <1>1, <2>2, <2>3, <2>4 DEF Promise!TakeEffect
<1> QED
  BY <1>2, <1>3 DEF Apply

LEMMA StepMaps == IInv /\ IInv' /\ [Next]_vars => [Promise!Next]_(Promise!vars)
<1> SUFFICES ASSUME IInv, IInv', [Next]_vars
             PROVE  Promise!Next \/ UNCHANGED Promise!vars
  OBVIOUS
<1>1. ASSUME NEW t \in Tasks, Call(t)
      PROVE  Promise!Next \/ UNCHANGED Promise!vars
  BY <1>1, CallMaps DEF Promise!Next
<1>2. ASSUME NEW t \in Tasks, Answer(t)
      PROVE  Promise!Next \/ UNCHANGED Promise!vars
  BY <1>2, AnswerMaps DEF Promise!Next
<1>3. ASSUME NEW x \in pending, Apply(x)
      PROVE  Promise!Next \/ UNCHANGED Promise!vars
  BY <1>3, ApplyMaps DEF Promise!Next
<1>4. ASSUME NEW x \in pending, Evict(x)
      PROVE  UNCHANGED Promise!vars
  BY <1>4 DEF Evict, client, aux, AnswerOf, LastOf, HandedOf, EffectsOf, Promise!vars
<1>5. CASE UNCHANGED vars
  BY <1>5 DEF vars, AnswerOf, LastOf, HandedOf, EffectsOf, Promise!vars
<1> QED
  BY <1>1, <1>2, <1>3, <1>4, <1>5 DEF Next

\* Contract's calls keep the promise of LedgerCalls for any number of tasks and
\* calls: a call that returns Ok saw its last transaction take effect, nothing
\* takes effect that was not signed, and nothing twice at one sequence number.
THEOREM PromiseIsKept == Spec => KeepsPromise
<1>1. Init => Promise!Init
  BY InitMaps
<1>2. IInv /\ IInv' /\ [Next]_vars => [Promise!Next]_(Promise!vars)
  BY StepMaps
<1> QED
  BY <1>1, <1>2, Invariance, PTL DEF Spec, Promise!Spec, KeepsPromise
=============================================================================
