--------------------------- MODULE Programs_proofs ---------------------------
(***************************************************************************)
(* Proofs about Programs: any number of runs of the example programs, with *)
(* any keys, contract sources and argument values.                         *)
(***************************************************************************)
EXTENDS Programs, TLAPS

Statuses == {"running", "Unauthorized", "Err", "panic"}
Runtime == [at : Nat, status : Statuses, guards : Seq(G!Guard), contract : Ids \cup {None},
            client : Clients \cup {None}, tx : Tx \cup {None}]

-----------------------------------------------------------------------------
(***************************************************************************)
(* The programs.                                                           *)
(***************************************************************************)
\* What each instruction does.
Steps == [deploy |-> <<"guard", "upload", "create">>,
          send |-> <<"guard", "client", "invoke">>,
          deploy_and_invoke |-> <<"guard", "upload", "create", "client", "invoke">>,
          invoke_contract |-> <<"guard", "client", "invoke">>,
          extend_ttl |-> <<"upload", "create", "extend">>,
          create_multisig |-> <<"configure">>]

\* How many transactions a program has sent when it comes to an instruction.
Before == [deploy |-> <<0, 0, 1, 2>>,
           send |-> <<0, 0, 0, 1>>,
           deploy_and_invoke |-> <<0, 0, 1, 2, 2, 3>>,
           invoke_contract |-> <<0, 0, 0, 1>>,
           extend_ttl |-> <<0, 1, 2, 3>>,
           create_multisig |-> <<0, 1>>]

\* The budget of the programs that count transactions.
Grant == [deploy |-> 2, send |-> 1, deploy_and_invoke |-> 3]

\* The programs, written out.
LEMMA TextSteps ==
    ASSUME NEW p \in DOMAIN Text
    PROVE  /\ Len(Text[p]) = Len(Steps[p]) /\ Len(Text[p]) \in Nat
           /\ DOMAIN Text[p] = 1..Len(Text[p])
           /\ \A i \in DOMAIN Text[p] : Text[p][i].do = Steps[p][i]
<1> USE DEF Text, Steps, AddGuard, Deploy, Client, Send, ExtendTtl, Configure
<1>1. CASE p = "deploy"
    BY <1>1 DEF ProgramDeploy
<1>2. CASE p = "send"
    BY <1>2 DEF ProgramSend
<1>3. CASE p = "deploy_and_invoke"
    BY <1>3 DEF ProgramDeployAndInvoke
<1>4. CASE p = "invoke_contract"
    BY <1>4 DEF ProgramInvokeContract
<1>5. CASE p = "extend_ttl"
    BY <1>5 DEF ProgramExtendTtl
<1>6. CASE p = "create_multisig"
    BY <1>6 DEF ProgramCreateMultisig
<1> QED BY <1>1, <1>2, <1>3, <1>4, <1>5, <1>6

\* Their guards.
LEMMA TextGuards ==
    ASSUME NEW p \in DOMAIN Text, NEW i \in DOMAIN Text[p], Text[p][i].do = "guard"
    PROVE  /\ i = 1
           /\ Text[p][1].guard \in G!Guard
           /\ p # "invoke_contract" =>
                  /\ p \in DOMAIN Grant
                  /\ Text[p][1].guard = [scope |-> AnyCall, remaining |-> Grant[p]]
           /\ p = "invoke_contract" => Text[p][1].guard = [scope |-> Token, remaining |-> 1]
<1> USE DEF Text, AddGuard, Deploy, Client, Send, ExtendTtl, Configure
<1>1. /\ [scope |-> AnyCall, remaining |-> 1] \in G!Guard
      /\ [scope |-> AnyCall, remaining |-> 2] \in G!Guard
      /\ [scope |-> AnyCall, remaining |-> 3] \in G!Guard
      /\ [scope |-> Token, remaining |-> 1] \in G!Guard
    BY ProgramsAssumption DEF G!Guard
<1>2. CASE p = "deploy"
    BY <1>1, <1>2 DEF ProgramDeploy, Grant
<1>3. CASE p = "send"
    BY <1>1, <1>3 DEF ProgramSend, Grant
<1>4. CASE p = "deploy_and_invoke"
    BY <1>1, <1>4 DEF ProgramDeployAndInvoke, Grant
<1>5. CASE p = "invoke_contract"
    BY <1>1, <1>5 DEF ProgramInvokeContract, Grant
<1>6. CASE p = "extend_ttl"
    BY <1>6 DEF ProgramExtendTtl
<1>7. CASE p = "create_multisig"
    BY <1>7 DEF ProgramCreateMultisig
<1> QED BY <1>2, <1>3, <1>4, <1>5, <1>6, <1>7

\* The instruction that makes the client and the one that creates the contract;
\* 9 is past the end of every program.
ClientAt == [deploy |-> 9, send |-> 2, deploy_and_invoke |-> 4,
             invoke_contract |-> 2, extend_ttl |-> 9, create_multisig |-> 9]
CreateAt == [deploy |-> 3, send |-> 9, deploy_and_invoke |-> 3,
             invoke_contract |-> 9, extend_ttl |-> 2, create_multisig |-> 9]

\* What the tables say of an instruction.
LEMMA Tables ==
    ASSUME NEW p \in DOMAIN Text, NEW i \in 1..Len(Text[p]), NEW do, do = Text[p][i].do
    PROVE  /\ Before[p][i] \in Nat
           /\ do \in Ops => Before[p][i + 1] = Before[p][i] + 1
           /\ do \notin Ops => Before[p][i + 1] = Before[p][i]
           /\ i = ClientAt[p] <=> do = "client"
           /\ i = CreateAt[p] <=> do = "create"
           /\ do = "invoke" => i > ClientAt[p]
           /\ do \in Ops \ {"invoke"} => i < ClientAt[p]
           /\ p \in DOMAIN Grant /\ do \in Ops => i > 1 /\ Before[p][i] < Grant[p]
           /\ p \in DOMAIN Grant /\ i = 1 => do = "guard"
           /\ p \notin DOMAIN Grant /\ do = "guard" => p = "invoke_contract"
           /\ do = "guard" => i = 1
<1>1. Len(Text[p]) = Len(Steps[p]) /\ DOMAIN Text[p] = 1..Len(Text[p]) /\ do = Steps[p][i]
  BY TextSteps
<1> USE DEF Text, Steps, Before, Grant, ClientAt, CreateAt, Ops
<1>2. CASE p = "deploy"
  BY <1>1, <1>2
<1>3. CASE p = "send"
  BY <1>1, <1>3
<1>4. CASE p = "deploy_and_invoke"
  BY <1>1, <1>4
<1>5. CASE p = "invoke_contract"
  BY <1>1, <1>5
<1>6. CASE p = "extend_ttl"
  BY <1>1, <1>6
<1>7. CASE p = "create_multisig"
  BY <1>1, <1>7
<1> QED BY <1>2, <1>3, <1>4, <1>5, <1>6, <1>7

\* What they say of its start and its end.
LEMMA TableEnds ==
    ASSUME NEW p \in DOMAIN Text
    PROVE  /\ Before[p][1] = 0 /\ Len(Text[p]) \in 1..5
           /\ 1 <= ClientAt[p] /\ ClientAt[p] \in Nat /\ 1 <= CreateAt[p] /\ CreateAt[p] \in Nat
           /\ p \in DOMAIN Grant => Grant[p] \in 1..3 /\ Before[p][Len(Text[p]) + 1] = Grant[p]
<1>1. Len(Text[p]) = Len(Steps[p])
  BY TextSteps
<1> USE DEF Steps, Before, Grant, ClientAt, CreateAt
<1>2. CASE p = "deploy"
  <2>1. Len(Text[p]) = 3
    BY <1>1, <1>2
  <2> QED
    BY <1>2, <2>1
<1>3. CASE p = "send"
  <2>1. Len(Text[p]) = 3
    BY <1>1, <1>3
  <2> QED
    BY <1>3, <2>1
<1>4. CASE p = "deploy_and_invoke"
  <2>1. Len(Text[p]) = 5
    BY <1>1, <1>4
  <2> QED
    BY <1>4, <2>1
<1>5. CASE p = "invoke_contract"
  <2>1. Len(Text[p]) = 3
    BY <1>1, <1>5
  <2> QED
    BY <1>5, <2>1
<1>6. CASE p = "extend_ttl"
  <2>1. Len(Text[p]) = 3
    BY <1>1, <1>6
  <2> QED
    BY <1>6, <2>1
<1>7. CASE p = "create_multisig"
  <2>1. Len(Text[p]) = 1
    BY <1>1, <1>7
  <2> QED
    BY <1>7, <2>1
<1> QED BY <1>2, <1>3, <1>4, <1>5, <1>6, <1>7 DEF Text

-----------------------------------------------------------------------------
(***************************************************************************)
(* Guards: a transaction of the programs costs a guard of transactions     *)
(* one, and one of contract calls nothing.                                 *)
(***************************************************************************)
\* One update: it leaves a guard, and takes one from a budget that has one.
LEMMA UpdateTakesOne ==
    ASSUME NEW g \in G!Guard, NEW o \in Ops
    PROVE  /\ G!Update(g, o) \in G!Guard
           /\ g.scope = AnyCall /\ g.remaining > 0 =>
                  /\ G!Check(g, o)
                  /\ G!Update(g, o) = [scope |-> AnyCall, remaining |-> g.remaining - 1]
<1>1. G!Cost(g, o) = IF g.scope = AnyCall THEN 1 ELSE 0
  BY DEF G!Guard, G!Cost
<1>2. CASE G!Cost(g, o) > 0 /\ g.remaining >= G!Cost(g, o)
  <2>1. G!Cost(g, o) = 1 /\ g.scope = AnyCall /\ g.remaining \in 1..MaxRemaining
    BY <1>1, <1>2, ProgramsAssumption DEF G!Guard
  <2>2. G!Update(g, o) = [g EXCEPT !.remaining = g.remaining - 1]
    BY <1>2, <2>1 DEF G!Update
  <2>3. G!Update(g, o) = [scope |-> AnyCall, remaining |-> g.remaining - 1]
    BY <2>1, <2>2 DEF G!Guard
  <2> QED
    BY <2>1, <2>2, <2>3, ProgramsAssumption DEF G!Guard, G!Check
<1>3. CASE ~(G!Cost(g, o) > 0 /\ g.remaining >= G!Cost(g, o))
  <2>1. G!Update(g, o) = g
    BY <1>3 DEF G!Update
  <2>2. ~(g.scope = AnyCall /\ g.remaining > 0)
    BY <1>1, <1>3, ProgramsAssumption DEF G!Guard
  <2> QED
    BY <2>1, <2>2
<1> QED
  BY <1>2, <1>3

\* The updated list is a list of guards.
LEMMA UpdateGuardsType ==
    ASSUME NEW gs \in Seq(G!Guard), NEW o \in Ops
    PROVE  G!UpdateGuards(gs, o) \in Seq(G!Guard)
<1>1. \A i \in 1..Len(gs) : gs[i] \in G!Guard /\ G!Update(gs[i], o) \in G!Guard
  BY UpdateTakesOne
<1> QED
  BY <1>1 DEF G!UpdateGuards

\* A list of one guard of transactions, as the programs keep it.
OneGuard(n) == <<[scope |-> AnyCall, remaining |-> n]>>

\* A budget that is not spent admits a transaction and pays for it.
LEMMA OneGuardPays ==
    ASSUME NEW n \in 1..3, NEW o \in Ops
    PROVE  /\ OneGuard(n) \in Seq(G!Guard)
           /\ G!CheckGuards(OneGuard(n), o)
           /\ G!UpdateGuards(OneGuard(n), o) = OneGuard(n - 1)
<1> DEFINE g == [scope |-> AnyCall, remaining |-> n]
<1>1. g \in G!Guard
  BY ProgramsAssumption DEF G!Guard
<1>2. G!Check(g, o) /\ G!Update(g, o) = [scope |-> AnyCall, remaining |-> n - 1]
  BY <1>1, UpdateTakesOne
<1>3. OneGuard(n) = <<g>> /\ DOMAIN <<g>> = 1..1 /\ <<g>>[1] = g
  BY DEF OneGuard
<1> HIDE DEF g
<1> QED
  BY <1>1, <1>2, <1>3 DEF G!CheckGuards, G!UpdateGuards, OneGuard

\* The guard of invoke_contract: no transaction here has a call it counts.
TokenGuard == <<[scope |-> Token, remaining |-> 1]>>

LEMMA TokenGuardRefuses ==
    ASSUME NEW o \in Ops
    PROVE  ~G!CheckGuards(TokenGuard, o)
<1> DEFINE g == [scope |-> Token, remaining |-> 1]
<1>1. g.scope = Token /\ Token # AnyCall
  BY ProgramsAssumption
<1>2. ~G!Check(g, o)
  BY <1>1 DEF G!Check
<1>3. TokenGuard = <<g>> /\ 1 \in DOMAIN <<g>> /\ <<g>>[1] = g
  BY DEF TokenGuard
<1> HIDE DEF g
<1> QED
  BY <1>2, <1>3 DEF G!CheckGuards

-----------------------------------------------------------------------------
(***************************************************************************)
(* The inductive invariant: where each run is in its program says what it  *)
(* holds.                                                                  *)
(***************************************************************************)
\* A transaction is of the instruction the run is at, and a creation is of the
\* contract of the run's salt.
Ordered(r) ==
    run[r].tx # None =>
        /\ run[r].at <= Len(Code(r))
        /\ run[r].tx.op = Instruction(r).do
        /\ run[r].tx.op = "create" => run[r].tx.on = r

\* As many transactions were signed as there are instructions that send one.
Counted(r) ==
    Len(signed[r]) = Before[program[r]][run[r].at] + (IF run[r].tx = None THEN 0 ELSE 1)

\* The client and the contract come with their instructions.
Holds(r) ==
    /\ run[r].client # None <=> run[r].at > ClientAt[program[r]]
    /\ run[r].contract = IF run[r].at > CreateAt[program[r]] THEN r ELSE None
    /\ run[r].contract # None => Constructed(r) \in ledger.contracts
    /\ run[r].contract # None /\ run[r].client # None => run[r].client.id = r

\* The guards hold what is left of the budget.
Budget(r) ==
    /\ run[r].at = 1 => run[r].guards = <<>>
    /\ program[r] \notin DOMAIN Grant /\ program[r] # "invoke_contract" => run[r].guards = <<>>
    /\ program[r] \in DOMAIN Grant /\ run[r].at > 1 =>
           Left(r) = OneGuard(Grant[program[r]] - Len(signed[r]))
    /\ program[r] = "invoke_contract" =>
           /\ signed[r] = <<>>
           /\ run[r].at > 1 => Left(r) = TokenGuard
    /\ program[r] # "invoke_contract" => run[r].status # "Unauthorized"

\* The transactions a run signed are of its key, and applied one after the other.
Effects(r) ==
    /\ run[r].tx # None => Len(signed[r]) > 0 /\ signed[r][Len(signed[r])] = run[r].tx
    /\ \A i \in DOMAIN signed[r] :
           /\ signed[r][i].account = key[r]
           /\ i < Len(signed[r]) \/ run[r].tx = None => signed[r][i] \in ledger.applied
           /\ i > 1 => signed[r][i - 1].seq < signed[r][i].seq

Phase(r) == Ordered(r) /\ Counted(r) /\ Holds(r) /\ Budget(r) /\ Effects(r)

\* What a creation that was applied made is there, a call reached a function, and
\* the sequence number is used.
Kept ==
    \A x \in ledger.applied :
        /\ x.op = "create" => Constructed(x.on) \in ledger.contracts
        /\ x.op = "invoke" => Callable(x.call) /\ \E c \in ledger.contracts : c.id = x.on
        /\ x.seq <= ledger.seq[x.account]

IInv == TypeOK /\ Kept /\ \A r \in Runs : Phase(r)

-----------------------------------------------------------------------------
(***************************************************************************)
(* Steps of one run.                                                       *)
(***************************************************************************)
\* What the types say of one run.
LEMMA CodeFacts ==
    ASSUME TypeOK, NEW r \in Runs
    PROVE  /\ program[r] \in DOMAIN Text
           /\ run[r] \in Runtime
           /\ run[r].at \in 1..(Len(Code(r)) + 1)
           /\ DOMAIN Code(r) = 1..Len(Code(r)) /\ Len(Code(r)) \in 1..5
BY TextSteps, TableEnds DEF TypeOK, Code, Runtime, Statuses

\* The types after a step of run r.
LEMMA StepType ==
    ASSUME TypeOK, NEW r \in Runs, NEW rec \in Runtime,
           run' = [run EXCEPT ![r] = rec], given' = given,
           rec.at \in 1..(Len(Code(r)) + 1),
           ledger' \in [seq : [Keys -> Nat], code : BOOLEAN, applied : SUBSET Tx,
                        contracts : SUBSET [id : Ids, value : Nat]],
           signed' \in [Runs -> Seq(Tx)]
    PROVE  TypeOK'
<1>1. source' = source /\ program' = program /\ key' = key
  BY DEF given
<1>2. run \in [Runs -> Runtime]
  BY DEF TypeOK, Runtime, Statuses
<1>3. run' \in [Runs -> Runtime]
  BY <1>2
<1>4. \A q \in Runs : run'[q].at \in 1..(Len(Code(q)) + 1)
  BY <1>2 DEF TypeOK
<1>5. \A q \in Runs : Code(q)' = Code(q)
  BY <1>1 DEF Code
<1>6. source' \in Sources /\ Compiles(source')
  BY <1>1 DEF TypeOK
<1>7. key' \in [Runs -> Keys] /\ program' \in [Runs -> DOMAIN Text]
  BY <1>1 DEF TypeOK
<1>8. \A q \in Runs : run'[q].at \in 1..(Len(Code(q)') + 1)
  BY <1>4, <1>5
<1> QED
  BY <1>3, <1>6, <1>7, <1>8 DEF TypeOK, Runtime, Statuses

\* The other runs stay where they are.
LEMMA OthersKeepPhase ==
    ASSUME NEW q \in Runs, Phase(q), given' = given, run'[q] = run[q], signed'[q] = signed[q],
           ledger.contracts \subseteq ledger'.contracts, ledger.applied \subseteq ledger'.applied
    PROVE  Phase(q)'
<1>1. source' = source /\ program' = program /\ key' = key
  BY DEF given
<1>2. Code(q)' = Code(q) /\ Instruction(q)' = Instruction(q)
  BY <1>1 DEF Code, Instruction
<1>3. Ordered(q)'
  BY <1>2 DEF Phase, Ordered
<1>4. Counted(q)'
  BY <1>1 DEF Phase, Counted
<1>5. Holds(q)'
  BY <1>1 DEF Phase, Holds
<1>6. Budget(q)'
  BY <1>1 DEF Phase, Budget, Left
<1>7. Effects(q)'
  BY <1>1 DEF Phase, Effects
<1> QED
  BY <1>3, <1>4, <1>5, <1>6, <1>7 DEF Phase

\* Nothing is applied or created where the ledger stays as it is.
LEMMA KeptStays ==
    ASSUME Kept, UNCHANGED ledger, UNCHANGED given
    PROVE  Kept'
BY DEF Kept, Constructed, Callable, Exported, given

\* What an action of r leaves of the others, put together.
LEMMA StepKeeps ==
    ASSUME IInv, NEW r \in Runs, given' = given, TypeOK', Kept', Phase(r)',
           \A q \in Runs \ {r} : run'[q] = run[q] /\ signed'[q] = signed[q],
           ledger.contracts \subseteq ledger'.contracts, ledger.applied \subseteq ledger'.applied
    PROVE  IInv'
<1>1. \A q \in Runs \ {r} : Phase(q)'
  BY OthersKeepPhase DEF IInv
<1> QED
  BY <1>1 DEF IInv

\* Account::add_guard.
LEMMA GuardKeeps ==
    ASSUME IInv, NEW r \in Runs, Guard(r)
    PROVE  IInv'
<1> DEFINE rec == [run[r] EXCEPT !.guards = Append(@, Instruction(r).guard), !.at = @ + 1]
<1>1. /\ run[r] \in Runtime /\ run[r].at \in 1..Len(Code(r)) /\ program[r] \in DOMAIN Text
      /\ Instruction(r).do = "guard" /\ Instruction(r) = Text[program[r]][run[r].at]
      /\ run[r].status = "running"
  BY CodeFacts DEF IInv, Guard, At, Instruction, Code
<1>2. /\ run[r].at = 1 /\ Instruction(r).guard \in G!Guard
      /\ program[r] # "invoke_contract" =>
             /\ program[r] \in DOMAIN Grant
             /\ Instruction(r).guard = [scope |-> AnyCall, remaining |-> Grant[program[r]]]
      /\ program[r] = "invoke_contract" => <<Instruction(r).guard>> = TokenGuard
  <2>1. run[r].at \in DOMAIN Text[program[r]] /\ Text[program[r]][run[r].at].do = "guard"
    BY <1>1, CodeFacts DEF IInv, Code
  <2> HIDE DEF Grant
  <2> QED
    BY <1>1, <2>1, TextGuards DEF TokenGuard
<1>3. run' = [run EXCEPT ![r] = rec] /\ UNCHANGED <<given, ledger, signed>>
  BY DEF Guard
<1>4. rec \in Runtime
  <2>1. /\ run[r].guards \in Seq(G!Guard) /\ run[r].at \in Nat
        /\ DOMAIN run[r] = {"at", "status", "guards", "contract", "client", "tx"}
    BY <1>1 DEF Runtime
  <2>2. Append(run[r].guards, Instruction(r).guard) \in Seq(G!Guard) /\ run[r].at + 1 \in Nat
    BY <1>2, <2>1
  <2> QED
    BY <1>1, <2>2 DEF Runtime
<1>5. /\ rec.at = 2 /\ rec.guards = Append(run[r].guards, Instruction(r).guard)
      /\ rec.status = run[r].status /\ rec.contract = run[r].contract
      /\ rec.client = run[r].client /\ rec.tx = run[r].tx
  BY <1>1, <1>2 DEF Runtime
<1> HIDE DEF rec
<1>6. TypeOK'
  <2>1. rec.at \in 1..(Len(Code(r)) + 1)
    BY <1>1, <1>2, <1>5, CodeFacts DEF IInv
  <2> QED
    BY <1>3, <1>4, <2>1, StepType DEF IInv, TypeOK
<1>7. run'[r] = rec /\ \A q \in Runs \ {r} : run'[q] = run[q]
  BY <1>3 DEF IInv, TypeOK
<1>8. Phase(r)
  BY DEF IInv
<1>9. source' = source /\ program' = program /\ key' = key /\ Code(r)' = Code(r)
  BY <1>3 DEF given, Code
<1>10. run[r].tx = None
  BY <1>1, <1>8 DEF Phase, Ordered, Ops, Runtime, Tx
<1>11. Ordered(r)'
  BY <1>5, <1>7, <1>10 DEF Ordered
<1>12. /\ Before[program[r]][2] = Before[program[r]][1]
       /\ 1 # ClientAt[program[r]] /\ 1 # CreateAt[program[r]]
       /\ Before[program[r]][1] = 0 /\ ClientAt[program[r]] > 1 /\ CreateAt[program[r]] > 1
       /\ ClientAt[program[r]] \in Nat /\ CreateAt[program[r]] \in Nat
       /\ "guard" \notin Ops
  <2>1. Text[program[r]][1].do = "guard" /\ 1 \in 1..Len(Text[program[r]]) /\ "guard" \notin Ops
    BY <1>1, <1>2 DEF Code, Ops
  <2> HIDE DEF Before
  <2>2. Before[program[r]][1 + 1] = Before[program[r]][1] /\ 1 # ClientAt[program[r]]
          /\ 1 # CreateAt[program[r]]
    BY <1>1, <2>1, Tables
  <2> QED
    BY <1>1, <2>1, <2>2, TableEnds
<1>13. Len(signed[r]) = 0 /\ Counted(r)'
  BY <1>2, <1>3, <1>5, <1>7, <1>8, <1>9, <1>10, <1>12 DEF Phase, Counted
<1>14. run[r].client = None /\ run[r].contract = None /\ Holds(r)'
  BY <1>2, <1>3, <1>5, <1>7, <1>8, <1>9, <1>12 DEF Phase, Holds
<1>15. run[r].guards = <<>>
  BY <1>2, <1>8 DEF Phase, Budget
<1>16. rec.guards = <<Instruction(r).guard>>
  BY <1>5, <1>15
<1>17. program[r] \in DOMAIN Grant => rec.guards = OneGuard(Grant[program[r]] - Len(signed[r]))
  <2> SUFFICES ASSUME program[r] \in DOMAIN Grant
               PROVE  rec.guards = OneGuard(Grant[program[r]] - Len(signed[r]))
    OBVIOUS
  <2>1. Grant[program[r]] \in 1..3 /\ program[r] # "invoke_contract"
    BY <1>1, TableEnds DEF Grant
  <2> QED
    BY <1>2, <1>13, <1>16, <2>1 DEF OneGuard
<1>18. Budget(r)'
  <2>1. Left(r)' = rec.guards
    BY <1>5, <1>7, <1>14 DEF Left
  <2> QED
    BY <1>2, <1>3, <1>5, <1>7, <1>8, <1>9, <1>16, <1>17, <2>1 DEF Phase, Budget
<1>19. Effects(r)'
  BY <1>3, <1>5, <1>7, <1>8, <1>9 DEF Phase, Effects
<1>20. Kept' /\ ledger' = ledger /\ signed' = signed
  BY <1>3, KeptStays DEF IInv
<1> QED
  BY <1>3, <1>6, <1>7, <1>11, <1>13, <1>14, <1>18, <1>19, <1>20, StepKeeps DEF Phase

\* ClientContractConfigs and TokenClient::new.
LEMMA ClientKeeps ==
    ASSUME IInv, NEW r \in Runs, MakeClient(r)
    PROVE  IInv'
<1> DEFINE client == [id |-> ContractOf(r), guards |-> run[r].guards]
           rec == [run[r] EXCEPT !.client = client, !.at = @ + 1]
           p == program[r]
<1>1. /\ run[r] \in Runtime /\ run[r].at \in 1..Len(Code(r)) /\ p \in DOMAIN Text
      /\ Instruction(r).do = "client" /\ Instruction(r) = Text[p][run[r].at]
      /\ Len(Code(r)) = Len(Text[p])
  BY CodeFacts DEF IInv, MakeClient, At, Instruction, Code
<1>2. run' = [run EXCEPT ![r] = rec] /\ UNCHANGED <<given, ledger, signed>>
  BY DEF MakeClient
<1>3. Phase(r)
  BY DEF IInv
<1>4. client \in Clients /\ client # None
  BY <1>1, ProgramsAssumption DEF Runtime, Clients, ContractOf, Ids, Salts
<1>5. client.id = ContractOf(r) /\ client.guards = run[r].guards
  OBVIOUS
<1> HIDE DEF client
<1>6. rec \in Runtime
  <2>1. run[r].at + 1 \in Nat
    BY <1>1 DEF Runtime
  <2> QED
    BY <1>1, <1>4, <2>1 DEF Runtime
<1>7. /\ rec.at = run[r].at + 1 /\ rec.guards = run[r].guards
      /\ rec.status = run[r].status /\ rec.contract = run[r].contract
      /\ rec.client = client /\ rec.tx = run[r].tx
  BY <1>1 DEF Runtime
<1> HIDE DEF rec
<1>8. TypeOK'
  <2>1. rec.at \in 1..(Len(Code(r)) + 1)
    BY <1>1, <1>7, CodeFacts DEF IInv
  <2> QED
    BY <1>2, <1>6, <2>1, StepType DEF IInv, TypeOK
<1>9. run'[r] = rec /\ \A q \in Runs \ {r} : run'[q] = run[q]
  BY <1>2 DEF IInv, TypeOK
<1>10. source' = source /\ program' = program /\ key' = key /\ Code(r)' = Code(r)
  BY <1>2 DEF given, Code
<1>11. run[r].tx = None
  BY <1>1, <1>3 DEF Phase, Ordered, Ops, Runtime, Tx
<1>12. Ordered(r)'
  BY <1>7, <1>9, <1>11 DEF Ordered
<1>13. /\ Before[p][run[r].at + 1] = Before[p][run[r].at]
       /\ run[r].at = ClientAt[p] /\ run[r].at # CreateAt[p]
       /\ ClientAt[p] \in Nat /\ CreateAt[p] \in Nat /\ run[r].at \in Nat \ {0}
       /\ p \in DOMAIN Grant => run[r].at > 1
  <2>1. "client" \notin Ops /\ "client" # "create" /\ "client" # "guard"
    BY DEF Ops
  <2>2. run[r].at \in 1..Len(Text[p]) /\ Text[p][run[r].at].do = "client" /\ p \in DOMAIN Text
    BY <1>1
  <2> HIDE DEF Before, p
  <2>3. /\ Before[p][run[r].at + 1] = Before[p][run[r].at]
        /\ run[r].at = ClientAt[p] /\ run[r].at # CreateAt[p]
        /\ p \in DOMAIN Grant /\ run[r].at = 1 => FALSE
    BY <2>1, <2>2, Tables
  <2> QED
    BY <2>2, <2>3, TableEnds
<1>14. Counted(r)'
  BY <1>2, <1>3, <1>7, <1>9, <1>10, <1>11, <1>13 DEF Phase, Counted
<1>15. run[r].client = None /\ Holds(r)'
  BY <1>2, <1>3, <1>4, <1>5, <1>7, <1>9, <1>10, <1>13 DEF Phase, Holds, ContractOf, Constructed
<1>16. Budget(r)'
  <2>1. Left(r)' = Left(r)
    BY <1>4, <1>5, <1>7, <1>9, <1>15 DEF Left
  <2>2. run[r].at + 1 # 1
    BY <1>13
  <2>3. p = "invoke_contract" => run[r].at > 1
    BY <1>13 DEF ClientAt
  <2> QED
    BY <1>2, <1>3, <1>7, <1>9, <1>10, <1>13, <2>1, <2>2, <2>3 DEF Phase, Budget
<1>17. Effects(r)'
  BY <1>2, <1>3, <1>7, <1>9, <1>10 DEF Phase, Effects
<1>18. Kept' /\ ledger' = ledger /\ signed' = signed
  BY <1>2, KeptStays DEF IInv
<1> QED
  BY <1>2, <1>8, <1>9, <1>12, <1>14, <1>15, <1>16, <1>17, <1>18, StepKeeps DEF Phase

\* A run that ends, whatever became of its transaction.
LEMMA EndKeeps ==
    ASSUME IInv, NEW r \in Runs, NEW s \in Statuses,
           s = "Unauthorized" => program[r] = "invoke_contract",
           run' = [run EXCEPT ![r].status = s], UNCHANGED <<given, signed>>,
           ledger' \in [seq : [Keys -> Nat], code : BOOLEAN, applied : SUBSET Tx,
                        contracts : SUBSET [id : Ids, value : Nat]],
           Kept', ledger.contracts \subseteq ledger'.contracts, ledger.applied \subseteq ledger'.applied
    PROVE  IInv'
<1> DEFINE rec == [run[r] EXCEPT !.status = s]
<1>1. run[r] \in Runtime /\ Phase(r)
  BY CodeFacts DEF IInv
<1>2. run' = [run EXCEPT ![r] = rec]
  OBVIOUS
<1>3. rec \in Runtime
  BY <1>1 DEF Runtime
<1>4. /\ rec.at = run[r].at /\ rec.guards = run[r].guards /\ rec.status = s
      /\ rec.contract = run[r].contract /\ rec.client = run[r].client /\ rec.tx = run[r].tx
  BY <1>1 DEF Runtime
<1> HIDE DEF rec
<1>5. TypeOK'
  BY <1>2, <1>3, <1>4, CodeFacts, StepType DEF IInv, TypeOK
<1>6. run'[r] = rec /\ \A q \in Runs \ {r} : run'[q] = run[q]
  BY <1>2 DEF IInv, TypeOK
<1>7. /\ source' = source /\ program' = program /\ key' = key
      /\ Code(r)' = Code(r) /\ signed' = signed
  BY DEF given, Code
<1>8. Ordered(r)'
  BY <1>1, <1>4, <1>6, <1>7 DEF Phase, Ordered, Instruction
<1>9. Counted(r)'
  BY <1>1, <1>4, <1>6, <1>7 DEF Phase, Counted
<1>10. Holds(r)'
  BY <1>1, <1>4, <1>6, <1>7 DEF Phase, Holds, Constructed
<1>11. Budget(r)'
  BY <1>1, <1>4, <1>6, <1>7 DEF Phase, Budget, Left
<1>12. Effects(r)'
  BY <1>1, <1>4, <1>6, <1>7 DEF Phase, Effects
<1> QED
  BY <1>5, <1>6, <1>8, <1>9, <1>10, <1>11, <1>12, StepKeeps DEF Phase

\* The guards a transaction is signed with: what is left of the budget, and no
\* program that counts transactions has used it up.
LEMMA SignerHolds ==
    ASSUME IInv, NEW r \in Runs, NEW o \in Ops, At(r, o), run[r].tx = None
    PROVE  /\ SignerGuards(r) = IF o = "invoke" THEN run[r].client.guards ELSE run[r].guards
           /\ SignerGuards(r) \in Seq(G!Guard)
           /\ o = "invoke" <=> run[r].client # None
           /\ program[r] \in DOMAIN Grant =>
                  /\ Grant[program[r]] - Len(signed[r]) \in 1..3
                  /\ SignerGuards(r) = OneGuard(Grant[program[r]] - Len(signed[r]))
           /\ program[r] \notin DOMAIN Grant /\ program[r] # "invoke_contract" =>
                  o # "invoke" /\ SignerGuards(r) = <<>>
           /\ G!CheckGuards(SignerGuards(r), o) <=> program[r] # "invoke_contract"
<1> DEFINE p == program[r]
<1>1. /\ run[r] \in Runtime /\ run[r].at \in 1..Len(Text[p]) /\ p \in DOMAIN Text
      /\ Text[p][run[r].at].do = o /\ Instruction(r).do = o /\ Len(Text[p]) \in 1..5
  BY CodeFacts DEF IInv, At, Instruction, Code
<1>2. Phase(r)
  BY DEF IInv
<1>3. /\ o = "invoke" => run[r].at > ClientAt[p]
      /\ o # "invoke" => run[r].at < ClientAt[p]
      /\ p \in DOMAIN Grant => run[r].at > 1 /\ Before[p][run[r].at] < Grant[p]
      /\ Before[p][run[r].at] \in Nat
  <2> HIDE DEF p
  <2> QED
    BY <1>1, Tables
<1>4. ClientAt[p] \in Nat /\ (p \in DOMAIN Grant => Grant[p] \in 1..3) /\ run[r].at \in Nat
  <2> HIDE DEF p
  <2> QED
    BY <1>1, TableEnds
<1>5. o = "invoke" <=> run[r].client # None
  BY <1>2, <1>3, <1>4 DEF Phase, Holds
<1>6. SignerGuards(r) = IF o = "invoke" THEN run[r].client.guards ELSE run[r].guards
  BY <1>1 DEF SignerGuards
<1>7. SignerGuards(r) \in Seq(G!Guard)
  BY <1>1, <1>5, <1>6 DEF Runtime, Clients
<1>8. Len(signed[r]) = Before[p][run[r].at]
  BY <1>2, <1>3 DEF Phase, Counted
<1>9. p \in DOMAIN Grant =>
          /\ Grant[p] - Len(signed[r]) \in 1..3
          /\ SignerGuards(r) = OneGuard(Grant[p] - Len(signed[r]))
  BY <1>2, <1>3, <1>4, <1>5, <1>6, <1>8 DEF Phase, Budget, Left
<1>10. p \notin DOMAIN Grant /\ p # "invoke_contract" => o # "invoke" /\ SignerGuards(r) = <<>>
  <2> SUFFICES ASSUME p \notin DOMAIN Grant, p # "invoke_contract"
               PROVE  o # "invoke" /\ SignerGuards(r) = <<>>
    OBVIOUS
  <2>1. ClientAt[p] = 9
    BY <1>1 DEF Grant, Text, ClientAt
  <2>2. o # "invoke"
    BY <1>1, <1>3, <2>1
  <2> QED
    BY <1>2, <1>6, <2>2 DEF Phase, Budget
<1>11. p # "invoke_contract" => G!CheckGuards(SignerGuards(r), o)
  <2>1. CASE p \in DOMAIN Grant
    BY <1>9, <2>1, OneGuardPays
  <2>2. CASE p \notin DOMAIN Grant /\ p # "invoke_contract"
    BY <1>10, <2>2 DEF G!CheckGuards
  <2> QED
    BY <2>1, <2>2
<1>12. p = "invoke_contract" => ~G!CheckGuards(SignerGuards(r), o)
  <2> SUFFICES ASSUME p = "invoke_contract" PROVE ~G!CheckGuards(SignerGuards(r), o)
    OBVIOUS
  <2>1. ClientAt[p] = 2 /\ Steps[p] = <<"guard", "client", "invoke">>
    BY DEF ClientAt, Steps
  <2>2. Steps[p][run[r].at] = o /\ run[r].at \in 1..3
    <3>1. Len(Text[p]) = Len(Steps[p]) /\ DOMAIN Text[p] = 1..Len(Text[p])
          /\ \A i \in DOMAIN Text[p] : Text[p][i].do = Steps[p][i]
      <4> HIDE DEF p
      <4> QED
        BY <1>1, TextSteps
    <3> QED
      BY <1>1, <2>1, <3>1
  <2>3. o = "invoke" /\ run[r].at > 1
    BY <2>1, <2>2 DEF Ops
  <2>4. SignerGuards(r) = Left(r)
    BY <1>5, <1>6, <2>3 DEF Left
  <2> QED
    BY <1>2, <2>3, <2>4, TokenGuardRefuses DEF Phase, Budget
<1> QED
  BY <1>5, <1>6, <1>7, <1>9, <1>10, <1>11, <1>12

\* A transaction is signed, or the guards refuse it.
LEMMA SignKeeps ==
    ASSUME IInv, NEW r \in Runs, NEW o \in Ops, At(r, o), run[r].tx = None,
           NEW call \in Calls \cup {None}, Sign(r, o, call), UNCHANGED <<given, ledger>>
    PROVE  IInv'
<1>1. /\ run[r] \in Runtime /\ Phase(r) /\ run[r].at \in 1..Len(Code(r)) /\ Instruction(r).do = o
      /\ program[r] \in DOMAIN Text /\ run[r].at \in 1..Len(Text[program[r]])
      /\ Text[program[r]][run[r].at].do = o
  BY CodeFacts DEF IInv, At, Instruction, Code
<1>2. CASE ~G!CheckGuards(SignerGuards(r), o)
  <2>1. program[r] = "invoke_contract"
    BY <1>2, SignerHolds
  <2>2. run' = [run EXCEPT ![r].status = "Unauthorized"] /\ signed' = signed
    BY <1>2 DEF Sign
  <2>3. Kept' /\ ledger' = ledger
    BY KeptStays DEF IInv
  <2>4. ledger \in [seq : [Keys -> Nat], code : BOOLEAN, applied : SUBSET Tx,
                    contracts : SUBSET [id : Ids, value : Nat]]
    BY DEF IInv, TypeOK
  <2> QED
    BY <2>1, <2>2, <2>3, <2>4, EndKeeps DEF Statuses
<1>3. CASE G!CheckGuards(SignerGuards(r), o)
  <2> DEFINE tx == [op |-> o, account |-> key[r], seq |-> ledger.seq[key[r]] + 1,
                    on |-> On(r, o), call |-> call]
             left == G!UpdateGuards(SignerGuards(r), o)
             client == IF o = "invoke" THEN [id |-> run[r].client.id, guards |-> left]
                       ELSE run[r].client
             guards == IF o = "invoke" THEN run[r].guards ELSE left
             rec == [Debit(r, o) EXCEPT !.tx = tx]
  <2>1. left \in Seq(G!Guard)
    BY SignerHolds, UpdateGuardsType
  <2>2. o = "invoke" => run[r].client \in Clients
    BY <1>1, SignerHolds DEF Runtime
  <2>3. /\ client \in Clients \cup {None}
        /\ client = None <=> run[r].client = None
        /\ client # None => client.id = run[r].client.id
    <3>1. CASE o = "invoke"
      <4>1. client \in Clients
        BY <2>1, <2>2, <3>1 DEF Clients
      <4> QED
        BY <2>2, <3>1, <4>1, ProgramsAssumption
    <3>2. CASE o # "invoke"
      BY <1>1, <3>2 DEF Runtime
    <3> QED
      BY <3>1, <3>2
  <2>4. guards \in Seq(G!Guard)
    BY <1>1, <2>1 DEF Runtime
  <2>5. On(r, o) \in Ids \cup {None} /\ (o = "create" => On(r, o) = r)
    BY <1>1, <2>2 DEF On, GenerateSalt, Ids, Salts, Clients, Ops
  <2>6. tx \in Tx /\ tx # None
    <3>1. key[r] \in Keys /\ ledger.seq[key[r]] + 1 \in Nat
      BY DEF IInv, TypeOK
    <3>2. tx \in Tx
      BY <2>5, <3>1 DEF Tx
    <3> QED
      BY <3>2, ProgramsAssumption
  <2>7. run' = [run EXCEPT ![r] = rec] /\ signed' = [signed EXCEPT ![r] = Append(@, tx)]
    BY <1>3 DEF Sign
  <2>8. /\ tx.op = o /\ tx.on = On(r, o) /\ tx.account = key[r]
        /\ tx.seq = ledger.seq[key[r]] + 1
    OBVIOUS
  <2>9. program[r] # "invoke_contract"
    BY <1>3, SignerHolds
  <2>11. IF o = "invoke" THEN client.guards = left ELSE guards = left
    OBVIOUS
  <2>12. o # "invoke" => client = run[r].client
    OBVIOUS
  <2>13. o = "invoke" => guards = run[r].guards
    OBVIOUS
  <2>14. /\ rec.at = run[r].at /\ rec.status = run[r].status /\ rec.guards = guards
         /\ rec.contract = run[r].contract /\ rec.client = client /\ rec.tx = tx
         /\ rec \in Runtime
    <3>1. CASE o = "invoke"
      <4>1. SignerGuards(r) = run[r].client.guards
        BY <3>1, SignerHolds
      <4>2. Debit(r, o) = [run[r] EXCEPT !.client.guards = left]
        BY <3>1, <4>1 DEF Debit
      <4> HIDE DEF left, tx
      <4>3. Debit(r, o) = [run[r] EXCEPT !.client = [run[r].client EXCEPT !.guards = left]]
        BY <4>2
      <4>4. [run[r].client EXCEPT !.guards = left] = [id |-> run[r].client.id, guards |-> left]
        BY <2>2, <3>1 DEF Clients
      <4>5. Debit(r, o) = [run[r] EXCEPT !.client = client]
        BY <3>1, <4>3, <4>4
      <4>6. guards = run[r].guards
        BY <3>1
      <4> HIDE DEF guards, client
      <4>7. rec = [[run[r] EXCEPT !.client = client] EXCEPT !.tx = tx]
        BY <4>5
      <4> HIDE DEF rec
      <4> QED
        BY <1>1, <2>3, <2>6, <4>6, <4>7 DEF Runtime
    <3>2. CASE o # "invoke"
      <4>1. SignerGuards(r) = run[r].guards
        BY <3>2, SignerHolds
      <4>2. Debit(r, o) = [run[r] EXCEPT !.guards = left]
        BY <3>2, <4>1 DEF Debit
      <4>3. guards = left /\ client = run[r].client
        BY <3>2
      <4> HIDE DEF left, tx, guards, client
      <4>4. rec = [[run[r] EXCEPT !.guards = guards] EXCEPT !.tx = tx]
        BY <4>2, <4>3
      <4> HIDE DEF rec
      <4> QED
        BY <1>1, <2>4, <2>6, <4>3, <4>4 DEF Runtime
    <3> QED
      BY <3>1, <3>2
  <2> HIDE DEF tx, client, guards
  <2> HIDE DEF rec
  <2>16. signed' \in [Runs -> Seq(Tx)]
    <3>1. signed \in [Runs -> Seq(Tx)]
      BY DEF IInv, TypeOK
    <3>2. Append(signed[r], tx) \in Seq(Tx)
      BY <2>6, <3>1
    <3> QED
      BY <2>7, <3>1, <3>2
  <2>17. TypeOK'
    <3>1. rec.at \in 1..(Len(Code(r)) + 1)
      BY <1>1, <2>14, CodeFacts DEF IInv
    <3> QED
      BY <2>7, <2>14, <2>16, <3>1, StepType DEF IInv, TypeOK
  <2>18. /\ run'[r] = rec /\ \A q \in Runs \ {r} : run'[q] = run[q] /\ signed'[q] = signed[q]
         /\ signed'[r] = Append(signed[r], tx)
    BY <2>7 DEF IInv, TypeOK
  <2>19. /\ Len(signed'[r]) = Len(signed[r]) + 1 /\ Len(signed[r]) \in Nat
         /\ DOMAIN signed'[r] = 1..(Len(signed[r]) + 1) /\ DOMAIN signed[r] = 1..Len(signed[r])
         /\ \A i \in 1..Len(signed[r]) : signed'[r][i] = signed[r][i] /\ signed[r][i] \in Tx
         /\ signed'[r][Len(signed[r]) + 1] = tx
    <3>1. signed[r] \in Seq(Tx)
      BY DEF IInv, TypeOK
    <3> QED
      BY <2>6, <2>18, <3>1
  <2>20. source' = source /\ program' = program /\ key' = key /\ Code(r)' = Code(r)
    BY DEF given, Code
  <2>21. Ordered(r)'
    BY <1>1, <2>5, <2>8, <2>14, <2>18, <2>20 DEF Ordered, Instruction
  <2>22. Counted(r)'
    <3>1. Before[program[r]][run[r].at] \in Nat
      BY <1>1, Tables
    <3>2. Len(signed[r]) = Before[program[r]][run[r].at]
      BY <1>1, <3>1 DEF Phase, Counted
    <3> QED
      BY <2>6, <2>14, <2>18, <2>19, <2>20, <3>1, <3>2 DEF Counted
  <2>23. Holds(r)'
    BY <1>1, <2>3, <2>14, <2>18, <2>20 DEF Phase, Holds, Constructed
  <2>24. Budget(r)'
    <3>1. SignerGuards(r) = <<>> => left = <<>>
      BY DEF G!UpdateGuards
    <3>2. program[r] \in DOMAIN Grant =>
              /\ run[r].at > 1
              /\ left = OneGuard(Grant[program[r]] - Len(signed'[r]))
      <4> SUFFICES ASSUME program[r] \in DOMAIN Grant
                   PROVE  run[r].at > 1 /\ left = OneGuard(Grant[program[r]] - Len(signed'[r]))
        OBVIOUS
      <4>1. run[r].at > 1
        BY <1>1, Tables
      <4>2. left = OneGuard(Grant[program[r]] - Len(signed[r]) - 1)
        BY SignerHolds, OneGuardPays
      <4>3. Grant[program[r]] \in 1..3
        BY <1>1, TableEnds
      <4> QED
        BY <2>19, <4>1, <4>2, <4>3
    <3> HIDE DEF left
    <3>3. o = "invoke" => run[r].client # None
      BY SignerHolds
    <3>4. o # "invoke" => run[r].client = None /\ SignerGuards(r) = run[r].guards
      BY SignerHolds
    <3>5. run[r].guards = <<>> => guards = <<>>
      BY <2>11, <2>13, <3>1, <3>4
    <3>6. program[r] \in DOMAIN Grant =>
              (IF client = None THEN guards ELSE client.guards)
                  = OneGuard(Grant[program[r]] - Len(signed'[r]))
      BY <2>3, <2>11, <2>12, <3>2, <3>3, <3>4
    <3>7. Left(r)' = IF client = None THEN guards ELSE client.guards
      BY <2>14, <2>18 DEF Left
    <3> QED
      BY <1>1, <2>9, <2>14, <2>18, <2>20, <3>5, <3>6, <3>7 DEF Phase, Budget
  <2>25. Effects(r)'
    <3> DEFINE n == Len(signed[r])
    <3>1. \A i \in 1..n : /\ signed[r][i].account = key[r] /\ signed[r][i] \in ledger.applied
                          /\ i > 1 => signed[r][i - 1].seq < signed[r][i].seq
      BY <1>1, <2>19 DEF Phase, Effects
    <3>2. n >= 1 => signed[r][n].seq < tx.seq
      <4> SUFFICES ASSUME n >= 1 PROVE signed[r][n].seq < tx.seq
        OBVIOUS
      <4>1. n \in 1..n /\ signed[r][n] \in Tx
        BY <2>19
      <4>2. signed[r][n].seq <= ledger.seq[signed[r][n].account]
        BY <3>1, <4>1 DEF IInv, Kept
      <4>3. signed[r][n].seq <= ledger.seq[key[r]]
        BY <3>1, <4>1, <4>2
      <4>4. signed[r][n].seq \in Nat /\ ledger.seq[key[r]] \in Nat
        BY <4>1 DEF IInv, TypeOK, Tx
      <4> QED
        BY <2>8, <4>3, <4>4
    <3> HIDE DEF n
    <3>3. n \in Nat /\ n = Len(signed[r])
      BY <2>19 DEF n
    <3>4. ASSUME NEW i \in 1..(n + 1)
          PROVE  /\ signed'[r][i].account = key[r]
                 /\ i < n + 1 => signed'[r][i] \in ledger.applied
                 /\ i > 1 => signed'[r][i - 1].seq < signed'[r][i].seq
      <4>1. CASE i \in 1..n
        <5>1. i > 1 => i - 1 \in 1..n
          BY <3>3, <4>1
        <5> QED
          BY <2>19, <3>1, <3>3, <4>1, <5>1
      <4>2. CASE i = n + 1
        <5>1. i > 1 => n >= 1 /\ n \in 1..n /\ i - 1 = n
          BY <3>3, <4>2
        <5> QED
          BY <2>8, <2>19, <3>2, <3>3, <4>2, <5>1
      <4> QED
        BY <3>3, <4>1, <4>2
    <3>5. run'[r].tx = tx /\ tx # None /\ key' = key /\ ledger' = ledger
      BY <2>6, <2>14, <2>18, <2>20
    <3>6. Len(signed'[r]) = n + 1 /\ signed'[r][n + 1] = tx /\ DOMAIN signed'[r] = 1..(n + 1)
      BY <2>19, <3>3
    <3> QED
      BY <3>3, <3>4, <3>5, <3>6 DEF Effects
  <2>26. Kept' /\ ledger' = ledger
    BY KeptStays DEF IInv
  <2> QED
    BY <2>17, <2>18, <2>21, <2>22, <2>23, <2>24, <2>25, <2>26, StepKeeps DEF Phase
<1> QED
  BY <1>2, <1>3

\* A method of the client has a name and a number of arguments.
LEMMA MethodFacts ==
    ASSUME TypeOK, NEW m \in Methods
    PROVE  m.args \in Nat /\ m.name \in STRING
<1>1. PICK f \in MethodsOf(source) : m = MethodOf(f)
  BY DEF Methods, Generated
<1>2. PICK i \in DOMAIN source : f \in Range(source[i].functions)
  BY <1>1 DEF MethodsOf
<1>3. f.name \in STRING /\ f.params \in Nat
  BY <1>2, ProgramsAssumption DEF TypeOK
<1> QED
  BY <1>1, <1>3 DEF MethodOf

\* What a transaction that takes effect leaves.
LEMMA EffectKeeps ==
    ASSUME IInv, NEW r \in Runs, run[r].tx # None, UNCHANGED given,
           Succeeds(run[r].tx), ledger' = After(run[r].tx)
    PROVE  /\ ledger' \in [seq : [Keys -> Nat], code : BOOLEAN, applied : SUBSET Tx,
                           contracts : SUBSET [id : Ids, value : Nat]]
           /\ Kept' /\ ledger.contracts \subseteq ledger'.contracts
           /\ ledger.applied \subseteq ledger'.applied /\ run[r].tx \in ledger'.applied
           /\ run[r].tx.op = "create" => Constructed(run[r].tx.on) \in ledger'.contracts
<1> DEFINE x == run[r].tx
           code == ledger.code \/ x.op = "upload"
           contracts == IF x.op = "create" THEN ledger.contracts \cup {Constructed(x.on)}
                        ELSE ledger.contracts
           seq == [ledger.seq EXCEPT ![x.account] = x.seq]
           applied == ledger.applied \cup {x}
<1>1. x \in Tx /\ (x.op = "create" => x.on \in Ids)
  BY CodeFacts DEF IInv, Runtime, Phase, Ordered, Ids, Salts
<1>2. ledger \in [seq : [Keys -> Nat], code : BOOLEAN, applied : SUBSET Tx,
                  contracts : SUBSET [id : Ids, value : Nat]]
  BY DEF IInv, TypeOK
<1>3. seq \in [Keys -> Nat] /\ code \in BOOLEAN /\ applied \in SUBSET Tx
  BY <1>1, <1>2 DEF Tx
<1>4. contracts \in SUBSET [id : Ids, value : Nat]
  BY <1>1, <1>2 DEF Constructed
<1>5. ledger' = [seq |-> seq, code |-> code, contracts |-> contracts, applied |-> applied]
  <2>1. ledger' = [ledger EXCEPT !.seq = seq, !.code = code, !.contracts = contracts,
                                 !.applied = applied]
    BY DEF After
  <2> HIDE DEF seq, code, contracts, applied
  <2> QED
    BY <1>2, <2>1
<1>6. ledger'.contracts = contracts /\ ledger'.applied = applied /\ ledger'.seq = seq
  BY <1>5
<1>7. ASSUME NEW y \in applied
      PROVE  /\ y.op = "create" => Constructed(y.on) \in contracts
             /\ y.op = "invoke" => Callable(y.call) /\ \E c \in contracts : c.id = y.on
             /\ y.seq <= seq[y.account]
  <2>1. CASE y = x
    BY <1>1, <1>2, <2>1 DEF Succeeds, Tx
  <2>2. CASE y \in ledger.applied
    <3>1. y.seq <= ledger.seq[y.account] /\ y \in Tx
      BY <1>2, <2>2 DEF IInv, Kept
    <3>2. ledger.seq[y.account] <= seq[y.account]
      <4>1. x.seq = ledger.seq[x.account] + 1 /\ x.account \in Keys /\ y.account \in Keys
        BY <1>1, <3>1 DEF Succeeds, Tx
      <4>2. ledger.seq \in [Keys -> Nat]
        BY <1>2
      <4> QED
        BY <4>1, <4>2
    <3>3. ledger.seq[y.account] \in Nat /\ seq[y.account] \in Nat /\ y.seq \in Nat
      BY <1>2, <1>3, <3>1 DEF Tx
    <3> HIDE DEF seq
    <3> QED
      BY <2>2, <3>1, <3>2, <3>3 DEF IInv, Kept
  <2> QED
    BY <2>1, <2>2
<1>8. Kept'
  <2>1. \A call : Callable(call)' <=> Callable(call)
    BY DEF Callable, Exported, given
  <2> HIDE DEF seq, contracts, applied
  <2> QED
    BY <1>6, <1>7, <2>1 DEF Kept, Constructed
<1>9. /\ ledger.contracts \subseteq contracts /\ (x.op = "create" => Constructed(x.on) \in contracts)
      /\ ledger.applied \subseteq applied /\ x \in applied
  OBVIOUS
<1> HIDE DEF seq, code, contracts, applied
<1>10. ledger' \in [seq : [Keys -> Nat], code : BOOLEAN, applied : SUBSET Tx,
                    contracts : SUBSET [id : Ids, value : Nat]]
  BY <1>3, <1>4, <1>5
<1> QED
  BY <1>6, <1>8, <1>9, <1>10

\* Everything up to the signature, with any method and any arguments.
LEMMA PrepareKeeps ==
    ASSUME IInv, NEW r \in Runs, NEW o \in Ops, Prepare(r, o)
    PROVE  IInv'
<1>1. At(r, o) /\ run[r].tx = None /\ UNCHANGED <<given, ledger>>
  BY DEF Prepare
<1>2. /\ Kept' /\ ledger' = ledger
      /\ ledger \in [seq : [Keys -> Nat], code : BOOLEAN, applied : SUBSET Tx,
                     contracts : SUBSET [id : Ids, value : Nat]]
  BY <1>1, KeptStays DEF IInv, TypeOK
<1>3. CASE o # "invoke" /\ Sign(r, o, None)
  BY <1>1, <1>3, SignKeeps
<1>4. ASSUME o = "invoke", NEW m \in Methods,
             NEW natives \in [1..m.args -> {n \in Natives : ~TooLong(n)}],
             Sign(r, o, [function |-> m.name, args |-> [i \in 1..m.args |-> ToScVal(natives[i])]])
      PROVE  IInv'
  <2> DEFINE call == [function |-> m.name, args |-> [i \in 1..m.args |-> ToScVal(natives[i])]]
  <2>1. m.args \in Nat /\ m.name \in STRING
    BY MethodFacts DEF IInv
  <2>2. [i \in 1..m.args |-> ToScVal(natives[i])] \in [1..m.args -> ScVals]
    BY DEF ScVals
  <2>3. call \in Calls
    BY <2>1, <2>2 DEF Calls
  <2>4. Sign(r, o, call)
    BY <1>4
  <2> HIDE DEF call
  <2> QED
    BY <1>1, <2>3, <2>4, SignKeeps
<1>5. ASSUME NEW s \in {"panic", "Err"}, run' = [run EXCEPT ![r].status = s], signed' = signed
      PROVE  IInv'
  BY <1>1, <1>2, <1>5, EndKeeps DEF Statuses
<1> QED
  BY <1>3, <1>4, <1>5 DEF Prepare

\* The run goes on from an answer that its transaction took effect.
LEMMA AdvanceKeeps ==
    ASSUME IInv, NEW r \in Runs, run[r].tx # None, UNCHANGED <<given, signed>>,
           run' = [run EXCEPT ![r].tx = None, ![r].at = @ + 1,
                              ![r].contract = IF run[r].tx.op = "create" THEN run[r].tx.on ELSE @],
           ledger' \in [seq : [Keys -> Nat], code : BOOLEAN, applied : SUBSET Tx,
                        contracts : SUBSET [id : Ids, value : Nat]],
           Kept', ledger.contracts \subseteq ledger'.contracts, ledger.applied \subseteq ledger'.applied,
           run[r].tx \in ledger'.applied,
           run[r].tx.op = "create" => Constructed(run[r].tx.on) \in ledger'.contracts
    PROVE  IInv'
<1> DEFINE contract == IF run[r].tx.op = "create" THEN run[r].tx.on ELSE run[r].contract
           rec == [run[r] EXCEPT !.tx = None, !.at = @ + 1, !.contract = contract]
           p == program[r]
<1>1. run[r] \in Runtime /\ Phase(r) /\ p \in DOMAIN Text
  BY CodeFacts DEF IInv
<1>2. /\ run[r].tx \in Tx /\ run[r].at \in 1..Len(Code(r)) /\ Len(Code(r)) = Len(Text[p])
      /\ Len(Code(r)) \in 1..5 /\ Text[p][run[r].at].do = run[r].tx.op /\ run[r].tx.op \in Ops
      /\ run[r].tx.op = "create" => run[r].tx.on = r
  BY <1>1, CodeFacts DEF IInv, Phase, Ordered, Runtime, Code, Instruction, Tx
<1>3. run' = [run EXCEPT ![r] = rec]
  BY <1>1 DEF Runtime
<1>4. contract = (IF run[r].tx.op = "create" THEN r ELSE run[r].contract)
      /\ contract \in Ids \cup {None}
  BY <1>1, <1>2 DEF Runtime, Ids, Salts
<1> HIDE DEF contract
<1>5. /\ rec.at = run[r].at + 1 /\ rec.guards = run[r].guards /\ rec.status = run[r].status
      /\ rec.contract = contract /\ rec.client = run[r].client /\ rec.tx = None
  BY <1>1 DEF Runtime
<1>6. rec \in Runtime
  <2>1. run[r].at + 1 \in Nat
    BY <1>1 DEF Runtime
  <2> QED
    BY <1>1, <1>4, <2>1 DEF Runtime
<1> HIDE DEF rec
<1>7. TypeOK'
  <2>1. rec.at \in 1..(Len(Code(r)) + 1)
    BY <1>2, <1>5
  <2> QED
    BY <1>3, <1>6, <2>1, StepType DEF IInv, TypeOK
<1>8. run'[r] = rec /\ \A q \in Runs \ {r} : run'[q] = run[q]
  BY <1>3 DEF IInv, TypeOK
<1>9. /\ source' = source /\ program' = program /\ key' = key
      /\ Code(r)' = Code(r) /\ signed' = signed
  BY DEF given, Code
<1>10. Ordered(r)'
  BY <1>5, <1>8 DEF Ordered
<1>11. /\ Before[p][run[r].at + 1] = Before[p][run[r].at] + 1 /\ Before[p][run[r].at] \in Nat
       /\ run[r].at # ClientAt[p] /\ (run[r].at = CreateAt[p] <=> run[r].tx.op = "create")
       /\ run[r].tx.op = "create" => run[r].at < ClientAt[p]
       /\ p \in DOMAIN Grant => run[r].at > 1
       /\ ClientAt[p] \in Nat /\ CreateAt[p] \in Nat /\ run[r].at \in Nat \ {0}
  <2>1. "client" \notin Ops /\ "create" \in Ops /\ "guard" \notin Ops
    BY DEF Ops
  <2> HIDE DEF p
  <2>2. run[r].at \in 1..Len(Text[p]) /\ run[r].at \in Nat \ {0} /\ p \in DOMAIN Text
    BY <1>1, <1>2
  <2>3. PICK o \in Ops : o = run[r].tx.op /\ o = Text[p][run[r].at].do
    BY <1>2
  <2>4. /\ Before[p][run[r].at + 1] = Before[p][run[r].at] + 1 /\ Before[p][run[r].at] \in Nat
        /\ run[r].at # ClientAt[p] /\ (run[r].at = CreateAt[p] <=> o = "create")
        /\ o = "create" => run[r].at < ClientAt[p]
        /\ p \in DOMAIN Grant => run[r].at > 1
    BY <2>1, <2>2, <2>3, Tables
  <2>5. ClientAt[p] \in Nat /\ CreateAt[p] \in Nat
    BY <2>2, TableEnds
  <2> QED
    BY <2>2, <2>3, <2>4, <2>5
<1>12. Counted(r)'
  BY <1>1, <1>5, <1>8, <1>9, <1>11 DEF Phase, Counted
<1>13. Holds(r)'
  <2>1. run[r].client # None <=> run[r].at + 1 > ClientAt[p]
    BY <1>1, <1>11 DEF Phase, Holds
  <2>2. contract = IF run[r].at + 1 > CreateAt[p] THEN r ELSE None
    BY <1>1, <1>4, <1>11 DEF Phase, Holds
  <2>3. contract # None => Constructed(contract) \in ledger'.contracts
    <3>1. CASE run[r].tx.op = "create"
      BY <1>2, <1>4, <3>1
    <3>2. CASE run[r].tx.op # "create"
      BY <1>1, <1>4, <1>11, <2>2, <3>2 DEF Phase, Holds
    <3> QED
      BY <3>1, <3>2
  <2>4. contract # None /\ run[r].client # None => run[r].client.id = r
    BY <1>1, <1>4, <1>11 DEF Phase, Holds
  <2>5. contract # None => Constructed(r) \in ledger'.contracts
    BY <2>2, <2>3
  <2>6. /\ rec.client # None <=> rec.at > ClientAt[p]
        /\ rec.contract = IF rec.at > CreateAt[p] THEN r ELSE None
        /\ rec.contract # None => Constructed(r) \in ledger'.contracts
        /\ rec.contract # None /\ rec.client # None => rec.client.id = r
    BY <1>5, <2>1, <2>2, <2>4, <2>5
  <2>7. program'[r] = p /\ Constructed(r)' = Constructed(r)
    BY <1>9 DEF Constructed
  <2> HIDE DEF p
  <2> QED
    BY <1>8, <2>6, <2>7 DEF Holds
<1>14. Budget(r)'
  <2>1. run[r].at + 1 # 1
    BY <1>11
  <2>2. Left(r)' = Left(r)
    BY <1>5, <1>8 DEF Left
  <2>3. p # "invoke_contract"
    <3>1. Len(signed[r]) > 0
      BY <1>1 DEF Phase, Effects
    <3> QED
      BY <1>1, <3>1 DEF Phase, Budget
  <2> QED
    BY <1>1, <1>5, <1>8, <1>9, <1>11, <2>1, <2>2, <2>3 DEF Phase, Budget
<1>15. Effects(r)'
  <2>1. \A i \in DOMAIN signed[r] :
            /\ signed[r][i].account = key[r] /\ signed[r][i] \in ledger'.applied
            /\ i > 1 => signed[r][i - 1].seq < signed[r][i].seq
    <3>1. signed[r] \in Seq(Tx) /\ Len(signed[r]) \in Nat /\ DOMAIN signed[r] = 1..Len(signed[r])
      BY DEF IInv, TypeOK
    <3>2. signed[r][Len(signed[r])] = run[r].tx
      BY <1>1 DEF Phase, Effects
    <3> QED
      BY <1>1, <3>1, <3>2 DEF Phase, Effects
  <2> QED
    BY <1>5, <1>8, <1>9, <2>1 DEF Effects
<1> QED
  BY <1>7, <1>8, <1>9, <1>10, <1>12, <1>13, <1>14, <1>15, StepKeeps DEF Phase

\* The answer, whatever it is.
LEMMA AnswerKeeps ==
    ASSUME IInv, NEW r \in Runs, Answer(r)
    PROVE  IInv'
<1> DEFINE TookEffect == Succeeds(run[r].tx) /\ ledger' = After(run[r].tx)
<1>1. run[r].tx # None /\ UNCHANGED <<given, signed>>
  BY DEF Answer
<1>2. /\ ledger \in [seq : [Keys -> Nat], code : BOOLEAN, applied : SUBSET Tx,
                     contracts : SUBSET [id : Ids, value : Nat]]
      /\ ledger' = ledger => Kept'
  BY <1>1, KeptStays DEF IInv, TypeOK
<1>3. ASSUME run' = [run EXCEPT ![r].status = "Err"],
             TookEffect \/ UNCHANGED ledger
      PROVE  IInv'
  <2>1. CASE TookEffect
    BY <1>1, <1>3, <2>1, EffectKeeps, EndKeeps DEF Statuses
  <2>2. CASE UNCHANGED ledger
    BY <1>1, <1>2, <1>3, <2>2, EndKeeps DEF Statuses
  <2> QED
    BY <1>3, <2>1, <2>2
<1>4. ASSUME run' = [run EXCEPT ![r].tx = None, ![r].at = @ + 1,
                         ![r].contract = IF run[r].tx.op = "create" THEN run[r].tx.on ELSE @],
             TookEffect \/ (run[r].tx \in ledger.applied /\ UNCHANGED ledger)
      PROVE  IInv'
  <2>1. CASE TookEffect
    BY <1>1, <1>4, <2>1, EffectKeeps, AdvanceKeeps
  <2>2. CASE run[r].tx \in ledger.applied /\ UNCHANGED ledger
    <3>1. run[r].tx.op = "create" => Constructed(run[r].tx.on) \in ledger'.contracts
      BY <2>2 DEF IInv, Kept
    <3> QED
      BY <1>1, <1>2, <1>4, <2>2, <3>1, AdvanceKeeps
  <2> QED
    BY <1>4, <2>1, <2>2
<1>5. \/ /\ run' = [run EXCEPT ![r].status = "Err"]
         /\ TookEffect \/ UNCHANGED ledger
      \/ /\ run' = [run EXCEPT ![r].tx = None, ![r].at = @ + 1,
                         ![r].contract = IF run[r].tx.op = "create" THEN run[r].tx.on ELSE @]
         /\ TookEffect \/ (run[r].tx \in ledger.applied /\ UNCHANGED ledger)
  BY DEF Answer, Confirmed
<1> QED
  BY <1>3, <1>4, <1>5

-----------------------------------------------------------------------------
\* A program at its first instruction holds nothing.
LEMMA InitHolds == Init => IInv
<1> SUFFICES ASSUME Init PROVE IInv
  OBVIOUS
<1> USE DEF Init
<1>1. \A r \in Runs : run[r] = [at |-> 1, status |-> "running", guards |-> <<>>,
                                contract |-> None, client |-> None, tx |-> None]
  OBVIOUS
<1>2. \A r \in Runs : Len(Code(r)) \in 1..5
  BY TableEnds DEF Code
<1>3. ledger \in [seq : [Keys -> Nat], code : BOOLEAN, applied : SUBSET Tx,
                  contracts : SUBSET [id : Ids, value : Nat]]
  BY DEF Ids
<1>4. run \in [Runs -> Runtime]
  BY DEF Runtime, Statuses
<1>5. signed \in [Runs -> Seq(Tx)]
  OBVIOUS
<1>6. TypeOK
  BY <1>1, <1>2, <1>3, <1>4, <1>5 DEF TypeOK, Runtime, Statuses
<1>7. Kept
  BY DEF Kept
<1>8. ASSUME NEW r \in Runs PROVE Phase(r)
  <2>1. /\ program[r] \in DOMAIN Text /\ Before[program[r]][1] = 0
        /\ ClientAt[program[r]] >= 1 /\ ClientAt[program[r]] \in Nat
        /\ CreateAt[program[r]] >= 1 /\ CreateAt[program[r]] \in Nat
    BY TableEnds
  <2>2. signed[r] = <<>>
    OBVIOUS
  <2> QED
    BY <1>1, <2>1, <2>2 DEF Phase, Ordered, Counted, Holds, Budget, Effects
<1> QED
  BY <1>6, <1>7, <1>8 DEF IInv

\* The steps of every run keep the invariant.
LEMMA NextKeeps == IInv /\ [Next]_vars => IInv'
<1> SUFFICES ASSUME IInv, [Next]_vars PROVE IInv'
  OBVIOUS
<1>1. ASSUME NEW r \in Runs, Guard(r) PROVE IInv'
  BY <1>1, GuardKeeps
<1>2. ASSUME NEW r \in Runs, MakeClient(r) PROVE IInv'
  BY <1>2, ClientKeeps
<1>3. ASSUME NEW r \in Runs, Answer(r) PROVE IInv'
  BY <1>3, AnswerKeeps
<1>4. ASSUME NEW r \in Runs, NEW o \in Ops, Prepare(r, o) PROVE IInv'
  BY <1>4, PrepareKeeps
<1>5. CASE UNCHANGED vars
  <2>1. /\ source' = source /\ program' = program /\ key' = key
        /\ run' = run /\ ledger' = ledger /\ signed' = signed /\ given' = given
    BY <1>5 DEF vars, given
  <2>2. \A q \in Runs : Phase(q)'
    BY <2>1, OthersKeepPhase DEF IInv
  <2>3. TypeOK'
    <3>1. \A q \in Runs : Code(q)' = Code(q)
      BY <2>1 DEF Code
    <3> QED
      BY <2>1, <3>1 DEF IInv, TypeOK
  <2>4. Kept'
    BY <2>1, KeptStays DEF IInv
  <2> QED
    BY <2>2, <2>3, <2>4 DEF IInv
<1> QED
  BY <1>1, <1>2, <1>3, <1>4, <1>5 DEF Next

\* Where a run is in its program says what it holds, however the runs take turns.
THEOREM Invariant == Spec => []IInv
BY InitHolds, NextKeeps, PTL DEF Spec

\* The state has its types: contracts, clients, transactions and calls of the
\* sources and the arguments at hand.
THEOREM TypeCorrect == Spec => []TypeOK
<1>1. IInv => TypeOK
  BY DEF IInv
<1> QED
  BY <1>1, Invariant, PTL

-----------------------------------------------------------------------------
(***************************************************************************)
(* What it gives.                                                          *)
(***************************************************************************)
\* The budget of the guard minus the transactions signed is what the guard has left.
LEMMA BudgetsFitNow == IInv => BudgetsFit
<1> SUFFICES ASSUME IInv, NEW r \in Runs
             PROVE  /\ \A n \in Granted(r) : \A i \in DOMAIN Left(r) :
                           Left(r)[i].remaining + Len(signed[r]) = n
                    /\ IF program[r] = "invoke_contract"
                       THEN signed[r] = <<>> /\ ~Finished(r)
                       ELSE /\ run[r].status # "Unauthorized"
                            /\ Finished(r) => \A n \in Granted(r) : Len(signed[r]) = n
  BY DEF BudgetsFit
<1> DEFINE p == program[r]
<1>1. /\ Phase(r) /\ p \in DOMAIN Text /\ run[r] \in Runtime /\ run[r].at \in Nat \ {0}
      /\ Len(signed[r]) \in Nat
  BY CodeFacts DEF IInv, TypeOK
<1>2. p # "invoke_contract" => run[r].status # "Unauthorized"
  BY <1>1 DEF Phase, Budget
<1>3. ASSUME NEW n \in Granted(r)
      PROVE  IF p = "invoke_contract" THEN n = 1 ELSE p \in DOMAIN Grant /\ n = Grant[p]
  <2>1. PICK i \in DOMAIN Text[p] : Text[p][i].do = "guard" /\ n = Text[p][i].guard.remaining
    BY <1>3 DEF Granted, Code
  <2> HIDE DEF p
  <2>2. /\ i = 1 /\ p \in DOMAIN Text
        /\ p # "invoke_contract" =>
               p \in DOMAIN Grant /\ Text[p][1].guard = [scope |-> AnyCall, remaining |-> Grant[p]]
        /\ p = "invoke_contract" => Text[p][1].guard = [scope |-> Token, remaining |-> 1]
    BY <1>1, <2>1, TextGuards
  <2> QED
    BY <2>1, <2>2
<1>4. ASSUME NEW n \in Granted(r), NEW i \in DOMAIN Left(r)
      PROVE  Left(r)[i].remaining + Len(signed[r]) = n
  <2>1. run[r].at > 1
    <3>1. SUFFICES ASSUME run[r].at = 1 PROVE FALSE
      BY <1>1
    <3>2. run[r].guards = <<>> /\ run[r].client = None
      <4>1. ClientAt[p] \in Nat /\ 1 <= ClientAt[p]
        <5> HIDE DEF p
        <5> QED
          BY <1>1, TableEnds
      <4> QED
        BY <1>1, <3>1, <4>1 DEF Phase, Budget, Holds
    <3>3. Left(r) = <<>>
      BY <3>2 DEF Left
    <3> QED
      BY <3>3
  <2>2. CASE p = "invoke_contract"
    <3>1. Left(r) = TokenGuard /\ signed[r] = <<>> /\ n = 1
      BY <1>1, <1>3, <2>1, <2>2 DEF Phase, Budget
    <3> QED
      BY <3>1 DEF TokenGuard
  <2>3. CASE p # "invoke_contract"
    <3>1. p \in DOMAIN Grant /\ n = Grant[p]
      BY <1>3, <2>3
    <3>2. n \in 1..3
      <4> HIDE DEF p
      <4> QED
        BY <1>1, <3>1, TableEnds
    <3>3. Left(r) = OneGuard(n - Len(signed[r]))
      BY <1>1, <2>1, <3>1 DEF Phase, Budget
    <3>4. Left(r)[i].remaining = n - Len(signed[r])
      BY <3>3 DEF OneGuard
    <3> QED
      BY <1>1, <3>2, <3>4
  <2> QED
    BY <2>2, <2>3
<1>5. ASSUME Finished(r)
      PROVE  run[r].at = Len(Text[p]) + 1 /\ Len(signed[r]) = Before[p][Len(Text[p]) + 1]
  <2>1. run[r].at \in 1..(Len(Code(r)) + 1) /\ run[r].at > Len(Code(r)) /\ Len(Code(r)) \in Nat
    BY <1>5, CodeFacts DEF IInv, TypeOK, Finished
  <2>2. run[r].at = Len(Code(r)) + 1
    BY <2>1
  <2>3. run[r].tx = None
    BY <1>1, <2>1, <2>2 DEF Phase, Ordered
  <2>4. Len(signed[r]) = Before[p][run[r].at] + 0
    BY <1>1, <2>3 DEF Phase, Counted
  <2>5. Before[p][Len(Text[p]) + 1] \in Nat
    <3> HIDE DEF p
    <3>0. p \in DOMAIN Text /\ Len(Text[p]) \in 1..5
      BY <1>1, TableEnds
    <3> DEFINE last == Len(Text[p])
               do == Text[p][last].do
    <3>1. last \in 1..last /\ p \in DOMAIN Text
      BY <3>0
    <3> HIDE DEF last, do
    <3>2. Before[p][last] \in Nat /\ Before[p][last + 1] \in {Before[p][last], Before[p][last] + 1}
      BY <3>1, Tables DEF last, do
    <3> QED
      BY <3>2 DEF last
  <2> QED
    BY <2>2, <2>4, <2>5 DEF Code
<1>6. p # "invoke_contract" /\ Finished(r) => \A n \in Granted(r) : Len(signed[r]) = n
  <2> SUFFICES ASSUME p # "invoke_contract", Finished(r), NEW n \in Granted(r)
               PROVE  Len(signed[r]) = n
    OBVIOUS
  <2>1. p \in DOMAIN Grant /\ n = Grant[p] /\ Len(signed[r]) = Before[p][Len(Text[p]) + 1]
    BY <1>3, <1>5
  <2> HIDE DEF p
  <2> QED
    BY <1>1, <2>1, TableEnds
<1>7. p = "invoke_contract" => signed[r] = <<>> /\ ~Finished(r)
  <2> SUFFICES ASSUME p = "invoke_contract" PROVE signed[r] = <<>> /\ ~Finished(r)
    OBVIOUS
  <2>1. signed[r] = <<>>
    BY <1>1 DEF Phase, Budget
  <2>2. Len(Text[p]) = 3 /\ Before[p][4] = 1
    BY DEF Text, ProgramInvokeContract, AddGuard, Client, Send, Before
  <2> QED
    BY <1>5, <2>1, <2>2
<1> QED
  BY <1>2, <1>4, <1>6, <1>7

\* The budgets written into the examples are right: the guards refuse none of the
\* programs that count transactions a call, a program that finished used the
\* budget up, and one that ended early has what it did not use (deploy.rs:29,
\* deploy_and_invoke.rs:36); invoke_contract, which asks for a guard of contract
\* calls, signs nothing, never finishes and loses none of its budget.
THEOREM BudgetsAreExact == Spec => []BudgetsFit
BY BudgetsFitNow, Invariant, PTL

\* A contract is of the salt of its run.
LEMMA DeploysItsOwnNow == IInv => DeploysItsOwn
<1> SUFFICES ASSUME IInv, NEW r \in Runs, run[r].contract # None
             PROVE  /\ \E c \in ledger.contracts : c.id = run[r].contract /\ c.value = 42
                    /\ \A q \in Runs \ {r} : run[q].contract # run[r].contract
                    /\ run[r].client # None => run[r].client.id = run[r].contract
  BY DEF DeploysItsOwn
<1>1. \A q \in Runs : Holds(q)
  BY DEF IInv, Phase
<1>2. run[r].contract = r /\ \A q \in Runs : run[q].contract \in {q, None}
  BY <1>1 DEF Holds
<1>3. Constructed(r) \in ledger.contracts /\ Constructed(r).id = r /\ Constructed(r).value = 42
  BY <1>1 DEF Holds, Constructed
<1>4. run[r].client # None => run[r].client.id = r
  BY <1>1 DEF Holds
<1> QED
  BY <1>2, <1>3, <1>4

\* A run that deployed has a contract of its own, constructed with its argument,
\* and its client follows that one, however many runs use the same account.
THEOREM EachRunOwnsItsContract == Spec => []DeploysItsOwn
BY DeploysItsOwnNow, Invariant, PTL

\* What is signed and not waited for is applied, and what is applied had effect.
LEMMA StepsTookEffect == IInv => EachStepTookEffect
<1> SUFFICES ASSUME IInv, NEW r \in Runs, NEW i \in DOMAIN signed[r],
                    i < Len(signed[r]) \/ run[r].tx = None
             PROVE  /\ signed[r][i] \in ledger.applied
                    /\ i > 1 => signed[r][i - 1].seq < signed[r][i].seq
                    /\ signed[r][i].op = "invoke" =>
                           /\ Callable(signed[r][i].call)
                           /\ \E c \in ledger.contracts : c.id = signed[r][i].on
  BY DEF EachStepTookEffect
<1>1. signed[r][i] \in ledger.applied /\ (i > 1 => signed[r][i - 1].seq < signed[r][i].seq)
  BY DEF IInv, Phase, Effects
<1> QED
  BY <1>1 DEF IInv, Kept

\* However many runs share a key and take turns, a run goes on only from
\* transactions that took effect, each after the one before; a call among them
\* reached a public function of a contract that exists with the arguments it
\* takes, whatever source the client was made from (rpc.rs:108-117).
THEOREM RunsGoOnFromEffects == Spec => []EachStepTookEffect
BY StepsTookEffect, Invariant, PTL
=============================================================================
