------------------------------ MODULE Programs ------------------------------
(***************************************************************************)
(* The programs of the repository that use the library from end to end:    *)
(* soroban-rs/examples and example/src/scripts, with the token contract    *)
(* they deploy and call (example/src/lib.rs).                              *)
(*                                                                         *)
(* Each run is a process of its own; runs started with the same private    *)
(* key share an account of the ledger and nothing else.  A program is the  *)
(* sequence of its calls of the library.  One that sends a transaction     *)
(* takes two steps: up to the signature, and the answer.  ContractClient   *)
(* has the awaits between.  A run ends at its first error.                 *)
(*                                                                         *)
(* The client is generated from the source of the contract.  Where a       *)
(* program calls send(alice, bob) of the token's, the model calls any      *)
(* method of it with any arguments.                                        *)
(***************************************************************************)
EXTENDS ClientMacro

CONSTANTS
    Runs,    \* processes
    Keys,    \* the accounts of private keys
    Sources, \* what the contract's source may be
    Natives, \* values a caller has for arguments
    Token,   \* the contract whose id is written in send.rs and invoke_contract.rs
    AnyCall, MaxRemaining, None

VARIABLES
    source,  \* the source the client and the contract are made from
    program, \* what each run runs
    key,     \* the private key each run is given
    run,     \* [at, status, guards, contract, client, tx] of each run
    ledger,  \* [seq, code, contracts, applied]
    signed   \* auxiliary: the transactions each run signed, in order

given == <<source, program, key>>
vars == <<source, program, key, run, ledger, signed>>

(***************************************************************************)
(* The programs.  deploy, with the constructor's argument 42, is an upload *)
(* and a creation; a client is made from configs with a clone of the       *)
(* account, and a contract that was deployed or is known.                  *)
(***************************************************************************)
AddGuard(scope, n) == <<[do |-> "guard", guard |-> [scope |-> scope, remaining |-> n]]>>
Deploy == <<[do |-> "upload"], [do |-> "create"]>>
Client == <<[do |-> "client"]>>
Send == <<[do |-> "invoke"]>>
ExtendTtl == <<[do |-> "extend"]>>
Configure == <<[do |-> "configure"]>>

ProgramDeploy == AddGuard(AnyCall, 2) \o Deploy
ProgramSend == AddGuard(AnyCall, 1) \o Client \o Send
ProgramDeployAndInvoke == AddGuard(AnyCall, 3) \o Deploy \o Client \o Send
ProgramInvokeContract == AddGuard(Token, 1) \o Client \o Send
ProgramExtendTtl == Deploy \o ExtendTtl
ProgramCreateMultisig == Configure

Text == [deploy |-> ProgramDeploy, send |-> ProgramSend,
         deploy_and_invoke |-> ProgramDeployAndInvoke, invoke_contract |-> ProgramInvokeContract,
         extend_ttl |-> ProgramExtendTtl, create_multisig |-> ProgramCreateMultisig]

Code(r) == Text[program[r]]
Ops == {"upload", "create", "invoke", "extend", "configure"}

G == INSTANCE Guards WITH Contracts <- {Token}, Txs <- Ops,
                          CallsIn <- [o \in Ops |-> [c \in {Token} |-> 0]]

Salts == Runs
Ids == {Token} \cup Salts
ScVals == {ToScVal(n) : n \in Natives}
Methods == Generated(source)
Calls == [function : STRING, args : Seq(ScVals)]
Tx == [op : Ops, account : Keys, seq : Nat, on : Ids \cup {None}, call : Calls \cup {None}]
Clients == [id : Ids, guards : Seq(G!Guard)]

ASSUME ProgramsAssumption ==
    /\ MaxRemaining \in Nat /\ MaxRemaining >= 3
    /\ Token \notin Runs /\ Token # AnyCall
    /\ None \notin Ids \cup Clients \cup Tx
    /\ \A s \in Sources : \A i \in DOMAIN s : \A f \in Range(s[i].functions) :
           f.name \in STRING /\ f.params \in Nat /\ (f.env => f.params > 0)
    /\ Natives \subseteq [type : STRING, value : Nat]

TypeOK ==
    /\ source \in Sources /\ Compiles(source)
    /\ key \in [Runs -> Keys]
    /\ program \in [Runs -> DOMAIN Text]
    /\ run \in [Runs -> [at : Nat, status : {"running", "Unauthorized", "Err", "panic"},
                         guards : Seq(G!Guard), contract : Ids \cup {None},
                         client : Clients \cup {None}, tx : Tx \cup {None}]]
    /\ \A r \in Runs : run[r].at \in 1..(Len(Code(r)) + 1)
    /\ ledger \in [seq : [Keys -> Nat], code : BOOLEAN, applied : SUBSET Tx,
                   contracts : SUBSET [id : Ids, value : Nat]]
    /\ signed \in [Runs -> Seq(Tx)]

\* The scripts include the client of a source; one that is refused is no program.
Init ==
    /\ source \in Sources /\ Compiles(source)
    /\ key \in [Runs -> Keys]
    /\ program \in [Runs -> DOMAIN Text]
    /\ run = [r \in Runs |-> [at |-> 1, status |-> "running", guards |-> <<>>,
                              contract |-> None, client |-> None, tx |-> None]]
    /\ ledger = [seq |-> [a \in Keys |-> 0], code |-> FALSE, applied |-> {},
                 contracts |-> {[id |-> Token, value |-> 0]}]
    /\ signed = [r \in Runs |-> <<>>]
-----------------------------------------------------------------------------
Instruction(r) == Code(r)[run[r].at]
At(r, do) == run[r].status = "running" /\ run[r].at <= Len(Code(r)) /\ Instruction(r).do = do

\* Account::add_guard on the account of the private key.
Guard(r) ==
    /\ At(r, "guard")
    /\ run' = [run EXCEPT ![r].guards = Append(@, Instruction(r).guard), ![r].at = @ + 1]
    /\ UNCHANGED <<given, ledger, signed>>

\* Fault: the configs are made of the contract value, deployed or not.
OnlyDeployed(r) == run[r].contract

ContractOf(r) == IF run[r].contract = None THEN Token ELSE run[r].contract

\* ClientContractConfigs with account.clone(), and TokenClient::new.
MakeClient(r) ==
    /\ At(r, "client")
    /\ run' = [run EXCEPT
           ![r].client = [id |-> ContractOf(r), guards |-> run[r].guards],
           ![r].at = @ + 1]
    /\ UNCHANGED <<given, ledger, signed>>

(***************************************************************************)
(* A transaction.                                                          *)
(***************************************************************************)
SignerGuards(r) == IF Instruction(r).do = "invoke" THEN run[r].client.guards ELSE run[r].guards

\* Fault: the guards of an account are updated for each copy there will be.
DebitTwice(r, o) ==
    IF o = "invoke"
    THEN [run[r] EXCEPT !.client.guards = G!UpdateGuards(@, o)]
    ELSE [run[r] EXCEPT !.guards = G!UpdateGuards(G!UpdateGuards(@, o), o)]

Debit(r, o) ==
    IF o = "invoke"
    THEN [run[r] EXCEPT !.client.guards = G!UpdateGuards(@, o)]
    ELSE [run[r] EXCEPT !.guards = G!UpdateGuards(@, o)]

\* Fault: the salt comes from the account.
SaltOfAccount(r) == CHOOSE q \in Runs : key[q] = key[r]

GenerateSalt(r) == r

\* What the transaction is about; configure has a target the signature tells.
On(r, o) ==
    CASE o = "create" -> GenerateSalt(r)
      [] o = "invoke" -> run[r].client.id
      [] OTHER -> None

Sign(r, o, call) ==
    IF G!CheckGuards(SignerGuards(r), o)
    THEN LET tx == [op |-> o, account |-> key[r], seq |-> ledger.seq[key[r]] + 1, on |-> On(r, o), call |-> call]
         IN  /\ run' = [run EXCEPT ![r] = [Debit(r, o) EXCEPT !.tx = tx]]
             /\ signed' = [signed EXCEPT ![r] = Append(@, tx)]
    ELSE /\ run' = [run EXCEPT ![r].status = "Unauthorized"]
         /\ UNCHANGED signed

\* Any call may end early; converting the arguments of a method, try_into_val
\* answers with an error and into_val panics, before anything is signed.
Prepare(r, o) ==
    /\ At(r, o) /\ run[r].tx = None
    /\ \/ o # "invoke" /\ Sign(r, o, None)
       \/ /\ o = "invoke"
          /\ \E m \in Methods : \E natives \in [1..m.args -> {n \in Natives : ~TooLong(n)}] :
                Sign(r, o, [function |-> m.name, args |-> [i \in 1..m.args |-> ToScVal(natives[i])]])
       \/ /\ o = "invoke" /\ \E m \in Methods : m.args > 0
          /\ \E n \in Natives : TooLong(n)
          /\ run' = [run EXCEPT ![r].status = "panic"]
          /\ UNCHANGED signed
       \/ /\ run' = [run EXCEPT ![r].status = "Err"]
          /\ UNCHANGED signed
    /\ UNCHANGED <<given, ledger>>

\* The token's constructor stores the value it gets, once.
Constructed(id) == [id |-> id, value |-> 42]

\* The functions a contract made from the source answers to, with the arguments
\* they take: the env is the host's to give.
Exported == {f \in MethodsOf(source) : f.public}
Takes(f) == IF f.env THEN f.params - 1 ELSE f.params
Callable(call) == \E f \in Exported : f.name = call.function /\ Takes(f) = Len(call.args)

Succeeds(x) ==
    /\ x.seq = ledger.seq[x.account] + 1
    /\ x.op = "create" => ledger.code /\ \A c \in ledger.contracts : c.id # x.on
    /\ x.op = "invoke" => Callable(x.call) /\ \E c \in ledger.contracts : c.id = x.on

After(x) ==
    [ledger EXCEPT
        !.seq[x.account] = x.seq,
        !.code = @ \/ x.op = "upload",
        !.contracts = IF x.op = "create" THEN @ \cup {Constructed(x.on)} ELSE @,
        !.applied = @ \cup {x}]

\* Fault: a number that was used is taken for the transaction that used it.
NumberUsed(x) == x.seq <= ledger.seq[x.account]

\* The network is asked for the transaction by its hash: the very transaction
\* another run sent is confirmed to both.
Confirmed(x) == x \in ledger.applied

\* The answer: an error whether it took effect or not, or what the program goes
\* on from.
Answer(r) ==
    /\ run[r].tx # None /\ run[r].status = "running"
    /\ LET x == run[r].tx IN
       \/ /\ Succeeds(x) /\ ledger' = After(x)
          /\ run' = [run EXCEPT ![r].status = "Err"]
       \/ /\ UNCHANGED ledger
          /\ run' = [run EXCEPT ![r].status = "Err"]
       \/ /\ \/ Succeeds(x) /\ ledger' = After(x)
             \/ Confirmed(x) /\ UNCHANGED ledger
          /\ run' = [run EXCEPT ![r].tx = None, ![r].at = @ + 1,
                                ![r].contract = IF x.op = "create" THEN x.on ELSE @]
    /\ UNCHANGED <<given, signed>>

Next == \E r \in Runs :
    Guard(r) \/ MakeClient(r) \/ Answer(r) \/ \E o \in Ops : Prepare(r, o)

Spec == Init /\ [][Next]_vars
-----------------------------------------------------------------------------
Finished(r) == run[r].status = "running" /\ run[r].at > Len(Code(r))

Granted(r) == {Code(r)[i].guard.remaining : i \in {j \in DOMAIN Code(r) : Code(r)[j].do = "guard"}}

\* The guards a run has left: its client's, made with a clone of the account, or
\* those of its account.
Left(r) == IF run[r].client = None THEN run[r].guards ELSE run[r].client.guards

\* The budget a program gives its account is what the program needs, no call
\* more or less: "deployment consumes 2 calls (1 for upload wasm, 1 for create)"
\* (deploy.rs:29, deploy_and_invoke.rs:36); however a run ends, in an error or a
\* panic while arguments are converted, what is left and what was signed make up
\* what was granted.  invoke_contract.rs asks for a guard of another kind, which
\* refuses its only transaction and never loses any of its budget.
BudgetsFit ==
    \A r \in Runs :
        /\ \A n \in Granted(r) : \A i \in DOMAIN Left(r) : Left(r)[i].remaining + Len(signed[r]) = n
        /\ IF program[r] = "invoke_contract"
           THEN signed[r] = <<>> /\ ~Finished(r)
           ELSE /\ run[r].status # "Unauthorized"
                /\ Finished(r) => \A n \in Granted(r) : Len(signed[r]) = n

\* A run that deployed owns its contract, which was constructed with the value
\* it passed, and whose id no other run got; a client that follows calls that
\* one, however runs with the same key get into each other's way
\* (contract.rs:184-221, deploy_and_invoke.rs:61-67).
DeploysItsOwn ==
    \A r \in {q \in Runs : run[q].contract # None} :
        /\ \E c \in ledger.contracts : c.id = run[r].contract /\ c.value = 42
        /\ \A q \in Runs \ {r} : run[q].contract # run[r].contract
        /\ run[r].client # None => run[r].client.id = run[r].contract

\* A run goes on only after its transaction took effect: each one it signed but
\* the one it waits for or ended with is on the ledger, in the order of the
\* program, though other runs with the same key use sequence numbers up between
\* reading and sending.  A call among them was of a contract that exists and of a
\* public function of it, with the arguments that takes, though the client has
\* methods for private functions and loses the first argument of a function
\* without an env (rpc.rs:108-117, soroban-rs-macros lib.rs:103-175).
EachStepTookEffect ==
    \A r \in Runs : \A i \in DOMAIN signed[r] :
        i < Len(signed[r]) \/ run[r].tx = None =>
            LET x == signed[r][i] IN
            /\ x \in ledger.applied
            /\ i > 1 => signed[r][i - 1].seq < x.seq
            /\ x.op = "invoke" => Callable(x.call) /\ \E c \in ledger.contracts : c.id = x.on
=============================================================================
