------------------------- MODULE TransactionResults -------------------------
(***************************************************************************)
(* Responses of a network that upgrades from protocol 22 to 23 while       *)
(* callers have transactions on it, and what Parser and the getters of     *)
(* SorobanTransactionResponse find in them (parser.rs, response.rs).       *)
(*                                                                         *)
(* The ledger and the RPC server are external: a transaction closed under  *)
(* protocol 22 has V3 metadata for good, one closed under 23 has V4; the   *)
(* server may answer without metadata.                                     *)
(***************************************************************************)
EXTENDS ResponseParser, Integers

CONSTANTS
    Txs,
    ContractIds,
    Values,   \* what calls return
    Events,   \* the lists of events they emit
    Hash,     \* what the result of an InvokeHostFunction has instead
    Void      \* the value of a transaction that returns none

Kinds == {"invoke", "deploy", "upload", "extend", "setoptions"}

Address(id) == [type |-> "contract", data |-> id]
Data(v) == [type |-> "data", data |-> v]

VARIABLES
    protocol,   \* 22 or 23
    outcome,    \* what became of each transaction, or None
    response    \* the response its caller got, or None

resultsVars == <<protocol, outcome, response>>

\* A call may return the address of a contract as well as any other value.
ReturnsOf(kind) ==
    CASE kind = "invoke" -> {Data(v) : v \in Values} \cup {Address(id) : id \in ContractIds}
      [] kind = "deploy" -> {Address(id) : id \in ContractIds}
      [] kind = "upload" -> {Data(v) : v \in Values}
      [] OTHER -> {None}

Outcome == UNION {[kind : {kind}, ok : BOOLEAN, value : ReturnsOf(kind), events : Events,
                   version : {"V3", "V4"}] : kind \in Kinds}

RunsHostFunction(o) == o.kind \in {"invoke", "deploy", "upload"}

ResultsTypeOK ==
    /\ protocol \in {22, 23}
    /\ outcome \in [Txs -> Outcome \cup {None}]
    /\ \A x \in Txs : response[x] # None =>
          /\ outcome[x] # None
          /\ Parse("Deploy", response[x]).value \in ContractIds \cup {None, "TransactionFailed"}

ResultsInit ==
    /\ protocol = 22
    /\ outcome = [x \in Txs |-> None]
    /\ response = [x \in Txs |-> None]
-----------------------------------------------------------------------------
(***************************************************************************)
(* The network.                                                            *)
(***************************************************************************)
Execute(x) ==
    /\ outcome[x] = None
    /\ \E o \in Outcome :
          /\ o.version = IF protocol = 22 THEN "V3" ELSE "V4"
          /\ outcome' = [outcome EXCEPT ![x] = o]
    /\ UNCHANGED <<protocol, response>>

Upgrade ==
    /\ protocol = 22
    /\ protocol' = 23
    /\ UNCHANGED <<outcome, response>>

\* A V3 value is no Option; a failed transaction has no metadata of Soroban, or
\* some that holds diagnostics only.
SorobanMetas(o) ==
    LET NoValue == IF o.version = "V3" THEN Data(Void) ELSE None IN
    CASE o.kind = "setoptions" -> {None}
      [] o.kind # "setoptions" /\ ~o.ok -> {None, [value |-> NoValue, events |-> <<>>]}
      [] OTHER -> {[value |-> IF o.value = None THEN NoValue ELSE o.value, events |-> o.events]}

Metas(o) == [version : {o.version}, operations : {<<>>}, soroban : SorobanMetas(o)]

Result(o) == [ok |-> o.ok, operations |-> IF o.ok /\ RunsHostFunction(o) THEN <<Hash>> ELSE <<None>>]

\* None is nothing a response may hold: it is what an Option without a value is.
ASSUME ResultsAssumption ==
    \A o \in Outcome :
        /\ RunsHostFunction(o) => o.value # None
        /\ None \notin {Result(o), [value |-> o.value, events |-> o.events]}

Answer(x) ==
    /\ outcome[x] # None /\ response[x] = None
    /\ \E meta \in {None} \cup Metas(outcome[x]) :
           response' = [response EXCEPT ![x] = [result |-> Result(outcome[x]), meta |-> meta]]
    /\ UNCHANGED <<protocol, outcome>>

ResultsNext == Upgrade \/ \E x \in Txs : Execute(x) \/ Answer(x)

ResultsSpec == ResultsInit /\ [][ResultsNext]_resultsVars
-----------------------------------------------------------------------------
Answered == {x \in Txs : response[x] # None}
WithMeta == {x \in Answered : response[x].meta # None}

\* A parser never takes a failed transaction for a successful one, and finds in
\* a successful one the value the call returned, with the hash of its result at
\* hand or not (parser.rs:50-73, 103-109).
ParserFindsReturn ==
    \A x \in Answered :
        LET found == Parse("InvokeFunction", response[x]) IN
        /\ found.ok <=> outcome[x].ok
        /\ found.ok /\ x \in WithMeta /\ RunsHostFunction(outcome[x]) =>
               found.value = outcome[x].value

\* The upgrade of the network changes nothing for a caller: the same outcome
\* before and after it parses to the same contract and, for a host function,
\* the same value (parser.rs:139-151).
UpgradeChangesNoResult ==
    \A x, y \in WithMeta :
        /\ RunsHostFunction(outcome[x])
        /\ outcome[y] = [outcome[x] EXCEPT !.version = outcome[y].version]
        => \A type \in {"InvokeFunction", "Deploy"} :
               Parse(type, response[x]) = Parse(type, response[y])

\* What the getters return of a successful transaction is what the parser
\* returns for the same response, and the events its call emitted; of a host
\* function with metadata, what the parser finds is refused by the getters after
\* the upgrade of the network and never before (response.rs:34-71).
DecodersAgree ==
    \A x \in {y \in Answered : outcome[y].ok} :
        LET got == GetReturnValue(response[x])
            events == GetEvents(response[x])
        IN  /\ got.ok => Parse("InvokeFunction", response[x]) = got
            /\ got.ok <=> events.ok
            /\ events.ok => events.value = outcome[x].events
            /\ x \in WithMeta /\ RunsHostFunction(outcome[x]) =>
                   (got.ok <=> outcome[x].version = "V3")
=============================================================================
