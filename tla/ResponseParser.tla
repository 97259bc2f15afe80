--------------------------- MODULE ResponseParser ---------------------------
(***************************************************************************)
(* What the library finds in a transaction's response: Parser (parser.rs)  *)
(* and the getters of SorobanTransactionResponse (response.rs), as pure    *)
(* operators.                                                              *)
(*                                                                         *)
(* A response has                                                          *)
(*   result  None or [ok, operations]: for each operation the hash an      *)
(*           InvokeHostFunction ends with, or None                         *)
(*   meta    None or [version, operations, soroban]: for each operation    *)
(*           its ledger changes, and None or [value, events]; the value is *)
(*           an Option from V4 on.                                         *)
(* A change is [kind, type, data]; an ScVal is [type, data].               *)
(***************************************************************************)
EXTENDS Integers, Sequences, SequencesExt

CONSTANT None

Ok(value) == [ok |-> TRUE, value |-> value]
Err(error) == [ok |-> FALSE, value |-> error]

CheckTxSuccess(response) == response.result # None /\ response.result.ok

\* Fault: the changes of the first operation.
FirstOperation(operations) == Head(operations)

LastOperation(operations) == Last(operations)

\* find_account: the last of the changes that updates an account.
FindAccount(changes) ==
    LET updates == {i \in DOMAIN changes : changes[i].kind = "updated" /\ changes[i].type = "account"}
    IN  IF updates = {} THEN None ELSE changes[CHOOSE i \in updates : \A j \in updates : j <= i].data

\* The account after the last operation.
ExtractAccountEntry(meta) ==
    IF meta.version \in {"V3", "V4"} /\ meta.operations # <<>>
    THEN FindAccount(LastOperation(meta.operations))
    ELSE None

\* Fault: as it was before protocol 23.
ReturnValueV3(meta) ==
    IF meta.version = "V3" /\ meta.soroban # None THEN meta.soroban.value ELSE None

ExtractReturnValue(meta) ==
    IF meta.version \in {"V3", "V4"} /\ meta.soroban # None THEN meta.soroban.value ELSE None

ReturnValue(response) ==
    IF response.meta = None THEN None ELSE ExtractReturnValue(response.meta)

\* The hash of a host function, as a Symbol.
ExtractOperationResult(hash) ==
    IF hash = None THEN None ELSE [type |-> "symbol", data |-> hash]

\* Fault: whatever is returned is the contract's id.
AnyReturnedId(value) == IF value # None THEN value.data ELSE None

ExtractContractId(value) ==
    IF value # None /\ value.type = "contract" THEN value.data ELSE None

OperationResult(response) ==
    IF response.result.operations = <<>> THEN None
    ELSE ExtractOperationResult(Head(response.result.operations))

\* Fault: the operation's result comes first.
InvokeFunctionFromResult(response) ==
    IF OperationResult(response) # None THEN OperationResult(response)
    ELSE ReturnValue(response)

InvokeFunction(response) ==
    IF ReturnValue(response) # None THEN ReturnValue(response)
    ELSE OperationResult(response)

\* Fault: the success of the transaction is not looked at.
ParseUnchecked(type, response) ==
    CASE type = "AccountSetOptions" ->
            Ok(IF response.meta = None THEN None ELSE ExtractAccountEntry(response.meta))
      [] type = "InvokeFunction" -> Ok(InvokeFunction(response))
      [] type = "Deploy" -> Ok(ExtractContractId(ReturnValue(response)))

Parse(type, response) ==
    IF ~CheckTxSuccess(response) THEN Err("TransactionFailed")
    ELSE CASE type = "AccountSetOptions" ->
                 Ok(IF response.meta = None THEN None ELSE ExtractAccountEntry(response.meta))
           [] type = "InvokeFunction" -> Ok(InvokeFunction(response))
           [] type = "Deploy" -> Ok(ExtractContractId(ReturnValue(response)))
-----------------------------------------------------------------------------
\* The getters of SorobanTransactionResponse read V3 only.
GetSorobanMeta(response) ==
    IF response.meta = None \/ response.meta.version # "V3" \/ response.meta.soroban = None
    THEN Err("InvalidArgument")
    ELSE Ok(response.meta.soroban)

GetReturnValue(response) ==
    LET meta == GetSorobanMeta(response) IN
    IF meta.ok THEN Ok(meta.value.value) ELSE meta

GetEvents(response) ==
    LET meta == GetSorobanMeta(response) IN
    IF meta.ok THEN Ok(meta.value.events) ELSE meta
=============================================================================
