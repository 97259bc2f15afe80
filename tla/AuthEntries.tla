---------------------------- MODULE AuthEntries -----------------------------
(***************************************************************************)
(* Authorization on behalf of a smart account:                             *)
(* simulate_transaction_with_auth and sign_auth_entry                      *)
(* (crates/soroban-rs/src/auth.rs), and the multisig contract that decides *)
(* on what they sign.                                                      *)
(*                                                                         *)
(* Clients run concurrently.  A call simulates its transaction to record   *)
(* the entries it needs, signs those of the smart account, and simulates   *)
(* again to have them enforced; its caller may send the result whenever it *)
(* likes, or never.  Meanwhile ledgers close, the account is deployed and  *)
(* nonces are used up.  A step goes from one await to the next.            *)
(*                                                                         *)
(* The host is outside this repository: it is modelled by the entries it   *)
(* records and by what it asks of an entry before and around __check_auth. *)
(***************************************************************************)
EXTENDS MultisigAccount

CONSTANTS
    Clients,
    Keys,
    Smart, Other,  \* addresses: the smart account, and one nobody here signs for
    Source,        \* the credentials that the transaction's own signature covers
    Calls,         \* contract calls
    Needs,         \* for each call, the credentials it asks for
    Plain,         \* an operation other than InvokeHostFunction
    Requests,      \* what simulate_transaction_with_auth may be called with
    Storages,      \* what the constructor may be called with
    Nonces,        \* the nonces a simulation may draw
    Void,          \* the signature of an entry nobody signed
    MaxLedger,     \* bound: ledgers
    MaxCalls       \* bound: calls per client

ASSUME AuthAssumption ==
    /\ Smart # Source /\ MaxLedger \in Nat \ {0} /\ MaxCalls \in Nat
    /\ Plain \notin Calls
    /\ Needs \in [Calls -> Seq({Smart, Other, Source})]
    /\ Requests \subseteq [ops : Seq(Calls \cup {Plain}), signers : Seq(Keys), until : Nat]
    /\ Storages \subseteq [signers : Seq(Keys), threshold : Nat]
    /\ NotInitialized \notin [signers : Seq(Keys), threshold : Nat]

VARIABLES
    pc,       \* "idle", "record", "enforce" or, with a result its caller holds, "returned"
    request,  \* [ops, signers, until]
    auth,     \* the entries attached to each operation
    calls,    \* how many calls it made
    \* The ledger
    storage,  \* of the smart account
    ledger,   \* its sequence number
    effects,  \* the address entries that took effect
    \* Auxiliary
    signed    \* what was signed, by which key

client == <<pc, request, auth, calls>>
vars == <<pc, request, auth, calls, storage, ledger, effects, signed>>

\* A nonce is [draw, op, entry]: entries of one simulation never share one.
Payload(e) == [nonce |-> e.nonce, until |-> e.until, call |-> e.call]
Signatures(e) == {[key |-> k, payload |-> Payload(e)] : k \in Keys}
KeysSigned(e) == IF e.cred = Smart THEN KeysOf(e.signature) ELSE {}

IsEntry(e) ==
    /\ e.cred \in {Source, Smart}
    /\ e.call \in Calls
    /\ e.cred = Smart => /\ e.until \in Nat
                         /\ KeysOf(e.signature) \subseteq Signatures(e)

TypeOK ==
    /\ pc \in [Clients -> {"idle", "record", "enforce", "returned"}]
    /\ calls \in [Clients -> 0..MaxCalls]
    /\ storage \in {NotInitialized} \cup Storages
    /\ ledger \in 1..MaxLedger
    /\ \A c \in Clients :
           /\ pc[c] # "idle" => request[c] \in Requests
           /\ \A j \in DOMAIN auth[c] : \A i \in DOMAIN auth[c][j] : IsEntry(auth[c][j][i])

NoRequest == [ops |-> <<>>, signers |-> <<>>, until |-> 0]

Init ==
    /\ pc = [c \in Clients |-> "idle"]
    /\ request = [c \in Clients |-> NoRequest]
    /\ auth = [c \in Clients |-> <<>>]
    /\ calls = [c \in Clients |-> 0]
    /\ storage = NotInitialized
    /\ ledger = 1
    /\ effects = {}
    /\ signed = {}
-----------------------------------------------------------------------------
(***************************************************************************)
(* The host.                                                               *)
(***************************************************************************)
\* The operations that invoke a contract, in order.
Invoked(ops) ==
    LET first[n \in 0..Len(ops)] ==
            IF n = 0 THEN <<>>
            ELSE IF ops[n] = Plain THEN first[n - 1]
                 ELSE Append(first[n - 1], ops[n])
    IN  first[Len(ops)]

\* The results of recording: for each call, in order, the entries it needs.
Recorded(ops, draw) ==
    [n \in DOMAIN Invoked(ops) |->
        LET call == Invoked(ops)[n] IN
        [i \in DOMAIN Needs[call] |->
            [cred |-> Needs[call][i], nonce |-> <<draw, n, i>>, until |-> 0,
             signature |-> Void, call |-> call]]]

\* Expired, replayed and unauthorized entries are refused.
Accepted(e) ==
    \/ e.cred = Source
    \/ /\ e.cred = Smart
       /\ ledger <= e.until
       /\ \A f \in effects : f.nonce # e.nonce
       /\ CheckAuth(storage, Payload(e), e.signature) = "Ok"

Entries(a) == UNION {{a[j][i] : i \in DOMAIN a[j]} : j \in DOMAIN a}
-----------------------------------------------------------------------------
(***************************************************************************)
(* sign_auth_entry and multisig_signature_scval.  The order of the         *)
(* signatures, by public key, is left out: __check_auth does not look at   *)
(* it.                                                                     *)
(***************************************************************************)
\* The entry with the signers' signatures of a payload.
WithSignatures(e, signers, until, payload) ==
    [cred |-> e.cred, nonce |-> e.nonce, until |-> until, call |-> e.call,
     signature |-> [i \in DOMAIN signers |-> [key |-> signers[i], payload |-> payload]]]

\* Fault: the digest is of the entry as simulation returned it.
SignBeforeExpiry(e, signers, until) ==
    IF e.cred = Smart THEN WithSignatures(e, signers, until, Payload(e)) ELSE e

SignAuthEntry(e, signers, until) ==
    IF e.cred = Smart
    THEN WithSignatures(e, signers, until, [nonce |-> e.nonce, until |-> until, call |-> e.call])
    ELSE e

\* Fault: every operation takes the first result.
FirstResult(ops, j) == 1

\* result_idx: results are counted by the operations that invoke.
ResultOf(ops, j) == Cardinality({i \in 1..j : ops[i] # Plain})

\* The results are as many as the operations that invoke.
HasResults(ops, results) ==
    \A j \in DOMAIN ops : ops[j] # Plain => ResultOf(ops, j) \in DOMAIN results

SignedAuth(req, results) ==
    [j \in DOMAIN req.ops |->
        IF req.ops[j] = Plain THEN <<>>
        ELSE LET entries == results[ResultOf(req.ops, j)]
             IN [i \in DOMAIN entries |-> SignAuthEntry(entries[i], req.signers, req.until)]]

\* Fault: nobody looks.
Unlooked(a) == FALSE

\* An entry that needs a signature from outside.
LacksSignature(a) == \E e \in Entries(a) : e.cred # Source /\ e.signature = Void
-----------------------------------------------------------------------------
(***************************************************************************)
(* simulate_transaction_with_auth.                                         *)
(***************************************************************************)
Call(c, req) ==
    /\ pc[c] \in {"idle", "returned"} /\ calls[c] < MaxCalls
    /\ pc' = [pc EXCEPT ![c] = "record"]
    /\ request' = [request EXCEPT ![c] = req]
    /\ auth' = [auth EXCEPT ![c] = <<>>]
    /\ calls' = [calls EXCEPT ![c] = @ + 1]
    /\ UNCHANGED <<storage, ledger, effects, signed>>

Fails(c) ==
    /\ pc' = [pc EXCEPT ![c] = "idle"]
    /\ request' = [request EXCEPT ![c] = NoRequest]
    /\ auth' = [auth EXCEPT ![c] = <<>>]
    /\ UNCHANGED <<calls, signed>>

\* Besides, the call fails when the request does, when it answers with an error,
\* or when its results do not decode.
Record(c) ==
    /\ pc[c] = "record"
    /\ \/ Fails(c)
       \/ \E draw \in Nonces :
              LET results == Recorded(request[c].ops, draw)
                  a == SignedAuth(request[c], results)
              IN /\ HasResults(request[c].ops, results)
                 /\ ~LacksSignature(a)
                 /\ auth' = [auth EXCEPT ![c] = a]
                 /\ signed' = signed \cup UNION {KeysSigned(e) : e \in Entries(a)}
                 /\ pc' = [pc EXCEPT ![c] = "enforce"]
                 /\ UNCHANGED <<request, calls>>
    /\ UNCHANGED <<storage, ledger, effects>>

\* Fault: an error in the answer is not looked at.
EnforceUnlooked(c) ==
    /\ pc[c] = "enforce"
    /\ \/ Fails(c)
       \/ pc' = [pc EXCEPT ![c] = "returned"] /\ UNCHANGED <<request, auth, calls, signed>>
    /\ UNCHANGED <<storage, ledger, effects>>

\* The host runs __check_auth; the call also fails when its fee leaves u32 or
\* the transaction data does not decode.
Enforce(c) ==
    /\ pc[c] = "enforce"
    /\ \/ Fails(c)
       \/ /\ \A e \in Entries(auth[c]) : Accepted(e)
          /\ pc' = [pc EXCEPT ![c] = "returned"]
          /\ UNCHANGED <<request, auth, calls, signed>>
    /\ UNCHANGED <<storage, ledger, effects>>
-----------------------------------------------------------------------------
\* The returned transaction, signed by its source, reaches the ledger: it takes
\* effect as a whole or not at all.
Land(c) ==
    /\ pc[c] = "returned"
    /\ \/ /\ \A e \in Entries(auth[c]) : Accepted(e)
          /\ effects' = effects \cup {e \in Entries(auth[c]) : e.cred # Source}
       \/ UNCHANGED effects
    /\ Fails(c)
    /\ UNCHANGED <<storage, ledger>>

Construct(st) ==
    /\ storage = NotInitialized
    /\ storage' = Constructed(st.signers, st.threshold)
    /\ UNCHANGED <<client, ledger, effects, signed>>

CloseLedger ==
    /\ ledger < MaxLedger
    /\ ledger' = ledger + 1
    /\ UNCHANGED <<client, storage, effects, signed>>

Next ==
    \/ \E c \in Clients :
           \/ \E req \in Requests : Call(c, req)
           \/ Record(c) \/ Enforce(c) \/ Land(c)
    \/ \E st \in Storages : Construct(st)
    \/ CloseLedger

Spec == Init /\ [][Next]_vars
-----------------------------------------------------------------------------
\* Whatever the clients sign and whenever it lands, a call takes effect for the
\* smart account only if at least `threshold` of its distinct signers signed
\* that call, with that nonce and that expiry (lib.rs:96-98, auth.rs:163-169).
Approvals(e) == {k \in KeysOf(storage.signers) : [key |-> k, payload |-> Payload(e)] \in signed}

EffectsAreApproved ==
    \A e \in effects : Cardinality(Approvals(e)) >= storage.threshold

\* What simulate_transaction_with_auth returned stays good: from then on only
\* time, or a nonce somebody else used up, can make the account refuse it
\* (auth.rs:286-291, the enforcing pass).
Unused(e) == \A f \in effects : f.nonce # e.nonce

ReturnedStaysGood ==
    \A c \in Clients : pc[c] = "returned" =>
        \A e \in Entries(auth[c]) : ledger <= e.until /\ Unused(e) => Accepted(e)

\* A returned transaction asks for nothing it does not carry: each operation
\* has the entries of its own call, in order, and nobody else has to sign
\* (auth.rs:244-283).
ReturnedIsComplete ==
    \A c \in Clients : pc[c] = "returned" =>
        \A j \in DOMAIN request[c].ops :
            IF request[c].ops[j] = Plain THEN auth[c][j] = <<>>
            ELSE /\ \A i \in DOMAIN auth[c][j] : auth[c][j][i].call = request[c].ops[j]
                 /\ [i \in DOMAIN auth[c][j] |-> auth[c][j][i].cred] = Needs[request[c].ops[j]]

\* A call made with enough signers of the account, each of them once, is not
\* refused for its signatures: what sign_auth_entry signs is what the account
\* is asked to verify (auth.rs:163-178, lib.rs:116-133).
Enough(signers) ==
    /\ \A i, j \in DOMAIN signers : signers[i] = signers[j] => i = j
    /\ KeysOf(signers) \subseteq KeysOf(storage.signers)
    /\ Len(signers) >= storage.threshold

EnoughSignersPass ==
    \A c \in Clients :
        pc[c] = "enforce" /\ storage # NotInitialized /\ Enough(request[c].signers) =>
            \A e \in Entries(auth[c]) : ledger <= e.until /\ Unused(e) => Accepted(e)
=============================================================================
