--------------------------- MODULE AuthCosigning ----------------------------
(***************************************************************************)
(* sign_auth_entry called on its own (crates/soroban-rs/src/auth.rs):      *)
(* the entries of one recorded call are handed around between places, each *)
(* of which has some signers and signs entries of some accounts, one by    *)
(* one, with an expiry and a network of its choice.  What comes together   *)
(* somewhere is sent to the network.                                       *)
(*                                                                         *)
(* sign_auth_entry keeps no state; the places, and what they pass on, are  *)
(* its callers.  AuthEntries has the calls simulate_transaction_with_auth  *)
(* makes of it.  Public keys are numbers.                                  *)
(***************************************************************************)
EXTENDS MultisigAccount

CONSTANTS
    Places,
    Addresses,  \* of smart accounts
    Storage,    \* what each of them stores
    Source,     \* the credentials that the transaction's own signature covers
    Needs,      \* the credentials of the entries the call asks for
    Keyrings,   \* the signers a place may call with, in any order
    Nets,
    Here,       \* the network it is sent to
    Void,       \* the signature of an entry nobody signed
    MaxLedger,  \* bound: ledgers
    MaxDraws,   \* bound: recordings
    MaxCalls    \* bound: different calls of sign_auth_entry that sign

ASSUME CosigningAssumption ==
    /\ Source \notin Addresses
    /\ Needs \in Seq(Addresses \cup {Source})
    /\ \A r \in Keyrings : r \in Seq(Nat)
    /\ \A a \in Addresses : /\ Storage[a].signers \in Seq(Nat) /\ Storage[a].threshold \in Nat
                            /\ Storage[a] # NotInitialized
    /\ Here \in Nets /\ MaxLedger \in Nat \ {0} /\ MaxDraws \in Nat
    /\ Void \notin Seq([key : Nat, payload : [net : Nets, nonce : Nat \X Nat, until : Nat]])

VARIABLES
    held,     \* the entries each place has
    draws,    \* how many recordings there were
    ledger,
    effects,  \* the address entries that took effect
    calls     \* auxiliary: the calls of sign_auth_entry that signed

vars == <<held, draws, ledger, effects, calls>>

Expiries == 1..MaxLedger

TypeOK ==
    /\ draws \in 0..MaxDraws
    /\ ledger \in 1..MaxLedger
    /\ DOMAIN held = Places
    /\ \A p \in Places : \A i \in DOMAIN held[p] :
           LET e == held[p][i] IN
           /\ e.cred = Needs[i] /\ e.nonce \in (1..draws) \X {i}
           /\ e.until \in {0} \cup Expiries
           /\ e.signature # Void => e.cred # Source

Init ==
    /\ held = [p \in Places |-> <<>>]
    /\ draws = 0
    /\ ledger = 1
    /\ effects = {}
    /\ calls = {}
-----------------------------------------------------------------------------
Payload(net, nonce, until) == [net |-> net, nonce |-> nonce, until |-> until]

(***************************************************************************)
(* multisig_signature_scval: one signature for each signer, by public key. *)
(***************************************************************************)
Reorderings(s) ==
    {f \in [DOMAIN s -> DOMAIN s] : \A i, j \in DOMAIN s : f[i] = f[j] => i = j}

\* Fault: the signers stay in the order given.
AsGiven(s) == {s}

Sorted(s) ==
    {t \in {[i \in DOMAIN s |-> s[f[i]]] : f \in Reorderings(s)} :
        \A i, j \in DOMAIN t : i <= j => t[i] <= t[j]}

MultisigSignature(sorted, payload) ==
    [i \in DOMAIN sorted |-> [key |-> sorted[i], payload |-> payload]]

\* Fault: the signatures are added to those the entry has.
SignAppended(e, account, sorted, until, net) ==
    IF e.cred = Source \/ e.cred # account THEN e
    ELSE [e EXCEPT !.until = until,
                   !.signature = (IF @ = Void THEN <<>> ELSE @)
                                 \o MultisigSignature(sorted, Payload(net, e.nonce, until))]

\* Fault: an entry that has an expiry keeps it.
SignKeepsExpiry(e, account, sorted, until, net) ==
    IF e.cred = Source \/ e.cred # account THEN e
    ELSE [e EXCEPT !.until = IF @ = 0 THEN until ELSE @,
                   !.signature = MultisigSignature(sorted, Payload(net, e.nonce, until))]

SignAuthEntry(e, account, sorted, until, net) ==
    IF e.cred = Source \/ e.cred # account THEN e
    ELSE [e EXCEPT !.until = until,
                   !.signature = MultisigSignature(sorted, Payload(net, e.nonce, until))]

\* A place has an entry signed, with what it knows.
Sign(p, i, account, signers, until, net) ==
    /\ i \in DOMAIN held[p] /\ Cardinality(calls) < MaxCalls
    /\ \E sorted \in Sorted(signers) :
           held' = [held EXCEPT ![p][i] = SignAuthEntry(@, account, sorted, until, net)]
    /\ calls' = IF held[p][i].cred # account THEN calls
                ELSE calls \cup {[account |-> account, nonce |-> held[p][i].nonce,
                                  signers |-> signers, until |-> until, net |-> net]}
    /\ UNCHANGED <<draws, ledger, effects>>
-----------------------------------------------------------------------------
(***************************************************************************)
(* The callers and the network.                                            *)
(***************************************************************************)
\* A recording simulation.
Record(p) ==
    /\ draws < MaxDraws
    /\ draws' = draws + 1
    /\ held' = [held EXCEPT ![p] = [i \in DOMAIN Needs |->
           [cred |-> Needs[i], nonce |-> <<draws + 1, i>>, until |-> 0, signature |-> Void]]]
    /\ UNCHANGED <<ledger, effects, calls>>

\* Place q puts entries of p in place of its own.
Pass(p, q, which) ==
    /\ DOMAIN held[p] = DOMAIN Needs
    /\ which = DOMAIN Needs \/ DOMAIN held[q] = DOMAIN Needs
    /\ held' = [held EXCEPT ![q] = [i \in DOMAIN Needs |->
           IF i \in which THEN held[p][i] ELSE held[q][i]]]
    /\ UNCHANGED <<draws, ledger, effects, calls>>

Accepted(e) ==
    \/ e.cred = Source
    \/ /\ e.cred \in Addresses
       /\ e.signature # Void
       /\ ledger <= e.until
       /\ \A f \in effects : f.nonce # e.nonce
       /\ CheckAuth(Storage[e.cred], Payload(Here, e.nonce, e.until), e.signature) = "Ok"

Land(p) ==
    /\ DOMAIN held[p] = DOMAIN Needs
    /\ \A i \in DOMAIN held[p] : Accepted(held[p][i])
    /\ effects' = effects \cup {held[p][i] : i \in {j \in DOMAIN held[p] : held[p][j].cred # Source}}
    /\ UNCHANGED <<held, draws, ledger, calls>>

CloseLedger ==
    /\ ledger < MaxLedger
    /\ ledger' = ledger + 1
    /\ UNCHANGED <<held, draws, effects, calls>>

Next ==
    \/ \E p \in Places :
          \/ Record(p) \/ Land(p)
          \/ \E q \in Places, which \in SUBSET DOMAIN Needs : Pass(p, q, which)
          \/ \E i \in DOMAIN Needs, a \in Addresses, r \in Keyrings, u \in Expiries, n \in Nets :
                Sign(p, i, a, r, u, n)
    \/ CloseLedger

Spec == Init /\ [][Next]_vars
-----------------------------------------------------------------------------
\* However often and wherever an entry was signed, each of its signatures is of
\* its own nonce and the expiry it carries, all for one network
\* (auth.rs:163-179).
SignedOverItself ==
    \A p \in Places : \A i \in DOMAIN held[p] : held[p][i].signature # Void =>
        \E n \in Nets : \A s \in KeysOf(held[p][i].signature) :
            s.payload = Payload(n, held[p][i].nonce, held[p][i].until)

\* What an entry carries is the work of one call for its own account, its keys
\* in ascending order, a key given twice being there twice: an entry of another
\* account passes through (auth.rs:156-161, 86-121).
Makes(c, e) ==
    /\ c.account = e.cred /\ c.nonce = e.nonce /\ c.until = e.until
    /\ Len(e.signature) = Len(c.signers)
    /\ KeysOf(c.signers) = {s.key : s \in KeysOf(e.signature)}
    /\ \A i, j \in DOMAIN e.signature : i <= j => e.signature[i].key <= e.signature[j].key

SignedForItsAccount ==
    \A p \in Places : \A i \in DOMAIN held[p] : held[p][i].signature # Void =>
        \E c \in calls : Makes(c, held[p][i])

\* Signatures are not collected across calls: what takes effect for an account
\* was approved within one call of sign_auth_entry, whose signers are distinct
\* signers of that account and meet its threshold, for this network (the call
\* without signers that a threshold of zero asks for signs for none)
\* (auth.rs:169-179, which replaces what was there; lib.rs:116-133).
Approves(c, e) ==
    /\ c.account = e.cred /\ c.nonce = e.nonce /\ c.until = e.until
    /\ c.signers # <<>> => c.net = Here
    /\ \A i, j \in DOMAIN c.signers : c.signers[i] = c.signers[j] => i = j
    /\ KeysOf(c.signers) \subseteq KeysOf(Storage[e.cred].signers)
    /\ Len(c.signers) >= Storage[e.cred].threshold

AuthorizedInOneCall == \A e \in effects : \E c \in calls : Approves(c, e)
=============================================================================
