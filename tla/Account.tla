------------------------------ MODULE Account -------------------------------
(***************************************************************************)
(* The accounts of crates/soroban-rs/src/account.rs: a list of signers and *)
(* a list of guards, which the guarded signing calls consult and debit.    *)
(*                                                                         *)
(* A handle is one Rust value of type Account.  Account is Clone and the   *)
(* guards are plain counters in it, so a clone is a second handle with     *)
(* budgets of its own.  A &mut Account is exclusive and no signing call    *)
(* awaits, so a call on a handle is one step; calls on different handles   *)
(* interleave.  Signing one payload cannot fail (its XDR is encoded        *)
(* without limits); what can fail is fitting the signatures in a VecM of   *)
(* 20.                                                                     *)
(*                                                                         *)
(* Callers keep returned envelopes in slots and may pass them on to be     *)
(* co-signed.                                                              *)
(***************************************************************************)
EXTENDS Guards, FiniteSets, FiniteSetsExt

CONSTANTS
    Handles,       \* Account values, each created at most once
    Signers,       \* ed25519 keys; a signature is named by its key
    SignerLists,   \* the lists given to Account::multisig
    MaxSignatures, \* VecM<DecoratedSignature, 20>
    Slots,         \* where callers keep envelopes
    Received,      \* envelopes that come from elsewhere
    ConfigTxs,     \* transactions of SetOptions operations only
    MaxGuards      \* bound: guards per handle

ASSUME AccountAssumption ==
    /\ SignerLists \subseteq Seq(Signers)
    /\ MaxSignatures \in Nat \ {0}
    /\ MaxGuards \in Nat
    /\ Received \subseteq [type : {"Tx", "Other"}, tx : Txs, signatures : Seq(Signers)]
    /\ \A e \in Received : Len(e.signatures) <= MaxSignatures
    /\ ConfigTxs \subseteq Txs
    /\ \A tx \in ConfigTxs, c \in Contracts : CallsIn[tx][c] = 0

VARIABLES
    status,   \* [Handles -> {"free", "live", "moved"}]
    signers,  \* account.signers
    guards,   \* account.guards
    held,     \* [Slots -> Envelope]
    result,   \* what the last call returned
    \* Auxiliary: the program does not keep them.
    released, \* the guarded signature the last step gave, if any
    book,     \* per guard: where it was added, its grant, what was authorized under it
    drawn,    \* per added guard: what all its copies authorized together
    collected \* per slot: the keys that signed its envelope so far

vars == <<status, signers, guards, held, result, released, book, drawn, collected>>

Envelope == [type : {"Tx", "Other"}, tx : Txs, signatures : Seq(Signers)]
Keys(sigs) == {sigs[i] : i \in DOMAIN sigs}
Errors == {"Unauthorized", "XdrEncodingFailed", "SigningFailed",
           "NetworkRequestFailed", "InvalidArgument", "NotSupported"}
Entry == [origin : Handles, granted : 0..MaxRemaining, spent : Nat]

TypeOK ==
    /\ status \in [Handles -> {"free", "live", "moved"}]
    /\ signers \in [Handles -> Seq(Signers)]
    /\ guards \in [Handles -> Seq(Guard)]
    /\ held \in [Slots -> Envelope]
    /\ result \in Errors \cup {"None", "Ok"}
    /\ released \in SUBSET [by : Handles, tx : Txs]
    /\ book \in [Handles -> Seq(Entry)]
    /\ drawn \in [Handles \X (1..MaxGuards) -> Nat]
    /\ collected \in [Slots -> SUBSET Signers]

Init ==
    /\ status = [h \in Handles |-> "free"]
    /\ signers = [h \in Handles |-> <<>>]
    /\ guards = [h \in Handles |-> <<>>]
    /\ held \in [Slots -> Received]
    /\ result = "None"
    /\ released = {}
    /\ book = [h \in Handles |-> <<>>]
    /\ drawn = [o \in Handles \X (1..MaxGuards) |-> 0]
    /\ collected = [k \in Slots |-> Keys(held[k].signatures)]
-----------------------------------------------------------------------------
(***************************************************************************)
(* Account::single, Account::multisig, add_guard and Clone                 *)
(***************************************************************************)
Create(h, ss) ==
    /\ status[h] = "free"
    /\ status' = [status EXCEPT ![h] = "live"]
    /\ signers' = [signers EXCEPT ![h] = ss]
    /\ result' = "None"
    /\ released' = {}
    /\ UNCHANGED <<guards, held, book, drawn, collected>>

Single(h, s) == Create(h, <<s>>)

Multisig(h, ss) == Create(h, ss)

AddGuard(h, g) ==
    /\ status[h] = "live"
    /\ Len(guards[h]) < MaxGuards
    /\ guards' = [guards EXCEPT ![h] = Append(@, g)]
    /\ book' = [book EXCEPT ![h] =
                   Append(@, [origin |-> h, granted |-> g.remaining, spent |-> 0])]
    /\ result' = "None"
    /\ released' = {}
    /\ UNCHANGED <<status, signers, held, drawn, collected>>

\* Fault: a clone starts with the guards it was granted, not with what is left.
CloneFresh(h, k) ==
    /\ status[h] = "live" /\ status[k] = "free"
    /\ status' = [status EXCEPT ![k] = "live"]
    /\ signers' = [signers EXCEPT ![k] = signers[h]]
    /\ guards' = [guards EXCEPT ![k] = [i \in DOMAIN guards[h] |->
                     [guards[h][i] EXCEPT !.remaining = book[h][i].granted]]]
    /\ book' = [book EXCEPT ![k] = book[h]]
    /\ result' = "None"
    /\ released' = {}
    /\ UNCHANGED <<held, drawn, collected>>

Clone(h, k) ==
    /\ status[h] = "live" /\ status[k] = "free"
    /\ status' = [status EXCEPT ![k] = "live"]
    /\ signers' = [signers EXCEPT ![k] = signers[h]]
    /\ guards' = [guards EXCEPT ![k] = guards[h]]
    /\ book' = [book EXCEPT ![k] = book[h]]
    /\ result' = "None"
    /\ released' = {}
    /\ UNCHANGED <<held, drawn, collected>>
-----------------------------------------------------------------------------
(***************************************************************************)
(* The outcomes of a signing call.                                         *)
(***************************************************************************)
Fail(error) ==
    /\ result' = error
    /\ released' = {}
    /\ UNCHANGED <<signers, guards, held, book, drawn, collected>>

\* What a transaction takes from the guard added to o at position i when h signs it.
DrawnBy(h, tx, o, i) ==
    IF i \in DOMAIN book[h] /\ book[h][i].origin = o THEN Cost(guards[h][i], tx) ELSE 0

\* The books of h after it signed the transaction.
Booked(h, tx) ==
    [i \in DOMAIN book[h] |-> [book[h][i] EXCEPT !.spent = @ + Cost(guards[h][i], tx)]]

\* A guarded call returns envelope e, made from one that the keys of `before`
\* had signed: the guards are updated, and the books record what the caller
\* now holds.
Release(h, before, e, k) ==
    /\ guards' = [guards EXCEPT ![h] = UpdateGuards(@, e.tx)]
    /\ held' = [held EXCEPT ![k] = e]
    /\ result' = "Ok"
    /\ released' = {[by |-> h, tx |-> e.tx]}
    /\ book' = [book EXCEPT ![h] = Booked(h, e.tx)]
    /\ drawn' = [o \in DOMAIN drawn |-> drawn[o] + DrawnBy(h, e.tx, o[1], o[2])]
    /\ collected' = [collected EXCEPT ![k] = before \cup Keys(signers[h])]
    /\ UNCHANGED signers

Tx(tx, sigs) == [type |-> "Tx", tx |-> tx, signatures |-> sigs]

\* sign_with_signers: what it refuses.
NoSigners(h) == signers[h] = <<>>
TooMany(sigs) == Len(sigs) > MaxSignatures

(***************************************************************************)
(* sign_transaction.  sign_with_tx has no check for an empty signer list.  *)
(***************************************************************************)
\* Fault: the guards are updated before the signatures are collected.
SignDebitFirst(h, tx, k) ==
    \/ ~CheckGuards(guards[h], tx) /\ Fail("Unauthorized")
    \/ /\ CheckGuards(guards[h], tx) /\ TooMany(signers[h])
       /\ guards' = [guards EXCEPT ![h] = UpdateGuards(@, tx)]
       /\ result' = "XdrEncodingFailed"
       /\ released' = {}
       /\ UNCHANGED <<signers, held, book, drawn, collected>>
    \/ /\ CheckGuards(guards[h], tx) /\ ~TooMany(signers[h])
       /\ Release(h, {}, Tx(tx, signers[h]), k)

Sign(h, tx, k) ==
    \/ ~CheckGuards(guards[h], tx) /\ Fail("Unauthorized")
    \/ CheckGuards(guards[h], tx) /\ TooMany(signers[h]) /\ Fail("XdrEncodingFailed")
    \/ /\ CheckGuards(guards[h], tx) /\ ~TooMany(signers[h])
       /\ Release(h, {}, Tx(tx, signers[h]), k)

SignTransaction(h, tx, k) ==
    /\ status[h] = "live"
    /\ Sign(h, tx, k)
    /\ UNCHANGED status

(***************************************************************************)
(* sign_transaction_envelope: adds the handle's signatures behind those    *)
(* the envelope has.                                                       *)
(***************************************************************************)
Cosigned(h, e) == Tx(e.tx, e.signatures \o signers[h])

\* Fault: the signatures the envelope came with are dropped.
SignEnvelopeAfresh(h, k) ==
    LET e == held[k] IN
    /\ status[h] = "live" /\ e.type = "Tx" /\ CheckGuards(guards[h], e.tx)
    /\ ~NoSigners(h) /\ ~TooMany(signers[h])
    /\ Release(h, collected[k], Tx(e.tx, signers[h]), k)
    /\ UNCHANGED status

SignTransactionEnvelope(h, k) ==
    LET e == held[k] IN
    /\ status[h] = "live"
    /\ \/ e.type # "Tx" /\ Fail("XdrEncodingFailed")
       \/ e.type = "Tx" /\ ~CheckGuards(guards[h], e.tx) /\ Fail("Unauthorized")
       \/ /\ e.type = "Tx" /\ CheckGuards(guards[h], e.tx)
          /\ \/ NoSigners(h) /\ Fail("SigningFailed")
             \/ /\ ~NoSigners(h) /\ TooMany(e.signatures \o signers[h])
                /\ Fail("XdrEncodingFailed")
             \/ /\ ~NoSigners(h) /\ ~TooMany(e.signatures \o signers[h])
                /\ Release(h, collected[k], Cosigned(h, e), k)
    /\ UNCHANGED status

(***************************************************************************)
(* sign_transaction_unsafe: signs past the guards.                         *)
(***************************************************************************)
SignTransactionUnsafe(h, tx, k) ==
    /\ status[h] = "live"
    /\ \/ NoSigners(h) /\ Fail("SigningFailed")
       \/ TooMany(signers[h]) /\ Fail("XdrEncodingFailed")
       \/ /\ ~NoSigners(h) /\ ~TooMany(signers[h])
          /\ held' = [held EXCEPT ![k] = Tx(tx, signers[h])]
          /\ result' = "Ok"
          /\ released' = {}
          /\ collected' = [collected EXCEPT ![k] = Keys(signers[h])]
          /\ UNCHANGED <<signers, guards, book, drawn>>
    /\ UNCHANGED status

(***************************************************************************)
(* configure takes the handle by value: whatever it returns, the handle is *)
(* gone.  It simulates (signing past the guards), then signs.              *)
(***************************************************************************)
Configure(h, tx, k) ==
    /\ status[h] = "live"
    /\ status' = [status EXCEPT ![h] = "moved"]
    /\ \/ Fail("XdrEncodingFailed")  \* the sequence number could not be read
       \/ NoSigners(h) /\ Fail("SigningFailed")
       \/ /\ ~NoSigners(h) /\ ~TooMany(signers[h])
          /\ \/ \E error \in {"NetworkRequestFailed", "InvalidArgument", "NotSupported"} :
                   Fail(error)
             \/ Sign(h, tx, k)
-----------------------------------------------------------------------------
Next ==
    \E h \in Handles :
        \/ \E s \in Signers : Single(h, s)
        \/ \E ss \in SignerLists : Multisig(h, ss)
        \/ \E g \in Guard : AddGuard(h, g)
        \/ \E k \in Handles : Clone(h, k)
        \/ \E k \in Slots :
               \/ \E tx \in Txs : SignTransaction(h, tx, k) \/ SignTransactionUnsafe(h, tx, k)
               \/ SignTransactionEnvelope(h, k)
               \/ \E tx \in ConfigTxs : Configure(h, tx, k)

Spec == Init /\ [][Next]_vars
-----------------------------------------------------------------------------
(***************************************************************************)
(* Properties                                                              *)
(***************************************************************************)
\* Along the life of a handle, clones of a partly spent one included, what a
\* guard has left and what was authorized under it add up to its grant: no
\* error path of check, sign, update loses budget and none gives any away
\* (guard.rs check and update, called in account.rs:524-591).
BudgetConserved ==
    \A h \in Handles :
        /\ DOMAIN book[h] = DOMAIN guards[h]
        /\ \A i \in DOMAIN guards[h] :
               guards[h][i].remaining + book[h][i].spent = book[h][i].granted

\* The guards of a handle move together or not at all.  A step that gives a
\* guarded signature takes from every guard of that handle exactly what the
\* transaction costs, never nothing; any other step, a refused or failed call
\* or an unsafe signature included, changes no budget (account.rs:421-424 "all
\* guards must pass", and the update after the signatures in
\* account.rs:535-536, 579-585).
DebitAllOrNone ==
    [][\A h \in Handles : \A i \in DOMAIN guards[h] :
           LET paid == guards[h][i].remaining - guards'[h][i].remaining
           IN IF \E r \in released' : r.by = h
              THEN \E r \in released' :
                       r.by = h /\ paid = Cost(guards[h][i], r.tx) /\ paid > 0
              ELSE paid = 0]_vars

\* A clone copies the counters (derive(Clone), guard.rs:24), so the copies of a
\* guard have together authorized, and may still authorize, at most its grant
\* once per handle that has a copy.
Holders(o, i) == {h \in Handles : i \in DOMAIN book[h] /\ book[h][i].origin = o}
Left(o, i) == MapThenSumSet(LAMBDA h : guards[h][i].remaining, Holders(o, i))

DrawBoundedByCopies ==
    \A o \in Handles : \A i \in DOMAIN book[o] :
        book[o][i].origin = o =>
            drawn[<<o, i>>] + Left(o, i) <= book[o][i].granted * Cardinality(Holders(o, i))

\* An envelope passed round for co-signing carries the signatures of every
\* account that signed it and of nobody else, and never more than the 20 a
\* TransactionV1Envelope holds (account.rs:574-590).
SignaturesCollected ==
    \A k \in Slots :
        /\ Keys(held[k].signatures) = collected[k]
        /\ Len(held[k].signatures) <= MaxSignatures
=============================================================================
