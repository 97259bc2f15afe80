------------------------- MODULE AuthEntries_proofs -------------------------
(***************************************************************************)
(* Proofs about AuthEntries: nothing takes effect for the smart account    *)
(* without its threshold, and what a call returned is complete and stays   *)
(* good.                                                                   *)
(***************************************************************************)
EXTENDS AuthEntries, FiniteSetTheorems, WellFoundedInduction, TLAPS

-----------------------------------------------------------------------------
(***************************************************************************)
(* Signers and signatures.                                                 *)
(***************************************************************************)
\* A payload that __check_auth lets pass: the contract is initialized, and the
\* signatures are of that payload, by registered signers, each of them once,
\* as many as the threshold (lib.rs:99-134).
LEMMA CheckAuthPasses ==
    ASSUME NEW st, NEW payload, NEW sigs, CheckAuth(st, payload, sigs) = "Ok"
    PROVE  /\ st # NotInitialized
           /\ \A i \in DOMAIN sigs :
                  /\ sigs[i].key \in KeysOf(st.signers)
                  /\ sigs[i].payload = payload
                  /\ \A j \in 1..(i - 1) : sigs[j].key # sigs[i].key
           /\ ~(Len(sigs) < st.threshold)
<1>1. st # NotInitialized
    BY DEF CheckAuth
<1>2. Stops(st, payload, sigs) = {}
    <2>1. SUFFICES ASSUME Stops(st, payload, sigs) # {} PROVE FALSE
        OBVIOUS
    <2>2. CheckAuth(st, payload, sigs) = Refusal(st, payload, sigs)
        BY <1>1, <2>1 DEF CheckAuth
    <2>3. Refusal(st, payload, sigs) # "Ok"
        BY DEF Refusal
    <2> QED BY <2>2, <2>3
<1>3. CheckAuth(st, payload, sigs) =
          IF Len(sigs) < st.threshold THEN "InsufficientSignatures" ELSE "Ok"
    BY <1>1, <1>2 DEF CheckAuth
<1>4. ~(Len(sigs) < st.threshold)
    BY <1>3
<1>5. \A i \in DOMAIN sigs : ~(UnknownAt(st, sigs, i) \/ SeenAt(sigs, i) \/ TrapsAt(payload, sigs, i))
    BY <1>2 DEF Stops
<1> QED BY <1>1, <1>4, <1>5 DEF UnknownAt, SeenAt, TrapsAt

\* The signers of a list are finitely many.
LEMMA KeysOfFinite ==
    ASSUME NEW ss \in Seq(Keys)
    PROVE  IsFiniteSet(KeysOf(ss))
<1>1. IsFiniteSet(1..Len(ss))
    BY FS_Interval
<1>2. DOMAIN ss = 1..Len(ss)
    OBVIOUS
<1>3. ss \in Surjection(1..Len(ss), KeysOf(ss))
    BY <1>2 DEF Surjection, KeysOf
<1> QED BY <1>1, <1>3, FS_Surjection

\* Signatures with distinct keys have as many keys as there are signatures.
LEMMA DistinctKeysCount ==
    ASSUME NEW S, NEW sigs \in Seq(S),
           \A i \in DOMAIN sigs : \A j \in 1..(i - 1) : sigs[j].key # sigs[i].key
    PROVE  Cardinality({sigs[i].key : i \in DOMAIN sigs}) = Len(sigs)
<1> DEFINE K == {sigs[i].key : i \in DOMAIN sigs}
           f == [i \in 1..Len(sigs) |-> sigs[i].key]
<1>1. DOMAIN sigs = 1..Len(sigs) /\ Len(sigs) \in Nat
    OBVIOUS
<1>2. \A i, j \in 1..Len(sigs) : f[i] = f[j] => i = j
    <2>1. \A i, j \in 1..Len(sigs) : j < i => sigs[j].key # sigs[i].key
        BY <1>1
    <2>2. \A i, j \in 1..Len(sigs) : i # j => i < j \/ j < i
        BY <1>1
    <2> QED BY <2>1, <2>2
<1>3. f \in Bijection(1..Len(sigs), K)
    BY <1>1, <1>2 DEF Bijection, Injection, Surjection, IsInjective
<1>4. IsFiniteSet(1..Len(sigs)) /\ Cardinality(1..Len(sigs)) = Len(sigs)
    BY <1>1, FS_Interval
<1>5. ExistsBijection(1..Len(sigs), K)
    BY <1>3 DEF ExistsBijection
<1>6. Cardinality(K) = Len(sigs)
    BY <1>4, <1>5, FS_Bijection
<1> QED BY <1>6
-----------------------------------------------------------------------------
(***************************************************************************)
(* The invariant.                                                          *)
(***************************************************************************)
\* An attached entry of the smart account carries signatures of its own
\* payload, and every one of them was given.
SignedAsCarried(e) ==
    e.cred = Smart => e.signature \in Seq(Signatures(e)) /\ KeysOf(e.signature) \subseteq signed

\* The account has verified the entry, or need not.
Verified(e) ==
    \/ e.cred = Source
    \/ e.cred = Smart /\ CheckAuth(storage, Payload(e), e.signature) = "Ok"

Shape ==
    /\ DOMAIN pc = Clients /\ DOMAIN request = Clients /\ DOMAIN auth = Clients
    /\ storage = NotInitialized \/ storage \in [signers : Seq(Keys), threshold : Nat]
    /\ \A c \in Clients : pc[c] = "record" => request[c] \in Requests

EntriesAreSigned == \A c \in Clients : \A e \in Entries(auth[c]) : SignedAsCarried(e)

ReturnedIsVerified ==
    \A c \in Clients : pc[c] = "returned" => \A e \in Entries(auth[c]) : Verified(e)

NoEffectBefore == storage = NotInitialized => effects = {}

IInv ==
    /\ Shape
    /\ EntriesAreSigned
    /\ ReturnedIsVerified
    /\ NoEffectBefore
    /\ EffectsAreApproved

LEMMA EntryOf ==
    ASSUME NEW a, NEW e \in Entries(a)
    PROVE  \E j \in DOMAIN a : \E i \in DOMAIN a[j] : e = a[j][i]
BY DEF Entries

LEMMA NoEntries == Entries(<<>>) = {}
BY DEF Entries

\* What sign_auth_entry gives for the smart account is signed by the signers it
\* was given, and carries nothing else (auth.rs:149-180).
LEMMA SignedByRequest ==
    ASSUME NEW e, NEW signers \in Seq(Keys), NEW until,
           SignAuthEntry(e, signers, until).cred = Smart
    PROVE  SignAuthEntry(e, signers, until).signature
               \in Seq(Signatures(SignAuthEntry(e, signers, until)))
<1>1. e.cred = Smart
    BY DEF SignAuthEntry
<1> DEFINE p == [nonce |-> e.nonce, until |-> until, call |-> e.call]
           s == WithSignatures(e, signers, until, p)
<1>2. SignAuthEntry(e, signers, until) = s
    BY <1>1 DEF SignAuthEntry
<1>3. s.signature = [i \in DOMAIN signers |-> [key |-> signers[i], payload |-> p]]
    BY DEF WithSignatures
<1>4. Payload(s) = p
    BY DEF Payload, WithSignatures
<1>5. \A i \in DOMAIN signers : [key |-> signers[i], payload |-> p] \in Signatures(s)
    BY <1>4 DEF Signatures
<1>6. s.signature \in Seq(Signatures(s))
    BY <1>3, <1>5
<1> QED BY <1>2, <1>6

\* An entry the account accepted has the approvals it needs.
LEMMA VerifiedIsApproved ==
    ASSUME NEW e, e.cred = Smart, SignedAsCarried(e),
           storage = NotInitialized \/ storage \in [signers : Seq(Keys), threshold : Nat],
           CheckAuth(storage, Payload(e), e.signature) = "Ok"
    PROVE  storage # NotInitialized /\ Cardinality(Approvals(e)) >= storage.threshold
<1> DEFINE sigs == e.signature
           K == {sigs[i].key : i \in DOMAIN sigs}
<1>1. /\ storage # NotInitialized
      /\ \A i \in DOMAIN sigs :
             /\ sigs[i].key \in KeysOf(storage.signers)
             /\ sigs[i].payload = Payload(e)
             /\ \A j \in 1..(i - 1) : sigs[j].key # sigs[i].key
      /\ ~(Len(sigs) < storage.threshold)
    BY CheckAuthPasses
<1>2. storage.signers \in Seq(Keys) /\ storage.threshold \in Nat
    BY <1>1
<1>3. sigs \in Seq(Signatures(e)) /\ KeysOf(sigs) \subseteq signed
    BY DEF SignedAsCarried
<1>4. Cardinality(K) = Len(sigs)
    BY <1>1, <1>3, DistinctKeysCount
<1>5. K \subseteq Approvals(e)
    <2> SUFFICES ASSUME NEW i \in DOMAIN sigs PROVE sigs[i].key \in Approvals(e)
        OBVIOUS
    <2>1. sigs[i] \in signed /\ sigs[i] \in Signatures(e)
        BY <1>3 DEF KeysOf
    <2>2. sigs[i] = [key |-> sigs[i].key, payload |-> Payload(e)]
        BY <2>1, <1>1 DEF Signatures
    <2> QED BY <1>1, <2>1, <2>2 DEF Approvals
<1>6. IsFiniteSet(Approvals(e))
    <2>1. IsFiniteSet(KeysOf(storage.signers))
        BY <1>2, KeysOfFinite
    <2>2. Approvals(e) \in SUBSET KeysOf(storage.signers)
        BY DEF Approvals
    <2> QED BY <2>1, <2>2, FS_Subset
<1>7. Cardinality(K) <= Cardinality(Approvals(e)) /\ Cardinality(Approvals(e)) \in Nat
    BY <1>5, <1>6, FS_Subset, FS_CardinalityType
<1>8. Len(sigs) \in Nat
    BY <1>3
<1> QED BY <1>1, <1>2, <1>4, <1>7, <1>8
-----------------------------------------------------------------------------
(***************************************************************************)
(* The steps.                                                              *)
(***************************************************************************)
\* Effects keep their approvals when signatures are only added.
LEMMA ApprovalsStay ==
    ASSUME IInv, UNCHANGED <<storage, effects>>, signed \subseteq signed'
    PROVE  NoEffectBefore' /\ EffectsAreApproved'
<1>1. NoEffectBefore'
    BY DEF IInv, NoEffectBefore
<1>2. EffectsAreApproved'
    <2> SUFFICES ASSUME NEW e \in effects
                 PROVE  Cardinality(Approvals(e)') >= storage.threshold
        BY DEF EffectsAreApproved
    <2>1. Cardinality(Approvals(e)) >= storage.threshold
        BY DEF IInv, EffectsAreApproved
    <2>2. storage \in [signers : Seq(Keys), threshold : Nat]
        BY DEF IInv, Shape, NoEffectBefore
    <2>3. IsFiniteSet(KeysOf(storage.signers))
        BY <2>2, KeysOfFinite
    <2>4. Approvals(e)' \in SUBSET KeysOf(storage.signers)
        BY DEF Approvals
    <2>5. IsFiniteSet(Approvals(e)')
        BY <2>3, <2>4, FS_Subset
    <2>6. Approvals(e) \in SUBSET (Approvals(e)')
        BY DEF Approvals
    <2>7. /\ Cardinality(Approvals(e)) <= Cardinality(Approvals(e)')
          /\ IsFiniteSet(Approvals(e))
        BY <2>5, <2>6, FS_Subset
    <2>8. Cardinality(Approvals(e)) \in Nat /\ Cardinality(Approvals(e)') \in Nat
        BY <2>5, <2>7, FS_CardinalityType
    <2>9. storage.threshold \in Nat
        BY <2>2
    <2> QED BY <2>1, <2>7, <2>8, <2>9
<1> QED BY <1>1, <1>2

\* A call that ends, or one that begins, drops the entries it had.
LEMMA DroppingKeepsIInv ==
    ASSUME IInv, NEW c \in Clients,
           DOMAIN pc' = Clients, DOMAIN request' = Clients,
           pc'[c] = "idle" \/ (pc'[c] = "record" /\ request'[c] \in Requests),
           \A d \in Clients \ {c} : pc'[d] = pc[d] /\ request'[d] = request[d],
           auth' = [auth EXCEPT ![c] = <<>>],
           UNCHANGED <<storage, signed>>
    PROVE  Shape' /\ EntriesAreSigned' /\ ReturnedIsVerified'
<1>1. Shape'
    BY DEF IInv, Shape
<1>2. \A d \in Clients : Entries(auth'[d]) \subseteq Entries(auth[d])
    BY NoEntries DEF IInv, Shape
<1>3. EntriesAreSigned'
    BY <1>2 DEF IInv, EntriesAreSigned, SignedAsCarried
<1>4. \A d \in Clients : pc'[d] = "returned" => pc[d] = "returned"
    BY DEF IInv, Shape
<1>5. ReturnedIsVerified'
    BY <1>2, <1>4 DEF IInv, ReturnedIsVerified, Verified
<1> QED BY <1>1, <1>3, <1>5

LEMMA CallKeepsIInv ==
    ASSUME IInv, NEW c \in Clients, NEW req \in Requests, Call(c, req)
    PROVE  IInv'
<1>1. Shape' /\ EntriesAreSigned' /\ ReturnedIsVerified'
    BY DroppingKeepsIInv DEF Call, IInv, Shape
<1>2. NoEffectBefore' /\ EffectsAreApproved'
    BY ApprovalsStay DEF Call
<1> QED BY <1>1, <1>2 DEF IInv

LEMMA FailsDrops ==
    ASSUME IInv, NEW c \in Clients, Fails(c), UNCHANGED storage
    PROVE  Shape' /\ EntriesAreSigned' /\ ReturnedIsVerified'
BY DroppingKeepsIInv DEF Fails, IInv, Shape

LEMMA FailsKeepsIInv ==
    ASSUME IInv, NEW c \in Clients, Fails(c), UNCHANGED <<storage, effects>>
    PROVE  IInv'
<1>1. signed \subseteq signed'
    BY DEF Fails
<1> QED BY <1>1, FailsDrops, ApprovalsStay DEF IInv

\* Every entry of the smart account that signing attaches is signed.
LEMMA AttachedIsSigned ==
    ASSUME NEW req \in Requests, NEW results,
           NEW e \in Entries(SignedAuth(req, results)), e.cred = Smart
    PROVE  e.signature \in Seq(Signatures(e))
<1>1. req.signers \in Seq(Keys)
    BY AuthAssumption
<1>2. PICK j \in DOMAIN SignedAuth(req, results) :
          \E i \in DOMAIN SignedAuth(req, results)[j] : e = SignedAuth(req, results)[j][i]
    BY EntryOf
<1>3. PICK i \in DOMAIN SignedAuth(req, results)[j] : e = SignedAuth(req, results)[j][i]
    BY <1>2
<1>4. \E f : e = SignAuthEntry(f, req.signers, req.until)
    BY <1>2, <1>3 DEF SignedAuth
<1> QED BY <1>1, <1>4, SignedByRequest

LEMMA RecordKeepsIInv ==
    ASSUME IInv, NEW c \in Clients, Record(c)
    PROVE  IInv'
<1>1. CASE Fails(c)
    BY <1>1, FailsKeepsIInv DEF Record
<1>2. CASE ~Fails(c)
    <2>1. PICK draw \in Nonces :
              LET a == SignedAuth(request[c], Recorded(request[c].ops, draw))
              IN /\ auth' = [auth EXCEPT ![c] = a]
                 /\ signed' = signed \cup UNION {KeysSigned(e) : e \in Entries(a)}
                 /\ pc' = [pc EXCEPT ![c] = "enforce"]
                 /\ UNCHANGED <<request, calls>>
        BY <1>2 DEF Record
    <2> DEFINE a == SignedAuth(request[c], Recorded(request[c].ops, draw))
    <2>2. pc[c] = "record" /\ UNCHANGED <<storage, effects>> /\ request[c] \in Requests
        BY DEF Record, IInv, Shape
    <2>3. signed \subseteq signed'
        BY <2>1
    <2>4. \A e \in Entries(a) : e.cred = Smart => e.signature \in Seq(Signatures(e))
        BY <2>2, AttachedIsSigned
    <2>5. \A e \in Entries(a) : e.cred = Smart => KeysOf(e.signature) \subseteq signed'
        BY <2>1 DEF KeysSigned
    <2>6. auth'[c] = a /\ \A d \in Clients \ {c} : auth'[d] = auth[d]
        BY <2>1 DEF IInv, Shape
    <2>7. Shape'
        BY <2>1, <2>2 DEF IInv, Shape
    <2>8. EntriesAreSigned'
        <3> SUFFICES ASSUME NEW d \in Clients, NEW e \in Entries(auth'[d])
                     PROVE  SignedAsCarried(e)'
            BY DEF EntriesAreSigned
        <3>1. CASE d = c
            BY <3>1, <2>4, <2>5, <2>6 DEF SignedAsCarried
        <3>2. CASE d # c
            BY <3>2, <2>3, <2>6 DEF IInv, EntriesAreSigned, SignedAsCarried
        <3> QED BY <3>1, <3>2
    <2>9. ReturnedIsVerified'
        <3> SUFFICES ASSUME NEW d \in Clients, pc'[d] = "returned", NEW e \in Entries(auth'[d])
                     PROVE  Verified(e)'
            BY DEF ReturnedIsVerified
        <3>1. d # c /\ pc[d] = "returned"
            BY <2>1 DEF IInv, Shape
        <3> QED BY <3>1, <2>2, <2>6 DEF IInv, ReturnedIsVerified, Verified
    <2> QED BY <2>2, <2>3, <2>7, <2>8, <2>9, ApprovalsStay DEF IInv
<1> QED BY <1>1, <1>2

LEMMA EnforceKeepsIInv ==
    ASSUME IInv, NEW c \in Clients, Enforce(c)
    PROVE  IInv'
<1>1. CASE Fails(c)
    BY <1>1, FailsKeepsIInv DEF Enforce
<1>2. CASE ~Fails(c)
    <2>1. /\ \A e \in Entries(auth[c]) : Accepted(e)
          /\ pc' = [pc EXCEPT ![c] = "returned"]
          /\ UNCHANGED <<request, auth, signed, storage, effects>>
        BY <1>2 DEF Enforce
    <2>2. Shape'
        BY <2>1 DEF IInv, Shape
    <2>3. EntriesAreSigned'
        BY <2>1 DEF IInv, EntriesAreSigned, SignedAsCarried
    <2>4. ReturnedIsVerified'
        <3> SUFFICES ASSUME NEW d \in Clients, pc'[d] = "returned", NEW e \in Entries(auth'[d])
                     PROVE  Verified(e)'
            BY DEF ReturnedIsVerified
        <3>1. CASE d = c
            BY <3>1, <2>1 DEF Accepted, Verified
        <3>2. CASE d # c
            BY <3>2, <2>1 DEF IInv, Shape, ReturnedIsVerified, Verified
        <3> QED BY <3>1, <3>2
    <2> QED BY <2>1, <2>2, <2>3, <2>4, ApprovalsStay DEF IInv
<1> QED BY <1>1, <1>2

LEMMA LandKeepsIInv ==
    ASSUME IInv, NEW c \in Clients, Land(c)
    PROVE  IInv'
<1>1. Fails(c) /\ UNCHANGED storage
    BY DEF Land
<1>2. CASE UNCHANGED effects
    BY <1>1, <1>2, FailsKeepsIInv
<1>3. CASE ~UNCHANGED effects
    <2>1. /\ \A e \in Entries(auth[c]) : Accepted(e)
          /\ effects' = effects \cup {e \in Entries(auth[c]) : e.cred # Source}
        BY <1>3 DEF Land
    <2>2. \A e \in effects' \ effects :
              storage # NotInitialized /\ Cardinality(Approvals(e)) >= storage.threshold
        <3> SUFFICES ASSUME NEW e \in Entries(auth[c]), e.cred # Source
                     PROVE  storage # NotInitialized
                            /\ Cardinality(Approvals(e)) >= storage.threshold
            BY <2>1
        <3>1. e.cred = Smart /\ CheckAuth(storage, Payload(e), e.signature) = "Ok"
            BY <2>1 DEF Accepted
        <3>2. SignedAsCarried(e)
            BY DEF IInv, EntriesAreSigned
        <3> QED BY <3>1, <3>2, VerifiedIsApproved DEF IInv, Shape
    <2>3. UNCHANGED signed
        BY <1>1 DEF Fails
    <2>4. EffectsAreApproved'
        <3> SUFFICES ASSUME NEW e \in effects'
                     PROVE  Cardinality(Approvals(e)') >= storage.threshold
            BY <1>1 DEF EffectsAreApproved
        <3>1. Approvals(e)' = Approvals(e)
            BY <1>1, <2>3 DEF Approvals
        <3>2. Cardinality(Approvals(e)) >= storage.threshold
            BY <2>2 DEF IInv, EffectsAreApproved
        <3> QED BY <3>1, <3>2
    <2>5. NoEffectBefore'
        BY <1>1, <2>2 DEF IInv, NoEffectBefore
    <2> QED BY <1>1, <2>4, <2>5, FailsDrops DEF IInv
<1> QED BY <1>2, <1>3

\* Nothing was verified by an account that had not been constructed.
LEMMA ConstructKeepsIInv ==
    ASSUME IInv, NEW st \in Storages, Construct(st)
    PROVE  IInv'
<1>1. /\ storage = NotInitialized /\ effects = {} /\ UNCHANGED <<pc, request, auth, effects, signed>>
    BY DEF Construct, client, IInv, NoEffectBefore
<1>2. storage' \in [signers : Seq(Keys), threshold : Nat]
    BY AuthAssumption DEF Construct, Constructed
<1>3. Shape'
    BY <1>1, <1>2 DEF IInv, Shape
<1>4. EntriesAreSigned'
    BY <1>1 DEF IInv, EntriesAreSigned, SignedAsCarried
<1>5. ReturnedIsVerified'
    <2> SUFFICES ASSUME NEW d \in Clients, pc[d] = "returned", NEW e \in Entries(auth[d])
                 PROVE  Verified(e)'
        BY <1>1 DEF ReturnedIsVerified
    <2>1. Verified(e)
        BY DEF IInv, ReturnedIsVerified
    <2>2. CheckAuth(storage, Payload(e), e.signature) # "Ok"
        BY <1>1, CheckAuthPasses
    <2> QED BY <2>1, <2>2 DEF Verified
<1>6. NoEffectBefore' /\ EffectsAreApproved'
    BY <1>1 DEF NoEffectBefore, EffectsAreApproved
<1> QED BY <1>3, <1>4, <1>5, <1>6 DEF IInv

LEMMA InitIInv == Init => IInv
<1> SUFFICES ASSUME Init PROVE IInv
    OBVIOUS
<1>1. Shape
    BY DEF Init, Shape
<1>2. \A c \in Clients : Entries(auth[c]) = {}
    BY NoEntries DEF Init
<1>3. EntriesAreSigned /\ ReturnedIsVerified
    BY <1>2 DEF EntriesAreSigned, ReturnedIsVerified
<1>4. NoEffectBefore /\ EffectsAreApproved
    BY DEF Init, NoEffectBefore, EffectsAreApproved
<1> QED BY <1>1, <1>3, <1>4 DEF IInv

LEMMA StutterKeepsIInv ==
    ASSUME IInv, UNCHANGED <<client, storage, effects, signed>>
    PROVE  IInv'
<1> USE DEF client
<1>1. Shape' /\ NoEffectBefore'
    BY DEF IInv, Shape, NoEffectBefore
<1>2. EntriesAreSigned'
    BY DEF IInv, EntriesAreSigned, SignedAsCarried
<1>3. ReturnedIsVerified'
    BY DEF IInv, ReturnedIsVerified, Verified
<1>4. EffectsAreApproved'
    BY DEF IInv, EffectsAreApproved, Approvals
<1> QED BY <1>1, <1>2, <1>3, <1>4 DEF IInv

LEMMA NextKeepsIInv == IInv /\ [Next]_vars => IInv'
<1> SUFFICES ASSUME IInv, [Next]_vars PROVE IInv'
    OBVIOUS
<1>1. ASSUME NEW c \in Clients, NEW req \in Requests, Call(c, req) PROVE IInv'
    BY <1>1, CallKeepsIInv
<1>2. ASSUME NEW c \in Clients, Record(c) PROVE IInv'
    BY <1>2, RecordKeepsIInv
<1>3. ASSUME NEW c \in Clients, Enforce(c) PROVE IInv'
    BY <1>3, EnforceKeepsIInv
<1>4. ASSUME NEW c \in Clients, Land(c) PROVE IInv'
    BY <1>4, LandKeepsIInv
<1>5. ASSUME NEW st \in Storages, Construct(st) PROVE IInv'
    BY <1>5, ConstructKeepsIInv
<1>6. CASE CloseLedger
    BY <1>6, StutterKeepsIInv DEF CloseLedger
<1>7. CASE UNCHANGED vars
    BY <1>7, StutterKeepsIInv DEF vars, client
<1> QED BY <1>1, <1>2, <1>3, <1>4, <1>5, <1>6, <1>7 DEF Next
-----------------------------------------------------------------------------
\* The invariant holds in every reachable state.
THEOREM Invariance == Spec => []IInv
BY InitIInv, NextKeepsIInv, PTL DEF Spec

\* Nothing takes effect for the smart account without the signatures of
\* `threshold` distinct signers of it over that very call, for any signer list,
\* threshold, requests and number of clients (lib.rs:96-98).
THEOREM OnlyApprovedTakesEffect == Spec => []EffectsAreApproved
<1>1. IInv => EffectsAreApproved
    BY DEF IInv
<1> QED BY <1>1, Invariance, PTL

\* What a call returned can only be refused for its expiry or a used nonce,
\* however long its caller waits (auth.rs:286-303).
THEOREM ReturnedStays == Spec => []ReturnedStaysGood
<1>1. IInv => ReturnedStaysGood
    BY DEF IInv, ReturnedIsVerified, Verified, ReturnedStaysGood, Accepted, Unused
<1> QED BY <1>1, Invariance, PTL
-----------------------------------------------------------------------------
(***************************************************************************)
(* What a call signs for its caller is what the account is asked to check. *)
(***************************************************************************)
\* e is nothing to the account, or has a signature of each signer of the call.
Made(e, req) ==
    \/ e.cred = Source
    \/ /\ e.cred = Smart
       /\ e.signature = [i \in DOMAIN req.signers |-> [key |-> req.signers[i], payload |-> Payload(e)]]

EntriesAreMade ==
    \A c \in Clients : pc[c] \in {"enforce", "returned"} =>
        request[c] \in Requests /\ \A e \in Entries(auth[c]) : Made(e, request[c])

\* An entry for anyone else is left unsigned, so that it is found lacking
\* (auth.rs:262-275).
LEMMA AttachedIsMade ==
    ASSUME NEW req \in Requests, NEW ops, NEW draw,
           ~LacksSignature(SignedAuth(req, Recorded(ops, draw))),
           HasResults(req.ops, Recorded(ops, draw)),
           NEW e \in Entries(SignedAuth(req, Recorded(ops, draw)))
    PROVE  Made(e, req)
<1> DEFINE a == SignedAuth(req, Recorded(ops, draw))
<1>1. PICK j \in DOMAIN a : \E i \in DOMAIN a[j] : e = a[j][i]
    BY EntryOf
<1>2. PICK i \in DOMAIN a[j] : e = a[j][i]
    BY <1>1
<1> DEFINE r == ResultOf(req.ops, j)
           f == Recorded(ops, draw)[r][i]
<1>3. /\ j \in DOMAIN req.ops /\ req.ops[j] # Plain
      /\ i \in DOMAIN Recorded(ops, draw)[r] /\ e = SignAuthEntry(f, req.signers, req.until)
    BY <1>1, <1>2 DEF SignedAuth
<1>4. r \in DOMAIN Invoked(ops)
    BY <1>3 DEF HasResults, Recorded
<1>5. f.signature = Void
    BY <1>3, <1>4 DEF Recorded
<1>6. e.cred = Source \/ e.signature # Void
    BY DEF LacksSignature
<1>7. CASE f.cred = Smart
    <2> DEFINE p == [nonce |-> f.nonce, until |-> req.until, call |-> f.call]
    <2>1. e = WithSignatures(f, req.signers, req.until, p)
        BY <1>3, <1>7 DEF SignAuthEntry
    <2>2. e.cred = Smart /\ Payload(e) = p
        BY <1>7, <2>1 DEF WithSignatures, Payload
    <2>3. e.signature = [k \in DOMAIN req.signers |-> [key |-> req.signers[k], payload |-> p]]
        BY <2>1 DEF WithSignatures
    <2> QED BY <2>2, <2>3 DEF Made
<1>8. CASE f.cred # Smart
    BY <1>3, <1>5, <1>6, <1>8 DEF SignAuthEntry, Made
<1> QED BY <1>7, <1>8
-----------------------------------------------------------------------------
\* Requests and entries change together, one client at a time.
LEMMA ClientKeepsMade ==
    ASSUME EntriesAreMade, NEW c \in Clients,
           \A d \in Clients \ {c} :
               pc'[d] = pc[d] /\ request'[d] = request[d] /\ auth'[d] = auth[d],
           pc'[c] \in {"enforce", "returned"} =>
               request'[c] \in Requests /\ \A e \in Entries(auth'[c]) : Made(e, request'[c])
    PROVE  EntriesAreMade'
BY DEF EntriesAreMade, Entries, Made, Payload

LEMMA RecordKeepsMade ==
    ASSUME IInv, EntriesAreMade, NEW c \in Clients, Record(c)
    PROVE  EntriesAreMade'
<1>1. DOMAIN pc = Clients /\ DOMAIN request = Clients /\ DOMAIN auth = Clients
    BY DEF IInv, Shape
<1>2. CASE Fails(c)
    BY <1>1, <1>2, ClientKeepsMade DEF Fails
<1>3. CASE ~Fails(c)
    <2>1. PICK draw \in Nonces :
              LET results == Recorded(request[c].ops, draw)
                  a == SignedAuth(request[c], results)
              IN /\ HasResults(request[c].ops, results)
                 /\ ~LacksSignature(a)
                 /\ auth' = [auth EXCEPT ![c] = a]
                 /\ pc' = [pc EXCEPT ![c] = "enforce"]
                 /\ UNCHANGED request
        BY <1>3 DEF Record
    <2>2. PICK req : req = request[c]
        OBVIOUS
    <2>3. req \in Requests
        BY <2>2 DEF Record, IInv, Shape
    <2>4. PICK a : a = SignedAuth(req, Recorded(req.ops, draw))
        OBVIOUS
    <2>5. /\ HasResults(req.ops, Recorded(req.ops, draw)) /\ ~LacksSignature(a)
          /\ auth' = [auth EXCEPT ![c] = a]
        BY <2>1, <2>2, <2>4
    <2>6. \A e \in Entries(a) : Made(e, req)
        BY <2>3, <2>4, <2>5, AttachedIsMade
    <2>7. auth'[c] = a /\ request'[c] = req
          /\ \A d \in Clients \ {c} : pc'[d] = pc[d] /\ request'[d] = request[d] /\ auth'[d] = auth[d]
        BY <1>1, <2>1, <2>2, <2>5
    <2> QED BY <2>3, <2>6, <2>7, ClientKeepsMade
<1> QED BY <1>2, <1>3

LEMMA NextKeepsMade == IInv /\ EntriesAreMade /\ [Next]_vars => EntriesAreMade'
<1> SUFFICES ASSUME IInv, EntriesAreMade, [Next]_vars PROVE EntriesAreMade'
    OBVIOUS
<1>1. DOMAIN pc = Clients /\ DOMAIN request = Clients /\ DOMAIN auth = Clients
    BY DEF IInv, Shape
<1>2. ASSUME NEW c \in Clients, NEW req \in Requests, Call(c, req) PROVE EntriesAreMade'
    BY <1>1, <1>2, ClientKeepsMade DEF Call
<1>3. ASSUME NEW c \in Clients, Record(c) PROVE EntriesAreMade'
    BY <1>3, RecordKeepsMade
<1>4. ASSUME NEW c \in Clients, Enforce(c) PROVE EntriesAreMade'
    <2>1. CASE Fails(c)
        BY <1>1, <2>1, ClientKeepsMade DEF Fails
    <2>2. CASE ~Fails(c)
        <3>1. /\ pc[c] = "enforce" /\ UNCHANGED <<request, auth>>
              /\ \A d \in Clients \ {c} : pc'[d] = pc[d]
            BY <1>1, <1>4, <2>2 DEF Enforce
        <3>2. request[c] \in Requests /\ \A e \in Entries(auth[c]) : Made(e, request[c])
            BY <3>1 DEF EntriesAreMade
        <3> QED BY <3>1, <3>2, ClientKeepsMade DEF Entries, Made, Payload
    <2> QED BY <2>1, <2>2
<1>5. ASSUME NEW c \in Clients, Land(c) PROVE EntriesAreMade'
    BY <1>1, <1>5, ClientKeepsMade DEF Land, Fails
<1>6. CASE \/ \E st \in Storages : Construct(st)
           \/ CloseLedger \/ UNCHANGED vars
    BY <1>6 DEF Construct, CloseLedger, vars, client, EntriesAreMade, Entries, Made, Payload
<1> QED BY <1>2, <1>3, <1>4, <1>5, <1>6 DEF Next

\* __check_auth finds nothing against signatures of enough signers.
LEMMA EnoughPass ==
    ASSUME NEW req \in Requests, NEW e, e.cred = Smart, Made(e, req), Smart # Source,
           storage # NotInitialized, storage \in [signers : Seq(Keys), threshold : Nat],
           Enough(req.signers)
    PROVE  CheckAuth(storage, Payload(e), e.signature) = "Ok"
<1> DEFINE sigs == e.signature
           signers == req.signers
<1>1. signers \in Seq(Keys)
    BY AuthAssumption
<1>2. sigs = [i \in DOMAIN signers |-> [key |-> signers[i], payload |-> Payload(e)]]
    BY DEF Made
<1>3. /\ DOMAIN sigs = DOMAIN signers
      /\ \A i \in DOMAIN signers : sigs[i].key = signers[i] /\ sigs[i].payload = Payload(e)
    BY <1>2
<1>4. DOMAIN signers = 1..Len(signers) /\ Len(signers) \in Nat
    BY <1>1
<1>5. Len(sigs) = Len(signers)
    BY <1>2, <1>4
<1> HIDE DEF sigs, signers
<1>6. \A i \in DOMAIN sigs : ~UnknownAt(storage, sigs, i) /\ ~TrapsAt(Payload(e), sigs, i)
    BY <1>3 DEF UnknownAt, TrapsAt, Enough, KeysOf, signers
<1>7. \A i \in DOMAIN sigs : ~SeenAt(sigs, i)
    <2> SUFFICES ASSUME NEW i \in DOMAIN signers, NEW j \in 1..(i - 1), sigs[j].key = sigs[i].key
                 PROVE  FALSE
        BY <1>3 DEF SeenAt
    <2>1. j \in DOMAIN signers /\ j # i
        BY <1>4
    <2> QED BY <1>3, <2>1 DEF Enough, signers
<1>8. Stops(storage, Payload(e), sigs) = {}
    BY <1>6, <1>7 DEF Stops
<1>9. ~(Len(sigs) < storage.threshold)
    <2>1. storage.threshold \in Nat
        OBVIOUS
    <2> QED BY <1>4, <1>5, <2>1 DEF Enough, signers
<1> QED BY <1>8, <1>9 DEF CheckAuth, sigs

\* With enough signers, the enforcing pass does not refuse an entry for its
\* signatures, for any requests, storages and number of clients
\* (auth.rs:163-178, lib.rs:116-133).
THEOREM EnoughSignersSuffice == Spec => []EnoughSignersPass
<1>1. Init => EntriesAreMade
    BY DEF Init, EntriesAreMade
<1>2. Spec => []EntriesAreMade
    BY <1>1, Invariance, NextKeepsMade, PTL DEF Spec
<1>3. IInv /\ EntriesAreMade => EnoughSignersPass
    <2> SUFFICES ASSUME IInv, EntriesAreMade, NEW c \in Clients, pc[c] = "enforce",
                        storage # NotInitialized, Enough(request[c].signers),
                        NEW e \in Entries(auth[c]), ledger <= e.until, Unused(e)
                 PROVE  Accepted(e)
        BY DEF EnoughSignersPass
    <2>1. request[c] \in Requests /\ Made(e, request[c])
        BY DEF EntriesAreMade
    <2>2. storage \in [signers : Seq(Keys), threshold : Nat]
        BY DEF IInv, Shape
    <2>3. e.cred = Smart => CheckAuth(storage, Payload(e), e.signature) = "Ok"
        BY <2>1, <2>2, EnoughPass, AuthAssumption
    <2> QED BY <2>1, <2>3 DEF Accepted, Unused, Made
<1> QED BY <1>2, <1>3, Invariance, PTL
-----------------------------------------------------------------------------
(***************************************************************************)
(* What a call attaches is complete: the result that the client counts up  *)
(* to for an operation is the one the host recorded for it.                *)
(***************************************************************************)
\* A set of numbers has a least one.
LEMMA Least ==
    ASSUME NEW T \in SUBSET Nat, T # {}
    PROVE  \E n \in T : \A m \in T : n <= m
<1>1. PICK n \in T : \A m \in T : ~(<<m, n>> \in OpToRel(<, Nat))
    BY NatLessThanWellFounded, WFMin
<1>2. \A m \in T : ~(m < n)
    BY <1>1 DEF OpToRel
<1> QED BY <1>2

\* The client's count goes up by one at each operation that invokes.
LEMMA ResultOfSteps ==
    ASSUME NEW ops, NEW n \in Nat
    PROVE  /\ ResultOf(ops, 0) = 0
           /\ ResultOf(ops, n) \in 0..n
           /\ ResultOf(ops, n + 1) = IF ops[n + 1] = Plain THEN ResultOf(ops, n)
                                     ELSE ResultOf(ops, n) + 1
<1> DEFINE S(k) == {i \in 1..k : ops[i] # Plain}
<1>1. S(0) = {}
    OBVIOUS
<1>2. IsFiniteSet(S(n)) /\ Cardinality(S(n)) <= n /\ Cardinality(S(n)) \in Nat
    <2>1. IsFiniteSet(1..n) /\ Cardinality(1..n) = n
        BY FS_Interval
    <2>2. S(n) \in SUBSET (1..n)
        OBVIOUS
    <2> HIDE DEF S
    <2> QED BY <2>1, <2>2, FS_Subset, FS_CardinalityType
<1>3. S(n + 1) = IF ops[n + 1] = Plain THEN S(n) ELSE S(n) \cup {n + 1}
    <2>1. 1..(n + 1) = (1..n) \cup {n + 1}
        OBVIOUS
    <2> QED BY <2>1
<1>4. n + 1 \notin S(n)
    OBVIOUS
<1> HIDE DEF S
<1>5. Cardinality(S(n + 1)) = IF ops[n + 1] = Plain THEN Cardinality(S(n)) ELSE Cardinality(S(n)) + 1
    BY <1>2, <1>3, <1>4, FS_AddElement
<1>6. \A k : ResultOf(ops, k) = Cardinality(S(k))
    BY DEF ResultOf, S
<1> QED BY <1>1, <1>2, <1>5, <1>6, FS_EmptySet

\* F is the recursion of Invoked up to position m.
FirstOf(ops, m, F) ==
    F = [n \in 0..m |->
            IF n = 0 THEN <<>>
            ELSE IF ops[n] = Plain THEN F[n - 1] ELSE Append(F[n - 1], ops[n])]

LEMMA FirstExists ==
    ASSUME NEW ops, NEW m \in Nat
    PROVE  \E F : FirstOf(ops, m, F)
<1> DEFINE T == {n \in Nat : ~\E F : FirstOf(ops, n, F)}
<1> SUFFICES ASSUME T # {} PROVE FALSE
    OBVIOUS
<1>1. PICK n \in T : \A k \in T : n <= k
    <2> HIDE DEF T
    <2>1. T \in SUBSET Nat
        BY DEF T
    <2> QED BY <2>1, Least
<1>2. CASE n = 0
    <2> DEFINE F == [k \in 0..0 |-> <<>>]
    <2>1. FirstOf(ops, 0, F)
        BY DEF FirstOf
    <2> QED BY <2>1, <1>1, <1>2
<1>3. CASE n # 0
    <2>1. n - 1 \in Nat /\ n - 1 \notin T
        BY <1>1, <1>3
    <2>2. PICK F : FirstOf(ops, n - 1, F)
        BY <2>1
    <2> DEFINE last == IF ops[n] = Plain THEN F[n - 1] ELSE Append(F[n - 1], ops[n])
               G == [k \in 0..n |-> IF k < n THEN F[k] ELSE last]
    <2>3. ASSUME NEW k \in 0..n
          PROVE  G[k] = IF k = 0 THEN <<>>
                        ELSE IF ops[k] = Plain THEN G[k - 1] ELSE Append(G[k - 1], ops[k])
        <3>1. CASE k = 0
            BY <3>1, <2>1, <2>2, <1>3 DEF FirstOf
        <3>2. CASE k # 0 /\ k < n
            <4>1. k \in 0..(n - 1) /\ k - 1 \in 0..n /\ k - 1 < n
                BY <3>2
            <4>2. G[k] = F[k] /\ G[k - 1] = F[k - 1]
                BY <3>2, <4>1
            <4>3. F[k] = IF ops[k] = Plain THEN F[k - 1] ELSE Append(F[k - 1], ops[k])
                BY <3>2, <4>1, <2>2 DEF FirstOf
            <4> QED BY <3>2, <4>2, <4>3
        <3>3. CASE k = n
            <4>1. G[n] = last /\ G[n - 1] = F[n - 1]
                BY <2>1
            <4> QED BY <3>3, <4>1, <1>3
        <3> QED BY <3>1, <3>2, <3>3
    <2>4. FirstOf(ops, n, G)
        <3> HIDE DEF last
        <3>1. G = [k \in 0..n |-> G[k]]
            OBVIOUS
        <3> HIDE DEF G
        <3> QED BY <2>3, <3>1 DEF FirstOf
    <2> QED BY <2>4, <1>1
<1> QED BY <1>2, <1>3

\* Of the operations up to position m, in a sequence s: as many as the client
\* counted, each where the client looks for it.
CountedIn(ops, m, s) ==
    /\ s \in Seq(Calls)
    /\ Len(s) = ResultOf(ops, m)
    /\ \A j \in 1..m : ops[j] # Plain =>
           ResultOf(ops, j) \in 1..Len(s) /\ s[ResultOf(ops, j)] = ops[j]

LEMMA FirstCounts ==
    ASSUME NEW ops \in Seq(Calls \cup {Plain}), NEW F, FirstOf(ops, Len(ops), F)
    PROVE  CountedIn(ops, Len(ops), F[Len(ops)])
<1> DEFINE T == {n \in 0..Len(ops) : ~CountedIn(ops, n, F[n])}
<1>1. Len(ops) \in Nat
    OBVIOUS
<1> SUFFICES ASSUME T # {} PROVE FALSE
    BY <1>1
<1>2. PICK n \in T : \A k \in T : n <= k
    <2>1. T \in SUBSET Nat
        BY <1>1
    <2> HIDE DEF T
    <2> QED BY <2>1, Least
<1>3. n \in 0..Len(ops) /\ ~CountedIn(ops, n, F[n])
    BY <1>2
<1>4. CASE n = 0
    <2>1. F[0] = <<>>
        BY <1>1 DEF FirstOf
    <2>2. ResultOf(ops, 0) = 0
        BY ResultOfSteps, 0 \in Nat
    <2>3. CountedIn(ops, 0, F[0])
        BY <2>1, <2>2 DEF CountedIn
    <2> QED BY <2>3, <1>3, <1>4
<1>5. CASE n # 0
    <2>1. /\ n - 1 \in 0..Len(ops) /\ n - 1 \in Nat /\ n - 1 \notin T /\ n \in 1..Len(ops)
          /\ (n - 1) + 1 = n
        BY <1>1, <1>2, <1>3, <1>5
    <2>2. CountedIn(ops, n - 1, F[n - 1])
        BY <2>1
    <2>3. F[n] = IF ops[n] = Plain THEN F[n - 1] ELSE Append(F[n - 1], ops[n])
        BY <1>3, <1>5 DEF FirstOf
    <2>4. /\ ResultOf(ops, n - 1) \in Nat
          /\ ResultOf(ops, n) = IF ops[n] = Plain THEN ResultOf(ops, n - 1) ELSE ResultOf(ops, n - 1) + 1
        BY <2>1, ResultOfSteps
    <2>5. \A j \in 1..n : j = n \/ j \in 1..(n - 1)
        BY <2>1
    <2>6. CASE ops[n] = Plain
        BY <1>3, <2>2, <2>3, <2>4, <2>5, <2>6 DEF CountedIn
    <2>7. CASE ops[n] # Plain
        <3> DEFINE s == F[n - 1]
        <3>1. ops[n] \in Calls
            BY <2>1, <2>7
        <3>2. F[n] = Append(s, ops[n])
            BY <2>3, <2>7
        <3>3. s \in Seq(Calls) /\ Len(s) = ResultOf(ops, n - 1)
            BY <2>2 DEF CountedIn
        <3>4. /\ F[n] \in Seq(Calls) /\ Len(F[n]) = Len(s) + 1 /\ F[n][Len(s) + 1] = ops[n]
              /\ \A r \in 1..Len(s) : r \in 1..Len(F[n]) /\ F[n][r] = s[r]
            BY <3>1, <3>2, <3>3
        <3>5. ResultOf(ops, n) = Len(F[n]) /\ ResultOf(ops, n) = Len(s) + 1 /\ Len(s) \in Nat
            BY <2>4, <2>7, <3>3, <3>4
        <3>6. ASSUME NEW j \in 1..n, ops[j] # Plain
              PROVE  ResultOf(ops, j) \in 1..Len(F[n]) /\ F[n][ResultOf(ops, j)] = ops[j]
            <4>1. CASE j = n
                BY <4>1, <3>4, <3>5
            <4>2. CASE j \in 1..(n - 1)
                BY <4>2, <3>4, <3>6, <2>2 DEF CountedIn
            <4> QED BY <4>1, <4>2, <2>5
        <3>7. CountedIn(ops, n, F[n])
            BY <3>4, <3>5, <3>6 DEF CountedIn
        <3> QED BY <3>7, <1>3
    <2> QED BY <2>6, <2>7
<1> QED BY <1>4, <1>5

\* The host's results are the client's count (auth.rs:244-260).
LEMMA InvokedCounts ==
    ASSUME NEW ops \in Seq(Calls \cup {Plain})
    PROVE  CountedIn(ops, Len(ops), Invoked(ops))
<1> DEFINE P(F) == FirstOf(ops, Len(ops), F)
<1>1. Len(ops) \in Nat
    OBVIOUS
<1>2. Invoked(ops) = (CHOOSE F : P(F))[Len(ops)]
    BY Zenon DEF Invoked, FirstOf
<1>3. \E F : P(F)
    BY <1>1, FirstExists
<1>4. P(CHOOSE F : P(F))
    <2> HIDE DEF P
    <2> QED BY <1>3
<1>5. CountedIn(ops, Len(ops), (CHOOSE F : P(F))[Len(ops)])
    BY <1>4, FirstCounts
<1> QED BY <1>2, <1>5
-----------------------------------------------------------------------------
\* What ReturnedIsComplete asks of the entries of one call.
Complete(ops, a) ==
    \A j \in DOMAIN ops :
        IF ops[j] = Plain THEN a[j] = <<>>
        ELSE /\ \A i \in DOMAIN a[j] : a[j][i].call = ops[j]
             /\ [i \in DOMAIN a[j] |-> a[j][i].cred] = Needs[ops[j]]

\* What a signed entry keeps of the recorded one.
LEMMA SigningKeeps ==
    ASSUME NEW e, NEW signers, NEW until
    PROVE  /\ SignAuthEntry(e, signers, until).cred = e.cred
           /\ SignAuthEntry(e, signers, until).call = e.call
           /\ SignAuthEntry(e, signers, until).cred = Smart =>
                  SignAuthEntry(e, signers, until).until = until
BY DEF SignAuthEntry, WithSignatures

\* The entries attached to an operation are those of its own call.
LEMMA AttachedEntries ==
    ASSUME NEW req \in Requests, NEW draw, NEW j \in DOMAIN req.ops, req.ops[j] # Plain
    PROVE  LET a == SignedAuth(req, Recorded(req.ops, draw))
               call == req.ops[j]
           IN  /\ call \in Calls
               /\ DOMAIN a[j] = DOMAIN Needs[call]
               /\ \A i \in DOMAIN Needs[call] :
                      \E e : /\ e.cred = Needs[call][i] /\ e.call = call /\ e.signature = Void
                             /\ a[j][i] = SignAuthEntry(e, req.signers, req.until)
<1> DEFINE ops == req.ops
           results == Recorded(ops, draw)
           a == SignedAuth(req, results)
           r == ResultOf(ops, j)
           call == ops[j]
<1>1. ops \in Seq(Calls \cup {Plain})
    BY AuthAssumption
<1>2. j \in 1..Len(ops) /\ call \in Calls
    BY <1>1
<1>3. CountedIn(ops, Len(ops), Invoked(ops))
    BY <1>1, InvokedCounts
<1>4. r \in DOMAIN Invoked(ops) /\ Invoked(ops)[r] = call
    BY <1>2, <1>3 DEF CountedIn
<1>5. results[r] = [i \in DOMAIN Needs[call] |->
                       [cred |-> Needs[call][i], nonce |-> <<draw, r, i>>, until |-> 0,
                        signature |-> Void, call |-> call]]
    BY <1>4 DEF Recorded
<1>6. a[j] = [i \in DOMAIN results[r] |-> SignAuthEntry(results[r][i], req.signers, req.until)]
    BY DEF SignedAuth
<1>7. DOMAIN a[j] = DOMAIN Needs[call]
    BY <1>5, <1>6
<1>8. ASSUME NEW i \in DOMAIN Needs[call]
      PROVE  \E e : /\ e.cred = Needs[call][i] /\ e.call = call /\ e.signature = Void
                    /\ a[j][i] = SignAuthEntry(e, req.signers, req.until)
    <2>1. /\ results[r][i].cred = Needs[call][i] /\ results[r][i].call = call
          /\ results[r][i].signature = Void
        BY <1>5
    <2>2. a[j][i] = SignAuthEntry(results[r][i], req.signers, req.until)
        BY <1>5, <1>6
    <2> QED BY <2>1, <2>2
<1> QED BY <1>2, <1>7, <1>8

\* What signing attaches is complete, and nothing else is attached.
LEMMA AttachedIsComplete ==
    ASSUME NEW req \in Requests, NEW draw
    PROVE  LET a == SignedAuth(req, Recorded(req.ops, draw))
           IN  DOMAIN a = DOMAIN req.ops /\ Complete(req.ops, a)
<1> DEFINE a == SignedAuth(req, Recorded(req.ops, draw))
<1>1. DOMAIN a = DOMAIN req.ops
    BY DEF SignedAuth
<1>2. \A j \in DOMAIN req.ops : req.ops[j] = Plain => a[j] = <<>>
    BY DEF SignedAuth
<1>3. ASSUME NEW j \in DOMAIN req.ops, req.ops[j] # Plain
      PROVE  /\ \A i \in DOMAIN a[j] : a[j][i].call = req.ops[j]
             /\ [i \in DOMAIN a[j] |-> a[j][i].cred] = Needs[req.ops[j]]
    <2> DEFINE call == req.ops[j]
    <2>1. /\ call \in Calls
          /\ DOMAIN a[j] = DOMAIN Needs[call]
          /\ \A i \in DOMAIN Needs[call] :
                 \E e : /\ e.cred = Needs[call][i] /\ e.call = call
                        /\ a[j][i] = SignAuthEntry(e, req.signers, req.until)
        BY <1>3, AttachedEntries
    <2>2. \A i \in DOMAIN Needs[call] : a[j][i].cred = Needs[call][i] /\ a[j][i].call = call
        BY <2>1, SigningKeeps
    <2>3. Needs[call] = [i \in DOMAIN Needs[call] |-> Needs[call][i]]
        <3>1. Needs[call] \in Seq({Smart, Other, Source})
            BY <2>1, AuthAssumption
        <3> QED BY <3>1
    <2> HIDE DEF a
    <2> QED BY <2>1, <2>2, <2>3
<1>4. Complete(req.ops, a)
    <2> HIDE DEF a
    <2> QED BY <1>2, <1>3 DEF Complete
<1> QED BY <1>1, <1>4

\* When no entry lacks a signature, those attached are the source's or the
\* smart account's.
LEMMA AttachedIsTyped ==
    ASSUME NEW req \in Requests, NEW draw,
           ~LacksSignature(SignedAuth(req, Recorded(req.ops, draw))),
           NEW j \in DOMAIN SignedAuth(req, Recorded(req.ops, draw)),
           NEW i \in DOMAIN SignedAuth(req, Recorded(req.ops, draw))[j]
    PROVE  IsEntry(SignedAuth(req, Recorded(req.ops, draw))[j][i])
<1> DEFINE a == SignedAuth(req, Recorded(req.ops, draw))
<1>1. j \in DOMAIN req.ops /\ req.ops[j] # Plain
    BY DEF SignedAuth
<1>2. /\ req.ops[j] \in Calls
      /\ i \in DOMAIN Needs[req.ops[j]]
      /\ \E e : /\ e.call = req.ops[j] /\ e.signature = Void
                /\ a[j][i] = SignAuthEntry(e, req.signers, req.until)
    BY <1>1, AttachedEntries
<1>3. PICK e : /\ e.call = req.ops[j] /\ e.signature = Void
               /\ a[j][i] = SignAuthEntry(e, req.signers, req.until)
    BY <1>2
<1>4. a[j][i] \in Entries(a)
    BY DEF Entries
<1>5. a[j][i].cred = Smart => KeysOf(a[j][i].signature) \subseteq Signatures(a[j][i])
    <2>1. a[j][i].cred = Smart => a[j][i].signature \in Seq(Signatures(a[j][i]))
        BY <1>4, AttachedIsSigned
    <2> QED BY <2>1 DEF KeysOf
<1>6. req.until \in Nat
    BY AuthAssumption
<1>7. a[j][i].cred = Source \/ a[j][i].signature # Void
    BY <1>4 DEF LacksSignature
<1>8. a[j][i].cred \in {Source, Smart}
    <2>1. CASE e.cred = Smart
        BY <2>1, <1>3, SigningKeeps
    <2>2. CASE e.cred # Smart
        BY <2>2, <1>3, <1>7 DEF SignAuthEntry
    <2> QED BY <2>1, <2>2
<1>9. a[j][i].call \in Calls /\ (a[j][i].cred = Smart => a[j][i].until \in Nat)
    BY <1>2, <1>3, <1>6, SigningKeeps
<1> HIDE DEF a
<1>10. IsEntry(a[j][i])
    BY <1>5, <1>8, <1>9 DEF IsEntry
<1> QED BY <1>10 DEF a

\* A call that has its entries has them complete.
CallsComplete ==
    \A c \in Clients : pc[c] \in {"enforce", "returned"} => Complete(request[c].ops, auth[c])

TInv == TypeOK /\ CallsComplete

LEMMA InitTInv == Init => TInv
<1> SUFFICES ASSUME Init PROVE TInv
    OBVIOUS
<1>1. TypeOK
    BY AuthAssumption DEF Init, TypeOK
<1> QED BY <1>1 DEF Init, TInv, CallsComplete

\* One client moves; its entries, if it has any, are typed and complete.
LEMMA ClientKeepsTInv ==
    ASSUME TInv, NEW c \in Clients,
           pc' \in [Clients -> {"idle", "record", "enforce", "returned"}],
           calls' \in [Clients -> 0..MaxCalls],
           UNCHANGED <<storage, ledger>>,
           \A d \in Clients \ {c} :
               pc'[d] = pc[d] /\ request'[d] = request[d] /\ auth'[d] = auth[d],
           pc'[c] # "idle" => request'[c] \in Requests,
           \A j \in DOMAIN auth'[c] : \A i \in DOMAIN auth'[c][j] : IsEntry(auth'[c][j][i]),
           pc'[c] \in {"enforce", "returned"} => Complete(request'[c].ops, auth'[c])
    PROVE  TInv'
<1>1. \A e : IsEntry(e)' <=> IsEntry(e)
    BY DEF IsEntry, Signatures, Payload
<1>2. ASSUME NEW d \in Clients
      PROVE  /\ pc'[d] # "idle" => request'[d] \in Requests
             /\ \A j \in DOMAIN auth'[d] : \A i \in DOMAIN auth'[d][j] : IsEntry(auth'[d][j][i])
             /\ pc'[d] \in {"enforce", "returned"} => Complete(request'[d].ops, auth'[d])
    <2>1. CASE d = c
        BY <2>1
    <2>2. CASE d # c
        BY <2>2 DEF TInv, TypeOK, CallsComplete
    <2> QED BY <2>1, <2>2
<1>3. TypeOK'
    BY <1>1, <1>2 DEF TInv, TypeOK
<1>4. CallsComplete'
    <2> SUFFICES ASSUME NEW d \in Clients, pc'[d] \in {"enforce", "returned"}
                 PROVE  Complete(request'[d].ops, auth'[d])
        BY DEF CallsComplete, Complete
    <2> QED BY <1>2
<1> QED BY <1>3, <1>4 DEF TInv

LEMMA FailsKeepsTInv ==
    ASSUME IInv, TInv, NEW c \in Clients, Fails(c), UNCHANGED <<storage, ledger>>
    PROVE  TInv'
BY ClientKeepsTInv DEF Fails, IInv, Shape, TInv, TypeOK

LEMMA CallKeepsTInv ==
    ASSUME IInv, TInv, NEW c \in Clients, NEW req \in Requests, Call(c, req)
    PROVE  TInv'
<1>1. calls' \in [Clients -> 0..MaxCalls]
    <2>1. calls[c] \in 0..MaxCalls /\ calls[c] < MaxCalls /\ MaxCalls \in Nat
        BY AuthAssumption DEF Call, TInv, TypeOK
    <2>2. calls[c] + 1 \in 0..MaxCalls
        BY <2>1
    <2> QED BY <2>2 DEF Call, TInv, TypeOK
<1> QED BY <1>1, ClientKeepsTInv DEF Call, IInv, Shape, TInv, TypeOK

LEMMA RecordKeepsTInv ==
    ASSUME IInv, TInv, NEW c \in Clients, Record(c)
    PROVE  TInv'
<1>1. CASE Fails(c)
    BY <1>1, FailsKeepsTInv DEF Record
<1>2. CASE ~Fails(c)
    <2>1. PICK draw \in Nonces :
              LET results == Recorded(request[c].ops, draw)
                  a == SignedAuth(request[c], results)
              IN /\ ~LacksSignature(a)
                 /\ auth' = [auth EXCEPT ![c] = a]
                 /\ pc' = [pc EXCEPT ![c] = "enforce"]
                 /\ UNCHANGED <<request, calls>>
        BY <1>2 DEF Record
    <2>2. PICK req : req = request[c]
        OBVIOUS
    <2>3. req \in Requests
        BY <2>2 DEF Record, IInv, Shape
    <2>4. PICK a : a = SignedAuth(req, Recorded(req.ops, draw))
        OBVIOUS
    <2>5. ~LacksSignature(a) /\ auth' = [auth EXCEPT ![c] = a]
        BY <2>1, <2>2, <2>4
    <2>6. \A j \in DOMAIN a : \A i \in DOMAIN a[j] : IsEntry(a[j][i])
        BY <2>3, <2>4, <2>5, AttachedIsTyped
    <2>7. Complete(req.ops, a)
        BY <2>3, <2>4, AttachedIsComplete
    <2>8. auth'[c] = a /\ request'[c] = req /\ UNCHANGED <<storage, ledger, calls>>
          /\ \A d \in Clients \ {c} : pc'[d] = pc[d] /\ request'[d] = request[d] /\ auth'[d] = auth[d]
        BY <2>1, <2>2, <2>5 DEF Record, IInv, Shape
    <2>9. pc' \in [Clients -> {"idle", "record", "enforce", "returned"}]
          /\ calls' \in [Clients -> 0..MaxCalls]
        BY <2>1 DEF TInv, TypeOK
    <2> QED BY <2>3, <2>6, <2>7, <2>8, <2>9, ClientKeepsTInv
<1> QED BY <1>1, <1>2

LEMMA EnforceKeepsTInv ==
    ASSUME IInv, TInv, NEW c \in Clients, Enforce(c)
    PROVE  TInv'
<1>1. CASE Fails(c)
    BY <1>1, FailsKeepsTInv DEF Enforce
<1>2. CASE ~Fails(c)
    <2>1. /\ pc[c] = "enforce" /\ pc' = [pc EXCEPT ![c] = "returned"]
          /\ UNCHANGED <<request, auth, calls, storage, ledger>>
        BY <1>2 DEF Enforce
    <2>2. request[c] \in Requests /\ Complete(request[c].ops, auth[c])
        BY <2>1 DEF TInv, TypeOK, CallsComplete
    <2>3. \A j \in DOMAIN auth[c] : \A i \in DOMAIN auth[c][j] : IsEntry(auth[c][j][i])
        BY DEF TInv, TypeOK
    <2>4. /\ pc' \in [Clients -> {"idle", "record", "enforce", "returned"}]
          /\ \A d \in Clients \ {c} : pc'[d] = pc[d]
        BY <2>1 DEF TInv, TypeOK
    <2>5. calls' \in [Clients -> 0..MaxCalls]
        BY <2>1 DEF TInv, TypeOK
    <2> QED BY <2>1, <2>2, <2>3, <2>4, <2>5, ClientKeepsTInv
<1> QED BY <1>1, <1>2

LEMMA NextKeepsTInv == IInv /\ TInv /\ [Next]_vars => TInv'
<1> SUFFICES ASSUME IInv, TInv, [Next]_vars PROVE TInv'
    OBVIOUS
<1>1. ASSUME NEW c \in Clients, NEW req \in Requests, Call(c, req) PROVE TInv'
    BY <1>1, CallKeepsTInv
<1>2. ASSUME NEW c \in Clients, Record(c) PROVE TInv'
    BY <1>2, RecordKeepsTInv
<1>3. ASSUME NEW c \in Clients, Enforce(c) PROVE TInv'
    BY <1>3, EnforceKeepsTInv
<1>4. ASSUME NEW c \in Clients, Land(c) PROVE TInv'
    BY <1>4, FailsKeepsTInv DEF Land
<1>5. ASSUME UNCHANGED client, storage' \in {NotInitialized} \cup Storages, ledger' \in 1..MaxLedger
      PROVE  TInv'
    <2>1. TypeOK'
        BY <1>5 DEF TInv, TypeOK, client, IsEntry, Signatures, Payload
    <2>2. CallsComplete'
        BY <1>5 DEF TInv, CallsComplete, client, Complete
    <2> QED BY <2>1, <2>2 DEF TInv
<1>6. ASSUME NEW st \in Storages, Construct(st) PROVE TInv'
    <2>1. Constructed(st.signers, st.threshold) = st
        BY AuthAssumption DEF Constructed
    <2> QED BY <1>5, <1>6, <2>1 DEF Construct, TInv, TypeOK
<1>7. CASE CloseLedger
    <2>1. ledger' \in 1..MaxLedger
        BY <1>7, AuthAssumption DEF CloseLedger, TInv, TypeOK
    <2> QED BY <1>5, <1>7, <2>1 DEF CloseLedger, TInv, TypeOK
<1>8. CASE UNCHANGED vars
    BY <1>5, <1>8 DEF vars, client, TInv, TypeOK
<1> QED BY <1>1, <1>2, <1>3, <1>4, <1>6, <1>7, <1>8 DEF Next

\* The inductive invariant of the types and of what the entries hold.
THEOREM TypesAndEntries == Spec => []TInv
BY InitTInv, Invariance, NextKeepsTInv, PTL DEF Spec

\* No client ever holds an entry that is somebody else's to sign, and every
\* signature it holds is of the entry it is attached to (auth.rs:262-275).
THEOREM TypeCorrect == Spec => []TypeOK
<1>1. TInv => TypeOK
    BY DEF TInv
<1> QED BY <1>1, TypesAndEntries, PTL

\* What simulate_transaction_with_auth returns has, for each operation, the
\* entries of its own call in order, for any mix of operations
\* (auth.rs:244-283).
THEOREM ReturnedComplete == Spec => []ReturnedIsComplete
<1>1. TInv => ReturnedIsComplete
    BY DEF TInv, CallsComplete, Complete, ReturnedIsComplete
<1> QED BY <1>1, TypesAndEntries, PTL
=============================================================================
