------------------------- MODULE AuthCosigning_proofs -------------------------
(***************************************************************************)
(* Proofs about AuthCosigning: however entries are signed and handed       *)
(* around, what one carries is the work of one call, and what takes effect *)
(* was approved within it.                                                 *)
(***************************************************************************)
EXTENDS AuthCosigning, FiniteSetTheorems, TLAPS

Signatures == Seq([key : Nat, payload : [net : Nets, nonce : Nat \X Nat, until : Nat]])

\* What a place may hold as entry i.
Entry(e, i) ==
    /\ e = [cred |-> e.cred, nonce |-> e.nonce, until |-> e.until, signature |-> e.signature]
    /\ e.cred = Needs[i] /\ e.nonce \in (1..draws) \X {i} /\ e.until \in {0} \cup Expiries

\* e carries exactly what call c made.
MadeBy(c, e) ==
    /\ c.account = e.cred /\ c.nonce = e.nonce /\ c.until = e.until
    /\ c.signers \in Keyrings /\ c.net \in Nets
    /\ \E sorted \in Sorted(c.signers) :
           e.signature = MultisigSignature(sorted, Payload(c.net, e.nonce, e.until))

Genuine(e) ==
    e.signature # Void => e.cred \in Addresses /\ \E c \in calls : MadeBy(c, e)

Shape ==
    /\ DOMAIN held = Places
    /\ \A p \in Places :
          /\ DOMAIN held[p] \in {{}, DOMAIN Needs}
          /\ \A i \in DOMAIN held[p] : Entry(held[p][i], i)
    /\ draws \in 0..MaxDraws
    /\ ledger \in 1..MaxLedger

AllGenuine == \A p \in Places : \A i \in DOMAIN held[p] : Genuine(held[p][i])

IInv == Shape /\ AllGenuine /\ AuthorizedInOneCall
-----------------------------------------------------------------------------
(***************************************************************************)
(* multisig_signature_scval.                                               *)
(***************************************************************************)
\* Sorting neither loses nor adds a signer (auth.rs:86-121).
LEMMA SortedIs ==
    ASSUME NEW s \in Seq(Nat), NEW t \in Sorted(s)
    PROVE  /\ t \in Seq(Nat) /\ Len(t) = Len(s) /\ DOMAIN t = DOMAIN s
           /\ \A i, j \in DOMAIN t : i <= j => t[i] <= t[j]
           /\ KeysOf(t) = KeysOf(s)
           /\ (\A i, j \in DOMAIN t : t[i] = t[j] => i = j)
              => \A i, j \in DOMAIN s : s[i] = s[j] => i = j
<1>1. PICK f \in Reorderings(s) : t = [i \in DOMAIN s |-> s[f[i]]]
    BY DEF Sorted
<1>2. /\ f \in [DOMAIN s -> DOMAIN s]
      /\ \A i, j \in DOMAIN s : f[i] = f[j] => i = j
    BY DEF Reorderings
<1>3. DOMAIN s = 1..Len(s) /\ Len(s) \in Nat
    OBVIOUS
<1>4. t \in Seq(Nat) /\ Len(t) = Len(s) /\ DOMAIN t = DOMAIN s
    <2>1. \A i \in 1..Len(s) : t[i] \in Nat
        BY <1>1, <1>2, <1>3
    <2> QED BY <1>1, <1>3, <2>1
<1>5. \A j \in DOMAIN s : \E i \in DOMAIN s : f[i] = j
    <2>1. IsFiniteSet(DOMAIN s)
        BY <1>3, FS_Interval
    <2>2. f \in Injection(DOMAIN s, DOMAIN s)
        BY <1>2 DEF Injection, IsInjective
    <2>3. f \in Surjection(DOMAIN s, DOMAIN s)
        BY <2>1, <2>2, FS_Injection
    <2> QED BY <2>3 DEF Surjection
<1>6. KeysOf(t) = KeysOf(s)
    <2>1. \A i \in DOMAIN s : t[i] = s[f[i]] /\ f[i] \in DOMAIN s
        BY <1>1, <1>2
    <2>2. \A j \in DOMAIN s : \E i \in DOMAIN s : s[j] = t[i]
        <3> SUFFICES ASSUME NEW j \in DOMAIN s PROVE \E i \in DOMAIN s : s[j] = t[i]
            OBVIOUS
        <3>1. PICK i \in DOMAIN s : f[i] = j
            BY <1>5
        <3>2. s[j] = t[i]
            BY <2>1, <3>1
        <3> QED BY <3>2
    <2>3. \A i \in DOMAIN s : \E j \in DOMAIN s : t[i] = s[j]
        BY <2>1
    <2> QED BY <1>4, <2>2, <2>3 DEF KeysOf
<1>7. ASSUME \A i, j \in DOMAIN t : t[i] = t[j] => i = j,
             NEW i \in DOMAIN s, NEW j \in DOMAIN s, s[i] = s[j]
      PROVE  i = j
    <2>1. PICK k \in DOMAIN s : f[k] = i
        BY <1>5
    <2>2. PICK l \in DOMAIN s : f[l] = j
        BY <1>5
    <2>3. t[k] = s[i] /\ t[l] = s[j]
        BY <1>1, <2>1, <2>2
    <2> QED BY <1>4, <1>7, <2>1, <2>2, <2>3
<1> QED BY <1>4, <1>6, <1>7 DEF Sorted

\* What a call made: one signature for each signer, over one payload.
LEMMA MadeSignature ==
    ASSUME NEW c, NEW e, MadeBy(c, e)
    PROVE  /\ Len(e.signature) = Len(c.signers) /\ DOMAIN e.signature = DOMAIN c.signers
           /\ \A i \in DOMAIN e.signature :
                  e.signature[i].payload = Payload(c.net, e.nonce, e.until)
           /\ {s.key : s \in KeysOf(e.signature)} = KeysOf(c.signers)
           /\ \A i, j \in DOMAIN e.signature : i <= j => e.signature[i].key <= e.signature[j].key
           /\ (\A i, j \in DOMAIN e.signature : e.signature[i].key = e.signature[j].key => i = j)
              => \A i, j \in DOMAIN c.signers : c.signers[i] = c.signers[j] => i = j
<1> DEFINE pay == Payload(c.net, e.nonce, e.until)
           sigs == e.signature
<1>1. PICK t \in Sorted(c.signers) : sigs = MultisigSignature(t, pay)
    BY DEF MadeBy
<1>2. c.signers \in Seq(Nat)
    BY CosigningAssumption DEF MadeBy
<1>3. /\ t \in Seq(Nat) /\ Len(t) = Len(c.signers) /\ DOMAIN t = DOMAIN c.signers
      /\ \A i, j \in DOMAIN t : i <= j => t[i] <= t[j]
      /\ KeysOf(t) = KeysOf(c.signers)
      /\ (\A i, j \in DOMAIN t : t[i] = t[j] => i = j)
         => \A i, j \in DOMAIN c.signers : c.signers[i] = c.signers[j] => i = j
    BY <1>2, SortedIs
<1> HIDE DEF pay, sigs
<1>4. sigs = [i \in DOMAIN t |-> [key |-> t[i], payload |-> pay]]
    BY <1>1 DEF MultisigSignature
<1>5. /\ DOMAIN sigs = DOMAIN t
      /\ \A i \in DOMAIN t : sigs[i].key = t[i] /\ sigs[i].payload = pay
    BY <1>4
<1>6. Len(sigs) = Len(t)
    <2>1. DOMAIN t = 1..Len(t) /\ Len(t) \in Nat
        BY <1>3
    <2> QED BY <1>4, <2>1
<1>7. {s.key : s \in KeysOf(sigs)} = KeysOf(t)
    BY <1>5 DEF KeysOf
<1>8. \A i, j \in DOMAIN sigs : i <= j => sigs[i].key <= sigs[j].key
    BY <1>3, <1>5
<1>9. (\A i, j \in DOMAIN sigs : sigs[i].key = sigs[j].key => i = j)
      => \A i, j \in DOMAIN t : t[i] = t[j] => i = j
    BY <1>5
<1> QED BY <1>3, <1>5, <1>6, <1>7, <1>8, <1>9 DEF pay, sigs
-----------------------------------------------------------------------------
(***************************************************************************)
(* The steps.                                                              *)
(***************************************************************************)
LEMMA GenuineStays ==
    ASSUME NEW e, Genuine(e), calls \subseteq calls'
    PROVE  Genuine(e)'
BY DEF Genuine, MadeBy

LEMMA EffectsStay ==
    ASSUME IInv, UNCHANGED effects, calls \subseteq calls'
    PROVE  AuthorizedInOneCall'
BY DEF IInv, AuthorizedInOneCall, Approves

LEMMA EntryStays ==
    ASSUME IInv, NEW e, NEW i, Entry(e, i), draws' \in {draws, draws + 1}
    PROVE  Entry(e, i)'
<1>1. draws \in Nat
    BY CosigningAssumption DEF IInv, Shape
<1> QED BY <1>1 DEF Entry, Expiries

\* Places exchange entries, and get at most new ones that are as they should be.
LEMMA HoldingKeepsIInv ==
    ASSUME IInv, UNCHANGED effects, calls \subseteq calls',
           draws' \in {draws, draws + 1}, draws' \in 0..MaxDraws, ledger' \in 1..MaxLedger,
           DOMAIN held' = Places,
           \A q \in Places : DOMAIN held'[q] \in {{}, DOMAIN Needs},
           \A q \in Places : \A j \in DOMAIN held'[q] :
               \/ \E s \in Places : j \in DOMAIN held[s] /\ held'[q][j] = held[s][j]
               \/ \E e : held'[q][j] = e /\ Entry(e, j)' /\ Genuine(e)'
    PROVE  IInv'
<1>1. \A s \in Places : \A j \in DOMAIN held[s] :
          \E e : held[s][j] = e /\ Entry(e, j)' /\ Genuine(e)'
    <2> SUFFICES ASSUME NEW s \in Places, NEW j \in DOMAIN held[s]
                 PROVE  \E e : held[s][j] = e /\ Entry(e, j)' /\ Genuine(e)'
        OBVIOUS
    <2>1. PICK e : e = held[s][j]
        OBVIOUS
    <2>2. Entry(e, j) /\ Genuine(e)
        BY <2>1 DEF IInv, Shape, AllGenuine
    <2> QED BY <2>1, <2>2, EntryStays, GenuineStays
<1>2. \A q \in Places : \A j \in DOMAIN held'[q] :
          \E e : held'[q][j] = e /\ Entry(e, j)' /\ Genuine(e)'
    BY <1>1
<1>3. \A q \in Places : \A j \in DOMAIN held'[q] : Entry(held[q][j], j)' /\ Genuine(held[q][j])'
    <2> SUFFICES ASSUME NEW q \in Places, NEW j \in DOMAIN held'[q]
                 PROVE  Entry(held[q][j], j)' /\ Genuine(held[q][j])'
        OBVIOUS
    <2>1. PICK e : held'[q][j] = e /\ Entry(e, j)' /\ Genuine(e)'
        BY <1>2
    <2>2. Entry(held[q][j], j)'
        BY <2>1 DEF Entry
    <2>3. Genuine(held[q][j])'
        BY <2>1 DEF Genuine, MadeBy
    <2> QED BY <2>2, <2>3
<1>4. Shape' /\ AllGenuine'
    BY <1>3 DEF Shape, AllGenuine
<1> QED BY <1>4, EffectsStay DEF IInv

LEMMA SignedEntry ==
    ASSUME IInv, NEW e, NEW k, Entry(e, k), Genuine(e), UNCHANGED draws, calls \subseteq calls',
           NEW a \in Addresses, NEW r \in Keyrings, NEW u \in Expiries, NEW n \in Nets,
           NEW sorted \in Sorted(r), NEW new, new = SignAuthEntry(e, a, sorted, u, n),
           e.cred = a => [account |-> a, nonce |-> e.nonce, signers |-> r,
                          until |-> u, net |-> n] \in calls'
    PROVE  Entry(new, k)' /\ Genuine(new)'
<1>1. CASE e.cred # a
    BY <1>1, EntryStays, GenuineStays DEF SignAuthEntry
<1>2. CASE e.cred = a
    <2> DEFINE sig == MultisigSignature(sorted, Payload(n, e.nonce, u))
               c == [account |-> a, nonce |-> e.nonce, signers |-> r, until |-> u, net |-> n]
    <2>1. a # Source
        BY CosigningAssumption
    <2>2. new = [cred |-> e.cred, nonce |-> e.nonce, until |-> u, signature |-> sig]
        <3>1. new = [e EXCEPT !.until = u, !.signature = sig]
            BY <1>2, <2>1 DEF SignAuthEntry
        <3>2. e = [cred |-> e.cred, nonce |-> e.nonce, until |-> e.until,
                   signature |-> e.signature]
            BY DEF Entry
        <3> HIDE DEF sig
        <3> QED BY <3>1, <3>2
    <2>3. /\ new.cred = a /\ new.nonce = e.nonce /\ new.until = u /\ new.signature = sig
          /\ new = [cred |-> new.cred, nonce |-> new.nonce, until |-> new.until,
                    signature |-> new.signature]
        <3> HIDE DEF sig
        <3> QED BY <1>2, <2>2
    <2>4. Entry(new, k)
        BY <1>2, <2>3 DEF Entry
    <2>5. c \in calls'
        BY <1>2
    <2>6. MadeBy(c, new)
        <3>1. c.account = a /\ c.nonce = e.nonce /\ c.until = u /\ c.signers = r /\ c.net = n
            OBVIOUS
        <3> HIDE DEF c
        <3> QED BY <2>3, <3>1 DEF MadeBy
    <2> HIDE DEF c
    <2>7. Genuine(new)'
        BY <2>3, <2>5, <2>6 DEF Genuine, MadeBy
    <2> QED BY <2>4, <2>7, EntryStays
<1> QED BY <1>1, <1>2

LEMMA SignKeepsIInv ==
    ASSUME IInv, NEW p \in Places, NEW k \in DOMAIN Needs, NEW a \in Addresses,
           NEW r \in Keyrings, NEW u \in Expiries, NEW n \in Nets, Sign(p, k, a, r, u, n)
    PROVE  IInv'
<1>1. /\ k \in DOMAIN held[p] /\ UNCHANGED <<draws, ledger, effects>>
      /\ calls \subseteq calls'
    BY DEF Sign
<1>2. PICK e : e = held[p][k]
    OBVIOUS
<1>3. PICK sorted \in Sorted(r) :
          held' = [held EXCEPT ![p] = [held[p] EXCEPT ![k] = SignAuthEntry(e, a, sorted, u, n)]]
    BY <1>2 DEF Sign
<1>4. PICK new : new = SignAuthEntry(e, a, sorted, u, n)
    OBVIOUS
<1>5. Entry(e, k) /\ Genuine(e)
    BY <1>1, <1>2 DEF IInv, Shape, AllGenuine
<1>6. e.cred = a => [account |-> a, nonce |-> e.nonce, signers |-> r,
                     until |-> u, net |-> n] \in calls'
    BY <1>2 DEF Sign
<1>7. Entry(new, k)' /\ Genuine(new)'
    BY <1>1, <1>4, <1>5, <1>6, SignedEntry
<1>8. held' = [held EXCEPT ![p] = [held[p] EXCEPT ![k] = new]]
    BY <1>3, <1>4
<1>9. /\ DOMAIN held' = Places /\ \A q \in Places \ {p} : held'[q] = held[q]
      /\ DOMAIN held'[p] = DOMAIN held[p]
      /\ held'[p][k] = new /\ \A j \in DOMAIN held[p] \ {k} : held'[p][j] = held[p][j]
    BY <1>1, <1>8 DEF IInv, Shape
<1>10. \A q \in Places : DOMAIN held'[q] \in {{}, DOMAIN Needs}
    BY <1>9 DEF IInv, Shape
<1>11. \A q \in Places : \A j \in DOMAIN held'[q] :
           \/ \E s \in Places : j \in DOMAIN held[s] /\ held'[q][j] = held[s][j]
           \/ \E f : held'[q][j] = f /\ Entry(f, j)' /\ Genuine(f)'
    BY <1>7, <1>9
<1> QED BY <1>1, <1>9, <1>10, <1>11, HoldingKeepsIInv DEF IInv, Shape

LEMMA RecordKeepsIInv ==
    ASSUME IInv, NEW p \in Places, Record(p)
    PROVE  IInv'
<1>1. draws \in Nat /\ draws' = draws + 1 /\ draws' \in 0..MaxDraws
      /\ UNCHANGED <<ledger, effects, calls>>
    BY CosigningAssumption DEF Record, IInv, Shape
<1>2. PICK drawn : drawn = [i \in DOMAIN Needs |->
          [cred |-> Needs[i], nonce |-> <<draws + 1, i>>, until |-> 0, signature |-> Void]]
    OBVIOUS
<1>3. DOMAIN held' = Places /\ held'[p] = drawn /\ \A q \in Places \ {p} : held'[q] = held[q]
    BY <1>2 DEF Record, IInv, Shape
<1>4. \A i \in DOMAIN Needs : Entry(drawn[i], i)' /\ Genuine(drawn[i])'
    <2> SUFFICES ASSUME NEW i \in DOMAIN Needs PROVE Entry(drawn[i], i)' /\ Genuine(drawn[i])'
        OBVIOUS
    <2>1. drawn[i] = [cred |-> Needs[i], nonce |-> <<draws', i>>, until |-> 0, signature |-> Void]
        BY <1>1, <1>2
    <2>2. draws' \in 1..draws'
        BY <1>1
    <2> QED BY <2>1, <2>2 DEF Entry, Genuine
<1>5. \A q \in Places : DOMAIN held'[q] \in {{}, DOMAIN Needs}
    BY <1>2, <1>3 DEF IInv, Shape
<1>6. \A q \in Places : \A j \in DOMAIN held'[q] :
          \/ \E s \in Places : j \in DOMAIN held[s] /\ held'[q][j] = held[s][j]
          \/ \E e : held'[q][j] = e /\ Entry(e, j)' /\ Genuine(e)'
    BY <1>2, <1>3, <1>4
<1> QED BY <1>1, <1>3, <1>5, <1>6, HoldingKeepsIInv DEF IInv, Shape

LEMMA PassKeepsIInv ==
    ASSUME IInv, NEW p \in Places, NEW q \in Places, NEW which \in SUBSET DOMAIN Needs,
           Pass(p, q, which)
    PROVE  IInv'
<1>1. /\ DOMAIN held[p] = DOMAIN Needs
      /\ which = DOMAIN Needs \/ DOMAIN held[q] = DOMAIN Needs
      /\ DOMAIN held' = Places /\ \A o \in Places \ {q} : held'[o] = held[o]
      /\ DOMAIN held'[q] = DOMAIN Needs
      /\ \A i \in DOMAIN Needs : held'[q][i] = IF i \in which THEN held[p][i] ELSE held[q][i]
    BY DEF Pass, IInv, Shape
<1>2. \A o \in Places : \A i \in DOMAIN held'[o] :
          \E s \in Places : i \in DOMAIN held[s] /\ held'[o][i] = held[s][i]
    BY <1>1
<1>3. \A o \in Places : DOMAIN held'[o] \in {{}, DOMAIN Needs}
    BY <1>1 DEF IInv, Shape
<1> QED BY <1>1, <1>2, <1>3, HoldingKeepsIInv DEF Pass, IInv, Shape

\* A payload that __check_auth lets pass: the contract is initialized, and the
\* signatures are of that payload, by registered signers, each of them once,
\* as many as the threshold (lib.rs:99-134).
LEMMA CheckAuthPasses ==
    ASSUME NEW st, NEW payload, NEW sigs, CheckAuth(st, payload, sigs) = "Ok"
    PROVE  /\ st # NotInitialized
           /\ \A i \in DOMAIN sigs :
                  /\ sigs[i].key \in KeysOf(st.signers)
                  /\ sigs[i].payload = payload
                  /\ \A j \in 1..(i - 1) : sigs[j].key # sigs[i].key
           /\ ~(Len(sigs) < st.threshold)
<1>1. st # NotInitialized
    BY DEF CheckAuth
<1>2. Stops(st, payload, sigs) = {}
    <2>1. SUFFICES ASSUME Stops(st, payload, sigs) # {} PROVE FALSE
        OBVIOUS
    <2>2. CheckAuth(st, payload, sigs) = Refusal(st, payload, sigs)
        BY <1>1, <2>1 DEF CheckAuth
    <2>3. Refusal(st, payload, sigs) # "Ok"
        BY DEF Refusal
    <2> QED BY <2>2, <2>3
<1>3. CheckAuth(st, payload, sigs) =
          IF Len(sigs) < st.threshold THEN "InsufficientSignatures" ELSE "Ok"
    BY <1>1, <1>2 DEF CheckAuth
<1>4. ~(Len(sigs) < st.threshold)
    BY <1>3
<1>5. \A i \in DOMAIN sigs : ~(UnknownAt(st, sigs, i) \/ SeenAt(sigs, i) \/ TrapsAt(payload, sigs, i))
    BY <1>2 DEF Stops
<1> QED BY <1>1, <1>4, <1>5 DEF UnknownAt, SeenAt, TrapsAt

\* What __check_auth let pass was made by one call with enough signers.
LEMMA AcceptedIsApproved ==
    ASSUME NEW e, Genuine(e), Accepted(e), e.cred # Source
    PROVE  \E c \in calls : Approves(c, e)
<1> DEFINE st == Storage[e.cred]
<1>1. /\ e.cred \in Addresses /\ e.signature # Void
      /\ CheckAuth(st, Payload(Here, e.nonce, e.until), e.signature) = "Ok"
    BY DEF Accepted
<1>2. /\ \A i \in DOMAIN e.signature :
             /\ e.signature[i].key \in KeysOf(st.signers)
             /\ e.signature[i].payload = Payload(Here, e.nonce, e.until)
             /\ \A j \in 1..(i - 1) : e.signature[j].key # e.signature[i].key
      /\ ~(Len(e.signature) < st.threshold)
    BY <1>1, CheckAuthPasses
<1>3. PICK c \in calls : MadeBy(c, e)
    BY <1>1 DEF Genuine
<1>4. /\ Len(e.signature) = Len(c.signers) /\ DOMAIN e.signature = DOMAIN c.signers
      /\ \A i \in DOMAIN e.signature :
             e.signature[i].payload = Payload(c.net, e.nonce, e.until)
      /\ {s.key : s \in KeysOf(e.signature)} = KeysOf(c.signers)
      /\ (\A i, j \in DOMAIN e.signature : e.signature[i].key = e.signature[j].key => i = j)
         => \A i, j \in DOMAIN c.signers : c.signers[i] = c.signers[j] => i = j
    BY <1>3, MadeSignature
<1>5. c.signers \in Seq(Nat) /\ st.threshold \in Nat
    BY <1>1, <1>3, CosigningAssumption DEF MadeBy
<1>6. DOMAIN c.signers = 1..Len(c.signers) /\ Len(c.signers) \in Nat
    BY <1>5
<1>7. \A i, j \in DOMAIN e.signature : e.signature[i].key = e.signature[j].key => i = j
    <2>1. \A i, j \in 1..Len(c.signers) : j < i => e.signature[j].key # e.signature[i].key
        BY <1>2, <1>4, <1>6
    <2>2. \A i, j \in 1..Len(c.signers) : i < j \/ j < i \/ i = j
        BY <1>6
    <2> QED BY <1>4, <1>6, <2>1, <2>2
<1>8. KeysOf(c.signers) \subseteq KeysOf(st.signers)
    <2>1. \A s \in KeysOf(e.signature) : s.key \in KeysOf(st.signers)
        BY <1>2 DEF KeysOf
    <2> QED BY <1>4, <2>1
<1>9. c.signers # <<>> => c.net = Here
    <2> SUFFICES ASSUME c.signers # <<>> PROVE c.net = Here
        OBVIOUS
    <2>1. 1 \in DOMAIN e.signature
        BY <1>4, <1>5, <1>6
    <2>2. Payload(c.net, e.nonce, e.until) = Payload(Here, e.nonce, e.until)
        BY <1>2, <1>4, <2>1
    <2> QED BY <2>2 DEF Payload
<1>10. Len(c.signers) >= st.threshold
    BY <1>2, <1>4, <1>5, <1>6
<1> QED BY <1>3, <1>4, <1>7, <1>8, <1>9, <1>10 DEF Approves, MadeBy

LEMMA LandKeepsIInv ==
    ASSUME IInv, NEW p \in Places, Land(p)
    PROVE  IInv'
<1>1. UNCHANGED <<held, draws, ledger, calls>>
    BY DEF Land
<1>2. Shape' /\ AllGenuine'
    <2>1. Shape'
        BY <1>1 DEF IInv, Shape, Entry
    <2>2. AllGenuine'
        BY <1>1 DEF IInv, AllGenuine, Genuine, MadeBy
    <2> QED BY <2>1, <2>2
<1>3. \A e \in effects' \ effects : \E i \in DOMAIN held[p] : e = held[p][i] /\ e.cred # Source
    BY DEF Land
<1>4. \A e \in effects' \ effects : \E c \in calls : Approves(c, e)
    <2> SUFFICES ASSUME NEW i \in DOMAIN held[p], held[p][i].cred # Source
                 PROVE  \E c \in calls : Approves(c, held[p][i])
        BY <1>3
    <2>1. Accepted(held[p][i]) /\ Genuine(held[p][i])
        BY DEF Land, IInv, AllGenuine
    <2> QED BY <2>1, AcceptedIsApproved
<1>5. AuthorizedInOneCall'
    BY <1>1, <1>4 DEF IInv, AuthorizedInOneCall, Approves
<1> QED BY <1>2, <1>5 DEF IInv

LEMMA OthersKeepIInv ==
    ASSUME IInv, CloseLedger \/ UNCHANGED vars
    PROVE  IInv'
<1>1. UNCHANGED <<held, draws, effects, calls>> /\ ledger' \in 1..MaxLedger
    BY CosigningAssumption DEF CloseLedger, vars, IInv, Shape
<1>2. Shape' /\ AllGenuine'
    <2>1. Shape'
        BY <1>1 DEF IInv, Shape, Entry
    <2>2. AllGenuine'
        BY <1>1 DEF IInv, AllGenuine, Genuine, MadeBy
    <2> QED BY <2>1, <2>2
<1> QED BY <1>1, <1>2, EffectsStay DEF IInv

LEMMA InitIInv == Init => IInv
BY CosigningAssumption DEF Init, IInv, Shape, AllGenuine, AuthorizedInOneCall

LEMMA NextKeepsIInv == IInv /\ [Next]_vars => IInv'
<1> SUFFICES ASSUME IInv, [Next]_vars PROVE IInv'
    OBVIOUS
<1>1. ASSUME NEW p \in Places, Record(p) PROVE IInv'
    BY <1>1, RecordKeepsIInv
<1>2. ASSUME NEW p \in Places, Land(p) PROVE IInv'
    BY <1>2, LandKeepsIInv
<1>3. ASSUME NEW p \in Places, NEW q \in Places, NEW which \in SUBSET DOMAIN Needs, Pass(p, q, which)
      PROVE  IInv'
    BY <1>3, PassKeepsIInv
<1>4. ASSUME NEW p \in Places, NEW i \in DOMAIN Needs, NEW a \in Addresses, NEW r \in Keyrings,
             NEW u \in Expiries, NEW n \in Nets, Sign(p, i, a, r, u, n)
      PROVE  IInv'
    BY <1>4, SignKeepsIInv
<1>5. CASE CloseLedger \/ UNCHANGED vars
    BY <1>5, OthersKeepIInv
<1> QED BY <1>1, <1>2, <1>3, <1>4, <1>5 DEF Next
-----------------------------------------------------------------------------
\* The invariant holds in every reachable state.
THEOREM Invariance == Spec => []IInv
BY InitIInv, NextKeepsIInv, PTL DEF Spec

\* An entry stays the entry of its account and its recording, whoever signed it
\* (auth.rs:156-179).
THEOREM TypeCorrect == Spec => []TypeOK
<1>1. IInv => TypeOK
    <2> SUFFICES ASSUME IInv, NEW p \in Places, NEW i \in DOMAIN held[p]
                 PROVE  LET e == held[p][i] IN
                        /\ e.cred = Needs[i] /\ e.nonce \in (1..draws) \X {i}
                        /\ e.until \in {0} \cup Expiries
                        /\ e.signature # Void => e.cred # Source
        BY DEF TypeOK, IInv, Shape
    <2> QED BY CosigningAssumption DEF IInv, Shape, AllGenuine, Entry, Genuine
<1> QED BY <1>1, Invariance, PTL

\* Every signature is over the nonce and the expiry of the entry that carries
\* it, for any places, key rings and order of calls (auth.rs:163-179).
THEOREM SignaturesMatch == Spec => []SignedOverItself
<1>1. IInv => SignedOverItself
    <2> SUFFICES ASSUME IInv, NEW p \in Places, NEW i \in DOMAIN held[p],
                        held[p][i].signature # Void
                 PROVE  \E n \in Nets : \A s \in KeysOf(held[p][i].signature) :
                            s.payload = Payload(n, held[p][i].nonce, held[p][i].until)
        BY DEF SignedOverItself
    <2>1. PICK c \in calls : MadeBy(c, held[p][i])
        BY DEF IInv, AllGenuine, Genuine
    <2>2. \A j \in DOMAIN held[p][i].signature :
              held[p][i].signature[j].payload = Payload(c.net, held[p][i].nonce, held[p][i].until)
        BY <2>1, MadeSignature
    <2>3. c.net \in Nets
        BY <2>1 DEF MadeBy
    <2> QED BY <2>2, <2>3 DEF KeysOf
<1> QED BY <1>1, Invariance, PTL

\* The signatures of an entry are one call's, complete and in ascending order
\* (auth.rs:86-121, 156-161).
THEOREM OneCallSigns == Spec => []SignedForItsAccount
<1>1. IInv => SignedForItsAccount
    <2> SUFFICES ASSUME IInv, NEW p \in Places, NEW i \in DOMAIN held[p],
                        held[p][i].signature # Void
                 PROVE  \E c \in calls : Makes(c, held[p][i])
        BY DEF SignedForItsAccount
    <2>1. PICK c \in calls : MadeBy(c, held[p][i])
        BY DEF IInv, AllGenuine, Genuine
    <2> QED BY <2>1, MadeSignature DEF Makes, MadeBy
<1> QED BY <1>1, Invariance, PTL

\* Nothing takes effect for an account but what enough of its signers approved
\* within one call (auth.rs:169-179, lib.rs:116-133).
THEOREM OneCallAuthorizes == Spec => []AuthorizedInOneCall
<1>1. IInv => AuthorizedInOneCall
    BY DEF IInv
<1> QED BY <1>1, Invariance, PTL
=============================================================================
