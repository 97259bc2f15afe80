--------------------------- MODULE Account_proofs ---------------------------
(***************************************************************************)
(* Account's types, the budget and signature invariants, the all-or-none   *)
(* debit and the bound on what clones draw together, for every u16 width   *)
(* and every set of handles, guards, transactions and signers.  What the   *)
(* guard operators return comes first; what a guard counts in a tree of    *)
(* invocations (InvocationTree, a specification of its own) comes last.    *)
(***************************************************************************)
EXTENDS Account, InvocationTree, FiniteSetTheorems, NaturalsInduction, WellFoundedInduction, TLAPS

(***************************************************************************)
(* Guards: check and update.                                               *)
(***************************************************************************)
\* A guard taken from a list has a natural budget.
LEMMA GuardOfList ==
    ASSUME NEW gs \in Seq(Guard), NEW i \in DOMAIN gs
    PROVE  gs[i] \in Guard /\ gs[i].remaining \in Nat
<1>1. gs[i] \in Guard
  OBVIOUS
<1> QED
  BY <1>1, GuardsAssumption DEF Guard

\* A transaction costs a natural number (a count is an unsigned integer).
LEMMA CostType ==
    ASSUME NEW g \in Guard, NEW tx \in Txs
    PROVE  Cost(g, tx) \in Nat
BY GuardsAssumption DEF Guard, Cost

\* Guard::update keeps the guard's scope and leaves a u16: it never underflows.
LEMMA UpdateType ==
    ASSUME NEW g \in Guard, NEW tx \in Txs
    PROVE  /\ Update(g, tx) \in Guard
           /\ Update(g, tx).scope = g.scope
<1>1. Cost(g, tx) \in Nat
  BY CostType
<1>2. CASE Cost(g, tx) > 0 /\ g.remaining >= Cost(g, tx)
  <2>1. g.remaining - Cost(g, tx) \in 0..MaxRemaining
    BY <1>1, <1>2, GuardsAssumption DEF Guard
  <2>2. Update(g, tx) = [g EXCEPT !.remaining = g.remaining - Cost(g, tx)]
    BY <1>2 DEF Update
  <2> QED
    BY <2>1, <2>2 DEF Guard
<1>3. CASE ~(Cost(g, tx) > 0 /\ g.remaining >= Cost(g, tx))
  BY <1>3 DEF Update
<1> QED
  BY <1>2, <1>3

\* A guard that passes check is debited by update, by exactly the cost, and the
\* cost is never nothing: check and update, written apart, agree.
LEMMA CheckedUpdateTakesCost ==
    ASSUME NEW g \in Guard, NEW tx \in Txs, Check(g, tx)
    PROVE  /\ Cost(g, tx) > 0
           /\ Update(g, tx).remaining = g.remaining - Cost(g, tx)
<1>1. Cost(g, tx) > 0 /\ g.remaining >= Cost(g, tx)
  BY GuardsAssumption DEF Check, Cost, Guard
<1>2. Update(g, tx) = [g EXCEPT !.remaining = g.remaining - Cost(g, tx)]
  BY <1>1 DEF Update
<1> QED
  BY <1>1, <1>2 DEF Guard

\* update_guards keeps the list of guards and their order.
LEMMA UpdateGuardsType ==
    ASSUME NEW gs \in Seq(Guard), NEW tx \in Txs
    PROVE  /\ UpdateGuards(gs, tx) \in Seq(Guard)
           /\ DOMAIN UpdateGuards(gs, tx) = DOMAIN gs
           /\ \A i \in DOMAIN gs : UpdateGuards(gs, tx)[i] = Update(gs[i], tx)
<1>1. \A i \in 1..Len(gs) : gs[i] \in Guard /\ Update(gs[i], tx) \in Guard
  BY UpdateType
<1>2. UpdateGuards(gs, tx) = [i \in 1..Len(gs) |-> Update(gs[i], tx)]
  BY DEF UpdateGuards
<1>3. UpdateGuards(gs, tx) \in Seq(Guard)
  BY <1>1, <1>2
<1> QED
  BY <1>2, <1>3

\* When every guard passes check_guards, update_guards takes the cost from each.
THEOREM CheckedGuardsPay ==
    ASSUME NEW gs \in Seq(Guard), NEW tx \in Txs, CheckGuards(gs, tx), NEW i \in DOMAIN gs
    PROVE  /\ Cost(gs[i], tx) \in Nat \ {0}
           /\ UpdateGuards(gs, tx)[i].remaining = gs[i].remaining - Cost(gs[i], tx)
<1>1. gs[i] \in Guard /\ Check(gs[i], tx)
  BY DEF CheckGuards
<1> QED
  BY <1>1, CostType, CheckedUpdateTakesCost, UpdateGuardsType

(***************************************************************************)
(* The types, budgets and signatures are proved together: what a release   *)
(* takes from a budget is read off the books, and both need the types.     *)
(***************************************************************************)
\* A handle that was not created yet has no guard that a clone could overwrite.
FreeHasNoGuards == \A h \in Handles : status[h] = "free" => guards[h] = <<>>

IInv == TypeOK /\ BudgetConserved /\ SignaturesCollected /\ FreeHasNoGuards

(***************************************************************************)
(* The parts a signing call is built from.                                 *)
(***************************************************************************)
\* Appending a list of signatures adds its keys, and nothing else.
LEMMA KeysOfAppended ==
    ASSUME NEW a \in Seq(Signers), NEW b \in Seq(Signers)
    PROVE  /\ a \o b \in Seq(Signers)
           /\ Keys(a \o b) = Keys(a) \cup Keys(b)
           /\ Keys(a) \in SUBSET Signers
<1>1. a \o b \in Seq(Signers) /\ Len(a \o b) = Len(a) + Len(b)
  OBVIOUS
<1>2. \A i \in 1..Len(a) : (a \o b)[i] = a[i]
  OBVIOUS
<1>3. \A i \in 1..Len(b) : (a \o b)[Len(a) + i] = b[i]
  OBVIOUS
<1>4. \A i \in 1..(Len(a) + Len(b)) : i \in 1..Len(a) \/ i - Len(a) \in 1..Len(b)
  OBVIOUS
<1>5. Keys(a \o b) \subseteq Keys(a) \cup Keys(b)
  <2> SUFFICES ASSUME NEW i \in 1..(Len(a) + Len(b))
               PROVE  (a \o b)[i] \in Keys(a) \cup Keys(b)
    BY <1>1 DEF Keys
  <2>1. CASE i \in 1..Len(a)
    BY <2>1, <1>2 DEF Keys
  <2>2. CASE i - Len(a) \in 1..Len(b)
    <3>1. (a \o b)[i] = b[i - Len(a)]
      BY <2>2, <1>3
    <3> QED
      BY <3>1, <2>2 DEF Keys
  <2> QED
    BY <2>1, <2>2, <1>4
<1>6. Keys(a) \cup Keys(b) \subseteq Keys(a \o b)
  <2>1. \A i \in 1..Len(a) : i \in 1..Len(a \o b)
    BY <1>1
  <2>2. \A i \in 1..Len(b) : Len(a) + i \in 1..Len(a \o b)
    BY <1>1
  <2> QED
    BY <1>2, <1>3, <2>1, <2>2 DEF Keys
<1>7. Keys(a) \in SUBSET Signers
  BY DEF Keys
<1> QED
  BY <1>1, <1>5, <1>6, <1>7

\* Booking a cost raises an entry's spending by it and keeps the rest.
LEMMA EntryBooked ==
    ASSUME NEW b \in Entry, NEW n \in Nat
    PROVE  LET new == [b EXCEPT !.spent = @ + n]
           IN  /\ new \in Entry
               /\ new.spent = b.spent + n
               /\ new.granted = b.granted
               /\ new.origin = b.origin
BY DEF Entry

\* The books stay one entry per guard, and record each guard's cost.
LEMMA BookedType ==
    ASSUME NEW h, NEW tx, book[h] \in Seq(Entry),
           \A i \in DOMAIN book[h] : Cost(guards[h][i], tx) \in Nat
    PROVE  /\ Booked(h, tx) \in Seq(Entry)
           /\ DOMAIN Booked(h, tx) = DOMAIN book[h]
           /\ \A i \in DOMAIN book[h] :
                  /\ Booked(h, tx)[i].spent = book[h][i].spent + Cost(guards[h][i], tx)
                  /\ Booked(h, tx)[i].granted = book[h][i].granted
                  /\ Booked(h, tx)[i].origin = book[h][i].origin
<1>1. DOMAIN Booked(h, tx) = 1..Len(book[h])
  BY DEF Booked
<1>2. ASSUME NEW i \in 1..Len(book[h])
      PROVE  /\ Booked(h, tx)[i] \in Entry
             /\ Booked(h, tx)[i].spent = book[h][i].spent + Cost(guards[h][i], tx)
             /\ Booked(h, tx)[i].granted = book[h][i].granted
             /\ Booked(h, tx)[i].origin = book[h][i].origin
  <2>1. book[h][i] \in Entry /\ Cost(guards[h][i], tx) \in Nat
    OBVIOUS
  <2>2. Booked(h, tx)[i] = [book[h][i] EXCEPT !.spent = @ + Cost(guards[h][i], tx)]
    BY DEF Booked
  <2> QED
    BY <2>1, <2>2, EntryBooked
<1>3. Booked(h, tx) \in [1..Len(book[h]) -> Entry]
  <2>1. Booked(h, tx) = [i \in 1..Len(book[h]) |->
                            [book[h][i] EXCEPT !.spent = @ + Cost(guards[h][i], tx)]]
    BY DEF Booked
  <2> QED
    BY <2>1, <1>2
<1>4. Booked(h, tx) \in Seq(Entry)
  BY <1>3
<1> QED
  BY <1>1, <1>2, <1>4

\* A signing call leaves the handle live, or configure moves it.
StatusAdvances(h) ==
    /\ status' \in [Handles -> {"free", "live", "moved"}]
    /\ status[h] = "live"
    /\ \A x \in Handles : status'[x] = "free" => status[x] = "free"

\* A guarded release keeps the invariant: each guard pays what the books
\* record, and the slot's keys grow by those of the handle.
LEMMA ReleaseKeepsIInv ==
    ASSUME IInv, NEW h \in Handles, NEW e \in Envelope, NEW k \in Slots,
           NEW before \in SUBSET Signers,
           CheckGuards(guards[h], e.tx),
           Len(e.signatures) <= MaxSignatures,
           Keys(e.signatures) = before \cup Keys(signers[h]),
           Release(h, before, e, k),
           StatusAdvances(h)
    PROVE  IInv'
<1> DEFINE gs == guards[h]
<1> USE DEF IInv, StatusAdvances
<1>1. gs \in Seq(Guard) /\ e.tx \in Txs /\ book[h] \in Seq(Entry) /\ DOMAIN book[h] = DOMAIN gs
  BY DEF TypeOK, Envelope, BudgetConserved
<1>2. /\ guards' = [guards EXCEPT ![h] = UpdateGuards(gs, e.tx)]
      /\ book' = [book EXCEPT ![h] = Booked(h, e.tx)]
      /\ held' = [held EXCEPT ![k] = e]
      /\ result' = "Ok"
      /\ released' = {[by |-> h, tx |-> e.tx]}
      /\ collected' = [collected EXCEPT ![k] = before \cup Keys(signers[h])]
      /\ drawn' = [o \in DOMAIN drawn |-> drawn[o] + DrawnBy(h, e.tx, o[1], o[2])]
      /\ signers' = signers
  BY DEF Release
<1>3. \A i \in DOMAIN gs : /\ gs[i] \in Guard /\ book[h][i] \in Entry
                           /\ Cost(gs[i], e.tx) \in Nat
                           /\ UpdateGuards(gs, e.tx)[i].remaining = gs[i].remaining - Cost(gs[i], e.tx)
  BY <1>1, CheckedGuardsPay
<1>4. Booked(h, e.tx) \in Seq(Entry) /\ DOMAIN Booked(h, e.tx) = DOMAIN gs
  BY <1>1, BookedType, <1>3
<1>5. \A o \in Handles \X (1..MaxGuards) : DrawnBy(h, e.tx, o[1], o[2]) \in Nat
  BY <1>1, <1>3 DEF DrawnBy
<1>6. TypeOK'
  <2>1. guards' \in [Handles -> Seq(Guard)]
    BY <1>1, <1>2, UpdateGuardsType DEF TypeOK
  <2>2. book' \in [Handles -> Seq(Entry)]
    BY <1>2, <1>4 DEF TypeOK
  <2>3. drawn' \in [Handles \X (1..MaxGuards) -> Nat]
    BY <1>2, <1>5 DEF TypeOK
  <2>4. collected' \in [Slots -> SUBSET Signers]
    <3>1. Keys(signers[h]) \in SUBSET Signers
      BY DEF Keys, TypeOK
    <3> QED
      BY <3>1, <1>2 DEF TypeOK
  <2>5. /\ held' \in [Slots -> Envelope]
        /\ signers' \in [Handles -> Seq(Signers)]
        /\ result' \in Errors \cup {"None", "Ok"}
        /\ released' \in SUBSET [by : Handles, tx : Txs]
    BY <1>1, <1>2 DEF TypeOK
  <2> QED
    BY <2>1, <2>2, <2>3, <2>4, <2>5 DEF TypeOK
<1>7. BudgetConserved'
  <2> SUFFICES ASSUME NEW x \in Handles
               PROVE  /\ DOMAIN book'[x] = DOMAIN guards'[x]
                      /\ \A i \in DOMAIN guards'[x] :
                             guards'[x][i].remaining + book'[x][i].spent = book'[x][i].granted
    BY DEF BudgetConserved
  <2>1. CASE x # h
    BY <2>1, <1>2 DEF BudgetConserved, TypeOK
  <2>2. CASE x = h
    <3>1. guards'[h] = UpdateGuards(gs, e.tx) /\ book'[h] = Booked(h, e.tx)
      BY <1>2 DEF TypeOK
    <3>2. DOMAIN guards'[h] = DOMAIN gs
      BY <3>1, <1>1, UpdateGuardsType
    <3>3. ASSUME NEW i \in DOMAIN gs
          PROVE  guards'[h][i].remaining + book'[h][i].spent = book'[h][i].granted
      <4>1. gs[i].remaining + book[h][i].spent = book[h][i].granted
        BY DEF BudgetConserved
      <4>2. /\ book'[h][i].spent = book[h][i].spent + Cost(gs[i], e.tx)
            /\ book'[h][i].granted = book[h][i].granted
        BY <3>1, <1>1, <1>3, BookedType
      <4>3. guards'[h][i].remaining = gs[i].remaining - Cost(gs[i], e.tx)
        BY <3>1, <1>3
      <4>4. gs[i].remaining \in Nat /\ book[h][i].spent \in Nat /\ Cost(gs[i], e.tx) \in Nat
        BY <1>3, GuardsAssumption DEF Guard, Entry
      <4> QED
        BY <4>1, <4>2, <4>3, <4>4
    <3> QED
      BY <2>2, <3>1, <3>2, <3>3, <1>4
  <2> QED
    BY <2>1, <2>2
<1>8. SignaturesCollected'
  BY <1>2 DEF SignaturesCollected, TypeOK
<1>9. FreeHasNoGuards'
  BY <1>2 DEF FreeHasNoGuards, TypeOK
<1> QED
  BY <1>6, <1>7, <1>8, <1>9

\* A call that fails changes nothing but what it returns.
LEMMA FailKeepsIInv ==
    ASSUME IInv, NEW error \in Errors, Fail(error), NEW h \in Handles, StatusAdvances(h)
    PROVE  IInv'
<1> USE DEF IInv, Fail, StatusAdvances
<1>1. TypeOK'
  BY DEF TypeOK
<1>2. BudgetConserved'
  BY DEF BudgetConserved
<1>3. SignaturesCollected'
  BY DEF SignaturesCollected
<1>4. FreeHasNoGuards'
  BY DEF FreeHasNoGuards
<1> QED
  BY <1>1, <1>2, <1>3, <1>4

\* The body sign_transaction and configure share.
LEMMA SignKeepsIInv ==
    ASSUME IInv, NEW h \in Handles, NEW tx \in Txs, NEW k \in Slots,
           Sign(h, tx, k), StatusAdvances(h)
    PROVE  IInv'
<1>1. "Unauthorized" \in Errors /\ "XdrEncodingFailed" \in Errors
  BY DEF Errors
<1>2. CASE Fail("Unauthorized") \/ Fail("XdrEncodingFailed")
  BY <1>1, <1>2, FailKeepsIInv
<1>3. CASE /\ CheckGuards(guards[h], tx) /\ ~TooMany(signers[h])
           /\ Release(h, {}, Tx(tx, signers[h]), k)
  <2>1. signers[h] \in Seq(Signers)
    BY DEF IInv, TypeOK
  <2>2. /\ Tx(tx, signers[h]) \in Envelope
        /\ Tx(tx, signers[h]).tx = tx
        /\ Tx(tx, signers[h]).signatures = signers[h]
    BY <2>1 DEF Tx, Envelope
  <2>3. Len(signers[h]) <= MaxSignatures
    BY <2>1, <1>3, AccountAssumption DEF TooMany
  <2> QED
    BY <1>3, <2>2, <2>3, ReleaseKeepsIInv
<1> QED
  BY <1>2, <1>3 DEF Sign

LEMMA SignEnvelopeKeepsIInv ==
    ASSUME IInv, NEW h \in Handles, NEW k \in Slots, SignTransactionEnvelope(h, k)
    PROVE  IInv'
<1> DEFINE e == held[k]
           all == e.signatures \o signers[h]
<1>1. {"Unauthorized", "XdrEncodingFailed", "SigningFailed"} \subseteq Errors
  BY DEF Errors
<1>2. StatusAdvances(h)
  BY DEF SignTransactionEnvelope, StatusAdvances, IInv, TypeOK
<1>3. CASE \E error \in {"Unauthorized", "XdrEncodingFailed", "SigningFailed"} : Fail(error)
  BY <1>1, <1>2, <1>3, FailKeepsIInv
<1>4. CASE /\ CheckGuards(guards[h], e.tx) /\ ~TooMany(all)
           /\ Release(h, collected[k], Cosigned(h, e), k)
  <2>1. /\ e \in Envelope /\ e.tx \in Txs /\ e.signatures \in Seq(Signers)
        /\ signers[h] \in Seq(Signers)
        /\ collected[k] \in SUBSET Signers
        /\ Keys(e.signatures) = collected[k]
    BY DEF IInv, TypeOK, Envelope, SignaturesCollected
  <2>2. all \in Seq(Signers) /\ Keys(all) = collected[k] \cup Keys(signers[h])
    BY <2>1, KeysOfAppended
  <2>3. /\ Cosigned(h, e) \in Envelope
        /\ Cosigned(h, e).tx = e.tx
        /\ Cosigned(h, e).signatures = all
    BY <2>1, <2>2 DEF Cosigned, Tx, Envelope
  <2>4. Len(all) <= MaxSignatures
    <3>1. MaxSignatures \in Nat
      BY AccountAssumption
    <3>2. Len(all) \in Nat
      <4>1. \A s \in Seq(Signers) : Len(s) \in Nat
        OBVIOUS
      <4> HIDE DEF all
      <4> QED
        BY <2>2, <4>1
    <3>3. ~(Len(all) > MaxSignatures)
      BY <1>4 DEF TooMany
    <3> HIDE DEF all
    <3> QED
      BY <3>1, <3>2, <3>3
  <2> QED
    BY <1>2, <1>4, <2>1, <2>2, <2>3, <2>4, ReleaseKeepsIInv
<1> QED
  BY <1>3, <1>4 DEF SignTransactionEnvelope

LEMMA SignUnsafeKeepsIInv ==
    ASSUME IInv, NEW h \in Handles, NEW tx \in Txs, NEW k \in Slots,
           SignTransactionUnsafe(h, tx, k)
    PROVE  IInv'
<1>1. {"XdrEncodingFailed", "SigningFailed"} \subseteq Errors
  BY DEF Errors
<1>2. StatusAdvances(h)
  BY DEF SignTransactionUnsafe, StatusAdvances, IInv, TypeOK
<1>3. CASE \E error \in {"XdrEncodingFailed", "SigningFailed"} : Fail(error)
  BY <1>1, <1>2, <1>3, FailKeepsIInv
<1>4. CASE /\ ~TooMany(signers[h])
           /\ held' = [held EXCEPT ![k] = Tx(tx, signers[h])]
           /\ result' = "Ok"
           /\ released' = {}
           /\ collected' = [collected EXCEPT ![k] = Keys(signers[h])]
           /\ UNCHANGED <<signers, guards, book, drawn>>
  <2>1. signers[h] \in Seq(Signers) /\ Keys(signers[h]) \in SUBSET Signers
    BY DEF IInv, TypeOK, Keys
  <2>2. Tx(tx, signers[h]) \in Envelope /\ Tx(tx, signers[h]).signatures = signers[h]
    BY <2>1 DEF Tx, Envelope
  <2>3. Len(signers[h]) <= MaxSignatures
    BY <2>1, <1>4, AccountAssumption DEF TooMany
  <2>4. TypeOK'
    BY <1>2, <1>4, <2>1, <2>2 DEF IInv, TypeOK, StatusAdvances
  <2>5. BudgetConserved'
    BY <1>4 DEF IInv, BudgetConserved
  <2>6. SignaturesCollected'
    BY <1>4, <2>2, <2>3 DEF IInv, TypeOK, SignaturesCollected
  <2>7. FreeHasNoGuards'
    BY <1>2, <1>4 DEF IInv, FreeHasNoGuards, StatusAdvances
  <2> QED
    BY <2>4, <2>5, <2>6, <2>7 DEF IInv
<1> QED
  BY <1>3, <1>4 DEF SignTransactionUnsafe

LEMMA ConfigureKeepsIInv ==
    ASSUME IInv, NEW h \in Handles, NEW tx \in ConfigTxs, NEW k \in Slots, Configure(h, tx, k)
    PROVE  IInv'
<1>1. tx \in Txs
  BY AccountAssumption
<1>2. StatusAdvances(h)
  BY DEF Configure, StatusAdvances, IInv, TypeOK
<1>3. CASE \E error \in Errors : Fail(error)
  BY <1>2, <1>3, FailKeepsIInv
<1>4. CASE Sign(h, tx, k)
  BY <1>1, <1>2, <1>4, SignKeepsIInv
<1> QED
  BY <1>3, <1>4 DEF Configure, Errors

LEMMA CreateKeepsIInv ==
    ASSUME IInv, NEW h \in Handles, NEW ss \in Seq(Signers), Create(h, ss)
    PROVE  IInv'
<1> USE DEF IInv, Create
<1>1. TypeOK'
  BY DEF TypeOK
<1>2. BudgetConserved'
  BY DEF BudgetConserved
<1>3. SignaturesCollected'
  BY DEF SignaturesCollected
<1>4. FreeHasNoGuards'
  BY DEF FreeHasNoGuards, TypeOK
<1> QED
  BY <1>1, <1>2, <1>3, <1>4

LEMMA AddGuardKeepsIInv ==
    ASSUME IInv, NEW h \in Handles, NEW g \in Guard, AddGuard(h, g)
    PROVE  IInv'
<1> DEFINE entry == [origin |-> h, granted |-> g.remaining, spent |-> 0]
<1>1. /\ guards[h] \in Seq(Guard) /\ book[h] \in Seq(Entry)
      /\ Len(book[h]) = Len(guards[h])
      /\ entry \in Entry
      /\ g.remaining \in Nat
  <2>1. guards[h] \in Seq(Guard) /\ book[h] \in Seq(Entry) /\ DOMAIN book[h] = DOMAIN guards[h]
    BY DEF IInv, TypeOK, BudgetConserved
  <2>2. g.remaining \in 0..MaxRemaining
    BY DEF Guard
  <2> QED
    BY <2>1, <2>2, GuardsAssumption DEF Entry
<1>2. /\ guards' = [guards EXCEPT ![h] = Append(guards[h], g)]
      /\ book' = [book EXCEPT ![h] = Append(book[h], entry)]
      /\ UNCHANGED <<status, signers, held, drawn, collected>>
      /\ result' = "None" /\ released' = {}
      /\ status[h] = "live"
  BY DEF AddGuard
<1>3. TypeOK'
  BY <1>1, <1>2 DEF IInv, TypeOK
<1>4. BudgetConserved'
  <2> SUFFICES ASSUME NEW x \in Handles
               PROVE  /\ DOMAIN book'[x] = DOMAIN guards'[x]
                      /\ \A i \in DOMAIN guards'[x] :
                             guards'[x][i].remaining + book'[x][i].spent = book'[x][i].granted
    BY DEF BudgetConserved
  <2>1. CASE x # h
    BY <2>1, <1>2 DEF IInv, BudgetConserved, TypeOK
  <2>2. CASE x = h
    <3>1. guards'[h] = Append(guards[h], g) /\ book'[h] = Append(book[h], entry)
      BY <1>2 DEF IInv, TypeOK
    <3>2. DOMAIN guards'[h] = 1..(Len(guards[h]) + 1) /\ DOMAIN book'[h] = 1..(Len(guards[h]) + 1)
      BY <3>1, <1>1
    <3>3. ASSUME NEW i \in 1..Len(guards[h])
          PROVE  guards'[h][i].remaining + book'[h][i].spent = book'[h][i].granted
      <4>1. guards'[h][i] = guards[h][i] /\ book'[h][i] = book[h][i]
        BY <3>1, <1>1
      <4> QED
        BY <4>1, <1>1 DEF IInv, BudgetConserved
    <3>4. /\ guards'[h][Len(guards[h]) + 1] = g
          /\ book'[h][Len(guards[h]) + 1] = entry
      BY <3>1, <1>1
    <3>5. g.remaining + entry.spent = entry.granted
      BY <1>1
    <3>6. \A i \in 1..(Len(guards[h]) + 1) : i \in 1..Len(guards[h]) \/ i = Len(guards[h]) + 1
      BY <1>1
    <3> QED
      BY <2>2, <3>2, <3>3, <3>4, <3>5, <3>6
  <2> QED
    BY <2>1, <2>2
<1>5. SignaturesCollected'
  BY <1>2 DEF IInv, SignaturesCollected
<1>6. FreeHasNoGuards'
  BY <1>2 DEF IInv, FreeHasNoGuards, TypeOK
<1> QED
  BY <1>3, <1>4, <1>5, <1>6 DEF IInv

LEMMA CloneKeepsIInv ==
    ASSUME IInv, NEW h \in Handles, NEW k \in Handles, Clone(h, k)
    PROVE  IInv'
<1> USE DEF IInv, Clone
<1>1. TypeOK'
  BY DEF TypeOK
<1>2. BudgetConserved'
  BY DEF BudgetConserved, TypeOK
<1>3. SignaturesCollected'
  BY DEF SignaturesCollected
<1>4. FreeHasNoGuards'
  BY DEF FreeHasNoGuards, TypeOK
<1> QED
  BY <1>1, <1>2, <1>3, <1>4

(***************************************************************************)
(* The invariant.                                                          *)
(***************************************************************************)
LEMMA InitIInv == Init => IInv
<1> SUFFICES ASSUME Init PROVE IInv
  OBVIOUS
<1> USE DEF Init
<1>1. \A k \in Slots : /\ held[k] \in Envelope
                       /\ held[k].signatures \in Seq(Signers)
                       /\ Len(held[k].signatures) <= MaxSignatures
  BY AccountAssumption DEF Envelope
<1>2. TypeOK
  <2>1. \A k \in Slots : Keys(held[k].signatures) \in SUBSET Signers
    BY <1>1 DEF Keys
  <2>2. held \in [Slots -> Envelope]
    BY <1>1
  <2> QED
    BY <2>1, <2>2 DEF TypeOK
<1>3. BudgetConserved
  BY DEF BudgetConserved
<1>4. SignaturesCollected
  BY <1>1 DEF SignaturesCollected
<1>5. FreeHasNoGuards
  BY DEF FreeHasNoGuards
<1> QED
  BY <1>2, <1>3, <1>4, <1>5 DEF IInv

LEMMA NextKeepsIInv == IInv /\ [Next]_vars => IInv'
<1> SUFFICES ASSUME IInv, [Next]_vars PROVE IInv'
  OBVIOUS
<1>1. ASSUME NEW h \in Handles, NEW s \in Signers, Single(h, s) PROVE IInv'
  <2>1. <<s>> \in Seq(Signers)
    OBVIOUS
  <2> QED
    BY <1>1, <2>1, CreateKeepsIInv DEF Single
<1>2. ASSUME NEW h \in Handles, NEW ss \in SignerLists, Multisig(h, ss) PROVE IInv'
  BY <1>2, CreateKeepsIInv, AccountAssumption DEF Multisig
<1>3. ASSUME NEW h \in Handles, NEW g \in Guard, AddGuard(h, g) PROVE IInv'
  BY <1>3, AddGuardKeepsIInv
<1>4. ASSUME NEW h \in Handles, NEW k \in Handles, Clone(h, k) PROVE IInv'
  BY <1>4, CloneKeepsIInv
<1>5. ASSUME NEW h \in Handles, NEW k \in Slots, NEW tx \in Txs, SignTransaction(h, tx, k)
      PROVE  IInv'
  <2>1. StatusAdvances(h) /\ Sign(h, tx, k)
    BY <1>5 DEF SignTransaction, StatusAdvances, IInv, TypeOK
  <2> QED
    BY <2>1, SignKeepsIInv
<1>6. ASSUME NEW h \in Handles, NEW k \in Slots, NEW tx \in Txs, SignTransactionUnsafe(h, tx, k)
      PROVE  IInv'
  BY <1>6, SignUnsafeKeepsIInv
<1>7. ASSUME NEW h \in Handles, NEW k \in Slots, SignTransactionEnvelope(h, k) PROVE IInv'
  BY <1>7, SignEnvelopeKeepsIInv
<1>8. ASSUME NEW h \in Handles, NEW k \in Slots, NEW tx \in ConfigTxs, Configure(h, tx, k)
      PROVE  IInv'
  BY <1>8, ConfigureKeepsIInv
<1>9. CASE UNCHANGED vars
  BY <1>9 DEF vars, IInv, TypeOK, BudgetConserved, SignaturesCollected, FreeHasNoGuards
<1> QED
  BY <1>1, <1>2, <1>3, <1>4, <1>5, <1>6, <1>7, <1>8, <1>9 DEF Next

\* The inductive invariant of accounts holds, whatever calls are made on them.
THEOREM Invariance == Spec => []IInv
<1> QED
  BY InitIInv, NextKeepsIInv, PTL DEF Spec

\* Every handle, guard list, envelope and book keeps its type: no counter
\* leaves u16, no envelope is malformed.
THEOREM TypeCorrect == Spec => []TypeOK
BY Invariance, PTL DEF IInv

\* The budget of every guard is conserved, whatever sequence of signatures,
\* refusals, failures and clones its handle goes through.
THEOREM BudgetIsConserved == Spec => []BudgetConserved
BY Invariance, PTL DEF IInv

\* A co-signed envelope carries the signatures of those who signed it, of
\* nobody else, and never too many.
THEOREM SignaturesAreCollected == Spec => []SignaturesCollected
BY Invariance, PTL DEF IInv
(***************************************************************************)
(* The debit of a step.                                                    *)
(***************************************************************************)
\* What DebitAllOrNone says of one step.
Paid(h, i) == guards[h][i].remaining - guards'[h][i].remaining

DebitStep ==
    \A h \in Handles : \A i \in DOMAIN guards[h] :
        IF \E r \in released' : r.by = h
        THEN \E r \in released' : r.by = h /\ Paid(h, i) = Cost(guards[h][i], r.tx) /\ Paid(h, i) > 0
        ELSE Paid(h, i) = 0

\* A step that keeps the guards there were, and gives no guarded signature.
LEMMA NoDebit ==
    ASSUME IInv, released' = {},
           \A h \in Handles : \A i \in DOMAIN guards[h] : guards'[h][i] = guards[h][i]
    PROVE  DebitStep
<1>1. \A h \in Handles : \A i \in DOMAIN guards[h] : guards[h][i].remaining \in Nat
  <2> SUFFICES ASSUME NEW h \in Handles, NEW i \in DOMAIN guards[h]
               PROVE  guards[h][i].remaining \in Nat
    OBVIOUS
  <2>1. guards[h][i] \in Guard
    BY DEF IInv, TypeOK
  <2> QED
    BY <2>1, GuardsAssumption DEF Guard
<1> QED
  BY <1>1 DEF DebitStep, Paid

LEMMA FailDebitsNothing ==
    ASSUME IInv, NEW error, Fail(error)
    PROVE  DebitStep
BY NoDebit DEF Fail

LEMMA ReleaseDebitsAll ==
    ASSUME IInv, NEW h \in Handles, NEW e, NEW k, NEW before,
           e.tx \in Txs, CheckGuards(guards[h], e.tx), Release(h, before, e, k)
    PROVE  DebitStep
<1>1. released' = {[by |-> h, tx |-> e.tx]}
  BY DEF Release
<1>2. guards[h] \in Seq(Guard) /\ guards' = [guards EXCEPT ![h] = UpdateGuards(guards[h], e.tx)]
  BY DEF Release, IInv, TypeOK
<1>3. ASSUME NEW i \in DOMAIN guards[h]
      PROVE  Paid(h, i) = Cost(guards[h][i], e.tx) /\ Paid(h, i) > 0
  <2>1. /\ Cost(guards[h][i], e.tx) \in Nat \ {0}
        /\ guards'[h][i].remaining = guards[h][i].remaining - Cost(guards[h][i], e.tx)
    BY <1>2, CheckedGuardsPay DEF IInv, TypeOK
  <2>2. guards[h][i].remaining \in Nat
    BY <1>2, GuardOfList
  <2> QED
    BY <2>1, <2>2 DEF Paid
<1>4. ASSUME NEW x \in Handles, x # h, NEW i \in DOMAIN guards[x]
      PROVE  Paid(x, i) = 0
  <2>1. guards[x][i] \in Guard /\ guards'[x][i] = guards[x][i]
    BY <1>2, <1>4 DEF IInv, TypeOK
  <2> QED
    BY <2>1, GuardsAssumption DEF Paid, Guard
<1> QED
  BY <1>1, <1>3, <1>4 DEF DebitStep

LEMMA SignDebits ==
    ASSUME IInv, NEW h \in Handles, NEW tx \in Txs, NEW k, Sign(h, tx, k)
    PROVE  DebitStep
<1>1. Tx(tx, signers[h]).tx = tx
  BY DEF Tx
<1> QED
  BY <1>1, FailDebitsNothing, ReleaseDebitsAll DEF Sign

LEMMA NextDebits ==
    ASSUME IInv, Next
    PROVE  DebitStep
<1>1. ASSUME NEW h \in Handles, NEW ss, Create(h, ss) PROVE DebitStep
  BY <1>1, NoDebit DEF Create
<1>2. ASSUME NEW h \in Handles, NEW g \in Guard, AddGuard(h, g) PROVE DebitStep
  <2>1. guards[h] \in Seq(Guard) /\ guards' = [guards EXCEPT ![h] = Append(guards[h], g)]
    BY <1>2 DEF AddGuard, IInv, TypeOK
  <2>2. \A x \in Handles : \A i \in DOMAIN guards[x] : guards'[x][i] = guards[x][i]
    BY <2>1 DEF IInv, TypeOK
  <2> QED
    BY <1>2, <2>2, NoDebit DEF AddGuard
<1>3. ASSUME NEW h \in Handles, NEW k \in Handles, Clone(h, k) PROVE DebitStep
  <2>1. guards[k] = <<>> /\ guards' = [guards EXCEPT ![k] = guards[h]]
    BY <1>3 DEF Clone, IInv, FreeHasNoGuards
  <2>2. \A x \in Handles : \A i \in DOMAIN guards[x] : guards'[x][i] = guards[x][i]
    BY <2>1 DEF IInv, TypeOK
  <2> QED
    BY <1>3, <2>2, NoDebit DEF Clone
<1>4. ASSUME NEW h \in Handles, NEW k \in Slots, NEW tx \in Txs, SignTransaction(h, tx, k)
      PROVE  DebitStep
  BY <1>4, SignDebits DEF SignTransaction
<1>5. ASSUME NEW h \in Handles, NEW k \in Slots, NEW tx \in Txs, SignTransactionUnsafe(h, tx, k)
      PROVE  DebitStep
  <2>1. released' = {} /\ guards' = guards
    BY <1>5 DEF SignTransactionUnsafe, Fail
  <2> QED
    BY <2>1, NoDebit
<1>6. ASSUME NEW h \in Handles, NEW k \in Slots, SignTransactionEnvelope(h, k) PROVE DebitStep
  <2>1. held[k].tx \in Txs /\ Cosigned(h, held[k]).tx = held[k].tx
    BY DEF IInv, TypeOK, Envelope, Cosigned, Tx
  <2> QED
    BY <1>6, <2>1, FailDebitsNothing, ReleaseDebitsAll DEF SignTransactionEnvelope
<1>7. ASSUME NEW h \in Handles, NEW k \in Slots, NEW tx \in ConfigTxs, Configure(h, tx, k)
      PROVE  DebitStep
  BY <1>7, AccountAssumption, SignDebits, FailDebitsNothing DEF Configure
<1> QED
  BY <1>1, <1>2, <1>3, <1>4, <1>5, <1>6, <1>7 DEF Next, Single, Multisig

\* Every step of every behaviour debits all the guards of the handle that
\* signed, by what the transaction costs each, or none at all.
THEOREM DebitIsAllOrNone == Spec => DebitAllOrNone
<1>1. IInv /\ [Next]_vars => [DebitStep]_vars
  BY NextDebits
<1>2. [DebitStep]_vars =>
        [\A h \in Handles : \A i \in DOMAIN guards[h] :
           LET paid == guards[h][i].remaining - guards'[h][i].remaining
           IN IF \E r \in released' : r.by = h
              THEN \E r \in released' :
                       r.by = h /\ paid = Cost(guards[h][i], r.tx) /\ paid > 0
              ELSE paid = 0]_vars
  BY DEF DebitStep, Paid
<1> QED
  BY <1>1, <1>2, Invariance, PTL DEF Spec, DebitAllOrNone
(***************************************************************************)
(* Sums over a finite set of handles.  The library's theorems on folds and *)
(* on induction take an operator as a parameter, so the sum is read as the *)
(* number of elements of a set.                                            *)
(***************************************************************************)
\* One element per unit of the budgets f of the members of S.
Units(f, S) == {p \in S \X Nat : p[2] \in 1..f[p[1]]}

\* F is the recursion by which MapThenSumSet adds f up over the subsets of S.
IsSum(f, S, F) ==
    F = [s \in SUBSET S |-> IF s = {} THEN 0
                            ELSE LET x == CHOOSE x \in s : TRUE IN f[x] + F[s \ {x}]]

\* Budgets that share a bound have finitely many units.
LEMMA UnitsFinite ==
    ASSUME NEW S, IsFiniteSet(S), NEW n \in Nat, NEW f, \A x \in S : f[x] \in 0..n
    PROVE  IsFiniteSet(Units(f, S)) /\ Cardinality(Units(f, S)) \in Nat
<1>1. IsFiniteSet(1..n)
  BY FS_Interval
<1>2. IsFiniteSet(S \X (1..n))
  BY <1>1, FS_Product
<1>3. Units(f, S) \subseteq S \X (1..n)
  BY DEF Units
<1> QED
  BY <1>2, <1>3, FS_Subset, FS_CardinalityType

\* One budget has as many units as it is worth.
LEMMA UnitsOfOne ==
    ASSUME NEW x, NEW n \in Nat, NEW f, f[x] = n
    PROVE  Cardinality(Units(f, {x})) = n
<1> DEFINE g == [i \in 1..n |-> <<x, i>>]
<1>1. g \in Bijection(1..n, Units(f, {x}))
  BY DEF Bijection, Injection, Surjection, Units, IsInjective
<1>2. IsFiniteSet(1..n) /\ Cardinality(1..n) = n
  BY FS_Interval
<1> QED
  BY <1>1, <1>2, FS_Bijection DEF ExistsBijection

\* The units of a set are those of one member and those of the rest.
LEMMA UnitsRemove ==
    ASSUME NEW S, IsFiniteSet(S), NEW n \in Nat, NEW f, \A x \in S : f[x] \in 0..n,
           NEW x \in S
    PROVE  Cardinality(Units(f, S)) = f[x] + Cardinality(Units(f, S \ {x}))
<1>1. IsFiniteSet(S \ {x}) /\ IsFiniteSet({x})
  BY FS_Subset, FS_Singleton
<1>2. /\ IsFiniteSet(Units(f, {x})) /\ IsFiniteSet(Units(f, S \ {x}))
      /\ Cardinality(Units(f, S \ {x})) \in Nat
  BY <1>1, UnitsFinite
<1>3. Units(f, S) = Units(f, {x}) \cup Units(f, S \ {x})
  BY DEF Units
<1>4. Units(f, {x}) \cap Units(f, S \ {x}) = {}
  BY DEF Units
<1>5. Cardinality(Units(f, {x})) = f[x] /\ f[x] \in Nat
  BY UnitsOfOne
<1>6. Cardinality(Units(f, S)) =
          Cardinality(Units(f, {x})) + Cardinality(Units(f, S \ {x})) - Cardinality({})
  BY <1>2, <1>3, <1>4, FS_Union, Zenon
<1> QED
  BY <1>2, <1>5, <1>6, FS_EmptySet

\* No budget, no unit.
LEMMA UnitsOfNone ==
    ASSUME NEW f
    PROVE  Cardinality(Units(f, {})) = 0
<1>1. Units(f, {}) = {}
  BY DEF Units
<1> QED
  BY <1>1, FS_EmptySet

\* The recursion has a solution: the number of units of each subset.
LEMMA SumExists ==
    ASSUME NEW S, IsFiniteSet(S), NEW n \in Nat, NEW f, \A x \in S : f[x] \in 0..n
    PROVE  \E F : IsSum(f, S, F)
<1> DEFINE U == [s \in SUBSET S |-> Cardinality(Units(f, s))]
<1>1. ASSUME NEW s \in SUBSET S, s # {}
      PROVE  LET x == CHOOSE x \in s : TRUE IN U[s] = f[x] + U[s \ {x}]
  <2> DEFINE x == CHOOSE x \in s : TRUE
  <2> HIDE DEF x
  <2>1. x \in s
    BY <1>1 DEF x
  <2>2. IsFiniteSet(s)
    BY FS_Subset
  <2>3. Cardinality(Units(f, s)) = f[x] + Cardinality(Units(f, s \ {x}))
    BY <2>1, <2>2, UnitsRemove
  <2>4. U[s] = f[x] + U[s \ {x}]
    BY <2>3
  <2> QED
    BY <2>4 DEF x
<1>2. U[{}] = 0
  BY UnitsOfNone
<1>3. IsSum(f, S, U)
  BY <1>1, <1>2, Zenon DEF IsSum
<1> QED
  BY <1>3

\* And no other: a least subset on which two solutions differ is neither empty
\* nor has a member to remove.
LEMMA SumCounts ==
    ASSUME NEW S, IsFiniteSet(S), NEW n \in Nat, NEW f, \A x \in S : f[x] \in 0..n,
           NEW F, IsSum(f, S, F)
    PROVE  F[S] = Cardinality(Units(f, S))
<1> DEFINE T == {s \in SUBSET S : F[s] # Cardinality(Units(f, s))}
<1> SUFFICES ASSUME T # {} PROVE FALSE
  OBVIOUS
<1>1. \A s \in SUBSET S : IsFiniteSet(s)
  BY FS_Subset
<1>2. T \subseteq FiniteSubsetsOf(S)
  BY <1>1 DEF FiniteSubsetsOf
<1>3. PICK s \in T : \A r \in T : ~(<<r, s>> \in StrictSubsetOrdering(S))
  <2> HIDE DEF T
  <2> QED BY <1>2, FS_StrictSubsetOrderingWellFounded, WFMin
<1>4. CASE s = {}
  <2>1. F[s] = 0
    BY <1>4 DEF IsSum
  <2> QED
    BY <2>1, <1>3, <1>4, UnitsOfNone
<1>5. CASE s # {}
  <2> DEFINE x == CHOOSE x \in s : TRUE
  <2>1. F[s] = f[x] + F[s \ {x}]
    BY <1>5 DEF IsSum
  <2> HIDE DEF x
  <2>2. x \in s
    BY <1>5 DEF x
  <2>3. s \ {x} \notin T
    <3>1. s \in SUBSET S /\ s \ {x} \in SUBSET S /\ s \ {x} \subseteq s /\ s \ {x} # s
      BY <2>2
    <3>2. <<s \ {x}, s>> \in StrictSubsetOrdering(S)
      BY <3>1 DEF StrictSubsetOrdering
    <3> QED
      BY <1>3, <3>2
  <2>4. F[s \ {x}] = Cardinality(Units(f, s \ {x}))
    BY <2>3
  <2>5. Cardinality(Units(f, s)) = f[x] + Cardinality(Units(f, s \ {x}))
    BY <1>1, <2>2, UnitsRemove
  <2> QED
    BY <2>1, <2>4, <2>5
<1> QED
  BY <1>4, <1>5

(***************************************************************************)
(* What the copies of a guard draw together.                               *)
(***************************************************************************)
\* The budgets of the guards at position i.
Budget(i) == [h \in Handles |-> guards[h][i].remaining]

\* What the copies of a guard have left, counted.
LeftUnits(o, i) == Cardinality(Units(Budget(i), Holders(o, i)))

\* A book entry names a handle that still has the entry it was copied from.
OriginsBooked ==
    \A h \in Handles : \A i \in DOMAIN book[h] :
        LET o == book[h][i].origin
        IN  /\ i \in DOMAIN book[o]
            /\ book[o][i].origin = o
            /\ book[o][i].granted = book[h][i].granted

\* Nothing was drawn under a guard that was never added.
DrawnWasBooked ==
    \A o \in Handles, i \in 1..MaxGuards :
        drawn[<<o, i>>] # 0 => i \in DOMAIN book[o] /\ book[o][i].origin = o

GuardsBounded == \A h \in Handles : Len(guards[h]) <= MaxGuards

\* Of the handles there could be, finitely many were created.
CreatedFinite == IsFiniteSet({h \in Handles : status[h] # "free"})

\* DrawBoundedByCopies, with the sum counted.
DrawnWithinCopies ==
    \A o \in Handles : \A i \in DOMAIN book[o] :
        book[o][i].origin = o =>
            drawn[<<o, i>>] + LeftUnits(o, i)
                <= book[o][i].granted * Cardinality(Holders(o, i))

CopiesInv ==
    /\ OriginsBooked /\ DrawnWasBooked /\ GuardsBounded /\ CreatedFinite
    /\ DrawnWithinCopies

\* The handles with a copy of a guard are finitely many, and each copy has a
\* budget that its grant bounds.
LEMMA HoldersFinite ==
    ASSUME IInv, CreatedFinite, NEW o, NEW i
    PROVE  /\ IsFiniteSet(Holders(o, i)) /\ Cardinality(Holders(o, i)) \in Nat
           /\ \A h \in Holders(o, i) : /\ Budget(i)[h] \in 0..MaxRemaining
                                       /\ Budget(i)[h] <= book[h][i].granted
                                       /\ book[h][i].granted \in Nat
           /\ LeftUnits(o, i) \in Nat
<1>1. ASSUME NEW h \in Holders(o, i)
      PROVE  /\ status[h] # "free"
             /\ Budget(i)[h] \in 0..MaxRemaining
             /\ Budget(i)[h] <= book[h][i].granted
             /\ book[h][i].granted \in Nat
  <2>1. h \in Handles /\ i \in DOMAIN book[h] /\ DOMAIN guards[h] = DOMAIN book[h]
    BY DEF Holders, IInv, BudgetConserved
  <2>2. status[h] # "free"
    BY <2>1 DEF IInv, FreeHasNoGuards
  <2>3. guards[h] \in Seq(Guard) /\ book[h] \in Seq(Entry)
    BY <2>1 DEF IInv, TypeOK
  <2>4. guards[h][i] \in Guard /\ book[h][i] \in Entry
    BY <2>1, <2>3
  <2>5. guards[h][i].remaining + book[h][i].spent = book[h][i].granted
    BY <2>1 DEF IInv, BudgetConserved
  <2> QED
    BY <2>1, <2>2, <2>4, <2>5, GuardsAssumption DEF Guard, Entry, Budget
<1>2. Holders(o, i) \in SUBSET {h \in Handles : status[h] # "free"}
  BY <1>1 DEF Holders
<1>3. IsFiniteSet(Holders(o, i))
  BY <1>2, FS_Subset DEF CreatedFinite
<1>4. MaxRemaining \in Nat
  BY GuardsAssumption
<1> QED
  BY <1>1, <1>3, <1>4, FS_CardinalityType, UnitsFinite DEF LeftUnits

\* The sum that the property takes over the copies is the number of their units.
LEMMA LeftCounts ==
    IInv /\ CreatedFinite => \A o, i : Left(o, i) = LeftUnits(o, i)
<1> SUFFICES ASSUME IInv, CreatedFinite, NEW o, NEW i
             PROVE  Left(o, i) = LeftUnits(o, i)
  OBVIOUS
<1> DEFINE S == Holders(o, i)
           P(F) == F = [s \in SUBSET S |->
                           IF s = {} THEN 0
                           ELSE LET x == CHOOSE x \in s : TRUE
                                IN  guards[x][i].remaining + F[s \ {x}]]
<1>1. IsFiniteSet(S) /\ (\A h \in S : Budget(i)[h] \in 0..MaxRemaining) /\ MaxRemaining \in Nat
  BY HoldersFinite, GuardsAssumption
<1>2. \A x \in S : Budget(i)[x] = guards[x][i].remaining
  BY DEF Budget, Holders
<1>3. \A F : P(F) <=> IsSum(Budget(i), S, F)
  BY <1>2 DEF IsSum
<1>4. Left(o, i) = (CHOOSE F : P(F))[S]
  BY Zenon DEF Left, MapThenSumSet, MapThenFoldSet
<1>5. P(CHOOSE F : P(F))
  <2> HIDE DEF P, S
  <2>1. \E F : IsSum(Budget(i), S, F)
    BY <1>1, SumExists
  <2> QED
    BY <1>3, <2>1
<1>6. IsSum(Budget(i), S, CHOOSE F : P(F))
  <2> HIDE DEF P
  <2> QED
    BY <1>3, <1>5
<1> HIDE DEF P
<1> QED
  BY <1>1, <1>4, <1>6, SumCounts DEF LeftUnits

\* Budgets that agree on a set have the same units there.
LEMMA UnitsAgree ==
    ASSUME NEW S, NEW f, NEW g, \A x \in S : f[x] = g[x]
    PROVE  Units(f, S) = Units(g, S)
BY DEF Units

\* A step that leaves a guard's books, copies and budgets alone keeps its bound.
LEMMA SameCopies ==
    ASSUME CopiesInv, NEW o \in Handles, NEW i \in DOMAIN book[o], book[o][i].origin = o,
           Holders(o, i)' = Holders(o, i),
           \A h \in Holders(o, i) : Budget(i)'[h] = Budget(i)[h],
           book'[o][i].granted = book[o][i].granted,
           drawn'[<<o, i>>] = drawn[<<o, i>>]
    PROVE  drawn'[<<o, i>>] + LeftUnits(o, i)'
               <= book'[o][i].granted * Cardinality(Holders(o, i)')
<1>1. LeftUnits(o, i)' = LeftUnits(o, i)
  BY UnitsAgree DEF LeftUnits
<1> QED
  BY <1>1 DEF CopiesInv, DrawnWithinCopies

\* Calls that touch no guard and no book.
LEMMA QuietKeepsCopies ==
    ASSUME CopiesInv, UNCHANGED <<guards, book, drawn>>, CreatedFinite'
    PROVE  CopiesInv'
<1>1. ASSUME NEW o \in Handles, NEW i
      PROVE  Holders(o, i)' = Holders(o, i) /\ LeftUnits(o, i)' = LeftUnits(o, i)
  BY DEF LeftUnits, Holders, Budget
<1>2. DrawnWithinCopies'
  BY <1>1 DEF CopiesInv, DrawnWithinCopies
<1> QED
  BY <1>2 DEF CopiesInv, OriginsBooked, DrawnWasBooked, GuardsBounded

\* A step that creates at most one handle.
LEMMA CreatedStaysFinite ==
    ASSUME CreatedFinite, NEW k,
           \A h \in Handles : h # k /\ status'[h] # "free" => status[h] # "free"
    PROVE  CreatedFinite'
<1>1. IsFiniteSet({h \in Handles : status[h] # "free"} \cup {k})
  BY FS_AddElement DEF CreatedFinite
<1>2. {h \in Handles : status'[h] # "free"}
          \in SUBSET ({h \in Handles : status[h] # "free"} \cup {k})
  OBVIOUS
<1> QED
  BY <1>1, <1>2, FS_Subset DEF CreatedFinite

\* A guard that is added has one copy, which has its whole grant.
LEMMA AddGuardKeepsCopies ==
    ASSUME IInv, CopiesInv, NEW h \in Handles, NEW g \in Guard, AddGuard(h, g)
    PROVE  CopiesInv'
<1> DEFINE n == Len(guards[h]) + 1
           entry == [origin |-> h, granted |-> g.remaining, spent |-> 0]
<1>1. /\ guards[h] \in Seq(Guard) /\ book[h] \in Seq(Entry)
      /\ Len(book[h]) = Len(guards[h]) /\ g.remaining \in Nat
      /\ n \in 1..MaxGuards
  <2>1. guards[h] \in Seq(Guard) /\ book[h] \in Seq(Entry) /\ DOMAIN book[h] = DOMAIN guards[h]
    BY DEF IInv, TypeOK, BudgetConserved
  <2>2. g.remaining \in Nat /\ MaxGuards \in Nat
    BY GuardsAssumption, AccountAssumption DEF Guard
  <2> QED
    BY <2>1, <2>2 DEF AddGuard
<1>2. /\ guards' = [guards EXCEPT ![h] = Append(guards[h], g)]
      /\ book' = [book EXCEPT ![h] = Append(book[h], entry)]
      /\ guards \in [Handles -> Seq(Guard)] /\ book \in [Handles -> Seq(Entry)]
      /\ UNCHANGED <<status, drawn>>
  BY DEF AddGuard, IInv, TypeOK
<1>3. /\ \A x \in Handles \ {h} : guards'[x] = guards[x] /\ book'[x] = book[x]
      /\ guards'[h] = Append(guards[h], g) /\ book'[h] = Append(book[h], entry)
  BY <1>2
<1>4. /\ DOMAIN book[h] = 1..(n - 1) /\ DOMAIN book'[h] = 1..n /\ n \notin DOMAIN book[h]
      /\ \A i \in DOMAIN book[h] : book'[h][i] = book[h][i] /\ guards'[h][i] = guards[h][i]
      /\ book'[h][n] = entry /\ guards'[h][n] = g
      /\ n \in DOMAIN book'[h]
      /\ Len(guards'[h]) = n
  BY <1>1, <1>3
<1> HIDE DEF n, entry
<1>5. entry.origin = h /\ entry.granted = g.remaining
  BY DEF entry
<1>6. \A x \in Handles : \A i \in DOMAIN book'[x] :
          \/ x = h /\ i = n
          \/ i \in DOMAIN book[x] /\ book'[x][i] = book[x][i] /\ guards'[x][i] = guards[x][i]
  <2>1. \A i \in 1..n : i = n \/ i \in 1..(n - 1)
    BY <1>1 DEF n
  <2> QED
    BY <2>1, <1>3, <1>4
<1>7. \A x \in Handles : \A i \in DOMAIN book[x] :
          i \in DOMAIN book'[x] /\ book'[x][i] = book[x][i] /\ guards'[x][i] = guards[x][i]
  <2>1. \A i \in 1..(n - 1) : i \in 1..n
    BY <1>1 DEF n
  <2> QED
    BY <2>1, <1>3, <1>4
<1>8. OriginsBooked'
  <2> SUFFICES ASSUME NEW x \in Handles, NEW i \in DOMAIN book'[x]
               PROVE  LET o == book'[x][i].origin
                      IN  /\ i \in DOMAIN book'[o]
                          /\ book'[o][i].origin = o
                          /\ book'[o][i].granted = book'[x][i].granted
    BY DEF OriginsBooked
  <2>1. CASE x = h /\ i = n
    BY <2>1, <1>4, <1>5
  <2>2. CASE i \in DOMAIN book[x] /\ book'[x][i] = book[x][i]
    <3> DEFINE o == book[x][i].origin
    <3>1. i \in DOMAIN book[o] /\ book[o][i].origin = o /\ book[o][i].granted = book[x][i].granted
      BY <2>2 DEF CopiesInv, OriginsBooked
    <3>2. o \in Handles
      <4>1. book[x] \in Seq(Entry)
        BY <1>2
      <4>2. book[x][i] \in Entry
        BY <4>1, <2>2
      <4> QED
        BY <4>2 DEF Entry
    <3> HIDE DEF o
    <3>3. i \in DOMAIN book'[o] /\ book'[o][i] = book[o][i]
      BY <3>1, <3>2, <1>7
    <3> QED
      BY <2>2, <3>1, <3>3 DEF o
  <2> QED
    BY <2>1, <2>2, <1>6
<1>9. DrawnWasBooked'
  BY <1>2, <1>7 DEF CopiesInv, DrawnWasBooked
<1>10. GuardsBounded'
  BY <1>1, <1>3, <1>4 DEF CopiesInv, GuardsBounded
<1>11. DrawnWithinCopies'
  <2> SUFFICES ASSUME NEW o \in Handles, NEW i \in DOMAIN book'[o], book'[o][i].origin = o
               PROVE  drawn'[<<o, i>>] + LeftUnits(o, i)'
                          <= book'[o][i].granted * Cardinality(Holders(o, i)')
    BY DEF DrawnWithinCopies
  <2>1. CASE o = h /\ i = n
    <3>1. drawn'[<<o, i>>] = 0
      BY <2>1, <1>1, <1>2, <1>4 DEF CopiesInv, DrawnWasBooked, n
    <3>2. ASSUME NEW x \in Holders(o, i)' PROVE x = h
      <4>1. x \in Handles /\ i \in DOMAIN book'[x] /\ book'[x][i].origin = o
        BY DEF Holders
      <4>2. ASSUME i \in DOMAIN book[x], book'[x][i] = book[x][i] PROVE FALSE
        <5>1. i \in DOMAIN book[o]
          BY <4>1, <4>2 DEF CopiesInv, OriginsBooked
        <5> QED
          BY <5>1, <2>1, <1>4
      <4> QED
        BY <4>1, <4>2, <1>6
    <3>3. Holders(o, i)' = {h}
      <4>1. h \in Holders(o, i)'
        BY <2>1, <1>4, <1>5 DEF Holders
      <4> QED
        BY <4>1, <3>2
    <3>4. Budget(i)'[h] = g.remaining
      BY <2>1, <1>4 DEF Budget
    <3>5. LeftUnits(o, i)' = g.remaining
      BY <1>1, <3>3, <3>4, UnitsOfOne DEF LeftUnits
    <3>6. Cardinality(Holders(o, i)') = 1
      BY <3>3, FS_Singleton
    <3>7. book'[o][i].granted = g.remaining
      BY <2>1, <1>4, <1>5
    <3> QED
      BY <3>1, <3>5, <3>6, <3>7, <1>1
  <2>2. CASE ~(o = h /\ i = n)
    <3>1. i \in DOMAIN book[o] /\ book'[o][i] = book[o][i]
      BY <2>2, <1>6
    <3>2. ASSUME NEW x \in Handles
          PROVE  x \in Holders(o, i)' <=> x \in Holders(o, i)
      <4>1. CASE x = h /\ i = n
        BY <4>1, <2>2, <1>4, <1>5 DEF Holders
      <4>2. CASE ~(x = h /\ i = n)
        BY <4>2, <1>6, <1>7 DEF Holders
      <4> QED
        BY <4>1, <4>2
    <3>3. Holders(o, i)' = Holders(o, i)
      <4>1. \A x \in Holders(o, i)' : x \in Handles
        BY DEF Holders
      <4>2. \A x \in Holders(o, i) : x \in Handles
        BY DEF Holders
      <4> QED
        BY <3>2, <4>1, <4>2
    <3>4. \A x \in Holders(o, i) : Budget(i)'[x] = Budget(i)[x]
      BY <1>7 DEF Budget, Holders
    <3> QED
      BY <3>1, <3>3, <3>4, <1>2, SameCopies
  <2> QED
    BY <2>1, <2>2
<1>12. CreatedFinite'
  BY <1>2 DEF CopiesInv, CreatedFinite
<1> QED
  BY <1>8, <1>9, <1>10, <1>11, <1>12 DEF CopiesInv

\* A clone is one more copy of each guard, with at most its grant left.
LEMMA CloneKeepsCopies ==
    ASSUME IInv, CopiesInv, NEW h \in Handles, NEW k \in Handles, Clone(h, k)
    PROVE  CopiesInv'
<1>1. /\ guards' = [guards EXCEPT ![k] = guards[h]]
      /\ book' = [book EXCEPT ![k] = book[h]]
      /\ status' = [status EXCEPT ![k] = "live"]
      /\ drawn' = drawn
      /\ guards \in [Handles -> Seq(Guard)] /\ book \in [Handles -> Seq(Entry)]
      /\ status \in [Handles -> {"free", "live", "moved"}]
  BY DEF Clone, IInv, TypeOK
<1>2. /\ \A x \in Handles \ {k} : guards'[x] = guards[x] /\ book'[x] = book[x]
      /\ guards'[k] = guards[h] /\ book'[k] = book[h]
  BY <1>1
<1>3. DOMAIN book[k] = {} /\ k # h
  BY DEF Clone, IInv, FreeHasNoGuards, BudgetConserved
<1>4. \A x \in Handles : \A i \in DOMAIN book[x] : book[x][i] \in Entry /\ book[x][i].origin \in Handles
  <2> SUFFICES ASSUME NEW x \in Handles, NEW i \in DOMAIN book[x]
               PROVE  book[x][i] \in Entry /\ book[x][i].origin \in Handles
    OBVIOUS
  <2>1. book[x] \in Seq(Entry)
    BY <1>1
  <2>2. book[x][i] \in Entry
    BY <2>1
  <2> QED
    BY <2>2 DEF Entry
\* An entry that some handle has names another handle than the new one.
<1>5. \A x \in Handles : \A i \in DOMAIN book[x] :
          LET o == book[x][i].origin
          IN  /\ o \in Handles \ {k} /\ i \in DOMAIN book[o]
              /\ book[o][i].origin = o /\ book[o][i].granted = book[x][i].granted
  BY <1>3, <1>4 DEF CopiesInv, OriginsBooked
<1>6. OriginsBooked'
  <2> SUFFICES ASSUME NEW x \in Handles, NEW i \in DOMAIN book'[x]
               PROVE  LET o == book'[x][i].origin
                      IN  /\ i \in DOMAIN book'[o]
                          /\ book'[o][i].origin = o
                          /\ book'[o][i].granted = book'[x][i].granted
    BY DEF OriginsBooked
  <2>1. PICK y \in Handles : book'[x] = book[y]
    BY <1>2
  <2> QED
    BY <2>1, <1>2, <1>5
<1>7. DrawnWasBooked'
  BY <1>1, <1>2, <1>3 DEF CopiesInv, DrawnWasBooked
<1>8. GuardsBounded'
  BY <1>2 DEF CopiesInv, GuardsBounded
<1>9. DrawnWithinCopies'
  <2> SUFFICES ASSUME NEW o \in Handles, NEW i \in DOMAIN book'[o], book'[o][i].origin = o
               PROVE  drawn'[<<o, i>>] + LeftUnits(o, i)'
                          <= book'[o][i].granted * Cardinality(Holders(o, i)')
    BY DEF DrawnWithinCopies
  <2>1. o # k /\ i \in DOMAIN book[o] /\ book'[o] = book[o] /\ book[o][i].origin = o
    BY <1>2, <1>5
  <2>2. k \notin Holders(o, i)
    BY <1>3 DEF Holders
  <2>3. \A x \in Holders(o, i) : Budget(i)'[x] = Budget(i)[x]
    BY <1>2, <2>2 DEF Budget, Holders
  <2>4. CASE h \in Holders(o, i)
    <3> DEFINE S == Holders(o, i)
               grant == book[o][i].granted
    <3>1. Holders(o, i)' = S \cup {k}
      BY <2>4, <2>2, <1>2 DEF Holders
    <3>2. \A x \in S \cup {k} : x \in Handles
      BY DEF Holders
    <3>3. Budget(i)'[k] = Budget(i)[h] /\ book[h][i].granted = grant
      BY <1>2, <1>5, <2>4 DEF Budget, Holders
    <3>4. /\ IsFiniteSet(S) /\ Cardinality(S) \in Nat /\ LeftUnits(o, i) \in Nat
          /\ \A x \in S : Budget(i)[x] \in 0..MaxRemaining
          /\ Budget(i)[h] <= grant /\ grant \in Nat
      BY <2>4, <3>3, HoldersFinite DEF CopiesInv
    <3> HIDE DEF S, grant
    <3>5. \A x \in S \cup {k} : Budget(i)'[x] \in 0..MaxRemaining
      BY <2>3, <2>4, <3>3, <3>4 DEF S
    <3>6. IsFiniteSet(S \cup {k}) /\ Cardinality(S \cup {k}) = Cardinality(S) + 1
      BY <2>2, <3>4, FS_AddElement DEF S
    <3>7. (S \cup {k}) \ {k} = S
      BY <2>2 DEF S
    <3>8. Cardinality(Units(Budget(i)', S \cup {k}))
              = Budget(i)'[k] + Cardinality(Units(Budget(i)', S))
      <4> DEFINE T == S \cup {k}
                 b == Budget(i)'
      <4>1. IsFiniteSet(T) /\ k \in T /\ MaxRemaining \in Nat /\ \A x \in T : b[x] \in 0..MaxRemaining
        BY <3>5, <3>6, GuardsAssumption
      <4> HIDE DEF T, b
      <4>2. Cardinality(Units(b, T)) = b[k] + Cardinality(Units(b, T \ {k}))
        BY <4>1, UnitsRemove
      <4> QED
        BY <4>2, <3>7 DEF T, b
    <3>9. Units(Budget(i)', S) = Units(Budget(i), S)
      BY <2>3, UnitsAgree DEF S
    <3>10. LeftUnits(o, i)' = Budget(i)[h] + LeftUnits(o, i)
      BY <3>1, <3>3, <3>8, <3>9 DEF LeftUnits, S
    <3>11. drawn[<<o, i>>] + LeftUnits(o, i) <= grant * Cardinality(S)
      BY <2>1 DEF CopiesInv, DrawnWithinCopies, S, grant
    <3>12. drawn[<<o, i>>] \in Nat
      <4>1. i \in 1..MaxGuards
        <5>1. book[o] \in Seq(Entry) /\ DOMAIN book[o] = DOMAIN guards[o] /\ guards[o] \in Seq(Guard)
          BY <1>1 DEF IInv, BudgetConserved
        <5> QED
          BY <5>1, <2>1, AccountAssumption DEF CopiesInv, GuardsBounded
      <4> QED
        BY <4>1 DEF IInv, TypeOK
    <3>13. grant * (Cardinality(S) + 1) = grant * Cardinality(S) + grant
           /\ grant * Cardinality(S) \in Nat
      BY <3>4
    <3>14. Budget(i)[h] \in Nat
      BY <3>4, <2>4, GuardsAssumption DEF S
    <3>15. drawn'[<<o, i>>] = drawn[<<o, i>>] /\ book'[o][i].granted = grant
      BY <1>1, <2>1 DEF grant
    <3> QED
      BY <3>1, <3>4, <3>6, <3>10, <3>11, <3>12, <3>13, <3>14, <3>15
  <2>5. CASE h \notin Holders(o, i)
    <3>1. Holders(o, i)' = Holders(o, i)
      BY <2>5, <2>2, <1>2 DEF Holders
    <3> QED
      BY <3>1, <2>1, <2>3, <1>1, SameCopies
  <2> QED
    BY <2>4, <2>5
<1>10. CreatedFinite'
  BY <1>1, CreatedStaysFinite DEF CopiesInv
<1> QED
  BY <1>6, <1>7, <1>8, <1>9, <1>10 DEF CopiesInv

\* A guarded signature moves units of one copy to what was drawn under its guard.
LEMMA ReleaseKeepsCopies ==
    ASSUME IInv, CopiesInv, NEW h \in Handles, NEW e, e.tx \in Txs, NEW before, NEW k,
           CheckGuards(guards[h], e.tx), Release(h, before, e, k), CreatedFinite'
    PROVE  CopiesInv'
<1> DEFINE gs == guards[h]
           cost(i) == Cost(gs[i], e.tx)
<1>1. /\ gs \in Seq(Guard) /\ book[h] \in Seq(Entry) /\ DOMAIN book[h] = DOMAIN gs
      /\ guards \in [Handles -> Seq(Guard)] /\ book \in [Handles -> Seq(Entry)]
      /\ drawn \in [Handles \X (1..MaxGuards) -> Nat]
  BY DEF IInv, TypeOK, BudgetConserved
<1>2. /\ guards' = [guards EXCEPT ![h] = UpdateGuards(gs, e.tx)]
      /\ book' = [book EXCEPT ![h] = Booked(h, e.tx)]
      /\ drawn' = [o \in DOMAIN drawn |-> drawn[o] + DrawnBy(h, e.tx, o[1], o[2])]
  BY DEF Release
<1>3. \A i \in DOMAIN gs :
          /\ cost(i) \in Nat
          /\ gs[i].remaining \in Nat
          /\ UpdateGuards(gs, e.tx)[i].remaining = gs[i].remaining - cost(i)
  BY <1>1, CheckedGuardsPay, GuardOfList
<1>4. /\ DOMAIN UpdateGuards(gs, e.tx) = DOMAIN gs /\ Len(UpdateGuards(gs, e.tx)) = Len(gs)
  BY <1>1, UpdateGuardsType
<1>5. /\ DOMAIN Booked(h, e.tx) = DOMAIN book[h]
      /\ \A i \in DOMAIN book[h] : /\ Booked(h, e.tx)[i].granted = book[h][i].granted
                                   /\ Booked(h, e.tx)[i].origin = book[h][i].origin
  BY <1>1, <1>3, BookedType
<1> HIDE DEF cost
<1>6. \A x \in Handles :
          /\ DOMAIN book'[x] = DOMAIN book[x]
          /\ \A i \in DOMAIN book[x] : /\ book'[x][i].granted = book[x][i].granted
                                       /\ book'[x][i].origin = book[x][i].origin
  BY <1>1, <1>2, <1>5
<1>7. ASSUME NEW o \in Handles, NEW i
      PROVE  Holders(o, i)' = Holders(o, i)
  BY <1>6 DEF Holders
<1>8. OriginsBooked'
  <2> SUFFICES ASSUME NEW x \in Handles, NEW i \in DOMAIN book'[x]
               PROVE  LET o == book'[x][i].origin
                      IN  /\ i \in DOMAIN book'[o]
                          /\ book'[o][i].origin = o
                          /\ book'[o][i].granted = book'[x][i].granted
    BY DEF OriginsBooked
  <2>1. i \in DOMAIN book[x]
    BY <1>6
  <2>2. book[x][i].origin \in Handles
    <3>1. book[x] \in Seq(Entry)
      BY <1>1
    <3>2. book[x][i] \in Entry
      BY <2>1, <3>1
    <3> QED
      BY <3>2 DEF Entry
  <2> QED
    BY <2>1, <2>2, <1>6 DEF CopiesInv, OriginsBooked
<1>9. \A o \in Handles, i \in 1..MaxGuards :
          drawn'[<<o, i>>] = drawn[<<o, i>>] + DrawnBy(h, e.tx, o, i)
  BY <1>1, <1>2
<1>10. DrawnWasBooked'
  <2> SUFFICES ASSUME NEW o \in Handles, NEW i \in 1..MaxGuards, drawn'[<<o, i>>] # 0
               PROVE  i \in DOMAIN book'[o] /\ book'[o][i].origin = o
    BY DEF DrawnWasBooked
  <2>1. CASE drawn[<<o, i>>] # 0
    BY <2>1, <1>6 DEF CopiesInv, DrawnWasBooked
  <2>2. CASE drawn[<<o, i>>] = 0
    <3>1. DrawnBy(h, e.tx, o, i) # 0
      BY <2>2, <1>9
    <3>2. i \in DOMAIN book[h] /\ book[h][i].origin = o
      BY <3>1 DEF DrawnBy
    <3> QED
      BY <3>2, <1>6 DEF CopiesInv, OriginsBooked
  <2> QED
    BY <2>1, <2>2
<1>11. GuardsBounded'
  BY <1>1, <1>2, <1>4 DEF CopiesInv, GuardsBounded
<1>12. DrawnWithinCopies'
  <2> SUFFICES ASSUME NEW o \in Handles, NEW i \in DOMAIN book'[o], book'[o][i].origin = o
               PROVE  drawn'[<<o, i>>] + LeftUnits(o, i)'
                          <= book'[o][i].granted * Cardinality(Holders(o, i)')
    BY DEF DrawnWithinCopies
  <2>1. i \in DOMAIN book[o] /\ book[o][i].origin = o /\ book'[o][i].granted = book[o][i].granted
    BY <1>6
  <2>2. i \in 1..MaxGuards
    <3>1. book[o] \in Seq(Entry) /\ DOMAIN book[o] = DOMAIN guards[o] /\ guards[o] \in Seq(Guard)
      BY <1>1 DEF IInv, BudgetConserved
    <3> QED
      BY <3>1, <2>1, AccountAssumption DEF CopiesInv, GuardsBounded
  <2>3. \A x \in Handles \ {h} : Budget(i)'[x] = Budget(i)[x]
    BY <1>1, <1>2 DEF Budget
  <2>4. CASE h \in Holders(o, i)
    <3> DEFINE S == Holders(o, i)
               b == Budget(i)
               c == Budget(i)'
    <3>1. i \in DOMAIN gs /\ book[h][i].origin = o
      BY <2>4, <1>1 DEF Holders
    <3>2. c[h] = b[h] - cost(i) /\ b[h] = gs[i].remaining /\ b[h] \in Nat /\ cost(i) \in Nat
      BY <3>1, <1>1, <1>2, <1>3 DEF Budget
    <3>3. DrawnBy(h, e.tx, o, i) = cost(i)
      BY <3>1, <1>1 DEF DrawnBy, cost
    <3>4. /\ IsFiniteSet(S) /\ h \in S /\ MaxRemaining \in Nat
          /\ \A x \in S : b[x] \in 0..MaxRemaining
      BY <2>4, HoldersFinite, GuardsAssumption DEF CopiesInv
    <3>5. c[h] \in Nat
      <4>1. gs[i] \in Guard /\ Update(gs[i], e.tx) \in Guard /\ c[h] = Update(gs[i], e.tx).remaining
        BY <3>1, <1>1, <1>2, GuardOfList, UpdateType, UpdateGuardsType DEF Budget
      <4> QED
        BY <4>1, GuardsAssumption DEF Guard
    <3>6. \A x \in S : c[x] \in 0..MaxRemaining
      <4> SUFFICES ASSUME NEW x \in S PROVE c[x] \in 0..MaxRemaining
        OBVIOUS
      <4>1. x \in Handles
        BY DEF Holders
      <4>2. CASE x = h
        <5>1. c[h] <= b[h] /\ b[h] \in 0..MaxRemaining
          BY <3>2, <3>4
        <5> QED
          BY <5>1, <4>2, <3>4, <3>5
      <4>3. CASE x # h
        BY <4>1, <4>3, <2>3, <3>4
      <4> QED
        BY <4>2, <4>3
    <3>7. \A x \in S \ {h} : c[x] = b[x]
      BY <2>3 DEF Holders
    <3> HIDE DEF b, c, S
    <3>8. Units(c, S \ {h}) = Units(b, S \ {h})
      BY <3>7, UnitsAgree
    <3>9. /\ Cardinality(Units(b, S)) = b[h] + Cardinality(Units(b, S \ {h}))
          /\ Cardinality(Units(c, S)) = c[h] + Cardinality(Units(c, S \ {h}))
      BY <3>4, <3>6, UnitsRemove
    <3>10. Cardinality(Units(b, S \ {h})) \in Nat
      <4>1. IsFiniteSet(S \ {h})
        BY <3>4, FS_Subset
      <4> QED
        BY <4>1, <3>4, UnitsFinite
    <3>11. LeftUnits(o, i) = Cardinality(Units(b, S)) /\ LeftUnits(o, i)' = Cardinality(Units(c, S))
      BY <1>7 DEF LeftUnits, b, c, S
    <3>12. LeftUnits(o, i)' = LeftUnits(o, i) - cost(i) /\ LeftUnits(o, i) \in Nat
      BY <3>2, <3>8, <3>9, <3>10, <3>11
    <3>13. drawn'[<<o, i>>] = drawn[<<o, i>>] + cost(i) /\ drawn[<<o, i>>] \in Nat
      BY <3>3, <1>1, <1>9, <2>2
    <3>14. drawn'[<<o, i>>] + LeftUnits(o, i)' = drawn[<<o, i>>] + LeftUnits(o, i)
      BY <3>2, <3>12, <3>13
    <3>15. drawn[<<o, i>>] + LeftUnits(o, i) <= book[o][i].granted * Cardinality(Holders(o, i))
      BY <2>1 DEF CopiesInv, DrawnWithinCopies
    <3> QED
      BY <3>14, <3>15, <2>1, <1>7
  <2>5. CASE h \notin Holders(o, i)
    <3>1. \A x \in Holders(o, i) : Budget(i)'[x] = Budget(i)[x]
      BY <2>3, <2>5 DEF Holders
    <3>2. DrawnBy(h, e.tx, o, i) = 0
      BY <2>5 DEF DrawnBy, Holders
    <3>3. drawn'[<<o, i>>] = drawn[<<o, i>>]
      BY <3>2, <1>1, <1>9, <2>2
    <3> QED
      BY <2>1, <3>1, <3>3, <1>7, SameCopies
  <2> QED
    BY <2>4, <2>5
<1> QED
  BY <1>8, <1>10, <1>11, <1>12 DEF CopiesInv

LEMMA FailKeepsCopies ==
    ASSUME CopiesInv, NEW error, Fail(error), CreatedFinite'
    PROVE  CopiesInv'
BY QuietKeepsCopies DEF Fail

LEMMA SignKeepsCopies ==
    ASSUME IInv, CopiesInv, NEW h \in Handles, NEW tx \in Txs, NEW k, Sign(h, tx, k), CreatedFinite'
    PROVE  CopiesInv'
<1>1. Tx(tx, signers[h]).tx = tx
  BY DEF Tx
<1> QED
  BY <1>1, FailKeepsCopies, ReleaseKeepsCopies DEF Sign

LEMMA InitCopiesInv == Init => CopiesInv
<1> SUFFICES ASSUME Init PROVE CopiesInv
  OBVIOUS
<1>1. {h \in Handles : status[h] # "free"} = {}
  BY DEF Init
<1>2. CreatedFinite
  BY <1>1, FS_EmptySet DEF CreatedFinite
<1>3. \A h \in Handles : DOMAIN book[h] = {} /\ Len(guards[h]) = 0
  BY DEF Init
<1> QED
  BY <1>2, <1>3, AccountAssumption
  DEF Init, CopiesInv, OriginsBooked, DrawnWasBooked, GuardsBounded, DrawnWithinCopies

LEMMA NextKeepsCopies == IInv /\ CopiesInv /\ [Next]_vars => CopiesInv'
<1> SUFFICES ASSUME IInv, CopiesInv, [Next]_vars PROVE CopiesInv'
  OBVIOUS
<1>1. ASSUME UNCHANGED status PROVE CreatedFinite'
  BY <1>1 DEF CopiesInv, CreatedFinite
<1>2. ASSUME NEW h \in Handles, NEW ss, Create(h, ss) PROVE CopiesInv'
  <2>1. CreatedFinite'
    BY <1>2, CreatedStaysFinite DEF Create, CopiesInv, IInv, TypeOK
  <2> QED
    BY <1>2, <2>1, QuietKeepsCopies DEF Create
<1>3. ASSUME NEW h \in Handles, NEW g \in Guard, AddGuard(h, g) PROVE CopiesInv'
  BY <1>3, AddGuardKeepsCopies
<1>4. ASSUME NEW h \in Handles, NEW k \in Handles, Clone(h, k) PROVE CopiesInv'
  BY <1>4, CloneKeepsCopies
<1>5. ASSUME NEW h \in Handles, NEW k \in Slots, NEW tx \in Txs, SignTransaction(h, tx, k)
      PROVE  CopiesInv'
  BY <1>1, <1>5, SignKeepsCopies DEF SignTransaction
<1>6. ASSUME NEW h \in Handles, NEW k \in Slots, NEW tx \in Txs, SignTransactionUnsafe(h, tx, k)
      PROVE  CopiesInv'
  BY <1>1, <1>6, QuietKeepsCopies DEF SignTransactionUnsafe, Fail
<1>7. ASSUME NEW h \in Handles, NEW k \in Slots, SignTransactionEnvelope(h, k) PROVE CopiesInv'
  <2>1. held[k].tx \in Txs /\ Cosigned(h, held[k]).tx = held[k].tx
    BY DEF IInv, TypeOK, Envelope, Cosigned, Tx
  <2> QED
    BY <1>1, <1>7, <2>1, FailKeepsCopies, ReleaseKeepsCopies DEF SignTransactionEnvelope
<1>8. ASSUME NEW h \in Handles, NEW k \in Slots, NEW tx \in ConfigTxs, Configure(h, tx, k)
      PROVE  CopiesInv'
  <2>1. CreatedFinite'
    <3>1. \A x \in Handles : x # h /\ status'[x] # "free" => status[x] # "free"
      BY <1>8 DEF Configure, IInv, TypeOK
    <3> QED
      BY <3>1, CreatedStaysFinite DEF CopiesInv
  <2>2. tx \in Txs
    BY AccountAssumption
  <2> QED
    BY <1>8, <2>1, <2>2, SignKeepsCopies, FailKeepsCopies DEF Configure
<1>9. CASE UNCHANGED vars
  BY <1>1, <1>9, QuietKeepsCopies DEF vars
<1> QED
  BY <1>2, <1>3, <1>4, <1>5, <1>6, <1>7, <1>8, <1>9 DEF Next, Single, Multisig

\* A grant is drawn at most once per copy: what the clones of a guard authorized
\* together, with what they have left, stays within the grant times their number,
\* whatever calls are made on them in whatever order.
THEOREM DrawIsBoundedByCopies == Spec => []DrawBoundedByCopies
<1>1. Spec => [](IInv /\ CopiesInv)
  <2>1. Init => IInv /\ CopiesInv
    BY InitIInv, InitCopiesInv
  <2>2. (IInv /\ CopiesInv) /\ [Next]_vars => (IInv /\ CopiesInv)'
    BY NextKeepsIInv, NextKeepsCopies
  <2> QED
    BY <2>1, <2>2, PTL DEF Spec
<1>2. IInv /\ CopiesInv => DrawBoundedByCopies
  BY LeftCounts DEF CopiesInv, DrawnWithinCopies, DrawBoundedByCopies
<1> QED
  BY <1>1, <1>2, PTL

(***************************************************************************)
(* InvocationTree: what a guard counts.  Arithmetic in u16 first.          *)
(***************************************************************************)
\* A set of numbers has a least one.
LEMMA Least ==
    ASSUME NEW T \in SUBSET Nat, T # {}
    PROVE  \E n \in T : \A m \in T : n <= m
<1>1. PICK n \in T : \A m \in T : ~(<<m, n>> \in OpToRel(<, Nat))
  BY NatLessThanWellFounded, WFMin
<1>2. \A m \in T : ~(m < n)
  BY <1>1 DEF OpToRel
<1> QED
  BY <1>2

\* Quotient and remainder.
LEMMA DivMod ==
    ASSUME NEW a \in Int, NEW w \in Nat, w >= 2
    PROVE  /\ a % w \in 0..(w - 1) /\ a \div w \in Int
           /\ a = ((a \div w) * w) + (a % w)
OBVIOUS

\* Nothing else is the remainder.
LEMMA ModUnique ==
    ASSUME NEW w \in Nat, w >= 2, NEW q \in Int, NEW r \in 0..(w - 1)
    PROVE  ((q * w) + r) % w = r
OBVIOUS

\* What is left of n in u16.
Wrapped(n) == IF n < Width THEN n ELSE IF overflowChecks THEN Panic ELSE n % Width

\* A u16 is its own remainder.
LEMMA SmallMod == ASSUME NEW n \in 0..(Width - 1) PROVE n % Width = n
<1>1. n = (0 * Width) + n /\ 0 \in Int
  BY TreeAssumption
<1> QED BY <1>1, ModUnique, TreeAssumption

\* Adding remainders and taking the remainder once more loses nothing.
LEMMA ModAdds ==
    ASSUME NEW a \in Nat, NEW b \in Nat
    PROVE  ((a % Width) + (b % Width)) % Width = (a + b) % Width
<1> DEFINE ra == a % Width
           rb == b % Width
           qa == a \div Width
           qb == b \div Width
           q == (ra + rb) \div Width
           r == (ra + rb) % Width
<1>1. /\ ra \in Int /\ qa \in Int /\ a = (qa * Width) + ra
      /\ rb \in Int /\ qb \in Int /\ b = (qb * Width) + rb
  BY DivMod, TreeAssumption
<1>2. r \in 0..(Width - 1) /\ q \in Int /\ ra + rb = (q * Width) + r
  <2>1. ra + rb \in Int
    BY <1>1
  <2> QED BY <2>1, DivMod, TreeAssumption
<1> HIDE DEF ra, rb, qa, qb, q, r
<1>3. a + b = ((qa + qb + q) * Width) + r
  BY <1>1, <1>2, TreeAssumption
<1>4. (a + b) % Width = r
  <2>1. qa + qb + q \in Int
    BY <1>1, <1>2
  <2> HIDE DEF Plus
  <2> QED BY <1>2, <1>3, <2>1, ModUnique, TreeAssumption
<1> QED BY <1>4 DEF r, ra, rb

\* Adding in u16 what is left of two numbers gives what is left of their sum.
LEMMA PlusWraps ==
    ASSUME overflowChecks \in BOOLEAN, NEW a \in Nat, NEW b \in Nat
    PROVE  Plus(Wrapped(a), Wrapped(b)) = Wrapped(a + b)
<1>1. CASE overflowChecks
  <2>1. CASE a < Width /\ b < Width
    <3>1. CASE a + b < Width
      <4>1. (a + b) % Width = a + b
        BY <3>1, SmallMod, TreeAssumption
      <4> QED BY <1>1, <2>1, <3>1, <4>1, TreeAssumption DEF Plus, Wrapped, Panic
    <3>2. CASE a + b >= Width
      BY <1>1, <2>1, <3>2, TreeAssumption DEF Plus, Wrapped, Panic
    <3> QED BY <3>1, <3>2, TreeAssumption
  <2>2. CASE ~(a < Width /\ b < Width)
    BY <1>1, <2>2, TreeAssumption DEF Plus, Wrapped, Panic
  <2> QED BY <2>1, <2>2
<1>2. CASE ~overflowChecks
  <2>1. ASSUME NEW n \in Nat PROVE Wrapped(n) = n % Width /\ Wrapped(n) \in 0..(Width - 1)
    <3>1. n % Width \in 0..(Width - 1)
      BY DivMod, TreeAssumption
    <3>2. n < Width => n % Width = n
      BY SmallMod, TreeAssumption
    <3> QED BY <1>2, <3>1, <3>2 DEF Wrapped
  <2>2. Plus(Wrapped(a), Wrapped(b)) = (Wrapped(a) + Wrapped(b)) % Width
    BY <1>2, <2>1 DEF Plus, Panic
  <2> QED BY <2>1, <2>2, ModAdds
<1> QED BY <1>1, <1>2

(***************************************************************************)
(* Sets added up.                                                          *)
(***************************************************************************)
\* What A and the first n sets of S have together.
Upto(A, S, n) == A \cup UNION {S[i] : i \in 1..n}

\* Finite sets that have nothing in common, nor with A.
Apart(A, S, m) ==
    /\ IsFiniteSet(A)
    /\ \A i \in 1..m : IsFiniteSet(S[i]) /\ A \cap S[i] = {}
    /\ \A i, j \in 1..m : i # j => S[i] \cap S[j] = {}

\* The size of sets apart grows by that of each.
LEMMA UptoAdds ==
    ASSUME NEW A, NEW m \in Nat, NEW S, Apart(A, S, m), NEW n \in 0..m
    PROVE  /\ IsFiniteSet(Upto(A, S, n)) /\ Cardinality(Upto(A, S, n)) \in Nat
           /\ n > 0 => Cardinality(Upto(A, S, n))
                           = Cardinality(Upto(A, S, n - 1)) + Cardinality(S[n])
<1>1. ASSUME NEW k \in 0..m
      PROVE  IsFiniteSet(Upto(A, S, k)) /\ Cardinality(Upto(A, S, k)) \in Nat
  <2> DEFINE I == 1..k
             sets == {S[i] : i \in I}
             f == [i \in I |-> S[i]]
  <2>1. IsFiniteSet(I)
    BY FS_Interval
  <2> HIDE DEF I, f
  <2>2. IsFiniteSet(sets)
    <3>1. f \in Surjection(I, sets)
      BY DEF Surjection, f
    <3> QED BY <2>1, <3>1, FS_Surjection
  <2>3. \A s \in sets : IsFiniteSet(s)
    BY DEF I, Apart
  <2> HIDE DEF sets
  <2>4. IsFiniteSet(UNION sets)
    BY <2>2, <2>3, FS_UNION
  <2>5. IsFiniteSet(A \cup UNION sets)
    BY <2>4, FS_Union DEF Apart
  <2>6. Upto(A, S, k) = A \cup UNION sets
    BY DEF Upto, sets, I
  <2> QED BY <2>5, <2>6, FS_CardinalityType
<1>2. ASSUME n > 0
      PROVE  Cardinality(Upto(A, S, n)) = Cardinality(Upto(A, S, n - 1)) + Cardinality(S[n])
  <2>1. n - 1 \in 0..m /\ n \in 1..m /\ 1..n = 1..(n - 1) \cup {n} /\ n \notin 1..(n - 1)
        /\ 1..(n - 1) \subseteq 1..m
    BY <1>2
  <2>2. Upto(A, S, n) = Upto(A, S, n - 1) \cup S[n]
    BY <2>1 DEF Upto
  <2>3. Upto(A, S, n - 1) \cap S[n] = {}
    BY <2>1 DEF Upto, Apart
  <2>4. /\ IsFiniteSet(Upto(A, S, n - 1)) /\ Cardinality(Upto(A, S, n - 1)) \in Nat
        /\ IsFiniteSet(S[n])
    BY <1>1, <2>1 DEF Apart
  <2>5. Cardinality(S[n]) \in Nat
    BY <2>4, FS_CardinalityType
  <2>6. Cardinality(Upto(A, S, n - 1) \cap S[n]) = 0
    BY <2>3, FS_EmptySet
  <2>7. Cardinality(Upto(A, S, n - 1) \cup S[n]) =
            Cardinality(Upto(A, S, n - 1)) + Cardinality(S[n])
                - Cardinality(Upto(A, S, n - 1) \cap S[n])
    BY <2>4, FS_Union
  <2> QED BY <2>2, <2>4, <2>5, <2>6, <2>7
<1> QED BY <1>1, <1>2

(***************************************************************************)
(* Addition of the sizes of sets.                                          *)
(***************************************************************************)
\* The recursion of Total.
TotalSteps(first, addends, F) ==
    F = [n \in 0..Len(addends) |-> IF n = 0 THEN first ELSE Plus(F[n - 1], addends[n])]

\* Adding what is left of the sizes of sets gives what is left of the size of
\* their union: Total has a value, and it is that.
LEMMA TotalCounts ==
    ASSUME overflowChecks \in BOOLEAN, NEW A, NEW S, NEW addends, Len(addends) \in Nat,
           Apart(A, S, Len(addends)),
           \A i \in 1..Len(addends) : addends[i] = Wrapped(Cardinality(S[i]))
    PROVE  Total(Wrapped(Cardinality(A)), addends)
               = Wrapped(Cardinality(Upto(A, S, Len(addends))))
<1> DEFINE m == Len(addends)
           first == Wrapped(Cardinality(A))
           size(n) == Cardinality(Upto(A, S, n))
           P(F) == TotalSteps(first, addends, F)
           W == [n \in 0..m |-> Wrapped(size(n))]
<1>1. Upto(A, S, 0) = A /\ m \in Nat
  BY DEF Upto
<1>2. ASSUME NEW n \in 1..m PROVE Wrapped(size(n)) = Plus(Wrapped(size(n - 1)), addends[n])
  <2>1. n \in 0..m /\ n - 1 \in 0..m /\ n > 0
    BY <1>1
  <2>2. size(n) \in Nat /\ size(n - 1) \in Nat /\ size(n) = size(n - 1) + Cardinality(S[n])
    <3> HIDE DEF m
    <3>1. m \in Nat /\ Apart(A, S, m)
      BY <1>1 DEF m
    <3>2. ASSUME NEW k \in 0..m
          PROVE  /\ Cardinality(Upto(A, S, k)) \in Nat
                 /\ k > 0 => Cardinality(Upto(A, S, k))
                                 = Cardinality(Upto(A, S, k - 1)) + Cardinality(S[k])
      BY <3>1, UptoAdds
    <3> QED BY <2>1, <3>2
  <2>3. Cardinality(S[n]) \in Nat
    BY FS_CardinalityType DEF Apart
  <2> HIDE DEF size
  <2> QED BY <2>2, <2>3, PlusWraps
<1>3. P(W)
  <2> HIDE DEF size, first
  <2>1. ASSUME NEW n \in 0..m
        PROVE  W[n] = IF n = 0 THEN first ELSE Plus(W[n - 1], addends[n])
    <3>1. CASE n = 0
      BY <3>1, <1>1 DEF first, size
    <3>2. CASE n # 0
      <4>1. n \in 1..m /\ n - 1 \in 0..m
        BY <3>2, <1>1
      <4> QED BY <3>2, <4>1, <1>2
    <3> QED BY <3>1, <3>2
  <2>2. W = [n \in 0..m |-> W[n]]
    OBVIOUS
  <2> HIDE DEF W
  <2> QED BY <2>1, <2>2 DEF TotalSteps
<1> DEFINE G == CHOOSE F : P(F)
<1>4. P(G)
  <2> HIDE DEF P, W
  <2> QED BY <1>3
<1>5. Total(first, addends) = G[m]
  BY Zenon DEF Total, TotalSteps
<1>6. G[0] = first /\ \A n \in 1..m : G[n] = Plus(G[n - 1], addends[n])
  <2> HIDE DEF G, first
  <2> QED BY <1>1, <1>4 DEF TotalSteps
<1> HIDE DEF G, P, W
<1> DEFINE T == {n \in 0..m : G[n] # Wrapped(size(n))}
<1>7. T = {}
  <2> SUFFICES ASSUME T # {} PROVE FALSE
    OBVIOUS
  <2>1. PICK n \in T : \A k \in T : n <= k
    <3> HIDE DEF T
    <3>1. T \in SUBSET Nat
      BY <1>1 DEF T
    <3> QED BY <3>1, Least
  <2>2. n # 0
    BY <2>1, <1>1, <1>6
  <2>3. n \in 1..m /\ n - 1 \in 0..m /\ n - 1 \notin T
    BY <2>1, <2>2, <1>1
  <2> QED BY <2>1, <2>3, <1>2, <1>6
<1> QED
  <2>1. m \in 0..m
    BY <1>1
  <2> QED BY <2>1, <1>5, <1>7

\* The positions of P one level down, behind index i.
Behind(i, P) == {<<i, p>> : p \in P}

\* Positions behind an index are finitely many, as many as without it.
LEMMA BehindCounts ==
    ASSUME NEW i, NEW P, IsFiniteSet(P)
    PROVE  IsFiniteSet(Behind(i, P)) /\ Cardinality(Behind(i, P)) = Cardinality(P)
<1> DEFINE f == [p \in P |-> <<i, p>>]
<1>1. f \in Bijection(P, Behind(i, P))
  <2>1. f \in [P -> Behind(i, P)]
    BY DEF Behind
  <2>2. \A p, q \in P : f[p] = f[q] => p = q
    OBVIOUS
  <2>3. \A b \in Behind(i, P) : \E p \in P : f[p] = b
    BY DEF Behind
  <2> HIDE DEF f
  <2>4. f \in Injection(P, Behind(i, P))
    BY <2>1, <2>2 DEF Injection, IsInjective
  <2>5. f \in Surjection(P, Behind(i, P))
    BY <2>1, <2>3 DEF Surjection
  <2> QED BY <2>4, <2>5 DEF Bijection
<1> QED BY <1>1, FS_Bijection DEF ExistsBijection

(***************************************************************************)
(* Recursion over trees.                                                   *)
(***************************************************************************)
\* An invocation of a level has its sub-invocations in the levels before it.
LEMMA LevelFacts ==
    /\ Len(Levels) \in Nat /\ DOMAIN Levels = 1..Len(Levels)
    /\ Invocations = Below(Len(Levels) + 1)
    /\ \A d \in 1..Len(Levels) : \A n \in Levels[d] :
          /\ n \in Invocations
          /\ Len(n.sub) \in Nat /\ DOMAIN n.sub = 1..Len(n.sub)
          /\ \A i \in 1..Len(n.sub) : n.sub[i] \in Below(d)
<1>1. Len(Levels) \in Nat /\ DOMAIN Levels = 1..Len(Levels)
  BY TreeAssumption
<1>2. 1..((Len(Levels) + 1) - 1) = 1..Len(Levels)
  BY <1>1
<1>3. Invocations = Below(Len(Levels) + 1)
  BY <1>1, <1>2 DEF Invocations, Below
<1>4. ASSUME NEW d \in 1..Len(Levels), NEW n \in Levels[d]
      PROVE  /\ n \in Invocations
             /\ Len(n.sub) \in Nat /\ DOMAIN n.sub = 1..Len(n.sub)
             /\ \A i \in 1..Len(n.sub) : n.sub[i] \in Below(d)
  <2>1. n.sub \in Seq(Below(d))
    BY <1>1, TreeAssumption
  <2>2. n \in Invocations
    BY <1>1 DEF Invocations
  <2> QED BY <2>1, <2>2
<1> QED BY <1>1, <1>3, <1>4

\* Every invocation is of a level.
LEMMA LevelOf ==
    ASSUME NEW n \in Invocations
    PROVE  \E d \in 1..Len(Levels) : n \in Levels[d]
BY LevelFacts DEF Invocations

\* Whether the root counts, and the step of the recursion of Positions.
Root(n) == {p \in {<<>>} : IsCall(n)}
PositionsFrom(n, F) == Root(n) \cup UNION {{<<i, p>> : p \in F[n.sub[i]]} : i \in DOMAIN n.sub}

\* The recursion of Positions defines a function, level by level.
LEMMA PositionsExist == \E F : F = [n \in Invocations |-> PositionsFrom(n, F)]
<1> DEFINE Upwards(d, F) == F = [n \in Below(d) |-> PositionsFrom(n, F)]
           D == Len(Levels)
           T == {d \in 1..(D + 1) : ~\E F : Upwards(d, F)}
<1>1. D \in Nat
  BY LevelFacts
<1>2. T = {}
  <2> SUFFICES ASSUME T # {} PROVE FALSE
    OBVIOUS
  <2>1. PICK d \in T : \A k \in T : d <= k
    <3> HIDE DEF Upwards, D
    <3>1. T \in SUBSET Nat
      BY <1>1
    <3> HIDE DEF T
    <3> QED BY <3>1, Least
  <2>2. d \in 1..(D + 1) /\ ~\E F : Upwards(d, F)
    BY <2>1
  <2>3. CASE d = 1
    <3> DEFINE F == [n \in Below(1) |-> {}]
    <3>1. Below(1) = {}
      BY DEF Below
    <3>2. Upwards(1, F)
      BY <3>1
    <3> QED BY <2>2, <2>3, <3>2
  <2>4. CASE d # 1
    <3>1. d - 1 \in 1..(D + 1) /\ d - 1 \notin T /\ d - 1 \in 1..D
      BY <1>1, <2>1, <2>2, <2>4
    <3>2. PICK F : Upwards(d - 1, F)
      BY <3>1
    <3> DEFINE H == [n \in Below(d) |-> PositionsFrom(n, F)]
    <3>3. ASSUME NEW n \in Below(d) PROVE PositionsFrom(n, H) = PositionsFrom(n, F)
      <4>1. PICK e \in 1..(d - 1) : n \in Levels[e]
        BY DEF Below
      <4>2. e \in 1..D
        BY <3>1, <4>1, <1>1
      <4>3. DOMAIN n.sub = 1..Len(n.sub) /\ \A i \in DOMAIN n.sub : n.sub[i] \in Below(e)
        BY <4>1, <4>2, LevelFacts
      <4>4. Below(e) \subseteq Below(d - 1) /\ Below(e) \subseteq Below(d)
        <5>1. 1..(e - 1) \subseteq 1..((d - 1) - 1) /\ 1..(e - 1) \subseteq 1..(d - 1)
          BY <3>1, <4>1, <1>1
        <5> QED BY <5>1 DEF Below
      <4>5. \A i \in DOMAIN n.sub : H[n.sub[i]] = F[n.sub[i]]
        <5>1. \A x \in Below(e) : H[x] = PositionsFrom(x, F)
          BY <4>4
        <5>2. \A x \in Below(e) : F[x] = PositionsFrom(x, F)
          <6> HIDE DEF H
          <6> QED BY <3>2, <4>4, Zenon
        <5> QED BY <4>3, <5>1, <5>2
      <4> HIDE DEF H
      <4> QED BY <4>5 DEF PositionsFrom
    <3>4. Upwards(d, H)
      <4>1. H = [n \in Below(d) |-> PositionsFrom(n, H)]
        BY <3>3
      <4> HIDE DEF H
      <4> QED BY <4>1
    <3> QED BY <2>2, <3>4
  <2> QED BY <2>3, <2>4
<1>3. \E F : Upwards(D + 1, F)
  <2> HIDE DEF Upwards
  <2>1. D + 1 \in 1..(D + 1)
    BY <1>1
  <2> QED BY <1>2, <2>1
<1> QED BY <1>3, LevelFacts

\* What the recursion of Positions means.
LEMMA PositionsSteps ==
    ASSUME NEW n \in Invocations
    PROVE  Positions(n) = Root(n) \cup UNION {Behind(i, Positions(n.sub[i])) : i \in DOMAIN n.sub}
<1> DEFINE P(F) == F = [x \in Invocations |-> PositionsFrom(x, F)]
           F == CHOOSE F : P(F)
<1>1. P(F)
  <2> HIDE DEF P
  <2>1. \E G : P(G)
    BY PositionsExist DEF P
  <2> QED BY <2>1
<1>2. \A x : Positions(x) = F[x]
  BY Zenon DEF Positions, PositionsFrom, Root
<1> HIDE DEF F
<1>3. F[n] = PositionsFrom(n, F)
  BY <1>1
<1> QED BY <1>2, <1>3 DEF PositionsFrom, Behind

\* The positions of each sub-invocation.
Branches(n) == [i \in DOMAIN n.sub |-> Behind(i, Positions(n.sub[i]))]

\* Positions in different places are different, and finitely many.
LEMMA BranchesApart ==
    ASSUME NEW n \in Invocations, \A i \in 1..Len(n.sub) : IsFiniteSet(Positions(n.sub[i]))
    PROVE  /\ Apart(Root(n), Branches(n), Len(n.sub))
           /\ Positions(n) = Upto(Root(n), Branches(n), Len(n.sub))
           /\ Cardinality(Root(n)) = Own(n)
           /\ \A i \in 1..Len(n.sub) :
                 Cardinality(Branches(n)[i]) = Cardinality(Positions(n.sub[i]))
<1>1. Len(n.sub) \in Nat /\ DOMAIN n.sub = 1..Len(n.sub)
  BY LevelOf, LevelFacts
<1>2. \A i \in 1..Len(n.sub) : Branches(n)[i] = Behind(i, Positions(n.sub[i]))
  BY <1>1 DEF Branches
<1>3. IsFiniteSet(Root(n)) /\ Cardinality(Root(n)) = Own(n)
  <2>1. Root(n) = IF IsCall(n) THEN {<<>>} ELSE {}
    BY DEF Root
  <2> QED BY <2>1, FS_Singleton, FS_EmptySet DEF Own
<1>4. \A i \in 1..Len(n.sub) : /\ IsFiniteSet(Branches(n)[i])
                               /\ Cardinality(Branches(n)[i]) = Cardinality(Positions(n.sub[i]))
  BY <1>2, BehindCounts
<1>5. \A i \in 1..Len(n.sub) : Root(n) \cap Branches(n)[i] = {}
  BY <1>2 DEF Root, Behind
<1>6. \A i, j \in 1..Len(n.sub) : i # j => Branches(n)[i] \cap Branches(n)[j] = {}
  BY <1>2 DEF Behind
<1>7. Positions(n) = Upto(Root(n), Branches(n), Len(n.sub))
  <2>1. Positions(n) = Root(n) \cup UNION {Branches(n)[i] : i \in 1..Len(n.sub)}
    BY <1>1, <1>2, PositionsSteps
  <2> QED BY <2>1 DEF Upto
<1> QED BY <1>3, <1>4, <1>5, <1>6, <1>7 DEF Apart

\* A tree has finitely many positions.
LEMMA PositionsFinite == \A n \in Invocations : IsFiniteSet(Positions(n))
<1> DEFINE D == Len(Levels)
           T == {d \in 1..D : \E n \in Levels[d] : ~IsFiniteSet(Positions(n))}
<1> SUFFICES ASSUME T # {} PROVE FALSE
  BY LevelOf
<1>1. D \in Nat
  BY LevelFacts
<1>2. PICK d \in T : \A k \in T : d <= k
  <2> HIDE DEF D
  <2>1. T \in SUBSET Nat
    BY <1>1
  <2> HIDE DEF T
  <2> QED BY <2>1, Least
<1>3. PICK n \in Levels[d] : ~IsFiniteSet(Positions(n))
  BY <1>2
<1>4. d \in 1..D /\ n \in Invocations
  BY <1>2, <1>3, LevelFacts
<1>5. Len(n.sub) \in Nat /\ \A i \in 1..Len(n.sub) : n.sub[i] \in Below(d)
  BY <1>3, <1>4, LevelFacts
<1>6. \A i \in 1..Len(n.sub) : IsFiniteSet(Positions(n.sub[i]))
  <2> SUFFICES ASSUME NEW i \in 1..Len(n.sub) PROVE IsFiniteSet(Positions(n.sub[i]))
    OBVIOUS
  <2>1. PICK e \in 1..(d - 1) : n.sub[i] \in Levels[e]
    BY <1>5 DEF Below
  <2>2. e \in 1..D /\ e < d
    BY <1>1, <1>4, <2>1
  <2>3. e \notin T
    <3> HIDE DEF T
    <3> QED BY <1>2, <1>4, <2>2
  <2> QED BY <2>1, <2>2, <2>3
<1>7. Apart(Root(n), Branches(n), Len(n.sub))
      /\ Positions(n) = Upto(Root(n), Branches(n), Len(n.sub))
  BY <1>4, <1>6, BranchesApart
<1>8. Len(n.sub) \in 0..Len(n.sub)
  BY <1>5
<1>9. IsFiniteSet(Upto(Root(n), Branches(n), Len(n.sub)))
  BY <1>5, <1>7, <1>8, UptoAdds
<1> QED BY <1>3, <1>7, <1>9

\* The recursion of CountAuthorizedCalls.
Counted(n, F) == Total(Own(n), [i \in DOMAIN n.sub |-> F[n.sub[i]]])

\* It is solved by what is left of the number of positions.
LEMMA CountSolved ==
    ASSUME overflowChecks \in BOOLEAN, NEW n \in Invocations, NEW F,
           \A i \in DOMAIN n.sub : F[n.sub[i]] = Wrapped(Cardinality(Positions(n.sub[i])))
    PROVE  Counted(n, F) = Wrapped(Cardinality(Positions(n)))
<1> DEFINE addends == [i \in DOMAIN n.sub |-> F[n.sub[i]]]
<1>1. /\ Len(n.sub) \in Nat /\ DOMAIN n.sub = 1..Len(n.sub)
      /\ \A i \in 1..Len(n.sub) : n.sub[i] \in Invocations
  <2>1. PICK d \in 1..Len(Levels) : n \in Levels[d]
    BY LevelOf
  <2>2. Below(d) \subseteq Invocations
    <3>1. 1..(d - 1) \subseteq DOMAIN Levels
      BY <2>1, LevelFacts
    <3> QED BY <3>1 DEF Below, Invocations
  <2> QED BY <2>1, <2>2, LevelFacts
<1>2. DOMAIN addends = 1..Len(n.sub) /\ Len(addends) = Len(n.sub)
      /\ \A i \in 1..Len(n.sub) : addends[i] = Wrapped(Cardinality(Positions(n.sub[i])))
  <2>1. addends = [i \in 1..Len(n.sub) |-> F[n.sub[i]]]
    BY <1>1
  <2> QED BY <1>1, <2>1
<1> HIDE DEF addends
<1>3. /\ Apart(Root(n), Branches(n), Len(n.sub))
      /\ Positions(n) = Upto(Root(n), Branches(n), Len(n.sub))
      /\ Cardinality(Root(n)) = Own(n)
      /\ \A i \in 1..Len(n.sub) :
             Cardinality(Branches(n)[i]) = Cardinality(Positions(n.sub[i]))
  BY <1>1, PositionsFinite, BranchesApart
<1>4. Total(Wrapped(Cardinality(Root(n))), addends)
          = Wrapped(Cardinality(Upto(Root(n), Branches(n), Len(addends))))
  <2>1. \A i \in 1..Len(addends) : addends[i] = Wrapped(Cardinality(Branches(n)[i]))
    BY <1>2, <1>3
  <2>2. Len(addends) \in Nat /\ Apart(Root(n), Branches(n), Len(addends))
    BY <1>1, <1>2, <1>3
  <2> QED BY <2>1, <2>2, TotalCounts
<1>5. Wrapped(Own(n)) = Own(n)
  BY TreeAssumption DEF Wrapped, Own
<1> QED BY <1>2, <1>3, <1>4, <1>5 DEF Counted, addends

\* The count of an invocation is what is left of the number of its positions.
LEMMA CountIs ==
    ASSUME overflowChecks \in BOOLEAN, NEW n \in Invocations
    PROVE  CountAuthorizedCalls(n) = Wrapped(Cardinality(Positions(n)))
<1> DEFINE P(F) == F = [x \in Invocations |-> Counted(x, F)]
           W == [x \in Invocations |-> Wrapped(Cardinality(Positions(x)))]
           F == CHOOSE F : P(F)
           D == Len(Levels)
           T == {d \in 1..D : \E x \in Levels[d] : F[x] # W[x]}
<1>1. ASSUME NEW x \in Invocations
      PROVE  \E d \in 1..D :
                /\ x \in Levels[d]
                /\ \A i \in DOMAIN x.sub : /\ x.sub[i] \in Invocations
                                           /\ \E e \in 1..(d - 1) : x.sub[i] \in Levels[e]
  <2>1. PICK d \in 1..D : x \in Levels[d]
    BY LevelOf
  <2>2. \A i \in DOMAIN x.sub : x.sub[i] \in Below(d)
    BY <2>1, LevelFacts
  <2>3. Below(d) \subseteq Invocations
    <3>1. 1..(d - 1) \subseteq DOMAIN Levels
      BY <2>1, LevelFacts
    <3> QED BY <3>1 DEF Below, Invocations
  <2> QED BY <2>1, <2>2, <2>3 DEF Below
<1>2. P(W)
  <2>1. ASSUME NEW x \in Invocations PROVE W[x] = Counted(x, W)
    <3>1. \A i \in DOMAIN x.sub : W[x.sub[i]] = Wrapped(Cardinality(Positions(x.sub[i])))
      BY <1>1
    <3>2. W[x] = Wrapped(Cardinality(Positions(x)))
      OBVIOUS
    <3> HIDE DEF W
    <3> QED BY <3>1, <3>2, CountSolved
  <2>2. W = [x \in Invocations |-> W[x]]
    OBVIOUS
  <2> HIDE DEF W
  <2> QED BY <2>1, <2>2
<1>3. P(F)
  <2> HIDE DEF P, W
  <2> QED BY <1>2
<1>4. CountAuthorizedCalls(n) = F[n]
  BY Zenon DEF CountAuthorizedCalls, Counted
<1> HIDE DEF F
<1>5. \A x \in Invocations : F[x] = Counted(x, F) /\ W[x] = Wrapped(Cardinality(Positions(x)))
  BY <1>3
<1> HIDE DEF W
<1>6. T = {}
  <2> SUFFICES ASSUME T # {} PROVE FALSE
    OBVIOUS
  <2>1. PICK d \in T : \A k \in T : d <= k
    <3> HIDE DEF D
    <3>1. D \in Nat
      BY LevelFacts DEF D
    <3>2. T \in SUBSET Nat
      BY <3>1
    <3> HIDE DEF T
    <3> QED BY <3>2, Least
  <2>2. PICK x \in Levels[d] : F[x] # W[x]
    BY <2>1
  <2>3. d \in 1..D /\ x \in Invocations
    BY <2>1, <2>2, LevelFacts
  <2>4. ASSUME NEW i \in DOMAIN x.sub PROVE F[x.sub[i]] = W[x.sub[i]] /\ x.sub[i] \in Invocations
    <3>1. x.sub[i] \in Below(d)
      BY <2>2, <2>3, LevelFacts
    <3>2. PICK e \in 1..(d - 1) : x.sub[i] \in Levels[e]
      BY <3>1 DEF Below
    <3>3. D \in Nat
      BY LevelFacts
    <3>4. e \in 1..D /\ e < d
      BY <2>3, <3>2, <3>3
    <3>5. e \notin T
      <4> HIDE DEF T
      <4> QED BY <2>1, <2>3, <3>4
    <3> QED BY <3>2, <3>4, <3>5, LevelFacts
  <2>5. \A i \in DOMAIN x.sub : F[x.sub[i]] = Wrapped(Cardinality(Positions(x.sub[i])))
    BY <1>5, <2>4
  <2>6. Counted(x, F) = Wrapped(Cardinality(Positions(x)))
    BY <2>3, <2>5, CountSolved
  <2> QED BY <1>5, <2>2, <2>3, <2>6
<1>7. F[n] = W[n]
  <2>1. PICK d \in 1..D : n \in Levels[d]
    BY LevelOf
  <2> QED BY <1>6, <2>1
<1> QED BY <1>4, <1>5, <1>7

(***************************************************************************)
(* Transactions.                                                           *)
(***************************************************************************)
\* Adding the counts of an operation's entries adds its positions.
LEMMA OperationCounts ==
    ASSUME overflowChecks \in BOOLEAN, NEW op \in Seq(Invocations), NEW k, NEW A, IsFiniteSet(A),
           \A p : <<k, p>> \notin A
    PROVE  /\ Total(Wrapped(Cardinality(A)), Counts(op))
                  = Wrapped(Cardinality(A \cup Behind(k, CallsOf(op))))
           /\ IsFiniteSet(A \cup Behind(k, CallsOf(op)))
<1> DEFINE m == Len(op)
           S == [j \in DOMAIN op |-> Behind(k, Behind(j, Positions(op[j])))]
           addends == Counts(op)
<1>1. m \in Nat /\ DOMAIN op = 1..m /\ \A j \in 1..m : op[j] \in Invocations
  OBVIOUS
<1>2. \A j \in 1..m : S[j] = Behind(k, Behind(j, Positions(op[j])))
  BY <1>1
<1>3. Len(addends) = m /\ \A j \in 1..m : addends[j] = CountAuthorizedCalls(op[j])
  <2>1. addends = [j \in 1..m |-> CountAuthorizedCalls(op[j])]
    BY <1>1 DEF Counts
  <2> HIDE DEF addends
  <2> QED BY <1>1, <2>1
<1> HIDE DEF addends, m, S
<1>4. \A j \in 1..m : IsFiniteSet(S[j]) /\ Cardinality(S[j]) = Cardinality(Positions(op[j]))
  <2> SUFFICES ASSUME NEW j \in 1..m
               PROVE  IsFiniteSet(S[j]) /\ Cardinality(S[j]) = Cardinality(Positions(op[j]))
    OBVIOUS
  <2>1. IsFiniteSet(Positions(op[j]))
    BY <1>1, PositionsFinite
  <2>2. /\ IsFiniteSet(Behind(j, Positions(op[j])))
        /\ Cardinality(Behind(j, Positions(op[j]))) = Cardinality(Positions(op[j]))
    BY <2>1, BehindCounts
  <2> QED BY <1>2, <2>2, BehindCounts
<1>5. \A j \in 1..m : A \cap S[j] = {}
  BY <1>2 DEF Behind
<1>6. \A i, j \in 1..m : i # j => S[i] \cap S[j] = {}
  <2> SUFFICES ASSUME NEW i \in 1..m, NEW j \in 1..m, NEW x \in S[i], x \in S[j]
               PROVE  i = j
    OBVIOUS
  <2>1. PICK q \in Behind(i, Positions(op[i])) : x = <<k, q>>
    BY <1>2 DEF Behind
  <2>2. PICK r \in Behind(j, Positions(op[j])) : x = <<k, r>>
    BY <1>2 DEF Behind
  <2>3. q = r
    BY <2>1, <2>2
  <2> QED BY <2>3 DEF Behind
<1>7. Apart(A, S, m)
  BY <1>4, <1>5, <1>6 DEF Apart
<1>8. Upto(A, S, m) = A \cup Behind(k, CallsOf(op))
  <2>1. UNION {S[j] : j \in 1..m} = Behind(k, CallsOf(op))
    <3>1. CallsOf(op) = UNION {Behind(j, Positions(op[j])) : j \in 1..m}
      BY <1>1 DEF CallsOf, Behind
    <3>2. ASSUME NEW x PROVE x \in Behind(k, CallsOf(op)) <=> \E j \in 1..m : x \in S[j]
      <4>1. x \in Behind(k, CallsOf(op)) <=> \E q \in CallsOf(op) : x = <<k, q>>
        BY DEF Behind
      <4>2. \A q : q \in CallsOf(op) <=> \E j \in 1..m : q \in Behind(j, Positions(op[j]))
        BY <3>1
      <4>3. \A j \in 1..m : x \in S[j] <=> \E q \in Behind(j, Positions(op[j])) : x = <<k, q>>
        BY <1>2 DEF Behind
      <4> QED BY <4>1, <4>2, <4>3
    <3> QED BY <3>2
  <2> QED BY <2>1 DEF Upto
<1>9. \A j \in 1..m : addends[j] = Wrapped(Cardinality(S[j]))
  BY <1>1, <1>3, <1>4, CountIs
<1>10. m \in 0..m
  BY <1>1
<1>11. IsFiniteSet(Upto(A, S, m))
  BY <1>1, <1>7, <1>10, UptoAdds
<1>12. Total(Wrapped(Cardinality(A)), addends) = Wrapped(Cardinality(Upto(A, S, Len(addends))))
  <2>1. /\ Len(addends) \in Nat /\ Apart(A, S, Len(addends))
        /\ \A j \in 1..Len(addends) : addends[j] = Wrapped(Cardinality(S[j]))
    BY <1>1, <1>3, <1>7, <1>9
  <2> QED BY <2>1, TotalCounts
<1> QED BY <1>3, <1>8, <1>11, <1>12 DEF addends

\* The recursion of ExtractContractCalls.
ExtractSteps(t, F) ==
    F = [k \in 0..Len(t) |-> IF k = 0 THEN 0 ELSE Total(F[k - 1], Counts(t[k]))]

\* The positions in the first k operations.
FirstPositions(t, k) == UNION {Behind(i, CallsOf(t[i])) : i \in 1..k}

\* The count of a transaction is what is left of the number of its positions
\* that call the contract.
LEMMA ExtractIs ==
    ASSUME overflowChecks \in BOOLEAN, NEW t \in Seq(Seq(Invocations))
    PROVE  ExtractContractCalls(t) = Wrapped(Calls(t)) /\ Calls(t) \in Nat
<1> DEFINE m == Len(t)
           size(k) == Cardinality(FirstPositions(t, k))
           W == [k \in 0..m |-> Wrapped(size(k))]
           P(F) == ExtractSteps(t, F)
           G == CHOOSE F : P(F)
           T == {k \in 0..m : G[k] # Wrapped(size(k)) \/ ~IsFiniteSet(FirstPositions(t, k))}
           U == {k \in 0..m : ~IsFiniteSet(FirstPositions(t, k))}
<1>1. m \in Nat /\ \A k \in 1..m : t[k] \in Seq(Invocations)
  OBVIOUS
<1>2. FirstPositions(t, 0) = {} /\ Wrapped(size(0)) = 0 /\ IsFiniteSet({})
  <2>1. FirstPositions(t, 0) = {}
    BY DEF FirstPositions
  <2>2. size(0) = 0 /\ IsFiniteSet({})
    BY <2>1, FS_EmptySet
  <2> HIDE DEF size
  <2> QED BY <2>1, <2>2, TreeAssumption DEF Wrapped
<1>3. ASSUME NEW k \in 1..m, IsFiniteSet(FirstPositions(t, k - 1))
      PROVE  /\ Total(Wrapped(size(k - 1)), Counts(t[k])) = Wrapped(size(k))
             /\ IsFiniteSet(FirstPositions(t, k))
  <2>1. FirstPositions(t, k) = FirstPositions(t, k - 1) \cup Behind(k, CallsOf(t[k]))
    <3>1. 1..k = 1..(k - 1) \cup {k}
      BY <1>1
    <3> QED BY <3>1 DEF FirstPositions
  <2>2. \A p : <<k, p>> \notin FirstPositions(t, k - 1)
    BY <1>1 DEF FirstPositions, Behind
  <2> QED BY <1>1, <1>3, <2>1, <2>2, OperationCounts
<1>4. \A k \in 0..m : IsFiniteSet(FirstPositions(t, k))
  <2> SUFFICES ASSUME U # {} PROVE FALSE
    OBVIOUS
  <2> HIDE DEF m, size
  <2>1. U \in SUBSET Nat
    BY <1>1
  <2>2. PICK k \in U : \A j \in U : k <= j
    <3> HIDE DEF U
    <3> QED BY <2>1, Least
  <2>3. k # 0
    BY <2>2, <1>2
  <2>4. k \in 1..m /\ k - 1 \in 0..m /\ k - 1 \notin U
    BY <2>2, <2>3, <1>1
  <2> QED BY <2>2, <2>4, <1>3
<1>5. ASSUME NEW k \in 1..m
      PROVE  Total(Wrapped(size(k - 1)), Counts(t[k])) = Wrapped(size(k))
  <2>1. k - 1 \in 0..m
    BY <1>1
  <2> QED BY <1>3, <1>4, <2>1
<1>6. P(W)
  <2> HIDE DEF size
  <2>1. ASSUME NEW k \in 0..m
        PROVE  W[k] = IF k = 0 THEN 0 ELSE Total(W[k - 1], Counts(t[k]))
    <3>1. CASE k = 0
      BY <3>1, <1>1, <1>2
    <3>2. CASE k # 0
      <4>1. k \in 1..m /\ k - 1 \in 0..m
        BY <3>2, <1>1
      <4> QED BY <3>2, <4>1, <1>5
    <3> QED BY <3>1, <3>2
  <2>2. W = [k \in 0..m |-> W[k]]
    OBVIOUS
  <2> HIDE DEF W
  <2> QED BY <2>1, <2>2 DEF ExtractSteps
<1>7. P(G)
  <2> HIDE DEF P, W
  <2> QED BY <1>6
<1>8. ExtractContractCalls(t) = G[m]
  BY Zenon DEF ExtractContractCalls, ExtractSteps
<1>9. G[0] = 0 /\ \A k \in 1..m : G[k] = Total(G[k - 1], Counts(t[k]))
  <2> HIDE DEF G
  <2> QED BY <1>1, <1>7 DEF ExtractSteps
<1> HIDE DEF G, P, W, m, size
<1>10. T = {}
  <2> SUFFICES ASSUME T # {} PROVE FALSE
    OBVIOUS
  <2>1. T \in SUBSET Nat
    BY <1>1
  <2>2. PICK k \in T : \A j \in T : k <= j
    <3> HIDE DEF T
    <3> QED BY <2>1, Least
  <2>3. k # 0
    BY <2>2, <1>1, <1>2, <1>4, <1>9
  <2>4. k \in 1..m /\ k - 1 \in 0..m /\ k - 1 \notin T
    BY <2>2, <2>3, <1>1
  <2> QED BY <2>2, <2>4, <1>4, <1>5, <1>9
<1>11. FirstPositions(t, m) = CallPositions(t)
  BY DEF FirstPositions, CallPositions, Behind, m
<1>12. m \in 0..m
  BY <1>1
<1>13. G[m] = Wrapped(size(m)) /\ IsFiniteSet(FirstPositions(t, m))
  BY <1>10, <1>12
<1>14. Calls(t) = size(m) /\ size(m) \in Nat
  BY <1>11, <1>13, FS_CardinalityType DEF size, Calls
<1> QED BY <1>8, <1>13, <1>14

(***************************************************************************)
(* The guard.                                                              *)
(***************************************************************************)
\* The count of a guard is a u16 and the authorized calls are a number.
TreeInv ==
    /\ overflowChecks \in BOOLEAN
    /\ presented \in Seq(Seq(Invocations))
    /\ granted \in 0..(Width - 1) /\ remaining \in 0..granted
    /\ authorized \in Nat
    /\ EveryNodePaid

\* A guard that was not used yet.
LEMMA TreeInvHolds == TreeInit => TreeInv
<1> SUFFICES ASSUME TreeInit PROVE TreeInv
  OBVIOUS
<1>1. <<>> \in Seq(Seq(Invocations))
  OBVIOUS
<1>2. 0 % Width = 0
  BY SmallMod, TreeAssumption
<1>3. granted - remaining = 0 /\ authorized - (granted - remaining) = 0 /\ remaining \in 0..granted
  BY TreeAssumption DEF TreeInit
<1> QED BY <1>1, <1>2, <1>3 DEF TreeInit, TreeInv, EveryNodePaid

\* Paying what is left of n calls leaves the difference a multiple of the width.
LEMMA PaysWhatIsLeft ==
    ASSUME NEW a \in Int, a % Width = 0, NEW n \in Nat, NEW c \in {n, n % Width}
    PROVE  ((a + n) - c) % Width = 0
<1>1. CASE c = n
  <2>1. (a + n) - c = a
    BY <1>1
  <2> QED BY <2>1
<1>2. CASE c = n % Width
  <2> DEFINE qa == a \div Width
             qn == n \div Width
  <2>1. qa \in Int /\ qn \in Int /\ a = (qa * Width) + 0 /\ n = (qn * Width) + c /\ c \in Int
    BY <1>2, DivMod, TreeAssumption
  <2> HIDE DEF qa, qn
  <2>2. (a + n) - c = ((qa + qn) * Width) + 0
    BY <2>1, TreeAssumption
  <2>3. qa + qn \in Int /\ 0 \in 0..(Width - 1)
    BY <2>1, TreeAssumption
  <2> QED BY <2>2, <2>3, ModUnique, TreeAssumption
<1> QED BY <1>1, <1>2

\* Presenting keeps the account of the guard, and so does every decision.
LEMMA TreeNextKeeps == TreeInv /\ [TreeNext]_treeVars => TreeInv'
<1> SUFFICES ASSUME TreeInv, [TreeNext]_treeVars PROVE TreeInv'
  OBVIOUS
<1> USE DEF TreeInv
<1>1. ASSUME NEW t \in Transactions, Present(t) PROVE TreeInv'
  BY <1>1, TreeAssumption DEF Present, EveryNodePaid
<1>2. CASE Decide
  <2> DEFINE calls == ExtractContractCalls(presented)
             n == Calls(presented)
  <2>1. calls = Wrapped(n) /\ n \in Nat
    BY ExtractIs
  <2>2. /\ decision = "checking" /\ UNCHANGED <<overflowChecks, presented, granted>>
        /\ \/ UNCHANGED <<remaining, authorized>>
           \/ /\ remaining >= calls /\ calls > 0
              /\ remaining' = remaining - calls
              /\ authorized' = authorized + n
    BY <1>2 DEF Decide
  <2> HIDE DEF calls, n
  <2>3. CASE UNCHANGED <<remaining, authorized>>
    BY <2>2, <2>3 DEF EveryNodePaid
  <2>4. CASE /\ remaining >= calls /\ calls > 0
             /\ remaining' = remaining - calls
             /\ authorized' = authorized + n
    <3>1. calls # Panic
      BY <2>4 DEF Panic
    <3>2. calls \in {n, n % Width} /\ (overflowChecks => calls = n)
      BY <2>1, <3>1 DEF Wrapped
    <3>3. calls \in Nat
      BY <2>1, <3>2, <2>4, DivMod, TreeAssumption
    <3>4. remaining \in Int /\ granted \in Int /\ authorized \in Nat
      BY TreeAssumption
    <3>5. remaining' \in 0..granted /\ authorized' \in Nat
      BY <2>1, <2>4, <3>3, <3>4
    <3>6. overflowChecks => granted - remaining' = authorized'
      BY <2>1, <2>4, <3>2, <3>3, <3>4 DEF EveryNodePaid
    <3>7. (authorized' - (granted - remaining')) % Width = 0
      <4> DEFINE a == authorized - (granted - remaining)
      <4>1. a \in Int /\ a % Width = 0
        BY <3>4 DEF EveryNodePaid
      <4>2. authorized' - (granted - remaining') = (a + n) - calls
        BY <2>1, <2>4, <3>3, <3>4
      <4> HIDE DEF a
      <4> QED BY <4>1, <4>2, <2>1, <3>2, PaysWhatIsLeft
    <3> QED BY <2>2, <3>5, <3>6, <3>7 DEF EveryNodePaid
  <2> QED BY <2>2, <2>3, <2>4
<1>3. CASE UNCHANGED treeVars
  BY <1>3 DEF treeVars, EveryNodePaid
<1> QED BY <1>1, <1>2, <1>3 DEF TreeNext

\* The inductive invariant.
THEOREM TreeInvariance == TreeSpec => []TreeInv
BY TreeInvHolds, TreeNextKeeps, PTL DEF TreeSpec

\* What a guard counts is the number of nodes of its contract, wherever in the
\* trees of whichever operation, panicking or wrapping past u16: for every width,
\* trees of every shape and depth and every sequence of transactions.
THEOREM CountsMatch == TreeSpec => []CountMatchesPositions
<1>1. TreeInv => CountMatchesPositions
  BY ExtractIs DEF TreeInv, CountMatchesPositions, Wrapped
<1> QED BY <1>1, TreeInvariance, PTL

\* The budget pays for every node of every authorized tree, exactly or up to
\* multiples of the width.
THEOREM NodesArePaid == TreeSpec => []EveryNodePaid
<1>1. TreeInv => EveryNodePaid
  BY DEF TreeInv
<1> QED BY <1>1, TreeInvariance, PTL

(***************************************************************************)
(* Guards and InvocationTree: the number the one takes as given is the     *)
(* number the other computes.                                              *)
(***************************************************************************)
\* A count that does not panic is a u16, which GuardsAssumption takes for granted.
THEOREM CountsAreU16 ==
    ASSUME overflowChecks \in BOOLEAN, NEW t \in Seq(Seq(Invocations))
    PROVE  ExtractContractCalls(t) \in 0..(Width - 1) \cup {Panic}
<1> DEFINE n == Calls(t)
<1>1. ExtractContractCalls(t) = Wrapped(n) /\ n \in Nat
  BY ExtractIs
<1> HIDE DEF n
<1>2. n % Width \in 0..(Width - 1)
  BY <1>1, DivMod, TreeAssumption
<1>3. n < Width => n \in 0..(Width - 1)
  BY <1>1, TreeAssumption
<1> QED
  BY <1>1, <1>2, <1>3 DEF Wrapped

\* A step of a tree's guard, seen as Check and Update of a guard with its budget
\* on a transaction with its count.
DecidesAsGuard ==
    \A c \in Contracts, tx \in Txs :
        Decide /\ CallsIn[tx][c] = ExtractContractCalls(presented) =>
            LET g == [scope |-> c, remaining |-> remaining] IN
            /\ decision' = IF Check(g, tx) THEN "authorized" ELSE "refused"
            /\ remaining' = Update(g, tx).remaining

\* A guard decides over trees as Guards has it decide over their counts: what is
\* proved of accounts whose guards read CallsIn holds when the guards count.
THEOREM GuardsCount == TreeSpec => [][DecidesAsGuard]_treeVars
<1>1. TreeInv /\ [TreeNext]_treeVars => [DecidesAsGuard]_treeVars
  <2> SUFFICES ASSUME TreeInv, NEW c \in Contracts, NEW tx \in Txs, Decide,
                      CallsIn[tx][c] = ExtractContractCalls(presented)
               PROVE  LET g == [scope |-> c, remaining |-> remaining] IN
                      /\ decision' = IF Check(g, tx) THEN "authorized" ELSE "refused"
                      /\ remaining' = Update(g, tx).remaining
    BY DEF DecidesAsGuard
  <2> DEFINE calls == CallsIn[tx][c]
             g == [scope |-> c, remaining |-> remaining]
  <2>1. calls \in Nat /\ calls # Panic /\ c # AnyCall /\ remaining \in Nat
    BY GuardsAssumption, TreeAssumption DEF Panic, TreeInv
  <2>2. g.scope = c /\ g.remaining = remaining
    OBVIOUS
  <2>3. \/ /\ ~(remaining >= calls /\ calls > 0)
           /\ decision' = "refused" /\ remaining' = remaining
        \/ /\ remaining >= calls /\ calls > 0
           /\ decision' = "authorized" /\ remaining' = remaining - calls
    BY <2>1 DEF Decide
  <2> HIDE DEF calls
  <2>4. (Check(g, tx) <=> remaining >= calls /\ calls > 0) /\ Cost(g, tx) = calls
    BY <2>1, <2>2 DEF Check, Cost, calls
  <2>5. Update(g, tx).remaining = IF remaining >= calls /\ calls > 0 THEN remaining - calls
                                  ELSE remaining
    <3>1. Update(g, tx) = IF remaining >= calls /\ calls > 0
                          THEN [g EXCEPT !.remaining = remaining - calls] ELSE g
      <4> HIDE DEF g
      <4> QED
        BY <2>1, <2>2, <2>4 DEF Update
    <3> QED
      BY <3>1
  <2> QED
    BY <2>3, <2>4, <2>5
<1> QED
  BY <1>1, TreeInvariance, PTL DEF TreeSpec
=============================================================================
