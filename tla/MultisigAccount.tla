-------------------------- MODULE MultisigAccount ---------------------------
(***************************************************************************)
(* The multisig smart account (crates/multisig/src/lib.rs): a signer list  *)
(* and a threshold, stored by the constructor as they are given, and       *)
(* __check_auth, which the host calls with the payload it wants authorized *)
(* and the signatures that came with the authorization entry.              *)
(*                                                                         *)
(* A signature is [key, payload]: whose it is said to be and what that key *)
(* signed.  ed25519_verify traps on one of anything but the payload.       *)
(***************************************************************************)
EXTENDS Integers, Sequences, FiniteSets

CONSTANT NotInitialized  \* the storage before the constructor ran

\* __constructor checks neither list nor number.
Constructed(ss, n) == [signers |-> ss, threshold |-> n]

KeysOf(ss) == {ss[i] : i \in DOMAIN ss}

(***************************************************************************)
(* __check_auth: the loop over the signatures.  When it reaches signature  *)
(* i, `seen` holds the keys of those before it.                            *)
(***************************************************************************)
UnknownAt(storage, sigs, i) == sigs[i].key \notin KeysOf(storage.signers)

\* Fault: keys seen before are not remembered.
NeverSeenAt(sigs, i) == FALSE

SeenAt(sigs, i) == \E j \in 1..(i - 1) : sigs[j].key = sigs[i].key

TrapsAt(payload, sigs, i) == sigs[i].payload # payload

\* The signature the loop ends at, if any.
Stops(storage, payload, sigs) ==
    {i \in DOMAIN sigs : \/ UnknownAt(storage, sigs, i)
                         \/ SeenAt(sigs, i)
                         \/ TrapsAt(payload, sigs, i)}

Refusal(storage, payload, sigs) ==
    LET i == CHOOSE i \in Stops(storage, payload, sigs) :
                 \A j \in Stops(storage, payload, sigs) : i <= j
    IN CASE UnknownAt(storage, sigs, i) -> "UnknownSigner"
         [] ~UnknownAt(storage, sigs, i) /\ SeenAt(sigs, i) -> "DuplicateSigner"
         [] OTHER -> "Trap"

CheckAuth(storage, payload, sigs) ==
    CASE storage = NotInitialized -> "NotInitialized"
      [] storage # NotInitialized /\ Stops(storage, payload, sigs) # {} ->
            Refusal(storage, payload, sigs)
      [] storage # NotInitialized /\ Stops(storage, payload, sigs) = {} ->
            IF Len(sigs) < storage.threshold THEN "InsufficientSignatures" ELSE "Ok"
=============================================================================
