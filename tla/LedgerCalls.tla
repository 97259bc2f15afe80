---------------------------- MODULE LedgerCalls -----------------------------
(***************************************************************************)
(* What a client may rely on when it calls a contract, whatever the        *)
(* network does: a call hands signed transactions to the network one after *)
(* the other, a transaction takes effect at most once and only if it was   *)
(* handed over, two transactions never take effect at the same sequence    *)
(* number, and a call that returns Ok has seen the last transaction it     *)
(* handed over take effect.  A call that returns an error promises         *)
(* nothing: its transactions may still take effect afterwards.             *)
(***************************************************************************)
CONSTANTS
    Tasks,
    Transactions,
    SeqOfTx(_),   \* the sequence number a transaction uses
    NoTx

VARIABLES
    answer,  \* [Tasks -> {"none", "running", "ok", "error"}]
    last,    \* what the call handed over last, until it fails
    handed,  \* every transaction handed to the network
    effects  \* the transactions that took effect

vars == <<answer, last, handed, effects>>

Init ==
    /\ answer = [t \in Tasks |-> "none"]
    /\ last = [t \in Tasks |-> NoTx]
    /\ handed = {}
    /\ effects = {}

Start(t) ==
    /\ answer[t] # "running"
    /\ answer' = [answer EXCEPT ![t] = "running"]
    /\ last' = [last EXCEPT ![t] = NoTx]
    /\ UNCHANGED <<handed, effects>>

\* A call whose arguments are refused at once.
Refuse(t) ==
    /\ answer[t] # "running"
    /\ answer' = [answer EXCEPT ![t] = "error"]
    /\ last' = [last EXCEPT ![t] = NoTx]
    /\ UNCHANGED <<handed, effects>>

\* The call goes on with another transaction, not handed over yet.
Prepare(t) ==
    /\ answer[t] = "running"
    /\ last' = [last EXCEPT ![t] = NoTx]
    /\ UNCHANGED <<answer, handed, effects>>

Hand(t) ==
    /\ answer[t] = "running"
    /\ last'[t] \in Transactions
    /\ last' = [last EXCEPT ![t] = last'[t]]
    /\ handed' = handed \cup {last'[t]}
    /\ UNCHANGED <<answer, effects>>

TakeEffect ==
    \E x \in handed \ effects :
        /\ \A y \in effects : SeqOfTx(y) # SeqOfTx(x)
        /\ effects' = effects \cup {x}
        /\ UNCHANGED <<answer, last, handed>>

ReturnOk(t) ==
    /\ answer[t] = "running"
    /\ last[t] \in effects
    /\ answer' = [answer EXCEPT ![t] = "ok"]
    /\ UNCHANGED <<last, handed, effects>>

ReturnError(t) ==
    /\ answer[t] = "running"
    /\ answer' = [answer EXCEPT ![t] = "error"]
    /\ last' = [last EXCEPT ![t] = NoTx]
    /\ UNCHANGED <<handed, effects>>

Next ==
    \/ \E t \in Tasks : \/ Start(t) \/ Refuse(t)
                        \/ Prepare(t) \/ Hand(t)
                        \/ ReturnOk(t) \/ ReturnError(t)
    \/ TakeEffect

Spec == Init /\ [][Next]_vars
=============================================================================
