--------------------------------- MODULE Ledger ---------------------------------
(***************************************************************************)
(* What the transaction pipeline promises: a ledger to which transactions  *)
(* are applied one at a time. A deposit is applied at most once. A send is *)
(* applied only while its sender can pay for it, and again only while its  *)
(* nonce is still ahead of the sender's: once if it carries the next nonce,*)
(* up to k times if its nonce is k ahead.                                  *)
(***************************************************************************)
EXTENDS Transfers

CONSTANTS Txs,      \* the transactions that may be submitted
          Genesis   \* the accounts at the start

VARIABLES accounts, applied

Init == accounts = Genesis /\ applied = {}

Balance(a) == IF accounts[a] = None \/ accounts[a].token = None THEN 0 ELSE accounts[a].token
Nonce(a) == IF accounts[a] = None THEN 0 ELSE accounts[a].nonce

\* A deposit creates the account, or counts as a transaction of the account.
Deposit(t) ==
    /\ t.type = "BridgeIn"
    /\ accounts' = [accounts EXCEPT ![t.from] =
                       [nonce |-> IF @ = None THEN 0 ELSE @.nonce + 1,
                        token |-> Balance(t.from) + t.value]]

Payable(t) == /\ accounts[t.from] # None
              /\ accounts[t.from].token # None
              /\ Balance(t.from) >= t.value
              /\ t.nonce > Nonce(t.from) \/ (t.nonce = 0 /\ Nonce(t.from) = 0)

Pay(t) ==
    /\ t.type = "Send"
    /\ Payable(t)
    /\ accounts' =
         [a \in Accounts |->
            CASE a = t.from /\ a = t.to -> [nonce |-> Nonce(a) + 1, token |-> Balance(a)]
              [] a = t.from /\ a # t.to -> [nonce |-> Nonce(a) + 1, token |-> Balance(a) - t.value]
              [] a # t.from /\ a = t.to -> [nonce |-> Nonce(a), token |-> Balance(a) + t.value]
              [] OTHER -> accounts[a]]

Apply(t) == /\ t \in applied => t.type = "Send" /\ t.nonce > Nonce(t.from)
            /\ Deposit(t) \/ Pay(t)
            /\ applied' = applied \union {t}

Next == \E t \in Txs : Apply(t)

Spec == Init /\ [][Next]_<<accounts, applied>>
=============================================================================
