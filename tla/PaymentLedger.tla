---------------------------- MODULE PaymentLedger ----------------------------
(***************************************************************************)
(* What the payout pipeline of RewardPayout promises: a payment leaves for *)
(* the network only against a grant, the approval's or one that a sweeper  *)
(* renewed for a row it took for abandoned, and a proof is marked as       *)
(* rewarded only after a payment.                                          *)
(***************************************************************************)
EXTENDS Naturals

CONSTANT Payouts

VARIABLES
  granted,  \* payments each payout may cost
  sent,     \* payments the network has accepted
  settled   \* payouts whose proof is marked as rewarded

ledger == <<granted, sent, settled>>

Init ==
  /\ granted = [p \in Payouts |-> 1]
  /\ sent = [p \in Payouts |-> 0]
  /\ settled = {}

Renew(p) ==
  /\ granted' = [granted EXCEPT ![p] = @ + 1]
  /\ UNCHANGED <<sent, settled>>

Send(p) ==
  /\ sent[p] < granted[p]
  /\ sent' = [sent EXCEPT ![p] = @ + 1]
  /\ UNCHANGED <<granted, settled>>

Settle(p) ==
  /\ sent[p] > 0
  /\ settled' = settled \cup {p}
  /\ UNCHANGED <<granted, sent>>

Next == \E p \in Payouts : Renew(p) \/ Send(p) \/ Settle(p)

Spec == Init /\ [][Next]_ledger
=============================================================================
