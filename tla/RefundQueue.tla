----------------------------- MODULE RefundQueue -----------------------------
(***************************************************************************)
(* Operators who work off the log of failed charges with refundCharge.     *)
(* The operations guide has them search it for paywrap_refund_owed, which  *)
(* the scaffolded route never writes: it has a line of its own,            *)
(* post_settle_create_failed_refund_needed.  The operators here search for *)
(* that one.  Nothing in the code says that anybody does, so a refund may  *)
(* be claimed and never must: the properties say what it may not do.       *)
(* The helper sends one transfer per call and keeps no ledger, so which    *)
(* charges have been refunded is the operators' own record, as the         *)
(* operations guide asks: they claim a charge, call refundCharge, write    *)
(* the refund down when the call returns and try again when it throws.     *)
(***************************************************************************)
EXTENDS Naturals

CONSTANTS
  Operators,
  Creds,      \* what a refund is about: the chargeHash of the log line
  NoCred,
  MaxLost     \* bound on the calls that throw after their transfer went out

VARIABLES
  owed,        \* the charges that the route has logged as failed, in its own words
  opPc,        \* opPc[o]: "idle", or "send" while operator o waits for refundCharge
  target,      \* target[o]: the charge that operator o is refunding
  ledger,      \* the charges written down as refunded
  sends,       \* sends[k]: how many transfers went out for charge k
  unanswered   \* unanswered[k]: how many of those refundCharge threw on

RefundTypeOK ==
  /\ opPc \in [Operators -> {"idle", "send"}]
  /\ target \in [Operators -> Creds \cup {NoCred}]
  /\ ledger \subseteq Creds
  /\ sends \in [Creds -> Nat]
  /\ unanswered \in [Creds -> Nat]

RefundInit ==
  /\ opPc = [o \in Operators |-> "idle"]
  /\ target = [o \in Operators |-> NoCred]
  /\ ledger = {}
  /\ sends = [k \in Creds |-> 0]
  /\ unanswered = [k \in Creds |-> 0]

Claimed == {target[o] : o \in {p \in Operators : opPc[p] = "send"}}

\* The caller's part of the bargain: only what is in the log, not yet refunded and
\* not in another operator's hands.
Claim(o) ==
  /\ opPc[o] = "idle"
  /\ \E k \in owed \ (ledger \cup Claimed) : target' = [target EXCEPT ![o] = k]
  /\ opPc' = [opPc EXCEPT ![o] = "send"]
  /\ UNCHANGED <<ledger, sends, unanswered>>

Return(o) ==
  /\ opPc' = [opPc EXCEPT ![o] = "idle"]
  /\ UNCHANGED target

Transfer(k) == sends' = [sends EXCEPT ![k] = @ + 1]

\* A mistake the properties must notice: an exception of the log sink leaves
\* refundCharge after the transfer went out.
SentUnlogged(o) ==
  /\ opPc[o] = "send"
  /\ sends[target[o]] < MaxLost + 2
  /\ Transfer(target[o])
  /\ ledger' = ledger \cup {target[o]} \/ UNCHANGED ledger
  /\ Return(o)
  /\ UNCHANGED unanswered

\* sendTransaction answers with a hash; paywrap_refund_sent is logged, and a sink
\* that throws changes nothing.
Sent(o) ==
  /\ opPc[o] = "send"
  /\ Transfer(target[o])
  /\ ledger' = ledger \cup {target[o]}
  /\ Return(o)
  /\ UNCHANGED unanswered

\* The transfer goes out and sendTransaction throws all the same.
SentUnanswered(o) ==
  /\ opPc[o] = "send"
  /\ unanswered[target[o]] < MaxLost
  /\ Transfer(target[o])
  /\ unanswered' = [unanswered EXCEPT ![target[o]] = @ + 1]
  /\ Return(o)
  /\ UNCHANGED ledger

\* The amount is not positive, the balance too low or the node out of reach.
NotSent(o) ==
  /\ opPc[o] = "send"
  /\ Return(o)
  /\ UNCHANGED <<ledger, sends, unanswered>>

OperatorStep(o) == Claim(o) \/ Sent(o) \/ SentUnanswered(o) \/ NotSent(o)

RefundNext == \E o \in Operators : OperatorStep(o)

\* A charge is paid back more than once only when refundCharge threw after a transfer
\* had gone out: its own logging never causes a second one.
RepaidOnce == \A k \in Creds : sends[k] <= 1 + unanswered[k]
=============================================================================
