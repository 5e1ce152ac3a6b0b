------------------------------- MODULE MoneyLog -------------------------------
(***************************************************************************)
(* The structured events of a service: a sink for each destination, fanned *)
(* out by composeLoggers and kept away from the request path by safeLog.   *)
(* An event is counted under the call it is about.                         *)
(***************************************************************************)
EXTENDS Naturals

CONSTANTS
  Sinks,   \* what the seller passed to composeLoggers
  Flaky    \* the sinks that may throw or reject

ASSUME SinksAssumption == Flaky \subseteq Sinks

\* payment_required, request_completed and payment_settled; the rest are
\* payment_failed, told apart by stage and reason.
Kinds == {"required", "settled", "completed", "precheck", "verify", "missing"}

EmptyLog(calls) == [s \in Sinks |-> [r \in calls |-> [k \in Kinds |-> 0]]]

\* A mistake the properties must notice: without safeLog around each sink, the
\* failure of one rejects the event for all.
RecordOrNone(log, r, kind, down) ==
  [s \in Sinks |-> IF down # {} THEN log[s] ELSE [log[s] EXCEPT ![r][kind] = @ + 1]]

\* The event reaches every sink that is not down; the caller never notices.
Record(log, r, kind, down) ==
  [s \in Sinks |-> IF s \in down THEN log[s] ELSE [log[s] EXCEPT ![r][kind] = @ + 1]]
===============================================================================
