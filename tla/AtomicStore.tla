----------------------------- MODULE AtomicStore -----------------------------
(***************************************************************************)
(* What mppx asks of the store behind its channel records: update(key, fn) *)
(* applies fn to the current value in one indivisible step, or not at all. *)
(* The answer may be lost either way: an update that fails has usually     *)
(* left no trace, but it may also have been applied, whole.                *)
(*                                                                         *)
(* A value is the set of updates whose effect it still contains, so a lost *)
(* update is a missing member; Missing is a key that is not there.         *)
(***************************************************************************)
CONSTANTS Updates, Keys, KeyOf, Kinds

\* What the callers of update() compute, seen from the store:
\*   append  reads the value and writes it back with its own change,
\*   create  writes only when the key is missing,
\*   clear   answers with the delete operation,
\*   look    answers with the noop operation,
\*   throws  raises an exception,
\* and put and remove are the store's plain set() and del().
AllKinds == {"append", "create", "clear", "look", "throws", "put", "remove"}

Missing == {}

\* The `op` of the Change that fn returns for the value it is shown.
ChangeOp(kind, value) ==
  CASE kind = "append" -> "set"
    [] kind = "create" -> IF value = Missing THEN "set" ELSE "noop"
    [] kind = "clear"  -> "delete"
    [] kind = "look"   -> "noop"
    [] OTHER           -> "throw"

\* The value a set or delete operation leaves behind.
Changed(u, kind, value) ==
  IF ChangeOp(kind, value) = "set" THEN value \cup {u} ELSE Missing

VARIABLES
  db,      \* db[k]: the value of key k
  kind,    \* kind[u]: what update u does
  status,  \* status[u]: "idle", "pending", "applied", "done" or "failed"
  seen     \* seen[u]: the value behind the result that is returned

vars == <<db, kind, status, seen>>

Init ==
  /\ db = [k \in Keys |-> Missing]
  /\ kind \in [Updates -> Kinds]
  /\ status = [u \in Updates |-> "idle"]
  /\ seen = [u \in Updates |-> Missing]

Invoke(u) ==
  /\ status[u] = "idle"
  /\ status' = [status EXCEPT ![u] = "pending"]
  /\ UNCHANGED <<db, kind, seen>>

\* The effect.  The answer is there at once, on its way, or lost.
Apply(u) ==
  LET k == KeyOf[u]
      op == ChangeOp(kind[u], db[k])
  IN  /\ status[u] = "pending"
      /\ op \in {"set", "delete", "noop"}
      /\ db' = IF op = "noop" THEN db ELSE [db EXCEPT ![k] = Changed(u, kind[u], @)]
      /\ \/ /\ \E s \in {"applied", "done"} : status' = [status EXCEPT ![u] = s]
            /\ seen' = [seen EXCEPT ![u] = db[k]]
         \/ /\ status' = [status EXCEPT ![u] = "failed"]
            /\ UNCHANGED seen
      /\ UNCHANGED kind

Answer(u) ==
  /\ status[u] = "applied"
  /\ status' = [status EXCEPT ![u] = "done"]
  /\ UNCHANGED <<db, kind, seen>>

LoseAnswer(u) ==
  /\ status[u] = "applied"
  /\ status' = [status EXCEPT ![u] = "failed"]
  /\ seen' = [seen EXCEPT ![u] = Missing]
  /\ UNCHANGED <<db, kind>>

Fail(u) ==
  /\ status[u] = "pending" \/ (status[u] = "idle" /\ kind[u] \in {"put", "remove"})
  /\ status' = [status EXCEPT ![u] = "failed"]
  /\ UNCHANGED <<db, kind, seen>>

Overwrite(u) ==
  /\ status[u] = "idle"
  /\ kind[u] \in {"put", "remove"}
  /\ db' = [db EXCEPT ![KeyOf[u]] = IF kind[u] = "put" THEN {u} ELSE Missing]
  /\ \E s \in {"done", "failed"} : status' = [status EXCEPT ![u] = s]
  /\ UNCHANGED <<kind, seen>>

Next ==
  \E u \in Updates :
    Invoke(u) \/ Apply(u) \/ Answer(u) \/ LoseAnswer(u) \/ Fail(u) \/ Overwrite(u)

Spec == Init /\ [][Next]_vars
=============================================================================
