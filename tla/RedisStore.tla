------------------------------ MODULE RedisStore ------------------------------
(***************************************************************************)
(* wrapIoredisForMppx: mppx's atomic update built from WATCH, GET and      *)
(* MULTI/EXEC.  Redis keeps the watched keys and the "a watched key has    *)
(* changed" flag PER CONNECTION, and the kit hands one ioredis connection  *)
(* to all the requests of a process, so the connection is part of the      *)
(* state.  Each awaited command is a step; multi() .. exec() is sent as    *)
(* one pipeline and is a single step of the server.                        *)
(*                                                                         *)
(* Any command may be rejected, before Redis carried it out or after: of a *)
(* rejected EXEC the caller cannot tell whether it went through.           *)
(***************************************************************************)
EXTENDS Naturals, FiniteSets

CONSTANTS
  Updates,     \* calls of update(), set() or del()
  Keys, KeyOf, \* the key of each call
  Conns, ConnOf,  \* ioredis connections, one per process, and each call's
  Kinds,       \* what the calls may do, see AtomicStore
  MaxRetries,  \* MAX_RETRIES
  Exclusive,   \* does a process wait for an update before starting another?
  Reconnects,  \* may ioredis reconnect in the middle of an update?
  Rejectable   \* bound: the calls whose commands may be rejected

VARIABLES
  db,       \* the Redis database
  kind,     \* kind[u]: what call u does
  watched,  \* watched[c]: the keys connection c watches
  dirty,    \* dirty[c]: a key that c watched has been written since
  pc,       \* pc[u]: the command call u sends next, or how it ended: "done",
            \*   "failed", or "unknown" when the writing command was rejected
  attempt,  \* attempt[u]: the loop counter of update()
  current   \* current[u]: what GET returned

vars == <<db, kind, watched, dirty, pc, attempt, current>>

InFlightStates == {"watch", "get", "exec", "unwatch"}

\* The promise is that update is atomic.  A call counts as applied once its noop
\* has read the value or its EXEC has gone through.
Status ==
  [u \in Updates |-> CASE pc[u] \in {"watch", "get", "exec"} -> "pending"
                       [] pc[u] = "unwatch" -> "applied"
                       [] pc[u] = "unknown" -> "failed"
                       [] OTHER -> pc[u]]
Seen == [u \in Updates |-> IF pc[u] \in {"unwatch", "done"} THEN current[u] ELSE {}]

Atomic == INSTANCE AtomicStore WITH status <- Status, seen <- Seen

ASSUME RedisAssumption ==
  /\ KeyOf \in [Updates -> Keys]
  /\ ConnOf \in [Updates -> Conns]
  /\ Kinds \subseteq Atomic!AllKinds
  /\ MaxRetries \in Nat \ {0}
  /\ Exclusive \in BOOLEAN
  /\ Reconnects \in BOOLEAN
  /\ Rejectable \subseteq Updates

\* A call that is still going round the loop has not used up its retries.
LoopBound ==
  \A u \in Updates : pc[u] \in {"idle"} \cup InFlightStates => attempt[u] < MaxRetries

TypeOK ==
  /\ db \in [Keys -> SUBSET Updates]
  /\ kind \in [Updates -> Kinds]
  /\ watched \in [Conns -> SUBSET Keys]
  /\ dirty \in [Conns -> BOOLEAN]
  /\ pc \in [Updates -> {"idle", "done", "failed", "unknown"} \cup InFlightStates]
  /\ attempt \in [Updates -> 0 .. MaxRetries]
  /\ current \in [Updates -> SUBSET Updates]
  /\ LoopBound

Init ==
  /\ db = [k \in Keys |-> Atomic!Missing]
  /\ kind \in [Updates -> Kinds]
  /\ watched = [c \in Conns |-> {}]
  /\ dirty = [c \in Conns |-> FALSE]
  /\ pc = [u \in Updates |-> "idle"]
  /\ attempt = [u \in Updates |-> 0]
  /\ current = [u \in Updates |-> Atomic!Missing]

MoveTo(u, state) == pc' = [pc EXCEPT ![u] = state]

\* Redis: a write to key k flags every connection that watches k; deleting a key
\* that does not exist is not a write.  EXEC and UNWATCH forget all watches of the
\* connection first.
Flagged(flags, watches, k, wrote) ==
  [c \in Conns |-> flags[c] \/ (wrote /\ k \in watches[c])]

Forget(c) == [watched EXCEPT ![c] = {}]
Clear(c)  == [dirty EXCEPT ![c] = FALSE]

-----------------------------------------------------------------------------
Begin(u) ==
  /\ pc[u] = "idle"
  /\ kind[u] \notin {"put", "remove"}
  /\ Exclusive => \A v \in Updates : ConnOf[v] = ConnOf[u] => pc[v] \notin InFlightStates
  /\ MoveTo(u, "watch")
  /\ UNCHANGED <<db, kind, watched, dirty, attempt, current>>

\* A mistake the properties must notice: the key is not watched.
WatchNothing(u) ==
  /\ pc[u] = "watch"
  /\ MoveTo(u, "get")
  /\ UNCHANGED <<db, kind, watched, dirty, attempt, current>>

Watch(u) ==
  /\ pc[u] = "watch"
  /\ watched' = [watched EXCEPT ![ConnOf[u]] = @ \cup {KeyOf[u]}]
  /\ MoveTo(u, "get")
  /\ UNCHANGED <<db, kind, dirty, attempt, current>>

\* A mistake the properties must notice: an exception of fn is retried and not
\* counted as an attempt.
GetRetriesThrows(u) ==
  LET op == Atomic!ChangeOp(kind[u], db[KeyOf[u]])
  IN  /\ pc[u] = "get"
      /\ current' = [current EXCEPT ![u] = db[KeyOf[u]]]
      /\ \/ op \in {"set", "delete"} /\ MoveTo(u, "exec")
         \/ op = "noop" /\ MoveTo(u, "unwatch")
         \/ op = "throw" /\ MoveTo(u, "watch")
      /\ UNCHANGED <<db, kind, watched, dirty, attempt>>

\* GET answers and fn runs at once on the answer.  When fn throws, update rejects
\* with the WATCH still set on the connection.
Get(u) ==
  LET op == Atomic!ChangeOp(kind[u], db[KeyOf[u]])
  IN  /\ pc[u] = "get"
      /\ current' = [current EXCEPT ![u] = db[KeyOf[u]]]
      /\ \/ op \in {"set", "delete"} /\ MoveTo(u, "exec")
         \/ op = "noop" /\ MoveTo(u, "unwatch")
         \/ op = "throw" /\ MoveTo(u, "failed")
      /\ UNCHANGED <<db, kind, watched, dirty, attempt>>

Unwatch(u) ==
  /\ pc[u] = "unwatch"
  /\ watched' = Forget(ConnOf[u])
  /\ dirty' = Clear(ConnOf[u])
  /\ MoveTo(u, "done")
  /\ UNCHANGED <<db, kind, attempt, current>>

\* Redis carries out the transaction: no watched key has changed.
Transaction(u) ==
  LET k == KeyOf[u]
      new == Atomic!Changed(u, kind[u], current[u])
  IN  /\ pc[u] = "exec"
      /\ ~dirty[ConnOf[u]]
      /\ db' = [db EXCEPT ![k] = new]
      /\ watched' = Forget(ConnOf[u])
      /\ dirty' = Flagged(dirty, watched', k, new # Atomic!Missing \/ db[k] # Atomic!Missing)
      /\ UNCHANGED <<kind, attempt, current>>

ExecCommits(u) == Transaction(u) /\ MoveTo(u, "done")

\* exec() rejects after Redis has carried the transaction out.
ExecAnswerLost(u) == u \in Rejectable /\ Transaction(u) /\ MoveTo(u, "unknown")

\* Mistakes the properties must notice in the branch for an aborted EXEC: one
\* round too many; commands that were not sent as a transaction and went through
\* all the same; the answer of an EXEC that went through read as an abort.
ExecAbortsOnceMore(u) ==
  /\ pc[u] = "exec"
  /\ dirty[ConnOf[u]]
  /\ watched' = Forget(ConnOf[u])
  /\ dirty' = Clear(ConnOf[u])
  /\ attempt' = [attempt EXCEPT ![u] = @ + 1]
  /\ MoveTo(u, IF attempt'[u] <= MaxRetries THEN "watch" ELSE "failed")
  /\ UNCHANGED <<db, kind, current>>

ExecAbortsAfterWriting(u) ==
  /\ pc[u] = "exec"
  /\ dirty[ConnOf[u]]
  /\ db' = [db EXCEPT ![KeyOf[u]] = Atomic!Changed(u, kind[u], current[u])]
  /\ watched' = Forget(ConnOf[u])
  /\ dirty' = Clear(ConnOf[u])
  /\ attempt' = [attempt EXCEPT ![u] = @ + 1]
  /\ MoveTo(u, IF attempt'[u] < MaxRetries THEN "watch" ELSE "failed")
  /\ UNCHANGED <<kind, current>>

ExecMisread(u) ==
  /\ pc[u] = "exec"
  /\ ~dirty[ConnOf[u]]
  /\ db' = [db EXCEPT ![KeyOf[u]] = Atomic!Changed(u, kind[u], current[u])]
  /\ watched' = Forget(ConnOf[u])
  /\ dirty' = Clear(ConnOf[u])
  /\ attempt' = [attempt EXCEPT ![u] = @ + 1]
  /\ MoveTo(u, IF attempt'[u] < MaxRetries THEN "watch" ELSE "failed")
  /\ UNCHANGED <<kind, current>>

\* EXEC answers null: the loop goes round, or gives up after MaxRetries.
ExecAborts(u) ==
  /\ pc[u] = "exec"
  /\ dirty[ConnOf[u]]
  /\ watched' = Forget(ConnOf[u])
  /\ dirty' = Clear(ConnOf[u])
  /\ attempt' = [attempt EXCEPT ![u] = @ + 1]
  /\ MoveTo(u, IF attempt'[u] < MaxRetries THEN "watch" ELSE "failed")
  /\ UNCHANGED <<db, kind, current>>

\* A command is rejected and update with it.  Redis may have carried it out or not
\* (for EXEC that went through, see ExecAnswerLost), and with a broken connection it
\* forgets the watches.
Rejected(u) ==
  /\ u \in Rejectable
  /\ pc[u] \in InFlightStates
  /\ \/ UNCHANGED <<watched, dirty>>
     \/ /\ pc[u] = "watch"
        /\ watched' = [watched EXCEPT ![ConnOf[u]] = @ \cup {KeyOf[u]}]
        /\ UNCHANGED dirty
     \/ watched' = Forget(ConnOf[u]) /\ dirty' = Clear(ConnOf[u])
  /\ MoveTo(u, IF pc[u] = "exec" THEN "unknown" ELSE "failed")
  /\ UNCHANGED <<db, kind, attempt, current>>

\* The store's set() and del(): one plain command, answered or not.
Overwrite(u) ==
  LET k == KeyOf[u]
      new == IF kind[u] = "put" THEN {u} ELSE Atomic!Missing
  IN  /\ pc[u] = "idle"
      /\ kind[u] \in {"put", "remove"}
      /\ db' = [db EXCEPT ![k] = new]
      /\ dirty' = Flagged(dirty, watched, k, new # Atomic!Missing \/ db[k] # Atomic!Missing)
      /\ MoveTo(u, "done") \/ (u \in Rejectable /\ MoveTo(u, "unknown"))
      /\ UNCHANGED <<kind, watched, attempt, current>>

OverwriteRejected(u) ==
  /\ u \in Rejectable
  /\ pc[u] = "idle"
  /\ kind[u] \in {"put", "remove"}
  /\ MoveTo(u, "unknown")
  /\ UNCHANGED <<db, kind, watched, dirty, attempt, current>>

\* ioredis reconnects by itself and sends on what it is given; the new connection
\* watches nothing.  Without Reconnects that happens only between updates.
Reconnect(c) ==
  /\ Reconnects \/ \A u \in Updates : ConnOf[u] = c => pc[u] \notin InFlightStates
  /\ watched[c] # {}
  /\ watched' = Forget(c)
  /\ dirty' = Clear(c)
  /\ UNCHANGED <<db, kind, pc, attempt, current>>

Step(u) ==
  \/ Begin(u) \/ Watch(u) \/ Get(u) \/ Unwatch(u)
  \/ ExecCommits(u) \/ ExecAnswerLost(u) \/ ExecAborts(u) \/ Rejected(u)
  \/ Overwrite(u) \/ OverwriteRejected(u)

Next == (\E u \in Updates : Step(u)) \/ (\E c \in Conns : Reconnect(c))

Spec == Init /\ [][Next]_vars

\* Every command that is sent is answered or rejected.
FairSpec == Spec /\ \A u \in Updates : WF_vars(Step(u))

-----------------------------------------------------------------------------
\* With one update at a time on each connection, and no reconnect under way, update
\* is atomic: each applied update saw the value that the one before it left, under
\* any contention between processes, with exceptions, noops, plain writes and
\* rejected commands mixed in.  One whose EXEC was rejected was applied whole or not
\* at all.
Linearizable == Atomic!Spec

\* An update that was reported as done is in the value unless somebody deleted or
\* overwrote the key (no caller does, in this property).
NoLostUpdate ==
  (\A u \in Updates : kind[u] \in {"append", "create", "look", "throws"}) =>
    \A u \in Updates : pc[u] = "done" /\ kind[u] = "append" => u \in db[KeyOf[u]]

\* An update whose callback threw, that gave up, or whose WATCH, GET or UNWATCH was
\* rejected is in no value, now or later.  Only a rejected write (pc "unknown") leaves
\* the caller in the dark.
NoTraceOfFailure ==
  \A u \in Updates : pc[u] = "failed" => \A k \in Keys : u \notin db[k]

\* Lock freedom: a call is sent round the loop only by writes of others, each of them
\* one whose key some call of the same connection uses: running out of MaxRetries
\* takes MaxRetries such writes.  (Its own key is not enough: a WATCH that an earlier
\* call left behind on the connection aborts the next EXEC just the same.)
Wrote(u) ==
  /\ pc[u] \in {"done", "unknown"}
  /\ kind[u] \in {"put", "remove"} \/ Atomic!ChangeOp(kind[u], current[u]) \in {"set", "delete"}
KeysOn(c) == {KeyOf[u] : u \in {v \in Updates : ConnOf[v] = c}}
Writers(c) == {u \in Updates : Wrote(u) /\ KeyOf[u] \in KeysOn(c)}
RetriesAreEarned ==
  \A u \in Updates : attempt[u] <= Cardinality(Writers(ConnOf[u]) \ {u})

\* Every call that was started returns or throws.
EveryUpdateEnds ==
  \A u \in Updates : pc[u] \in InFlightStates ~> pc[u] \in {"done", "failed", "unknown"}
=============================================================================
