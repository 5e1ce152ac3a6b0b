--------------------------- MODULE RedisStoreProofs ---------------------------
(***************************************************************************)
(* With one update at a time on each connection, and no reconnect in the   *)
(* middle of one, the WATCH/MULTI/EXEC loop implements the atomic store    *)
(* and loses no update, whatever commands are rejected, for any number of  *)
(* calls, connections, keys and retries.                                   *)
(***************************************************************************)
EXTENDS RedisStore, FiniteSetTheorems, TLAPS

\* The watch of a call covers its read: unless the connection is flagged, the value
\* that fn was shown is still the value of the key.  It needs the connection to be
\* the call's own, because EXEC and UNWATCH of another call would forget the watch.
WatchCovers ==
  \A u \in Updates :
    pc[u] \in {"get", "exec"} =>
      /\ KeyOf[u] \in watched[ConnOf[u]]
      /\ pc[u] = "exec" /\ ~dirty[ConnOf[u]] => current[u] = db[KeyOf[u]]

OwnConnection ==
  \A u, v \in Updates :
    pc[u] \in InFlightStates /\ pc[v] \in InFlightStates /\ ConnOf[u] = ConnOf[v] => u = v

\* What is sent to EXEC is a set or a delete, computed from a value that was read.
ExecChanges ==
  \A u \in Updates :
    /\ pc[u] = "exec" => Atomic!ChangeOp(kind[u], current[u]) \in {"set", "delete"}
    /\ pc[u] = "idle" => current[u] = {}

StoreInv == TypeOK /\ OwnConnection /\ WatchCovers /\ ExecChanges

\* What the service has to see to: a process runs one update at a time over its
\* connection, and the connection does not come back behind its back.
Undisturbed == Exclusive /\ ~Reconnects

-----------------------------------------------------------------------------
\* The variables keep their types, and the loop counter its bound.
LEMMA TypeStep ==
  ASSUME TypeOK, NEW u \in Updates, Step(u)
  PROVE  TypeOK'
<1> USE RedisAssumption
    DEF TypeOK, LoopBound, MoveTo, InFlightStates, Forget, Clear, Flagged
<1>1. CASE Begin(u)
  BY <1>1 DEF Begin
<1>2. CASE Watch(u)
  BY <1>2 DEF Watch
<1>3. CASE Get(u)
  BY <1>3 DEF Get
<1>4. CASE Unwatch(u)
  BY <1>4 DEF Unwatch
<1>5. CASE ExecCommits(u) \/ ExecAnswerLost(u)
  <2>1. /\ Transaction(u)
        /\ \E end \in {"done", "unknown"} : pc' = [pc EXCEPT ![u] = end]
    BY <1>5 DEF ExecCommits, ExecAnswerLost
  <2>2. /\ db' \in [Keys -> SUBSET Updates] /\ watched' \in [Conns -> SUBSET Keys]
        /\ dirty' \in [Conns -> BOOLEAN]
    BY <2>1 DEF Transaction, Atomic!Changed, Atomic!Missing
  <2>3. pc' \in [Updates -> {"idle", "done", "failed", "unknown"} \cup InFlightStates]
    BY <2>1
  <2>4. UNCHANGED <<kind, attempt, current>> /\ LoopBound'
    BY <2>1 DEF Transaction
  <2> QED
    BY <2>2, <2>3, <2>4
<1>6. CASE ExecAborts(u)
  BY <1>6 DEF ExecAborts
<1>7. CASE Rejected(u)
  <2>1. watched' \in [Conns -> SUBSET Keys] /\ dirty' \in [Conns -> BOOLEAN]
    <3>1. CASE UNCHANGED <<watched, dirty>>
      BY <3>1
    <3>2. CASE UNCHANGED dirty /\ watched' = [watched EXCEPT ![ConnOf[u]] = @ \cup {KeyOf[u]}]
      BY <3>2
    <3>3. CASE watched' = Forget(ConnOf[u]) /\ dirty' = Clear(ConnOf[u])
      BY <3>3
    <3> QED
      BY <1>7, <3>1, <3>2, <3>3 DEF Rejected
  <2>2. pc' = [pc EXCEPT ![u] = IF pc[u] = "exec" THEN "unknown" ELSE "failed"]
    BY <1>7 DEF Rejected
  <2>3. UNCHANGED <<db, kind, attempt, current>>
    BY <1>7 DEF Rejected
  <2>4. LoopBound'
    BY <2>2, <2>3
  <2> QED
    BY <2>1, <2>2, <2>3, <2>4
<1>8. CASE Overwrite(u) \/ OverwriteRejected(u)
  <2>1. \E end \in {"done", "unknown"} : pc' = [pc EXCEPT ![u] = end]
    BY <1>8 DEF Overwrite, OverwriteRejected
  <2>2. db' \in [Keys -> SUBSET Updates] /\ dirty' \in [Conns -> BOOLEAN]
    <3>1. CASE Overwrite(u)
      BY <3>1 DEF Overwrite, Atomic!Missing
    <3>2. CASE OverwriteRejected(u)
      BY <3>2 DEF OverwriteRejected
    <3> QED
      BY <1>8, <3>1, <3>2
  <2>3. UNCHANGED <<kind, watched, attempt, current>>
    BY <1>8 DEF Overwrite, OverwriteRejected
  <2>4. LoopBound'
    BY <2>1, <2>3
  <2> QED
    BY <2>1, <2>2, <2>3, <2>4
<1> QED
  BY <1>1, <1>2, <1>3, <1>4, <1>5, <1>6, <1>7, <1>8 DEF Step

\* MAX_RETRIES bounds the loop under any contention, shared connections included.
THEOREM RedisTypeCorrect == Spec => []TypeOK
<1>1. Init => TypeOK
  BY RedisAssumption DEF Init, TypeOK, LoopBound, InFlightStates, Atomic!Missing
<1>2. TypeOK /\ [Next]_vars => TypeOK'
  <2>1. ASSUME TypeOK, UNCHANGED vars PROVE TypeOK'
    BY <2>1 DEF TypeOK, LoopBound, vars
  <2>2. ASSUME TypeOK, NEW c \in Conns, Reconnect(c) PROVE TypeOK'
    BY <2>2 DEF Reconnect, TypeOK, LoopBound, Forget, Clear
  <2> QED
    BY <2>1, <2>2, TypeStep DEF Next
<1> QED
  BY <1>1, <1>2, PTL DEF Spec

-----------------------------------------------------------------------------
\* Connections stay unshared, and what goes to EXEC is a change.
LEMMA OwnStep ==
  ASSUME Exclusive, StoreInv, NEW u \in Updates, Step(u)
  PROVE  OwnConnection' /\ ExecChanges'
<1> USE RedisAssumption
    DEF StoreInv, TypeOK, OwnConnection, ExecChanges, MoveTo, InFlightStates
<1>1. CASE Begin(u)
  BY <1>1 DEF Begin
<1>2. CASE Watch(u)
  BY <1>2 DEF Watch
<1>3. CASE Get(u)
  BY <1>3 DEF Get
<1>4. CASE Unwatch(u)
  BY <1>4 DEF Unwatch
<1>5. CASE ExecCommits(u) \/ ExecAnswerLost(u)
  BY <1>5 DEF ExecCommits, ExecAnswerLost, Transaction
<1>6. CASE ExecAborts(u) \/ Rejected(u)
  BY <1>6 DEF ExecAborts, Rejected
<1>7. CASE Overwrite(u) \/ OverwriteRejected(u)
  BY <1>7 DEF Overwrite, OverwriteRejected
<1> QED
  BY <1>1, <1>2, <1>3, <1>4, <1>5, <1>6, <1>7 DEF Step

\* A write flags every connection whose watch it invalidates, and no other call
\* forgets a watch, because no other call is under way on the connection.
LEMMA WatchStep ==
  ASSUME StoreInv, NEW u \in Updates, Step(u)
  PROVE  WatchCovers'
<1> USE RedisAssumption
    DEF StoreInv, TypeOK, OwnConnection, WatchCovers, MoveTo, InFlightStates, Forget, Clear
<1>1. CASE Begin(u)
  BY <1>1 DEF Begin
<1>2. CASE Watch(u)
  BY <1>2 DEF Watch
<1>3. CASE Get(u)
  BY <1>3 DEF Get
<1>4. CASE Unwatch(u)
  BY <1>4 DEF Unwatch
<1>5. CASE ExecCommits(u) \/ ExecAnswerLost(u)
  <2>1. Transaction(u) /\ \E end \in {"done", "unknown"} : pc' = [pc EXCEPT ![u] = end]
    BY <1>5 DEF ExecCommits, ExecAnswerLost
  <2> QED
    BY <2>1 DEF Transaction, Flagged, Atomic!Missing
<1>6. CASE ExecAborts(u) \/ Rejected(u)
  BY <1>6 DEF ExecAborts, Rejected
<1>7. CASE Overwrite(u)
  <2>1. \E end \in {"done", "unknown"} : pc' = [pc EXCEPT ![u] = end]
    BY <1>7 DEF Overwrite
  <2> QED
    BY <1>7, <2>1 DEF Overwrite, Flagged, Atomic!Missing
<1>8. CASE OverwriteRejected(u)
  BY <1>8 DEF OverwriteRejected
<1> QED
  BY <1>1, <1>2, <1>3, <1>4, <1>5, <1>6, <1>7, <1>8 DEF Step

\* A connection that comes back between two updates forgets watches nobody needs.
LEMMA IdleReconnect ==
  ASSUME Undisturbed, StoreInv, NEW c \in Conns, Reconnect(c)
  PROVE  StoreInv' /\ UNCHANGED <<db, kind, pc, current>>
<1> USE RedisAssumption DEF StoreInv, Reconnect, Undisturbed
<1>1. TypeOK'
  BY DEF TypeOK, LoopBound, Forget, Clear
<1>2. OwnConnection' /\ ExecChanges'
  BY DEF OwnConnection, ExecChanges
<1>3. WatchCovers'
  <2>1. \A u \in Updates :
           pc[u] \in {"get", "exec"} =>
             /\ watched'[ConnOf[u]] = watched[ConnOf[u]]
             /\ dirty'[ConnOf[u]] = dirty[ConnOf[u]]
    BY DEF TypeOK, Forget, Clear, InFlightStates
  <2> QED
    BY <2>1 DEF WatchCovers
<1> QED
  BY <1>1, <1>2, <1>3

\* Everything the refinement rests on holds in every reachable state.
LEMMA StoreInvariant == Undisturbed => (Spec => []StoreInv)
<1> SUFFICES ASSUME Undisturbed PROVE Spec => []StoreInv
  OBVIOUS
<1>1. Init => StoreInv
  BY RedisAssumption DEF Init, StoreInv, TypeOK, LoopBound, OwnConnection, WatchCovers,
     ExecChanges, InFlightStates, Atomic!Missing
<1>2. StoreInv /\ [Next]_vars => StoreInv'
  <2>1. ASSUME StoreInv, UNCHANGED vars PROVE StoreInv'
    BY <2>1 DEF StoreInv, TypeOK, LoopBound, OwnConnection, WatchCovers, ExecChanges, vars
  <2>2. ASSUME StoreInv, NEW u \in Updates, Step(u) PROVE StoreInv'
    <3>1. TypeOK'
      BY <2>2, TypeStep DEF StoreInv
    <3>2. OwnConnection' /\ ExecChanges'
      BY <2>2, OwnStep DEF Undisturbed
    <3>3. WatchCovers'
      BY <2>2, WatchStep
    <3> QED
      BY <3>1, <3>2, <3>3 DEF StoreInv
  <2> QED
    BY <2>1, <2>2, IdleReconnect DEF Next
<1> QED
  BY <1>1, <1>2, PTL DEF Spec

-----------------------------------------------------------------------------
\* Each command maps to a step of the atomic store or to no step: the noop takes
\* effect at its GET, a change at its EXEC.
LEMMA StepRefines ==
  ASSUME StoreInv, NEW u \in Updates, Step(u)
  PROVE  Atomic!Next \/ UNCHANGED Atomic!vars
<1> USE DEF StoreInv, TypeOK, MoveTo, InFlightStates, Status, Seen
<1>1. CASE Begin(u)
  <2>1. Status' = [Status EXCEPT ![u] = "pending"] /\ Seen' = Seen
    BY <1>1 DEF Begin
  <2>2. Atomic!Invoke(u)
    BY <1>1, <2>1 DEF Begin, Atomic!Invoke
  <2> QED
    BY <2>2 DEF Atomic!Next
<1>2. CASE Watch(u)
  <2>1. Status' = Status /\ Seen' = Seen
    BY <1>2 DEF Watch
  <2> QED
    BY <1>2, <2>1 DEF Watch, Atomic!vars
<1>3. CASE Get(u)
  <2> DEFINE op == Atomic!ChangeOp(kind[u], db[KeyOf[u]])
  <2>1. CASE op \in {"set", "delete"}
    <3>1. Status' = Status /\ Seen' = Seen
      BY <1>3, <2>1 DEF Get
    <3> QED
      BY <1>3, <3>1 DEF Get, Atomic!vars
  <2>2. CASE op = "noop"
    <3>1. /\ Status' = [Status EXCEPT ![u] = "applied"]
          /\ Seen' = [Seen EXCEPT ![u] = db[KeyOf[u]]]
      BY <1>3, <2>2 DEF Get
    <3>2. Atomic!Apply(u)
      BY <1>3, <2>2, <3>1 DEF Get, Atomic!Apply
    <3> QED
      BY <3>2 DEF Atomic!Next
  <2>3. CASE op = "throw"
    <3>1. Status' = [Status EXCEPT ![u] = "failed"] /\ Seen' = Seen
      BY <1>3, <2>3 DEF Get
    <3>2. Atomic!Fail(u)
      BY <1>3, <3>1 DEF Get, Atomic!Fail
    <3> QED
      BY <3>2 DEF Atomic!Next
  <2> QED
    BY <1>3, <2>1, <2>2, <2>3 DEF Get
<1>4. CASE Unwatch(u)
  <2>1. Status' = [Status EXCEPT ![u] = "done"] /\ Seen' = Seen
    BY <1>4 DEF Unwatch
  <2>2. Atomic!Answer(u)
    BY <1>4, <2>1 DEF Unwatch, Atomic!Answer
  <2> QED
    BY <2>2 DEF Atomic!Next
<1>5. CASE ExecCommits(u) \/ ExecAnswerLost(u)
  <2>1. current[u] = db[KeyOf[u]]
    BY <1>5 DEF ExecCommits, ExecAnswerLost, Transaction, WatchCovers
  <2>2. Atomic!ChangeOp(kind[u], db[KeyOf[u]]) \in {"set", "delete"}
    BY <1>5, <2>1 DEF ExecCommits, ExecAnswerLost, Transaction, ExecChanges
  <2>3. \/ /\ Status' = [Status EXCEPT ![u] = "done"]
           /\ Seen' = [Seen EXCEPT ![u] = db[KeyOf[u]]]
        \/ /\ Status' = [Status EXCEPT ![u] = "failed"]
           /\ Seen' = Seen
    BY <1>5, <2>1 DEF ExecCommits, ExecAnswerLost, Transaction
  <2>4. Status[u] = "pending" /\ kind' = kind
        /\ db' = [db EXCEPT ![KeyOf[u]] = Atomic!Changed(u, kind[u], db[KeyOf[u]])]
    BY <1>5, <2>1 DEF ExecCommits, ExecAnswerLost, Transaction
  <2>5. Atomic!Apply(u)
    BY <2>2, <2>3, <2>4 DEF Atomic!Apply
  <2> QED
    BY <2>5 DEF Atomic!Next
<1>6. CASE ExecAborts(u)
  <2>1. CASE pc'[u] = "watch"
    <3>1. Status' = Status /\ Seen' = Seen
      BY <1>6, <2>1 DEF ExecAborts
    <3> QED
      BY <1>6, <3>1 DEF ExecAborts, Atomic!vars
  <2>2. CASE pc'[u] = "failed"
    <3>1. Status' = [Status EXCEPT ![u] = "failed"] /\ Seen' = Seen
      BY <1>6, <2>2 DEF ExecAborts
    <3>2. Atomic!Fail(u)
      BY <1>6, <3>1 DEF ExecAborts, Atomic!Fail
    <3> QED
      BY <3>2 DEF Atomic!Next
  <2> QED
    BY <1>6, <2>1, <2>2 DEF ExecAborts
<1>7. CASE Rejected(u)
  <2>1. CASE pc[u] = "unwatch"
    <3>1. /\ Status' = [Status EXCEPT ![u] = "failed"]
          /\ Seen' = [Seen EXCEPT ![u] = {}]
      BY <1>7, <2>1 DEF Rejected
    <3>2. Atomic!LoseAnswer(u)
      BY <1>7, <2>1, <3>1 DEF Rejected, Atomic!LoseAnswer, Atomic!Missing
    <3> QED
      BY <3>2 DEF Atomic!Next
  <2>2. CASE pc[u] # "unwatch"
    <3>1. Status' = [Status EXCEPT ![u] = "failed"] /\ Seen' = Seen
      BY <1>7, <2>2 DEF Rejected
    <3>2. Atomic!Fail(u)
      BY <1>7, <2>2, <3>1 DEF Rejected, Atomic!Fail
    <3> QED
      BY <3>2 DEF Atomic!Next
  <2> QED
    BY <2>1, <2>2
<1>8. CASE Overwrite(u)
  <2>1. /\ \E s \in {"done", "failed"} : Status' = [Status EXCEPT ![u] = s]
        /\ Seen' = Seen
    BY <1>8 DEF Overwrite, ExecChanges
  <2>2. Atomic!Overwrite(u)
    BY <1>8, <2>1 DEF Overwrite, Atomic!Overwrite
  <2> QED
    BY <2>2 DEF Atomic!Next
<1>9. CASE OverwriteRejected(u)
  <2>1. Status' = [Status EXCEPT ![u] = "failed"] /\ Seen' = Seen
    BY <1>9 DEF OverwriteRejected
  <2>2. Atomic!Fail(u)
    BY <1>9, <2>1 DEF OverwriteRejected, Atomic!Fail
  <2> QED
    BY <2>2 DEF Atomic!Next
<1> QED
  BY <1>1, <1>2, <1>3, <1>4, <1>5, <1>6, <1>7, <1>8, <1>9 DEF Step

\* A process that runs one update at a time over its connection gives mppx the
\* atomic store it asks for, for any number of processes contending for the key.
THEOREM ExclusiveRedisIsAtomic == Undisturbed => (Spec => Linearizable)
<1> SUFFICES ASSUME Undisturbed PROVE Spec => Linearizable
  OBVIOUS
<1>1. Init => Atomic!Init
  BY DEF Init, Atomic!Init, Status, Seen, Atomic!Missing
<1>2. StoreInv /\ [Next]_vars => [Atomic!Next]_(Atomic!vars)
  <2>1. ASSUME UNCHANGED vars PROVE UNCHANGED Atomic!vars
    BY <2>1 DEF vars, Atomic!vars, Status, Seen
  <2>2. ASSUME StoreInv, NEW c \in Conns, Reconnect(c) PROVE UNCHANGED Atomic!vars
    BY <2>2, IdleReconnect DEF Atomic!vars, Status, Seen
  <2> QED
    BY <2>1, <2>2, StepRefines DEF Next
<1> QED
  BY <1>1, <1>2, StoreInvariant, PTL DEF Spec, Linearizable, Atomic!Spec

-----------------------------------------------------------------------------
\* An append is never taken for a noop.
AppendsExec == \A u \in Updates : pc[u] = "unwatch" => kind[u] # "append"

KeepInv == AppendsExec /\ NoLostUpdate

\* With the connection to itself an EXEC that goes through keeps what was there: fn
\* was shown the value that is replaced.
LEMMA NothingIsLost ==
  ASSUME StoreInv, KeepInv, NEW u \in Updates, Step(u)
  PROVE  KeepInv'
<1> USE RedisAssumption DEF StoreInv, TypeOK, KeepInv, NoLostUpdate, MoveTo
<1>0. AppendsExec'
  BY DEF AppendsExec, Step, Begin, Watch, Get, Unwatch, ExecCommits, ExecAnswerLost,
     Transaction, ExecAborts, Rejected, Overwrite, OverwriteRejected, Atomic!ChangeOp
<1>1. kind' = kind
  BY DEF Step, Begin, Watch, Get, Unwatch, ExecCommits, ExecAnswerLost, Transaction,
     ExecAborts, Rejected, Overwrite, OverwriteRejected
<1>2. CASE Begin(u) \/ Watch(u) \/ Get(u) \/ ExecAborts(u) \/ Rejected(u)
           \/ OverwriteRejected(u)
  BY <1>0, <1>1, <1>2 DEF Begin, Watch, Get, ExecAborts, Rejected, OverwriteRejected
<1>3. CASE Unwatch(u)
  BY <1>0, <1>1, <1>3 DEF Unwatch, AppendsExec
<1>4. CASE ExecCommits(u) \/ ExecAnswerLost(u)
  <2> SUFFICES ASSUME \A v \in Updates : kind[v] \in {"append", "create", "look", "throws"},
                      NEW w \in Updates, pc'[w] = "done", kind[w] = "append"
               PROVE  w \in db'[KeyOf[w]]
    BY <1>0, <1>1
  <2>1. current[u] = db[KeyOf[u]]
    BY <1>4 DEF ExecCommits, ExecAnswerLost, Transaction, WatchCovers
  <2>2. Atomic!ChangeOp(kind[u], current[u]) \in {"set", "delete"}
    BY <1>4 DEF ExecCommits, ExecAnswerLost, Transaction, ExecChanges
  <2>3. db[KeyOf[u]] \subseteq db'[KeyOf[u]] /\ (kind[u] = "append" => u \in db'[KeyOf[u]])
    BY <1>4, <2>1, <2>2 DEF ExecCommits, ExecAnswerLost, Transaction, Atomic!Changed,
       Atomic!ChangeOp, Atomic!Missing
  <2> QED
    BY <1>4, <2>3 DEF ExecCommits, ExecAnswerLost, Transaction
<1>5. CASE Overwrite(u)
  BY <1>0, <1>1, <1>5 DEF Overwrite
<1> QED
  BY <1>0, <1>2, <1>3, <1>4, <1>5 DEF Step

\* What RedisLostUpdate shows takes a shared connection, and a connection that comes back
\* in the middle of an update would do it too.  With one update at a time on each, and
\* reconnects only between them, whatever other processes do and whatever is rejected,
\* a reported update is in the value.
THEOREM ExclusiveLosesNothing == Undisturbed => (Spec => []NoLostUpdate)
<1> SUFFICES ASSUME Undisturbed PROVE Spec => []NoLostUpdate
  OBVIOUS
<1>1. Init => KeepInv
  BY DEF Init, KeepInv, AppendsExec, NoLostUpdate
<1>2. StoreInv /\ KeepInv /\ [Next]_vars => KeepInv'
  <2>1. ASSUME KeepInv, UNCHANGED vars PROVE KeepInv'
    BY <2>1 DEF KeepInv, AppendsExec, NoLostUpdate, vars
  <2>2. ASSUME StoreInv, KeepInv, NEW c \in Conns, Reconnect(c) PROVE KeepInv'
    BY <2>2, IdleReconnect DEF KeepInv, AppendsExec, NoLostUpdate
  <2> QED
    BY <2>1, <2>2, NothingIsLost DEF Next
<1>3. KeepInv => NoLostUpdate
  BY DEF KeepInv
<1> QED
  BY <1>1, <1>2, <1>3, StoreInvariant, PTL DEF Spec

-----------------------------------------------------------------------------
\* The next two results hold for connections shared in any way and lost at any time.

\* Stored values and values that were read are made of updates that are done, or
\* whose write was rejected.
OnlyDone(S) == \A u \in Updates : u \in S => pc[u] \in {"done", "unknown"}
TraceInv == (\A k \in Keys : OnlyDone(db[k])) /\ (\A v \in Updates : OnlyDone(current[v]))

LEMMA TraceStep ==
  ASSUME TypeOK, TraceInv, NEW u \in Updates, Step(u)
  PROVE  TraceInv'
<1> USE RedisAssumption DEF TypeOK, TraceInv, OnlyDone, MoveTo
<1>1. CASE Begin(u) \/ Watch(u) \/ Unwatch(u) \/ ExecAborts(u)
  BY <1>1 DEF Begin, Watch, Unwatch, ExecAborts
<1>5. CASE Rejected(u) \/ OverwriteRejected(u)
  BY <1>5 DEF Rejected, OverwriteRejected, InFlightStates
<1>2. CASE Get(u)
  BY <1>2 DEF Get
<1>3. CASE ExecCommits(u) \/ ExecAnswerLost(u)
  BY <1>3 DEF ExecCommits, ExecAnswerLost, Transaction, Atomic!Changed, Atomic!Missing
<1>4. CASE Overwrite(u)
  BY <1>4 DEF Overwrite, Atomic!Missing
<1> QED
  BY <1>1, <1>2, <1>3, <1>4, <1>5 DEF Step

\* An update that failed before anything that writes was sent to Redis, or that gave
\* up after aborted EXECs, is in no value, now or later.
THEOREM FailuresLeaveNoTrace == Spec => []NoTraceOfFailure
<1>1. Init => TraceInv
  BY DEF Init, TraceInv, OnlyDone, Atomic!Missing
<1>2. TypeOK /\ TraceInv /\ [Next]_vars => TraceInv'
  <2>1. ASSUME TraceInv, UNCHANGED vars PROVE TraceInv'
    BY <2>1 DEF TraceInv, OnlyDone, vars
  <2>2. ASSUME TraceInv, NEW c \in Conns, Reconnect(c) PROVE TraceInv'
    BY <2>2 DEF TraceInv, OnlyDone, Reconnect
  <2> QED
    BY <2>1, <2>2, TraceStep DEF Next
<1>3. TraceInv => NoTraceOfFailure
  BY DEF TraceInv, OnlyDone, NoTraceOfFailure
<1> QED
  BY <1>1, <1>2, <1>3, RedisTypeCorrect, PTL DEF Spec

-----------------------------------------------------------------------------
\* A flagged connection is an abort to come: it is paid for by a write since the
\* last one, of a key that the connection watched and so one of its calls uses.
Owed(u) == IF pc[u] \in {"idle"} \cup InFlightStates /\ dirty[ConnOf[u]] THEN 1 ELSE 0
Others(u) == Writers(ConnOf[u]) \ {u}

WatchesOwnKeys == \A c \in Conns : watched[c] \subseteq KeysOn(c)
Finite == \A c \in Conns : IsFiniteSet(Writers(c))
Paid == \A u \in Updates : attempt[u] + Owed(u) <= Cardinality(Others(u))

RetryInv ==
  /\ WatchesOwnKeys
  /\ Finite
  /\ Paid
  /\ \A u \in Updates : pc[u] = "exec" => Atomic!ChangeOp(kind[u], current[u]) \in {"set", "delete"}

\* A connection watches only keys of its calls, and EXEC is sent only for a change.
LEMMA RetryRestStep ==
  ASSUME TypeOK, RetryInv, NEW u \in Updates, Step(u)
  PROVE  /\ WatchesOwnKeys'
         /\ \A v \in Updates :
              pc'[v] = "exec" => Atomic!ChangeOp(kind'[v], current'[v]) \in {"set", "delete"}
<1> USE RedisAssumption
    DEF TypeOK, RetryInv, WatchesOwnKeys, KeysOn, MoveTo, InFlightStates, Forget
<1>1. CASE Begin(u) \/ Watch(u)
  BY <1>1 DEF Begin, Watch
<1>2. CASE Get(u)
  BY <1>2 DEF Get
<1>3. CASE Unwatch(u) \/ ExecAborts(u)
  BY <1>3 DEF Unwatch, ExecAborts
<1>4. CASE ExecCommits(u) \/ ExecAnswerLost(u)
  BY <1>4 DEF ExecCommits, ExecAnswerLost, Transaction
<1>5. CASE Rejected(u)
  BY <1>5 DEF Rejected
<1>6. CASE Overwrite(u) \/ OverwriteRejected(u)
  BY <1>6 DEF Overwrite, OverwriteRejected
<1> QED
  BY <1>1, <1>2, <1>3, <1>4, <1>5, <1>6 DEF Step

\* A step after which u has written: the connections on whose keys it counts have one
\* writer more, and the other connections are not flagged by it.
LEMMA OneMoreWriter ==
  ASSUME TypeOK, Finite, Paid, NEW u \in Updates,
         \A v \in Updates : Wrote(v)' <=> (Wrote(v) \/ v = u),
         ~Wrote(u), pc'[u] \notin {"idle"} \cup InFlightStates, attempt' = attempt,
         \A v \in Updates \ {u} : pc'[v] = pc[v],
         \A c \in Conns : dirty'[c] => dirty[c] \/ KeyOf[u] \in KeysOn(c),
         dirty' \in [Conns -> BOOLEAN]
  PROVE  Finite' /\ Paid'
<1> USE RedisAssumption DEF TypeOK, Finite
<1>1. \A c \in Conns : Writers(c)' = IF KeyOf[u] \in KeysOn(c) THEN Writers(c) \cup {u} ELSE Writers(c)
  BY DEF Writers, KeysOn
<1>2. Finite'
  <2> SUFFICES ASSUME NEW c \in Conns PROVE IsFiniteSet(Writers(c)')
    BY DEF Finite
  <2>1. IsFiniteSet(Writers(c)) /\ IsFiniteSet(Writers(c) \cup {u})
    BY FS_AddElement
  <2> QED
    BY <1>1, <2>1
<1>3. ASSUME NEW v \in Updates
      PROVE  attempt'[v] + Owed(v)' <= Cardinality(Others(v)')
  <2>1. IsFiniteSet(Others(v)) /\ Cardinality(Others(v)) \in Nat
    <3>1. IsFiniteSet(Writers(ConnOf[v]))
      OBVIOUS
    <3>2. Others(v) = Writers(ConnOf[v]) \ {v}
      BY DEF Others
    <3>3. IsFiniteSet(Writers(ConnOf[v]) \ {v})
      BY <3>1, FS_RemoveElement, Zenon
    <3>4. IsFiniteSet(Others(v))
      BY <3>2, <3>3
    <3> QED
      BY <3>4, FS_CardinalityType
  <2>2. attempt[v] \in Nat /\ Owed(v) \in 0 .. 1 /\ Owed(v)' \in 0 .. 1
    BY DEF Owed
  <2>3. attempt[v] + Owed(v) <= Cardinality(Others(v))
    BY DEF Paid
  <2>4. CASE v = u
    <3>1. Owed(v)' = 0
      BY <2>4 DEF Owed
    <3>2. Others(v)' = Others(v)
      BY <1>1, <2>4 DEF Others
    <3> QED
      BY <2>1, <2>2, <2>3, <3>1, <3>2
  <2>5. CASE v # u /\ KeyOf[u] \in KeysOn(ConnOf[v])
    <3>1. Others(v)' = Others(v) \cup {u} /\ u \notin Others(v)
      BY <1>1, <2>5 DEF Others, Writers
    <3>2. Cardinality(Others(v)') = Cardinality(Others(v)) + 1
      BY <2>1, <3>1, FS_AddElement
    <3> QED
      BY <2>1, <2>2, <2>3, <3>2
  <2>6. CASE v # u /\ KeyOf[u] \notin KeysOn(ConnOf[v])
    <3>1. Others(v)' = Others(v)
      BY <1>1, <2>6 DEF Others
    <3>2. pc'[v] = pc[v] /\ (dirty'[ConnOf[v]] => dirty[ConnOf[v]])
      BY <2>6
    <3>3. Owed(v)' <= Owed(v)
      BY <3>2 DEF Owed
    <3> QED
      BY <2>1, <2>2, <2>3, <3>1, <3>3
  <2> QED
    BY <2>4, <2>5, <2>6
<1> QED
  BY <1>2, <1>3 DEF Paid

\* A step after which nobody new has written: an abort to come, or an abort that came.
LEMMA SameWriters ==
  ASSUME TypeOK, Finite, Paid, TypeOK',
         \A v \in Updates : Wrote(v)' <=> Wrote(v),
         \A v \in Updates : attempt'[v] + Owed(v)' <= attempt[v] + Owed(v)
  PROVE  Finite' /\ Paid'
<1> USE RedisAssumption DEF Finite
<1>1. \A c \in Conns : Writers(c)' = Writers(c)
  BY DEF Writers, KeysOn
<1>2. ASSUME NEW v \in Updates
      PROVE  attempt'[v] + Owed(v)' <= Cardinality(Others(v)')
  <2>1. Others(v)' = Others(v)
    BY <1>1 DEF Others
  <2>2. IsFiniteSet(Others(v)) /\ Cardinality(Others(v)) \in Nat
    BY FS_RemoveElement, FS_CardinalityType DEF Others
  <2>3. attempt[v] \in Nat /\ attempt'[v] \in Nat /\ Owed(v) \in 0 .. 1 /\ Owed(v)' \in 0 .. 1
    BY DEF TypeOK, Owed
  <2> QED
    BY <2>1, <2>2, <2>3 DEF Paid
<1> QED
  BY <1>1, <1>2 DEF Paid

LEMMA RetryStep ==
  ASSUME TypeOK, RetryInv, NEW u \in Updates, Step(u)
  PROVE  RetryInv'
<1>0. TypeOK' /\ Finite /\ Paid
  BY TypeStep DEF RetryInv
<1> USE RedisAssumption DEF TypeOK, MoveTo, InFlightStates
<1> SUFFICES Finite' /\ Paid'
  BY RetryRestStep DEF RetryInv
<1>1. CASE Begin(u) \/ Watch(u)
  <2>1. \A v \in Updates : (Wrote(v)' <=> Wrote(v)) /\ attempt'[v] = attempt[v] /\ Owed(v)' <= Owed(v)
    BY <1>1 DEF Begin, Watch, Wrote, Owed
  <2> QED
    BY <1>0, <2>1, SameWriters DEF Owed
<1>2. CASE Get(u)
  <2>1. \A v \in Updates : (Wrote(v)' <=> Wrote(v)) /\ attempt'[v] = attempt[v] /\ Owed(v)' <= Owed(v)
    BY <1>2 DEF Get, Wrote, Owed
  <2> QED
    BY <1>0, <2>1, SameWriters DEF Owed
<1>3. CASE Unwatch(u)
  <2>1. \A v \in Updates : attempt'[v] = attempt[v] /\ Owed(v)' <= Owed(v)
    BY <1>3 DEF Unwatch, Owed, Clear
  <2>2. CASE Atomic!ChangeOp(kind[u], current[u]) \in {"set", "delete"} \/ kind[u] \in {"put", "remove"}
    BY <1>0, <1>3, <2>2, OneMoreWriter DEF Unwatch, Wrote, Clear
  <2>3. CASE ~(Atomic!ChangeOp(kind[u], current[u]) \in {"set", "delete"} \/ kind[u] \in {"put", "remove"})
    <3>1. \A v \in Updates : Wrote(v)' <=> Wrote(v)
      BY <1>3, <2>3 DEF Unwatch, Wrote
    <3> QED
      BY <1>0, <2>1, <3>1, SameWriters DEF Owed
  <2> QED
    BY <2>2, <2>3
<1>4. CASE ExecCommits(u) \/ ExecAnswerLost(u)
  <2>1. \A c \in Conns : dirty'[c] => dirty[c] \/ KeyOf[u] \in KeysOn(c)
    BY <1>4 DEF ExecCommits, ExecAnswerLost, Transaction, Flagged, Forget, RetryInv, WatchesOwnKeys
  <2>2. /\ pc[u] = "exec" /\ pc'[u] \in {"done", "unknown"}
        /\ \A v \in Updates \ {u} : pc'[v] = pc[v]
        /\ kind' = kind /\ current' = current /\ attempt' = attempt
    BY <1>4 DEF ExecCommits, ExecAnswerLost, Transaction
  <2>3. Atomic!ChangeOp(kind[u], current[u]) \in {"set", "delete"}
    BY <2>2 DEF RetryInv
  <2>4. ~Wrote(u) /\ \A v \in Updates : Wrote(v)' <=> (Wrote(v) \/ v = u)
    BY <2>2, <2>3 DEF Wrote
  <2> QED
    BY <1>0, <2>1, <2>2, <2>4, OneMoreWriter
<1>5. CASE ExecAborts(u)
  <2>1. \A v \in Updates : attempt'[v] + Owed(v)' <= attempt[v] + Owed(v)
    BY <1>5 DEF ExecAborts, Owed, Clear
  <2>2. \A v \in Updates : Wrote(v)' <=> Wrote(v)
    BY <1>5 DEF ExecAborts, Wrote
  <2> QED
    BY <1>0, <2>1, <2>2, SameWriters
<1>6. CASE Rejected(u)
  <2>1. /\ pc[u] \in InFlightStates /\ pc'[u] = IF pc[u] = "exec" THEN "unknown" ELSE "failed"
        /\ \A v \in Updates \ {u} : pc'[v] = pc[v]
        /\ kind' = kind /\ current' = current /\ attempt' = attempt
        /\ \A c \in Conns : dirty'[c] => dirty[c]
    BY <1>6 DEF Rejected, Clear
  <2>2. CASE pc[u] = "exec"
    <3>1. Atomic!ChangeOp(kind[u], current[u]) \in {"set", "delete"}
      BY <2>2 DEF RetryInv
    <3>2. ~Wrote(u) /\ \A v \in Updates : Wrote(v)' <=> (Wrote(v) \/ v = u)
      BY <2>1, <2>2, <3>1 DEF Wrote
    <3> QED
      BY <1>0, <2>1, <2>2, <3>2, OneMoreWriter
  <2>3. CASE pc[u] # "exec"
    <3>1. \A v \in Updates : Wrote(v)' <=> Wrote(v)
      BY <2>1, <2>3 DEF Wrote
    <3>2. \A v \in Updates : attempt'[v] = attempt[v] /\ Owed(v)' <= Owed(v)
      BY <2>1, <2>3 DEF Owed
    <3> QED
      BY <1>0, <3>1, <3>2, SameWriters DEF Owed
  <2> QED
    BY <2>2, <2>3
<1>7. CASE Overwrite(u) \/ OverwriteRejected(u)
  <2>1. \A c \in Conns : dirty'[c] => dirty[c] \/ KeyOf[u] \in KeysOn(c)
    BY <1>7 DEF Overwrite, OverwriteRejected, Flagged, RetryInv, WatchesOwnKeys
  <2>2. /\ pc[u] = "idle" /\ pc'[u] \in {"done", "unknown"} /\ kind[u] \in {"put", "remove"}
        /\ \A v \in Updates \ {u} : pc'[v] = pc[v]
        /\ kind' = kind /\ current' = current /\ attempt' = attempt
    BY <1>7 DEF Overwrite, OverwriteRejected
  <2>3. ~Wrote(u) /\ \A v \in Updates : Wrote(v)' <=> (Wrote(v) \/ v = u)
    BY <2>2 DEF Wrote
  <2> QED
    BY <1>0, <2>1, <2>2, <2>3, OneMoreWriter
<1> QED
  BY <1>1, <1>2, <1>3, <1>4, <1>5, <1>6, <1>7 DEF Step

\* A reconnect only forgets watches and flags.
LEMMA ReconnectStep ==
  ASSUME TypeOK, RetryInv, NEW c \in Conns, Reconnect(c)
  PROVE  RetryInv'
<1> USE RedisAssumption DEF TypeOK
<1>1. TypeOK'
  BY DEF Reconnect, Forget, Clear, LoopBound
<1>2. \A v \in Updates : (Wrote(v)' <=> Wrote(v)) /\ attempt'[v] = attempt[v] /\ Owed(v)' <= Owed(v)
  BY DEF Reconnect, Clear, Wrote, Owed
<1>3. Finite' /\ Paid'
  BY <1>1, <1>2, SameWriters DEF Owed, RetryInv
<1>4. WatchesOwnKeys'
  BY DEF Reconnect, Forget, RetryInv, WatchesOwnKeys, KeysOn
<1> QED
  BY <1>3, <1>4 DEF Reconnect, RetryInv

\* A call goes round the loop again only after somebody else wrote a key that the
\* calls of its connection use: giving up takes MaxRetries such writes, however the
\* connections are shared, and whatever is lost on them.
THEOREM RetriesAlwaysEarned == Spec => []RetriesAreEarned
<1>1. Init => RetryInv
  <2> SUFFICES ASSUME Init PROVE RetryInv
    OBVIOUS
  <2>1. \A c \in Conns : Writers(c) = {}
    BY DEF Init, Writers, Wrote
  <2>2. \A u \in Updates : Others(u) = {}
    BY <2>1, RedisAssumption DEF Others
  <2>3. Finite /\ \A u \in Updates : Cardinality(Others(u)) = 0
    BY <2>1, <2>2, FS_EmptySet DEF Finite
  <2>4. \A u \in Updates : attempt[u] = 0 /\ Owed(u) = 0 /\ pc[u] # "exec"
    BY RedisAssumption DEF Init, Owed
  <2> QED
    BY <2>3, <2>4 DEF RetryInv, Paid, WatchesOwnKeys, Init
<1>2. TypeOK /\ RetryInv /\ [Next]_vars => RetryInv'
  <2>1. ASSUME RetryInv, UNCHANGED vars PROVE RetryInv'
    BY <2>1 DEF RetryInv, WatchesOwnKeys, Finite, Paid, KeysOn, Writers, Wrote, Others, Owed, vars
  <2> QED
    BY <2>1, RetryStep, ReconnectStep DEF Next
<1>3. TypeOK /\ RetryInv => RetriesAreEarned
  <2> SUFFICES ASSUME TypeOK, RetryInv, NEW u \in Updates
               PROVE  attempt[u] <= Cardinality(Others(u))
    BY DEF RetriesAreEarned, Others
  <2>1. Cardinality(Others(u)) \in Nat
    BY RedisAssumption, FS_RemoveElement, FS_CardinalityType DEF Others, RetryInv, Finite
  <2> QED
    BY <2>1 DEF TypeOK, RetryInv, Paid, Owed
<1> QED
  BY <1>1, <1>2, <1>3, RedisTypeCorrect, PTL DEF Spec

=============================================================================
