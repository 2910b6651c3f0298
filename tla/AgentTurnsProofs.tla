-------------------------- MODULE AgentTurnsProofs --------------------------
(***************************************************************************)
(* Proofs about AgentTurns, for all sets of users, threads and requests:   *)
(* its inductive invariant, the safety properties that follow from it, and *)
(* that the worker implements TurnLog.                                     *)
(*                                                                         *)
(* The lemmas first say what a step can do to a request (Moves) and to the *)
(* files; then each conjunct of the invariant has a lemma of its own.      *)
(***************************************************************************)
EXTENDS AgentTurns, TLAPS

-----------------------------------------------------------------------------
(* Facts of a state.                                                       *)

\* The lock gives one turn at a time to each user.
LEMMA OneTurn == ASSUME QueueInv PROVE OneTurnPerUser
<1> SUFFICES ASSUME NEW r \in Requests, NEW q \in Requests,
                    req[r].at \in Holding, req[q].at \in Holding,
                    req[r].user = req[q].user
             PROVE  r = q
  BY DEF OneTurnPerUser
<1> QED BY DEF QueueInv

\* Threads belong to one user, so a conversation has one turn at a time too.
LEMMA OneTurnPerThread ==
  ASSUME QueueInv, OwnerInv, NEW r \in Requests, NEW q \in Requests,
         req[r].at \in Holding, req[q].at \in Holding, req[r].thread = req[q].thread
  PROVE  r = q
BY OneTurn DEF OneTurnPerUser, OwnerInv, InLine

\* A request that holds the lock is at the front of its user's queue.
LEMMA Held ==
  ASSUME TypeOK, QueueInv, NEW r \in Requests, req[r].at \in Holding
  PROVE  /\ req[r].user \in Users
         /\ queue[req[r].user] \in Seq(Requests) /\ queue[req[r].user] # <<>>
         /\ queue[req[r].user][1] = r
BY DEF TypeOK, QueueInv, InLine

\* A request that holds the lock works on a conversation of its user.
LEMMA OwnThread ==
  ASSUME OwnerInv, NEW r \in Requests, req[r].at \in Holding
  PROVE  req[r].thread \in Threads /\ info[req[r].thread].owner = req[r].user
BY DEF OwnerInv, InLine

-----------------------------------------------------------------------------
(* Types.                                                                  *)

\* A request that goes on keeps its type.
LEMMA GotoTyped ==
  ASSUME TypeOK, NEW r \in Requests, NEW point \in Points, Goto(r, point)
  PROVE  req' \in [Requests -> State]
<1>1. [req[r] EXCEPT !.at = point] \in State
  BY DEF TypeOK, State
<1> QED BY <1>1 DEF TypeOK, Goto

\* So does one that leaves the lock.
LEMMA LeaveTyped ==
  ASSUME TypeOK, QueueInv, NEW r \in Requests, req[r].at \in Holding,
         NEW outcome \in Ended, Leave(r, outcome)
  PROVE  /\ registry' \subseteq Users /\ queue' \in [Users -> Seq(Requests)]
         /\ tasks' \in [Users -> SUBSET Requests] /\ cancelled' \subseteq Requests
         /\ loop' = None /\ req' \in [Requests -> State]
<1>1. Tail(queue[req[r].user]) \in Seq(Requests)
  BY Held
<1>2. queue' \in [Users -> Seq(Requests)]
  BY <1>1 DEF TypeOK, Leave
<1>3. req' \in [Requests -> State]
  BY GotoTyped DEF Leave, Points
<1>4. tasks' \in [Users -> SUBSET Requests]
  BY DEF TypeOK, Leave
<1> QED BY <1>2, <1>3, <1>4 DEF TypeOK, Leave

\* So does one that begins its invocation.
LEMMA InvokingTyped ==
  ASSUME TypeOK, NEW r \in Requests, NEW u \in Users, NEW t \in Threads,
         BeginInvocation(r, u, t)
  PROVE  req' \in [Requests -> State] /\ tasks' \in [Users -> SUBSET Requests]
<1>1. Invoking(r, u, t) \in State
  BY DEF TypeOK, State, ThreadInfo, Invoking, Points, Holding
<1> QED BY <1>1 DEF TypeOK, BeginInvocation

Line == [role : {"user", "assistant"}, turn : Requests]

\* The lines of a turn are lines of a transcript.
LEMMA LinesTyped ==
  ASSUME TypeOK, NEW t \in Threads, NEW i \in DOMAIN transcript[t]
  PROVE  transcript[t] \in Seq(Line) /\ transcript[t][i].turn \in Requests
<1>1. transcript[t] \in Seq(Line)
  BY DEF TypeOK, Line
<1>2. transcript[t][i] \in Line
  BY <1>1
<1> QED BY <1>1, <1>2 DEF Line

\* A transcript stays one when a line is appended.
LEMMA AppendTyped ==
  ASSUME TypeOK, OwnerInv, NEW r \in Requests, req[r].at \in Holding,
         NEW role \in {"user", "assistant"}, AppendTo(r, role)
  PROVE  /\ transcript' \in [Threads -> Seq(Line)]
         /\ transcript'[req[r].thread]
              = Append(transcript[req[r].thread], [role |-> role, turn |-> r])
         /\ \A t \in Threads \ {req[r].thread} : transcript'[t] = transcript[t]
<1>1. [role |-> role, turn |-> r] \in Line
  BY DEF Line
<1>2. transcript \in [Threads -> Seq(Line)]
  BY DEF TypeOK, Line
<1>3. Append(transcript[req[r].thread], [role |-> role, turn |-> r]) \in Seq(Line)
  BY <1>1, <1>2, OwnThread
<1> QED BY <1>2, <1>3, OwnThread DEF AppendTo

\* Every step keeps the types.
LEMMA TypeStep ==
  ASSUME TypeOK, QueueInv, OwnerInv, Next
  PROVE  TypeOK'
<1>1. ASSUME NEW r \in Requests, NEW u \in Users, NEW t \in Threads, AdmitCreate(r, u, t)
      PROVE  TypeOK'
  <2>1. [New EXCEPT !.at = "create", !.user = u, !.thread = t] \in State
    BY DEF New, State, Points
  <2> QED BY <1>1, <2>1 DEF TypeOK, AdmitCreate, durable, runtime
<1>2. ASSUME NEW r \in Requests, CreateRuntime(r) PROVE TypeOK'
  <2>1. req' \in [Requests -> State]
    BY <1>2, GotoTyped DEF CreateRuntime, Points
  <2> QED BY <1>2, <2>1 DEF TypeOK, CreateRuntime, OwnerInv, durable
<1>3. ASSUME NEW r \in Requests, RuntimeGone(r) PROVE TypeOK'
  <2>1. req' \in [Requests -> State]
    BY <1>3, GotoTyped DEF RuntimeGone, Points, Ended
  <2> QED BY <1>3, <2>1 DEF TypeOK, RuntimeGone, durable, runtime
<1>4. ASSUME NEW r \in Requests, EnsureThread(r) PROVE TypeOK'
  <2>1. req' \in [Requests -> State]
    BY <1>4, GotoTyped DEF EnsureThread, Points, Ended
  <2>2. req[r].user \in Users /\ req[r].thread \in Threads
    BY <1>4 DEF EnsureThread, OwnerInv
  <2>3. info' \in [Threads -> ThreadInfo]
    BY <1>4, <2>2 DEF EnsureThread, TypeOK, ThreadInfo
  <2> QED BY <1>4, <2>1, <2>3 DEF TypeOK, EnsureThread, runtime
<1>5. ASSUME NEW r \in Requests, NEW u \in Users, RefuseMessage(r, u) PROVE TypeOK'
  <2>1. req' \in [Requests -> State]
    BY <1>5, GotoTyped DEF RefuseMessage, Points, Ended
  <2> QED BY <1>5, <2>1 DEF TypeOK, RefuseMessage, durable
<1>6. ASSUME NEW r \in Requests, NEW u \in Users, NEW t \in Threads, EnterLock(r, u, t)
      PROVE  TypeOK'
  <2>1. req' \in [Requests -> State] /\ tasks' \in [Users -> SUBSET Requests]
    <3>1. CASE LockFree(u, t) /\ BeginInvocation(r, u, t)
      BY <3>1, InvokingTyped
    <3>2. CASE ~LockFree(u, t)
      <4>1. [New EXCEPT !.at = "queued", !.user = u, !.thread = t] \in State
        BY DEF New, State, Points
      <4> QED BY <1>6, <3>2, <4>1 DEF EnterLock, TypeOK
    <3> QED BY <1>6, <3>1, <3>2 DEF EnterLock
  <2>2. queue' \in [Users -> Seq(Requests)]
    BY <1>6 DEF EnterLock, TypeOK
  <2> QED BY <1>6, <2>1, <2>2 DEF TypeOK, EnterLock, durable
<1>7. ASSUME NEW r \in Requests, AcquireLock(r) PROVE TypeOK'
  <2>1. req[r].user \in Users /\ req[r].thread \in Threads
    BY <1>7 DEF AcquireLock, QueueInv, OwnerInv, InLine
  <2>2. req' \in [Requests -> State] /\ tasks' \in [Users -> SUBSET Requests]
    BY <1>7, <2>1, InvokingTyped DEF AcquireLock
  <2> QED BY <1>7, <2>2 DEF TypeOK, AcquireLock, durable
<1>8. ASSUME NEW r \in Requests, SaveCheckpoint(r) PROVE TypeOK'
  <2>1. remembered' \in [Threads -> Seq(Requests)]
    BY <1>8 DEF SaveCheckpoint, OwnerInv, Holding, InLine, TypeOK
  <2> QED BY <1>8, <2>1 DEF TypeOK, SaveCheckpoint, runtime
<1>9. ASSUME NEW r \in Requests, InvocationFails(r) PROVE TypeOK'
  BY <1>9, LeaveTyped DEF InvocationFails, Holding, Ended, TypeOK, durable
<1>10. ASSUME NEW r \in Requests, DeliverCancel(r) PROVE TypeOK'
  BY <1>10, LeaveTyped DEF DeliverCancel, Holding, Ended, TypeOK, durable
<1>11. ASSUME NEW r \in Requests, InvocationReturns(r) PROVE TypeOK'
  <2>1. req' \in [Requests -> State]
    BY <1>11, GotoTyped DEF InvocationReturns, Points, Holding
  <2>2. transcript' \in [Threads -> Seq(Line)]
    BY <1>11, AppendTyped DEF InvocationReturns, Holding
  <2>3. tasks' \in [Users -> SUBSET Requests]
    BY <1>11 DEF InvocationReturns, TypeOK
  <2> QED BY <1>11, <2>1, <2>2, <2>3 DEF TypeOK, InvocationReturns, Line
<1>12. ASSUME NEW r \in Requests, AppendReply(r) PROVE TypeOK'
  <2>1. req' \in [Requests -> State]
    BY <1>12, GotoTyped DEF AppendReply, Points, Holding
  <2>2. transcript' \in [Threads -> Seq(Line)]
    BY <1>12, AppendTyped DEF AppendReply, Holding
  <2> QED BY <1>12, <2>1, <2>2 DEF TypeOK, AppendReply, runtime, Line
<1>13. ASSUME NEW r \in Requests, FinishTurn(r) PROVE TypeOK'
  <2>1. info' \in [Threads -> ThreadInfo]
    <3>1. req[r].thread \in Threads /\ info[req[r].thread].owner = req[r].user
      BY <1>13 DEF FinishTurn, OwnerInv, InLine, Holding
    <3> DEFINE title == IF req[r].title # None THEN req[r].title ELSE r
    <3>2. title \in Requests \cup {None}
      BY DEF TypeOK, State
    <3>3. info' = [info EXCEPT ![req[r].thread] = [@ EXCEPT !.title = title, !.preview = r]]
      BY <1>13, <3>1 DEF FinishTurn, SaveInfo, TypeOK
    <3> HIDE DEF title
    <3>4. info[req[r].thread] \in ThreadInfo
      BY <3>1 DEF TypeOK
    <3>5. [info[req[r].thread] EXCEPT !.title = title, !.preview = r] \in ThreadInfo
      BY <3>2, <3>4 DEF ThreadInfo
    <3> QED BY <3>1, <3>3, <3>5 DEF TypeOK
  <2> QED BY <1>13, <2>1, LeaveTyped DEF FinishTurn, TypeOK, Holding, Ended
<1>14. ASSUME NEW r \in Requests, WriteFails(r) PROVE TypeOK'
  BY <1>14, LeaveTyped DEF WriteFails, Holding, Ended, TypeOK, durable
<1>15. ASSUME NEW u \in Users, Deactivate(u) PROVE TypeOK'
  <2>1. deactivations' \in [Users -> Nat]
    BY <1>15 DEF Deactivate, TypeOK
  <2> QED BY <1>15, <2>1 DEF Deactivate, TypeOK
<1>16. ASSUME NEW u \in Users, CancelUserTasks(u) PROVE TypeOK'
  BY <1>16 DEF CancelUserTasks, TypeOK, durable
<1>17. ASSUME NEW u \in Users, Reactivate(u) PROVE TypeOK'
  BY <1>17 DEF Reactivate, TypeOK, runtime
<1>18. CASE Crash
  <2>1. \A r \in Requests : [req[r] EXCEPT !.at = "lost"] \in State
    BY DEF TypeOK, State, Points, Ended
  <2>2. req' \in [Requests -> State]
    BY <1>18, <2>1 DEF Crash, TypeOK
  <2>3. queue' \in [Users -> Seq(Requests)] /\ tasks' \in [Users -> SUBSET Requests]
    BY <1>18 DEF Crash
  <2> QED BY <1>18, <2>2, <2>3 DEF Crash, TypeOK, durable
<1> QED
  BY <1>1, <1>2, <1>3, <1>4, <1>5, <1>6, <1>7, <1>8, <1>9, <1>10, <1>11, <1>12, <1>13,
     <1>14, <1>15, <1>16, <1>17, <1>18 DEF Next, Step
-----------------------------------------------------------------------------
(* What a step can do to one request, and to the files.                    *)

Same(r) == req'[r].user = req[r].user /\ req'[r].thread = req[r].thread

Moves(r) ==
  \/ req'[r] = req[r]
  \/ req[r].at = "new" /\ req'[r].at \in {"create", "queued", "invoking", "refused"}
  \/ /\ Same(r)
     /\ \/ req[r].at = "create"   /\ req'[r].at \in {"indexing", "lost"}
        \/ req[r].at = "indexing" /\ req'[r].at \in {"ok", "failed", "lost"}
        \/ req[r].at = "queued"   /\ req'[r].at \in {"invoking", "lost"}
        \/ req[r].at = "invoking" /\ req'[r].at \in {"failed", "cancelled", "lost"}
        \/ req[r].at \in {"asked", "answered"} /\ req'[r].at \in {"failed", "lost"}
        \/ req[r].at = "invoking" /\ req'[r].at = "asked"    /\ InvocationReturns(r)
        \/ req[r].at = "asked"    /\ req'[r].at = "answered" /\ AppendReply(r)
        \/ req[r].at = "answered" /\ req'[r].at = "ok"       /\ FinishTurn(r)

\* Goto moves one request.
LEMMA GotoMoves ==
  ASSUME TypeOK, NEW r \in Requests, NEW point, Goto(r, point), NEW q \in Requests
  PROVE  /\ q # r => req'[q] = req[q]
         /\ Same(r) /\ req'[r].at = point
BY DEF TypeOK, State, Goto, Same

\* What EnterLock does to the requests and the active tasks.
LEMMA EnterLockFacts ==
  ASSUME TypeOK, NEW r \in Requests, NEW u \in Users, NEW t \in Threads, EnterLock(r, u, t)
  PROVE  /\ \A q \in Requests \ {r} : req'[q] = req[q]
         /\ req'[r].user = u /\ req'[r].thread = t
         /\ \/ /\ queue[u] = <<>> /\ req'[r].at = "invoking"
               /\ req'[r].title = info[t].title /\ req'[r].epoch = deactivations[u]
               /\ tasks' = [tasks EXCEPT ![u] = @ \cup {r}]
            \/ queue[u] # <<>> /\ req'[r].at = "queued" /\ tasks' = tasks
<1>1. CASE LockFree(u, t) /\ BeginInvocation(r, u, t)
  BY <1>1 DEF TypeOK, LockFree, BeginInvocation, Invoking
<1>2. CASE /\ ~LockFree(u, t)
           /\ req' = [req EXCEPT ![r] = [New EXCEPT !.at = "queued", !.user = u, !.thread = t]]
           /\ UNCHANGED tasks
  BY <1>2 DEF TypeOK, LockFree, New
<1> QED BY <1>1, <1>2 DEF EnterLock

\* Every step moves a request along its turn, ends it, or leaves it where it is.
LEMMA NextMoves ==
  ASSUME TypeOK, Next, NEW q \in Requests
  PROVE  Moves(q)
<1>1. ASSUME NEW r \in Requests, NEW u \in Users, NEW t \in Threads, AdmitCreate(r, u, t)
      PROVE  Moves(q)
  BY <1>1 DEF AdmitCreate, TypeOK, New, Moves
<1>2. ASSUME NEW r \in Requests, CreateRuntime(r) PROVE Moves(q)
  BY <1>2, GotoMoves DEF CreateRuntime, Moves
<1>3. ASSUME NEW r \in Requests, RuntimeGone(r) PROVE Moves(q)
  BY <1>3, GotoMoves DEF RuntimeGone, Moves
<1>4. ASSUME NEW r \in Requests, EnsureThread(r) PROVE Moves(q)
  BY <1>4, GotoMoves DEF EnsureThread, Moves
<1>5. ASSUME NEW r \in Requests, NEW u \in Users, RefuseMessage(r, u) PROVE Moves(q)
  BY <1>5, GotoMoves DEF RefuseMessage, Moves
<1>6. ASSUME NEW r \in Requests, NEW u \in Users, NEW t \in Threads, EnterLock(r, u, t)
      PROVE  Moves(q)
  <2>1. req[r].at = "new"
    BY <1>6 DEF EnterLock
  <2>2. req'[r].at \in {"queued", "invoking"} /\ (q # r => req'[q] = req[q])
    BY <1>6, EnterLockFacts
  <2> QED BY <2>1, <2>2 DEF Moves
<1>7. ASSUME NEW r \in Requests, AcquireLock(r) PROVE Moves(q)
  BY <1>7 DEF AcquireLock, BeginInvocation, Invoking, TypeOK, Moves, Same
<1>8. ASSUME NEW r \in Requests, SaveCheckpoint(r) PROVE Moves(q)
  BY <1>8 DEF SaveCheckpoint, Moves
<1>9. ASSUME NEW r \in Requests, InvocationFails(r) PROVE Moves(q)
  BY <1>9, GotoMoves DEF InvocationFails, Leave, Moves
<1>10. ASSUME NEW r \in Requests, DeliverCancel(r) PROVE Moves(q)
  BY <1>10, GotoMoves DEF DeliverCancel, Leave, Moves
<1>11. ASSUME NEW r \in Requests, InvocationReturns(r) PROVE Moves(q)
  <2>1. Goto(r, "asked") /\ req[r].at = "invoking"
    BY <1>11 DEF InvocationReturns
  <2> QED BY <1>11, <2>1, GotoMoves DEF Moves
<1>12. ASSUME NEW r \in Requests, AppendReply(r) PROVE Moves(q)
  <2>1. Goto(r, "answered") /\ req[r].at = "asked"
    BY <1>12 DEF AppendReply
  <2> QED BY <1>12, <2>1, GotoMoves DEF Moves
<1>13. ASSUME NEW r \in Requests, FinishTurn(r) PROVE Moves(q)
  <2>1. Goto(r, "ok") /\ req[r].at = "answered"
    BY <1>13 DEF FinishTurn, Leave
  <2> QED BY <1>13, <2>1, GotoMoves DEF Moves
<1>14. ASSUME NEW r \in Requests, WriteFails(r) PROVE Moves(q)
  BY <1>14, GotoMoves DEF WriteFails, Leave, Moves
<1>15. ASSUME NEW u \in Users, Deactivate(u) PROVE Moves(q)
  BY <1>15 DEF Deactivate, Moves
<1>16. ASSUME NEW u \in Users, CancelUserTasks(u) PROVE Moves(q)
  BY <1>16 DEF CancelUserTasks, Moves
<1>17. ASSUME NEW u \in Users, Reactivate(u) PROVE Moves(q)
  BY <1>17 DEF Reactivate, Moves
<1>18. CASE Crash
  BY <1>18 DEF Crash, TypeOK, State, Points, Ended, Holding, Moves, Same
<1> QED
  BY <1>1, <1>2, <1>3, <1>4, <1>5, <1>6, <1>7, <1>8, <1>9, <1>10, <1>11, <1>12, <1>13,
     <1>14, <1>15, <1>16, <1>17, <1>18 DEF Next, Step

\* Who writes what.
LEMMA NextWrites ==
  ASSUME Next
  PROVE  /\ \/ UNCHANGED remembered
            \/ \E r \in Requests : SaveCheckpoint(r)
         /\ \/ UNCHANGED transcript
            \/ \E r \in Requests : InvocationReturns(r) \/ AppendReply(r)
         /\ \/ UNCHANGED info
            \/ \E r \in Requests : EnsureThread(r) \/ FinishTurn(r)
BY DEF Next, Step, AdmitCreate, CreateRuntime, RuntimeGone, EnsureThread, RefuseMessage,
       EnterLock, AcquireLock, SaveCheckpoint, InvocationFails, DeliverCancel,
       InvocationReturns, AppendReply, FinishTurn, WriteFails, Deactivate,
       CancelUserTasks, Reactivate, Crash, durable

-----------------------------------------------------------------------------
(* The queue of the lock.                                                  *)

\* A request that enters the queue of the lock does so once, at its end.
LEMMA EnterLockQueue ==
  ASSUME TypeOK, QueueInv, NEW r \in Requests, NEW u \in Users, NEW t \in Threads,
         EnterLock(r, u, t)
  PROVE  QueueInv'
<1>1. queue' = [queue EXCEPT ![u] = Append(@, r)] /\ req[r].at = "new"
  BY DEF EnterLock
<1>2. \A v \in Users : queue[v] \in Seq(Requests)
  BY DEF TypeOK
<1>3. /\ queue'[u] = Append(queue[u], r)
      /\ \A v \in Users \ {u} : queue'[v] = queue[v]
  BY <1>1 DEF TypeOK
<1>4. /\ DOMAIN queue'[u] = DOMAIN queue[u] \cup {Len(queue[u]) + 1}
      /\ \A i \in DOMAIN queue[u] : queue'[u][i] = queue[u][i]
      /\ queue'[u][Len(queue[u]) + 1] = r
      /\ Len(queue[u]) + 1 \notin DOMAIN queue[u]
  BY <1>2, <1>3
<1>5. \A v \in Users : \A i \in DOMAIN queue[v] : queue[v][i] \in Requests \ {r}
  BY <1>1, <1>2 DEF QueueInv, InLine, Holding
<1>6. /\ \A q \in Requests \ {r} : req'[q] = req[q]
      /\ req'[r].user = u /\ req'[r].at \in InLine
      /\ req'[r].at \in Holding => queue[u] = <<>>
  BY EnterLockFacts DEF InLine, Holding
<1>7. \A v \in Users :
        /\ \A i \in DOMAIN queue'[v] :
             req'[queue'[v][i]].user = v /\ req'[queue'[v][i]].at \in InLine
        /\ \A i, j \in DOMAIN queue'[v] : queue'[v][i] = queue'[v][j] => i = j
  <2>1. ASSUME NEW v \in Users, NEW i \in DOMAIN queue[v]
        PROVE  req'[queue[v][i]].user = v /\ req'[queue[v][i]].at \in InLine
    <3>1. req'[queue[v][i]] = req[queue[v][i]]
      BY <1>5, <1>6
    <3> QED BY <3>1 DEF QueueInv
  <2>2. ASSUME NEW v \in Users, NEW i \in DOMAIN queue'[v]
        PROVE  req'[queue'[v][i]].user = v /\ req'[queue'[v][i]].at \in InLine
    BY <1>3, <1>4, <1>6, <2>1
  <2>3. ASSUME NEW v \in Users, NEW i \in DOMAIN queue'[v], NEW j \in DOMAIN queue'[v],
               queue'[v][i] = queue'[v][j]
        PROVE  i = j
    <3>1. CASE v # u
      BY <1>3, <2>3, <3>1 DEF QueueInv
    <3>2. CASE v = u
      <4>1. CASE i \in DOMAIN queue[u] /\ j \in DOMAIN queue[u]
        BY <1>4, <2>3, <3>2, <4>1 DEF QueueInv
      <4>2. CASE i \notin DOMAIN queue[u] \/ j \notin DOMAIN queue[u]
        BY <1>4, <1>5, <2>3, <3>2, <4>2
      <4> QED BY <4>1, <4>2
    <3> QED BY <3>1, <3>2
  <2> QED BY <2>2, <2>3
<1>8. \A q \in Requests :
        /\ req'[q].at \in InLine
             => /\ req'[q].user \in Users
                /\ \E i \in DOMAIN queue'[req'[q].user] : queue'[req'[q].user][i] = q
        /\ req'[q].at \in Holding => queue'[req'[q].user][1] = q
  <2>1. ASSUME NEW q \in Requests \ {r}, req[q].at \in InLine
        PROVE  /\ req[q].user \in Users
               /\ \E i \in DOMAIN queue'[req[q].user] : queue'[req[q].user][i] = q
               /\ req[q].at \in Holding => queue'[req[q].user][1] = q
    <3>1. req[q].user \in Users
      BY <2>1 DEF QueueInv
    <3>2. PICK i \in DOMAIN queue[req[q].user] : queue[req[q].user][i] = q
      BY <2>1 DEF QueueInv
    <3>3. 1 \in DOMAIN queue[req[q].user]
      BY <1>2, <3>1, <3>2
    <3>4. \A k \in DOMAIN queue[req[q].user] :
            k \in DOMAIN queue'[req[q].user] /\ queue'[req[q].user][k] = queue[req[q].user][k]
      BY <1>3, <1>4, <3>1
    <3> QED BY <2>1, <3>1, <3>2, <3>3, <3>4 DEF QueueInv
  <2>2. \E i \in DOMAIN queue'[u] : queue'[u][i] = r
    BY <1>4
  <2>3. req'[r].at \in Holding => queue'[u][1] = r
    BY <1>3, <1>6
  <2> QED BY <1>6, <2>1, <2>2, <2>3 DEF InLine
<1> QED BY <1>7, <1>8 DEF QueueInv

\* A request that leaves the lock hands it to the next in the queue.
LEMMA LeaveQueue ==
  ASSUME TypeOK, QueueInv, NEW r \in Requests, req[r].at \in Holding,
         NEW outcome \in Ended, Leave(r, outcome)
  PROVE  QueueInv'
<1> DEFINE u == req[r].user
<1>1. u \in Users /\ queue[u] \in Seq(Requests) /\ queue[u] # <<>> /\ queue[u][1] = r
  BY Held
<1>2. queue'[u] = Tail(queue[u]) /\ \A v \in Users \ {u} : queue'[v] = queue[v]
  BY <1>1 DEF Leave, TypeOK
<1>3. \A q \in Requests \ {r} : req'[q] = req[q]
  BY GotoMoves DEF Leave
<1>4. req'[r].at \notin InLine
  BY GotoMoves DEF Leave, Ended, InLine, Holding
<1> HIDE DEF u
<1>5. /\ \A i \in DOMAIN queue'[u] : i + 1 \in DOMAIN queue[u] /\ i + 1 # 1
      /\ \A i \in DOMAIN queue'[u] : queue'[u][i] = queue[u][i + 1]
      /\ \A i \in DOMAIN queue[u] : i # 1 => i - 1 \in DOMAIN queue'[u]
      /\ \A i \in DOMAIN queue'[u] : i \in Nat
      /\ \A i \in DOMAIN queue[u] : i \in Nat
      /\ 1 \in DOMAIN queue[u]
  BY <1>1, <1>2
<1>6. \A v \in Users : \A i \in DOMAIN queue'[v] : queue'[v][i] \in Requests \ {r}
  <2>1. \A i \in DOMAIN queue'[u] : queue'[u][i] \in Requests \ {r}
    BY <1>1, <1>5 DEF QueueInv
  <2>2. \A v \in Users \ {u} : \A i \in DOMAIN queue[v] : queue[v][i] \in Requests \ {r}
    BY DEF QueueInv, TypeOK, u
  <2> QED BY <1>2, <2>1, <2>2
<1>7. \A v \in Users :
        /\ \A i \in DOMAIN queue'[v] :
             req'[queue'[v][i]].user = v /\ req'[queue'[v][i]].at \in InLine
        /\ \A i, j \in DOMAIN queue'[v] : queue'[v][i] = queue'[v][j] => i = j
  <2>1. \A v \in Users \ {u} :
          /\ \A i \in DOMAIN queue'[v] :
               req'[queue'[v][i]].user = v /\ req'[queue'[v][i]].at \in InLine
          /\ \A i, j \in DOMAIN queue'[v] : queue'[v][i] = queue'[v][j] => i = j
    BY <1>2, <1>3, <1>6 DEF QueueInv
  <2>2. \A i \in DOMAIN queue'[u] :
          req'[queue'[u][i]].user = u /\ req'[queue'[u][i]].at \in InLine
    <3> SUFFICES ASSUME NEW i \in DOMAIN queue'[u]
                 PROVE  req'[queue'[u][i]].user = u /\ req'[queue'[u][i]].at \in InLine
      OBVIOUS
    <3>1. req'[queue'[u][i]] = req[queue[u][i + 1]] /\ i + 1 \in DOMAIN queue[u]
      BY <1>1, <1>3, <1>5, <1>6
    <3> QED BY <1>1, <3>1 DEF QueueInv
  <2>3. ASSUME NEW i \in DOMAIN queue'[u], NEW j \in DOMAIN queue'[u],
               queue'[u][i] = queue'[u][j]
        PROVE  i = j
    <3>1. i + 1 = j + 1
      BY <1>1, <1>5, <2>3 DEF QueueInv
    <3> QED BY <1>5, <3>1
  <2> QED BY <2>1, <2>2, <2>3
<1>8. ASSUME NEW q \in Requests \ {r}, req[q].at \in InLine
      PROVE  /\ req[q].user \in Users
             /\ \E i \in DOMAIN queue'[req[q].user] : queue'[req[q].user][i] = q
             /\ req[q].at \in Holding => queue'[req[q].user][1] = q
  <2>1. CASE req[q].user # u
    BY <1>2, <1>8, <2>1 DEF QueueInv
  <2>2. CASE req[q].user = u
    <3>1. PICK i \in DOMAIN queue[u] : queue[u][i] = q
      BY <1>8, <2>2 DEF QueueInv
    <3>2. i - 1 \in DOMAIN queue'[u] /\ queue'[u][i - 1] = q
      BY <1>1, <1>5, <3>1
    <3>3. req[q].at \notin Holding
      BY <1>1, <2>2 DEF QueueInv
    <3> QED BY <1>1, <2>2, <3>2, <3>3
  <2> QED BY <2>1, <2>2
<1> QED BY <1>3, <1>4, <1>7, <1>8 DEF QueueInv, InLine

\* The queue holds the requests that wait or hold, each once.
LEMMA QueueStep ==
  ASSUME TypeOK, QueueInv, Next
  PROVE  QueueInv'
<1>1. ASSUME NEW r \in Requests, NEW u \in Users, NEW t \in Threads, AdmitCreate(r, u, t)
      PROVE QueueInv'
  BY <1>1 DEF AdmitCreate, QueueInv, TypeOK, New, durable, runtime, InLine, Holding
<1>2. ASSUME NEW r \in Requests, CreateRuntime(r) PROVE QueueInv'
  BY <1>2 DEF CreateRuntime, QueueInv, TypeOK, Goto, durable, InLine, Holding
<1>3. ASSUME NEW r \in Requests, RuntimeGone(r) PROVE QueueInv'
  BY <1>3 DEF RuntimeGone, QueueInv, TypeOK, Goto, durable, runtime, InLine, Holding
<1>4. ASSUME NEW r \in Requests, EnsureThread(r) PROVE QueueInv'
  BY <1>4 DEF EnsureThread, QueueInv, TypeOK, Goto, runtime, InLine, Holding,
     durable
<1>5. ASSUME NEW r \in Requests, NEW u \in Users, RefuseMessage(r, u)
      PROVE QueueInv'
  BY <1>5 DEF RefuseMessage, QueueInv, TypeOK, Goto, durable, InLine, Holding
<1>6. ASSUME NEW r \in Requests, NEW u \in Users, NEW t \in Threads, EnterLock(r, u, t)
      PROVE QueueInv'
  BY <1>6, EnterLockQueue
<1>7. ASSUME NEW r \in Requests, AcquireLock(r) PROVE QueueInv'
  BY <1>7 DEF AcquireLock, QueueInv, TypeOK, BeginInvocation, durable, InLine,
     Holding, Invoking
<1>8. ASSUME NEW r \in Requests, SaveCheckpoint(r) PROVE QueueInv'
  BY <1>8 DEF SaveCheckpoint, QueueInv, TypeOK, runtime, InLine, Holding, durable
<1>9. ASSUME NEW r \in Requests, InvocationFails(r) PROVE QueueInv'
  BY <1>9, LeaveQueue DEF InvocationFails, Holding, Ended
<1>10. ASSUME NEW r \in Requests, DeliverCancel(r) PROVE QueueInv'
  BY <1>10, LeaveQueue DEF DeliverCancel, Holding, Ended
<1>11. ASSUME NEW r \in Requests, InvocationReturns(r) PROVE QueueInv'
  BY <1>11 DEF InvocationReturns, QueueInv, TypeOK, AppendTo, Goto, InLine, Holding
<1>12. ASSUME NEW r \in Requests, AppendReply(r) PROVE QueueInv'
  BY <1>12 DEF AppendReply, QueueInv, TypeOK, AppendTo, Goto, runtime, InLine,
     Holding, durable
<1>13. ASSUME NEW r \in Requests, FinishTurn(r) PROVE QueueInv'
  BY <1>13, LeaveQueue DEF FinishTurn, Holding, Ended
<1>14. ASSUME NEW r \in Requests, WriteFails(r) PROVE QueueInv'
  BY <1>14, LeaveQueue DEF WriteFails, Holding, Ended
<1>15. ASSUME NEW u \in Users, Deactivate(u) PROVE QueueInv'
  BY <1>15 DEF Deactivate, QueueInv, TypeOK, InLine, Holding
<1>16. ASSUME NEW u \in Users, CancelUserTasks(u) PROVE QueueInv'
  BY <1>16 DEF CancelUserTasks, QueueInv, TypeOK, durable, InLine, Holding
<1>17. ASSUME NEW u \in Users, Reactivate(u) PROVE QueueInv'
  BY <1>17 DEF Reactivate, QueueInv, TypeOK, runtime, InLine, Holding, durable
<1>18. CASE Crash
  BY <1>18 DEF Crash, QueueInv, TypeOK, InLine, Holding, Ended
<1> QED
  BY <1>1, <1>2, <1>3, <1>4, <1>5, <1>6, <1>7, <1>8, <1>9, <1>10, <1>11, <1>12,
     <1>13, <1>14, <1>15, <1>16, <1>17, <1>18 DEF Next, Step

-----------------------------------------------------------------------------
(* Who owns a conversation.                                                *)

\* A conversation has one owner, and one creator before.
LEMMA OwnerStep ==
  ASSUME TypeOK, QueueInv, OwnerInv, Next
  PROVE  OwnerInv'
<1>1. ASSUME NEW r \in Requests, NEW u \in Users, NEW t \in Threads, AdmitCreate(r, u, t)
      PROVE OwnerInv'
  BY <1>1, NoneAssumption DEF AdmitCreate, OwnerInv, TypeOK, New, durable, runtime,
     InLine, Holding
<1>2. ASSUME NEW r \in Requests, CreateRuntime(r) PROVE OwnerInv'
  BY <1>2, NoneAssumption DEF CreateRuntime, OwnerInv, TypeOK, Goto, durable,
     InLine, Holding
<1>3. ASSUME NEW r \in Requests, RuntimeGone(r) PROVE OwnerInv'
  BY <1>3, NoneAssumption DEF RuntimeGone, OwnerInv, TypeOK, Goto, durable, runtime,
     InLine, Holding
<1>4. ASSUME NEW r \in Requests, EnsureThread(r) PROVE OwnerInv'
  BY <1>4, NoneAssumption DEF EnsureThread, QueueInv, OwnerInv, TypeOK, Ended, Goto, InLine,
     durable, Holding
<1>5. ASSUME NEW r \in Requests, NEW u \in Users, RefuseMessage(r, u)
      PROVE OwnerInv'
  BY <1>5, NoneAssumption DEF RefuseMessage, OwnerInv, TypeOK, Goto, durable,
     InLine, Holding
<1>6. ASSUME NEW r \in Requests, NEW u \in Users, NEW t \in Threads, EnterLock(r, u, t)
      PROVE OwnerInv'
  <2>1. req[r].at = "new" /\ info[t].owner = u /\ info' = info
    BY <1>6 DEF EnterLock, durable
  <2> QED BY <1>6, <2>1, EnterLockFacts DEF OwnerInv, InLine, Holding
<1>7. ASSUME NEW r \in Requests, AcquireLock(r) PROVE OwnerInv'
  BY <1>7, NoneAssumption DEF AcquireLock, OwnerInv, TypeOK, BeginInvocation,
     durable, InLine, Invoking, Holding
<1>8. ASSUME NEW r \in Requests, SaveCheckpoint(r) PROVE OwnerInv'
  BY <1>8, NoneAssumption DEF SaveCheckpoint, OwnerInv, TypeOK, runtime, InLine,
     durable, Holding
<1>9. ASSUME NEW r \in Requests, InvocationFails(r) PROVE OwnerInv'
  BY <1>9, NoneAssumption DEF InvocationFails, OwnerInv, TypeOK, Leave, durable,
     InLine, Goto, Holding
<1>10. ASSUME NEW r \in Requests, DeliverCancel(r) PROVE OwnerInv'
  BY <1>10, NoneAssumption DEF DeliverCancel, OwnerInv, TypeOK, Leave, durable,
     InLine, Goto, Holding
<1>11. ASSUME NEW r \in Requests, InvocationReturns(r) PROVE OwnerInv'
  BY <1>11, NoneAssumption DEF InvocationReturns, OwnerInv, TypeOK, AppendTo, Goto,
     InLine, Holding
<1>12. ASSUME NEW r \in Requests, AppendReply(r) PROVE OwnerInv'
  BY <1>12, NoneAssumption DEF AppendReply, OwnerInv, TypeOK, AppendTo, Goto,
     runtime, InLine, durable, Holding
<1>13. ASSUME NEW r \in Requests, FinishTurn(r) PROVE OwnerInv'
  BY <1>13, NoneAssumption DEF FinishTurn, OwnerInv, TypeOK, SaveInfo, Leave,
     InLine, Goto, Holding
<1>14. ASSUME NEW r \in Requests, WriteFails(r) PROVE OwnerInv'
  BY <1>14, NoneAssumption DEF WriteFails, OwnerInv, TypeOK, Leave, durable, InLine,
     Goto, Holding
<1>15. ASSUME NEW u \in Users, Deactivate(u) PROVE OwnerInv'
  BY <1>15, NoneAssumption DEF Deactivate, OwnerInv, TypeOK, InLine, Holding
<1>16. ASSUME NEW u \in Users, CancelUserTasks(u) PROVE OwnerInv'
  BY <1>16, NoneAssumption DEF CancelUserTasks, OwnerInv, TypeOK, durable, InLine,
     Holding
<1>17. ASSUME NEW u \in Users, Reactivate(u) PROVE OwnerInv'
  BY <1>17, NoneAssumption DEF Reactivate, OwnerInv, TypeOK, runtime, InLine,
     durable, Holding
<1>18. CASE Crash
  BY <1>18 DEF Crash, OwnerInv, TypeOK, durable, InLine, Holding
<1> QED
  BY <1>1, <1>2, <1>3, <1>4, <1>5, <1>6, <1>7, <1>8, <1>9, <1>10, <1>11, <1>12,
     <1>13, <1>14, <1>15, <1>16, <1>17, <1>18 DEF Next, Step

-----------------------------------------------------------------------------
(* The two records of a conversation and its metadata.                     *)

\* A turn under way is the newest its conversation remembers.
LEMMA MemoryStep ==
  ASSUME TypeOK, QueueInv, OwnerInv, MemoryInv, Next
  PROVE  MemoryInv'
<1>1. ASSUME NEW r \in Requests, SaveCheckpoint(r) PROVE MemoryInv'
  <2> DEFINE t == req[r].thread
  <2>1. t \in Threads /\ req[r].at = "invoking" /\ req' = req
    BY <1>1, OwnThread DEF SaveCheckpoint, Holding
  <2>2. remembered[t] \in Seq(Requests) /\ \A i \in DOMAIN remembered[t] : remembered[t][i] # r
    BY <1>1, <2>1 DEF SaveCheckpoint, TypeOK, ToSet
  <2>3. /\ remembered'[t] = Append(remembered[t], r)
        /\ \A v \in Threads \ {t} : remembered'[v] = remembered[v]
    BY <1>1, <2>1 DEF SaveCheckpoint, TypeOK
  <2>4. \A i \in DOMAIN remembered[t] : req[remembered[t][i]].at \notin Holding
    BY <2>1, <2>2, OneTurnPerThread DEF MemoryInv, Holding
  <2>5. ASSUME NEW q \in Requests, req[q].at \in {"asked", "answered"}
        PROVE  req[q].thread # t /\ req[q].thread \in Threads
    BY <2>1, <2>5, OneTurnPerThread, OwnThread DEF Holding
  <2>6. /\ DOMAIN remembered'[t] = DOMAIN remembered[t] \cup {Len(remembered'[t])}
        /\ \A i \in DOMAIN remembered[t] : remembered'[t][i] = remembered[t][i]
        /\ remembered'[t][Len(remembered'[t])] = r
    BY <2>2, <2>3
  <2> HIDE DEF t
  <2>7. \A i \in DOMAIN remembered'[t] :
          /\ req[remembered'[t][i]].thread = t
          /\ req[remembered'[t][i]].at \in Holding \cup {"ok", "failed", "cancelled", "lost"}
          /\ req[remembered'[t][i]].at \in Holding => i = Len(remembered'[t])
    BY <2>1, <2>4, <2>6 DEF MemoryInv, Holding, t
  <2>8. \A v \in Threads : \A i \in DOMAIN remembered'[v] :
          /\ req'[remembered'[v][i]].thread = v
          /\ req'[remembered'[v][i]].at \in Holding \cup {"ok", "failed", "cancelled", "lost"}
          /\ req'[remembered'[v][i]].at \in Holding => i = Len(remembered'[v])
    <3> SUFFICES ASSUME NEW v \in Threads
                 PROVE  \A i \in DOMAIN remembered'[v] :
                          /\ req'[remembered'[v][i]].thread = v
                          /\ req'[remembered'[v][i]].at
                               \in Holding \cup {"ok", "failed", "cancelled", "lost"}
                          /\ req'[remembered'[v][i]].at \in Holding => i = Len(remembered'[v])
      OBVIOUS
    <3>1. CASE v = t
      BY <2>1, <2>7, <3>1
    <3>2. CASE v # t
      BY <2>1, <2>3, <3>2 DEF MemoryInv
    <3> QED BY <3>1, <3>2
  <2>9. \A q \in Requests :
          req'[q].at \in {"asked", "answered"} =>
            /\ remembered'[req'[q].thread] # <<>>
            /\ Last(remembered'[req'[q].thread]) = q
    BY <2>1, <2>3, <2>5 DEF MemoryInv
  <2> QED BY <2>8, <2>9 DEF MemoryInv
<1>2. ASSUME NEW r \in Requests, InvocationReturns(r) PROVE MemoryInv'
  <2>1. /\ req[r].at = "invoking" /\ remembered' = remembered
        /\ r \in ToSet(remembered[req[r].thread]) /\ Goto(r, "asked")
    BY <1>2 DEF InvocationReturns
  <2>2. /\ \A q \in Requests \ {r} : req'[q] = req[q]
        /\ req'[r].thread = req[r].thread /\ req'[r].at = "asked"
    BY <2>1, GotoMoves DEF Same
  <2>3. req[r].thread \in Threads
    BY <2>1, OwnThread DEF Holding
  <2>4. PICK i \in DOMAIN remembered[req[r].thread] : remembered[req[r].thread][i] = r
    BY <2>1 DEF ToSet
  <2>5. i = Len(remembered[req[r].thread]) /\ remembered[req[r].thread] # <<>>
    BY <2>1, <2>3, <2>4 DEF MemoryInv, Holding
  <2>6. \A v \in Threads : \A k \in DOMAIN remembered[v] :
          /\ req'[remembered[v][k]].thread = v
          /\ req'[remembered[v][k]].at \in Holding \cup {"ok", "failed", "cancelled", "lost"}
          /\ req'[remembered[v][k]].at \in Holding => k = Len(remembered[v])
    <3> SUFFICES ASSUME NEW v \in Threads, NEW k \in DOMAIN remembered[v]
                 PROVE  /\ req'[remembered[v][k]].thread = v
                        /\ req'[remembered[v][k]].at \in Holding \cup {"ok", "failed", "cancelled", "lost"}
                        /\ req'[remembered[v][k]].at \in Holding => k = Len(remembered[v])
      OBVIOUS
    <3>1. remembered[v][k] \in Requests
      BY DEF TypeOK
    <3> QED BY <2>1, <2>2, <3>1 DEF MemoryInv, Holding
  <2>7. Last(remembered[req[r].thread]) = r
    BY <2>4, <2>5 DEF Last
  <2> QED BY <2>1, <2>2, <2>5, <2>6, <2>7 DEF MemoryInv
<1>3. CASE /\ UNCHANGED remembered
           /\ \A r \in Requests : ~InvocationReturns(r)
  <2>1. ASSUME NEW t \in Threads, NEW i \in DOMAIN remembered[t]
        PROVE  /\ req'[remembered[t][i]].thread = t
               /\ req'[remembered[t][i]].at \in Holding \cup {"ok", "failed", "cancelled", "lost"}
               /\ req'[remembered[t][i]].at \in Holding => i = Len(remembered[t])
    <3>1. remembered[t][i] \in Requests
      BY DEF TypeOK
    <3> QED BY <3>1, <1>3, NextMoves DEF Moves, Same, MemoryInv, Holding
  <2>2. ASSUME NEW r \in Requests, req'[r].at \in {"asked", "answered"}
        PROVE  req[r].at \in {"asked", "answered"} /\ req'[r].thread = req[r].thread
    BY <2>2, <1>3, NextMoves DEF Moves, Same
  <2> QED BY <1>3, <2>1, <2>2 DEF MemoryInv
<1> QED BY <1>1, <1>2, <1>3, NextWrites

\* The transcript ends with the turn whose appends are under way.
LEMMA TranscriptStep ==
  ASSUME TypeOK, QueueInv, OwnerInv, TranscriptInv, Next
  PROVE  TranscriptInv'
<1>1. ASSUME NEW r \in Requests, NEW role \in {"user", "assistant"},
             req[r].at \in Holding, AppendTo(r, role),
             NEW point, Goto(r, point),
             \/ role = "user" /\ point = "asked"
             \/ role = "assistant" /\ point = "answered"
      PROVE  TranscriptInv'
  <2> DEFINE t == req[r].thread
  <2>1. t \in Threads
    BY <1>1, OwnThread
  <2>2. /\ transcript'[t] = Append(transcript[t], [role |-> role, turn |-> r])
        /\ \A v \in Threads \ {t} : transcript'[v] = transcript[v]
    BY <1>1, AppendTyped
  <2>3. transcript[t] \in Seq(Line)
    BY <2>1 DEF TypeOK, Line
  <2>4. /\ \A q \in Requests \ {r} : req'[q] = req[q]
        /\ req'[r].thread = t /\ req'[r].at = point
    BY <1>1, GotoMoves DEF Same
  <2>5. ASSUME NEW q \in Requests \ {r}, req'[q].at \in {"asked", "answered"}
        PROVE  req[q].at = req'[q].at /\ req'[q].thread \in Threads \ {t} /\ req'[q].thread = req[q].thread
    BY <1>1, <2>4, <2>5, OneTurnPerThread, OwnThread DEF Holding
  <2> HIDE DEF t
  <2>6. /\ transcript'[t] # <<>>
        /\ Last(transcript'[t]) = [role |-> role, turn |-> r]
        /\ \A i \in DOMAIN transcript'[t] :
              \/ i \in DOMAIN transcript[t] /\ transcript'[t][i] = transcript[t][i]
              \/ transcript'[t][i] = [role |-> role, turn |-> r]
    BY <2>2, <2>3 DEF Last
  <2>7. ASSUME NEW v \in Threads, NEW i \in DOMAIN transcript[v]
        PROVE  /\ req'[transcript[v][i].turn].thread = v
               /\ req'[transcript[v][i].turn].at \in {"asked", "answered", "ok", "failed", "lost"}
    <3>1. transcript[v][i].turn \in Requests
      BY LinesTyped
    <3> QED BY <1>1, <3>1, <2>4 DEF TranscriptInv, t
  <2>8. ASSUME NEW v \in Threads, NEW i \in DOMAIN transcript'[v]
        PROVE  /\ req'[transcript'[v][i].turn].thread = v
               /\ req'[transcript'[v][i].turn].at \in {"asked", "answered", "ok", "failed", "lost"}
    BY <1>1, <2>2, <2>4, <2>6, <2>7
  <2>9. ASSUME NEW q \in Requests
        PROVE  /\ req'[q].at = "asked" => /\ transcript'[req'[q].thread] # <<>>
                                          /\ Last(transcript'[req'[q].thread]) = Log!Question(q)
               /\ req'[q].at = "answered" => /\ transcript'[req'[q].thread] # <<>>
                                             /\ Last(transcript'[req'[q].thread]) = Log!Answer(q)
    <3>1. CASE q = r
      BY <1>1, <2>4, <2>6, <3>1 DEF Log!Question, Log!Answer
    <3>2. CASE q # r
      BY <2>2, <2>5, <3>2 DEF TranscriptInv
    <3> QED BY <3>1, <3>2
  <2> QED BY <2>8, <2>9 DEF TranscriptInv
<1>2. ASSUME NEW r \in Requests, InvocationReturns(r) PROVE TranscriptInv'
  <2>1. req[r].at \in Holding /\ AppendTo(r, "user") /\ Goto(r, "asked")
    BY <1>2 DEF InvocationReturns, Holding
  <2> QED BY <1>1, <2>1
<1>3. ASSUME NEW r \in Requests, AppendReply(r) PROVE TranscriptInv'
  <2>1. req[r].at \in Holding /\ AppendTo(r, "assistant") /\ Goto(r, "answered")
    BY <1>3 DEF AppendReply, Holding
  <2> QED BY <1>1, <2>1
<1>4. CASE /\ UNCHANGED transcript
           /\ \A r \in Requests : ~InvocationReturns(r) /\ ~AppendReply(r)
  <2>1. ASSUME NEW t \in Threads, NEW i \in DOMAIN transcript[t]
        PROVE  /\ req'[transcript[t][i].turn].thread = t
               /\ req'[transcript[t][i].turn].at \in {"asked", "answered", "ok", "failed", "lost"}
    <3>1. transcript[t][i].turn \in Requests
      BY LinesTyped
    <3> QED BY <3>1, <1>4, NextMoves DEF Moves, Same, TranscriptInv
  <2>2. ASSUME NEW r \in Requests, req'[r].at \in {"asked", "answered"}
        PROVE  req'[r].at = req[r].at /\ req'[r].thread = req[r].thread
    BY <2>2, <1>4, NextMoves DEF Moves, Same
  <2> QED BY <1>4, <2>1, <2>2 DEF TranscriptInv
<1> QED BY <1>2, <1>3, <1>4, NextWrites

\* The metadata read under the lock stays that of the file.
LEMMA TitleStep ==
  ASSUME TypeOK, QueueInv, OwnerInv, TitleInv, Next
  PROVE  TitleInv'
<1>1. ASSUME NEW r \in Requests, NEW u \in Users, NEW t \in Threads, AdmitCreate(r, u, t)
      PROVE TitleInv'
  BY <1>1 DEF AdmitCreate, TitleInv, New, durable, runtime, Holding, TypeOK
<1>2. ASSUME NEW r \in Requests, CreateRuntime(r) PROVE TitleInv'
  BY <1>2 DEF CreateRuntime, TitleInv, Goto, durable, Holding, TypeOK
<1>3. ASSUME NEW r \in Requests, RuntimeGone(r) PROVE TitleInv'
  BY <1>3 DEF RuntimeGone, TitleInv, Goto, durable, runtime, Holding, TypeOK
<1>4. ASSUME NEW r \in Requests, EnsureThread(r) PROVE TitleInv'
  <2>1. /\ Goto(r, "ok") /\ req[r].thread \in Threads
        /\ \A t \in Threads : info'[t].title = info[t].title
    BY <1>4 DEF EnsureThread, OwnerInv, TypeOK, ThreadInfo
  <2>2. ASSUME NEW q \in Requests, req'[q].at \in Holding
        PROVE  req'[q] = req[q] /\ req[q].thread \in Threads
    BY <2>1, <2>2, GotoMoves, OwnThread DEF Holding
  <2> QED BY <2>1, <2>2 DEF TitleInv
<1>5. ASSUME NEW r \in Requests, NEW u \in Users, RefuseMessage(r, u)
      PROVE TitleInv'
  BY <1>5 DEF RefuseMessage, TitleInv, Goto, durable, Holding, TypeOK
<1>6. ASSUME NEW r \in Requests, NEW u \in Users, NEW t \in Threads, EnterLock(r, u, t)
      PROVE TitleInv'
  <2>1. info' = info /\ deactivations' = deactivations
    BY <1>6 DEF EnterLock, durable
  <2> QED BY <1>6, <2>1, EnterLockFacts DEF TitleInv, Holding
<1>7. ASSUME NEW r \in Requests, AcquireLock(r) PROVE TitleInv'
  BY <1>7 DEF AcquireLock, TitleInv, BeginInvocation, durable, Holding, Invoking,
     TypeOK
<1>8. ASSUME NEW r \in Requests, SaveCheckpoint(r) PROVE TitleInv'
  BY <1>8 DEF SaveCheckpoint, TitleInv, runtime, Holding, TypeOK
<1>9. ASSUME NEW r \in Requests, InvocationFails(r) PROVE TitleInv'
  BY <1>9 DEF InvocationFails, TitleInv, Leave, durable, Holding, Goto, TypeOK
<1>10. ASSUME NEW r \in Requests, DeliverCancel(r) PROVE TitleInv'
  BY <1>10 DEF DeliverCancel, TitleInv, Leave, durable, Holding, Goto, TypeOK
<1>11. ASSUME NEW r \in Requests, InvocationReturns(r) PROVE TitleInv'
  BY <1>11 DEF InvocationReturns, TitleInv, AppendTo, Goto, Holding, TypeOK
<1>12. ASSUME NEW r \in Requests, AppendReply(r) PROVE TitleInv'
  BY <1>12 DEF AppendReply, TitleInv, AppendTo, Goto, runtime, Holding, TypeOK
<1>13. ASSUME NEW r \in Requests, FinishTurn(r) PROVE TitleInv'
  <2>1. Goto(r, "ok") /\ req[r].at \in Holding
    BY <1>13 DEF FinishTurn, Leave, Holding
  <2>2. \A t \in Threads \ {req[r].thread} : info'[t] = info[t]
    BY <1>13 DEF FinishTurn, SaveInfo, TypeOK
  <2>3. ASSUME NEW q \in Requests, req'[q].at \in Holding
        PROVE  /\ req'[q] = req[q]
               /\ req[q].thread \in Threads \ {req[r].thread}
    BY <2>1, <2>3, GotoMoves, OwnThread, OneTurnPerThread DEF Holding
  <2> QED BY <2>2, <2>3 DEF TitleInv
<1>14. ASSUME NEW r \in Requests, WriteFails(r) PROVE TitleInv'
  BY <1>14 DEF WriteFails, TitleInv, Leave, durable, Holding, Goto, TypeOK
<1>15. ASSUME NEW u \in Users, Deactivate(u) PROVE TitleInv'
  BY <1>15 DEF Deactivate, TitleInv, Holding, TypeOK
<1>16. ASSUME NEW u \in Users, CancelUserTasks(u) PROVE TitleInv'
  BY <1>16 DEF CancelUserTasks, TitleInv, durable, Holding, TypeOK
<1>17. ASSUME NEW u \in Users, Reactivate(u) PROVE TitleInv'
  BY <1>17 DEF Reactivate, TitleInv, runtime, Holding, TypeOK
<1>18. CASE Crash
  BY <1>18 DEF Crash, TitleInv, Ended, durable, Holding, TypeOK
<1> QED
  BY <1>1, <1>2, <1>3, <1>4, <1>5, <1>6, <1>7, <1>8, <1>9, <1>10, <1>11, <1>12,
     <1>13, <1>14, <1>15, <1>16, <1>17, <1>18 DEF Next, Step

-----------------------------------------------------------------------------
(* Cancellation.                                                           *)

\* An invocation of a deactivated user is cancelled before it can return.
LEMMA CancelStep ==
  ASSUME TypeOK, QueueInv, CancelInv, Next
  PROVE  CancelInv'
<1>1. ASSUME NEW r \in Requests, NEW u \in Users, NEW t \in Threads, AdmitCreate(r, u, t)
      PROVE CancelInv'
  BY <1>1, NoneAssumption, DisjointAssumption DEF AdmitCreate, CancelInv, New,
     durable, runtime, TypeOK, QueueInv, InLine, Holding
<1>2. ASSUME NEW r \in Requests, CreateRuntime(r) PROVE CancelInv'
  BY <1>2, NoneAssumption, DisjointAssumption DEF CreateRuntime, CancelInv, Goto,
     durable, TypeOK, QueueInv, InLine, Holding
<1>3. ASSUME NEW r \in Requests, RuntimeGone(r) PROVE CancelInv'
  BY <1>3, NoneAssumption, DisjointAssumption DEF RuntimeGone, CancelInv, Goto,
     durable, runtime, TypeOK, QueueInv, InLine, Holding
<1>4. ASSUME NEW r \in Requests, EnsureThread(r) PROVE CancelInv'
  BY <1>4, NoneAssumption, DisjointAssumption DEF EnsureThread, CancelInv, Goto,
     runtime, TypeOK, QueueInv, InLine, Holding
<1>5. ASSUME NEW r \in Requests, NEW u \in Users, RefuseMessage(r, u)
      PROVE CancelInv'
  BY <1>5, NoneAssumption, DisjointAssumption DEF RefuseMessage, CancelInv, Goto,
     durable, TypeOK, QueueInv, InLine, Holding
<1>6. ASSUME NEW r \in Requests, NEW u \in Users, NEW t \in Threads, EnterLock(r, u, t)
      PROVE CancelInv'
  <2>1. \/ /\ req'[r].epoch = deactivations[u]
           /\ tasks' = [tasks EXCEPT ![u] = @ \cup {r}]
        \/ req'[r].at = "queued" /\ tasks' = tasks
    BY <1>6, EnterLockFacts
  <2>2. /\ loop = None /\ UNCHANGED <<loop, cancelled, deactivations>>
        /\ \A v \in Users : tasks[v] \subseteq tasks'[v]
    BY <1>6, <2>1 DEF EnterLock, durable, TypeOK
  <2>3. req'[r].at = "invoking" => r \in tasks'[u] /\ req'[r].epoch = deactivations[u]
    BY <2>1 DEF TypeOK
  <2>4. req'[r].user = u /\ req'[r].at \notin {"asked", "answered"}
    BY <1>6, EnterLockFacts
  <2>5. \A q \in Requests : req[q].at = "invoking" => req[q].user \in Users
    BY DEF QueueInv, InLine, Holding
  <2>6. \A q \in Requests \ {r} : req'[q] = req[q]
    BY <1>6, EnterLockFacts
  <2> QED BY <2>2, <2>3, <2>4, <2>5, <2>6 DEF CancelInv
<1>7. ASSUME NEW r \in Requests, AcquireLock(r) PROVE CancelInv'
  BY <1>7, NoneAssumption, DisjointAssumption DEF AcquireLock, CancelInv,
     BeginInvocation, durable, Invoking, TypeOK, QueueInv, InLine, Holding
<1>8. ASSUME NEW r \in Requests, SaveCheckpoint(r) PROVE CancelInv'
  BY <1>8, NoneAssumption, DisjointAssumption DEF SaveCheckpoint, CancelInv,
     runtime, TypeOK, QueueInv, InLine, Holding
<1>9. ASSUME NEW r \in Requests, InvocationFails(r) PROVE CancelInv'
  BY <1>9, NoneAssumption, DisjointAssumption DEF InvocationFails, CancelInv, Leave,
     durable, Goto, TypeOK, QueueInv, InLine, Holding
<1>10. ASSUME NEW r \in Requests, DeliverCancel(r) PROVE CancelInv'
  BY <1>10, NoneAssumption, DisjointAssumption DEF DeliverCancel, CancelInv, Leave,
     durable, Goto, TypeOK, QueueInv, InLine, Holding
<1>11. ASSUME NEW r \in Requests, InvocationReturns(r) PROVE CancelInv'
  <2>1. /\ req[r].at = "invoking" /\ loop = None /\ loop' = r /\ Goto(r, "asked")
        /\ UNCHANGED <<deactivations, cancelled>>
        /\ \A u \in Users : tasks[u] \ {r} \subseteq tasks'[u]
    BY <1>11 DEF InvocationReturns, TypeOK
  <2>2. \A q \in Requests : req[q].at = "invoking" => req[q].user \in Users
    BY DEF QueueInv, InLine, Holding
  <2>3. ASSUME NEW q \in Requests, q # r
        PROVE  req'[q] = req[q] /\ req[q].at \notin {"asked", "answered"}
    BY <2>1, <2>3, GotoMoves, NoneAssumption DEF CancelInv
  <2>4. req'[r].at = "asked"
    BY <2>1, GotoMoves
  <2> QED BY <2>1, <2>2, <2>3, <2>4, NoneAssumption DEF CancelInv
<1>12. ASSUME NEW r \in Requests, AppendReply(r) PROVE CancelInv'
  BY <1>12, NoneAssumption, DisjointAssumption DEF AppendReply, CancelInv, AppendTo,
     Goto, runtime, TypeOK, QueueInv, InLine, Holding
<1>13. ASSUME NEW r \in Requests, FinishTurn(r) PROVE CancelInv'
  BY <1>13, NoneAssumption, DisjointAssumption DEF FinishTurn, CancelInv, SaveInfo,
     Leave, Goto, TypeOK, QueueInv, InLine, Holding
<1>14. ASSUME NEW r \in Requests, WriteFails(r) PROVE CancelInv'
  BY <1>14, NoneAssumption, DisjointAssumption DEF WriteFails, CancelInv, Leave,
     durable, Goto, TypeOK, QueueInv, InLine, Holding
<1>15. ASSUME NEW u \in Users, Deactivate(u) PROVE CancelInv'
  <2>1. /\ loop = None /\ loop' = u /\ UNCHANGED <<tasks, cancelled, req>>
        /\ \A v \in Users \ {u} : deactivations'[v] = deactivations[v]
    BY <1>15 DEF Deactivate, TypeOK
  <2>2. \A q \in Requests : req[q].at = "invoking" => req[q].user \in Users
    BY DEF QueueInv, InLine, Holding
  <2> QED BY <2>1, <2>2, NoneAssumption DEF CancelInv
<1>16. ASSUME NEW u \in Users, CancelUserTasks(u) PROVE CancelInv'
  BY <1>16, NoneAssumption, DisjointAssumption DEF CancelUserTasks, CancelInv,
     durable, TypeOK, QueueInv, InLine, Holding
<1>17. ASSUME NEW u \in Users, Reactivate(u) PROVE CancelInv'
  BY <1>17, NoneAssumption, DisjointAssumption DEF Reactivate, CancelInv, runtime,
     TypeOK, QueueInv, InLine, Holding
<1>18. CASE Crash
  BY <1>18 DEF Crash, CancelInv, Ended, durable, TypeOK, QueueInv, InLine, Holding
<1> QED
  BY <1>1, <1>2, <1>3, <1>4, <1>5, <1>6, <1>7, <1>8, <1>9, <1>10, <1>11, <1>12,
     <1>13, <1>14, <1>15, <1>16, <1>17, <1>18 DEF Next, Step

-----------------------------------------------------------------------------
(* The preview.                                                            *)

\* No finished turn of the transcript stands behind the preview.
LEMMA PreviewStep ==
  ASSUME TypeOK, QueueInv, OwnerInv, TranscriptInv, PreviewIsNewest, Next
  PROVE  PreviewIsNewest'
<1>1. ASSUME NEW r \in Requests, FinishTurn(r) PROVE PreviewIsNewest'
  <2> DEFINE t == req[r].thread
  <2>1. /\ req[r].at = "answered" /\ Goto(r, "ok") /\ transcript' = transcript
        /\ t \in Threads
    BY <1>1, OwnThread DEF FinishTurn, Leave, Holding
  <2>2. /\ info'[t].preview = r
        /\ \A v \in Threads \ {t} : info'[v] = info[v]
    BY <1>1, <2>1 DEF FinishTurn, SaveInfo, TypeOK, ThreadInfo
  <2>3. /\ transcript[t] # <<>> /\ transcript[t] \in Seq(Line)
        /\ transcript[t][Len(transcript[t])] = Log!Answer(r)
    BY <2>1 DEF TranscriptInv, Last, TypeOK, Line
  <2>4. \A i \in DOMAIN transcript[t] : Len(transcript[t]) \in i .. Len(transcript[t])
    BY <2>3
  <2>5. \A q \in Requests \ {r} : req'[q] = req[q]
    BY <2>1, GotoMoves
  <2>6. ASSUME NEW v \in Threads \ {t}, NEW i \in DOMAIN transcript[v]
        PROVE  req'[transcript[v][i].turn] = req[transcript[v][i].turn]
    BY <2>1, <2>5, LinesTyped DEF TranscriptInv
  <2> HIDE DEF t
  <2> QED BY <2>1, <2>2, <2>3, <2>4, <2>6 DEF PreviewIsNewest, Log!Answer
<1>2. ASSUME NEW r \in Requests, NEW role \in {"user", "assistant"},
             req[r].at \in Holding, AppendTo(r, role),
             NEW point \in Holding, Goto(r, point), info' = info
      PROVE  PreviewIsNewest'
  <2> DEFINE t == req[r].thread
  <2>1. t \in Threads
    BY <1>2, OwnThread
  <2>2. /\ transcript'[t] = Append(transcript[t], [role |-> role, turn |-> r])
        /\ \A v \in Threads \ {t} : transcript'[v] = transcript[v]
        /\ transcript[t] \in Seq(Line)
    BY <1>2, <2>1, AppendTyped DEF TypeOK, Line
  <2>3. /\ \A q \in Requests \ {r} : req'[q] = req[q]
        /\ req'[r].at # "ok" /\ req[r].at # "ok"
    BY <1>2, GotoMoves DEF Holding
  <2> HIDE DEF t
  <2>4. /\ \A i \in DOMAIN transcript'[t] :
             \/ i \in DOMAIN transcript[t] /\ transcript'[t][i] = transcript[t][i]
             \/ transcript'[t][i].turn = r
        /\ \A i \in DOMAIN transcript[t] : \A j \in i .. Len(transcript[t]) :
             j \in i .. Len(transcript'[t]) /\ transcript'[t][j] = transcript[t][j]
    BY <2>2
  <2>5. ASSUME NEW v \in Threads, NEW i \in DOMAIN transcript[v],
               transcript[v][i].role = "assistant",
               req'[transcript[v][i].turn].at = "ok"
        PROVE  \E j \in i .. Len(transcript[v]) :
                 transcript[v][j] = Log!Answer(info[v].preview)
    <3>1. req[transcript[v][i].turn].at = "ok"
      BY <2>3, <2>5, LinesTyped
    <3> QED BY <2>5, <3>1 DEF PreviewIsNewest
  <2>6. ASSUME NEW v \in Threads, NEW i \in DOMAIN transcript'[v],
               transcript'[v][i].role = "assistant",
               req'[transcript'[v][i].turn].at = "ok"
        PROVE  \E j \in i .. Len(transcript'[v]) :
                 transcript'[v][j] = Log!Answer(info[v].preview)
    <3>1. CASE v # t
      BY <2>2, <2>5, <2>6, <3>1
    <3>2. CASE v = t
      <4>1. i \in DOMAIN transcript[t] /\ transcript'[t][i] = transcript[t][i]
        BY <2>3, <2>4, <2>6, <3>2
      <4>2. PICK j \in i .. Len(transcript[t]) :
              transcript[t][j] = Log!Answer(info[t].preview)
        BY <2>5, <2>6, <3>2, <4>1
      <4> QED BY <2>4, <3>2, <4>1, <4>2
    <3> QED BY <3>1, <3>2
  <2> QED BY <1>2, <2>6 DEF PreviewIsNewest, Log!Answer
<1>3. ASSUME NEW r \in Requests, InvocationReturns(r) PROVE PreviewIsNewest'
  <2>1. /\ req[r].at \in Holding /\ AppendTo(r, "user") /\ Goto(r, "asked")
        /\ info' = info
    BY <1>3 DEF InvocationReturns, Holding
  <2> QED BY <1>2, <2>1 DEF Holding
<1>4. ASSUME NEW r \in Requests, AppendReply(r) PROVE PreviewIsNewest'
  <2>1. /\ req[r].at \in Holding /\ AppendTo(r, "assistant") /\ Goto(r, "answered")
        /\ info' = info
    BY <1>4 DEF AppendReply, Holding
  <2> QED BY <1>2, <2>1 DEF Holding
<1>5. CASE /\ UNCHANGED transcript
           /\ \A r \in Requests : ~FinishTurn(r)
  <2>1. \A t \in Threads : info'[t].preview = info[t].preview
    <3>1. ASSUME NEW r \in Requests, EnsureThread(r)
          PROVE  \A t \in Threads : info'[t].preview = info[t].preview
      BY <3>1 DEF EnsureThread, OwnerInv, TypeOK, ThreadInfo
    <3> QED BY <1>5, <3>1, NextWrites
  <2>2. ASSUME NEW t \in Threads, NEW i \in DOMAIN transcript[t],
               req'[transcript[t][i].turn].at = "ok"
        PROVE  req[transcript[t][i].turn].at = "ok"
    <3>1. transcript[t][i].turn \in Requests
      BY LinesTyped
    <3> QED BY <1>5, <2>2, <3>1, NextMoves DEF Moves, Same, TranscriptInv
  <2> QED BY <1>5, <2>1, <2>2 DEF PreviewIsNewest, Log!Answer
<1> QED BY <1>1, <1>3, <1>4, <1>5, NextWrites

-----------------------------------------------------------------------------
(* The theorems.                                                           *)

\* The worker starts without requests, tasks and conversations.
LEMMA InitHolds == Init => InductiveInv
BY DEF Init, InductiveInv, TypeOK, QueueInv, OwnerInv, MemoryInv, TranscriptInv, TitleInv,
       CancelInv, PreviewIsNewest, ThreadInfo, State, Points, InLine, Holding, Ended, New,
       NoThread

\* Every step preserves every part of the invariant.
LEMMA StepHolds == InductiveInv /\ [Next]_vars => InductiveInv'
<1> SUFFICES ASSUME InductiveInv, [Next]_vars PROVE InductiveInv'
  OBVIOUS
<1>1. CASE Next
  BY <1>1, TypeStep, QueueStep, OwnerStep, MemoryStep, TranscriptStep, TitleStep,
     CancelStep, PreviewStep DEF InductiveInv
<1>2. CASE UNCHANGED vars
  <2> USE <1>2 DEF vars, durable, runtime, InductiveInv
  <2>1. TypeOK'
    BY DEF TypeOK
  <2>2. QueueInv'
    BY DEF QueueInv
  <2>3. OwnerInv' /\ TitleInv' /\ CancelInv'
    BY DEF OwnerInv, TitleInv, CancelInv
  <2>4. MemoryInv' /\ TranscriptInv'
    BY DEF MemoryInv, TranscriptInv, Last
  <2>5. PreviewIsNewest'
    BY DEF PreviewIsNewest, Log!Answer
  <2> QED BY <2>1, <2>2, <2>3, <2>4, <2>5
<1> QED BY <1>1, <1>2

\* The invariant behind all the others, for any number of users, conversations
\* and requests, whatever is cancelled, fails or crashes.
THEOREM Inductive == Spec => []InductiveInv
BY InitHolds, StepHolds, PTL DEF Spec

\* One invocation, transcript and metadata cycle per user at a time: what
\* user_lock of main.py is for.
THEOREM Serialised == Spec => []OneTurnPerUser
<1>1. InductiveInv => OneTurnPerUser
  BY OneTurn DEF InductiveInv
<1> QED BY <1>1, Inductive, PTL

\* The preview of the metadata is the newest finished answer's.
THEOREM PreviewCorrect == Spec => []PreviewIsNewest
<1>1. InductiveInv => PreviewIsNewest
  BY DEF InductiveInv
<1> QED BY <1>1, Inductive, PTL

\* A title is never replaced, although post_thread_message saves a copy of
\* metadata it read before the invocation.
THEOREM TitleCorrect == Spec => TitleStays
<1>1. ASSUME InductiveInv, [Next]_vars
      PROVE  [\A t \in Threads : info[t].title # None => info'[t].title = info[t].title]_vars
  <2>1. ASSUME NEW r \in Requests, EnsureThread(r), NEW t \in Threads
        PROVE  info'[t].title = info[t].title
    BY <1>1, <2>1 DEF EnsureThread, InductiveInv, TypeOK, ThreadInfo
  <2>2. ASSUME NEW r \in Requests, FinishTurn(r), NEW t \in Threads, info[t].title # None
        PROVE  info'[t].title = info[t].title
    <3>1. req[r].at \in Holding /\ SaveInfo(r)
      BY <2>2 DEF FinishTurn, Holding
    <3>2. req[r].thread \in Threads /\ req[r].title = info[req[r].thread].title
      BY <1>1, <3>1, OwnThread DEF InductiveInv, TitleInv
    <3> QED BY <1>1, <2>2, <3>1, <3>2 DEF SaveInfo, InductiveInv, TypeOK, ThreadInfo
  <2>3. CASE Next
    BY <2>1, <2>2, <2>3, NextWrites
  <2> QED BY <1>1, <2>3
<1> QED BY <1>1, Inductive, PTL DEF Spec, TitleStays

\* An invocation that was running when its user was deactivated never returns
\* into the conversation: cancel_user_tasks follows the commit with no await.
THEOREM DeactivationCancels == Spec => NoTurnAcrossDeactivation
<1>1. ASSUME InductiveInv, [Next]_vars
      PROVE  [\A r \in Requests : req[r].at = "invoking" /\ req'[r].at = "asked"
                => req[r].epoch = deactivations[req[r].user]]_vars
  <2>1. ASSUME Next, NEW r \in Requests, req[r].at = "invoking", req'[r].at = "asked"
        PROVE  req[r].epoch = deactivations[req[r].user]
    <3>1. InvocationReturns(r)
      BY <1>1, <2>1, NextMoves DEF Moves, InductiveInv
    <3>2. loop = None /\ r \notin cancelled /\ req[r].user \in Users
      BY <1>1, <2>1, <3>1 DEF InvocationReturns, InductiveInv, QueueInv, InLine, Holding
    <3> QED BY <1>1, <2>1, <3>2, NoneAssumption DEF InductiveInv, CancelInv
  <2>2. CASE Next
    BY <2>1, <2>2
  <2> QED BY <1>1, <2>2
<1> QED BY <1>1, Inductive, PTL DEF Spec, NoTurnAcrossDeactivation

\* Every step of the worker is one of TurnLog on the checkpoint and the
\* transcript, or leaves both alone.
LEMMA StepRefines ==
  ASSUME InductiveInv, Next
  PROVE  [Log!Next]_<<remembered, transcript>>
<1> USE DEF InductiveInv
<1>1. ASSUME NEW r \in Requests, SaveCheckpoint(r)
      PROVE  \E t \in Threads : Log!Remember(t, r)
  <2>1. req[r].thread \in Threads /\ UNCHANGED transcript
    BY <1>1, OwnThread DEF SaveCheckpoint, Holding, durable
  <2>2. \A t \in Threads : r \notin ToSet(remembered[t])
    <3> SUFFICES ASSUME NEW t \in Threads, NEW i \in DOMAIN remembered[t], remembered[t][i] = r
                 PROVE  FALSE
      BY DEF ToSet
    <3>1. req[r].thread = t
      BY DEF MemoryInv
    <3> QED BY <1>1, <3>1 DEF SaveCheckpoint, ToSet
  <2>3. Log!Remember(req[r].thread, r)
    BY <1>1, <2>1, <2>2 DEF SaveCheckpoint, Log!Remember, ToSet, Log!ToSet
  <2> QED BY <2>1, <2>3
<1>2. ASSUME NEW r \in Requests, InvocationReturns(r)
      PROVE  \E t \in Threads : Log!Ask(t, r)
  <2> DEFINE t == req[r].thread
  <2>1. t \in Threads /\ req[r].at = "invoking" /\ remembered' = remembered
    BY <1>2, OwnThread DEF InvocationReturns, Holding
  <2>2. PICK i \in DOMAIN remembered[t] : remembered[t][i] = r
    BY <1>2 DEF InvocationReturns, ToSet
  <2>3. i = Len(remembered[t]) /\ remembered[t] \in Seq(Requests)
    BY <2>1, <2>2 DEF MemoryInv, Holding, TypeOK
  <2>4. remembered[t] # <<>> /\ r = Last(remembered[t])
    BY <2>2, <2>3 DEF Last
  <2>5. Log!Question(r) \notin ToSet(transcript[t])
    <3> SUFFICES ASSUME NEW k \in DOMAIN transcript[t], transcript[t][k] = Log!Question(r)
                 PROVE  FALSE
      BY DEF ToSet
    <3> QED BY <2>1 DEF TranscriptInv, Log!Question
  <2>6. transcript' = [transcript EXCEPT ![t] = Append(@, Log!Question(r))]
    BY <1>2 DEF InvocationReturns, AppendTo, Log!Question
  <2>7. Log!Ask(t, r)
    BY <2>1, <2>4, <2>5, <2>6 DEF Log!Ask, Last, Log!Last, ToSet, Log!ToSet
  <2> QED BY <2>1, <2>7
<1>3. ASSUME NEW r \in Requests, AppendReply(r)
      PROVE  \E t \in Threads : Log!Reply(t, r)
  <2> DEFINE t == req[r].thread
  <2>1. t \in Threads /\ req[r].at = "asked" /\ remembered' = remembered
    BY <1>3, OwnThread DEF AppendReply, Holding
  <2>2. remembered[t] # <<>> /\ r = Last(remembered[t])
    BY <2>1 DEF MemoryInv
  <2>3. transcript[t] # <<>> /\ Last(transcript[t]) = Log!Question(r)
    BY <2>1 DEF TranscriptInv
  <2>4. transcript' = [transcript EXCEPT ![t] = Append(@, Log!Answer(r))]
    BY <1>3 DEF AppendReply, AppendTo, Log!Answer
  <2>5. Log!Reply(t, r)
    BY <2>1, <2>2, <2>3, <2>4 DEF Log!Reply, Last, Log!Last
  <2> QED BY <2>1, <2>5
<1>4. CASE \A r \in Requests : ~SaveCheckpoint(r) /\ ~InvocationReturns(r) /\ ~AppendReply(r)
  BY <1>4, NextWrites
<1> QED BY <1>1, <1>2, <1>3, <1>4 DEF Log!Next

\* The worker of main.py implements the promise of a conversation: whatever
\* fails, is cancelled or crashes, the transcript grows by whole turns of the
\* newest question the model remembers, each once.
THEOREM Refinement == Spec => ImplementsTurnLog
<1>1. Init => Log!Init
  BY DEF Init, Log!Init
<1>2. ASSUME InductiveInv, [Next]_vars
      PROVE  [Log!Next]_<<remembered, transcript>>
  <2>1. CASE UNCHANGED vars
    BY <2>1 DEF vars, durable
  <2> QED BY <1>2, <2>1, StepRefines
<1> QED BY <1>1, <1>2, Inductive, PTL DEF Spec, ImplementsTurnLog, Log!Spec
=============================================================================
