----------------------------- MODULE AgentTurns -----------------------------
(***************************************************************************)
(* The conversations of agent_api/main.py in its one worker process: an    *)
(* asyncio event loop that runs require_user, post_thread_message and      *)
(* update_user, and the thread pool that runs create_thread.               *)
(*                                                                         *)
(* What runs on the loop between two awaits is one step, or a few steps    *)
(* during which `loop` names who occupies it: the thread pool and a crash  *)
(* can come in between, no other coroutine can.  A request is the turn it  *)
(* asks for, so each is used once.                                         *)
(***************************************************************************)
EXTENDS Naturals, SequencesExt

CONSTANTS
  Users,             \* the accounts
  Threads,           \* the guids uuid4 can return for a new conversation
  Requests,          \* the requests that will arrive
  MaxDeactivations,  \* bound on the deactivations of one account
  None               \* no user, no request

ASSUME NoneAssumption == None \notin Users \cup Requests
ASSUME DisjointAssumption == Users \cap Requests = {}
ASSUME MaxDeactivationsAssumption == MaxDeactivations \in Nat

VARIABLES
  active,         \* accounts with is_active in the database
  deactivations,  \* deactivations[u]: how often u has been deactivated
  info,           \* <thread>.json: owner, the turn of the title and the preview
  transcript,     \* <thread>.jsonl
  remembered,     \* the turns in the checkpoint of thread user_id:thread_id
  registry,       \* users with an entry in app.state.runtime_registry
  queue,          \* USER_LOCKS[u]: the holder, then the waiters in order
  tasks,          \* USER_ACTIVE_TASKS[u]
  cancelled,      \* tasks whose cancel() has not been delivered yet
  loop,           \* the request or user whose handler occupies the event loop
  req             \* the state of each request

durable == <<active, deactivations, info, transcript, remembered>>
runtime == <<registry, queue, tasks, cancelled, loop>>
vars    == <<durable, runtime, req>>

-----------------------------------------------------------------------------

Ended   == {"ok", "refused", "failed", "cancelled", "lost"}
Holding == {"invoking", "asked", "answered"}

NoThread == [owner |-> None, title |-> None, preview |-> None]

New == [at |-> "new", user |-> None, thread |-> None, title |-> None, epoch |-> 0]

Points == {"new", "create", "indexing", "queued"} \cup Holding \cup Ended

State == [at : Points, user : Users \cup {None}, thread : Threads \cup {None},
          title : Requests \cup {None}, epoch : Nat]

ThreadInfo == [owner : Users \cup {None}, title : Requests \cup {None},
               preview : Requests \cup {None}]

TypeOK ==
  /\ active \subseteq Users
  /\ deactivations \in [Users -> Nat]
  /\ info \in [Threads -> ThreadInfo]
  /\ transcript \in [Threads -> Seq([role : {"user", "assistant"}, turn : Requests])]
  /\ remembered \in [Threads -> Seq(Requests)]
  /\ registry \subseteq Users
  /\ queue \in [Users -> Seq(Requests)]
  /\ tasks \in [Users -> SUBSET Requests]
  /\ cancelled \subseteq Requests
  /\ loop \in Users \cup Requests \cup {None}
  /\ req \in [Requests -> State]

Init ==
  /\ active = Users
  /\ deactivations = [u \in Users |-> 0]
  /\ info = [t \in Threads |-> NoThread]
  /\ transcript = [t \in Threads |-> <<>>]
  /\ remembered = [t \in Threads |-> <<>>]
  /\ registry = {}
  /\ queue = [u \in Users |-> <<>>]
  /\ tasks = [u \in Users |-> {}]
  /\ cancelled = {}
  /\ loop = None
  /\ req = [r \in Requests |-> New]

Goto(r, point) == req' = [req EXCEPT ![r].at = point]

-----------------------------------------------------------------------------
(* create_thread, in the thread pool.  get_runtime creates the runtime     *)
(* under RUNTIME_LOCK and looks it up again after releasing it.            *)

\* require_user on the loop: the account is active now.  t is the guid that
\* uuid4 is going to return, one that nobody has.
AdmitCreate(r, u, t) ==
  /\ req[r].at = "new" /\ loop = None
  /\ u \in active
  /\ info[t].owner = None
  /\ \A q \in Requests : req[q].at \in {"create", "indexing"} => req[q].thread # t
  /\ req' = [req EXCEPT ![r] = [New EXCEPT !.at = "create", !.user = u, !.thread = t]]
  /\ UNCHANGED <<durable, runtime>>

CreateRuntime(r) ==
  /\ req[r].at = "create"
  /\ registry' = registry \cup {req[r].user}
  /\ Goto(r, "indexing")
  /\ UNCHANGED <<durable, queue, tasks, cancelled, loop>>

\* cancel_user_tasks popped the runtime in between: a KeyError, status 500.
RuntimeGone(r) ==
  /\ req[r].at = "indexing"
  /\ req[r].user \notin registry
  /\ Goto(r, "failed")
  /\ UNCHANGED <<durable, runtime>>

EnsureThread(r) ==
  /\ req[r].at = "indexing"
  /\ req[r].user \in registry
  /\ info' = [info EXCEPT ![req[r].thread].owner = req[r].user]
  /\ Goto(r, "ok")
  /\ UNCHANGED <<active, deactivations, transcript, remembered, runtime>>

-----------------------------------------------------------------------------
(* post_thread_message, on the event loop.  require_user, with its query,  *)
(* runs on the loop as well and nothing is awaited between the two, so the *)
(* account is active when the handler gets as far as the lock.             *)

\* The handler up to the user lock: the runtime, then the thread's metadata
\* (404), the attachments and the schema (400, 404, 415, 422).
RefuseMessage(r, u) ==
  /\ req[r].at = "new" /\ loop = None
  /\ u \in active
  /\ registry' = registry \cup {u}
  /\ Goto(r, "refused")
  /\ UNCHANGED <<durable, queue, tasks, cancelled, loop>>

\* One lock per conversation, and no lock at all.
LockFreeOfThread(u, t) == \A q \in ToSet(queue[u]) : req[q].thread # t

NoLock(u, t) == TRUE

\* asyncio.Lock is free for a newcomer only while nobody holds it or waits.
LockFree(u, t) == queue[u] = <<>>

\* The metadata read before the wait for the lock, of a thread without title.
InvokingWithEarlierInfo(r, u, t) ==
  [at |-> "invoking", user |-> u, thread |-> t, title |-> None, epoch |-> deactivations[u]]

\* A request whose invocation starts: the metadata is read again under the
\* lock.
Invoking(r, u, t) ==
  [at |-> "invoking", user |-> u, thread |-> t, title |-> info[t].title,
   epoch |-> deactivations[u]]

\* The first statements under the lock: the task becomes one that a
\* deactivation cancels.
BeginInvocation(r, u, t) ==
  /\ tasks' = [tasks EXCEPT ![u] = @ \cup {r}]
  /\ req' = [req EXCEPT ![r] = Invoking(r, u, t)]

EnterLock(r, u, t) ==
  /\ req[r].at = "new" /\ loop = None
  /\ u \in active
  /\ info[t].owner = u
  /\ registry' = registry \cup {u}
  /\ queue' = [queue EXCEPT ![u] = Append(@, r)]
  /\ \/ /\ LockFree(u, t)
        /\ BeginInvocation(r, u, t)
     \/ /\ ~LockFree(u, t)
        /\ req' = [req EXCEPT ![r] = [New EXCEPT !.at = "queued", !.user = u, !.thread = t]]
        /\ UNCHANGED tasks
  /\ UNCHANGED <<durable, cancelled, loop>>

\* release() wakes the first waiter.
AcquireLock(r) ==
  /\ req[r].at = "queued" /\ loop = None
  /\ r = Head(queue[req[r].user])
  /\ BeginInvocation(r, req[r].user, req[r].thread)
  /\ UNCHANGED <<durable, registry, queue, cancelled, loop>>

\* A lock released only after a turn that ended well.
LeaveLocked(r, outcome) ==
  /\ queue' = IF outcome = "ok" THEN [queue EXCEPT ![req[r].user] = Tail(@)] ELSE queue
  /\ tasks' = [tasks EXCEPT ![req[r].user] = @ \ {r}]
  /\ cancelled' = cancelled \ {r}
  /\ loop' = None
  /\ Goto(r, outcome)
  /\ UNCHANGED registry

\* The coroutine leaves the async with block and ends at `outcome`.
Leave(r, outcome) ==
  /\ queue' = [queue EXCEPT ![req[r].user] = Tail(@)]
  /\ tasks' = [tasks EXCEPT ![req[r].user] = @ \ {r}]
  /\ cancelled' = cancelled \ {r}
  /\ loop' = None
  /\ Goto(r, outcome)
  /\ UNCHANGED registry

\* The graph saves the incoming message before its first node runs.
SaveCheckpoint(r) ==
  /\ req[r].at = "invoking" /\ loop = None
  /\ r \notin ToSet(remembered[req[r].thread])
  /\ remembered' = [remembered EXCEPT ![req[r].thread] = Append(@, r)]
  /\ UNCHANGED <<active, deactivations, info, transcript, runtime, req>>

\* Any exception of the invocation: status 502.
InvocationFails(r) ==
  /\ req[r].at = "invoking" /\ loop = None
  /\ Leave(r, "failed")
  /\ UNCHANGED durable

\* CancelledError is no Exception: only the finally clause and the lock see it.
DeliverCancel(r) ==
  /\ req[r].at = "invoking" /\ loop = None
  /\ r \in cancelled
  /\ Leave(r, "cancelled")
  /\ UNCHANGED durable

AppendTo(r, role) ==
  transcript' = [transcript EXCEPT ![req[r].thread] =
                   Append(@, [role |-> role, turn |-> r])]

\* The invocation returns: the task is discarded and the question appended.
InvocationReturns(r) ==
  /\ req[r].at = "invoking" /\ loop = None
  /\ r \notin cancelled
  /\ r \in ToSet(remembered[req[r].thread])
  /\ AppendTo(r, "user")
  /\ tasks' = [tasks EXCEPT ![req[r].user] = @ \ {r}]
  /\ loop' = r
  /\ Goto(r, "asked")
  /\ UNCHANGED <<active, deactivations, info, remembered, registry, queue, cancelled>>

AppendReply(r) ==
  /\ req[r].at = "asked"
  /\ AppendTo(r, "assistant")
  /\ Goto(r, "answered")
  /\ UNCHANGED <<active, deactivations, info, remembered, runtime>>

\* Metadata written once, as ensure_thread does.
SaveInfoOnce(r) ==
  info' = IF req[r].title # None THEN info
          ELSE [info EXCEPT ![req[r].thread].title = r, ![req[r].thread].preview = r]

\* model_copy of the metadata read under the lock, temporary file, replace.
SaveInfo(r) ==
  info' = [info EXCEPT
             ![req[r].thread].title = IF req[r].title # None THEN req[r].title ELSE r,
             ![req[r].thread].preview = r]

FinishTurn(r) ==
  /\ req[r].at = "answered"
  /\ SaveInfo(r)
  /\ Leave(r, "ok")
  /\ UNCHANGED <<active, deactivations, transcript, remembered>>

\* An append or the save raises: status 500, and what is written stays.
WriteFails(r) ==
  /\ req[r].at \in {"asked", "answered"}
  /\ Leave(r, "failed")
  /\ UNCHANGED durable

-----------------------------------------------------------------------------
(* The administrator's update_user, on the event loop: the transaction of  *)
(* the repository, then cancel_user_tasks, with no await in between.       *)

Deactivate(u) ==
  /\ loop = None
  /\ deactivations[u] < MaxDeactivations
  /\ active' = active \ {u}
  /\ deactivations' = [deactivations EXCEPT ![u] = @ + 1]
  /\ loop' = u
  /\ UNCHANGED <<info, transcript, remembered, registry, queue, tasks, cancelled, req>>

\* A cancel_user_tasks that only drops the runtime.
ForgetRuntime(u) ==
  /\ loop = u
  /\ registry' = registry \ {u}
  /\ loop' = None
  /\ UNCHANGED <<durable, queue, tasks, cancelled, req>>

CancelUserTasks(u) ==
  /\ loop = u
  /\ cancelled' = cancelled \cup tasks[u]
  /\ registry' = registry \ {u}
  /\ loop' = None
  /\ UNCHANGED <<durable, queue, tasks, req>>

Reactivate(u) ==
  /\ loop = None
  /\ u \notin active
  /\ active' = active \cup {u}
  /\ UNCHANGED <<deactivations, info, transcript, remembered, runtime, req>>

\* The process ends and is restarted: the files and the database stay.
Crash ==
  /\ registry' = {}
  /\ queue' = [u \in Users |-> <<>>]
  /\ tasks' = [u \in Users |-> {}]
  /\ cancelled' = {}
  /\ loop' = None
  /\ req' = [r \in Requests |-> IF req[r].at \in Ended \cup {"new"} THEN req[r]
                                ELSE [req[r] EXCEPT !.at = "lost"]]
  /\ UNCHANGED durable

-----------------------------------------------------------------------------

\* What the worker does for a request it has admitted.
Step(r) ==
  \/ CreateRuntime(r) \/ RuntimeGone(r) \/ EnsureThread(r)
  \/ AcquireLock(r)
  \/ InvocationFails(r) \/ DeliverCancel(r) \/ InvocationReturns(r)
  \/ AppendReply(r) \/ FinishTurn(r) \/ WriteFails(r)

Next ==
  \/ \E r \in Requests :
       \/ \E u \in Users, t \in Threads : AdmitCreate(r, u, t) \/ EnterLock(r, u, t)
       \/ \E u \in Users : RefuseMessage(r, u)
       \/ SaveCheckpoint(r)
       \/ Step(r)
  \/ \E u \in Users : Deactivate(u) \/ CancelUserTasks(u) \/ Reactivate(u)
  \/ Crash

Spec == Init /\ [][Next]_vars

\* The loop runs every ready coroutine, the thread pool every job, and an
\* invocation ends: calls of the model time out, the graph has a recursion
\* limit and shell commands a timeout.
FairSpec ==
  /\ Spec
  /\ \A r \in Requests : SF_vars(Step(r))
  /\ \A u \in Users : WF_vars(CancelUserTasks(u))

-----------------------------------------------------------------------------
(* Properties.                                                             *)

\* A transcript only grows by whole turns of the newest question the model
\* remembers: the lock covers the invocation and both appends, so no other
\* turn comes between them, whatever is cancelled, fails or crashes.
Log == INSTANCE TurnLog WITH Turns <- Requests
ImplementsTurnLog == Log!Spec

\* One invocation, transcript and metadata cycle per user at a time, over all
\* of the user's conversations: they share a workspace.
OneTurnPerUser ==
  \A r, q \in Requests :
    /\ req[r].at \in Holding /\ req[q].at \in Holding
    /\ req[r].user = req[q].user
    => r = q

\* The title is the first message that was answered, and stays so when
\* several first messages are sent at once.
TitleStays ==
  [][\A t \in Threads : info[t].title # None => info'[t].title = info[t].title]_vars

\* The preview is an answer of the transcript, and no finished turn stands
\* behind it there: metadata of an older turn never overwrites a newer one.
PreviewIsNewest ==
  \A t \in Threads : \A i \in DOMAIN transcript[t] :
    /\ transcript[t][i].role = "assistant"
    /\ req[transcript[t][i].turn].at = "ok"
    => \E j \in i..Len(transcript[t]) : transcript[t][j] = Log!Answer(info[t].preview)

\* An invocation that was running when its user was deactivated never writes
\* a turn: the commit and the cancellation leave it no moment to return.
NoTurnAcrossDeactivation ==
  [][\A r \in Requests : req[r].at = "invoking" /\ req'[r].at = "asked"
       => req[r].epoch = deactivations[req[r].user]]_vars

\* Every admitted request ends: nobody waits for ever for the user's lock.
EveryRequestEnds ==
  \A r \in Requests : req[r].at \notin Ended \cup {"new"} ~> req[r].at \in Ended

\* The design document says a deactivation prevents new invocations; a request
\* that waits for the lock is no active task, and invokes after it.
NoInvocationWhenInactive ==
  [][\A r \in Requests : req[r].at # "invoking" /\ req'[r].at = "invoking"
       => req'[r].user \in active]_vars
-----------------------------------------------------------------------------
(* The inductive invariant behind the safety properties.                   *)

InLine == {"queued"} \cup Holding

\* USER_LOCKS[u] holds the requests of u that wait or hold, each once, and the
\* one that holds in front.
QueueInv ==
  /\ \A u \in Users :
       /\ \A i \in DOMAIN queue[u] :
            req[queue[u][i]].user = u /\ req[queue[u][i]].at \in InLine
       /\ \A i, j \in DOMAIN queue[u] : queue[u][i] = queue[u][j] => i = j
  /\ \A r \in Requests :
       /\ req[r].at \in InLine
            => req[r].user \in Users /\ \E i \in DOMAIN queue[req[r].user] : queue[req[r].user][i] = r
       /\ req[r].at \in Holding => queue[req[r].user][1] = r

\* A conversation that is being created is nobody's yet and nobody else's to
\* create, and only its owner's requests are under way in it.
OwnerInv ==
  /\ \A r \in Requests :
       /\ req[r].at \in {"create", "indexing"} =>
            /\ req[r].user \in Users /\ req[r].thread \in Threads
            /\ info[req[r].thread].owner = None
       /\ req[r].at \in InLine =>
            /\ req[r].thread \in Threads
            /\ info[req[r].thread].owner = req[r].user
  /\ \A r, q \in Requests :
       /\ req[r].at \in {"create", "indexing"} /\ req[q].at \in {"create", "indexing"}
       /\ req[r].thread = req[q].thread
       => r = q

\* A turn is remembered by its own conversation, and a turn under way is the
\* newest that is.
MemoryInv ==
  /\ \A t \in Threads : \A i \in DOMAIN remembered[t] :
       /\ req[remembered[t][i]].thread = t
       /\ req[remembered[t][i]].at \in Holding \cup {"ok", "failed", "cancelled", "lost"}
       /\ req[remembered[t][i]].at \in Holding => i = Len(remembered[t])
  /\ \A r \in Requests :
       req[r].at \in {"asked", "answered"} =>
         /\ remembered[req[r].thread] # <<>>
         /\ Last(remembered[req[r].thread]) = r

\* The transcript has turns of its own conversation that returned, and ends
\* with the one whose appends are under way.
TranscriptInv ==
  /\ \A t \in Threads : \A i \in DOMAIN transcript[t] :
       /\ req[transcript[t][i].turn].thread = t
       /\ req[transcript[t][i].turn].at \in {"asked", "answered", "ok", "failed", "lost"}
  /\ \A r \in Requests :
       /\ req[r].at = "asked" => /\ transcript[req[r].thread] # <<>>
                                /\ Last(transcript[req[r].thread]) = Log!Question(r)
       /\ req[r].at = "answered" => /\ transcript[req[r].thread] # <<>>
                                   /\ Last(transcript[req[r].thread]) = Log!Answer(r)

\* The metadata read under the lock is still that of the file.
TitleInv ==
  \A r \in Requests : req[r].at \in Holding => req[r].title = info[req[r].thread].title

\* An invocation is an active task of its user, and is cancelled, or about to
\* be, if the user was deactivated since it started; the loop is occupied from
\* its return to its end.
CancelInv ==
  \A r \in Requests :
    /\ req[r].at = "invoking" =>
         /\ r \in tasks[req[r].user]
         /\ \/ req[r].epoch = deactivations[req[r].user]
            \/ r \in cancelled
            \/ loop = req[r].user
    /\ req[r].at \in {"asked", "answered"} => loop = r

InductiveInv ==
  /\ TypeOK /\ QueueInv /\ OwnerInv /\ MemoryInv /\ TranscriptInv /\ TitleInv
  /\ CancelInv /\ PreviewIsNewest
=============================================================================
