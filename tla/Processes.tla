----------------------------- MODULE Processes -----------------------------
(***************************************************************************)
(* The background processes of one user: BackgroundProcessManager of       *)
(* agent_api/processes.py, the threads that call it (HTTP routes and agent *)
(* tools, none of them under the user's lock) and the operating system's   *)
(* processes.                                                              *)
(*                                                                         *)
(* A call goes through the points where another thread can come between:   *)
(* the read of metadata.json, the look into _live, the poll, the pop, and  *)
(* the two halves of a write_text, which first empties the file.           *)
(***************************************************************************)
EXTENDS Naturals, FiniteSets

CONSTANTS
  Procs,        \* the guids uuid4 can return for a process
  Callers,      \* the threads that can be inside the manager at once
  MaxManagers,  \* bound on the managers that follow one another
  None          \* no process

ASSUME NoneAssumption == None \notin Procs
ASSUME MaxManagersAssumption == MaxManagers \in Nat

VARIABLES
  proc,     \* what the operating system has of each process
  exit,     \* exit[p]: "ok" for return code 0
  meta,     \* the status in metadata.json, or what a broken write left
  live,     \* <<m, p>>: manager m has p in _live
  manager,  \* the manager of the user's present runtime
  starter,  \* starter[p]: the manager that started p
  unsaved,  \* those of which a write of metadata.json has failed
  call      \* the call each thread is in

vars == <<proc, exit, meta, live, manager, starter, unsaved, call>>

Over     == {"completed", "failed", "stopped", "killed"}
Statuses == Over \cup {"running"}
Managers == 0..MaxManagers

-----------------------------------------------------------------------------

\* status is the call's own copy of the metadata; alive says that the process,
\* or its output, had not ended when the call began.
NoCall == [at |-> "idle", op |-> "none", p |-> None, m |-> 0,
           status |-> "running", alive |-> FALSE]

TypeOK ==
  /\ proc \in [Procs -> {"unborn", "running", "draining", "gone"}]
  /\ exit \in [Procs -> {"ok", "bad"}]
  /\ meta \in [Procs -> {"absent", "empty", "corrupt"} \cup Statuses]
  /\ live \subseteq Managers \X Procs
  /\ manager \in Managers
  /\ starter \in [Procs -> Managers]
  /\ unsaved \subseteq Procs
  /\ call \in [Callers ->
       [at : {"idle", "create", "describe", "register", "load", "lookup", "poll",
              "pop", "open", "write", "return", "find", "wait", "unlist",
              "reopen", "rewrite"},
        op : {"none", "start", "look", "stop", "kill"},
        p : Procs \cup {None}, m : Managers, status : Statuses, alive : BOOLEAN]]

Init ==
  /\ proc = [p \in Procs |-> "unborn"]
  /\ exit = [p \in Procs |-> "ok"]
  /\ meta = [p \in Procs |-> "absent"]
  /\ live = {}
  /\ manager = 0
  /\ starter = [p \in Procs |-> 0]
  /\ unsaved = {}
  /\ call = [c \in Callers |-> NoCall]

Goto(c, point) == call' = [call EXCEPT ![c].at = point]

End(c) == call' = [call EXCEPT ![c] = NoCall]

OS    == <<proc, exit>>
Books == <<live, manager, starter, unsaved>>

-----------------------------------------------------------------------------
(* write_text: the file is emptied, then written from its start.  A second *)
(* writer that emptied it before the first one wrote goes over the first   *)
(* one's text, and leaves the end of it if its own is shorter.             *)

Truncate(p) == meta' = [meta EXCEPT ![p] = "empty"]

WriteStatus(p, status) ==
  \/ meta' = [meta EXCEPT ![p] = status]
  \/ /\ meta[p] \notin {"empty", status}
     /\ meta' = [meta EXCEPT ![p] = "corrupt"]

-----------------------------------------------------------------------------
(* start *)

Popen(c, p) ==
  /\ call[c].at = "idle"
  /\ proc[p] = "unborn"
  /\ proc' = [proc EXCEPT ![p] = "running"]
  /\ starter' = [starter EXCEPT ![p] = manager]
  /\ call' = [call EXCEPT ![c] = [NoCall EXCEPT !.at = "create", !.op = "start",
                                                !.p = p, !.m = manager]]
  /\ UNCHANGED <<exit, meta, live, manager, unsaved>>

CreateMetadata(c) ==
  /\ call[c].at = "create"
  /\ Truncate(call[c].p)
  /\ Goto(c, "describe")
  /\ UNCHANGED <<OS, Books>>

WriteMetadata(c) ==
  /\ call[c].at = "describe"
  /\ WriteStatus(call[c].p, "running")
  /\ Goto(c, "register")
  /\ UNCHANGED <<OS, Books>>

Register(c) ==
  /\ call[c].at = "register"
  /\ live' = live \cup {<<call[c].m, call[c].p>>}
  /\ End(c)
  /\ UNCHANGED <<OS, meta, manager, starter, unsaved>>

-----------------------------------------------------------------------------
(* _sync_live_state: get, read_output, each process of a list, and the     *)
(* first half of stop.                                                     *)

Alive(p) == proc[p] \in {"running", "draining"}

BeginCall(c, p, op) ==
  /\ call[c].at = "idle"
  /\ meta[p] # "absent"
  /\ call' = [call EXCEPT ![c] = [NoCall EXCEPT !.at = "load", !.op = op, !.p = p,
                                                !.m = manager, !.alive = Alive(p)]]
  /\ UNCHANGED <<OS, meta, Books>>

\* json.loads of an empty or overwritten file raises: status 400 or 500.
LoadFails(c) ==
  /\ call[c].at = "load"
  /\ meta[call[c].p] \in {"empty", "corrupt"}
  /\ End(c)
  /\ UNCHANGED <<OS, meta, Books>>

LoadMetadata(c) ==
  /\ call[c].at = "load"
  /\ meta[call[c].p] \in Statuses
  /\ call' = [call EXCEPT ![c].at = "lookup", ![c].status = meta[call[c].p]]
  /\ UNCHANGED <<OS, meta, Books>>

\* Where a call goes when its _sync_live_state returns.
AfterSync(c) == IF call[c].op = "look" THEN "return" ELSE "find"

Lookup(c) ==
  /\ call[c].at = "lookup"
  /\ Goto(c, IF <<call[c].m, call[c].p>> \in live THEN "poll" ELSE AfterSync(c))
  /\ UNCHANGED <<OS, meta, Books>>

\* poll(), and a join of the output threads that can time out.
Poll(c) ==
  /\ call[c].at = "poll"
  /\ \/ /\ proc[call[c].p] \in {"running", "draining"}
        /\ call' = [call EXCEPT ![c].status = "running", ![c].at = "open"]
     \/ /\ proc[call[c].p] = "gone"
        /\ call' = [call EXCEPT ![c].status = IF exit[call[c].p] = "ok" THEN "completed"
                                              ELSE "failed",
                                ![c].at = "pop"]
  /\ UNCHANGED <<OS, meta, Books>>

Forget(c) == live' = live \ {<<call[c].m, call[c].p>>}

Pop(c) ==
  /\ call[c].at = "pop"
  /\ Forget(c)
  /\ Goto(c, "open")
  /\ UNCHANGED <<OS, meta, manager, starter, unsaved>>

OpenMetadata(c) ==
  /\ call[c].at = "open"
  /\ Truncate(call[c].p)
  /\ Goto(c, "write")
  /\ UNCHANGED <<OS, Books>>

SaveMetadata(c) ==
  /\ call[c].at = "write"
  /\ WriteStatus(call[c].p, call[c].status)
  /\ Goto(c, AfterSync(c))
  /\ UNCHANGED <<OS, Books>>

\* The caller gets call[c].status.
Return(c) ==
  /\ call[c].at = "return"
  /\ End(c)
  /\ UNCHANGED <<OS, meta, Books>>

-----------------------------------------------------------------------------
(* The second half of stop.                                                *)

FindLive(c) ==
  /\ call[c].at = "find"
  /\ \/ /\ <<call[c].m, call[c].p>> \notin live
        /\ Goto(c, "return")
     \/ /\ <<call[c].m, call[c].p>> \in live
        /\ call' = [call EXCEPT ![c].at = "wait",
                                ![c].status = IF call[c].op = "kill" THEN "killed" ELSE "stopped"]
  /\ UNCHANGED <<OS, meta, Books>>

\* A stop that writes what it wants without waiting for it.
WaitForNobody(c) ==
  /\ call[c].at = "wait"
  /\ Goto(c, "unlist")
  /\ UNCHANGED <<OS, meta, Books>>

WaitReturns(c) ==
  /\ call[c].at = "wait"
  /\ proc[call[c].p] \in {"draining", "gone"}
  /\ Goto(c, "unlist")
  /\ UNCHANGED <<OS, meta, Books>>

\* wait() without a timeout, and a finally clause that pops the entry.
WaitForEver(c) == call[c].at = "wait" /\ UNCHANGED vars

WaitTimesOutForgetting(c) ==
  /\ call[c].at = "wait" /\ call[c].op = "stop"
  /\ proc[call[c].p] = "running"
  /\ Forget(c)
  /\ End(c)
  /\ UNCHANGED <<OS, meta, manager, starter, unsaved>>

\* SIGTERM is ignored for ten seconds: TimeoutExpired leaves the call, and
\* the entry in _live and the file as they are.
WaitTimesOut(c) ==
  /\ call[c].at = "wait" /\ call[c].op = "stop"
  /\ proc[call[c].p] = "running"
  /\ End(c)
  /\ UNCHANGED <<OS, meta, Books>>

Unlist(c) ==
  /\ call[c].at = "unlist"
  /\ Forget(c)
  /\ Goto(c, "reopen")
  /\ UNCHANGED <<OS, meta, manager, starter, unsaved>>

ReopenMetadata(c) ==
  /\ call[c].at = "reopen"
  /\ Truncate(call[c].p)
  /\ Goto(c, "rewrite")
  /\ UNCHANGED <<OS, Books>>

RewriteMetadata(c) ==
  /\ call[c].at = "rewrite"
  /\ WriteStatus(call[c].p, call[c].status)
  /\ Goto(c, "return")
  /\ UNCHANGED <<OS, Books>>

\* The disk refuses to open the file, or a part of the text: write_text raises,
\* and so does the call.  A start leaves its process running, and unlisted.
DiskFails(c) ==
  /\ call[c].at \in {"create", "describe", "open", "write", "reopen", "rewrite"}
  /\ \/ UNCHANGED meta
     \/ /\ call[c].at \in {"describe", "write", "rewrite"}
        /\ meta' = [meta EXCEPT ![call[c].p] = "corrupt"]
  /\ unsaved' = unsaved \cup {call[c].p}
  /\ End(c)
  /\ UNCHANGED <<OS, live, manager, starter>>

-----------------------------------------------------------------------------
(* The operating system, and what replaces the manager.                    *)

\* By itself, or by the signal of a stop, which it may also handle first.
Exit(p) ==
  /\ proc[p] = "running"
  /\ proc' = [proc EXCEPT ![p] = "draining"]
  /\ \E code \in {"ok", "bad"} : exit' = [exit EXCEPT ![p] = code]
  /\ UNCHANGED <<meta, Books, call>>

\* SIGKILL leaves no choice.
DieOfKill(c) ==
  /\ call[c].at = "wait" /\ call[c].op = "kill"
  /\ proc[call[c].p] = "running"
  /\ proc' = [proc EXCEPT ![call[c].p] = "draining"]
  /\ exit' = [exit EXCEPT ![call[c].p] = "bad"]
  /\ UNCHANGED <<meta, Books, call>>

\* Both _stream_output threads have read the end of their pipe.
Drain(p) ==
  /\ proc[p] = "draining"
  /\ proc' = [proc EXCEPT ![p] = "gone"]
  /\ UNCHANGED <<exit, meta, Books, call>>

\* cancel_user_tasks drops the runtime: the next request makes a new manager,
\* calls in progress go on with the old one, processes run on.
ReplaceRuntime ==
  /\ manager < MaxManagers
  /\ manager' = manager + 1
  /\ UNCHANGED <<OS, meta, live, starter, unsaved, call>>

\* A restart: bubblewrap's --die-with-parent takes the processes along.
Restart ==
  /\ manager < MaxManagers
  /\ manager' = manager + 1
  /\ proc' = [p \in Procs |-> IF proc[p] = "unborn" THEN "unborn" ELSE "gone"]
  /\ exit' = [p \in Procs |-> IF proc[p] = "running" THEN "bad" ELSE exit[p]]
  /\ live' = {}
  /\ call' = [c \in Callers |-> NoCall]
  /\ UNCHANGED <<meta, starter, unsaved>>

-----------------------------------------------------------------------------

Step(c) ==
  \/ CreateMetadata(c) \/ WriteMetadata(c) \/ Register(c)
  \/ LoadFails(c) \/ LoadMetadata(c) \/ Lookup(c) \/ Poll(c) \/ Pop(c)
  \/ OpenMetadata(c) \/ SaveMetadata(c) \/ Return(c)
  \/ FindLive(c) \/ WaitReturns(c) \/ WaitTimesOut(c) \/ Unlist(c)
  \/ ReopenMetadata(c) \/ RewriteMetadata(c)

Next ==
  \/ \E c \in Callers :
       \/ \E p \in Procs : Popen(c, p)
       \/ \E p \in Procs, op \in {"look", "stop", "kill"} : BeginCall(c, p, op)
       \/ Step(c) \/ DiskFails(c) \/ DieOfKill(c)
  \/ \E p \in Procs : Exit(p) \/ Drain(p)
  \/ ReplaceRuntime \/ Restart

Spec == Init /\ [][Next]_vars

\* Threads run, a killed process dies, pipes of a dead process end.
FairSpec ==
  /\ Spec
  /\ \A c \in Callers : WF_vars(Step(c)) /\ WF_vars(DieOfKill(c))
  /\ \A p \in Procs : WF_vars(Drain(p))

-----------------------------------------------------------------------------
(* Properties.                                                             *)

\* Neither metadata.json nor an answer calls a process over while it runs,
\* nor completed when it failed, whatever calls are mixed: stop waits before it
\* writes, and a wait that times out writes nothing.
Truthful(p, status) ==
  /\ status \in Over => proc[p] \in {"draining", "gone"}
  /\ status = "completed" => exit[p] = "ok"

OverIsOver ==
  /\ \A p \in Procs : Truthful(p, meta[p])
  /\ \A c \in Callers : call[c].at = "return" => Truthful(call[c].p, call[c].status)

\* As long as a process runs, its start has not ended or the manager that started
\* it can stop it: no concurrent look or stop has taken it from _live, and
\* metadata.json, which a stop reads first, can be read or is being written.
\* Only a write of the file that failed takes this away.
StaysStoppable ==
  \A p \in Procs \ unsaved :
    proc[p] = "running"
      => \/ \E c \in Callers : call[c].op = "start" /\ call[c].p = p
         \/ /\ <<starter[p], p>> \in live
            /\ \/ meta[p] = "running"
               \/ \E c \in Callers : call[c].at = "write" /\ call[c].p = p

\* Every call ends, a stop of a process that ignores SIGTERM too.
EveryCallEnds ==
  \A c \in Callers : call[c].at # "idle" ~> call[c].at = "idle"

\* The tool says that it lists the processes and their current status: one
\* that is reported as running ran at some moment of the call.
StatusIsCurrent ==
  \A c \in Callers : call[c].at = "return" /\ call[c].status = "running" => call[c].alive

-----------------------------------------------------------------------------
(* The inductive invariant.                                                *)

\* Only a process that was started has metadata, and these are truthful.
MetaInv ==
  \A p \in Procs :
    /\ meta[p] # "absent" => proc[p] # "unborn"
    /\ Truthful(p, meta[p])

\* A process that runs is in _live, or its start has yet to put it there.
ListedInv ==
  \A p \in Procs \ unsaved :
    proc[p] = "running"
      => \/ <<starter[p], p>> \in live
         \/ \E c \in Callers : call[c].op = "start" /\ call[c].p = p

\* Its metadata are whole, or somebody is about to write them.
FileInv ==
  \A p \in Procs \ unsaved :
    proc[p] = "running"
      => /\ meta[p] # "corrupt"
         /\ \/ meta[p] = "running"
            \/ \E c \in Callers :
                 call[c].at \in {"create", "describe", "write"} /\ call[c].p = p

\* Where a call is tells what it does, and for a process of which manager.
PointInv(c) ==
  /\ call[c].at = "idle" <=> call[c].op = "none"
  /\ call[c].at \in {"create", "describe", "register"} <=> call[c].op = "start"
  /\ call[c].at # "idle" => call[c].p \in Procs /\ proc[call[c].p] # "unborn"
  /\ call[c].op = "start" => call[c].m = starter[call[c].p]
  /\ call[c].at \notin {"idle", "create"} => meta[call[c].p] # "absent"

\* What a call holds is truthful, but for the status a stop is about to write
\* while it waits; an entry of _live is taken out once the process is dead.
HeldInv(c) ==
  /\ call[c].at \notin {"idle", "wait"} => Truthful(call[c].p, call[c].status)
  /\ call[c].at = "wait" => call[c].status \in {"stopped", "killed"}
  /\ call[c].at = "pop" => proc[call[c].p] = "gone"
  /\ call[c].at \in {"unlist", "reopen", "rewrite"}
       => proc[call[c].p] \in {"draining", "gone"}

InductiveInv ==
  /\ TypeOK /\ MetaInv /\ ListedInv /\ FileInv
  /\ \A c \in Callers : PointInv(c) /\ HeldInv(c)
=============================================================================
