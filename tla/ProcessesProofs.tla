-------------------------- MODULE ProcessesProofs --------------------------
(***************************************************************************)
(* Proofs about Processes, for any number of processes, threads and        *)
(* managers: what is recorded and reported of a process is truthful, and   *)
(* the manager that started it can stop it.                                *)
(*                                                                         *)
(* The threads write metadata.json without a lock, and what keeps it       *)
(* truthful is that each thread carries a truthful status from the moment  *)
(* it has one (HeldInv), which no step of another thread or of the         *)
(* operating system can make untrue: a dead process stays dead.            *)
(***************************************************************************)
EXTENDS Processes, TLAPS

USE NoneAssumption, MaxManagersAssumption
    DEF NoneAssumption, MaxManagersAssumption, Statuses, Over, Managers

\* What is true of a process remains true while its fate is the same.
LEMMA TruthStays ==
  ASSUME UNCHANGED OS, NEW p \in Procs, NEW status \in Statuses, Truthful(p, status)
  PROVE  Truthful(p, status)'
BY DEF OS, Truthful

\* A step of one thread, or of none, leaves the others' calls as they were.
LEMMA OthersStay ==
  ASSUME InductiveInv, UNCHANGED OS, UNCHANGED starter,
         \A q \in Procs : meta[q] # "absent" => meta'[q] # "absent",
         NEW d \in Callers, call'[d] = call[d]
  PROVE  PointInv(d)' /\ HeldInv(d)'
BY DEF InductiveInv, PointInv, HeldInv, Truthful, OS

\* A write_text of a status that is truthful leaves truthful metadata: the
\* status, the empty file, or a text that is not JSON.
LEMMA WriteIsTruthful ==
  ASSUME InductiveInv, NEW p \in Procs, NEW status \in Statuses, UNCHANGED OS,
         Truthful(p, status), proc[p] # "unborn",
         Truncate(p) \/ WriteStatus(p, status)
  PROVE  /\ meta' \in [Procs -> {"absent", "empty", "corrupt"} \cup Statuses]
         /\ MetaInv' /\ meta'[p] # "absent"
         /\ \A q \in Procs : meta[q] # "absent" => meta'[q] # "absent"
BY DEF InductiveInv, TypeOK, MetaInv, Truthful, Truncate, WriteStatus, OS

\* The fields of a call in progress.
LEMMA CallFields ==
  ASSUME InductiveInv, NEW c \in Callers, call[c].at # "idle"
  PROVE  /\ call[c].p \in Procs /\ proc[call[c].p] # "unborn"
         /\ call[c].m \in Managers /\ call[c].status \in Statuses
         /\ call[c].op \in {"start", "look", "stop", "kill"}
BY DEF InductiveInv, TypeOK, PointInv

\* Who is not about to write, or has failed to, leaves the files as they are.
LEMMA FilesStay ==
  ASSUME InductiveInv, NEW c \in Callers, UNCHANGED <<OS, meta>>, unsaved \subseteq unsaved',
         \A d \in Callers \ {c} : call'[d] = call[d],
         call[c].at \in {"create", "describe", "write"} => call[c].p \in unsaved'
  PROVE  FileInv'
<1> SUFFICES ASSUME NEW p \in Procs \ unsaved', proc[p] = "running"
             PROVE  /\ meta[p] # "corrupt"
                    /\ \/ meta[p] = "running"
                       \/ \E d \in Callers :
                            call'[d].at \in {"create", "describe", "write"} /\ call'[d].p = p
  BY DEF FileInv, OS
<1>1. /\ meta[p] # "corrupt"
      /\ \/ meta[p] = "running"
         \/ \E d \in Callers :
              call[d].at \in {"create", "describe", "write"} /\ call[d].p = p
  BY DEF InductiveInv, FileInv
<1> QED BY <1>1

\* The writers of a running process all write that it runs, over an empty file
\* or the same text; what is written of a dead one is not asked for.
LEMMA FilesWritten ==
  ASSUME InductiveInv, NEW c \in Callers, call[c].at # "idle", UNCHANGED <<OS, unsaved>>,
         \A d \in Callers \ {c} : call'[d] = call[d],
         NEW status \in Statuses, Truthful(call[c].p, status),
         \/ /\ Truncate(call[c].p) /\ call'[c].p = call[c].p
            /\ call'[c].at \in {"describe", "write"}
         \/ /\ WriteStatus(call[c].p, status)
            /\ call[c].at # "create"
         \/ /\ Truncate(call[c].p)
            /\ proc[call[c].p] # "running"
  PROVE  FileInv'
<1> DEFINE q == call[c].p
<1>1. q \in Procs /\ q = call[c].p
  BY CallFields
<1> HIDE DEF q
<1> SUFFICES ASSUME NEW p \in Procs \ unsaved, proc[p] = "running"
             PROVE  /\ meta'[p] # "corrupt"
                    /\ \/ meta'[p] = "running"
                       \/ \E d \in Callers :
                            call'[d].at \in {"create", "describe", "write"} /\ call'[d].p = p
  BY DEF FileInv, OS
<1>2. /\ meta[p] # "corrupt"
      /\ \/ meta[p] = "running"
         \/ \E d \in Callers :
              call[d].at \in {"create", "describe", "write"} /\ call[d].p = p
  BY DEF InductiveInv, FileInv
<1>3. CASE p # q
  <2>1. meta'[p] = meta[p]
    BY <1>1, <1>3 DEF Truncate, WriteStatus, InductiveInv, TypeOK
  <2> QED BY <1>1, <1>2, <1>3, <2>1
<1>4. CASE p = q
  <2>1. CASE Truncate(call[c].p) /\ call'[c].p = call[c].p
             /\ call'[c].at \in {"describe", "write"}
    <3>1. meta'[p] = "empty"
      BY <1>1, <1>4, <2>1 DEF Truncate, InductiveInv, TypeOK
    <3> QED BY <1>1, <1>4, <2>1, <3>1
  <2>2. CASE WriteStatus(call[c].p, status) /\ call[c].at # "create"
    <3>1. status = "running"
      BY <1>1, <1>4 DEF Truthful
    <3>2. meta[p] # "absent"
      BY <1>1, <1>4, <2>2 DEF InductiveInv, PointInv
    <3>3. meta[p] \in {"empty", "running"}
      BY <1>2, <3>2 DEF InductiveInv, TypeOK, MetaInv, Truthful
    <3>4. meta'[p] = "running"
      BY <1>1, <1>4, <2>2, <3>1, <3>3 DEF WriteStatus, InductiveInv, TypeOK
    <3> QED BY <3>4
  <2>3. CASE Truncate(call[c].p) /\ proc[call[c].p] # "running"
    BY <1>1, <1>4, <2>3
  <2> QED BY <2>1, <2>2, <2>3
<1> QED BY <1>3, <1>4

\* The manager starts without processes, metadata and calls.
LEMMA InitInv == Init => InductiveInv
BY DEF Init, InductiveInv, TypeOK, NoCall, MetaInv, Truthful, ListedInv, FileInv,
       PointInv, HeldInv

-----------------------------------------------------------------------------
(* A step of one thread.                                                   *)

\* Popen and BeginCall: a thread enters the manager.
LEMMA EnterInv ==
  ASSUME InductiveInv, NEW c \in Callers, NEW p \in Procs,
         \/ Popen(c, p)
         \/ \E op \in {"look", "stop", "kill"} : BeginCall(c, p, op)
  PROVE  InductiveInv'
<1> TypeOK /\ MetaInv /\ ListedInv /\ FileInv /\ call[c].at = "idle" /\ PointInv(c)
  BY DEF InductiveInv, Popen, BeginCall
<1>1. CASE Popen(c, p)
  <2>1. TypeOK'
    BY <1>1 DEF Popen, TypeOK, NoCall
  <2>2. MetaInv'
    BY <1>1 DEF Popen, TypeOK, MetaInv, Truthful
  <2>3. ListedInv'
    BY <1>1 DEF Popen, TypeOK, ListedInv, NoCall, PointInv
  <2>4. FileInv'
    <3>1. meta[p] = "absent"
      BY <1>1 DEF Popen, MetaInv
    <3> QED BY <1>1, <3>1 DEF Popen, TypeOK, FileInv, NoCall
  <2>5. ASSUME NEW d \in Callers PROVE PointInv(d)' /\ HeldInv(d)'
    <3>1. CASE d = c
      BY <1>1, <3>1 DEF Popen, TypeOK, NoCall, PointInv, HeldInv, Truthful
    <3>2. CASE d # c
      <4>1. call'[d] = call[d] /\ (call[d].at # "idle" => call[d].p # p)
        BY <1>1, <3>2, CallFields DEF Popen, TypeOK
      <4>2. PointInv(d) /\ HeldInv(d)
        BY DEF InductiveInv
      <4> QED BY <1>1, <4>1, <4>2 DEF Popen, TypeOK, PointInv, HeldInv, Truthful
    <3> QED BY <3>1, <3>2
  <2> QED BY <2>1, <2>2, <2>3, <2>4, <2>5 DEF InductiveInv
<1>2. CASE \E op \in {"look", "stop", "kill"} : BeginCall(c, p, op)
  <2>1. PICK op \in {"look", "stop", "kill"} : BeginCall(c, p, op)
    BY <1>2
  <2>2. Alive(p) \in BOOLEAN
    BY DEF Alive
  <2> DEFINE entered == [NoCall EXCEPT !.at = "load", !.op = op, !.p = p,
                                       !.m = manager, !.alive = Alive(p)]
  <2>3. /\ entered.at = "load" /\ entered.op = op /\ entered.p = p
        /\ entered.m = manager /\ entered.status = "running"
        /\ entered \in [at : {"load"}, op : {op}, p : {p}, m : {manager},
                        status : {"running"}, alive : BOOLEAN]
    BY <2>2 DEF NoCall
  <2>4. call' = [call EXCEPT ![c] = entered] /\ UNCHANGED <<OS, meta, Books>>
    BY <2>1 DEF BeginCall
  <2> HIDE DEF entered
  <2>5. TypeOK'
    BY <2>2, <2>3, <2>4 DEF TypeOK, OS, Books
  <2>6. MetaInv' /\ ListedInv'
    BY <2>3, <2>4 DEF TypeOK, MetaInv, Truthful, ListedInv, OS, Books, PointInv
  <2>7. FileInv'
    BY <2>4, FilesStay DEF TypeOK, OS, Books
  <2>8. ASSUME NEW d \in Callers PROVE PointInv(d)' /\ HeldInv(d)'
    <3>1. CASE d = c
      <4>1. proc[p] # "unborn" /\ meta[p] # "absent"
        BY <2>1 DEF BeginCall, MetaInv
      <4> QED BY <2>3, <2>4, <3>1, <4>1
         DEF TypeOK, MetaInv, PointInv, HeldInv, Truthful, OS, Books
    <3>2. CASE d # c
      BY <2>3, <2>4, <3>2, OthersStay DEF TypeOK, Books
    <3> QED BY <3>1, <3>2
  <2> QED BY <2>5, <2>6, <2>7, <2>8 DEF InductiveInv
<1> QED BY <1>1, <1>2

\* What a step of thread c has to show for the invariant to be kept.
LEMMA OneThread ==
  ASSUME InductiveInv, NEW c \in Callers, UNCHANGED <<OS, manager, starter>>,
         \A d \in Callers \ {c} : call'[d] = call[d],
         \A q \in Procs : meta[q] # "absent" => meta'[q] # "absent",
         TypeOK', MetaInv', FileInv', PointInv(c)', HeldInv(c)', unsaved \subseteq unsaved',
         \A p \in Procs :
           proc[p] = "running" /\ <<starter[p], p>> \in live => <<starter[p], p>> \in live',
         call[c].op = "start"
           => \/ call'[c].op = "start" /\ call'[c].p = call[c].p
              \/ <<starter[call[c].p], call[c].p>> \in live'
              \/ call[c].p \in unsaved'
  PROVE  InductiveInv'
<1>1. ListedInv'
  BY DEF InductiveInv, ListedInv, OS
<1>2. \A d \in Callers : PointInv(d)' /\ HeldInv(d)'
  BY OthersStay
<1> QED BY <1>1, <1>2 DEF InductiveInv

\* The rest of start.
LEMMA StartInv ==
  ASSUME InductiveInv, NEW c \in Callers,
         CreateMetadata(c) \/ WriteMetadata(c) \/ Register(c)
  PROVE  InductiveInv'
<1> /\ TypeOK /\ MetaInv /\ PointInv(c) /\ HeldInv(c) /\ call[c].op = "start"
    /\ call[c].p \in Procs /\ proc[call[c].p] # "unborn" /\ call[c].m \in Managers
  BY DEF InductiveInv, TypeOK, PointInv, CreateMetadata, WriteMetadata, Register
<1>1. CASE CreateMetadata(c) \/ WriteMetadata(c)
  <2>1. /\ UNCHANGED <<OS, Books>>
        /\ Truncate(call[c].p) \/ WriteStatus(call[c].p, "running")
        /\ \E at \in {"describe", "register"} : call' = [call EXCEPT ![c].at = at]
    BY <1>1 DEF CreateMetadata, WriteMetadata, Goto
  <2>2. Truthful(call[c].p, "running")
    BY DEF Truthful
  <2>3. TypeOK' /\ MetaInv' /\ meta'[call[c].p] # "absent"
    BY <2>1, <2>2, WriteIsTruthful DEF TypeOK, OS, Books
  <2>4. PointInv(c)' /\ HeldInv(c)'
    BY <1>1, <2>1, <2>3
       DEF TypeOK, PointInv, HeldInv, Truthful, OS, Books, CreateMetadata, WriteMetadata
  <2>5. call'[c].op = "start" /\ call'[c].p = call[c].p
    BY <2>1 DEF TypeOK
  <2>6. \A d \in Callers \ {c} : call'[d] = call[d]
    BY <2>1 DEF TypeOK
  <2>7. FileInv'
    <3>1. CASE CreateMetadata(c)
      BY <2>1, <2>2, <2>5, <2>6, <3>1, FilesWritten
         DEF CreateMetadata, Goto, TypeOK, Books
    <3>2. CASE WriteMetadata(c)
      BY <2>1, <2>2, <2>6, <3>2, FilesWritten DEF WriteMetadata, Books
    <3> QED BY <1>1, <3>1, <3>2
  <2>8. \A q \in Procs : meta[q] # "absent" => meta'[q] # "absent"
    BY <2>1, <2>2, WriteIsTruthful
  <2> QED BY <2>1, <2>3, <2>4, <2>5, <2>6, <2>7, <2>8, OneThread DEF Books
<1>2. CASE Register(c)
  <2>1. UNCHANGED <<OS, meta, manager, starter, unsaved>> /\ call' = [call EXCEPT ![c] = NoCall]
    BY <1>2 DEF Register, End
  <2>2. live' = live \cup {<<starter[call[c].p], call[c].p>>}
    BY <1>2 DEF Register, PointInv
  <2>3. TypeOK'
    BY <2>1, <2>2 DEF TypeOK, NoCall, OS
  <2>4. MetaInv' /\ PointInv(c)' /\ HeldInv(c)'
    BY <2>1 DEF TypeOK, NoCall, OS, MetaInv, Truthful, PointInv, HeldInv
  <2>5. FileInv'
    BY <1>2, <2>1, FilesStay DEF Register, TypeOK
  <2> QED BY <2>1, <2>2, <2>3, <2>4, <2>5, OneThread DEF TypeOK
<1> QED BY <1>1, <1>2

\* _sync_live_state, and the return of a call.
LEMMA SyncInv ==
  ASSUME InductiveInv, NEW c \in Callers,
         \/ LoadFails(c) \/ LoadMetadata(c) \/ Lookup(c) \/ Poll(c) \/ Pop(c)
         \/ OpenMetadata(c) \/ SaveMetadata(c) \/ Return(c)
  PROVE  InductiveInv'
<1> /\ TypeOK /\ MetaInv /\ PointInv(c) /\ HeldInv(c)
    /\ call[c].at \in {"load", "lookup", "poll", "pop", "open", "write", "return"}
    /\ call[c].op \in {"look", "stop", "kill"}
  BY DEF InductiveInv, TypeOK, PointInv, LoadFails, LoadMetadata, Lookup, Poll, Pop,
         OpenMetadata, SaveMetadata, Return
<1>1. /\ call[c].p \in Procs /\ proc[call[c].p] # "unborn" /\ call[c].m \in Managers
      /\ call[c].status \in Statuses /\ Truthful(call[c].p, call[c].status)
  BY CallFields DEF HeldInv
<1>2. CASE LoadFails(c) \/ Return(c)
  <2>1. UNCHANGED <<OS, meta, Books>> /\ call' = [call EXCEPT ![c] = NoCall]
    BY <1>2 DEF LoadFails, Return, End
  <2>2. TypeOK'
    BY <2>1 DEF TypeOK, NoCall, OS, Books
  <2>3. MetaInv' /\ PointInv(c)' /\ HeldInv(c)'
    BY <2>1 DEF TypeOK, NoCall, OS, Books, MetaInv, Truthful, PointInv, HeldInv
  <2>4. FileInv'
    BY <1>2, <2>1, <2>2, FilesStay DEF LoadFails, Return, TypeOK, Books
  <2> QED BY <2>1, <2>2, <2>3, <2>4, OneThread DEF TypeOK, Books
<1>3. CASE LoadMetadata(c) \/ Lookup(c) \/ Poll(c)
  <2>1. UNCHANGED <<OS, meta, Books>>
    BY <1>3 DEF LoadMetadata, Lookup, Poll
  <2>2. PICK at \in {"lookup", "poll", "find", "return", "open", "pop"}, status \in Statuses :
          /\ call' = [call EXCEPT ![c].at = at, ![c].status = status]
          /\ Truthful(call[c].p, status)
          /\ at = "pop" => proc[call[c].p] = "gone"
    <3>1. CASE LoadMetadata(c)
      BY <1>1, <3>1 DEF LoadMetadata, MetaInv
    <3>2. CASE Lookup(c)
      <4>1. call' = [call EXCEPT ![c].at = call'[c].at, ![c].status = call[c].status]
        BY <3>2 DEF Lookup, Goto, TypeOK
      <4>2. call'[c].at \in {"poll", "find", "return"}
        BY <3>2 DEF Lookup, Goto, TypeOK, AfterSync
      <4> QED BY <1>1, <4>1, <4>2
    <3>3. CASE Poll(c)
      <4>1. CASE proc[call[c].p] \in {"running", "draining"}
        <5>1. call' = [call EXCEPT ![c].status = "running", ![c].at = "open"]
          BY <3>3, <4>1 DEF Poll
        <5>2. call' = [call EXCEPT ![c].at = "open", ![c].status = "running"]
          BY <5>1 DEF TypeOK
        <5> QED BY <4>1, <5>2 DEF Truthful
      <4>2. CASE proc[call[c].p] = "gone" /\ exit[call[c].p] = "ok"
        <5>1. call' = [call EXCEPT ![c].status = "completed", ![c].at = "pop"]
          BY <3>3, <4>2 DEF Poll
        <5>2. call' = [call EXCEPT ![c].at = "pop", ![c].status = "completed"]
          BY <5>1 DEF TypeOK
        <5> QED BY <4>2, <5>2 DEF Truthful
      <4>3. CASE proc[call[c].p] = "gone" /\ exit[call[c].p] # "ok"
        <5>1. call' = [call EXCEPT ![c].status = "failed", ![c].at = "pop"]
          BY <3>3, <4>3 DEF Poll
        <5>2. call' = [call EXCEPT ![c].at = "pop", ![c].status = "failed"]
          BY <5>1 DEF TypeOK
        <5> QED BY <4>3, <5>2 DEF Truthful
      <4> QED BY <1>1, <4>1, <4>2, <4>3 DEF TypeOK
    <3> QED BY <1>3, <3>1, <3>2, <3>3
  <2>3. TypeOK'
    <3> DEFINE moved == [call[c] EXCEPT !.at = at, !.status = status]
    <3>1. call' = [call EXCEPT ![c] = moved]
      BY <2>2 DEF TypeOK
    <3>2. call[c] \in [at : {call[c].at}, op : {"look", "stop", "kill"}, p : Procs,
                       m : Managers, status : Statuses, alive : BOOLEAN]
      BY <1>1 DEF TypeOK
    <3>3. moved \in [at : {at}, op : {"look", "stop", "kill"}, p : Procs,
                     m : Managers, status : Statuses, alive : BOOLEAN]
      BY <3>2
    <3> HIDE DEF moved
    <3> QED BY <2>1, <3>1, <3>3 DEF TypeOK, OS, Books
  <2>4. MetaInv' /\ PointInv(c)' /\ HeldInv(c)'
    BY <1>1, <2>1, <2>2 DEF TypeOK, OS, Books, MetaInv, Truthful, PointInv, HeldInv
  <2>5. FileInv'
    BY <1>3, <2>1, <2>2, FilesStay DEF LoadMetadata, Lookup, Poll, TypeOK, Books
  <2> QED BY <2>1, <2>2, <2>3, <2>4, <2>5, OneThread DEF TypeOK, Books
<1>4. CASE Pop(c)
  <2>1. /\ UNCHANGED <<OS, meta, manager, starter, unsaved>>
        /\ live' = live \ {<<call[c].m, call[c].p>>} /\ proc[call[c].p] = "gone"
        /\ call' = [call EXCEPT ![c].at = "open"]
    BY <1>4 DEF Pop, Forget, Goto, HeldInv
  <2>2. TypeOK'
    BY <2>1 DEF TypeOK, OS
  <2>3. MetaInv' /\ PointInv(c)' /\ HeldInv(c)'
    BY <1>1, <2>1 DEF TypeOK, OS, MetaInv, Truthful, PointInv, HeldInv
  <2>4. FileInv'
    BY <1>4, <2>1, <2>2, FilesStay DEF Pop, TypeOK, Books
  <2> QED BY <2>1, <2>2, <2>3, <2>4, OneThread DEF TypeOK
<1>5. CASE OpenMetadata(c) \/ SaveMetadata(c)
  <2>1. /\ UNCHANGED <<OS, Books>>
        /\ Truncate(call[c].p) \/ WriteStatus(call[c].p, call[c].status)
    BY <1>5 DEF OpenMetadata, SaveMetadata
  <2>2. PICK at \in {"write", "find", "return"} : call' = [call EXCEPT ![c].at = at]
    BY <1>5 DEF OpenMetadata, SaveMetadata, Goto, AfterSync
  <2>3. /\ TypeOK' /\ MetaInv' /\ meta'[call[c].p] # "absent"
        /\ \A q \in Procs : meta[q] # "absent" => meta'[q] # "absent"
    BY <1>1, <2>1, <2>2, WriteIsTruthful DEF TypeOK, OS, Books
  <2>4. PointInv(c)' /\ HeldInv(c)'
    BY <1>1, <2>1, <2>2, <2>3 DEF TypeOK, OS, Books, Truthful, PointInv, HeldInv
  <2>5. FileInv'
    <3>1. CASE OpenMetadata(c)
      <4>1. Truncate(call[c].p) /\ call'[c].p = call[c].p /\ call'[c].at = "write"
        BY <3>1 DEF OpenMetadata, Goto, TypeOK
      <4> QED BY <1>1, <2>1, <2>2, <4>1, FilesWritten DEF TypeOK, Books
    <3>2. CASE SaveMetadata(c)
      <4>1. WriteStatus(call[c].p, call[c].status) /\ call[c].at = "write"
        BY <3>2 DEF SaveMetadata
      <4> QED BY <1>1, <2>1, <2>2, <4>1, FilesWritten DEF TypeOK, Books
    <3> QED BY <1>5, <3>1, <3>2
  <2> QED BY <2>1, <2>2, <2>3, <2>4, <2>5, OneThread DEF TypeOK, Books
<1> QED BY <1>2, <1>3, <1>4, <1>5

\* The second half of stop, from the second look into _live.
LEMMA StopInv ==
  ASSUME InductiveInv, NEW c \in Callers,
         \/ FindLive(c) \/ WaitReturns(c) \/ WaitTimesOut(c) \/ Unlist(c)
         \/ ReopenMetadata(c) \/ RewriteMetadata(c)
  PROVE  InductiveInv'
<1> /\ TypeOK /\ MetaInv /\ PointInv(c) /\ HeldInv(c)
    /\ call[c].at \in {"find", "wait", "unlist", "reopen", "rewrite"}
    /\ call[c].op \in {"look", "stop", "kill"}
  BY DEF InductiveInv, TypeOK, PointInv, FindLive, WaitReturns, WaitTimesOut, Unlist,
         ReopenMetadata, RewriteMetadata
<1>1. /\ call[c].p \in Procs /\ proc[call[c].p] # "unborn" /\ call[c].m \in Managers
      /\ call[c].status \in Statuses
  BY CallFields
<1>2. CASE FindLive(c) \/ WaitReturns(c)
  <2>1. UNCHANGED <<OS, meta, Books>>
    BY <1>2 DEF FindLive, WaitReturns
  <2>2. PICK at \in {"return", "wait", "unlist"}, status \in Statuses :
          /\ call' = [call EXCEPT ![c].at = at, ![c].status = status]
          /\ at # "wait" => Truthful(call[c].p, status)
          /\ at = "wait" => status \in {"stopped", "killed"}
          /\ at = "unlist" => proc[call[c].p] \in {"draining", "gone"}
    <3>1. CASE FindLive(c)
      <4>1. Truthful(call[c].p, call[c].status)
        BY <3>1 DEF FindLive, HeldInv
      <4>2. CASE <<call[c].m, call[c].p>> \notin live
        <5>1. call' = [call EXCEPT ![c].at = "return", ![c].status = call[c].status]
          BY <3>1, <4>2 DEF FindLive, Goto, TypeOK
        <5> QED BY <1>1, <4>1, <5>1
      <4>3. CASE <<call[c].m, call[c].p>> \in live
        BY <3>1, <4>3 DEF FindLive
      <4> QED BY <4>2, <4>3
    <3>2. CASE WaitReturns(c)
      <4>1. call' = [call EXCEPT ![c].at = "unlist", ![c].status = call[c].status]
        BY <3>2 DEF WaitReturns, Goto, TypeOK
      <4>2. call[c].status \in {"stopped", "killed"} /\ proc[call[c].p] \in {"draining", "gone"}
        BY <3>2 DEF WaitReturns, HeldInv
      <4> QED BY <1>1, <4>1, <4>2 DEF Truthful
    <3> QED BY <1>2, <3>1, <3>2
  <2>3. TypeOK'
    <3> DEFINE moved == [call[c] EXCEPT !.at = at, !.status = status]
    <3>1. call' = [call EXCEPT ![c] = moved]
      BY <2>2 DEF TypeOK
    <3>2. call[c] \in [at : {call[c].at}, op : {"look", "stop", "kill"}, p : Procs,
                       m : Managers, status : Statuses, alive : BOOLEAN]
      BY <1>1 DEF TypeOK
    <3>3. moved \in [at : {at}, op : {"look", "stop", "kill"}, p : Procs,
                     m : Managers, status : Statuses, alive : BOOLEAN]
      BY <3>2
    <3> HIDE DEF moved
    <3> QED BY <2>1, <3>1, <3>3 DEF TypeOK, OS, Books
  <2>4. MetaInv' /\ PointInv(c)' /\ HeldInv(c)'
    BY <1>1, <2>1, <2>2 DEF TypeOK, OS, Books, MetaInv, Truthful, PointInv, HeldInv
  <2>5. FileInv'
    BY <1>2, <2>1, <2>2, FilesStay DEF FindLive, WaitReturns, TypeOK, Books
  <2> QED BY <2>1, <2>2, <2>3, <2>4, <2>5, OneThread DEF TypeOK, Books
<1>3. CASE WaitTimesOut(c)
  <2>1. UNCHANGED <<OS, meta, Books>> /\ call' = [call EXCEPT ![c] = NoCall]
    BY <1>3 DEF WaitTimesOut, End
  <2>2. TypeOK'
    BY <2>1 DEF TypeOK, NoCall, OS, Books
  <2>3. MetaInv' /\ PointInv(c)' /\ HeldInv(c)'
    BY <2>1 DEF TypeOK, NoCall, OS, Books, MetaInv, Truthful, PointInv, HeldInv
  <2>4. FileInv'
    BY <1>3, <2>1, <2>2, FilesStay DEF WaitTimesOut, TypeOK, Books
  <2> QED BY <2>1, <2>2, <2>3, <2>4, OneThread DEF TypeOK, Books
<1>4. CASE Unlist(c)
  <2>1. /\ UNCHANGED <<OS, meta, manager, starter, unsaved>>
        /\ live' = live \ {<<call[c].m, call[c].p>>}
        /\ proc[call[c].p] \in {"draining", "gone"}
        /\ call' = [call EXCEPT ![c].at = "reopen"]
    BY <1>4 DEF Unlist, Forget, Goto, HeldInv
  <2>2. TypeOK'
    BY <2>1 DEF TypeOK, OS
  <2>3. MetaInv' /\ PointInv(c)' /\ HeldInv(c)'
    BY <1>1, <1>4, <2>1 DEF TypeOK, OS, MetaInv, Truthful, PointInv, HeldInv, Unlist
  <2>4. FileInv'
    BY <1>4, <2>1, <2>2, FilesStay DEF Unlist, TypeOK, Books
  <2> QED BY <2>1, <2>2, <2>3, <2>4, OneThread DEF TypeOK
<1>5. CASE ReopenMetadata(c) \/ RewriteMetadata(c)
  <2>1. /\ UNCHANGED <<OS, Books>>
        /\ Truncate(call[c].p) \/ WriteStatus(call[c].p, call[c].status)
        /\ call[c].at \in {"reopen", "rewrite"}
    BY <1>5 DEF ReopenMetadata, RewriteMetadata
  <2>2. PICK at \in {"rewrite", "return"} : call' = [call EXCEPT ![c].at = at]
    BY <1>5 DEF ReopenMetadata, RewriteMetadata, Goto
  <2>3. Truthful(call[c].p, call[c].status) /\ proc[call[c].p] \in {"draining", "gone"}
    BY <2>1 DEF HeldInv
  <2>4. /\ TypeOK' /\ MetaInv' /\ meta'[call[c].p] # "absent"
        /\ \A q \in Procs : meta[q] # "absent" => meta'[q] # "absent"
    BY <1>1, <2>1, <2>2, <2>3, WriteIsTruthful DEF TypeOK, OS, Books
  <2>5. PointInv(c)' /\ HeldInv(c)'
    BY <1>1, <2>1, <2>2, <2>3, <2>4 DEF TypeOK, OS, Books, Truthful, PointInv, HeldInv
  <2>6. FileInv'
    BY <1>1, <2>1, <2>2, <2>3, FilesWritten DEF TypeOK, Books
  <2> QED BY <2>1, <2>2, <2>4, <2>5, <2>6, OneThread DEF TypeOK, Books
<1> QED BY <1>2, <1>3, <1>4, <1>5

\* A write that fails ends the call, and the process is not asked for any more.
LEMMA DiskInv ==
  ASSUME InductiveInv, NEW c \in Callers, DiskFails(c)
  PROVE  InductiveInv'
<1> /\ TypeOK /\ MetaInv /\ FileInv /\ PointInv(c) /\ HeldInv(c)
    /\ call[c].p \in Procs /\ proc[call[c].p] # "unborn"
  BY DEF InductiveInv, DiskFails, PointInv
<1>1. /\ UNCHANGED <<OS, live, manager, starter>> /\ call' = [call EXCEPT ![c] = NoCall]
      /\ unsaved' = unsaved \cup {call[c].p}
      /\ \/ UNCHANGED meta
         \/ meta' = [meta EXCEPT ![call[c].p] = "corrupt"]
  BY DEF DiskFails, End
<1>2. TypeOK'
  BY <1>1 DEF TypeOK, NoCall, OS
<1>3. MetaInv' /\ \A q \in Procs : meta[q] # "absent" => meta'[q] # "absent"
  BY <1>1 DEF TypeOK, OS, MetaInv, Truthful
<1>4. PointInv(c)' /\ HeldInv(c)'
  BY <1>1 DEF TypeOK, NoCall, PointInv, HeldInv
<1>5. \A d \in Callers \ {c} : call'[d] = call[d]
  BY <1>1 DEF TypeOK
<1>6. FileInv'
  <2>1. \A p \in Procs \ unsaved' : meta'[p] = meta[p] /\ p # call[c].p /\ p \in Procs \ unsaved
    BY <1>1 DEF TypeOK
  <2> QED BY <1>1, <1>5, <2>1 DEF FileInv, OS
<1> QED BY <1>1, <1>2, <1>3, <1>4, <1>5, <1>6, OneThread

-----------------------------------------------------------------------------
(* The operating system, and what replaces the manager.                    *)

\* A process that dies, by itself or by SIGKILL, makes nothing untrue.
LEMMA DeathInv ==
  ASSUME InductiveInv, NEW p \in Procs, NEW code \in {"ok", "bad"},
         UNCHANGED <<meta, Books, call>>,
         \/ /\ proc[p] = "running" /\ proc' = [proc EXCEPT ![p] = "draining"]
            /\ exit' = [exit EXCEPT ![p] = code]
         \/ Drain(p)
  PROVE  InductiveInv'
<1> TypeOK /\ MetaInv /\ ListedInv /\ FileInv
  BY DEF InductiveInv
<1>1. TypeOK'
  BY DEF TypeOK, Drain, Books
<1>2. \A q \in Procs :
        /\ proc'[q] = "running" => proc[q] = "running"
        /\ proc[q] # "unborn" => proc'[q] # "unborn"
        /\ proc[q] = "gone" => proc'[q] = "gone"
        /\ proc[q] \in {"draining", "gone"} => proc'[q] \in {"draining", "gone"}
        /\ \A status : Truthful(q, status) => Truthful(q, status)'
  BY DEF TypeOK, Drain, Truthful
<1>3. MetaInv' /\ ListedInv' /\ FileInv'
  BY <1>2 DEF MetaInv, ListedInv, FileInv, Books
<1>4. ASSUME NEW d \in Callers PROVE PointInv(d)' /\ HeldInv(d)'
  <2>1. PointInv(d) /\ HeldInv(d)
    BY DEF InductiveInv
  <2> QED BY <1>2, <2>1 DEF PointInv, HeldInv, Books
<1> QED BY <1>1, <1>3, <1>4 DEF InductiveInv

\* A new manager leaves calls and processes as they are; a restart ends both.
LEMMA ReplaceInv ==
  ASSUME InductiveInv, ReplaceRuntime \/ Restart
  PROVE  InductiveInv'
<1> TypeOK /\ MetaInv /\ ListedInv /\ FileInv
  BY DEF InductiveInv
<1>1. CASE ReplaceRuntime
  <2>1. TypeOK'
    BY <1>1 DEF ReplaceRuntime, TypeOK, OS
  <2>2. MetaInv' /\ ListedInv' /\ FileInv'
    BY <1>1 DEF ReplaceRuntime, OS, MetaInv, ListedInv, FileInv, Truthful
  <2>3. \A d \in Callers : PointInv(d)' /\ HeldInv(d)'
    BY <1>1, OthersStay DEF ReplaceRuntime
  <2> QED BY <2>1, <2>2, <2>3 DEF InductiveInv
<1>2. CASE Restart
  <2>1. TypeOK'
    BY <1>2 DEF Restart, TypeOK, NoCall
  <2>2. MetaInv'
    BY <1>2 DEF Restart, TypeOK, MetaInv, Truthful
  <2>3. ListedInv' /\ FileInv'
    BY <1>2 DEF Restart, TypeOK, ListedInv, FileInv
  <2>4. \A d \in Callers : PointInv(d)' /\ HeldInv(d)'
    BY <1>2 DEF Restart, PointInv, HeldInv, NoCall
  <2> QED BY <2>1, <2>2, <2>3, <2>4 DEF InductiveInv
<1> QED BY <1>1, <1>2

\* Every step preserves the invariant.
LEMMA NextInv == InductiveInv /\ [Next]_vars => InductiveInv'
<1> SUFFICES ASSUME InductiveInv, [Next]_vars PROVE InductiveInv'
  OBVIOUS
<1>1. ASSUME NEW c \in Callers, Step(c) PROVE InductiveInv'
  BY <1>1, StartInv, SyncInv, StopInv DEF Step
<1>2. ASSUME NEW c \in Callers, DieOfKill(c) PROVE InductiveInv'
  <2>1. call[c].p \in Procs
    BY <1>2, CallFields DEF DieOfKill
  <2> QED BY <1>2, <2>1, DeathInv DEF DieOfKill
<1>3. ASSUME NEW p \in Procs, Exit(p) \/ Drain(p) PROVE InductiveInv'
  BY <1>3, DeathInv DEF Exit, Drain
<1>4. CASE UNCHANGED vars
  <2>1. TypeOK' /\ MetaInv' /\ ListedInv' /\ FileInv'
    BY <1>4 DEF vars, InductiveInv, TypeOK, MetaInv, ListedInv, FileInv, Truthful
  <2>2. \A d \in Callers : PointInv(d)' /\ HeldInv(d)'
    BY <1>4, OthersStay DEF vars, OS
  <2> QED BY <2>1, <2>2 DEF InductiveInv
<1> QED BY <1>1, <1>2, <1>3, <1>4, EnterInv, DiskInv, ReplaceInv DEF Next

\* The invariant holds in every state, however many threads are in the manager
\* and however often it is replaced.
THEOREM Inductive == Spec => []InductiveInv
BY InitInv, NextInv, PTL DEF Spec

\* Neither metadata.json nor an answer calls a process over while it runs, nor
\* completed when it failed, for any number of threads without a lock.
THEOREM StatusTruthful == Spec => []OverIsOver
<1>1. InductiveInv => OverIsOver
  BY DEF InductiveInv, MetaInv, HeldInv, OverIsOver
<1> QED BY <1>1, Inductive, PTL

\* The manager that started a process can stop it for as long as it runs, unless
\* a write of metadata.json failed: the process is listed and the file is whole.
THEOREM Stoppable == Spec => []StaysStoppable
<1>1. InductiveInv => StaysStoppable
  <2> SUFFICES ASSUME InductiveInv, NEW p \in Procs \ unsaved, proc[p] = "running",
                      \A c \in Callers : ~(call[c].op = "start" /\ call[c].p = p)
               PROVE  /\ <<starter[p], p>> \in live
                      /\ \/ meta[p] = "running"
                         \/ \E c \in Callers : call[c].at = "write" /\ call[c].p = p
    BY DEF StaysStoppable
  <2>1. <<starter[p], p>> \in live
    BY DEF InductiveInv, ListedInv
  <2>2. meta[p] = "running" \/ \E c \in Callers : call[c].at = "write" /\ call[c].p = p
    BY DEF InductiveInv, FileInv, PointInv
  <2> QED BY <2>1, <2>2
<1> QED BY <1>1, Inductive, PTL
=============================================================================
