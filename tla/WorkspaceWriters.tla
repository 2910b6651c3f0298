-------------------------- MODULE WorkspaceWriters --------------------------
(***************************************************************************)
(* Calls that write files of one directory of a workspace at the same      *)
(* time: upload_file of workspace_api/main.py, and write_bytes and         *)
(* write_text of agent_api/workspace.py.  Nothing locks the workspace; the *)
(* upload service and the agent are processes of their own, and either may *)
(* crash.                                                                  *)
(*                                                                         *)
(* A job is one call.  A job that makes a file makes it as an inode named  *)
(* after the job; content is a sequence of units, each marked with the job *)
(* that wrote it.  A name is bound to an inode, and a job that has a file  *)
(* open writes to the inode, whatever has become of the name.              *)
(***************************************************************************)
EXTENDS Integers, Sequences, FiniteSets, Functions

CONSTANTS
  Jobs,        \* the calls
  Names,       \* the file names they write to
  None,        \* no inode
  Sizes,       \* Sizes[k]: the sizes of what a call of kind k writes
  Quota,       \* quota_bytes, in units
  MaxCrashes   \* bound on the crashes

ASSUME NoneAssumption == None \notin Jobs
ASSUME FiniteAssumption == IsFiniteSet(Jobs) /\ IsFiniteSet(Names)

Kinds == {"upload", "bytes", "text"}

ASSUME SizesAssumption == Sizes \in [Kinds -> SUBSET (Nat \ {0})]
ASSUME BoundAssumption == Quota \in Nat /\ MaxCrashes \in Nat

VARIABLES
  name,     \* the inode each name is bound to
  temp,     \* the jobs whose temporary file is there
  data,     \* the content of each inode
  job,      \* the call each job is in
  overlap,  \* some step has been taken while another call was in flight
  crashes

vars == <<name, temp, data, job, overlap, crashes>>

\* existing and used are the figures the quota check goes by, inode the file a
\* write_text has open.
NoJob == [at |-> "idle", kind |-> "upload", to |-> None, size |-> 0, over |-> TRUE,
          existing |-> 0, used |-> 0, inode |-> None, ok |-> FALSE]

Stages == {"idle", "measure", "fill", "publish", "cleanup",
           "open", "write", "over", "crashed"}

TypeOK ==
  /\ name \in [Names -> Jobs \cup {None}]
  /\ temp \subseteq Jobs
  /\ data \in [Jobs -> Seq(Jobs)]
  /\ job \in [Jobs ->
       [at : Stages, kind : Kinds, to : Names \cup {None}, size : Nat,
        over : BOOLEAN, existing : Nat, used : Nat, inode : Jobs \cup {None},
        ok : BOOLEAN]]
  /\ overlap \in BOOLEAN
  /\ crashes \in 0..MaxCrashes

Init ==
  /\ name = [f \in Names |-> None]
  /\ temp = {}
  /\ data = [j \in Jobs |-> <<>>]
  /\ job = [j \in Jobs |-> NoJob]
  /\ overlap = FALSE
  /\ crashes = 0

-----------------------------------------------------------------------------

SizeAt(f) == IF name[f] = None THEN 0 ELSE Len(data[name[f]])

Published == SumFunctionOnSet([f \in Names |-> SizeAt(f)], Names)

\* used_bytes meets the temporary files too, and a linked file at both names.
Unpublished ==
  SumFunctionOnSet([j \in Jobs |-> IF j \in temp THEN Len(data[j]) ELSE 0], Jobs)

Used == Published + Unpublished

Active(j) == job[j].at \notin {"idle", "over", "crashed"}

Disturb(j) == overlap' = (overlap \/ \E i \in Jobs \ {j} : Active(i))

Become(j, call) == job' = [job EXCEPT ![j] = call] /\ Disturb(j)

Goto(j, stage) == Become(j, [job[j] EXCEPT !.at = stage])
End(j, good)   ==
  Become(j, [NoJob EXCEPT !.at = "over", !.ok = good, !.kind = job[j].kind,
                          !.size = job[j].size, !.inode = job[j].inode])

\* The file that would be replaced is looked at; without overwrite it is an
\* error that there is one.
Begin(j, kind, f, n, over) ==
  LET call == [NoJob EXCEPT !.kind = kind, !.to = f, !.size = n, !.over = over,
                            !.existing = SizeAt(f)]
  IN  /\ job[j].at = "idle"
      /\ kind = "upload" => over
      /\ IF name[f] # None /\ ~over
         THEN Become(j, [NoJob EXCEPT !.at = "over"])
         ELSE Become(j, [call EXCEPT !.at = "measure"])
      /\ UNCHANGED <<name, temp, data, crashes>>

\* check_quota measures and decides at once; an upload keeps the figure for its
\* chunks.  The temporary file has a name nobody else uses (O_CREAT | O_EXCL).
Measure(j) ==
  LET call == job[j]
      fits == Used - call.existing + call.size <= Quota
  IN  /\ call.at = "measure"
      /\ \/ /\ call.kind = "upload"
            /\ Become(j, [call EXCEPT !.at = "fill", !.used = Used])
            /\ temp' = temp \cup {j}
         \/ /\ call.kind = "bytes" /\ fits
            /\ Become(j, [call EXCEPT !.at = "fill", !.existing = 0])
            /\ temp' = temp \cup {j}
         \/ /\ call.kind = "text" /\ fits
            /\ Become(j, [call EXCEPT !.at = "open", !.existing = 0])
            /\ UNCHANGED temp
         \/ /\ call.kind # "upload" /\ ~fits
            /\ End(j, FALSE)
            /\ UNCHANGED temp
      /\ UNCHANGED <<name, data, crashes>>

\* The chunk counted after it is written.
ReadChunkLate(j) ==
  /\ job[j].at = "fill" /\ job[j].kind = "upload" /\ Len(data[j]) < job[j].size
  /\ IF job[j].used - job[j].existing + Len(data[j]) > Quota
     THEN Goto(j, "cleanup") /\ UNCHANGED data
     ELSE Goto(j, "fill") /\ data' = [data EXCEPT ![j] = Append(@, j)]
  /\ UNCHANGED <<name, temp, crashes>>

\* An upload takes a chunk at a time and compares with the figure it kept.
ReadChunk(j) ==
  LET total == Len(data[j]) + 1 IN
  /\ job[j].at = "fill" /\ job[j].kind = "upload" /\ Len(data[j]) < job[j].size
  /\ IF job[j].used - job[j].existing + total > Quota
     THEN Goto(j, "cleanup") /\ UNCHANGED data
     ELSE Goto(j, "fill") /\ data' = [data EXCEPT ![j] = Append(@, j)]
  /\ UNCHANGED <<name, temp, crashes>>

FillBytes(j) ==
  /\ job[j].at = "fill" /\ job[j].kind = "bytes"
  /\ data' = [data EXCEPT ![j] = [i \in 1..job[j].size |-> j]]
  /\ Goto(j, "publish")
  /\ UNCHANGED <<name, temp, crashes>>

\* The name taken while chunks are still to come.
ReplaceEarly(j) ==
  /\ job[j].over /\ j \in temp
  /\ job[j].at \in {"publish", "fill"}
  /\ name' = [name EXCEPT ![job[j].to] = j]
  /\ temp' = temp \ {j}
  /\ Become(j, [job[j] EXCEPT !.at = "cleanup", !.ok = TRUE])
  /\ UNCHANGED <<data, crashes>>

\* os.replace takes the name from whoever has it, os.link takes a free one.
\* Both fail when the temporary file has been removed.
Replace(j) ==
  /\ job[j].over
  /\ \/ job[j].at = "publish"
     \/ job[j].at = "fill" /\ job[j].kind = "upload" /\ Len(data[j]) = job[j].size
  /\ \/ /\ j \in temp
        /\ name' = [name EXCEPT ![job[j].to] = j]
        /\ temp' = temp \ {j}
        /\ Become(j, [job[j] EXCEPT !.at = "cleanup", !.ok = TRUE])
     \/ j \notin temp /\ Goto(j, "cleanup") /\ UNCHANGED <<name, temp>>
  /\ UNCHANGED <<data, crashes>>

\* os.rename in place of os.link.
LinkByRename(j) ==
  /\ job[j].at = "publish" /\ ~job[j].over /\ j \in temp
  /\ name' = [name EXCEPT ![job[j].to] = j]
  /\ Become(j, [job[j] EXCEPT !.at = "cleanup", !.ok = TRUE])
  /\ UNCHANGED <<temp, data, crashes>>

Link(j) ==
  LET free == j \in temp /\ name[job[j].to] = None IN
  /\ job[j].at = "publish" /\ ~job[j].over
  /\ \/ /\ free
        /\ name' = [name EXCEPT ![job[j].to] = j]
        /\ Become(j, [job[j] EXCEPT !.at = "cleanup", !.ok = TRUE])
     \/ ~free /\ Goto(j, "cleanup") /\ UNCHANGED name
  /\ UNCHANGED <<temp, data, crashes>>

\* The unlink outside the finally.
CleanupAfterSuccess(j) ==
  /\ job[j].at = "cleanup"
  /\ temp' = IF job[j].ok THEN temp \ {j} ELSE temp
  /\ End(j, job[j].ok)
  /\ UNCHANGED <<name, data, crashes>>

\* The file goes with its last name.
Cleanup(j) ==
  /\ job[j].at = "cleanup"
  /\ temp' = temp \ {j}
  /\ data' = IF job[j].ok THEN data ELSE [data EXCEPT ![j] = <<>>]
  /\ End(j, job[j].ok)
  /\ UNCHANGED <<name, crashes>>

\* The file opened without being emptied.
OpenKeeping(j) ==
  LET i == IF name[job[j].to] = None THEN j ELSE name[job[j].to] IN
  /\ job[j].at = "open"
  /\ name' = [name EXCEPT ![job[j].to] = i]
  /\ Become(j, [job[j] EXCEPT !.at = "write", !.inode = i])
  /\ UNCHANGED <<temp, data, crashes>>

\* write_text opens the file that has the name, emptying it, or makes one.
Open(j) ==
  LET i == IF name[job[j].to] = None THEN j ELSE name[job[j].to] IN
  /\ job[j].at = "open"
  /\ name' = [name EXCEPT ![job[j].to] = i]
  /\ data' = [data EXCEPT ![i] = <<>>]
  /\ Become(j, [job[j] EXCEPT !.at = "write", !.inode = i])
  /\ UNCHANGED <<temp, crashes>>

\* From the start of the file, over whatever is there by now.
WriteText(j) ==
  LET i    == job[j].inode
      n    == job[j].size
      long == IF Len(data[i]) > n THEN Len(data[i]) ELSE n
  IN  /\ job[j].at = "write"
      /\ data' = [data EXCEPT ![i] = [k \in 1..long |-> IF k <= n THEN j ELSE data[i][k]]]
      /\ End(j, TRUE)
      /\ UNCHANGED <<name, temp, crashes>>

\* delete_path of one file, and of the directory with everything in it; the
\* next request's ensure_layout makes the directory again.
Delete(f) ==
  /\ name[f] # None
  /\ name' = [name EXCEPT ![f] = None]
  /\ Disturb(None)
  /\ UNCHANGED <<temp, data, job, crashes>>

DeleteAll ==
  /\ name' = [f \in Names |-> None]
  /\ temp' = {}
  /\ Disturb(None)
  /\ UNCHANGED <<data, job, crashes>>

\* The upload service or the agent stops with all its calls.
Crash(kinds) ==
  /\ crashes < MaxCrashes
  /\ crashes' = crashes + 1
  /\ job' = [j \in Jobs |-> IF Active(j) /\ job[j].kind \in kinds
                            THEN [job[j] EXCEPT !.at = "crashed"] ELSE job[j]]
  /\ UNCHANGED <<name, temp, data, overlap>>

Step(j) ==
  \/ \E kind \in Kinds : \E f \in Names, n \in Sizes[kind], over \in BOOLEAN :
       Begin(j, kind, f, n, over)
  \/ Measure(j) \/ ReadChunk(j) \/ FillBytes(j)
  \/ Replace(j) \/ Link(j) \/ Cleanup(j) \/ Open(j) \/ WriteText(j)

Next ==
  \/ \E j \in Jobs : Step(j)
  \/ \E f \in Names : Delete(f)
  \/ DeleteAll
  \/ Crash({"upload"}) \/ Crash({"bytes", "text"})

Spec == Init /\ [][Next]_vars

-----------------------------------------------------------------------------
(* Properties.                                                             *)

Whole(i) == data[i] = [k \in 1..job[i].size |-> i]

\* What upload_file or write_bytes puts under a name is complete from the
\* first moment, however calls interleave and whoever crashes; only a
\* write_text that opens the file can spoil it.
PublishedWhole ==
  \A f \in Names :
    LET i == name[f] IN
    (i # None /\ job[i].kind # "text" /\ \A j \in Jobs : job[j].inode # i) => Whole(i)

\* write_bytes without overwrite never takes a name from another file, even
\* one that came after it had looked.
LinkNeverReplaces ==
  [][\A f \in Names, j \in Jobs :
       name'[f] # name[f] /\ name'[f] = j /\ job[j].kind = "bytes" /\ ~job[j].over
         => name[f] = None]_vars

\* A temporary file outlives its call only when the process crashed.
NoLeftovers == \A j \in temp : Active(j) \/ job[j].at = "crashed"

\* The quota is kept as long as calls come one after another: the files get
\* beyond it only once a call, or a deletion, came into the midst of a call.
QuotaKeptAlone == Published > Quota => overlap

\* A call that ended well has written its whole content, and it is spoiled only
\* by a write_text that has the same file open.
SuccessIsWritten ==
  \A j \in Jobs :
    LET i == IF job[j].kind = "text" THEN job[j].inode ELSE j IN
    (job[j].at = "over" /\ job[j].ok
      /\ \A k \in Jobs \ {j} : job[k].inode # i)
      => data[i] = [n \in 1..job[j].size |-> j]

\* What a reader of the directory sees is a FileStore: each upload or write_bytes
\* takes effect in one step, whatever interleaves, fails or crashes, and nothing
\* but write_text shows a reader a file that is not whole.
Files == {f \in Names : name[f] # None}

Shown(f) == IF name[f] = None THEN <<>> ELSE data[name[f]]

HaveOpen(f) == {j \in Jobs : job[j].at = "write" /\ job[j].inode = name[f] /\ name[f] # None}

Content == [f \in Names |-> Shown(f)]
Writers == [f \in Names |-> HaveOpen(f)]

Store == INSTANCE FileStore WITH
           files <- Files, content <- Content, writers <- Writers,
           Lengths <- UNION {Sizes[kind] : kind \in Kinds}
ImplementsFileStore == Store!Spec

-----------------------------------------------------------------------------
(* The inductive invariant.                                                *)

\* The file a call makes has no name yet, and nobody has it open.
Fresh(j) ==
  /\ \A f \in Names : name[f] # j
  /\ \A k \in Jobs : job[k].inode # j

IsText(j) == job[j].kind = "text"

\* What the stage of a call tells of its record and of its files.
StageInv(j) ==
  LET at == job[j].at IN
  /\ at = "idle" => job[j] = NoJob
  /\ at \notin {"idle", "over"} => job[j].to \in Names /\ job[j].size > 0
  /\ at \in {"fill", "publish", "cleanup"} => ~IsText(j)
  /\ at \in {"open", "write"} => IsText(j)
  /\ at \in {"idle", "measure", "open"} => j \notin temp /\ data[j] = <<>>
  /\ at \in {"write", "over"} => j \notin temp
  /\ at \notin {"cleanup", "over", "crashed"} => ~job[j].ok
  /\ at \in {"idle", "measure", "open", "fill", "publish"} => Fresh(j)
  /\ ~IsText(j) /\ ~job[j].ok => Fresh(j)
  /\ at = "write" \/ (IsText(j) /\ job[j].ok) => job[j].inode # None
  /\ ~IsText(j) \/ at \notin {"write", "over", "crashed"} => job[j].inode = None
  /\ at = "publish" => job[j].kind = "bytes"

\* An inode has one name at most.
OneName ==
  \A f, g \in Names : name[f] = name[g] /\ name[f] # None => f = g

\* Units is what a call wrote so far.
Units(j, n) == [k \in 1..n |-> j]

\* What a call has written, as long as no write_text has the file open.
ContentInv(j) ==
  /\ job[j].at = "fill" /\ job[j].kind = "upload"
       => Len(data[j]) <= job[j].size /\ data[j] = Units(j, Len(data[j]))
  /\ job[j].at = "publish" => Whole(j)
  /\ ~IsText(j) /\ job[j].ok /\ (\A k \in Jobs : job[k].inode # j) => Whole(j)

\* A write_text that has a file open alone finds it empty, and leaves its text.
TextInv(j) ==
  IsText(j) /\ job[j].inode # None /\ (\A k \in Jobs \ {j} : job[k].inode # job[j].inode)
    => /\ job[j].at = "write" => data[job[j].inode] = <<>>
       /\ job[j].at = "over" /\ job[j].ok
            => data[job[j].inode] = Units(j, job[j].size)

\* As long as calls come one after another, what the quota check of a call has
\* found stays true until the call makes use of it.
RoomInv(j) ==
  /\ \A i \in Jobs \ {j} : ~Active(i)
  /\ job[j].at = "measure" => job[j].existing = SizeAt(job[j].to)
  /\ job[j].at = "fill" /\ job[j].kind = "upload"
       => /\ j \in temp
          /\ job[j].existing = SizeAt(job[j].to)
          /\ job[j].used + Len(data[j]) = Used
          /\ data[j] # <<>> => job[j].used - job[j].existing + Len(data[j]) <= Quota
  /\ job[j].at \in {"fill", "publish", "open"} /\ job[j].kind # "upload"
       => Published - SizeAt(job[j].to) + job[j].size <= Quota
  /\ job[j].at = "write"
       => /\ name[job[j].to] = job[j].inode /\ data[job[j].inode] = <<>>
          /\ Published + job[j].size <= Quota

QuotaInv ==
  ~overlap => Published <= Quota /\ \A j \in Jobs : Active(j) => RoomInv(j)

\* A call writes as much as it was asked to.
AskedInv ==
  \A j \in Jobs : job[j].at \notin {"idle", "over"} => job[j].size \in Sizes[job[j].kind]

InductiveInv ==
  /\ TypeOK /\ OneName /\ QuotaInv /\ AskedInv
  /\ \A j \in Jobs : StageInv(j) /\ ContentInv(j) /\ TextInv(j)
=============================================================================
