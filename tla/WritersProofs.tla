--------------------------- MODULE WritersProofs ---------------------------
(***************************************************************************)
(* Proofs about WorkspaceWriters, for any number of calls, names and       *)
(* crashes: what is published is whole, nothing is left over, a call that  *)
(* ended well has written its content, and the quota is kept as long as    *)
(* calls come one after another.                                           *)
(*                                                                         *)
(* A file that is being filled is nobody else's: no name and no open       *)
(* write_text has its inode (Fresh, StageInv).  What another call can do   *)
(* to a file afterwards begins with opening it, which is for good on       *)
(* record in the other's call; ContentInv and TextInv speak of the files   *)
(* nobody else has open.  For the quota, RoomInv keeps what a call has     *)
(* measured true until it publishes, unless there was an overlap.          *)
(*                                                                         *)
(* The last section shows that the calls implement FileStore: what a call  *)
(* does to a fresh file nobody sees, and its name shows all of it at once. *)
(***************************************************************************)
EXTENDS WorkspaceWriters, Sums, SequenceTheorems, TLAPS

USE NoneAssumption, FiniteAssumption, SizesAssumption, BoundAssumption
    DEF NoneAssumption, FiniteAssumption, SizesAssumption, BoundAssumption, Kinds

CallType ==
  [at : Stages, kind : Kinds, to : Names \cup {None}, size : Nat,
   over : BOOLEAN, existing : Nat, used : Nat, inode : Jobs \cup {None},
   ok : BOOLEAN]

\* The invariant but for the quota.
FilesInv ==
  /\ TypeOK /\ OneName
  /\ \A j \in Jobs : StageInv(j) /\ ContentInv(j) /\ TextInv(j)

\* The units of one call are a sequence.
LEMMA UnitsAreSeq ==
  ASSUME NEW j \in Jobs, NEW n \in Nat
  PROVE  /\ Units(j, n) \in Seq(Jobs) /\ Len(Units(j, n)) = n
         /\ n = 0 => Units(j, n) = <<>>
<1>1. Units(j, n) \in [1..n -> Jobs]
  BY DEF Units
<1>2. Units(j, n) \in Seq(Jobs) /\ Len(Units(j, n)) = n
  BY <1>1, SeqDef, LenProperties
<1> QED BY <1>2, EmptySeq

\* An upload that appends a unit has its units and one more.
LEMMA OneMoreUnit ==
  ASSUME NEW j \in Jobs, NEW n \in Nat
  PROVE  Append(Units(j, n), j) = Units(j, n + 1)
<1>1. Units(j, n) \in Seq(Jobs) /\ Len(Units(j, n)) = n
  BY UnitsAreSeq
<1> QED BY <1>1 DEF Units

\* A whole file has as many units of its call as the call has to write.
LEMMA WholeIsUnits == ASSUME NEW j PROVE Whole(j) <=> data[j] = Units(j, job[j].size)
BY DEF Whole, Units

-----------------------------------------------------------------------------
(* The figures of the quota check.                                         *)

\* What the quota check adds up is a number.
LEMMA FiguresAreNat ==
  ASSUME TypeOK
  PROVE  /\ \A f \in Names : SizeAt(f) \in Nat
         /\ Published \in Nat /\ Unpublished \in Nat /\ Used \in Nat
<1>1. \A j \in Jobs : Len(data[j]) \in Nat
  BY LenProperties DEF TypeOK
<1>2. \A f \in Names : SizeAt(f) \in Nat
  BY <1>1 DEF SizeAt, TypeOK
<1>3. Published \in Nat
  BY <1>2, SumIsNat DEF Published
<1>4. Unpublished \in Nat
  BY <1>1, SumIsNat DEF Unpublished
<1> QED BY <1>2, <1>3, <1>4 DEF Used

\* The published total as long as no file under a name changes its size.
LEMMA PublishedStays ==
  ASSUME \A f \in Names : SizeAt(f)' = SizeAt(f)
  PROVE  Published' = Published
BY DEF Published

\* The published total when the file under one name does.
LEMMA PublishedMoves ==
  ASSUME TypeOK, TypeOK', NEW g \in Names,
         \A f \in Names \ {g} : SizeAt(f)' = SizeAt(f)
  PROVE  Published' = Published - SizeAt(g) + SizeAt(g)'
<1> DEFINE before == [f \in Names |-> SizeAt(f)]
           after  == [f \in Names |-> SizeAt(f)']
<1>1. \A f \in Names : SizeAt(f) \in Nat /\ SizeAt(f)' \in Nat
  <2>1. \A j \in Jobs : Len(data'[j]) \in Nat
    BY LenProperties DEF TypeOK
  <2> QED BY <2>1, FiguresAreNat DEF SizeAt, TypeOK
<1>2. /\ before \in [Names -> Nat] /\ after \in [Names -> Nat]
      /\ \A f \in Names : after[f] = IF f = g THEN SizeAt(g)' ELSE before[f]
      /\ before[g] = SizeAt(g)
  BY <1>1
<1>3. Published = SumFunctionOnSet(before, Names) /\ Published' = SumFunctionOnSet(after, Names)
  BY DEF Published
<1> HIDE DEF before, after
<1>4. SumFunctionOnSet(after, Names) = SumFunctionOnSet(before, Names) - before[g] + SizeAt(g)'
  BY <1>1, <1>2, SumChanges
<1> QED BY <1>2, <1>3, <1>4

\* The temporary total when the file of one call does, or comes or goes.
LEMMA UnpublishedMoves ==
  ASSUME TypeOK, TypeOK', NEW j \in Jobs,
         \A k \in Jobs \ {j} : data'[k] = data[k] /\ (k \in temp' <=> k \in temp)
  PROVE  Unpublished' = Unpublished - (IF j \in temp THEN Len(data[j]) ELSE 0)
                                    + (IF j \in temp' THEN Len(data'[j]) ELSE 0)
<1> DEFINE before == [k \in Jobs |-> IF k \in temp THEN Len(data[k]) ELSE 0]
           after  == [k \in Jobs |-> IF k \in temp' THEN Len(data'[k]) ELSE 0]
           new    == IF j \in temp' THEN Len(data'[j]) ELSE 0
<1>1. \A k \in Jobs : Len(data[k]) \in Nat /\ Len(data'[k]) \in Nat
  BY LenProperties DEF TypeOK
<1>2. /\ before \in [Jobs -> Nat] /\ after \in [Jobs -> Nat] /\ new \in Nat
      /\ \A k \in Jobs : after[k] = IF k = j THEN new ELSE before[k]
      /\ before[j] = IF j \in temp THEN Len(data[j]) ELSE 0
  BY <1>1
<1>3. Unpublished = SumFunctionOnSet(before, Jobs) /\ Unpublished' = SumFunctionOnSet(after, Jobs)
  BY DEF Unpublished
<1>4. SumFunctionOnSet(after, Jobs) = SumFunctionOnSet(before, Jobs) - before[j] + new
  <2> HIDE DEF before, after, new
  <2> QED BY <1>2, SumChanges
<1> HIDE DEF before, after
<1> QED BY <1>2, <1>3, <1>4

\* The temporary file of a call is part of the total.
LEMMA TempIsCounted ==
  ASSUME TypeOK, NEW j \in temp
  PROVE  Len(data[j]) <= Unpublished
<1> DEFINE sizes == [k \in Jobs |-> IF k \in temp THEN Len(data[k]) ELSE 0]
<1>1. \A k \in Jobs : Len(data[k]) \in Nat
  BY LenProperties DEF TypeOK
<1>2. sizes \in [Jobs -> Nat] /\ j \in Jobs /\ sizes[j] = Len(data[j])
  BY <1>1 DEF TypeOK
<1>3. Unpublished = SumFunctionOnSet(sizes, Jobs)
  BY DEF Unpublished
<1> HIDE DEF sizes
<1> QED BY <1>2, <1>3, TermInSum

-----------------------------------------------------------------------------
(* The files: one call takes a step.                                       *)

\* What any step of call j may do to the files of the others: it gives names
\* to its own file only or takes them away, opens a file by its name and once,
\* and writes to a file only if it has it open or if it is its own.
Alone(j) ==
  /\ \A k \in Jobs \ {j} : job'[k] = job[k] /\ (k \in temp' => k \in temp)
  /\ \A f \in Names : name'[f] \in {name[f], None, j}
  /\ \/ job'[j].inode = job[j].inode
     \/ /\ job[j].inode = None
        /\ job'[j].inode = j \/ \E f \in Names : name[f] = job'[j].inode
  /\ \A k \in Jobs : data'[k] # data[k] => \/ job'[j].inode = k
                                           \/ k = j /\ Fresh(j)

\* Such a step keeps the invariants of the others.
LEMMA OthersKeep ==
  ASSUME FilesInv, TypeOK', NEW j \in Jobs, Alone(j), NEW k \in Jobs, k # j
  PROVE  StageInv(k)' /\ ContentInv(k)' /\ TextInv(k)'
<1> TypeOK /\ StageInv(k) /\ ContentInv(k) /\ TextInv(k) /\ StageInv(j)
  BY DEF FilesInv
<1>1. job'[k] = job[k] /\ (k \in temp' => k \in temp)
  BY DEF Alone
<1>2. Fresh(k) => Fresh(k)' /\ data'[k] = data[k]
  <2> SUFFICES ASSUME Fresh(k) PROVE Fresh(k)' /\ data'[k] = data[k]
    OBVIOUS
  <2>1. \A f \in Names : name'[f] # k
    BY DEF Fresh, Alone
  <2>2. job'[j].inode # k
    BY DEF Fresh, Alone
  <2>3. \A i \in Jobs : job'[i].inode # k
    BY <2>2 DEF Fresh, Alone
  <2> QED BY <2>1, <2>2, <2>3 DEF Fresh, Alone
<1>3. StageInv(k)'
  BY <1>1, <1>2 DEF StageInv, IsText
<1>4. ContentInv(k)'
  <2>1. ASSUME job[k].at = "fill" PROVE data'[k] = data[k]
    BY <1>2, <2>1 DEF StageInv
  <2>2. ASSUME job[k].at = "publish" PROVE data'[k] = data[k]
    BY <1>2, <2>2 DEF StageInv
  <2>3. ASSUME \A i \in Jobs : job'[i].inode # k
        PROVE  data'[k] = data[k] /\ \A i \in Jobs : job[i].inode # k
    <3>1. data'[k] = data[k]
      BY <2>3 DEF Alone
    <3>2. job[j].inode # k
      BY <2>3 DEF Alone
    <3> QED BY <2>3, <3>1, <3>2 DEF Alone
  <2> QED BY <1>1, <2>1, <2>2, <2>3 DEF ContentInv, IsText, Whole
<1>5. TextInv(k)'
  <2> SUFFICES ASSUME job'[k].inode # None,
                      \A i \in Jobs \ {k} : job'[i].inode # job'[k].inode
               PROVE  /\ data'[job[k].inode] = data[job[k].inode]
                      /\ \A i \in Jobs \ {k} : job[i].inode # job[k].inode
    BY <1>1 DEF TextInv, IsText
  <2>1. job[k].inode \in Jobs /\ job'[j].inode # job[k].inode
    BY <1>1 DEF TypeOK
  <2>2. job[j].inode # job[k].inode
    BY <2>1 DEF Alone
  <2>3. ~(job[k].inode = j /\ Fresh(j))
    BY DEF Fresh
  <2>4. data'[job[k].inode] = data[job[k].inode]
    BY <2>1, <2>3 DEF Alone
  <2> QED BY <1>1, <2>2, <2>4 DEF Alone
<1> QED BY <1>3, <1>4, <1>5

\* What remains to be shown of a step of one call.
LEMMA OneCall ==
  ASSUME FilesInv, TypeOK', NEW j \in Jobs, Alone(j),
         \/ \A f \in Names : name'[f] \in {name[f], None}
         \/ Fresh(j) /\ \E g \in Names : \A f \in Names \ {g} : name'[f] \in {name[f], None},
         StageInv(j)', ContentInv(j)', TextInv(j)'
  PROVE  FilesInv'
<1>1. OneName'
  BY DEF FilesInv, OneName, Alone, Fresh
<1> QED BY <1>1, OthersKeep DEF FilesInv

\* The record of a call that takes a step.
LEMMA BecomeTyped ==
  ASSUME TypeOK, NEW j \in Jobs, NEW call \in CallType, Become(j, call)
  PROVE  /\ job' \in [Jobs -> CallType] /\ overlap' \in BOOLEAN
         /\ job'[j] = call /\ \A k \in Jobs \ {j} : job'[k] = job[k]
<1>1. overlap' \in BOOLEAN
  BY Zenon DEF Become, Disturb, TypeOK
<1> QED BY <1>1 DEF Become, TypeOK, CallType

\* A call begins with a file of its own that nobody knows.
LEMMA BeginFiles ==
  ASSUME FilesInv, NEW j \in Jobs, NEW kind \in Kinds, NEW f \in Names,
         NEW n \in Sizes[kind], NEW over \in BOOLEAN, Begin(j, kind, f, n, over)
  PROVE  FilesInv'
<1> DEFINE begun   == [[NoJob EXCEPT !.kind = kind, !.to = f, !.size = n, !.over = over,
                                     !.existing = SizeAt(f)] EXCEPT !.at = "measure"]
           refused == [NoJob EXCEPT !.at = "over"]
<1> TypeOK /\ StageInv(j) /\ ContentInv(j) /\ job[j].at = "idle" /\ n \in Nat \ {0}
  BY DEF FilesInv, Begin
<1>1. /\ begun \in CallType /\ refused \in CallType
      /\ begun.at = "measure" /\ begun.to = f /\ begun.size = n
      /\ ~begun.ok /\ begun.inode = None
      /\ refused.at = "over" /\ ~refused.ok /\ refused.inode = None
      /\ refused.kind = "upload"
  BY FiguresAreNat DEF NoJob, CallType, Stages
<1>2. PICK call \in {begun, refused} : Become(j, call)
  BY DEF Begin
<1>3. UNCHANGED <<name, temp, data>> /\ crashes' = crashes
  BY DEF Begin
<1> HIDE DEF begun, refused
<1>4. /\ job' \in [Jobs -> CallType] /\ overlap' \in BOOLEAN
      /\ job'[j] = call /\ \A k \in Jobs \ {j} : job'[k] = job[k]
  BY <1>1, <1>2, BecomeTyped
<1>5. TypeOK'
  BY <1>3, <1>4 DEF TypeOK, CallType
<1>6. Fresh(j) /\ j \notin temp /\ data[j] = <<>> /\ job[j].inode = None
  BY DEF StageInv
<1>7. Alone(j)
  BY <1>1, <1>2, <1>3, <1>4, <1>6 DEF Alone
<1>8. Fresh(j)'
  BY <1>1, <1>2, <1>3, <1>4, <1>6 DEF Fresh
<1>9. StageInv(j)' /\ ContentInv(j)' /\ TextInv(j)'
  BY <1>1, <1>2, <1>3, <1>4, <1>6, <1>8 DEF StageInv, ContentInv, TextInv, IsText
<1> QED BY <1>3, <1>5, <1>6, <1>7, <1>9, OneCall

\* The quota check, after which upload_file and write_bytes have a temporary file.
LEMMA MeasureFiles ==
  ASSUME FilesInv, NEW j \in Jobs, Measure(j)
  PROVE  FilesInv'
<1> DEFINE filling == [job[j] EXCEPT !.at = "fill", !.used = Used]
           checked(at) == [job[j] EXCEPT !.at = at, !.existing = 0]
           ended   == [NoJob EXCEPT !.at = "over", !.ok = FALSE, !.kind = job[j].kind,
                                    !.size = job[j].size, !.inode = job[j].inode]
<1> TypeOK /\ StageInv(j) /\ job[j].at = "measure" /\ job[j] \in CallType
  BY DEF FilesInv, TypeOK, CallType, Measure
<1>1. Fresh(j) /\ j \notin temp /\ data[j] = <<>> /\ job[j].inode = None /\ ~job[j].ok
  BY DEF StageInv
<1>2. /\ UNCHANGED <<name, data, crashes>>
      /\ \E call \in CallType :
           /\ Become(j, call) /\ call.kind = job[j].kind /\ call.inode = None /\ ~call.ok
           /\ \/ /\ call.at = "fill" /\ ~IsText(j) /\ temp' = temp \cup {j}
                 /\ call.size = job[j].size /\ call.to = job[j].to
              \/ /\ call.at = "open" /\ IsText(j) /\ temp' = temp
                 /\ call.size = job[j].size /\ call.to = job[j].to
              \/ call.at = "over" /\ temp' = temp
  <2>1. filling \in CallType /\ filling.kind = job[j].kind /\ filling.inode = job[j].inode
        /\ filling.ok = job[j].ok /\ filling.at = "fill" /\ filling.size = job[j].size
        /\ filling.to = job[j].to
    BY FiguresAreNat DEF CallType, Stages
  <2>2. ASSUME NEW at \in {"fill", "open"}
        PROVE  checked(at) \in CallType /\ checked(at).kind = job[j].kind
               /\ checked(at).inode = job[j].inode /\ checked(at).ok = job[j].ok
               /\ checked(at).at = at /\ checked(at).size = job[j].size
               /\ checked(at).to = job[j].to
    BY DEF CallType, Stages
  <2>3. ended \in CallType /\ ended.kind = job[j].kind /\ ended.inode = job[j].inode
        /\ ~ended.ok /\ ended.at = "over"
    BY DEF CallType, Stages, NoJob
  <2>4. \/ job[j].kind = "upload" /\ Become(j, filling) /\ temp' = temp \cup {j}
        \/ job[j].kind = "bytes" /\ Become(j, checked("fill")) /\ temp' = temp \cup {j}
        \/ job[j].kind = "text" /\ Become(j, checked("open")) /\ temp' = temp
        \/ Become(j, ended) /\ temp' = temp
    BY DEF Measure, End
  <2>5. UNCHANGED <<name, data, crashes>>
    BY DEF Measure
  <2> HIDE DEF filling, checked, ended
  <2> QED BY <1>1, <2>1, <2>2, <2>3, <2>4, <2>5 DEF IsText
<1>3. PICK call \in CallType :
           /\ Become(j, call) /\ call.kind = job[j].kind /\ call.inode = None /\ ~call.ok
           /\ \/ /\ call.at = "fill" /\ ~IsText(j) /\ temp' = temp \cup {j}
                 /\ call.size = job[j].size /\ call.to = job[j].to
              \/ /\ call.at = "open" /\ IsText(j) /\ temp' = temp
                 /\ call.size = job[j].size /\ call.to = job[j].to
              \/ call.at = "over" /\ temp' = temp
  BY <1>2
<1>4. /\ job' \in [Jobs -> CallType] /\ overlap' \in BOOLEAN
      /\ job'[j] = call /\ \A k \in Jobs \ {j} : job'[k] = job[k]
  BY <1>3, BecomeTyped
<1>5. TypeOK'
  BY <1>2, <1>3, <1>4 DEF TypeOK, CallType
<1>6. Alone(j)
  BY <1>1, <1>2, <1>3, <1>4 DEF Alone
<1>7. Fresh(j)'
  BY <1>1, <1>2, <1>3, <1>4 DEF Fresh
<1>8. StageInv(j)'
  BY <1>1, <1>2, <1>3, <1>4, <1>7 DEF StageInv, IsText
<1>9. ContentInv(j)' /\ TextInv(j)'
  <2>1. Units(j, 0) = <<>> /\ Len(data[j]) = 0 /\ job[j].size \in Nat
    BY <1>1, UnitsAreSeq, EmptySeq DEF CallType
  <2> QED BY <1>1, <1>2, <1>3, <1>4, <2>1 DEF ContentInv, TextInv, IsText
<1> QED BY <1>1, <1>2, <1>5, <1>6, <1>8, <1>9, OneCall

\* An upload appends what it has read, and write_bytes writes all of it.
LEMMA FillFiles ==
  ASSUME FilesInv, NEW j \in Jobs, ReadChunk(j) \/ FillBytes(j)
  PROVE  FilesInv'
<1> TypeOK /\ StageInv(j) /\ ContentInv(j) /\ job[j].at = "fill" /\ job[j] \in CallType
  BY DEF FilesInv, TypeOK, CallType, ReadChunk, FillBytes
<1>1. Fresh(j) /\ job[j].inode = None /\ ~job[j].ok /\ ~IsText(j) /\ job[j].size \in Nat
  BY DEF StageInv, CallType
<1>2. data[j] \in Seq(Jobs) /\ Len(data[j]) \in Nat
  BY LenProperties DEF TypeOK
<1>3. /\ UNCHANGED <<name, temp, crashes>>
      /\ \E at \in {"fill", "publish", "cleanup"}, m \in Nat :
           /\ Become(j, [job[j] EXCEPT !.at = at])
           /\ data' = data \/ data' = [data EXCEPT ![j] = Units(j, m)]
           /\ at = "fill" => /\ job[j].kind = "upload" /\ m <= job[j].size
                             /\ data' = [data EXCEPT ![j] = Units(j, m)]
           /\ at = "publish" => /\ job[j].kind = "bytes" /\ m = job[j].size
                                /\ data' = [data EXCEPT ![j] = Units(j, m)]
  <2>1. CASE ReadChunk(j)
    <3>1. data[j] = Units(j, Len(data[j])) /\ Len(data[j]) + 1 <= job[j].size
      BY <1>1, <1>2, <2>1 DEF ReadChunk, ContentInv
    <3>2. Append(data[j], j) = Units(j, Len(data[j]) + 1)
      BY <1>2, <3>1, OneMoreUnit
    <3>3. [data EXCEPT ![j] = Append(@, j)] = [data EXCEPT ![j] = Units(j, Len(data[j]) + 1)]
      BY <3>2 DEF TypeOK
    <3>4. UNCHANGED <<name, temp, crashes>> /\ job[j].kind = "upload"
      BY <2>1 DEF ReadChunk
    <3>5. \/ Become(j, [job[j] EXCEPT !.at = "cleanup"]) /\ data' = data
          \/ /\ Become(j, [job[j] EXCEPT !.at = "fill"])
             /\ data' = [data EXCEPT ![j] = Units(j, Len(data[j]) + 1)]
      BY <2>1, <3>3 DEF ReadChunk, Goto
    <3> QED BY <1>2, <3>1, <3>4, <3>5
  <2>2. CASE FillBytes(j)
    BY <1>1, <2>2 DEF FillBytes, Goto, Units
  <2> QED BY <2>1, <2>2
<1>4. PICK at \in {"fill", "publish", "cleanup"}, m \in Nat :
           /\ Become(j, [job[j] EXCEPT !.at = at])
           /\ data' = data \/ data' = [data EXCEPT ![j] = Units(j, m)]
           /\ at = "fill" => /\ job[j].kind = "upload" /\ m <= job[j].size
                             /\ data' = [data EXCEPT ![j] = Units(j, m)]
           /\ at = "publish" => /\ job[j].kind = "bytes" /\ m = job[j].size
                                /\ data' = [data EXCEPT ![j] = Units(j, m)]
  BY <1>3
<1> DEFINE call == [job[j] EXCEPT !.at = at]
<1>5. /\ call \in CallType /\ call.at = at /\ call.kind = job[j].kind /\ call.inode = None
      /\ ~call.ok /\ call.size = job[j].size /\ call.to = job[j].to
  BY <1>1 DEF CallType, Stages
<1>6. Become(j, call)
  BY <1>4
<1> HIDE DEF call
<1>7. /\ job' \in [Jobs -> CallType] /\ overlap' \in BOOLEAN
      /\ job'[j] = call /\ \A k \in Jobs \ {j} : job'[k] = job[k]
  BY <1>5, <1>6, BecomeTyped
<1>8. Units(j, m) \in Seq(Jobs) /\ Len(Units(j, m)) = m
  BY UnitsAreSeq
<1>9. TypeOK'
  <2>1. data' \in [Jobs -> Seq(Jobs)]
    BY <1>4, <1>8 DEF TypeOK
  <2> QED BY <1>3, <1>7, <2>1 DEF TypeOK, CallType
<1>10. Alone(j)
  BY <1>1, <1>3, <1>4, <1>5, <1>7 DEF Alone, TypeOK
<1>11. Fresh(j)'
  BY <1>1, <1>3, <1>5, <1>7 DEF Fresh
<1>12. StageInv(j)'
  BY <1>1, <1>3, <1>4, <1>5, <1>7, <1>11 DEF StageInv, IsText
<1>13. ContentInv(j)' /\ TextInv(j)'
  <2>1. at \in {"fill", "publish"} => data'[j] = Units(j, m) /\ Len(data'[j]) = m
    BY <1>4, <1>8 DEF TypeOK
  <2>2. Whole(j)' <=> data'[j] = Units(j, job'[j].size)
    BY DEF Whole, Units
  <2> QED BY <1>1, <1>4, <1>5, <1>7, <2>1, <2>2 DEF ContentInv, TextInv, IsText
<1> QED BY <1>3, <1>9, <1>10, <1>12, <1>13, OneCall

\* A file gets its name when it is whole.
LEMMA PublishFiles ==
  ASSUME FilesInv, NEW j \in Jobs, Replace(j) \/ Link(j)
  PROVE  FilesInv'
<1> TypeOK /\ StageInv(j) /\ ContentInv(j) /\ job[j].at \in {"fill", "publish"}
    /\ job[j] \in CallType
  BY DEF FilesInv, TypeOK, CallType, Replace, Link
<1>1. /\ Fresh(j) /\ job[j].inode = None /\ ~job[j].ok /\ ~IsText(j)
      /\ job[j].to \in Names
  BY DEF StageInv
<1>2. Whole(j)
  BY DEF Replace, Link, ContentInv, Whole, Units
<1>3. UNCHANGED <<data, crashes>> /\ temp' \subseteq temp
  BY DEF Replace, Link
<1>4. PICK ok \in BOOLEAN :
        /\ Become(j, [job[j] EXCEPT !.at = "cleanup", !.ok = ok])
        /\ \/ ok /\ name' = [name EXCEPT ![job[j].to] = j]
           \/ name' = name
  <2>1. [job[j] EXCEPT !.at = "cleanup"] = [job[j] EXCEPT !.at = "cleanup", !.ok = FALSE]
    BY <1>1 DEF CallType
  <2> QED BY <2>1 DEF Replace, Link, Goto
<1> DEFINE call == [job[j] EXCEPT !.at = "cleanup", !.ok = ok]
<1>5. /\ call \in CallType /\ call.at = "cleanup" /\ call.kind = job[j].kind
      /\ call.inode = None /\ call.ok = ok /\ call.size = job[j].size
      /\ call.to = job[j].to
  BY <1>1 DEF CallType, Stages
<1>6. Become(j, call)
  BY <1>4
<1> HIDE DEF call
<1>7. /\ job' \in [Jobs -> CallType] /\ overlap' \in BOOLEAN
      /\ job'[j] = call /\ \A k \in Jobs \ {j} : job'[k] = job[k]
  BY <1>5, <1>6, BecomeTyped
<1>8. TypeOK'
  <2>1. temp' \subseteq Jobs /\ name \in [Names -> Jobs \cup {None}]
    BY <1>3 DEF TypeOK
  <2>2. name' \in [Names -> Jobs \cup {None}]
    BY <1>1, <1>4, <2>1
  <2> QED BY <1>3, <1>7, <2>1, <2>2 DEF TypeOK, CallType
<1>9. Alone(j)
  BY <1>1, <1>3, <1>4, <1>5, <1>7 DEF Alone, TypeOK
<1>10. ~ok => Fresh(j)'
  BY <1>1, <1>4, <1>5, <1>7 DEF Fresh
<1>11. StageInv(j)'
  BY <1>1, <1>5, <1>7, <1>10 DEF StageInv, IsText
<1>12. ContentInv(j)' /\ TextInv(j)'
  BY <1>1, <1>2, <1>3, <1>5, <1>7 DEF ContentInv, TextInv, IsText, Whole
<1>13. \A f \in Names \ {job[j].to} : name'[f] = name[f]
  BY <1>4 DEF TypeOK
<1> QED BY <1>1, <1>8, <1>9, <1>11, <1>12, <1>13, OneCall

\* The temporary name is removed after the file got its name, or not.
LEMMA CleanupFiles ==
  ASSUME FilesInv, NEW j \in Jobs, Cleanup(j)
  PROVE  FilesInv'
<1> TypeOK /\ StageInv(j) /\ ContentInv(j) /\ job[j].at = "cleanup" /\ job[j] \in CallType
  BY DEF FilesInv, TypeOK, CallType, Cleanup
<1> DEFINE call == [NoJob EXCEPT !.at = "over", !.ok = job[j].ok, !.kind = job[j].kind,
                                 !.size = job[j].size, !.inode = job[j].inode]
<1>1. job[j].inode = None /\ ~IsText(j) /\ (~job[j].ok => Fresh(j))
  BY DEF StageInv
<1>2. /\ call \in CallType /\ call.at = "over" /\ call.kind = job[j].kind
      /\ call.inode = None /\ call.ok = job[j].ok /\ call.size = job[j].size
  BY <1>1 DEF CallType, Stages, NoJob
<1>3. /\ Become(j, call) /\ UNCHANGED <<name, crashes>> /\ temp' = temp \ {j}
      /\ data' = IF job[j].ok THEN data ELSE [data EXCEPT ![j] = <<>>]
  BY DEF Cleanup, End
<1> HIDE DEF call
<1>4. /\ job' \in [Jobs -> CallType] /\ overlap' \in BOOLEAN
      /\ job'[j] = call /\ \A k \in Jobs \ {j} : job'[k] = job[k]
  BY <1>2, <1>3, BecomeTyped
<1>5. TypeOK'
  BY <1>3, <1>4, EmptySeq DEF TypeOK, CallType
<1>6. Alone(j)
  BY <1>1, <1>2, <1>3, <1>4 DEF Alone, TypeOK
<1>7. ~job[j].ok => Fresh(j)'
  BY <1>1, <1>2, <1>3, <1>4 DEF Fresh
<1>8. StageInv(j)'
  BY <1>1, <1>2, <1>3, <1>4, <1>7 DEF StageInv, IsText
<1>9. ContentInv(j)' /\ TextInv(j)'
  <2>1. \A k \in Jobs : job'[k].inode = job[k].inode
    BY <1>1, <1>2, <1>4
  <2> QED BY <1>1, <1>2, <1>3, <1>4, <2>1 DEF ContentInv, TextInv, IsText, Whole
<1> QED BY <1>3, <1>5, <1>6, <1>8, <1>9, OneCall

\* open(path, "w") empties the file of the name, or makes one.
LEMMA OpenFiles ==
  ASSUME FilesInv, NEW j \in Jobs, Open(j)
  PROVE  FilesInv'
<1> TypeOK /\ StageInv(j) /\ job[j].at = "open" /\ job[j] \in CallType
  BY DEF FilesInv, TypeOK, CallType, Open
<1> DEFINE i    == IF name[job[j].to] = None THEN j ELSE name[job[j].to]
           call == [job[j] EXCEPT !.at = "write", !.inode = i]
<1>1. /\ Fresh(j) /\ job[j].inode = None /\ ~job[j].ok /\ IsText(j)
      /\ job[j].to \in Names /\ job[j].size > 0 /\ j \notin temp
  BY DEF StageInv
<1>2. i \in Jobs /\ (i = j \/ name[job[j].to] = i)
  BY <1>1 DEF TypeOK
<1>3. /\ Become(j, call) /\ name' = [name EXCEPT ![job[j].to] = i]
      /\ data' = [data EXCEPT ![i] = <<>>] /\ UNCHANGED <<temp, crashes>>
  BY DEF Open
<1> HIDE DEF i
<1>4. /\ call \in CallType /\ call.at = "write" /\ call.kind = job[j].kind
      /\ call.inode = i /\ ~call.ok /\ call.size = job[j].size /\ call.to = job[j].to
  BY <1>1, <1>2 DEF CallType, Stages
<1> HIDE DEF call
<1>5. /\ job' \in [Jobs -> CallType] /\ overlap' \in BOOLEAN
      /\ job'[j] = call /\ \A k \in Jobs \ {j} : job'[k] = job[k]
  BY <1>3, <1>4, BecomeTyped
<1>6. \A f \in Names : f # job[j].to \/ name[f] # None => name'[f] = name[f]
  BY <1>1, <1>2, <1>3 DEF TypeOK, i
<1>7. name'[job[j].to] = i
  BY <1>1, <1>3 DEF TypeOK
<1>8. TypeOK'
  <2>1. name' \in [Names -> Jobs \cup {None}]
    BY <1>2, <1>3 DEF TypeOK
  <2>2. data' \in [Jobs -> Seq(Jobs)]
    BY <1>2, <1>3, EmptySeq DEF TypeOK
  <2> QED BY <1>3, <1>5, <2>1, <2>2 DEF TypeOK, CallType
<1>9. \A f \in Names : name'[f] \in {name[f], j}
  BY <1>2, <1>6, <1>7
<1>10. Alone(j)
  BY <1>1, <1>2, <1>3, <1>4, <1>5, <1>9 DEF Alone, TypeOK
<1>11. StageInv(j)'
  BY <1>1, <1>2, <1>3, <1>4, <1>5 DEF StageInv, IsText
<1>12. ContentInv(j)' /\ TextInv(j)'
  <2>1. data'[i] = <<>>
    BY <1>2, <1>3 DEF TypeOK
  <2> QED BY <1>1, <1>4, <1>5, <2>1 DEF ContentInv, TextInv, IsText
<1> QED BY <1>1, <1>6, <1>8, <1>10, <1>11, <1>12, OneCall

\* write_text writes into the file it has open.
LEMMA WriteTextFiles ==
  ASSUME FilesInv, NEW j \in Jobs, WriteText(j)
  PROVE  FilesInv'
<1> TypeOK /\ StageInv(j) /\ TextInv(j) /\ job[j].at = "write" /\ job[j] \in CallType
  BY DEF FilesInv, TypeOK, CallType, WriteText
<1> DEFINE i    == job[j].inode
           n    == job[j].size
           long == IF Len(data[i]) > n THEN Len(data[i]) ELSE n
           text == [k \in 1..long |-> IF k <= n THEN j ELSE data[i][k]]
           call == [NoJob EXCEPT !.at = "over", !.ok = TRUE, !.kind = job[j].kind,
                                 !.size = job[j].size, !.inode = job[j].inode]
<1>1. i \in Jobs /\ n \in Nat /\ IsText(j) /\ j \notin temp
  BY DEF StageInv, TypeOK, CallType
<1>2. data[i] \in Seq(Jobs) /\ Len(data[i]) \in Nat
  BY <1>1, LenProperties DEF TypeOK
<1>3. text \in Seq(Jobs)
  <2>1. \A k \in 1..Len(data[i]) : data[i][k] \in Jobs
    BY <1>2, ElementOfSeq
  <2>2. text \in [1..long -> Jobs] /\ long \in Nat
    BY <1>1, <1>2, <2>1
  <2> QED BY <2>2, SeqDef
<1>4. data[i] = <<>> => text = Units(j, n)
  BY <1>1, EmptySeq DEF Units
<1>5. /\ call \in CallType /\ call.at = "over" /\ call.kind = job[j].kind
      /\ call.inode = i /\ call.ok /\ call.size = n
  BY <1>1 DEF CallType, Stages, NoJob
<1>6. /\ Become(j, call) /\ UNCHANGED <<name, temp, crashes>>
      /\ data' = [data EXCEPT ![i] = text]
  BY DEF WriteText, End
<1> HIDE DEF i, n, text, call
<1>7. /\ job' \in [Jobs -> CallType] /\ overlap' \in BOOLEAN
      /\ job'[j] = call /\ \A k \in Jobs \ {j} : job'[k] = job[k]
  BY <1>5, <1>6, BecomeTyped
<1>8. TypeOK'
  <2>1. data' \in [Jobs -> Seq(Jobs)]
    BY <1>1, <1>3, <1>6 DEF TypeOK
  <2> QED BY <1>6, <1>7, <2>1 DEF TypeOK, CallType
<1>9. job'[j].inode = job[j].inode
  BY <1>5, <1>7 DEF i
<1>10. Alone(j)
  BY <1>5, <1>6, <1>7, <1>9 DEF Alone, TypeOK, i
<1>11. StageInv(j)'
  BY <1>1, <1>5, <1>6, <1>7 DEF StageInv, IsText, i
<1>12. ContentInv(j)' /\ TextInv(j)'
  <2>1. (\A k \in Jobs \ {j} : job[k].inode # i) => data'[i] = Units(j, n)
    BY <1>1, <1>4, <1>6 DEF TextInv, TypeOK, i
  <2> QED BY <1>1, <1>5, <1>7, <1>9, <2>1 DEF ContentInv, TextInv, IsText, i
<1> QED BY <1>6, <1>8, <1>10, <1>11, <1>12, OneCall

-----------------------------------------------------------------------------
(* The files: what is not a step of one call. *)

\* A deletion takes names, those of temporary files included.
LEMMA DeleteFiles ==
  ASSUME FilesInv, (\E f \in Names : Delete(f)) \/ DeleteAll
  PROVE  FilesInv'
<1> TypeOK /\ OneName
  BY DEF FilesInv
<1>1. /\ UNCHANGED <<data, job, crashes>> /\ temp' \subseteq temp
      /\ \A f \in Names : name'[f] \in {name[f], None}
      /\ name' \in [Names -> Jobs \cup {None}]
  BY DEF Delete, DeleteAll, TypeOK
<1>2. overlap' \in BOOLEAN
  BY Zenon DEF Delete, DeleteAll, Disturb, TypeOK
<1>3. TypeOK' /\ OneName'
  BY <1>1, <1>2 DEF TypeOK, OneName
<1>4. ASSUME NEW k \in Jobs PROVE StageInv(k)' /\ ContentInv(k)' /\ TextInv(k)'
  <2>1. StageInv(k) /\ ContentInv(k) /\ TextInv(k)
    BY DEF FilesInv
  <2>2. Fresh(k) => Fresh(k)'
    BY <1>1 DEF Fresh
  <2> QED BY <1>1, <2>1, <2>2 DEF StageInv, ContentInv, TextInv, IsText, Whole
<1> QED BY <1>3, <1>4 DEF FilesInv

\* A crash leaves the files as they are.
LEMMA CrashFiles ==
  ASSUME FilesInv, NEW kinds \in SUBSET Kinds, Crash(kinds)
  PROVE  FilesInv'
<1> TypeOK /\ OneName
  BY DEF FilesInv
<1>1. UNCHANGED <<name, temp, data, overlap>> /\ crashes' \in 0..MaxCrashes
  BY DEF Crash, TypeOK
<1>2. \A k \in Jobs : \/ job'[k] = job[k]
                      \/ Active(k) /\ job'[k] = [job[k] EXCEPT !.at = "crashed"]
  BY DEF Crash
<1>3. \A k \in Jobs :
        /\ job'[k] = job[k] \/ (Active(k) /\ job'[k].at = "crashed")
        /\ job'[k].kind = job[k].kind /\ job'[k].to = job[k].to
        /\ job'[k].size = job[k].size /\ job'[k].inode = job[k].inode
        /\ job'[k].ok = job[k].ok /\ job'[k] \in CallType
  <2> TAKE k \in Jobs
  <2>1. job[k] \in CallType
    BY DEF TypeOK, CallType
  <2> DEFINE crashed == [job[k] EXCEPT !.at = "crashed"]
  <2>2. /\ crashed.at = "crashed" /\ crashed.kind = job[k].kind /\ crashed.to = job[k].to
        /\ crashed.size = job[k].size /\ crashed.inode = job[k].inode
        /\ crashed.ok = job[k].ok /\ crashed \in CallType
    BY <2>1 DEF CallType, Stages
  <2>3. job'[k] = job[k] \/ (Active(k) /\ job'[k] = crashed)
    BY <1>2
  <2> HIDE DEF crashed
  <2> QED BY <2>1, <2>2, <2>3
<1>4. TypeOK' /\ OneName'
  <2>1. job' \in [Jobs -> CallType]
    BY <1>3 DEF Crash
  <2> QED BY <1>1, <2>1 DEF TypeOK, CallType, OneName
<1>5. ASSUME NEW k \in Jobs PROVE StageInv(k)' /\ ContentInv(k)' /\ TextInv(k)'
  <2>1. StageInv(k) /\ ContentInv(k) /\ TextInv(k)
    BY DEF FilesInv
  <2>2. Fresh(k)' <=> Fresh(k)
    BY <1>1, <1>3 DEF Fresh
  <2>3. StageInv(k)'
    BY <1>1, <1>3, <2>1, <2>2 DEF StageInv, IsText, Active
  <2>4. ContentInv(k)' /\ TextInv(k)'
    BY <1>1, <1>3, <2>1 DEF ContentInv, TextInv, IsText, Whole
  <2> QED BY <2>3, <2>4
<1> QED BY <1>4, <1>5 DEF FilesInv

\* Every step keeps what the stages tell of the files.
LEMMA NextFiles ==
  ASSUME FilesInv, [Next]_vars
  PROVE  FilesInv'
<1>1. ASSUME NEW j \in Jobs, Step(j) PROVE FilesInv'
  BY <1>1, BeginFiles, MeasureFiles, FillFiles, PublishFiles, CleanupFiles, OpenFiles,
     WriteTextFiles DEF Step
<1>2. CASE (\E f \in Names : Delete(f)) \/ DeleteAll
  BY <1>2, DeleteFiles
<1>3. CASE Crash({"upload"}) \/ Crash({"bytes", "text"})
  BY <1>3, CrashFiles
<1>4. CASE UNCHANGED vars
  <2>1. \A k \in Jobs : (Fresh(k) <=> Fresh(k)') /\ IsText(k)' = IsText(k)
    BY <1>4 DEF vars, Fresh, IsText
  <2>2. TypeOK' /\ OneName'
    BY <1>4 DEF vars, FilesInv, TypeOK, OneName
  <2>3. ASSUME NEW k \in Jobs PROVE StageInv(k)' /\ ContentInv(k)' /\ TextInv(k)'
    <3>1. StageInv(k) /\ ContentInv(k) /\ TextInv(k)
      BY DEF FilesInv
    <3> QED BY <1>4, <2>1, <3>1 DEF vars, StageInv, ContentInv, TextInv, Whole
  <2> QED BY <2>2, <2>3 DEF FilesInv
<1> QED BY <1>1, <1>2, <1>3, <1>4 DEF Next

\* At the start no call has a file.
LEMMA InitFiles == Init => FilesInv
<1> SUFFICES ASSUME Init PROVE FilesInv
  OBVIOUS
<1>1. TypeOK
  <2>1. NoJob \in CallType
    BY DEF NoJob, CallType, Stages
  <2>2. data \in [Jobs -> Seq(Jobs)]
    BY EmptySeq DEF Init
  <2>3. job \in [Jobs -> CallType] /\ name \in [Names -> Jobs \cup {None}]
    BY <2>1 DEF Init
  <2>4. overlap \in BOOLEAN
    BY Zenon DEF Init
  <2> QED BY <2>2, <2>3, <2>4 DEF Init, TypeOK, CallType
<1>2. \A j \in Jobs : job[j] = NoJob /\ data[j] = <<>>
  BY DEF Init
<1>3. \A j \in Jobs : Fresh(j)
  BY <1>2 DEF Init, Fresh, NoJob
<1>4. \A j \in Jobs : StageInv(j) /\ ContentInv(j) /\ TextInv(j)
  BY <1>2, <1>3 DEF Init, StageInv, ContentInv, TextInv, IsText, NoJob
<1> QED BY <1>1, <1>4 DEF Init, FilesInv, OneName

-----------------------------------------------------------------------------
(* The quota.                                                              *)

\* A step of one call that is not in the midst of another's.
LEMMA NoOverlap ==
  ASSUME NEW j \in Jobs, NEW call, Become(j, call), ~overlap'
  PROVE  ~overlap /\ \A i \in Jobs \ {j} : ~Active(i)
BY DEF Become, Disturb

\* What remains to be shown of it.
LEMMA OneAtATime ==
  ASSUME FilesInv, QuotaInv, NEW j \in Jobs, NEW call, Become(j, call),
         ~overlap' => Published' <= Quota /\ (Active(j)' => RoomInv(j)')
  PROVE  QuotaInv'
<1> SUFFICES ASSUME ~overlap', NEW k \in Jobs, Active(k)' PROVE k = j
  BY DEF QuotaInv
<1>1. \A i \in Jobs \ {j} : ~Active(i) /\ job'[i] = job[i]
  BY NoOverlap DEF Become, FilesInv, TypeOK
<1> QED BY <1>1 DEF Active

\* The others stay inactive.
LEMMA OthersInactive ==
  ASSUME FilesInv, NEW j \in Jobs, NEW call, Become(j, call), ~overlap'
  PROVE  \A i \in Jobs \ {j} : ~Active(i)'
BY NoOverlap DEF Become, FilesInv, TypeOK, Active

\* A call begins, and looks at the file it would replace.
LEMMA BeginQuota ==
  ASSUME FilesInv, QuotaInv, NEW j \in Jobs, NEW kind \in Kinds, NEW f \in Names,
         NEW n \in Sizes[kind], NEW over \in BOOLEAN, Begin(j, kind, f, n, over)
  PROVE  QuotaInv'
<1> DEFINE begun   == [[NoJob EXCEPT !.kind = kind, !.to = f, !.size = n, !.over = over,
                                     !.existing = SizeAt(f)] EXCEPT !.at = "measure"]
           refused == [NoJob EXCEPT !.at = "over"]
<1> TypeOK
  BY DEF FilesInv
<1>1. /\ begun.at = "measure" /\ begun.to = f /\ begun.existing = SizeAt(f)
      /\ refused.at = "over"
  BY DEF NoJob
<1>2. PICK call \in {begun, refused} : Become(j, call)
  BY DEF Begin
<1>3. UNCHANGED <<name, temp, data>> /\ job'[j] = call
  BY <1>2 DEF Begin, Become, TypeOK
<1> HIDE DEF begun, refused
<1>4. Published' = Published /\ SizeAt(f)' = SizeAt(f)
  BY <1>3, PublishedStays DEF SizeAt
<1> SUFFICES ASSUME ~overlap' PROVE Published' <= Quota /\ (Active(j)' => RoomInv(j)')
  BY <1>2, OneAtATime
<1>5. Published <= Quota
  BY <1>2, NoOverlap DEF QuotaInv
<1>6. \A i \in Jobs \ {j} : ~Active(i)'
  BY <1>2, OthersInactive
<1>7. Active(j)' => RoomInv(j)'
  BY <1>1, <1>2, <1>3, <1>4, <1>6 DEF Active, RoomInv
<1> QED BY <1>4, <1>5, <1>7

\* The quota check: what it finds is what RoomInv keeps.
LEMMA MeasureQuota ==
  ASSUME FilesInv, QuotaInv, NEW j \in Jobs, Measure(j)
  PROVE  QuotaInv'
<1> DEFINE filling == [job[j] EXCEPT !.at = "fill", !.used = Used]
           checked(at) == [job[j] EXCEPT !.at = at, !.existing = 0]
           ended   == [NoJob EXCEPT !.at = "over", !.ok = FALSE, !.kind = job[j].kind,
                                    !.size = job[j].size, !.inode = job[j].inode]
           fits    == Used - job[j].existing + job[j].size <= Quota
<1> TypeOK /\ StageInv(j) /\ job[j].at = "measure" /\ job[j] \in CallType /\ Active(j)
  BY DEF FilesInv, TypeOK, CallType, Measure, Active
<1>1. j \notin temp /\ data[j] = <<>> /\ Len(data[j]) = 0
  BY EmptySeq DEF StageInv
<1>2. UNCHANGED <<name, data>>
  BY DEF Measure
<1>3. \/ job[j].kind = "upload" /\ Become(j, filling) /\ temp' = temp \cup {j}
      \/ job[j].kind = "bytes" /\ fits /\ Become(j, checked("fill")) /\ temp' = temp \cup {j}
      \/ job[j].kind = "text" /\ fits /\ Become(j, checked("open")) /\ temp' = temp
      \/ Become(j, ended) /\ temp' = temp
  BY DEF Measure, End
<1>4. \A f \in Names : SizeAt(f)' = SizeAt(f)
  BY <1>2 DEF SizeAt
<1>5. Published' = Published
  BY <1>4, PublishedStays
<1>6. PICK call : Become(j, call)
  BY <1>3
<1> SUFFICES ASSUME ~overlap' PROVE Published' <= Quota /\ (Active(j)' => RoomInv(j)')
  BY <1>6, OneAtATime
<1>7. Published <= Quota /\ RoomInv(j) /\ \A i \in Jobs \ {j} : ~Active(i)'
  BY <1>6, NoOverlap, OthersInactive DEF QuotaInv
<1>8. job[j].existing = SizeAt(job[j].to) /\ job[j].to \in Names
  BY <1>7 DEF RoomInv, StageInv
<1>9. /\ Published \in Nat /\ Unpublished \in Nat /\ Used = Published + Unpublished
      /\ SizeAt(job[j].to) \in Nat /\ job[j].size \in Nat
  BY <1>8, FiguresAreNat DEF Used, CallType
<1>10. CASE job[j].kind = "upload" /\ Become(j, filling) /\ temp' = temp \cup {j}
  <2>1. filling.at = "fill" /\ filling.kind = "upload" /\ filling.used = Used
        /\ filling.existing = job[j].existing /\ filling.to = job[j].to
    BY <1>10 DEF CallType
  <2> HIDE DEF filling
  <2>2. job'[j] = filling
    BY <1>10 DEF Become, TypeOK
  <2>3. Unpublished' = Unpublished
    BY <1>1, <1>2, <1>10 DEF Unpublished
  <2>4. Used' = Used
    BY <1>5, <2>3 DEF Used
  <2>5. RoomInv(j)'
    BY <1>1, <1>2, <1>4, <1>7, <1>8, <1>9, <1>10, <2>1, <2>2, <2>4 DEF RoomInv
  <2> QED BY <1>5, <1>7, <2>5
<1>11. ASSUME NEW at \in {"fill", "open"}, job[j].kind # "upload", fits,
              Become(j, checked(at))
       PROVE  Published' <= Quota /\ (Active(j)' => RoomInv(j)')
  <2>1. checked(at).at = at /\ checked(at).kind = job[j].kind
        /\ checked(at).size = job[j].size /\ checked(at).to = job[j].to
    BY DEF CallType
  <2>2. Published - SizeAt(job[j].to) + job[j].size <= Quota
    BY <1>8, <1>9, <1>11
  <2> HIDE DEF checked
  <2>3. job'[j] = checked(at)
    BY <1>11 DEF Become, TypeOK
  <2>4. RoomInv(j)'
    BY <1>4, <1>5, <1>7, <1>8, <1>11, <2>1, <2>2, <2>3 DEF RoomInv
  <2> QED BY <1>5, <1>7, <2>4
<1>12. CASE Become(j, ended)
  <2>1. ended.at = "over"
    BY DEF NoJob
  <2> HIDE DEF ended
  <2>2. ~Active(j)'
    BY <1>12, <2>1 DEF Become, TypeOK, Active
  <2> QED BY <1>5, <1>7, <2>2
<1> QED BY <1>3, <1>10, <1>11, <1>12

\* A file nobody else has is filled: the published total stays.
LEMMA FillQuota ==
  ASSUME FilesInv, TypeOK', QuotaInv, NEW j \in Jobs, ReadChunk(j) \/ FillBytes(j)
  PROVE  QuotaInv'
<1> DEFINE call(at) == [job[j] EXCEPT !.at = at]
<1> TypeOK /\ StageInv(j) /\ job[j].at = "fill" /\ job[j] \in CallType /\ Active(j)
  BY DEF FilesInv, TypeOK, CallType, ReadChunk, FillBytes, Active
<1>1. Fresh(j) /\ job[j].to \in Names
  BY DEF StageInv
<1>2. UNCHANGED <<name, temp>> /\ \A k \in Jobs \ {j} : data'[k] = data[k]
  BY DEF ReadChunk, FillBytes, TypeOK
<1>3. PICK at \in {"fill", "publish", "cleanup"} : Become(j, call(at))
  BY DEF ReadChunk, FillBytes, Goto
<1>4. /\ call(at).at = at /\ call(at).kind = job[j].kind /\ call(at).to = job[j].to
      /\ call(at).size = job[j].size /\ call(at).existing = job[j].existing
      /\ call(at).used = job[j].used
  BY DEF CallType
<1>5. job'[j] = call(at)
  BY <1>3 DEF Become, TypeOK
<1>6. \A f \in Names : SizeAt(f)' = SizeAt(f)
  BY <1>1, <1>2 DEF SizeAt, Fresh, TypeOK
<1>7. Published' = Published
  BY <1>6, PublishedStays
<1> SUFFICES ASSUME ~overlap' PROVE Published' <= Quota /\ (Active(j)' => RoomInv(j)')
  BY <1>3, OneAtATime
<1>8. Published <= Quota /\ RoomInv(j) /\ \A i \in Jobs \ {j} : ~Active(i)'
  BY <1>3, NoOverlap, OthersInactive DEF QuotaInv
<1>9. CASE at = "fill"
  <2>1. ReadChunk(j)
    <3>1. CASE FillBytes(j)
      <4>1. Become(j, [job[j] EXCEPT !.at = "publish"])
        BY <3>1 DEF FillBytes, Goto
      <4>2. job'[j].at = "publish"
        BY <4>1 DEF Become, TypeOK
      <4> QED BY <1>4, <1>5, <1>9, <4>2
    <3> QED BY <3>1
  <2>2. CASE job[j].used - job[j].existing + (Len(data[j]) + 1) > Quota
    <3>1. Become(j, [job[j] EXCEPT !.at = "cleanup"])
      BY <2>1, <2>2 DEF ReadChunk, Goto
    <3>2. job'[j].at = "cleanup"
      BY <3>1 DEF Become, TypeOK
    <3> QED BY <1>4, <1>5, <1>9, <3>2
  <2>3. CASE ~(job[j].used - job[j].existing + (Len(data[j]) + 1) > Quota)
    <3>1. data'[j] = Append(data[j], j) /\ job[j].kind = "upload"
      BY <2>1, <2>3 DEF ReadChunk, TypeOK
    <3>2. Len(data'[j]) = Len(data[j]) + 1 /\ Len(data[j]) \in Nat
      BY <3>1, AppendProperties, LenProperties DEF TypeOK
    <3>3. j \in temp /\ job[j].used + Len(data[j]) = Used
          /\ job[j].existing = SizeAt(job[j].to)
      BY <1>8, <3>1 DEF RoomInv
    <3>4. Unpublished' = Unpublished + 1
      <4>1. Unpublished' = Unpublished - Len(data[j]) + Len(data'[j])
        BY <1>2, <3>3, UnpublishedMoves
      <4> QED BY <3>2, <4>1, FiguresAreNat
    <3>5. Used' = Used + 1
      BY <1>7, <3>4, FiguresAreNat DEF Used
    <3>6. job'[j].used + Len(data'[j]) = Used'
      <4> HIDE DEF call
      <4> QED BY <1>4, <1>5, <3>2, <3>3, <3>5 DEF CallType
    <3>7. job'[j].used - job'[j].existing + Len(data'[j]) <= Quota
      BY <1>4, <1>5, <2>3, <3>2, FiguresAreNat DEF CallType
    <3> HIDE DEF call
    <3>8. RoomInv(j)'
      BY <1>1, <1>2, <1>4, <1>5, <1>6, <1>8, <1>9, <3>1, <3>3, <3>6, <3>7 DEF RoomInv
    <3> QED BY <1>7, <1>8, <3>8
  <2> QED BY <2>2, <2>3
<1>10. CASE at = "publish"
  <2>1. job[j].kind = "bytes"
    <3>1. CASE ReadChunk(j)
      <4>1. job'[j].at \in {"fill", "cleanup"}
        BY <3>1 DEF ReadChunk, Goto, Become, TypeOK
      <4> QED BY <1>4, <1>5, <1>10, <4>1
    <3> QED BY <3>1 DEF FillBytes
  <2> HIDE DEF call
  <2>2. RoomInv(j)'
    BY <1>1, <1>4, <1>5, <1>6, <1>7, <1>8, <1>10, <2>1 DEF RoomInv
  <2> QED BY <1>7, <1>8, <2>2
<1>11. CASE at = "cleanup"
  <2> HIDE DEF call
  <2>1. RoomInv(j)'
    BY <1>4, <1>5, <1>8, <1>11 DEF RoomInv
  <2> QED BY <1>7, <1>8, <2>1
<1> QED BY <1>9, <1>10, <1>11

\* A file takes a name: what it replaces had been counted as replaced.
LEMMA PublishQuota ==
  ASSUME FilesInv, TypeOK', QuotaInv, NEW j \in Jobs, Replace(j) \/ Link(j)
  PROVE  QuotaInv'
<1> TypeOK /\ StageInv(j) /\ ContentInv(j) /\ job[j].at \in {"fill", "publish"}
    /\ job[j] \in CallType /\ Active(j)
  BY DEF FilesInv, TypeOK, CallType, Replace, Link, Active
<1>1. /\ job[j].to \in Names /\ job[j].size \in Nat \ {0} /\ ~IsText(j)
      /\ job[j].at = "publish" => job[j].kind = "bytes"
  BY DEF StageInv, CallType
<1>2. Len(data[j]) = job[j].size
  <2>1. CASE job[j].at = "publish"
    <3>1. data[j] = Units(j, job[j].size)
      BY <2>1 DEF ContentInv, Whole, Units
    <3> QED BY <1>1, <3>1, UnitsAreSeq
  <2>2. CASE job[j].at = "fill"
    BY <2>2 DEF Replace, Link
  <2> QED BY <2>1, <2>2
<1>3. data' = data
  BY DEF Replace, Link
<1>4. PICK ok \in BOOLEAN :
        /\ Become(j, [job[j] EXCEPT !.at = "cleanup", !.ok = ok])
        /\ \/ name' = [name EXCEPT ![job[j].to] = j]
           \/ name' = name
  <2>1. [job[j] EXCEPT !.at = "cleanup"] = [job[j] EXCEPT !.at = "cleanup", !.ok = FALSE]
    BY DEF CallType, StageInv
  <2> QED BY <2>1 DEF Replace, Link, Goto
<1>5. job'[j].at = "cleanup"
  BY <1>4 DEF Become, TypeOK
<1> SUFFICES ASSUME ~overlap' PROVE Published' <= Quota /\ (Active(j)' => RoomInv(j)')
  BY <1>4, OneAtATime
<1>6. Published <= Quota /\ RoomInv(j) /\ \A i \in Jobs \ {j} : ~Active(i)'
  BY <1>4, NoOverlap, OthersInactive DEF QuotaInv
<1>7. RoomInv(j)'
  BY <1>5, <1>6 DEF RoomInv
<1>8. CASE name' = name
  <2>1. \A f \in Names : SizeAt(f)' = SizeAt(f)
    BY <1>3, <1>8 DEF SizeAt
  <2> QED BY <1>6, <1>7, <2>1, PublishedStays
<1>9. CASE name' = [name EXCEPT ![job[j].to] = j]
  <2> PICK g \in Names : g = job[j].to
    BY <1>1
  <2>1. \A f \in Names \ {g} : SizeAt(f)' = SizeAt(f)
    BY <1>3, <1>9 DEF SizeAt, TypeOK
  <2>2. SizeAt(g)' = job[j].size
    BY <1>1, <1>2, <1>3, <1>9 DEF SizeAt, TypeOK
  <2>3. Published' = Published - SizeAt(job[j].to) + job[j].size
    BY <2>1, <2>2, PublishedMoves
  <2>4. /\ Published \in Nat /\ Unpublished \in Nat /\ Used = Published + Unpublished
        /\ SizeAt(job[j].to) \in Nat
    BY <1>1, FiguresAreNat DEF Used
  <2>5. Published - SizeAt(job[j].to) + job[j].size <= Quota
    <3>1. CASE job[j].kind = "upload"
      <4>1. /\ job[j].existing = SizeAt(job[j].to) /\ job[j].used + Len(data[j]) = Used
            /\ data[j] # <<>> => job[j].used - job[j].existing + Len(data[j]) <= Quota
            /\ j \in temp
        BY <1>1, <1>6, <3>1 DEF RoomInv
      <4>2. data[j] # <<>>
        BY <1>1, <1>2, EmptySeq
      <4>3. Len(data[j]) <= Unpublished
        BY <4>1, TempIsCounted
      <4> QED BY <1>1, <1>2, <2>4, <4>1, <4>2, <4>3 DEF CallType
    <3>2. CASE job[j].kind # "upload"
      BY <1>6, <3>2 DEF RoomInv
    <3> QED BY <3>1, <3>2
  <2> QED BY <1>7, <2>3, <2>5
<1> QED BY <1>4, <1>8, <1>9

\* What is thrown away had no name.
LEMMA CleanupQuota ==
  ASSUME FilesInv, QuotaInv, NEW j \in Jobs, Cleanup(j)
  PROVE  QuotaInv'
<1> DEFINE call == [NoJob EXCEPT !.at = "over", !.ok = job[j].ok, !.kind = job[j].kind,
                                 !.size = job[j].size, !.inode = job[j].inode]
<1> TypeOK /\ StageInv(j) /\ job[j].at = "cleanup"
  BY DEF FilesInv, Cleanup
<1>1. Become(j, call) /\ call.at = "over"
  BY DEF Cleanup, End, NoJob
<1>2. name' = name /\ (~job[j].ok => Fresh(j))
      /\ data' = IF job[j].ok THEN data ELSE [data EXCEPT ![j] = <<>>]
  BY DEF Cleanup, StageInv
<1> HIDE DEF call
<1>3. ~Active(j)'
  BY <1>1 DEF Become, TypeOK, Active
<1>4. \A f \in Names : SizeAt(f)' = SizeAt(f)
  BY <1>2 DEF SizeAt, Fresh, TypeOK
<1>5. Published' = Published
  BY <1>4, PublishedStays
<1> SUFFICES ASSUME ~overlap' PROVE Published' <= Quota
  BY <1>1, <1>3, OneAtATime
<1> QED BY <1>1, <1>5, NoOverlap DEF QuotaInv

\* A write_text empties the file and fills it, within what it has checked.
LEMMA OpenQuota ==
  ASSUME FilesInv, TypeOK', QuotaInv, NEW j \in Jobs, Open(j)
  PROVE  QuotaInv'
<1> TypeOK /\ OneName /\ StageInv(j) /\ job[j].at = "open" /\ job[j] \in CallType /\ Active(j)
  BY DEF FilesInv, TypeOK, CallType, Open, Active
<1> PICK g \in Names : g = job[j].to
  BY DEF StageInv
<1> DEFINE i    == IF name[g] = None THEN j ELSE name[g]
           call == [job[j] EXCEPT !.at = "write", !.inode = i]
<1>1. /\ Become(j, call) /\ name' = [name EXCEPT ![g] = i] /\ data' = [data EXCEPT ![i] = <<>>]
      /\ call.at = "write" /\ call.to = g /\ call.size = job[j].size /\ call.inode = i
      /\ Fresh(j) /\ IsText(j) /\ job[j].size \in Nat
  BY DEF Open, CallType, StageInv
<1>2. i \in Jobs
  BY DEF TypeOK
<1> HIDE DEF call
<1>3. job'[j] = call /\ name'[g] = i /\ data'[i] = <<>>
  BY <1>1, <1>2 DEF Become, TypeOK
<1>4. \A f \in Names \ {g} : name'[f] = name[f] /\ name[f] # i
  BY <1>1 DEF TypeOK, OneName, Fresh
<1>5. \A f \in Names \ {g} : SizeAt(f)' = SizeAt(f)
  BY <1>1, <1>2, <1>4 DEF SizeAt, TypeOK
<1>6. SizeAt(g)' = 0
  BY <1>2, <1>3, EmptySeq DEF SizeAt
<1>7. Published' = Published - SizeAt(g) /\ Published \in Nat /\ SizeAt(g) \in Nat
  BY <1>5, <1>6, PublishedMoves, FiguresAreNat
<1> SUFFICES ASSUME ~overlap' PROVE Published' <= Quota /\ (Active(j)' => RoomInv(j)')
  BY <1>1, OneAtATime
<1>8. Published <= Quota /\ RoomInv(j) /\ \A k \in Jobs \ {j} : ~Active(k)'
  BY <1>1, NoOverlap, OthersInactive DEF QuotaInv
<1>9. Published - SizeAt(g) + job[j].size <= Quota
  BY <1>1, <1>8 DEF RoomInv, IsText
<1> HIDE DEF i
<1>10. RoomInv(j)'
  BY <1>1, <1>3, <1>7, <1>8, <1>9 DEF RoomInv
<1> QED BY <1>7, <1>8, <1>10

\* A text that was measured alone fits when it is written alone.
LEMMA WriteTextQuota ==
  ASSUME FilesInv, TypeOK', QuotaInv, NEW j \in Jobs, WriteText(j)
  PROVE  QuotaInv'
<1> TypeOK /\ OneName /\ StageInv(j) /\ job[j].at = "write" /\ job[j] \in CallType /\ Active(j)
  BY DEF FilesInv, TypeOK, CallType, WriteText, Active
<1> PICK g \in Names : g = job[j].to
  BY DEF StageInv
<1> DEFINE i    == job[j].inode
           n    == job[j].size
           long == IF Len(data[i]) > n THEN Len(data[i]) ELSE n
           text == [k \in 1..long |-> IF k <= n THEN j ELSE data[i][k]]
           call == [NoJob EXCEPT !.at = "over", !.ok = TRUE, !.kind = job[j].kind,
                                 !.size = job[j].size, !.inode = job[j].inode]
<1>1. /\ Become(j, call) /\ name' = name /\ data' = [data EXCEPT ![i] = text]
      /\ call.at = "over" /\ n \in Nat
  BY DEF WriteText, End, NoJob, CallType
<1> HIDE DEF call
<1>2. ~Active(j)'
  BY <1>1 DEF Become, TypeOK, Active
<1> SUFFICES ASSUME ~overlap' PROVE Published' <= Quota
  BY <1>1, <1>2, OneAtATime
<1>3. RoomInv(j)
  BY <1>1, NoOverlap DEF QuotaInv
<1>4. name[g] = i /\ data[i] = <<>> /\ Published + n <= Quota
  BY <1>3 DEF RoomInv
<1>5. i \in Jobs /\ text = Units(j, n)
  BY <1>1, <1>4, EmptySeq DEF StageInv, TypeOK, CallType, Units
<1> HIDE DEF i, n, text
<1>6. Len(text) = n
  BY <1>1, <1>5, UnitsAreSeq
<1>7. \A f \in Names \ {g} : SizeAt(f)' = SizeAt(f)
  BY <1>1, <1>4, <1>5 DEF SizeAt, TypeOK, OneName
<1>8. SizeAt(g) = 0 /\ SizeAt(g)' = n
  BY <1>1, <1>4, <1>5, <1>6, EmptySeq DEF SizeAt, TypeOK
<1>9. Published' = Published + n
  BY <1>1, <1>7, <1>8, PublishedMoves, FiguresAreNat
<1> QED BY <1>4, <1>9

\* Deletions make room, and crashes change no file.
LEMMA RestQuota ==
  ASSUME FilesInv, TypeOK', QuotaInv,
         (\E f \in Names : Delete(f)) \/ DeleteAll \/ (\E kinds \in SUBSET Kinds : Crash(kinds))
  PROVE  QuotaInv'
<1> TypeOK
  BY DEF FilesInv
<1> SUFFICES ASSUME ~overlap'
             PROVE  Published' <= Quota /\ \A j \in Jobs : Active(j)' => RoomInv(j)'
  BY DEF QuotaInv
<1>1. CASE \E f \in Names : Delete(f)
  <2> PICK g \in Names : Delete(g)
    BY <1>1
  <2>1. ~overlap /\ job' = job /\ data' = data /\ \A j \in Jobs : ~Active(j)
    BY DEF Delete, Disturb
  <2>2. \A f \in Names \ {g} : SizeAt(f)' = SizeAt(f)
    BY <2>1 DEF Delete, SizeAt, TypeOK
  <2>3. SizeAt(g)' = 0
    BY DEF Delete, SizeAt, TypeOK
  <2>4. Published' = Published - SizeAt(g)
    BY <2>2, <2>3, PublishedMoves, FiguresAreNat
  <2> QED BY <2>1, <2>4, FiguresAreNat DEF QuotaInv, Active
<1>2. CASE DeleteAll
  <2>1. ~overlap /\ job' = job /\ \A j \in Jobs : ~Active(j)
    BY <1>2 DEF DeleteAll, Disturb
  <2>2. \A f \in Names : SizeAt(f)' = 0
    BY <1>2 DEF DeleteAll, SizeAt
  <2>3. Published' = 0
    BY <2>2, SumOfNothing DEF Published
  <2> QED BY <2>1, <2>3 DEF Active
<1>3. CASE \E kinds \in SUBSET Kinds : Crash(kinds)
  <2>1. UNCHANGED <<name, temp, data, overlap>>
    BY <1>3 DEF Crash
  <2>2. \A k \in Jobs : job'[k] = job[k] \/ job'[k] = [job[k] EXCEPT !.at = "crashed"]
    BY <1>3 DEF Crash
  <2>3. \A k \in Jobs : Active(k)' => Active(k) /\ job'[k] = job[k]
    BY <2>2 DEF Active, TypeOK
  <2>4. \A f \in Names : SizeAt(f)' = SizeAt(f)
    BY <2>1 DEF SizeAt
  <2>5. Published' = Published /\ Unpublished' = Unpublished
    BY <2>1, <2>4, PublishedStays DEF Unpublished
  <2>6. Used' = Used
    BY <2>5 DEF Used
  <2>7. ASSUME NEW j \in Jobs, Active(j)' PROVE RoomInv(j)'
    <3>1. RoomInv(j) /\ job'[j] = job[j]
      BY <2>1, <2>3, <2>7 DEF QuotaInv
    <3>2. SizeAt(job[j].to)' = SizeAt(job[j].to)
      BY <2>1, <3>1 DEF SizeAt
    <3> QED BY <2>1, <2>3, <2>5, <2>6, <3>1, <3>2 DEF RoomInv
  <2> QED BY <2>1, <2>5, <2>7 DEF QuotaInv
<1> QED BY <1>1, <1>2, <1>3

\* Every step keeps the quota as long as calls do not overlap.
LEMMA NextQuota ==
  ASSUME FilesInv, TypeOK', QuotaInv, [Next]_vars
  PROVE  QuotaInv'
<1>1. ASSUME NEW j \in Jobs, Step(j) PROVE QuotaInv'
  BY <1>1, BeginQuota, MeasureQuota, FillQuota, PublishQuota, CleanupQuota, OpenQuota,
     WriteTextQuota DEF Step
<1>2. CASE \/ (\E f \in Names : Delete(f)) \/ DeleteAll
           \/ Crash({"upload"}) \/ Crash({"bytes", "text"})
  <2>1. {"upload"} \in SUBSET Kinds /\ {"bytes", "text"} \in SUBSET Kinds
    OBVIOUS
  <2> QED BY <1>2, <2>1, RestQuota
<1>3. CASE UNCHANGED vars
  BY <1>3 DEF vars, QuotaInv, RoomInv, Active, Published, Used, Unpublished, SizeAt
<1> QED BY <1>1, <1>2, <1>3 DEF Next

\* An empty workspace is within its quota.
LEMMA InitQuota == Init => QuotaInv
<1> SUFFICES ASSUME Init PROVE QuotaInv
  OBVIOUS
<1>1. \A f \in Names : SizeAt(f) = 0
  BY DEF Init, SizeAt
<1>2. Published = 0
  BY <1>1, SumOfNothing DEF Published
<1>3. \A j \in Jobs : ~Active(j)
  BY DEF Init, NoJob, Active
<1> QED BY <1>2, <1>3 DEF QuotaInv

-----------------------------------------------------------------------------
(* What a call was asked to write. *)

\* A call that goes on keeps its kind and its size.
LEMMA AskedBecome ==
  ASSUME TypeOK, AskedInv, NEW j \in Jobs, NEW call \in CallType, Become(j, call),
         \/ call.at \in {"idle", "over"}
         \/ call.size \in Sizes[call.kind]
         \/ /\ job[j].at \notin {"idle", "over"}
            /\ call.kind = job[j].kind /\ call.size = job[j].size
  PROVE  AskedInv'
<1>1. job'[j] = call /\ \A k \in Jobs \ {j} : job'[k] = job[k]
  BY BecomeTyped
<1>2. ASSUME NEW k \in Jobs, job'[k].at \notin {"idle", "over"}
      PROVE  job'[k].size \in Sizes[job'[k].kind]
  <2>1. CASE k = j
    BY <1>1, <1>2, <2>1 DEF AskedInv
  <2>2. CASE k # j
    BY <1>1, <1>2, <2>2 DEF AskedInv
  <2> QED BY <2>1, <2>2
<1> QED BY <1>2 DEF AskedInv

\* Only the first step of a call takes a size, and it is one of its kind.
LEMMA StepAsked ==
  ASSUME TypeOK, AskedInv, NEW j \in Jobs, Step(j)
  PROVE  AskedInv'
<1> job[j] \in CallType
  BY DEF TypeOK, CallType
<1>1. ASSUME NEW good \in BOOLEAN, End(j, good) PROVE AskedInv'
  <2> DEFINE call == [NoJob EXCEPT !.at = "over", !.ok = good, !.kind = job[j].kind,
                                   !.size = job[j].size, !.inode = job[j].inode]
  <2>1. call \in CallType /\ call.at = "over"
    BY DEF CallType, Stages, NoJob
  <2>2. Become(j, call)
    BY <1>1 DEF End
  <2> HIDE DEF call
  <2> QED BY <2>1, <2>2, AskedBecome
<1>2. ASSUME NEW stage \in Stages, Goto(j, stage), job[j].at \notin {"idle", "over"}
      PROVE  AskedInv'
  <2> DEFINE call == [job[j] EXCEPT !.at = stage]
  <2>1. call \in CallType /\ call.kind = job[j].kind /\ call.size = job[j].size
    BY DEF CallType
  <2>2. Become(j, call)
    BY <1>2 DEF Goto
  <2> HIDE DEF call
  <2> QED BY <1>2, <2>1, <2>2, AskedBecome
<1>3. ASSUME NEW kind \in Kinds, NEW f \in Names, NEW n \in Sizes[kind], NEW over \in BOOLEAN,
             Begin(j, kind, f, n, over)
      PROVE  AskedInv'
  <2> DEFINE begun   == [[NoJob EXCEPT !.kind = kind, !.to = f, !.size = n, !.over = over,
                                       !.existing = SizeAt(f)] EXCEPT !.at = "measure"]
             refused == [NoJob EXCEPT !.at = "over"]
  <2>1. /\ begun \in CallType /\ begun.size \in Sizes[begun.kind]
        /\ refused \in CallType /\ refused.at = "over"
    BY FiguresAreNat DEF NoJob, CallType, Stages
  <2>2. Become(j, begun) \/ Become(j, refused)
    BY <1>3 DEF Begin
  <2> HIDE DEF begun, refused
  <2> QED BY <2>1, <2>2, AskedBecome
<1>4. ASSUME Measure(j) PROVE AskedInv'
  <2> DEFINE filling == [job[j] EXCEPT !.at = "fill", !.used = Used]
             checked(at) == [job[j] EXCEPT !.at = at, !.existing = 0]
  <2>1. /\ filling \in CallType /\ filling.kind = job[j].kind /\ filling.size = job[j].size
        /\ \A at \in {"fill", "open"} :
             /\ checked(at) \in CallType
             /\ checked(at).kind = job[j].kind /\ checked(at).size = job[j].size
    BY FiguresAreNat DEF CallType, Stages
  <2>2. \/ Become(j, filling) \/ Become(j, checked("fill")) \/ Become(j, checked("open"))
        \/ End(j, FALSE)
    BY <1>4 DEF Measure
  <2>3. job[j].at = "measure"
    BY <1>4 DEF Measure
  <2> HIDE DEF filling, checked
  <2> QED BY <1>1, <2>1, <2>2, <2>3, AskedBecome
<1>5. ASSUME ReadChunk(j) \/ FillBytes(j) PROVE AskedInv'
  BY <1>2, <1>5 DEF ReadChunk, FillBytes, Stages
<1>6. ASSUME Replace(j) \/ Link(j) PROVE AskedInv'
  <2> DEFINE call == [job[j] EXCEPT !.at = "cleanup", !.ok = TRUE]
  <2>1. call \in CallType /\ call.kind = job[j].kind /\ call.size = job[j].size
    BY DEF CallType, Stages
  <2>2. Become(j, call) \/ Goto(j, "cleanup")
    BY <1>6 DEF Replace, Link
  <2>3. job[j].at \in {"publish", "fill"}
    BY <1>6 DEF Replace, Link
  <2> HIDE DEF call
  <2> QED BY <1>2, <2>1, <2>2, <2>3, AskedBecome DEF Stages
<1>7. ASSUME Open(j) PROVE AskedInv'
  <2> DEFINE i    == IF name[job[j].to] = None THEN j ELSE name[job[j].to]
             call == [job[j] EXCEPT !.at = "write", !.inode = i]
  <2>1. Become(j, call) /\ job[j].at = "open"
    BY <1>7 DEF Open
  <2>2. call.kind = job[j].kind /\ call.size = job[j].size
    BY DEF CallType
  <2>3. job'[j] = call /\ \A k \in Jobs \ {j} : job'[k] = job[k]
    BY <2>1 DEF Become, TypeOK
  <2> HIDE DEF call
  <2>4. ASSUME NEW k \in Jobs, job'[k].at \notin {"idle", "over"}
        PROVE  job'[k].size \in Sizes[job'[k].kind]
    <3>1. CASE k = j
      BY <2>1, <2>2, <2>3, <3>1 DEF AskedInv
    <3>2. CASE k # j
      BY <2>3, <2>4, <3>2 DEF AskedInv
    <3> QED BY <3>1, <3>2
  <2> QED BY <2>4 DEF AskedInv
<1>8. ASSUME Cleanup(j) PROVE AskedInv'
  <2>1. End(j, job[j].ok) /\ job[j].ok \in BOOLEAN
    BY <1>8 DEF Cleanup, CallType
  <2> QED BY <1>1, <2>1
<1>9. ASSUME WriteText(j) PROVE AskedInv'
  BY <1>1, <1>9 DEF WriteText
<1> QED BY <1>3, <1>4, <1>5, <1>6, <1>7, <1>8, <1>9 DEF Step

\* Nor does a deletion or a crash change what a call was asked for.
LEMMA NextAsked ==
  ASSUME TypeOK, AskedInv, [Next]_vars
  PROVE  AskedInv'
<1>1. CASE \/ (\E f \in Names : Delete(f)) \/ DeleteAll \/ UNCHANGED vars
  BY <1>1 DEF AskedInv, Delete, DeleteAll, vars
<1>2. ASSUME NEW kinds, Crash(kinds) PROVE AskedInv'
  <2>1. \A k \in Jobs : \/ job'[k] = job[k]
                        \/ Active(k) /\ job'[k] = [job[k] EXCEPT !.at = "crashed"]
    BY <1>2 DEF Crash
  <2>2. ASSUME NEW k \in Jobs, job'[k].at \notin {"idle", "over"}
        PROVE  job'[k].size \in Sizes[job'[k].kind]
    <3>1. job[k] \in CallType
      BY DEF TypeOK, CallType
    <3>2. /\ job'[k].size = job[k].size /\ job'[k].kind = job[k].kind
          /\ job[k].at \notin {"idle", "over"}
      BY <2>1, <2>2, <3>1 DEF CallType, Active
    <3> QED BY <3>2 DEF AskedInv
  <2> QED BY <2>2 DEF AskedInv
<1> QED BY <1>1, <1>2, StepAsked DEF Next

\* The invariant holds in every state, whatever the calls, the names, the quota
\* and the crashes.
THEOREM Inductive == Spec => []InductiveInv
<1>1. Init => InductiveInv
  BY InitFiles, InitQuota DEF FilesInv, InductiveInv, AskedInv, Init, NoJob
<1>2. InductiveInv /\ [Next]_vars => InductiveInv'
  <2> SUFFICES ASSUME InductiveInv, [Next]_vars PROVE InductiveInv'
    OBVIOUS
  <2>1. FilesInv /\ QuotaInv /\ AskedInv
    BY DEF InductiveInv, FilesInv
  <2>2. FilesInv'
    BY <2>1, NextFiles
  <2>3. QuotaInv'
    BY <2>1, <2>2, NextQuota DEF FilesInv
  <2>4. AskedInv'
    BY <2>1, NextAsked DEF FilesInv
  <2> QED BY <2>2, <2>3, <2>4 DEF FilesInv, InductiveInv
<1> QED BY <1>1, <1>2, PTL DEF Spec

\* What upload_file or write_bytes puts under a name is complete, unless a
\* write_text has opened the file.
THEOREM PublicationIsWhole == Spec => []PublishedWhole
<1>1. InductiveInv => PublishedWhole
  <2> SUFFICES ASSUME InductiveInv, NEW f \in Names, name[f] # None,
                      job[name[f]].kind # "text", \A j \in Jobs : job[j].inode # name[f]
               PROVE  Whole(name[f])
    BY DEF PublishedWhole
  <2> DEFINE i == name[f]
  <2>1. i \in Jobs
    BY DEF InductiveInv, TypeOK
  <2>2. ~Fresh(i)
    BY DEF Fresh
  <2>3. ~IsText(i)
    BY DEF IsText
  <2>4. job[i].ok
    BY <2>1, <2>2, <2>3 DEF InductiveInv, StageInv
  <2> QED BY <2>1, <2>3, <2>4 DEF InductiveInv, ContentInv
<1> QED BY <1>1, Inductive, PTL

\* A temporary file outlives its call only when the process crashed.
THEOREM TempIsRemoved == Spec => []NoLeftovers
<1>1. InductiveInv => NoLeftovers
  BY DEF InductiveInv, TypeOK, StageInv, Active, NoLeftovers
<1> QED BY <1>1, Inductive, PTL

\* A call that ended well has written its whole content, and only a write_text
\* with the same file open spoils it.
THEOREM SuccessCorrect == Spec => []SuccessIsWritten
<1>1. InductiveInv => SuccessIsWritten
  <2> SUFFICES ASSUME InductiveInv, NEW j \in Jobs, job[j].at = "over", job[j].ok,
                      NEW i, i = IF IsText(j) THEN job[j].inode ELSE j,
                      \A k \in Jobs \ {j} : job[k].inode # i
               PROVE  data[i] = Units(j, job[j].size)
    BY DEF SuccessIsWritten, IsText, Units
  <2>1. StageInv(j) /\ ContentInv(j) /\ TextInv(j)
    BY DEF InductiveInv
  <2>2. CASE IsText(j)
    BY <2>1, <2>2 DEF StageInv, TextInv
  <2>3. CASE ~IsText(j)
    BY <2>1, <2>3 DEF StageInv, ContentInv, Whole, Units
  <2> QED BY <2>2, <2>3
<1> QED BY <1>1, Inductive, PTL

\* The files get beyond the quota only once a call, or a deletion, came into
\* the midst of a call.
THEOREM QuotaKept == Spec => []QuotaKeptAlone
<1>1. InductiveInv => QuotaKeptAlone
  BY FiguresAreNat DEF InductiveInv, QuotaInv, QuotaKeptAlone
<1> QED BY <1>1, Inductive, PTL

\* write_bytes without overwrite never takes a name from another file.
THEOREM LinkIsExclusive == Spec => LinkNeverReplaces
<1> DEFINE Exclusive ==
      \A f \in Names, j \in Jobs :
        name'[f] # name[f] /\ name'[f] = j /\ job[j].kind = "bytes" /\ ~job[j].over
          => name[f] = None
<1>1. InductiveInv /\ [Next]_vars => [Exclusive]_vars
  <2> SUFFICES ASSUME InductiveInv, Next, NEW f \in Names, NEW j \in Jobs,
                      name'[f] # name[f], name'[f] = j, job[j].kind = "bytes", ~job[j].over
               PROVE  name[f] = None
    OBVIOUS
  <2> TypeOK
    BY DEF InductiveInv
  <2>1. PICK k \in Jobs : Replace(k) \/ Link(k) \/ Open(k)
    BY DEF Next, Step, Begin, Measure, ReadChunk, FillBytes, Cleanup, WriteText, Delete,
           DeleteAll, Crash, TypeOK
  <2>2. CASE Replace(k)
    BY <2>2 DEF Replace, TypeOK
  <2>3. CASE Link(k)
    BY <2>3 DEF Link, TypeOK
  <2>4. CASE Open(k)
    <3>1. job[k].kind = "text"
      BY <2>4 DEF Open, InductiveInv, StageInv, IsText
    <3> QED BY <2>4, <3>1 DEF Open, TypeOK
  <2> QED BY <2>1, <2>2, <2>3, <2>4
<1> QED BY <1>1, Inductive, PTL DEF Spec, LinkNeverReplaces

-----------------------------------------------------------------------------
(* The directory as its readers see it is a FileStore. *)

View == <<Files, Content, Writers>>

\* The functions of the view, name by name.
LEMMA ViewByName ==
  /\ Content \in [Names -> {Shown(f) : f \in Names}]
  /\ Writers \in [Names -> SUBSET Jobs]
  /\ \A f \in Names : Content[f] = Shown(f) /\ Writers[f] = HaveOpen(f)
BY DEF Content, Writers, HaveOpen

\* A name whose file is the same and is neither written, opened nor closed.
LEMMA SameName ==
  ASSUME NEW f \in Names, name'[f] = name[f],
         name[f] # None => data'[name[f]] = data[name[f]],
         \A k \in Jobs : (job'[k].at = "write" /\ job'[k].inode = name[f])
                        <=> (job[k].at = "write" /\ job[k].inode = name[f])
  PROVE  Shown(f)' = Shown(f) /\ HaveOpen(f)' = HaveOpen(f)
BY DEF Shown, HaveOpen

\* A step that changes no name, no file that has one and no write_text at its
\* write is not seen.
LEMMA Unseen ==
  ASSUME name' = name,
         \A f \in Names : name[f] # None => data'[name[f]] = data[name[f]],
         \A k \in Jobs : \/ job'[k].at # "write" /\ job[k].at # "write"
                         \/ job'[k].at = job[k].at /\ job'[k].inode = job[k].inode
  PROVE  View' = View
<1>1. \A f \in Names : Shown(f)' = Shown(f) /\ HaveOpen(f)' = HaveOpen(f)
  BY SameName
<1>2. Content' = Content /\ Writers' = Writers
  BY <1>1 DEF Content, Writers
<1>3. Files' = Files
  BY DEF Files
<1> QED BY <1>2, <1>3 DEF View

\* What a call does before it publishes, and after, it does to a file that
\* nobody sees, or to none.
LEMMA StagesUnseen ==
  ASSUME FilesInv, NEW j \in Jobs,
         \/ \E kind \in Kinds : \E f \in Names, n \in Sizes[kind], over \in BOOLEAN :
              Begin(j, kind, f, n, over)
         \/ Measure(j) \/ ReadChunk(j) \/ FillBytes(j) \/ Cleanup(j)
  PROVE  View' = View
<1> TypeOK /\ StageInv(j) /\ job[j] \in CallType
  BY DEF FilesInv, TypeOK, CallType
<1>1. PICK call : /\ Become(j, call) /\ call.at # "write" /\ name' = name
                  /\ job[j].at # "write"
  <2>1. ASSUME NEW kind \in Kinds, NEW f \in Names, NEW n \in Sizes[kind], NEW over \in BOOLEAN,
               Begin(j, kind, f, n, over)
        PROVE  \E call : Become(j, call) /\ call.at # "write" /\ name' = name /\ job[j].at # "write"
    BY <2>1 DEF Begin, NoJob
  <2>2. ASSUME NEW good, End(j, good), name' = name, job[j].at # "write"
        PROVE  \E call : Become(j, call) /\ call.at # "write" /\ name' = name /\ job[j].at # "write"
    BY <2>2 DEF End, NoJob
  <2>3. CASE Measure(j)
    <3> DEFINE filling == [job[j] EXCEPT !.at = "fill", !.used = Used]
               checked(at) == [job[j] EXCEPT !.at = at, !.existing = 0]
    <3>1. filling.at = "fill" /\ \A at \in {"fill", "open"} : checked(at).at = at
      BY DEF CallType
    <3>2. \/ Become(j, filling) \/ Become(j, checked("fill")) \/ Become(j, checked("open"))
          \/ End(j, FALSE)
      BY <2>3 DEF Measure
    <3>3. name' = name /\ job[j].at = "measure"
      BY <2>3 DEF Measure
    <3> HIDE DEF filling, checked
    <3> QED BY <2>2, <3>1, <3>2, <3>3
  <2>4. CASE ReadChunk(j) \/ FillBytes(j)
    BY <2>4 DEF ReadChunk, FillBytes, Goto, CallType
  <2>5. CASE Cleanup(j)
    BY <2>2, <2>5 DEF Cleanup
  <2> QED BY <2>1, <2>3, <2>4, <2>5
<1>2. job'[j] = call /\ \A k \in Jobs \ {j} : job'[k] = job[k]
  BY <1>1 DEF Become, TypeOK
<1>3. \A i \in Jobs : i # j \/ ~Fresh(j) => data'[i] = data[i]
  BY DEF StageInv, Begin, Measure, ReadChunk, FillBytes, Cleanup, TypeOK
<1>4. \A f \in Names : name[f] # None => data'[name[f]] = data[name[f]]
  BY <1>3 DEF Fresh, TypeOK
<1> QED BY <1>1, <1>2, <1>4, Unseen

\* A length a call was asked to write is one of the directory's.
LEMMA AskedLength ==
  ASSUME TypeOK, AskedInv, NEW j \in Jobs, job[j].at \notin {"idle", "over"}
  PROVE  job[j].size \in UNION {Sizes[kind] : kind \in Kinds}
<1>1. job[j].kind \in Kinds
  BY DEF TypeOK
<1>2. job[j].size \in Sizes[job[j].kind]
  BY DEF AskedInv
<1> QED BY <1>1, <1>2

\* os.replace and os.link show a whole file at once, or change nothing.
LEMMA PublishRefines ==
  ASSUME FilesInv, AskedInv, NEW j \in Jobs, Replace(j) \/ Link(j)
  PROVE  Store!Next \/ View' = View
<1> TypeOK /\ StageInv(j) /\ ContentInv(j) /\ job[j].at \in {"fill", "publish"}
    /\ job[j] \in CallType
  BY DEF FilesInv, TypeOK, CallType, Replace, Link
<1> PICK g \in Names : g = job[j].to
  BY DEF StageInv
<1> PICK n \in Nat : n = job[j].size
  BY DEF CallType
<1>1. Fresh(j)
  BY DEF StageInv
<1>2. data[j] = Units(j, n) /\ data' = data
  BY DEF Replace, Link, ContentInv, Whole, Units
<1>3. n \in UNION {Sizes[kind] : kind \in Kinds}
  BY AskedLength
<1>4. PICK call : Become(j, call) /\ call.at = "cleanup"
  <2> DEFINE good == [job[j] EXCEPT !.at = "cleanup", !.ok = TRUE]
             bad  == [job[j] EXCEPT !.at = "cleanup"]
  <2>1. good.at = "cleanup" /\ bad.at = "cleanup"
    BY DEF CallType
  <2>2. Become(j, good) \/ Become(j, bad)
    BY DEF Replace, Link, Goto
  <2> HIDE DEF good, bad
  <2> QED BY <2>1, <2>2
<1>5. job'[j] = call /\ \A k \in Jobs \ {j} : job'[k] = job[k]
  BY <1>4 DEF Become, TypeOK
<1>6. name' = name \/ name' = [name EXCEPT ![g] = j]
  BY DEF Replace, Link
<1>7. CASE name' = name
  BY <1>2, <1>4, <1>5, <1>7, Unseen
<1>8. CASE name' = [name EXCEPT ![g] = j]
  <2>1. name'[g] = j /\ \A f \in Names \ {g} : name'[f] = name[f]
    BY <1>1, <1>8 DEF TypeOK
  <2>2. \A f \in Names \ {g} : Shown(f)' = Shown(f) /\ HaveOpen(f)' = HaveOpen(f)
    BY <1>2, <1>4, <1>5, <2>1, SameName
  <2>3. Shown(g)' = Units(j, n)
    BY <1>2, <2>1 DEF Shown
  <2>4. HaveOpen(g)' = {}
    BY <1>1, <1>4, <1>5, <2>1 DEF HaveOpen, Fresh
  <2>5. Content' = [Content EXCEPT ![g] = Units(j, n)]
    BY <1>1, <2>2, <2>3 DEF Content
  <2>6. Writers' = [Writers EXCEPT ![g] = {}]
    BY <1>1, <2>2, <2>4 DEF Writers
  <2>7. Files' = Files \cup {g}
    BY <1>1, <2>1 DEF Files
  <2>8. Store!Put(g, j, n)
    BY <2>5, <2>6, <2>7 DEF Store!Put, Store!Units, Units
  <2> QED BY <1>1, <1>3, <2>8 DEF Store!Next
<1> QED BY <1>6, <1>7, <1>8

\* open empties the file of the name, which no other name shows.
LEMMA OpenRefines ==
  ASSUME FilesInv, NEW j \in Jobs, Open(j)
  PROVE  Store!Next
<1> TypeOK /\ OneName /\ StageInv(j) /\ job[j].at = "open" /\ job[j] \in CallType
  BY DEF FilesInv, TypeOK, CallType, Open
<1> PICK g \in Names : g = job[j].to
  BY DEF StageInv
<1> DEFINE i    == IF name[g] = None THEN j ELSE name[g]
           call == [job[j] EXCEPT !.at = "write", !.inode = i]
<1>1. /\ Become(j, call) /\ name' = [name EXCEPT ![g] = i] /\ data' = [data EXCEPT ![i] = <<>>]
      /\ call.at = "write" /\ call.inode = i /\ Fresh(j) /\ job[j].inode = None
  BY DEF Open, CallType, StageInv, IsText
<1>2. i \in Jobs
  BY DEF TypeOK
<1> HIDE DEF call
<1>3. /\ job'[j] = call /\ \A k \in Jobs \ {j} : job'[k] = job[k]
      /\ name'[g] = i /\ data'[i] = <<>> /\ \A k \in Jobs \ {i} : data'[k] = data[k]
  BY <1>1, <1>2 DEF Become, TypeOK
<1>4. \A f \in Names \ {g} : name'[f] = name[f] /\ name[f] # i
  BY <1>1 DEF TypeOK, OneName, Fresh
<1>5. \A f \in Names \ {g} : Shown(f)' = Shown(f) /\ HaveOpen(f)' = HaveOpen(f)
  <2> TAKE f \in Names \ {g}
  <2> HIDE DEF i
  <2>1. name'[f] = name[f] /\ (name[f] # None => data'[name[f]] = data[name[f]])
    BY <1>3, <1>4 DEF TypeOK
  <2>2. ASSUME NEW k \in Jobs
        PROVE  (job'[k].at = "write" /\ job'[k].inode = name[f])
                 <=> (job[k].at = "write" /\ job[k].inode = name[f])
    BY <1>1, <1>3, <1>4
  <2> QED BY <2>1, <2>2, SameName
<1>6. Shown(g)' = <<>>
  BY <1>2, <1>3 DEF Shown
<1>7. HaveOpen(g)' = HaveOpen(g) \cup {j}
  <2>1. HaveOpen(g)' = {k \in Jobs : job'[k].at = "write" /\ job'[k].inode = i}
    BY <1>2, <1>3 DEF HaveOpen
  <2>2. CASE name[g] = None
    BY <1>1, <1>3, <2>1, <2>2 DEF HaveOpen, Fresh
  <2>3. CASE name[g] # None
    BY <1>1, <1>3, <2>1, <2>3 DEF HaveOpen
  <2> QED BY <2>2, <2>3
<1> HIDE DEF i
<1>8. \A f \in Names : j \notin Writers[f]
  BY ViewByName DEF HaveOpen
<1>9. Content' = [Content EXCEPT ![g] = <<>>]
  BY <1>5, <1>6 DEF Content
<1>10. Writers' = [Writers EXCEPT ![g] = @ \cup {j}]
  BY <1>5, <1>7 DEF Writers
<1>11. Files' = Files \cup {g}
  BY <1>2, <1>3, <1>4 DEF Files
<1>12. Store!OpenText(g, j)
  BY <1>8, <1>9, <1>10, <1>11 DEF Store!OpenText
<1> QED BY <1>12 DEF Store!Next

\* What write_text writes is seen under the name its file has, if it has one.
LEMMA WriteTextRefines ==
  ASSUME FilesInv, AskedInv, NEW j \in Jobs, WriteText(j)
  PROVE  Store!Next \/ View' = View
<1> TypeOK /\ OneName /\ StageInv(j) /\ job[j].at = "write" /\ job[j] \in CallType
  BY DEF FilesInv, TypeOK, CallType, WriteText
<1> DEFINE i    == job[j].inode
           n    == job[j].size
           call == [NoJob EXCEPT !.at = "over", !.ok = TRUE, !.kind = job[j].kind,
                                 !.size = job[j].size, !.inode = job[j].inode]
           text == Store!Overwritten(data[i], j, n)
<1>1. /\ Become(j, call) /\ call.at = "over" /\ name' = name
      /\ data' = [data EXCEPT ![i] = text]
  BY DEF WriteText, End, NoJob, Store!Overwritten
<1>2. i \in Jobs
  BY DEF StageInv, TypeOK
<1>3. n \in UNION {Sizes[kind] : kind \in Kinds}
  BY AskedLength
<1> HIDE DEF call
<1>4. /\ job'[j] = call /\ \A k \in Jobs \ {j} : job'[k] = job[k]
  BY <1>1 DEF Become, TypeOK
<1> HIDE DEF text
<1>5. data'[i] = text /\ \A k \in Jobs \ {i} : data'[k] = data[k]
  BY <1>1, <1>2 DEF TypeOK
<1>6. \A f \in Names : name[f] # i => Shown(f)' = Shown(f) /\ HaveOpen(f)' = HaveOpen(f)
  BY <1>1, <1>4, <1>5, SameName DEF TypeOK
<1>7. Files' = Files
  BY <1>1 DEF Files
<1>8. CASE \A f \in Names : name[f] # i
  BY <1>6, <1>7, <1>8 DEF Content, Writers, View
<1>9. CASE \E f \in Names : name[f] = i
  <2> PICK g \in Names : name[g] = i
    BY <1>9
  <2>1. \A f \in Names \ {g} : Shown(f)' = Shown(f) /\ HaveOpen(f)' = HaveOpen(f)
    BY <1>2, <1>6 DEF OneName
  <2>2. Shown(g)' = text /\ Shown(g) = data[i]
    BY <1>1, <1>2, <1>5 DEF Shown
  <2>3. HaveOpen(g)' = HaveOpen(g) \ {j} /\ j \in HaveOpen(g)
    BY <1>1, <1>2, <1>4 DEF HaveOpen
  <2>4. Content' = [Content EXCEPT ![g] = text]
    BY <2>1, <2>2 DEF Content
  <2>5. Writers' = [Writers EXCEPT ![g] = @ \ {j}]
    BY <2>1, <2>3 DEF Writers
  <2>6. Content[g] = data[i] /\ j \in Writers[g]
    BY <2>2, <2>3, ViewByName
  <2>7. text = Store!Overwritten(Content[g], j, n)
    BY <2>6 DEF text
  <2> HIDE DEF i, n
  <2>8. Store!WriteText(g, j, n)
    BY <1>7, <2>4, <2>5, <2>6, <2>7 DEF Store!WriteText
  <2> QED BY <1>3, <2>8 DEF Store!Next
<1> QED BY <1>8, <1>9

\* A deletion takes names away, with what is seen under them.
LEMMA DeleteRefines ==
  ASSUME TypeOK, (\E f \in Names : Delete(f)) \/ DeleteAll
  PROVE  Store!Next
<1>1. ASSUME NEW F \in SUBSET Names, data' = data, job' = job,
             \A f \in Names : name'[f] = IF f \in F THEN None ELSE name[f]
      PROVE  Store!Remove(F)
  <2>1. \A f \in Names : Shown(f)' = IF f \in F THEN <<>> ELSE Content[f]
    BY <1>1, ViewByName DEF Shown
  <2>2. \A f \in Names : HaveOpen(f)' = IF f \in F THEN {} ELSE Writers[f]
    BY <1>1, ViewByName DEF HaveOpen
  <2>3. Files' = Files \ F
    BY <1>1 DEF Files
  <2>4. Content' = [f \in Names |-> IF f \in F THEN <<>> ELSE Content[f]]
    BY <2>1 DEF Content
  <2>5. Writers' = [f \in Names |-> IF f \in F THEN {} ELSE Writers[f]]
    BY <2>2 DEF Writers
  <2> QED BY <2>3, <2>4, <2>5 DEF Store!Remove
<1>2. ASSUME NEW g \in Names, Delete(g) PROVE Store!Next
  <2>1. Store!Remove({g})
    BY <1>1, <1>2 DEF Delete, TypeOK
  <2> QED BY <2>1 DEF Store!Next
<1>3. CASE DeleteAll
  <2>1. Store!Remove(Names)
    BY <1>1, <1>3 DEF DeleteAll
  <2> QED BY <2>1 DEF Store!Next
<1> QED BY <1>2, <1>3

\* After a crash the files are what they were, and its calls write no more.
LEMMA CrashRefines ==
  ASSUME TypeOK, NEW kinds \in SUBSET Kinds, Crash(kinds)
  PROVE  Store!Next
<1> DEFINE S == {k \in Jobs : Active(k) /\ job[k].kind \in kinds}
<1>1. UNCHANGED <<name, data>>
  BY DEF Crash
<1>2. \A k \in Jobs : job'[k] = IF k \in S THEN [job[k] EXCEPT !.at = "crashed"] ELSE job[k]
  BY DEF Crash
<1>3. \A k \in Jobs : IF k \in S THEN job'[k].at = "crashed" ELSE job'[k] = job[k]
  <2>1. \A k \in Jobs : job[k] \in CallType
    BY DEF TypeOK, CallType
  <2> HIDE DEF S
  <2> QED BY <1>2, <2>1 DEF CallType
<1> HIDE DEF S
<1>4. \A f \in Names : Shown(f)' = Shown(f)
  BY <1>1 DEF Shown
<1>5. \A f \in Names : HaveOpen(f)' = Writers[f] \ S
  BY <1>1, <1>3, ViewByName DEF HaveOpen
<1>6. Files' = Files /\ Content' = Content
  BY <1>1, <1>4 DEF Files, Content
<1>7. Writers' = [f \in Names |-> Writers[f] \ S]
  BY <1>5 DEF Writers
<1>8. Store!Stop(S) /\ S \in SUBSET Jobs
  BY <1>6, <1>7 DEF Store!Stop, S
<1> QED BY <1>8 DEF Store!Next

\* Every step is one of the store's, or is not seen.
LEMMA NextRefines ==
  ASSUME FilesInv, AskedInv, [Next]_vars
  PROVE  Store!Next \/ View' = View
<1> TypeOK
  BY DEF FilesInv
<1>1. ASSUME NEW j \in Jobs, Step(j) PROVE Store!Next \/ View' = View
  BY <1>1, StagesUnseen, PublishRefines, OpenRefines, WriteTextRefines DEF Step
<1>2. CASE (\E f \in Names : Delete(f)) \/ DeleteAll
  BY <1>2, DeleteRefines
<1>3. CASE Crash({"upload"}) \/ Crash({"bytes", "text"})
  <2>1. {"upload"} \in SUBSET Kinds /\ {"bytes", "text"} \in SUBSET Kinds
    OBVIOUS
  <2> QED BY <1>3, <2>1, CrashRefines
<1>4. CASE UNCHANGED vars
  <2>1. View' = View
    BY <1>4, Unseen DEF vars
  <2> QED BY <2>1
<1> QED BY <1>1, <1>2, <1>3, <1>4 DEF Next

\* An empty workspace is an empty store.
LEMMA InitRefines == Init => Store!Init
<1> SUFFICES ASSUME Init PROVE Store!Init
  OBVIOUS
<1>1. \A f \in Names : Shown(f) = <<>> /\ HaveOpen(f) = {}
  BY DEF Init, Shown, HaveOpen
<1>2. Files = {} /\ Content = [f \in Names |-> <<>>] /\ Writers = [f \in Names |-> {}]
  BY <1>1 DEF Init, Files, Content, Writers
<1> QED BY <1>2 DEF Store!Init

\* What readers of the directory see is a FileStore, whatever calls interleave,
\* fail or crash: uploads and write_bytes take effect in one step, or in none.
THEOREM Refinement == Spec => ImplementsFileStore
<1>1. InductiveInv /\ [Next]_vars => [Store!Next]_<<Files, Content, Writers>>
  <2>1. InductiveInv => FilesInv /\ AskedInv
    BY DEF InductiveInv, FilesInv
  <2> QED BY <2>1, NextRefines DEF View
<1> QED BY <1>1, InitRefines, Inductive, PTL DEF Spec, ImplementsFileStore, Store!Spec
=============================================================================
