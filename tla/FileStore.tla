----------------------------- MODULE FileStore ------------------------------
(***************************************************************************)
(* What the users of one workspace directory see of the calls that write   *)
(* to it: which names there are and what a reader finds under each.  An    *)
(* upload_file or write_bytes puts its whole content under a name in one   *)
(* step.  A write_text does not: from its open to its write the file is    *)
(* empty, two of them may write over each other, and what it writes goes   *)
(* nowhere when the name has been taken from the file it has open.         *)
(***************************************************************************)
EXTENDS Naturals, Sequences

CONSTANTS Jobs, Names, Lengths

VARIABLES
  files,     \* the names there are
  content,   \* what a reader finds under each
  writers    \* writers[f]: the calls of write_text that have f's file open

Units(j, n) == [k \in 1..n |-> j]

Init ==
  /\ files = {}
  /\ content = [f \in Names |-> <<>>]
  /\ writers = [f \in Names |-> {}]

\* The content is whole, and who had the former file open writes to f no more.
Put(f, j, n) ==
  /\ files' = files \cup {f}
  /\ content' = [content EXCEPT ![f] = Units(j, n)]
  /\ writers' = [writers EXCEPT ![f] = {}]

OpenText(f, j) ==
  /\ \A g \in Names : j \notin writers[g]
  /\ files' = files \cup {f}
  /\ content' = [content EXCEPT ![f] = <<>>]
  /\ writers' = [writers EXCEPT ![f] = @ \cup {j}]

\* From the start of the file, over what others have written since.
Overwritten(old, j, n) ==
  [k \in 1..(IF Len(old) > n THEN Len(old) ELSE n) |-> IF k <= n THEN j ELSE old[k]]

WriteText(f, j, n) ==
  /\ j \in writers[f]
  /\ content' = [content EXCEPT ![f] = Overwritten(@, j, n)]
  /\ writers' = [writers EXCEPT ![f] = @ \ {j}]
  /\ UNCHANGED files

\* One file, or all.
Remove(F) ==
  /\ files' = files \ F
  /\ content' = [f \in Names |-> IF f \in F THEN <<>> ELSE content[f]]
  /\ writers' = [f \in Names |-> IF f \in F THEN {} ELSE writers[f]]

\* The process of these calls stops: what they have emptied stays empty.
Stop(S) ==
  /\ writers' = [f \in Names |-> writers[f] \ S]
  /\ UNCHANGED <<files, content>>

Next ==
  \/ \E f \in Names, j \in Jobs : \/ \E n \in Lengths : Put(f, j, n) \/ WriteText(f, j, n)
                                  \/ OpenText(f, j)
  \/ \E f \in Names : Remove({f})
  \/ Remove(Names)
  \/ \E S \in SUBSET Jobs : Stop(S)

Spec == Init /\ [][Next]_<<files, content, writers>>
=============================================================================
