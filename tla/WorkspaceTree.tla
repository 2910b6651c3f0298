--------------------------- MODULE WorkspaceTree ---------------------------
(***************************************************************************)
(* The files of one user as WorkspaceManager (agent_api/workspace.py)      *)
(* changes them, one whole call at a time.  The agent's filesystem tools   *)
(* pass the model's arguments to these calls unchanged, so a source, a     *)
(* destination and overwrite come in every combination.                    *)
(*                                                                         *)
(* A path is the sequence of its names from the root, already resolved;    *)
(* the content of a file is a sequence of units and its size their number. *)
(* Symbolic links, which no call here creates, are left out.               *)
(***************************************************************************)
EXTENDS Naturals, SequencesExt

CONSTANTS
  Names,     \* the names of files and directories
  Agent,     \* .agent, where the runtime keeps its state
  Shell,     \* shell_executions
  Layout,    \* the directories of ensure_layout, in its order
  Payloads,  \* what a call writes or appends
  Quota,     \* quota_bytes, in units
  Paths,     \* the paths the system takes; bound on the tree
  Named      \* bound on the paths a call names

ASSUME NamesAssumption  == {Agent, Shell} \subseteq Names
ASSUME QuotaAssumption  == Quota \in Nat
ASSUME PathsAssumption  == Named \subseteq Paths /\ Paths \subseteq Seq(Names) /\ IsFiniteSet(Paths)

Above(p)    == {SubSeq(p, 1, i) : i \in 0..(Len(p) - 1)}
Below(p, S) == {q \in S : IsPrefix(p, q)}
Rebase(q, src, dst) == dst \o SubSeq(q, Len(src) + 1, Len(q))

Contents == Seq(UNION {ToSet(c) : c \in Payloads})

\* A directory of the layout comes after those it is in.
ASSUME LayoutAssumption ==
  /\ Layout \in Seq(Paths)
  /\ \A i \in DOMAIN Layout : Above(Layout[i]) \subseteq {Layout[j] : j \in 1..(i - 1)}
ASSUME PayloadsAssumption == Payloads \subseteq Contents

VARIABLES
  dirs,    \* the directories there are
  files,   \* the files there are, each with its content
  raised   \* whether the last call ended in an exception

vars == <<dirs, files, raised>>

Entries == dirs \cup DOMAIN files

\* A file has no entry below it, and every entry but the root a parent.
TypeOK ==
  /\ dirs \subseteq Seq(Names)
  /\ DOMAIN files \subseteq Seq(Names) /\ IsFiniteSet(DOMAIN files)
  /\ files \in [DOMAIN files -> Contents]
  /\ dirs \cap DOMAIN files = {}
  /\ \A p \in Entries : Above(p) \subseteq dirs
  /\ raised \in BOOLEAN

Init ==
  /\ dirs = ToSet(Layout)
  /\ files = [p \in {} |-> <<>>]
  /\ raised = FALSE

-----------------------------------------------------------------------------
(* The pieces of a call.                                                   *)

\* used_bytes over the files of S; a directory counts with what is in it.
Size(S) ==
  SumFunctionOnSet([p \in DOMAIN files |-> Len(files[p])], S \cap DOMAIN files)
Used    == Size(DOMAIN files)

\* The check without the bytes to come.
OverQuotaBefore(new, replaced) == Used > Quota + replaced

OverQuota(new, replaced) == Used + new > Quota + replaced

\* mkdir(parents=True, exist_ok=True) of the directories S.
CanMake(S) == S \cap DOMAIN files = {}

\* The files when the entry p alone is gone.
WithoutEntry(p) == [q \in DOMAIN files \ {p} |-> files[q]]

\* The files left when p is gone, and the files with p holding c.
Without(p)    == [q \in DOMAIN files \ Below(p, DOMAIN files) |-> files[q]]
Holding(p, c) == [q \in DOMAIN files \cup {p} |-> IF q = p THEN c ELSE files[q]]

Leave(D, F) ==
  /\ D \cup DOMAIN F \subseteq Paths
  /\ dirs' = D
  /\ files' = F

Return(D, F) == Leave(D, F) /\ raised' = FALSE
Raise(D, F)  == Leave(D, F) /\ raised' = TRUE

-----------------------------------------------------------------------------
(* The calls.                                                              *)

\* Stops at the first directory whose place a file has taken.
EnsureLayout ==
  \E k \in 0..Len(Layout) :
    LET made == dirs \cup {Layout[i] : i \in 1..k} IN
    /\ \A i \in 1..k : Layout[i] \notin DOMAIN files
    /\ \/ k = Len(Layout) /\ Return(made, files)
       \/ k < Len(Layout) /\ Layout[k + 1] \in DOMAIN files /\ Raise(made, files)

\* The quota noticed when the old file is already gone.
WriteTextThenCheck(p, c, overwrite) ==
  LET refused == p \in dirs \/ (p \in DOMAIN files /\ ~overwrite) IN
  /\ CanMake(Above(p))
  /\ \/ refused /\ Raise(dirs \cup Above(p), files)
     \/ ~refused /\ OverQuota(Len(c), Size({p})) /\ Raise(dirs \cup Above(p), Without(p))
     \/ ~refused /\ ~OverQuota(Len(c), Size({p})) /\ Return(dirs \cup Above(p), Holding(p, c))

\* The parents are made before anything is refused.
WriteText(p, c, overwrite) ==
  LET made    == dirs \cup Above(p)
      refused == \/ p \in dirs
                 \/ p \in DOMAIN files /\ ~overwrite
                 \/ OverQuota(Len(c), Size({p}))
  IN  \/ ~CanMake(Above(p)) /\ Raise(dirs, files)
      \/ CanMake(Above(p)) /\ refused /\ Raise(made, files)
      \/ CanMake(Above(p)) /\ ~refused /\ Return(made, Holding(p, c))

AppendText(p, c) ==
  LET made    == dirs \cup Above(p)
      refused == p \in dirs \/ OverQuota(Size({p}) + Len(c), Size({p}))
      before  == IF p \in DOMAIN files THEN files[p] ELSE <<>>
  IN  \/ ~CanMake(Above(p)) /\ Raise(dirs, files)
      \/ CanMake(Above(p)) /\ refused /\ Raise(made, files)
      \/ CanMake(Above(p)) /\ ~refused /\ Return(made, Holding(p, before \o c))

MakeDirectory(p) ==
  LET wanted == Above(p) \cup {p} IN
  \/ CanMake(wanted) /\ Return(dirs \cup wanted, files)
  \/ ~CanMake(wanted) /\ Raise(dirs, files)

Protected(p) == p = <<>> \/ IsPrefix(<<Agent>>, p) \/ p = <<Shell>>

\* rmdir takes an empty directory only.
DeletePath(p, recursive) ==
  LET refused == \/ Protected(p)
                 \/ p \notin Entries
                 \/ p \in dirs /\ ~recursive /\ Below(p, Entries) # {p}
  IN  \/ refused /\ Raise(dirs, files)
      \/ ~refused /\ Return(dirs \ Below(p, dirs), Without(p))

\* Without a look at the destination.
RefusedBySource(src, dst, overwrite) == <<Shell>> \in {src, dst} \/ src \notin Entries

\* What copy_path and move_path refuse before they change anything.
Refused(src, dst, overwrite) ==
  \/ <<Shell>> \in {src, dst}
  \/ src \notin Entries
  \/ dst \in Entries /\ ~overwrite

\* copytree lists a directory before it makes its copy, so a copy to a new
\* child ends; one further down finds itself again.
Endless(src, dst) == IsPrefix(src, dst) /\ Len(dst) > Len(src) + 1

\* It then copies its copies until the names get too long for the system, here
\* for Paths, and raises.  What it has copied stays: below dst some entries,
\* each the image of one that is there; which, the order of the listing says.
CopyEndlessly(src, dst) ==
  LET made   == (dirs \cup Above(dst)) \ Below(dst, dirs)
      kept   == Without(dst)
      old(q) == Rebase(q, dst, src)
  IN  \E D \in SUBSET Below(dst, Paths) :
        /\ dst \in D
        /\ \A q \in D : Above(q) \subseteq made \cup D
        /\ \A q \in D \ {dst} : old(q) \in made \cup D
        /\ \E F \in SUBSET (Below(dst, Paths) \ D) :
             /\ \A q \in F : Above(q) \subseteq made \cup D /\ old(q) \in DOMAIN kept \cup F
             /\ \E copy \in [F -> {kept[q] : q \in DOMAIN kept}] :
                  LET all == [q \in DOMAIN kept \cup F |-> IF q \in F THEN copy[q] ELSE kept[q]]
                  IN  (\A q \in F : all[q] = all[old(q)]) /\ Raise(made \cup D, all)

\* rmtree of the old destination comes first, and may take the source with it;
\* rmtree of a file is an error.
CopyTree(src, dst) ==
  LET made  == (dirs \cup Above(dst)) \ Below(dst, dirs)
      kept  == Without(dst)
      image == {Rebase(q, src, dst) : q \in Below(src, DOMAIN kept)}
      old(q) == Rebase(q, dst, src)
  IN  /\ src \in dirs
      /\ \/ /\ dst \in DOMAIN files
            /\ Raise(dirs, files)
         \/ /\ dst \notin DOMAIN files /\ IsPrefix(dst, src)
            /\ Raise(made, kept)
         \/ /\ dst \notin DOMAIN files /\ Endless(src, dst)
            /\ CopyEndlessly(src, dst)
         \/ /\ dst \notin DOMAIN files /\ ~IsPrefix(dst, src)
            /\ ~Endless(src, dst)
            /\ Return(made \cup {Rebase(q, src, dst) : q \in Below(src, made)},
                      [q \in DOMAIN kept \cup image |->
                         IF q \in image THEN files[old(q)] ELSE files[q]])

\* copy2 puts a file that is copied onto a directory into it.
CopyFile(src, dst) ==
  LET made   == dirs \cup Above(dst)
      target == IF dst \in dirs THEN Append(dst, Last(src)) ELSE dst
  IN  /\ src \in DOMAIN files
      /\ \/ target \in dirs \cup {src} /\ Raise(made, files)
         \/ target \notin dirs \cup {src} /\ Return(made, Holding(target, files[src]))

CopyPath(src, dst, overwrite) ==
  LET refused == \/ Refused(src, dst, overwrite)
                 \/ OverQuota(Size(Below(src, Entries)), Size(Below(dst, Entries)))
                 \/ ~CanMake(Above(dst))
  IN  \/ refused /\ Raise(dirs, files)
      \/ ~refused /\ (CopyTree(src, dst) \/ CopyFile(src, dst))

\* The old destination is gone before the rename is tried: it fails when the
\* source went with it, and when the source would move into itself.
MovePath(src, dst, overwrite) ==
  LET refused == Refused(src, dst, overwrite) \/ ~CanMake(Above(dst))
      made    == (dirs \cup Above(dst)) \ Below(dst, dirs)
      kept    == Without(dst)
      stay(S) == {q \in S : ~IsPrefix(src, q)}
      image   == {Rebase(q, src, dst) : q \in Below(src, DOMAIN kept)}
      old(q)  == Rebase(q, dst, src)
      failed  == IsPrefix(dst, src) \/ IsPrefix(src, dst)
  IN  \/ refused /\ Raise(dirs, files)
      \/ ~refused /\ failed /\ Raise(made, kept)
      \/ /\ ~refused /\ ~failed
         /\ Return(stay(made) \cup {Rebase(q, src, dst) : q \in Below(src, made)},
                   [q \in stay(DOMAIN kept) \cup image |->
                      IF q \in image THEN files[old(q)] ELSE files[q]])

Next ==
  \/ EnsureLayout
  \/ \E p \in Named, c \in Payloads :
       (\E o \in BOOLEAN : WriteText(p, c, o)) \/ AppendText(p, c)
  \/ \E p \in Named :
       (\E r \in BOOLEAN : DeletePath(p, r)) \/ MakeDirectory(p)
  \/ \E p, q \in Named, o \in BOOLEAN : CopyPath(p, q, o) \/ MovePath(p, q, o)

Spec == Init /\ [][Next]_vars

-----------------------------------------------------------------------------
(* Properties.                                                             *)

Kept(p) ==
  \/ p \in DOMAIN files' /\ IsPrefix(files[p], files'[p])
  \/ \E q \in DOMAIN files' \ DOMAIN files : files'[q] = files[p]

\* A call that was not told to overwrite or delete loses nothing: every file
\* is still there, at most longer, or has its content at a path that was free.
NothingLostUnasked ==
  [][(\E f \in DOMAIN files : ~Kept(f)) =>
       /\ ~EnsureLayout
       /\ \A p \in Named : ~MakeDirectory(p)
       /\ \A p \in Named, c \in Payloads : ~(WriteText(p, c, FALSE) \/ AppendText(p, c))
       /\ \A p, q \in Named : ~(CopyPath(p, q, FALSE) \/ MovePath(p, q, FALSE))]_vars

\* The files of F that are not at or below p.
Outside(p, F) == [q \in DOMAIN F \ Below(p, DOMAIN F) |-> F[q]]

\* A call that ends in an exception has changed files in two cases only, both
\* with a source and a destination that lie one in the other: a copy or a move
\* with overwrite, and a copy far below itself.  Even then only the files at
\* and below the destination are touched.
FailureTouchesOnlyNested ==
  [][raised' /\ files' # files =>
       \E src, dst \in Named, o \in BOOLEAN :
         /\ IsPrefix(src, dst) \/ IsPrefix(dst, src)
         /\ o \/ (src \in dirs /\ Endless(src, dst))
         /\ CopyPath(src, dst, o) \/ MovePath(src, dst, o)
         /\ Outside(dst, files') = Without(dst)]_vars

\* A user gets further over the quota in two ways only.  One is to copy a file
\* onto a directory: the quota check counts the directory as replaced, while
\* copy2 puts the file into it.  The other is to copy a directory far below
\* itself: the check counts one copy, copytree makes as many as fit.
OverQuotaOnlyByCopy ==
  [][Used' > Quota /\ Used' > Used =>
       \E src, dst \in Named, o \in BOOLEAN :
         /\ \/ src \in DOMAIN files /\ dst \in dirs
            \/ src \in dirs /\ Endless(src, dst)
         /\ CopyPath(src, dst, o)]_vars

\* implementacija_uporabnikov (1).md:236 asks that deleting the root of the
\* workspace and its protected runtime directories is refused; a move that
\* takes such a directory elsewhere is not counted as deleting it.
DeletionRefused ==
  [][\A p \in {<<>>, <<Agent>>, <<Shell>>} \cap (dirs \ dirs') :
       \E q \in Named, o \in BOOLEAN : MovePath(p, q, o) /\ ~raised']_vars
=============================================================================
