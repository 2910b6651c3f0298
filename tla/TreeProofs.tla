----------------------------- MODULE TreeProofs -----------------------------
(***************************************************************************)
(* Proofs about WorkspaceTree, for every set of names, every finite set of *)
(* paths, every quota and every content: the tree stays a tree, what was   *)
(* not to be overwritten or deleted is still there, and a failure and the  *)
(* quota have the two exceptions each that the properties name.            *)
(***************************************************************************)
EXTENDS WorkspaceTree, Sums, SequenceTheorems, TLAPS

Path == Seq(Names)

-----------------------------------------------------------------------------
(* Paths: what is above and below what.                                    *)

\* A prefix, name by name.
LEMMA PrefixByNames ==
  ASSUME NEW p \in Path, NEW q \in Path
  PROVE  IsPrefix(p, q) <=> Len(p) <= Len(q) /\ \A i \in 1..Len(p) : p[i] = q[i]
<1>1. Len(p) \in Nat /\ Len(q) \in Nat
  BY LenProperties DEF Path
<1>2. SubSeq(p, 1, Len(p)) = p
  BY SubSeqFull DEF Path
<1>3. ASSUME Len(p) <= Len(q)
      PROVE  /\ SubSeq(q, 1, Len(p)) \in Path /\ Len(SubSeq(q, 1, Len(p))) = Len(p)
             /\ \A i \in 1..Len(p) : SubSeq(q, 1, Len(p))[i] = q[i]
  <2>1. \A i \in 1..Len(p) : q[i] \in Names
    BY <1>1, <1>3, ElementOfSeq DEF Path
  <2> QED BY <1>1, <2>1, SubSeqProperties DEF Path
<1>4. ASSUME Len(p) <= Len(q)
      PROVE  (p = SubSeq(q, 1, Len(p))) <=> \A i \in 1..Len(p) : p[i] = q[i]
  BY <1>3, <1>4, SeqEqual DEF Path
<1> QED BY <1>2, <1>4 DEF IsPrefix

\* Two paths that lie below each other are one.
LEMMA PrefixAntisymmetric ==
  ASSUME NEW p \in Path, NEW q \in Path, IsPrefix(p, q), IsPrefix(q, p)
  PROVE  p = q
<1>1. Len(p) \in Nat /\ Len(q) \in Nat
  BY LenProperties DEF Path
<1>2. Len(p) = Len(q) /\ \A i \in 1..Len(p) : p[i] = q[i]
  BY <1>1, PrefixByNames
<1> QED BY <1>2, SeqEqual DEF Path

\* What lies below something that lies below a path, lies below the path.
LEMMA PrefixTransitive ==
  ASSUME NEW p \in Path, NEW q \in Path, NEW r \in Path, IsPrefix(p, q), IsPrefix(q, r)
  PROVE  IsPrefix(p, r)
<1>1. Len(p) \in Nat /\ Len(q) \in Nat /\ Len(r) \in Nat
  BY LenProperties DEF Path
<1>2. /\ Len(p) <= Len(q) /\ \A i \in 1..Len(p) : p[i] = q[i]
      /\ Len(q) <= Len(r) /\ \A i \in 1..Len(q) : q[i] = r[i]
  BY PrefixByNames
<1>3. Len(p) <= Len(r) /\ \A i \in 1..Len(p) : p[i] = r[i]
  BY <1>1, <1>2
<1> QED BY <1>3, PrefixByNames

\* A path lies below itself.
LEMMA PrefixReflexive == ASSUME NEW p \in Path PROVE IsPrefix(p, p)
BY PrefixByNames, LenProperties DEF Path

\* Of two paths above a third one lies below the other.
LEMMA PrefixLinear ==
  ASSUME NEW p \in Path, NEW q \in Path, NEW r \in Path, IsPrefix(p, r), IsPrefix(q, r)
  PROVE  IsPrefix(p, q) \/ IsPrefix(q, p)
<1>1. Len(p) \in Nat /\ Len(q) \in Nat /\ Len(r) \in Nat
  BY LenProperties DEF Path
<1>2. /\ Len(p) <= Len(r) /\ \A i \in 1..Len(p) : p[i] = r[i]
      /\ Len(q) <= Len(r) /\ \A i \in 1..Len(q) : q[i] = r[i]
  BY PrefixByNames
<1>3. CASE Len(p) <= Len(q)
  <2>1. \A i \in 1..Len(p) : p[i] = q[i]
    BY <1>1, <1>2, <1>3
  <2> QED BY <1>3, <2>1, PrefixByNames
<1>4. CASE Len(q) <= Len(p)
  <2>1. \A i \in 1..Len(q) : q[i] = p[i]
    BY <1>1, <1>2, <1>4
  <2> QED BY <1>4, <2>1, PrefixByNames
<1> QED BY <1>1, <1>3, <1>4

\* Above a path is what the path lies below, without itself.
LEMMA AboveIsPrefix ==
  ASSUME NEW p \in Path
  PROVE  Above(p) = {q \in Path : IsPrefix(q, p) /\ q # p}
<1>1. Len(p) \in Nat
  BY LenProperties DEF Path
<1>2. ASSUME NEW i \in 0..(Len(p) - 1)
      PROVE  /\ SubSeq(p, 1, i) \in Path /\ IsPrefix(SubSeq(p, 1, i), p)
             /\ SubSeq(p, 1, i) # p
  <2>1. \A k \in 1..i : p[k] \in Names
    BY <1>1, ElementOfSeq DEF Path
  <2>2. /\ SubSeq(p, 1, i) \in Path /\ Len(SubSeq(p, 1, i)) = i
        /\ \A k \in 1..i : SubSeq(p, 1, i)[k] = p[k]
    BY <1>1, <2>1, SubSeqProperties DEF Path
  <2>3. i <= Len(p) /\ i # Len(p) /\ i \in Nat
    BY <1>1
  <2>4. SubSeq(p, 1, i) # p
    BY <2>2, <2>3
  <2>5. IsPrefix(SubSeq(p, 1, i), p)
    BY <2>2, <2>3, PrefixByNames
  <2> QED BY <2>2, <2>4, <2>5
<1>3. ASSUME NEW q \in Path, IsPrefix(q, p), q # p
      PROVE  \E i \in 0..(Len(p) - 1) : q = SubSeq(p, 1, i)
  <2>1. Len(q) \in Nat /\ Len(q) <= Len(p) /\ \A i \in 1..Len(q) : q[i] = p[i]
    BY <1>3, PrefixByNames, LenProperties DEF Path
  <2>2. Len(q) # Len(p)
    BY <1>3, <2>1, SeqEqual DEF Path
  <2>3. q = SubSeq(q, 1, Len(q)) /\ SubSeq(q, 1, Len(q)) = SubSeq(p, 1, Len(q))
    BY <1>3, SubSeqFull DEF IsPrefix, Path
  <2>4. Len(q) \in 0..(Len(p) - 1) /\ q = SubSeq(p, 1, Len(q))
    BY <1>1, <2>1, <2>2, <2>3
  <2> QED BY <2>4
<1> QED BY <1>2, <1>3 DEF Above

\* A path taken from below src to below dst, name by name.
LEMMA RebaseByNames ==
  ASSUME NEW src \in Path, NEW dst \in Path, NEW q \in Path, IsPrefix(src, q)
  PROVE  /\ Rebase(q, src, dst) \in Path
         /\ Len(Rebase(q, src, dst)) = Len(dst) + Len(q) - Len(src)
         /\ \A i \in 1..(Len(dst) + Len(q) - Len(src)) :
              Rebase(q, src, dst)[i] = IF i <= Len(dst) THEN dst[i]
                                       ELSE q[i - Len(dst) + Len(src)]
<1> DEFINE n == Len(q) - Len(src)
           rest == SubSeq(q, Len(src) + 1, Len(q))
<1>1. Len(src) \in Nat /\ Len(dst) \in Nat /\ Len(q) \in Nat /\ Len(src) <= Len(q)
  BY PrefixByNames, LenProperties DEF Path
<1>2. \A i \in (Len(src) + 1)..Len(q) : q[i] \in Names
  BY <1>1, ElementOfSeq DEF Path
<1>3. /\ rest \in Path /\ Len(rest) = n
      /\ \A i \in 1..n : rest[i] = q[Len(src) + i]
  <2>1. Len(src) + 1 \in Int /\ Len(q) \in Int
    BY <1>1
  <2>2. /\ rest \in Path
        /\ Len(rest) = IF Len(src) + 1 <= Len(q) THEN Len(q) - (Len(src) + 1) + 1 ELSE 0
        /\ \A i \in 1..(Len(q) - (Len(src) + 1) + 1) : rest[i] = q[(Len(src) + 1) + i - 1]
    BY <1>2, <2>1, SubSeqProperties DEF Path
  <2> QED BY <1>1, <2>2
<1> HIDE DEF rest
<1>4. /\ dst \o rest \in Path /\ Len(dst \o rest) = Len(dst) + n
      /\ \A i \in 1..(Len(dst) + n) :
           (dst \o rest)[i] = IF i <= Len(dst) THEN dst[i] ELSE rest[i - Len(dst)]
  <2>1. /\ dst \o rest \in Path /\ Len(dst \o rest) = Len(dst) + Len(rest)
        /\ \A i \in 1..(Len(dst) + Len(rest)) :
             (dst \o rest)[i] = IF i <= Len(dst) THEN dst[i] ELSE rest[i - Len(dst)]
    BY <1>3, ConcatProperties DEF Path
  <2> QED BY <1>3, <2>1
<1> QED BY <1>1, <1>3, <1>4 DEF Rebase, rest

\* What Rebase takes below dst it can take back.
LEMMA RebaseBack ==
  ASSUME NEW src \in Path, NEW dst \in Path, NEW q \in Path, IsPrefix(src, q)
  PROVE  /\ Rebase(q, src, dst) \in Path /\ IsPrefix(dst, Rebase(q, src, dst))
         /\ Rebase(Rebase(q, src, dst), dst, src) = q
<1> DEFINE r == Rebase(q, src, dst)
<1>1. /\ Len(src) \in Nat /\ Len(dst) \in Nat /\ Len(q) \in Nat /\ Len(src) <= Len(q)
      /\ \A i \in 1..Len(src) : src[i] = q[i]
  BY PrefixByNames, LenProperties DEF Path
<1>2. /\ r \in Path /\ Len(r) = Len(dst) + Len(q) - Len(src)
      /\ \A i \in 1..Len(r) : r[i] = IF i <= Len(dst) THEN dst[i]
                                     ELSE q[i - Len(dst) + Len(src)]
  BY RebaseByNames
<1> HIDE DEF r
<1>3. IsPrefix(dst, r)
  <2>1. Len(dst) <= Len(r) /\ \A i \in 1..Len(dst) : dst[i] = r[i]
    BY <1>1, <1>2
  <2> QED BY <1>2, <2>1, PrefixByNames
<1>4. /\ Rebase(r, dst, src) \in Path
      /\ Len(Rebase(r, dst, src)) = Len(src) + Len(r) - Len(dst)
      /\ \A i \in 1..(Len(src) + Len(r) - Len(dst)) :
           Rebase(r, dst, src)[i] = IF i <= Len(src) THEN src[i]
                                    ELSE r[i - Len(src) + Len(dst)]
  BY <1>2, <1>3, RebaseByNames
<1>5. Len(Rebase(r, dst, src)) = Len(q)
  BY <1>1, <1>2, <1>4
<1>6. \A i \in 1..Len(q) : Rebase(r, dst, src)[i] = q[i]
  BY <1>1, <1>2, <1>4
<1>7. Rebase(r, dst, src) = q
  BY <1>4, <1>5, <1>6, SeqEqual DEF Path
<1> QED BY <1>2, <1>3, <1>7 DEF r

\* Rebase keeps what is below what.
LEMMA RebaseMonotone ==
  ASSUME NEW src \in Path, NEW dst \in Path, NEW p \in Path, NEW q \in Path,
         IsPrefix(src, p), IsPrefix(p, q)
  PROVE  IsPrefix(Rebase(p, src, dst), Rebase(q, src, dst))
<1>1. IsPrefix(src, q)
  BY PrefixTransitive
<1>2. /\ Len(src) \in Nat /\ Len(dst) \in Nat /\ Len(p) \in Nat /\ Len(q) \in Nat
      /\ Len(src) <= Len(p) /\ Len(p) <= Len(q)
      /\ \A i \in 1..Len(p) : p[i] = q[i]
  BY PrefixByNames, LenProperties DEF Path
<1> DEFINE r == Rebase(p, src, dst)
           s == Rebase(q, src, dst)
<1>3. /\ r \in Path /\ Len(r) = Len(dst) + Len(p) - Len(src)
      /\ \A i \in 1..Len(r) : r[i] = IF i <= Len(dst) THEN dst[i]
                                     ELSE p[i - Len(dst) + Len(src)]
  BY RebaseByNames
<1>4. /\ s \in Path /\ Len(s) = Len(dst) + Len(q) - Len(src)
      /\ \A i \in 1..Len(s) : s[i] = IF i <= Len(dst) THEN dst[i]
                                     ELSE q[i - Len(dst) + Len(src)]
  <2>1. /\ s \in Path /\ Len(s) = Len(dst) + Len(q) - Len(src)
        /\ \A i \in 1..(Len(dst) + Len(q) - Len(src)) :
             s[i] = IF i <= Len(dst) THEN dst[i] ELSE q[i - Len(dst) + Len(src)]
    BY <1>1, RebaseByNames
  <2> HIDE DEF s
  <2> QED BY <2>1
<1> HIDE DEF r, s
<1>5. Len(r) <= Len(s) /\ \A i \in 1..Len(r) : r[i] = s[i]
  <2>1. Len(r) <= Len(s)
    BY <1>2, <1>3, <1>4
  <2>2. ASSUME NEW i \in 1..Len(r) PROVE r[i] = s[i]
    <3>1. i \in 1..Len(s)
      BY <1>2, <1>3, <1>4
    <3>2. CASE i <= Len(dst)
      BY <1>3, <1>4, <3>1, <3>2
    <3>3. CASE ~(i <= Len(dst))
      <4>1. i - Len(dst) + Len(src) \in 1..Len(p)
        BY <1>2, <1>3, <3>3
      <4> QED BY <1>2, <1>3, <1>4, <3>1, <3>3, <4>1
    <3> QED BY <3>2, <3>3
  <2> QED BY <2>1, <2>2
<1>6. IsPrefix(r, s)
  BY <1>3, <1>4, <1>5, PrefixByNames
<1> QED BY <1>6 DEF r, s

\* What lies in a directory d is d's child, or lies in a child: above a child
\* is d, and what is above d.
LEMMA AboveChild ==
  ASSUME NEW d \in Path, NEW n \in Names, NEW q \in Path, IsPrefix(q, Append(d, n))
  PROVE  Append(d, n) \in Path /\ (q = Append(d, n) \/ IsPrefix(q, d))
<1> DEFINE c == Append(d, n)
<1>1. /\ c \in Path /\ Len(c) = Len(d) + 1 /\ Len(d) \in Nat
      /\ \A i \in 1..Len(d) : c[i] = d[i]
  BY AppendProperties, LenProperties DEF Path
<1> HIDE DEF c
<1>2. Len(q) \in Nat /\ Len(q) <= Len(c) /\ \A i \in 1..Len(q) : q[i] = c[i]
  BY <1>1, PrefixByNames, LenProperties DEF Path, c
<1>3. CASE Len(q) = Len(c)
  BY <1>1, <1>2, <1>3, SeqEqual DEF Path, c
<1>4. CASE Len(q) # Len(c)
  <2>1. Len(q) <= Len(d) /\ \A i \in 1..Len(q) : q[i] = d[i]
    BY <1>1, <1>2, <1>4
  <2> QED BY <1>1, <2>1, PrefixByNames DEF c
<1> QED BY <1>1, <1>3, <1>4 DEF c

-----------------------------------------------------------------------------
(* Trees.                                                                  *)

\* The directories D and the files F are a tree.
Tree(D, F) ==
  /\ D \subseteq Path /\ DOMAIN F \subseteq Path /\ D \cap DOMAIN F = {}
  /\ IsFiniteSet(DOMAIN F) /\ F \in [DOMAIN F -> Contents]
  /\ \A p \in D \cup DOMAIN F, q \in Path : IsPrefix(q, p) => q = p \/ q \in D

\* It is, when every entry has its parents.
LEMMA TreeByAbove ==
  ASSUME NEW D, NEW F, D \subseteq Path, DOMAIN F \subseteq Path
  PROVE  (\A p \in D \cup DOMAIN F : Above(p) \subseteq D)
           <=> \A p \in D \cup DOMAIN F, q \in Path : IsPrefix(q, p) => q = p \/ q \in D
BY AboveIsPrefix

\* The type invariant says so of the tree, in this state and the next.
LEMMA TypeIsTree == TypeOK <=> Tree(dirs, files) /\ raised \in BOOLEAN
BY TreeByAbove DEF TypeOK, Tree, Entries, Path

\* The same of the next state, where the lemma above cannot be cited.
LEMMA NextTypeIsTree == TypeOK' <=> Tree(dirs', files') /\ raised' \in BOOLEAN
<1> DEFINE D == dirs'
           F == files'
<1>1. D \subseteq Path /\ DOMAIN F \subseteq Path =>
        ((\A p \in D \cup DOMAIN F : Above(p) \subseteq D)
           <=> \A p \in D \cup DOMAIN F, q \in Path : IsPrefix(q, p) => q = p \/ q \in D)
  <2> HIDE DEF D, F
  <2> QED BY TreeByAbove
<1> QED BY <1>1 DEF TypeOK, Tree, Entries, Path

\* A call leaves a tree.
LEMMA EndsInTree ==
  ASSUME NEW D, NEW F, Tree(D, F), Return(D, F) \/ Raise(D, F)
  PROVE  TypeOK'
BY NextTypeIsTree DEF Return, Raise, Leave

\* mkdir with parents makes a tree of a tree.
LEMMA MakeTree ==
  ASSUME NEW D, NEW F, Tree(D, F), NEW p \in Path, Above(p) \cap DOMAIN F = {}
  PROVE  /\ Tree(D \cup Above(p), F)
         /\ p \notin DOMAIN F => Tree(D \cup Above(p) \cup {p}, F)
<1> DEFINE E == D \cup Above(p)
<1>1. E \subseteq Path /\ \A q \in Path : IsPrefix(q, p) => q = p \/ q \in E
  BY AboveIsPrefix DEF Tree
<1>2. ASSUME NEW r \in Above(p), NEW q \in Path, IsPrefix(q, r) PROVE q = r \/ q \in E
  <2>1. r \in Path /\ IsPrefix(r, p) /\ r # p
    BY AboveIsPrefix
  <2>2. IsPrefix(q, p) /\ q # p
    BY <1>2, <2>1, PrefixTransitive, PrefixAntisymmetric
  <2> QED BY <2>2, AboveIsPrefix
<1>3. \A r \in D \cup DOMAIN F, q \in Path : IsPrefix(q, r) => q = r \/ q \in E
  BY DEF Tree
<1> HIDE DEF E
<1>4. E = D \cup Above(p)
  BY DEF E
<1> QED BY <1>1, <1>2, <1>3, <1>4 DEF Tree

\* A file in a free place of a directory, or the place of a file.
LEMMA HoldTree ==
  ASSUME NEW D, NEW F, Tree(D, F), NEW p \in Path, p \notin D, Above(p) \subseteq D,
         NEW c \in Contents
  PROVE  Tree(D, [q \in DOMAIN F \cup {p} |-> IF q = p THEN c ELSE F[q]])
<1> DEFINE G == [q \in DOMAIN F \cup {p} |-> IF q = p THEN c ELSE F[q]]
<1>1. DOMAIN G = DOMAIN F \cup {p} /\ IsFiniteSet(DOMAIN F \cup {p})
  BY FS_AddElement DEF Tree
<1>2. G \in [DOMAIN G -> Contents]
  BY DEF Tree
<1>3. \A q \in Path : IsPrefix(q, p) => q = p \/ q \in D
  BY AboveIsPrefix
<1> HIDE DEF G
<1>4. Tree(D, G)
  BY <1>1, <1>2, <1>3 DEF Tree
<1> QED BY <1>4 DEF G

\* What is left when p is gone.
LEMMA PruneTree ==
  ASSUME NEW D, NEW F, Tree(D, F), NEW p \in Path
  PROVE  Tree(D \ Below(p, D), [q \in DOMAIN F \ Below(p, DOMAIN F) |-> F[q]])
<1> DEFINE G == [q \in DOMAIN F \ Below(p, DOMAIN F) |-> F[q]]
           E == D \ Below(p, D)
<1>1. /\ DOMAIN G = DOMAIN F \ Below(p, DOMAIN F)
      /\ IsFiniteSet(DOMAIN F \ Below(p, DOMAIN F))
  BY FS_Subset DEF Tree
<1>2. G \in [DOMAIN G -> Contents]
  BY DEF Tree
<1>3. ASSUME NEW r \in E \cup DOMAIN G, NEW q \in Path, IsPrefix(q, r) PROVE q = r \/ q \in E
  <2>1. r \in Path /\ ~IsPrefix(p, r) /\ r \in D \cup DOMAIN F
    BY <1>1 DEF Tree, Below
  <2>2. ~IsPrefix(p, q)
    BY <1>3, <2>1, PrefixTransitive
  <2> QED BY <1>3, <2>1, <2>2 DEF Tree, Below
<1>4. E \subseteq D /\ DOMAIN G \subseteq DOMAIN F
  BY <1>1
<1> HIDE DEF G, E
<1>5. Tree(E, G)
  BY <1>1, <1>2, <1>3, <1>4 DEF Tree
<1> QED BY <1>5 DEF G, E

\* What copy and move make: of the tree D, F the part K stays, and what is below
\* src is below dst as well, where nothing has stayed.
Image(S, src, dst) == {Rebase(q, src, dst) : q \in Below(src, S)}

Graft(F, K, src, dst) ==
  [q \in (DOMAIN F \cap K) \cup Image(DOMAIN F, src, dst) |->
     IF q \in Image(DOMAIN F, src, dst) THEN F[Rebase(q, dst, src)] ELSE F[q]]

\* A path of the image, and where it comes from.
LEMMA ImageBack ==
  ASSUME NEW S \in SUBSET Path, NEW src \in Path, NEW dst \in Path,
         NEW r \in Image(S, src, dst)
  PROVE  /\ r \in Path /\ IsPrefix(dst, r)
         /\ Rebase(r, dst, src) \in S /\ IsPrefix(src, Rebase(r, dst, src))
         /\ Rebase(Rebase(r, dst, src), src, dst) = r
<1>1. PICK q \in S : IsPrefix(src, q) /\ r = Rebase(q, src, dst)
  BY DEF Image, Below
<1> QED BY <1>1, RebaseBack

\* The image of what is below src lies in the image.
LEMMA ImageOf ==
  ASSUME NEW S \in SUBSET Path, NEW src \in Path, NEW dst \in Path,
         NEW q \in S, IsPrefix(src, q)
  PROVE  Rebase(q, src, dst) \in Image(S, src, dst)
BY DEF Image, Below

\* The image of finitely many paths is finite.
LEMMA ImageFinite ==
  ASSUME NEW S \in SUBSET Path, IsFiniteSet(S), NEW src \in Path, NEW dst \in Path
  PROVE  IsFiniteSet(Image(S, src, dst))
<1> DEFINE B == Below(src, S)
           b == [q \in B |-> Rebase(q, src, dst)]
           f == [q \in B |-> 0]
           h == [q \in Image(S, src, dst) |-> 0]
<1>1. IsFiniteSet(B)
  BY FS_Subset DEF Below
<1>2. \A x, y \in B : b[x] = b[y] => x = y
  BY RebaseBack DEF Below
<1>3. (\A x \in B : f[x] \in Nat) /\ (\A x \in B : h[b[x]] = f[x])
  BY DEF Image
<1>4. /\ \A x \in B : b[x] \in Image(S, src, dst)
      /\ \A y \in Image(S, src, dst) : \E x \in B : y = b[x]
  BY DEF Image
<1> HIDE DEF b, f, h, B
<1> QED BY <1>1, <1>2, <1>3, <1>4, SumOfImage

\* With the directories that go along, it is a tree again.
LEMMA GraftTree ==
  ASSUME NEW D, NEW F, Tree(D, F), NEW K, NEW src \in Path, NEW dst \in Path,
         \A p \in (D \cup DOMAIN F) \cap K, q \in D : IsPrefix(q, p) => q \in K,
         Above(dst) \subseteq D \cap K,
         \A p \in (D \cup DOMAIN F) \cap K : ~IsPrefix(dst, p)
  PROVE  Tree((D \cap K) \cup Image(D, src, dst), Graft(F, K, src, dst))
<1> DEFINE E == (D \cap K) \cup Image(D, src, dst)
           G == Graft(F, K, src, dst)
           I == Image(DOMAIN F, src, dst)
<1>1. D \in SUBSET Path /\ DOMAIN F \in SUBSET Path
  BY DEF Tree
<1>2. DOMAIN G = (DOMAIN F \cap K) \cup I
  BY DEF Graft
<1>3. E \subseteq Path /\ DOMAIN G \subseteq Path
  BY <1>1, <1>2, ImageBack
<1>4. IsFiniteSet(DOMAIN G)
  <2>1. IsFiniteSet(DOMAIN F \cap K) /\ IsFiniteSet(I)
    BY <1>1, FS_Subset, ImageFinite DEF Tree
  <2> QED BY <1>2, <2>1, FS_Union
<1>5. G \in [DOMAIN G -> Contents]
  <2>1. \A q \in I : Rebase(q, dst, src) \in DOMAIN F
    BY <1>1, ImageBack
  <2>2. \A q \in DOMAIN F : F[q] \in Contents
    BY DEF Tree
  <2> QED BY <1>2, <2>1, <2>2 DEF Graft
<1>6. E \cap DOMAIN G = {}
  <2> SUFFICES ASSUME NEW r \in E, r \in DOMAIN G PROVE FALSE
    OBVIOUS
  <2>1. CASE r \in D \cap K /\ r \in DOMAIN F \cap K
    BY <2>1 DEF Tree
  <2>2. CASE r \in D \cap K /\ r \in I
    BY <1>1, <2>2, ImageBack
  <2>3. CASE r \in Image(D, src, dst) /\ r \in DOMAIN F \cap K
    BY <1>1, <2>3, ImageBack
  <2>4. CASE r \in Image(D, src, dst) /\ r \in I
    <3>1. Rebase(r, dst, src) \in D /\ Rebase(r, dst, src) \in DOMAIN F
      BY <1>1, <2>4, ImageBack
    <3> QED BY <3>1 DEF Tree
  <2> QED BY <1>2, <2>1, <2>2, <2>3, <2>4
<1>7. ASSUME NEW r \in E \cup DOMAIN G, NEW q \in Path, IsPrefix(q, r) PROVE q = r \/ q \in E
  <2>1. CASE r \in (D \cup DOMAIN F) \cap K
    BY <1>7, <2>1 DEF Tree
  <2>2. ASSUME NEW S \in {D, DOMAIN F}, r \in Image(S, src, dst) PROVE q = r \/ q \in E
    <3> DEFINE s == Rebase(r, dst, src)
    <3>1. /\ r \in Path /\ IsPrefix(dst, r) /\ s \in S /\ IsPrefix(src, s)
          /\ Rebase(s, src, dst) = r /\ s \in Path /\ S \in SUBSET Path
      BY <1>1, <2>2, ImageBack
    <3>2. CASE IsPrefix(dst, q)
      <4> DEFINE t == Rebase(q, dst, src)
      <4>1. t \in Path /\ IsPrefix(src, t) /\ Rebase(t, src, dst) = q
        BY <3>2, RebaseBack
      <4>2. IsPrefix(t, s)
        BY <1>7, <3>1, <3>2, RebaseMonotone
      <4> HIDE DEF s, t
      <4>3. t = s \/ t \in D
        BY <3>1, <4>1, <4>2 DEF Tree
      <4> QED BY <1>1, <3>1, <4>1, <4>3, ImageOf
    <3>3. CASE ~IsPrefix(dst, q)
      <4>1. IsPrefix(q, dst) /\ q # dst
        BY <1>7, <3>1, <3>3, PrefixLinear, PrefixReflexive
      <4>2. q \in Above(dst)
        BY <4>1, AboveIsPrefix
      <4> QED BY <4>2
    <3> QED BY <3>2, <3>3
  <2> QED BY <1>2, <1>7, <2>1, <2>2
<1> HIDE DEF E, G
<1>8. Tree(E, G)
  BY <1>3, <1>4, <1>5, <1>6, <1>7 DEF Tree
<1> QED BY <1>8 DEF E, G

-----------------------------------------------------------------------------
(* The calls keep the tree.                                                *)

\* No path is above itself, or below what is below it.
LEMMA NotAbove ==
  ASSUME NEW p \in Path, NEW q \in Above(p)
  PROVE  q \in Path /\ IsPrefix(q, p) /\ q # p /\ ~IsPrefix(p, q)
BY AboveIsPrefix, PrefixAntisymmetric

\* The tree without the old destination, whose parents are made.
LEMMA ClearTree ==
  ASSUME NEW D, NEW F, Tree(D, F), NEW dst \in Path, Above(dst) \cap DOMAIN F = {},
         NEW E, E = (D \cup Above(dst)) \ Below(dst, D),
         NEW G, G = [q \in DOMAIN F \ Below(dst, DOMAIN F) |-> F[q]]
  PROVE  /\ Tree(E, G)
         /\ Above(dst) \subseteq E
         /\ \A p \in E \cup DOMAIN G : ~IsPrefix(dst, p)
<1>1. Tree(D \cup Above(dst), F)
  BY MakeTree
<1>2. \A q \in Above(dst) : ~IsPrefix(dst, q)
  BY NotAbove
<1>3. E = (D \cup Above(dst)) \ Below(dst, D \cup Above(dst))
  BY <1>2 DEF Below
<1>4. Tree(E, G)
  <2>1. Tree((D \cup Above(dst)) \ Below(dst, D \cup Above(dst)),
             [q \in DOMAIN F \ Below(dst, DOMAIN F) |-> F[q]])
    BY <1>1, PruneTree, Zenon
  <2> QED BY <1>3, <2>1, Zenon
<1> QED BY <1>2, <1>3, <1>4 DEF Below

\* ensure_layout makes each directory after its parents.
LEMMA EnsureLayoutType == ASSUME TypeOK, EnsureLayout PROVE TypeOK'
<1>1. PICK k \in 0..Len(Layout) :
        /\ \A i \in 1..k : Layout[i] \notin DOMAIN files
        /\ \/ Return(dirs \cup {Layout[i] : i \in 1..k}, files)
           \/ Raise(dirs \cup {Layout[i] : i \in 1..k}, files)
  BY DEF EnsureLayout
<1> DEFINE made == dirs \cup {Layout[i] : i \in 1..k}
<1>2. Len(Layout) \in Nat /\ DOMAIN Layout = 1..Len(Layout)
  BY LayoutAssumption, LenProperties DEF LayoutAssumption
<1>3. \A i \in 1..k : Layout[i] \in Path /\ Above(Layout[i]) \subseteq made
  <2> SUFFICES ASSUME NEW i \in 1..k
               PROVE  Layout[i] \in Path /\ Above(Layout[i]) \subseteq made
    OBVIOUS
  <2>1. i \in 1..Len(Layout) /\ \A j \in 1..(i - 1) : j \in 1..k
    BY <1>2
  <2>2. Layout[i] \in Path
    BY <2>1, LayoutAssumption, PathsAssumption, ElementOfSeq
       DEF LayoutAssumption, PathsAssumption, Path
  <2>3. Above(Layout[i]) \subseteq {Layout[j] : j \in 1..(i - 1)}
    BY <1>2, <2>1, LayoutAssumption DEF LayoutAssumption
  <2> QED BY <2>1, <2>2, <2>3
<1>4. Tree(dirs, files)
  BY TypeIsTree
<1>5. Tree(made, files)
  <2>1. ASSUME NEW p \in made \cup DOMAIN files, NEW q \in Path, IsPrefix(q, p)
        PROVE  q = p \/ q \in made
    BY <1>3, <1>4, <2>1, AboveIsPrefix DEF Tree
  <2>2. made \subseteq Path /\ made \cap DOMAIN files = {}
    BY <1>1, <1>3, <1>4 DEF Tree
  <2> HIDE DEF made
  <2> QED BY <1>4, <2>1, <2>2 DEF Tree
<1> QED BY <1>1, <1>5, EndsInTree

\* write_text and append_text.
LEMMA WriteType ==
  ASSUME TypeOK, NEW p \in Named, NEW c \in Payloads,
         (\E o \in BOOLEAN : WriteText(p, c, o)) \/ AppendText(p, c)
  PROVE  TypeOK'
<1> DEFINE made == dirs \cup Above(p)
<1>1. Tree(dirs, files) /\ p \in Path /\ c \in Contents
  BY TypeIsTree, PathsAssumption, PayloadsAssumption
     DEF PathsAssumption, PayloadsAssumption, Path
<1>2. p \notin Above(p)
  BY <1>1, NotAbove
<1>3. PICK d :
        \/ Raise(dirs, files)
        \/ CanMake(Above(p)) /\ Raise(made, files)
        \/ /\ CanMake(Above(p)) /\ p \notin dirs
           /\ Return(made, Holding(p, d)) /\ d \in Contents
  <2>1. CASE \E o \in BOOLEAN : WriteText(p, c, o)
    BY <1>1, <2>1 DEF WriteText
  <2>2. CASE AppendText(p, c)
    <3> DEFINE before == IF p \in DOMAIN files THEN files[p] ELSE <<>>
    <3>1. before \in Contents
      BY <1>1, EmptySeq DEF Tree, Contents
    <3>2. before \o c \in Contents
      BY <1>1, <3>1, ConcatProperties DEF Contents
    <3> QED BY <2>2, <3>2 DEF AppendText
  <2> QED BY <2>1, <2>2
<1>4. CASE Raise(dirs, files)
  BY <1>1, <1>4, EndsInTree
<1>5. ASSUME CanMake(Above(p)) PROVE Tree(made, files)
  BY <1>1, <1>5, MakeTree DEF CanMake
<1>6. CASE CanMake(Above(p)) /\ Raise(made, files)
  BY <1>5, <1>6, EndsInTree
<1>7. CASE /\ CanMake(Above(p)) /\ p \notin dirs
           /\ Return(made, Holding(p, d)) /\ d \in Contents
  <2>1. Tree(made, Holding(p, d))
    <3>1. p \notin made /\ Above(p) \subseteq made
      BY <1>2, <1>7
    <3> QED BY <1>1, <1>5, <1>7, <3>1, HoldTree DEF Holding
  <2> QED BY <1>7, <2>1, EndsInTree
<1> QED BY <1>3, <1>4, <1>6, <1>7

\* make_directory and delete_path.
LEMMA DirectoryType ==
  ASSUME TypeOK, NEW p \in Named, MakeDirectory(p) \/ \E r \in BOOLEAN : DeletePath(p, r)
  PROVE  TypeOK'
<1>1. Tree(dirs, files) /\ p \in Path
  BY TypeIsTree, PathsAssumption DEF PathsAssumption, Path
<1>2. CASE Raise(dirs, files)
  BY <1>1, <1>2, EndsInTree
<1>3. CASE CanMake(Above(p) \cup {p}) /\ Return(dirs \cup (Above(p) \cup {p}), files)
  <2>1. Above(p) \cap DOMAIN files = {} /\ p \notin DOMAIN files
    BY <1>3 DEF CanMake
  <2>2. Tree(dirs \cup Above(p) \cup {p}, files)
    BY <1>1, <2>1, MakeTree
  <2>3. dirs \cup Above(p) \cup {p} = dirs \cup (Above(p) \cup {p})
    OBVIOUS
  <2> QED BY <1>3, <2>2, <2>3, EndsInTree
<1>4. CASE Return(dirs \ Below(p, dirs), Without(p))
  <2>1. Tree(dirs \ Below(p, dirs), Without(p))
    BY <1>1, PruneTree DEF Without
  <2> QED BY <1>4, <2>1, EndsInTree
<1> QED BY <1>2, <1>3, <1>4 DEF MakeDirectory, DeletePath

\* A copy far below itself leaves a tree, and away from the destination the
\* files as they were.
LEMMA EndlessOutcome ==
  ASSUME TypeOK, NEW src \in Path, NEW dst \in Path, CanMake(Above(dst)),
         CopyEndlessly(src, dst)
  PROVE  \E D, F : Tree(D, F) /\ Raise(D, F) /\ Outside(dst, F) = Without(dst)
<1> DEFINE made == (dirs \cup Above(dst)) \ Below(dst, dirs)
           kept == Without(dst)
           old(q) == Rebase(q, dst, src)
<1>1. PICK D \in SUBSET Below(dst, Paths) :
        /\ \A q \in D : Above(q) \subseteq made \cup D
        /\ \E F \in SUBSET (Below(dst, Paths) \ D) :
             /\ \A q \in F : Above(q) \subseteq made \cup D
             /\ \E copy \in [F -> {kept[q] : q \in DOMAIN kept}] :
                  Raise(made \cup D,
                        [q \in DOMAIN kept \cup F |-> IF q \in F THEN copy[q] ELSE kept[q]])
  <2>1. PICK D \in SUBSET Below(dst, Paths) :
          /\ \A q \in D : Above(q) \subseteq made \cup D
          /\ \E F \in SUBSET (Below(dst, Paths) \ D) :
               /\ \A q \in F : Above(q) \subseteq made \cup D /\ old(q) \in DOMAIN kept \cup F
               /\ \E copy \in [F -> {kept[q] : q \in DOMAIN kept}] :
                    LET all == [q \in DOMAIN kept \cup F |-> IF q \in F THEN copy[q] ELSE kept[q]]
                    IN  (\A q \in F : all[q] = all[old(q)]) /\ Raise(made \cup D, all)
    BY DEF CopyEndlessly
  <2>2. PICK F \in SUBSET (Below(dst, Paths) \ D) :
          /\ \A q \in F : Above(q) \subseteq made \cup D
          /\ \E copy \in [F -> {kept[q] : q \in DOMAIN kept}] :
               Raise(made \cup D,
                     [q \in DOMAIN kept \cup F |-> IF q \in F THEN copy[q] ELSE kept[q]])
    BY <2>1
  <2> HIDE DEF made, kept
  <2> QED BY <2>1, <2>2
<1>2. PICK F \in SUBSET (Below(dst, Paths) \ D) :
        /\ \A q \in F : Above(q) \subseteq made \cup D
        /\ \E copy \in [F -> {kept[q] : q \in DOMAIN kept}] :
             Raise(made \cup D,
                   [q \in DOMAIN kept \cup F |-> IF q \in F THEN copy[q] ELSE kept[q]])
  BY <1>1, Zenon
<1>3. PICK copy \in [F -> {kept[q] : q \in DOMAIN kept}] :
        Raise(made \cup D,
              [q \in DOMAIN kept \cup F |-> IF q \in F THEN copy[q] ELSE kept[q]])
  BY <1>2, Zenon
<1> DEFINE all == [q \in DOMAIN kept \cup F |-> IF q \in F THEN copy[q] ELSE kept[q]]
<1>4. /\ Tree(made, kept) /\ \A p \in made \cup DOMAIN kept : ~IsPrefix(dst, p)
  <2>1. Tree(dirs, files) /\ Above(dst) \cap DOMAIN files = {}
    BY TypeIsTree DEF CanMake
  <2> QED BY <2>1, ClearTree DEF Without
<1>5. /\ \A q \in D \cup F : q \in Path /\ IsPrefix(dst, q)
      /\ D \cap F = {} /\ IsFiniteSet(F)
  BY PathsAssumption, FS_Subset DEF PathsAssumption, Below, Path
<1>6. DOMAIN all = DOMAIN kept \cup F
  OBVIOUS
<1>7. /\ \A q \in F : all[q] = copy[q] /\ copy[q] \in {kept[r] : r \in DOMAIN kept}
      /\ \A q \in DOMAIN kept : all[q] = kept[q]
  BY <1>4, <1>5
<1>8. Outside(dst, all) = Without(dst)
  <2>1. DOMAIN all \ Below(dst, DOMAIN all) = DOMAIN kept
    BY <1>4, <1>5, <1>6 DEF Below
  <2>2. kept = [q \in DOMAIN kept |-> kept[q]]
    BY DEF Without
  <2> HIDE DEF all, kept
  <2>3. Outside(dst, all) = [q \in DOMAIN kept |-> all[q]]
    BY <2>1 DEF Outside
  <2>4. [q \in DOMAIN kept |-> all[q]] = [q \in DOMAIN kept |-> kept[q]]
    BY <1>7
  <2>5. Outside(dst, all) = kept
    BY <2>2, <2>3, <2>4
  <2> QED BY <2>5 DEF kept
<1> HIDE DEF all, made, kept
<1>9. Tree(made \cup D, all)
  <2>1. made \cup D \subseteq Path /\ DOMAIN all \subseteq Path
    BY <1>4, <1>5, <1>6 DEF Tree
  <2>2. (made \cup D) \cap DOMAIN all = {}
    BY <1>4, <1>5, <1>6 DEF Tree
  <2>3. IsFiniteSet(DOMAIN all)
    <3>1. IsFiniteSet(DOMAIN kept)
      BY <1>4 DEF Tree
    <3>2. IsFiniteSet(DOMAIN kept \cup F)
      BY <1>5, <3>1, FS_Union
    <3> QED BY <1>6, <3>2
  <2>4. all \in [DOMAIN all -> Contents]
    <3>1. \A q \in DOMAIN kept : kept[q] \in Contents
      BY <1>4 DEF Tree
    <3>2. \A q \in DOMAIN all : all[q] \in Contents
      BY <1>6, <1>7, <3>1
    <3>3. all = [q \in DOMAIN all |-> all[q]]
      BY DEF all
    <3> QED BY <3>2, <3>3
  <2>5. ASSUME NEW p \in (made \cup D) \cup DOMAIN all, NEW q \in Path, IsPrefix(q, p)
        PROVE  q = p \/ q \in made \cup D
    <3>1. CASE p \in made \cup DOMAIN kept
      BY <1>4, <2>5, <3>1 DEF Tree
    <3>2. CASE p \in D \cup F
      <4>1. Above(p) \subseteq made \cup D
        BY <1>1, <1>2, <3>2 DEF made, kept
      <4>2. p \in Path
        BY <1>5, <3>2
      <4> QED BY <2>5, <4>1, <4>2, AboveIsPrefix
    <3> QED BY <1>6, <2>5, <3>1, <3>2
  <2> QED BY <2>1, <2>2, <2>3, <2>4, <2>5 DEF Tree
<1> QED BY <1>3, <1>8, <1>9 DEF all, made, kept

\* What copy_path and move_path refuse leaves the tree as it was.
LEMMA CopyType ==
  ASSUME TypeOK, NEW src \in Named, NEW dst \in Named, NEW o \in BOOLEAN,
         CopyPath(src, dst, o)
  PROVE  TypeOK'
<1>1. Tree(dirs, files) /\ src \in Path /\ dst \in Path
  BY TypeIsTree, PathsAssumption DEF PathsAssumption, Path
<1>2. CASE Raise(dirs, files)
  BY <1>1, <1>2, EndsInTree
<1>3. CASE CanMake(Above(dst)) /\ CopyTree(src, dst)
  <2> DEFINE made == (dirs \cup Above(dst)) \ Below(dst, dirs)
             kept == Without(dst)
             K    == made \cup DOMAIN kept
             grafted == Graft(kept, K, src, dst)
  <2>1. /\ Tree(made, kept) /\ Above(dst) \subseteq made
        /\ \A p \in made \cup DOMAIN kept : ~IsPrefix(dst, p)
    <3>1. Above(dst) \cap DOMAIN files = {}
      BY <1>3 DEF CanMake
    <3>2. kept = [q \in DOMAIN files \ Below(dst, DOMAIN files) |-> files[q]]
      BY DEF Without
    <3> HIDE DEF kept, K, grafted
    <3> QED BY <1>1, <3>1, <3>2, ClearTree, SMTT(60)
  <2>2. CASE Raise(made, kept)
    BY <2>1, <2>2, EndsInTree
  <2>3. Tree((made \cap K) \cup Image(made, src, dst), grafted)
    <3> HIDE DEF made, kept
    <3> QED BY <1>1, <2>1, GraftTree
  <2>4. grafted = [q \in DOMAIN kept \cup Image(DOMAIN kept, src, dst) |->
                     IF q \in Image(DOMAIN kept, src, dst)
                     THEN files[Rebase(q, dst, src)] ELSE files[q]]
    <3>1. \A q \in DOMAIN kept : kept[q] = files[q]
      BY DEF Without
    <3>2. DOMAIN kept \in SUBSET Path /\ DOMAIN kept \cap K = DOMAIN kept
      BY <2>1 DEF Tree
    <3> HIDE DEF kept, K
    <3>3. grafted = [q \in (DOMAIN kept \cap K) \cup Image(DOMAIN kept, src, dst) |->
                       IF q \in Image(DOMAIN kept, src, dst)
                       THEN files[Rebase(q, dst, src)] ELSE files[q]]
      <4>1. \A q \in Image(DOMAIN kept, src, dst) : Rebase(q, dst, src) \in DOMAIN kept
        BY <1>1, <3>2, ImageBack
      <4> QED BY <3>1, <4>1 DEF Graft
    <3> QED BY <3>2, <3>3
  <2>5. made \cap K = made
    OBVIOUS
  <2>6. CASE Return(made \cup Image(made, src, dst), grafted)
    <3> HIDE DEF made, grafted, K
    <3> QED BY <2>3, <2>5, <2>6, EndsInTree
  <2>7. \/ Raise(dirs, files) \/ Raise(made, kept) \/ CopyEndlessly(src, dst)
        \/ Return(made \cup Image(made, src, dst), grafted)
    BY <1>3, <2>4 DEF CopyTree, Image
  <2>8. CASE CopyEndlessly(src, dst)
    BY <1>1, <1>3, <2>8, EndlessOutcome, EndsInTree
  <2> QED BY <1>2, <2>2, <2>6, <2>7, <2>8
<1>4. CASE CanMake(Above(dst)) /\ CopyFile(src, dst)
  <2> DEFINE made   == dirs \cup Above(dst)
             target == IF dst \in dirs THEN Append(dst, Last(src)) ELSE dst
  <2>1. Tree(made, files)
    <3>1. Above(dst) \cap DOMAIN files = {}
      BY <1>4 DEF CanMake
    <3> QED BY <1>1, <3>1, MakeTree
  <2>2. src \in DOMAIN files /\ files[src] \in Contents
    BY <1>1, <1>4 DEF CopyFile, Tree
  <2>3. CASE Raise(made, files)
    BY <2>1, <2>3, EndsInTree
  <2>4. CASE target \notin dirs /\ Return(made, Holding(target, files[src]))
    <3>1. target \in Path /\ Above(target) \subseteq made /\ target \notin Above(dst)
      <4>1. CASE dst \in dirs
        <5>1. src # <<>>
          <6>1. IsPrefix(<<>>, dst) /\ <<>> \in Path
            <7>1. <<>> \in Path /\ Len(<<>>) = 0 /\ Len(dst) \in Nat
              BY <1>1, EmptySeq, LenProperties DEF Path
            <7>2. Len(<<>>) <= Len(dst) /\ \A i \in 1..Len(<<>>) : <<>>[i] = dst[i]
              BY <7>1
            <7> QED BY <1>1, <7>1, <7>2, PrefixByNames
          <6>2. <<>> \in dirs
            BY <1>1, <4>1, <6>1 DEF Tree
          <6> QED BY <1>1, <2>2, <6>2 DEF Tree
        <5>2. Last(src) \in Names
          BY <1>1, <5>1, EmptySeq, ElementOfSeq DEF Last, Path
        <5>3. target = Append(dst, Last(src)) /\ target \in Path
          BY <1>1, <4>1, <5>2, AppendProperties DEF Path
        <5>4. ASSUME NEW q \in Above(target) PROVE q \in made
          <6>1. q \in Path /\ IsPrefix(q, target) /\ q # target
            BY <5>3, <5>4, NotAbove
          <6>2. IsPrefix(q, dst)
            BY <1>1, <5>2, <5>3, <6>1, AboveChild
          <6> QED BY <1>1, <4>1, <6>1, <6>2 DEF Tree
        <5>5. target \notin Above(dst)
          <6> SUFFICES ASSUME target \in Above(dst) PROVE FALSE
            OBVIOUS
          <6>1. Len(target) = Len(dst) + 1 /\ Len(dst) \in Nat
            BY <1>1, <5>2, <5>3, AppendProperties, LenProperties DEF Path
          <6>2. Len(target) <= Len(dst)
            BY <1>1, NotAbove, PrefixByNames, <5>3
          <6> QED BY <6>1, <6>2
        <5> QED BY <5>3, <5>4, <5>5
      <4>2. CASE dst \notin dirs
        BY <1>1, <4>2, NotAbove
      <4> QED BY <4>1, <4>2
    <3>2. target \notin made
      BY <2>4, <3>1
    <3> HIDE DEF target, made
    <3>3. Tree(made, Holding(target, files[src]))
      BY <2>1, <2>2, <3>1, <3>2, HoldTree DEF Holding
    <3> QED BY <2>4, <3>3, EndsInTree
  <2> QED BY <1>4, <2>3, <2>4 DEF CopyFile
<1> QED BY <1>2, <1>3, <1>4 DEF CopyPath

\* move_path takes what is below the source along.
LEMMA MoveType ==
  ASSUME TypeOK, NEW src \in Named, NEW dst \in Named, NEW o \in BOOLEAN,
         MovePath(src, dst, o)
  PROVE  TypeOK'
<1> DEFINE made == (dirs \cup Above(dst)) \ Below(dst, dirs)
           kept == Without(dst)
           K    == {q \in Path : ~IsPrefix(src, q)}
           grafted == Graft(kept, K, src, dst)
<1>1. Tree(dirs, files) /\ src \in Path /\ dst \in Path
  BY TypeIsTree, PathsAssumption DEF PathsAssumption, Path
<1>2. CASE Raise(dirs, files)
  BY <1>1, <1>2, EndsInTree
<1>3. ASSUME CanMake(Above(dst))
      PROVE  /\ Tree(made, kept) /\ Above(dst) \subseteq made
             /\ \A p \in made \cup DOMAIN kept : ~IsPrefix(dst, p)
  <2>1. Above(dst) \cap DOMAIN files = {}
    BY <1>3 DEF CanMake
  <2> QED BY <1>1, <2>1, ClearTree, SMTT(60) DEF Without
<1>4. CASE CanMake(Above(dst)) /\ Raise(made, kept)
  BY <1>3, <1>4, EndsInTree
<1>5. CASE /\ CanMake(Above(dst)) /\ ~IsPrefix(src, dst)
           /\ Return((made \cap K) \cup Image(made, src, dst), grafted)
  <2>1. Above(dst) \subseteq K
    BY <1>1, <1>5, NotAbove, PrefixTransitive
  <2>2. made \cup DOMAIN kept \subseteq Path
    BY <1>3, <1>5 DEF Tree
  <2>3. \A p \in (made \cup DOMAIN kept) \cap K, q \in made : IsPrefix(q, p) => q \in K
    BY <1>1, <2>2, PrefixTransitive
  <2> HIDE DEF made, kept, K
  <2>4. Tree((made \cap K) \cup Image(made, src, dst), grafted)
    BY <1>1, <1>3, <1>5, <2>1, <2>3, GraftTree
  <2> HIDE DEF grafted
  <2> QED BY <1>5, <2>4, EndsInTree
<1>6. \/ Raise(dirs, files)
      \/ CanMake(Above(dst)) /\ Raise(made, kept)
      \/ /\ CanMake(Above(dst)) /\ ~IsPrefix(src, dst)
         /\ Return((made \cap K) \cup Image(made, src, dst), grafted)
  <2>1. ASSUME CanMake(Above(dst))
        PROVE  /\ made \cap K = {q \in made : ~IsPrefix(src, q)}
               /\ DOMAIN kept \cap K = {q \in DOMAIN kept : ~IsPrefix(src, q)}
    BY <1>3, <2>1 DEF Tree
  <2>2. ASSUME CanMake(Above(dst))
        PROVE  grafted = [q \in (DOMAIN kept \cap K) \cup Image(DOMAIN kept, src, dst) |->
                            IF q \in Image(DOMAIN kept, src, dst)
                            THEN files[Rebase(q, dst, src)] ELSE files[q]]
    <3>1. \A q \in DOMAIN kept : kept[q] = files[q]
      BY DEF Without
    <3>2. DOMAIN kept \in SUBSET Path
      BY <1>3, <2>2 DEF Tree
    <3> HIDE DEF kept, K
    <3>3. \A q \in Image(DOMAIN kept, src, dst) : Rebase(q, dst, src) \in DOMAIN kept
      BY <1>1, <3>2, ImageBack
    <3> QED BY <3>1, <3>3 DEF Graft
  <2> QED BY <2>1, <2>2 DEF MovePath, Image
<1> QED BY <1>2, <1>4, <1>5, <1>6

\* Every call keeps the tree a tree.
LEMMA TypeStep == TypeOK /\ [Next]_vars => TypeOK'
<1> SUFFICES ASSUME TypeOK, [Next]_vars PROVE TypeOK'
  OBVIOUS
<1>1. CASE UNCHANGED vars
  BY <1>1 DEF vars, TypeOK, Entries
<1>2. CASE Next
  BY <1>2, EnsureLayoutType, WriteType, DirectoryType, CopyType, MoveType DEF Next
<1> QED BY <1>1, <1>2

\* The workspace is a tree whatever calls are made, with whatever arguments: no
\* entry without its parents, and no path that is a file and a directory.
THEOREM TypeCorrect == Spec => []TypeOK
<1>1. Init => TypeOK
  <2> SUFFICES ASSUME Init PROVE TypeOK
    OBVIOUS
  <2>1. \A i \in 1..Len(Layout) :
          Layout[i] \in Path /\ Above(Layout[i]) \subseteq {Layout[j] : j \in 1..Len(Layout)}
    <3>1. Len(Layout) \in Nat /\ DOMAIN Layout = 1..Len(Layout)
      BY LayoutAssumption, LenProperties DEF LayoutAssumption
    <3> SUFFICES ASSUME NEW i \in 1..Len(Layout)
                 PROVE  /\ Layout[i] \in Path
                        /\ Above(Layout[i]) \subseteq {Layout[j] : j \in 1..Len(Layout)}
      OBVIOUS
    <3>2. Layout[i] \in Path
      BY LayoutAssumption, PathsAssumption, ElementOfSeq
         DEF LayoutAssumption, PathsAssumption, Path
    <3>3. Above(Layout[i]) \subseteq {Layout[j] : j \in 1..(i - 1)}
      BY <3>1, LayoutAssumption DEF LayoutAssumption
    <3>4. \A j \in 1..(i - 1) : j \in 1..Len(Layout)
      BY <3>1
    <3> QED BY <3>2, <3>3, <3>4
  <2>2. dirs = {Layout[i] : i \in 1..Len(Layout)}
    BY LayoutAssumption, LenProperties DEF LayoutAssumption, Init, ToSet
  <2>3. DOMAIN files = {} /\ IsFiniteSet({}) /\ files \in [DOMAIN files -> Contents]
    BY FS_EmptySet DEF Init
  <2> QED BY <2>1, <2>2, <2>3 DEF Init, TypeOK, Entries, Path
<1> QED BY <1>1, TypeStep, PTL DEF Spec

-----------------------------------------------------------------------------
(* What a call costs.                                                      *)

\* Nothing lies below what is not there.
LEMMA NothingBelow ==
  ASSUME TypeOK, NEW p \in Path, p \notin Entries
  PROVE  Below(p, dirs) = {} /\ Below(p, DOMAIN files) = {} /\ Without(p) = files
<1>1. Tree(dirs, files)
  BY TypeIsTree
<1>2. \A q \in dirs \cup DOMAIN files : ~IsPrefix(p, q)
  BY <1>1 DEF Tree, Entries
<1>3. Below(p, dirs) = {} /\ Below(p, DOMAIN files) = {}
  BY <1>2 DEF Below
<1>4. [q \in DOMAIN files |-> files[q]] = files
  BY <1>1 DEF Tree
<1> QED BY <1>3, <1>4 DEF Without

\* The calls that leave the files as they are, or end well.
LEMMA HarmlessCalls ==
  ASSUME \/ EnsureLayout
         \/ \E p \in Named, c \in Payloads :
              (\E o \in BOOLEAN : WriteText(p, c, o)) \/ AppendText(p, c)
         \/ \E p \in Named : (\E r \in BOOLEAN : DeletePath(p, r)) \/ MakeDirectory(p)
  PROVE  files' = files \/ ~raised'
BY DEF EnsureLayout, WriteText, AppendText, MakeDirectory, DeletePath, Return, Raise, Leave

\* A failing copy or move touches the files below the destination only.
LEMMA FailureStep ==
  ASSUME TypeOK, NEW src \in Named, NEW dst \in Named, NEW o \in BOOLEAN,
         CopyPath(src, dst, o) \/ MovePath(src, dst, o), raised', files' # files
  PROVE  /\ IsPrefix(src, dst) \/ IsPrefix(dst, src)
         /\ o \/ (src \in dirs /\ Endless(src, dst))
         /\ Outside(dst, files') = Without(dst)
<1>1. src \in Path /\ dst \in Path
  BY PathsAssumption DEF PathsAssumption, Path
<1>2. CASE /\ src \in dirs /\ Endless(src, dst)
           /\ CanMake(Above(dst)) /\ CopyEndlessly(src, dst)
  <2>1. Outside(dst, files') = Without(dst)
    BY <1>1, <1>2, EndlessOutcome DEF Raise, Leave
  <2> QED BY <1>2, <2>1 DEF Endless
<1>3. CASE ~(/\ src \in dirs /\ Endless(src, dst)
             /\ CanMake(Above(dst)) /\ CopyEndlessly(src, dst))
  <2>1. (IsPrefix(src, dst) \/ IsPrefix(dst, src)) /\ files' = Without(dst)
        /\ ~Refused(src, dst, o)
    BY <1>3 DEF CopyPath, CopyTree, CopyFile, MovePath, Return, Raise, Leave
  <2>2. dst \in Entries
    BY <1>1, <2>1, NothingBelow
  <2>3. o
    BY <2>1, <2>2 DEF Refused
  <2>4. Outside(dst, Without(dst)) = Without(dst)
    <3>1. DOMAIN Without(dst) \ Below(dst, DOMAIN Without(dst)) = DOMAIN Without(dst)
      BY DEF Without, Below
    <3>2. Outside(dst, Without(dst)) = [q \in DOMAIN Without(dst) |-> Without(dst)[q]]
      BY <3>1 DEF Outside
    <3> QED BY <3>2 DEF Without
  <2>5. Outside(dst, files') = Without(dst)
    BY <2>1, <2>4
  <2> QED BY <2>1, <2>3, <2>5
<1> QED BY <1>2, <1>3

\* Only a copy or a move with overwrite, of two paths that lie one in the other,
\* and a copy far below itself fail when files have changed already.
THEOREM FailureCorrect == Spec => FailureTouchesOnlyNested
<1>1. TypeOK /\ [Next]_vars =>
        [raised' /\ files' # files =>
           \E src, dst \in Named, o \in BOOLEAN :
             /\ IsPrefix(src, dst) \/ IsPrefix(dst, src)
             /\ o \/ (src \in dirs /\ Endless(src, dst))
             /\ CopyPath(src, dst, o) \/ MovePath(src, dst, o)
             /\ Outside(dst, files') = Without(dst)]_vars
  <2> SUFFICES ASSUME TypeOK, Next, raised', files' # files
               PROVE  \E src, dst \in Named, o \in BOOLEAN :
                        /\ IsPrefix(src, dst) \/ IsPrefix(dst, src)
                        /\ o \/ (src \in dirs /\ Endless(src, dst))
                        /\ CopyPath(src, dst, o) \/ MovePath(src, dst, o)
                        /\ Outside(dst, files') = Without(dst)
    BY DEF vars
  <2>1. \E src, dst \in Named, o \in BOOLEAN : CopyPath(src, dst, o) \/ MovePath(src, dst, o)
    BY HarmlessCalls DEF Next
  <2>2. PICK src \in Named, dst \in Named, o \in BOOLEAN :
               CopyPath(src, dst, o) \/ MovePath(src, dst, o)
    BY <2>1
  <2> QED BY <2>2, FailureStep
<1> QED BY <1>1, TypeCorrect, PTL DEF Spec, FailureTouchesOnlyNested

\* A file whose content is still at its path, or has been continued.
LEMMA StaysKept ==
  ASSUME TypeOK, NEW p \in DOMAIN files, p \in DOMAIN files',
         \/ files'[p] = files[p]
         \/ \E c \in Contents : files'[p] = files[p] \o c
  PROVE  Kept(p)
<1> DEFINE U == UNION {ToSet(c) : c \in Payloads}
<1>1. files[p] \in Seq(U)
  BY DEF TypeOK, Contents
<1> HIDE DEF U
<1>2. ASSUME NEW s \in Seq(U), NEW t \in Seq(U) PROVE IsPrefix(s, s \o t)
  <2>1. Len(s) \in Nat /\ Len(t) \in Nat /\ Len(s \o t) = Len(s) + Len(t)
    BY LenProperties, ConcatProperties
  <2>2. SubSeq(s \o t, 1, Len(s)) = s /\ SubSeq(s, 1, Len(s)) = s
    <3>1. CASE s = <<>>
      BY <2>1, <3>1, SubSeqEmpty, EmptySeq
    <3>2. CASE s # <<>>
      <4>1. Len(s) \in 1..Len(s) /\ 1 \in 1..Len(s)
        BY <2>1, <3>2, EmptySeq
      <4> QED BY <4>1, SubSeqOfConcat1, SubSeqFull
    <3> QED BY <3>1, <3>2
  <2> QED BY <2>1, <2>2 DEF IsPrefix
<1>3. files[p] \o <<>> = files[p] /\ <<>> \in Seq(U)
  BY <1>1, ConcatEmptySeq, EmptySeq
<1>4. \E c \in Seq(U) : files'[p] = files[p] \o c
  BY <1>3 DEF Contents, U
<1> QED BY <1>1, <1>2, <1>4 DEF Kept

\* A copy or a move without overwrite keeps every file, at its path or below
\* the destination, which was free.
LEMMA TransferKeeps ==
  ASSUME TypeOK, NEW src \in Named, NEW dst \in Named,
         CopyPath(src, dst, FALSE) \/ MovePath(src, dst, FALSE), NEW p \in DOMAIN files
  PROVE  Kept(p)
<1>1. Tree(dirs, files) /\ src \in Path /\ dst \in Path /\ p \in Path
  BY TypeIsTree, PathsAssumption DEF PathsAssumption, Path, Tree
<1>2. CASE files' = files
  BY <1>2, StaysKept
<1>3. CASE ~Refused(src, dst, FALSE)
  <2>1. dst \notin Entries
    BY <1>3 DEF Refused
  <2>2. Without(dst) = files /\ \A q \in DOMAIN files : ~IsPrefix(dst, q)
    BY <1>1, <2>1, NothingBelow DEF Below
  <2> DEFINE image == Image(DOMAIN files, src, dst)
  <2>3. DOMAIN files \in SUBSET Path
    BY <1>1 DEF Tree
  <2>4. \A q \in image : q \notin DOMAIN files
    BY <1>1, <2>2, <2>3, ImageBack
  <2>5. CASE files' = [q \in DOMAIN files \cup image |->
                         IF q \in image THEN files[Rebase(q, dst, src)] ELSE files[q]]
    <3>1. p \in DOMAIN files' /\ files'[p] = files[p]
      BY <2>4, <2>5
    <3> QED BY <3>1, StaysKept
  <2>6. CASE files' = [q \in {r \in DOMAIN files : ~IsPrefix(src, r)} \cup image |->
                         IF q \in image THEN files[Rebase(q, dst, src)] ELSE files[q]]
    <3>1. CASE IsPrefix(src, p)
      <4> DEFINE r == Rebase(p, src, dst)
      <4>1. r \in image /\ Rebase(r, dst, src) = p
        BY <1>1, <2>3, <3>1, ImageOf, RebaseBack
      <4>2. r \in DOMAIN files' \ DOMAIN files /\ files'[r] = files[p]
        BY <2>4, <2>6, <4>1
      <4> QED BY <4>2 DEF Kept
    <3>2. CASE ~IsPrefix(src, p)
      <4>1. p \in DOMAIN files' /\ files'[p] = files[p]
        BY <2>4, <2>6, <3>2
      <4> QED BY <4>1, StaysKept
    <3> QED BY <3>1, <3>2
  <2>7. CASE files' = Holding(dst, files[src])
    <3>1. p # dst
      BY <2>1 DEF Entries
    <3>2. p \in DOMAIN files' /\ files'[p] = files[p]
      BY <2>7, <3>1 DEF Holding
    <3> QED BY <3>2, StaysKept
  <2>9. CASE CanMake(Above(dst)) /\ CopyEndlessly(src, dst)
    <3>1. Outside(dst, files') = files
      BY <1>1, <2>2, <2>9, EndlessOutcome DEF Raise, Leave
    <3>2. p \in DOMAIN files' /\ files'[p] = files[p]
      BY <3>1 DEF Outside
    <3> QED BY <3>2, StaysKept
  <2>8. \/ files' = files
        \/ CanMake(Above(dst)) /\ CopyEndlessly(src, dst)
        \/ files' = Holding(dst, files[src])
        \/ files' = [q \in DOMAIN files \cup image |->
                        IF q \in image THEN files[Rebase(q, dst, src)] ELSE files[q]]
        \/ files' = [q \in {r \in DOMAIN files : ~IsPrefix(src, r)} \cup image |->
                        IF q \in image THEN files[Rebase(q, dst, src)] ELSE files[q]]
    <3>1. CASE CopyPath(src, dst, FALSE)
      BY <2>1, <2>2, <3>1
         DEF CopyPath, CopyTree, CopyFile, Entries, Image, Return, Raise, Leave
    <3>2. CASE MovePath(src, dst, FALSE)
      BY <2>2, <3>2 DEF MovePath, Image, Return, Raise, Leave
    <3> QED BY <3>1, <3>2
  <2> QED BY <1>2, <2>5, <2>6, <2>7, <2>8, <2>9
<1> QED BY <1>2, <1>3 DEF CopyPath, MovePath, Raise, Leave

\* A call that was not to overwrite or delete loses nothing.
THEOREM UnaskedCorrect == Spec => NothingLostUnasked
<1> DEFINE Unasked ==
      (\E f \in DOMAIN files : ~Kept(f)) =>
        /\ ~EnsureLayout
        /\ \A p \in Named : ~MakeDirectory(p)
        /\ \A p \in Named, c \in Payloads : ~(WriteText(p, c, FALSE) \/ AppendText(p, c))
        /\ \A p, q \in Named : ~(CopyPath(p, q, FALSE) \/ MovePath(p, q, FALSE))
<1>1. TypeOK => Unasked
  <2> SUFFICES ASSUME TypeOK, NEW f \in DOMAIN files, ~Kept(f)
               PROVE  /\ ~EnsureLayout
                      /\ \A p \in Named : ~MakeDirectory(p)
                      /\ \A p \in Named, c \in Payloads :
                           ~(WriteText(p, c, FALSE) \/ AppendText(p, c))
                      /\ \A p, q \in Named : ~(CopyPath(p, q, FALSE) \/ MovePath(p, q, FALSE))
    OBVIOUS
  <2>1. files' # files
    BY StaysKept
  <2>2. ASSUME NEW p \in Named, NEW c \in Payloads, WriteText(p, c, FALSE) PROVE FALSE
    <3>1. p \notin DOMAIN files /\ files' = Holding(p, c)
      BY <2>1, <2>2 DEF WriteText, Return, Raise, Leave
    <3>2. f \in DOMAIN files' /\ files'[f] = files[f]
      BY <3>1 DEF Holding
    <3> QED BY <3>2, StaysKept
  <2>3. ASSUME NEW p \in Named, NEW c \in Payloads, AppendText(p, c) PROVE FALSE
    <3>1. files' = Holding(p, (IF p \in DOMAIN files THEN files[p] ELSE <<>>) \o c)
      BY <2>1, <2>3 DEF AppendText, Return, Raise, Leave
    <3>2. c \in Contents
      BY PayloadsAssumption DEF PayloadsAssumption
    <3>3. /\ f \in DOMAIN files'
          /\ files'[f] = files[f] \/ files'[f] = files[f] \o c
      BY <3>1 DEF Holding
    <3> QED BY <3>2, <3>3, StaysKept
  <2>4. ~EnsureLayout /\ \A p \in Named : ~MakeDirectory(p)
    BY <2>1 DEF EnsureLayout, MakeDirectory, Return, Raise, Leave
  <2> QED BY <2>2, <2>3, <2>4, TransferKeeps
<1>2. TypeOK => [Unasked]_vars
  BY <1>1
<1>3. Spec => [][Unasked]_vars
  <2> HIDE DEF Unasked
  <2> QED BY <1>2, TypeCorrect, PTL DEF Spec
<1> QED BY <1>3 DEF NothingLostUnasked

-----------------------------------------------------------------------------
(* What the files take up.                                                 *)

Stored(F)   == IsFiniteSet(DOMAIN F) /\ \A p \in DOMAIN F : F[p] \in Contents
Lengths(F)  == [p \in DOMAIN F |-> Len(F[p])]
Bytes(F, S) == SumFunctionOnSet(Lengths(F), S)

\* Each file has a length, and any part of the files a size.
LEMMA BytesNat ==
  ASSUME NEW F, Stored(F), NEW S \in SUBSET DOMAIN F
  PROVE  /\ IsFiniteSet(S) /\ Bytes(F, S) \in Nat
         /\ \A p \in DOMAIN F : Lengths(F)[p] = Len(F[p]) /\ Len(F[p]) \in Nat
<1>1. \A p \in DOMAIN F : Lengths(F)[p] = Len(F[p]) /\ Len(F[p]) \in Nat
  BY LenProperties DEF Stored, Lengths, Contents
<1>2. IsFiniteSet(S)
  BY FS_Subset DEF Stored
<1>3. \A p \in S : Lengths(F)[p] \in Nat
  BY <1>1
<1> QED BY <1>1, <1>2, <1>3, SumTakesOut DEF Bytes

\* A part takes up no more than the whole.
LEMMA BytesOfPart ==
  ASSUME NEW F, Stored(F), NEW T \in SUBSET DOMAIN F, NEW S \in SUBSET T
  PROVE  Bytes(F, S) <= Bytes(F, T)
<1>1. IsFiniteSet(T) /\ \A p \in T : Lengths(F)[p] \in Nat
  BY BytesNat
<1> QED BY <1>1, SumOfSubset DEF Bytes

\* Two parts that have nothing in common.
LEMMA BytesOfUnion ==
  ASSUME NEW F, Stored(F), NEW S \in SUBSET DOMAIN F, NEW T \in SUBSET DOMAIN F,
         S \cap T = {}
  PROVE  Bytes(F, S \cup T) = Bytes(F, S) + Bytes(F, T)
<1>1. S \cup T \in SUBSET DOMAIN F
  OBVIOUS
<1>2. IsFiniteSet(S \cup T) /\ \A p \in S \cup T : Lengths(F)[p] \in Nat
  BY <1>1, BytesNat
<1> QED BY <1>2, SumOfUnion DEF Bytes

\* Files take up the same wherever they are.
LEMMA BytesMoved ==
  ASSUME NEW F, Stored(F), NEW G, Stored(G),
         NEW S \in SUBSET DOMAIN F, NEW T \in SUBSET DOMAIN G,
         NEW b, \A x, y \in S : b[x] = b[y] => x = y,
         \A x \in S : b[x] \in T /\ G[b[x]] = F[x], \A y \in T : \E x \in S : y = b[x]
  PROVE  Bytes(G, T) = Bytes(F, S)
<1>1. IsFiniteSet(S) /\ \A x \in S : Lengths(F)[x] \in Nat
  BY BytesNat
<1>2. \A x \in S : Lengths(G)[b[x]] = Lengths(F)[x]
  BY DEF Lengths
<1> QED BY <1>1, <1>2, SumOfImage DEF Bytes

\* The files that are the same here and there.
LEMMA BytesSame ==
  ASSUME NEW F, Stored(F), NEW G, Stored(G), NEW S,
         S \subseteq DOMAIN F, S \subseteq DOMAIN G, \A x \in S : G[x] = F[x]
  PROVE  Bytes(G, S) = Bytes(F, S)
<1> DEFINE b == [x \in S |-> x]
<1>1. \A x \in S : b[x] = x
  OBVIOUS
<1> HIDE DEF b
<1> QED BY <1>1, BytesMoved

\* One file.
LEMMA BytesOfOne ==
  ASSUME NEW F, Stored(F), NEW p \in DOMAIN F
  PROVE  Bytes(F, {p}) = Len(F[p])
<1>1. /\ IsFiniteSet({p}) /\ Lengths(F)[p] \in Nat /\ Lengths(F)[p] = Len(F[p])
  BY BytesNat
<1>2. SumFunctionOnSet(Lengths(F), {p})
        = Lengths(F)[p] + SumFunctionOnSet(Lengths(F), {p} \ {p})
  BY <1>1, SumTakesOut
<1>3. {p} \ {p} = {}
  OBVIOUS
<1>4. SumFunctionOnSet(Lengths(F), {}) = 0
  BY FS_EmptySet, SumUnfolds
<1>5. SumFunctionOnSet(Lengths(F), {p}) = Lengths(F)[p] + 0
  BY <1>2, <1>3, <1>4
<1> QED BY <1>1, <1>5 DEF Bytes

\* A file written in the place of an old one, if there was one.
LEMMA HoldBytes ==
  ASSUME NEW F, Stored(F), NEW G, Stored(G), NEW p,
         DOMAIN G = DOMAIN F \cup {p}, \A q \in DOMAIN F \ {p} : G[q] = F[q]
  PROVE  Bytes(G, DOMAIN G) = Bytes(F, DOMAIN F) - Bytes(F, {p} \cap DOMAIN F) + Len(G[p])
<1> DEFINE R == DOMAIN F \ {p}
           P == {p} \cap DOMAIN F
<1>1. Bytes(G, R) = Bytes(F, R)
  BY BytesSame
<1>2. Bytes(G, {p}) = Len(G[p]) /\ Len(G[p]) \in Nat
  BY BytesOfOne, BytesNat
<1>3. Bytes(G, DOMAIN G) = Bytes(G, R) + Bytes(G, {p})
  <2>1. DOMAIN G = R \cup {p} /\ R \cap {p} = {}
    OBVIOUS
  <2> QED BY <2>1, BytesOfUnion
<1>4. Bytes(F, DOMAIN F) = Bytes(F, R) + Bytes(F, P)
  <2>1. DOMAIN F = R \cup P /\ R \cap P = {}
    OBVIOUS
  <2> QED BY <2>1, BytesOfUnion
<1>5. Bytes(F, R) \in Nat /\ Bytes(F, P) \in Nat
  BY BytesNat
<1> QED BY <1>1, <1>2, <1>3, <1>4, <1>5

\* G is the part K of F, and what is below src in F once more, below dst, where
\* nothing is in K.
Grafted(G, F, K, src, dst) ==
  /\ K \subseteq DOMAIN F /\ \A q \in K : ~IsPrefix(dst, q)
  /\ DOMAIN G = K \cup Image(DOMAIN F, src, dst)
  /\ \A q \in Image(DOMAIN F, src, dst) : G[q] = F[Rebase(q, dst, src)]
  /\ \A q \in K \ Image(DOMAIN F, src, dst) : G[q] = F[q]

\* What it takes up.
LEMMA GraftBytes ==
  ASSUME NEW F, Stored(F), DOMAIN F \in SUBSET Path, NEW G, Stored(G), NEW K,
         NEW src \in Path, NEW dst \in Path, Grafted(G, F, K, src, dst)
  PROVE  Bytes(G, DOMAIN G) = Bytes(F, K) + Bytes(F, Below(src, DOMAIN F))
<1> USE DEF Grafted
<1> DEFINE I == Image(DOMAIN F, src, dst)
           B == Below(src, DOMAIN F)
           b == [q \in B |-> Rebase(q, src, dst)]
<1>1. K \cap I = {}
  BY ImageBack
<1>2. Bytes(G, K) = Bytes(F, K)
  BY <1>1, BytesSame
<1>3. B \in SUBSET DOMAIN F /\ \A q \in B : q \in Path /\ IsPrefix(src, q)
  BY DEF Below
<1>4. \A x, y \in B : b[x] = b[y] => x = y
  BY <1>3, RebaseBack
<1>5. \A x \in B : b[x] \in I /\ G[b[x]] = F[x]
  <2> SUFFICES ASSUME NEW x \in B PROVE b[x] \in I /\ G[b[x]] = F[x]
    OBVIOUS
  <2>1. b[x] \in I /\ Rebase(b[x], dst, src) = x
    BY <1>3, ImageOf, RebaseBack
  <2> HIDE DEF b
  <2> QED BY <2>1
<1>6. \A y \in I : \E x \in B : y = b[x]
  BY DEF Image
<1>7. I \in SUBSET DOMAIN G
  OBVIOUS
<1>8. Bytes(G, I) = Bytes(F, B)
  <2> HIDE DEF b, I, B
  <2> QED BY <1>3, <1>4, <1>5, <1>6, <1>7, BytesMoved
<1>9. Bytes(G, K \cup I) = Bytes(G, K) + Bytes(G, I)
  <2>1. K \in SUBSET DOMAIN G
    OBVIOUS
  <2> HIDE DEF I
  <2> QED BY <1>1, <1>7, <2>1, BytesOfUnion
<1> QED BY <1>2, <1>8, <1>9

\* The size of files as the model counts it, in this state and the next.
LEMMA UsedIsBytes ==
  /\ Used = Bytes(files, DOMAIN files)
  /\ \A S : Size(S) = Bytes(files, S \cap DOMAIN files)
  /\ Used' = Bytes(files', DOMAIN files')
<1>1. DOMAIN files \cap DOMAIN files = DOMAIN files
      /\ DOMAIN files' \cap DOMAIN files' = DOMAIN files'
  OBVIOUS
<1> QED BY <1>1 DEF Used, Size, Bytes, Lengths

\* The files are stored before a call and after it.
LEMMA StoredFiles ==
  ASSUME TypeOK, [Next]_vars
  PROVE  Stored(files) /\ Stored(files')
<1>1. Tree(dirs, files) /\ Tree(dirs', files')
  BY TypeStep, TypeIsTree, NextTypeIsTree
<1> QED BY <1>1 DEF Tree, Stored

\* Files taken away take their size along.
LEMMA WithoutBytes ==
  ASSUME NEW F, Stored(F), NEW S \in SUBSET DOMAIN F,
         NEW G, DOMAIN G = DOMAIN F \ S, \A q \in DOMAIN G : G[q] = F[q]
  PROVE  /\ Stored(G)
         /\ Bytes(G, DOMAIN G) = Bytes(F, DOMAIN F) - Bytes(F, S)
         /\ \A T \in SUBSET DOMAIN G : Bytes(G, T) = Bytes(F, T)
<1>1. Stored(G)
  BY FS_Difference DEF Stored
<1>2. \A T \in SUBSET DOMAIN G : Bytes(G, T) = Bytes(F, T)
  <2> SUFFICES ASSUME NEW T \in SUBSET DOMAIN G PROVE Bytes(G, T) = Bytes(F, T)
    OBVIOUS
  <2> QED BY <1>1, BytesSame
<1>3. Bytes(F, DOMAIN F) = Bytes(F, DOMAIN G) + Bytes(F, S)
  <2>1. DOMAIN F = DOMAIN G \cup S /\ DOMAIN G \cap S = {}
    OBVIOUS
  <2> QED BY <2>1, BytesOfUnion
<1>4. Bytes(F, DOMAIN G) \in Nat /\ Bytes(F, S) \in Nat
  BY BytesNat
<1> QED BY <1>1, <1>2, <1>3, <1>4

\* write_text and append_text stay within the quota.
LEMMA WriteFits ==
  ASSUME TypeOK, NEW p \in Named, NEW c \in Payloads, NEW o \in BOOLEAN,
         WriteText(p, c, o) \/ AppendText(p, c)
  PROVE  Used' <= Used \/ Used' <= Quota
<1> DEFINE n == Size({p})
<1>1. Next
  BY DEF Next
<1>2. Stored(files) /\ Stored(files')
  BY <1>1, StoredFiles
<1>3. n = Bytes(files, {p} \cap DOMAIN files) /\ n \in Nat
      /\ Used = Bytes(files, DOMAIN files) /\ Used \in Nat
  BY <1>2, UsedIsBytes, BytesNat
<1>4. CASE files' = files
  <2>1. Used' = Used
    BY <1>4 DEF Used, Size
  <2> QED BY <1>3, <2>1
<1>5. ASSUME NEW d, files' = Holding(p, d), Used + Len(d) <= Quota + n
      PROVE  Used' <= Quota
  <2>1. /\ DOMAIN files' = DOMAIN files \cup {p}
        /\ files'[p] = d /\ \A q \in DOMAIN files \ {p} : files'[q] = files[q]
    BY <1>5 DEF Holding
  <2>2. Used' = Used - n + Len(d) /\ Len(d) \in Nat
    <3> DEFINE G == files'
    <3>1. /\ Stored(G) /\ DOMAIN G = DOMAIN files \cup {p}
          /\ G[p] = d /\ \A q \in DOMAIN files \ {p} : G[q] = files[q]
      BY <1>2, <2>1
    <3>2. Used' = Bytes(G, DOMAIN G)
      BY UsedIsBytes
    <3> HIDE DEF G
    <3>3. Bytes(G, DOMAIN G) =
            Bytes(files, DOMAIN files) - Bytes(files, {p} \cap DOMAIN files) + Len(G[p])
      BY <1>2, <3>1, HoldBytes
    <3>4. Len(G[p]) \in Nat
      BY <3>1, BytesNat
    <3> QED BY <1>3, <3>1, <3>2, <3>3, <3>4
  <2> QED BY <1>3, <1>5, <2>2, QuotaAssumption DEF QuotaAssumption
<1>6. CASE WriteText(p, c, o)
  <2>1. files' = files \/ (files' = Holding(p, c) /\ ~OverQuota(Len(c), n))
    BY <1>6 DEF WriteText, Return, Raise, Leave
  <2>2. Len(c) \in Nat
    BY PayloadsAssumption, LenProperties DEF PayloadsAssumption, Contents
  <2>3. ~OverQuota(Len(c), n) => Used + Len(c) <= Quota + n
    BY <1>3, <2>2, QuotaAssumption DEF OverQuota, QuotaAssumption
  <2> QED BY <1>4, <1>5, <2>1, <2>3
<1>7. CASE AppendText(p, c)
  <2> DEFINE before == IF p \in DOMAIN files THEN files[p] ELSE <<>>
  <2>1. files' = files \/ (files' = Holding(p, before \o c) /\ ~OverQuota(n + Len(c), n))
    BY <1>7 DEF AppendText, Return, Raise, Leave
  <2>2. c \in Contents /\ before \in Contents
    BY <1>2, EmptySeq, PayloadsAssumption DEF PayloadsAssumption, Contents, Stored
  <2>3. Len(before \o c) = Len(before) + Len(c) /\ Len(c) \in Nat /\ Len(before) \in Nat
    BY <2>2, ConcatProperties, LenProperties DEF Contents
  <2>4. n = Len(before)
    <3>1. CASE p \in DOMAIN files
      <4>1. {p} \cap DOMAIN files = {p}
        BY <3>1
      <4> QED BY <1>2, <1>3, <3>1, <4>1, BytesOfOne
    <3>2. CASE p \notin DOMAIN files
      <4>1. {p} \cap DOMAIN files = {}
        BY <3>2
      <4>2. Bytes(files, {}) = 0
        BY FS_EmptySet, SumUnfolds DEF Bytes
      <4>3. Len(before) = 0
        BY <3>2, EmptySeq
      <4> QED BY <1>3, <4>1, <4>2, <4>3
    <3> QED BY <3>1, <3>2
  <2> HIDE DEF before
  <2>5. ~OverQuota(n + Len(c), n) => Used + Len(before \o c) <= Quota + n
    BY <1>3, <2>3, <2>4, QuotaAssumption DEF OverQuota, QuotaAssumption
  <2> QED BY <1>4, <1>5, <2>1, <2>5
<1> QED BY <1>6, <1>7

\* What is below p, and what the files take up without it.
LEMMA RoomBelow ==
  ASSUME TypeOK, NEW p \in Path
  PROVE  /\ Size(Below(p, Entries)) = Bytes(files, Below(p, DOMAIN files))
         /\ Size(Below(p, Entries)) \in Nat /\ Used \in Nat
         /\ Used = Bytes(files, DOMAIN files)
         /\ Stored(Without(p)) /\ Size(Below(p, Entries)) <= Used
         /\ DOMAIN Without(p) = DOMAIN files \ Below(p, DOMAIN files)
         /\ Bytes(Without(p), DOMAIN Without(p)) = Used - Size(Below(p, Entries))
         /\ \A T \in SUBSET DOMAIN Without(p) : Bytes(Without(p), T) = Bytes(files, T)
<1>1. Stored(files)
  BY TypeIsTree DEF Tree, Stored
<1>2. Below(p, Entries) \cap DOMAIN files = Below(p, DOMAIN files)
  BY DEF Below, Entries
<1>3. Below(p, DOMAIN files) \in SUBSET DOMAIN files
  BY DEF Below
<1>4. Size(Below(p, Entries)) = Bytes(files, Below(p, DOMAIN files))
  BY <1>2, UsedIsBytes
<1>5. /\ DOMAIN Without(p) = DOMAIN files \ Below(p, DOMAIN files)
      /\ \A q \in DOMAIN Without(p) : Without(p)[q] = files[q]
  BY DEF Without
<1>6. /\ Stored(Without(p))
      /\ Bytes(Without(p), DOMAIN Without(p))
           = Bytes(files, DOMAIN files) - Bytes(files, Below(p, DOMAIN files))
      /\ \A T \in SUBSET DOMAIN Without(p) : Bytes(Without(p), T) = Bytes(files, T)
  BY <1>1, <1>3, <1>5, WithoutBytes
<1>7. /\ Bytes(files, Below(p, DOMAIN files)) \in Nat /\ Bytes(files, DOMAIN files) \in Nat
      /\ Bytes(files, Below(p, DOMAIN files)) <= Bytes(files, DOMAIN files)
  BY <1>1, <1>3, BytesNat, BytesOfPart
<1> QED BY <1>4, <1>5, <1>6, <1>7, UsedIsBytes

\* Unchanged files, and files only taken away, do not fill the quota.
LEMMA TakenFits ==
  ASSUME TypeOK, files' = files \/ \E p \in Named : files' = Without(p)
  PROVE  Used' <= Used
<1>1. CASE files' = files
  <2>1. Used' = Used
    BY <1>1 DEF Used, Size
  <2>2. Used \in Nat
    BY TypeIsTree, BytesNat, UsedIsBytes DEF Tree, Stored
  <2> QED BY <2>1, <2>2
<1>2. ASSUME NEW p \in Named, files' = Without(p) PROVE Used' <= Used
  <2>1. p \in Path
    BY PathsAssumption DEF PathsAssumption, Path
  <2>2. Used' = Bytes(Without(p), DOMAIN Without(p))
    BY <1>2, UsedIsBytes
  <2>3. /\ Bytes(Without(p), DOMAIN Without(p)) = Used - Size(Below(p, Entries))
        /\ Size(Below(p, Entries)) \in Nat /\ Used \in Nat
    BY <2>1, RoomBelow
  <2> QED BY <2>2, <2>3
<1> QED BY <1>1, <1>2

\* What is copied takes up what it took up before, and what is replaced is gone.
LEMMA GraftFits ==
  ASSUME TypeOK, [Next]_vars, NEW src \in Path, NEW dst \in Path,
         NEW K \in SUBSET DOMAIN Without(dst),
         files' = [q \in K \cup Image(DOMAIN Without(dst), src, dst) |->
                     IF q \in Image(DOMAIN Without(dst), src, dst)
                     THEN files[Rebase(q, dst, src)] ELSE files[q]]
  PROVE  Used' = Bytes(files, K) + Bytes(files, Below(src, DOMAIN Without(dst)))
<1> DEFINE kept == Without(dst)
           G == files'
           I == Image(DOMAIN kept, src, dst)
<1>1. /\ Stored(kept) /\ DOMAIN kept = DOMAIN files \ Below(dst, DOMAIN files)
      /\ \A T \in SUBSET DOMAIN kept : Bytes(kept, T) = Bytes(files, T)
  BY RoomBelow
<1>2. DOMAIN kept \in SUBSET Path
  BY <1>1, TypeIsTree DEF Tree
<1>3. \A q \in K : ~IsPrefix(dst, q)
  BY <1>1 DEF Below
<1>4. \A q \in DOMAIN kept : kept[q] = files[q]
  BY DEF Without
<1>5. Stored(G) /\ DOMAIN G = K \cup I
  BY StoredFiles
<1>6. (\A q \in I : G[q] = kept[Rebase(q, dst, src)]) /\ (\A q \in K \ I : G[q] = kept[q])
  <2>1. \A q \in I : Rebase(q, dst, src) \in DOMAIN kept
    BY <1>2, ImageBack
  <2>2. (\A q \in I : G[q] = files[Rebase(q, dst, src)]) /\ (\A q \in K \ I : G[q] = files[q])
    OBVIOUS
  <2>3. \A q \in K : q \in DOMAIN kept
    OBVIOUS
  <2> HIDE DEF G, I, kept
  <2> QED BY <1>4, <2>1, <2>2, <2>3
<1>7. Used' = Bytes(G, DOMAIN G)
  BY UsedIsBytes
<1>8. Below(src, DOMAIN kept) \in SUBSET DOMAIN kept
  BY DEF Below
<1>9. K \in SUBSET DOMAIN kept
  OBVIOUS
<1> HIDE DEF G, kept
<1>10. Bytes(G, DOMAIN G) = Bytes(kept, K) + Bytes(kept, Below(src, DOMAIN kept))
  <2>1. Grafted(G, kept, K, src, dst)
    BY <1>3, <1>5, <1>6, <1>9 DEF Grafted
  <2> QED BY <1>1, <1>2, <1>5, <2>1, GraftBytes
<1> QED BY <1>1, <1>7, <1>8, <1>9, <1>10 DEF kept

\* copy_path of a directory stays within the quota, when it ends.
LEMMA TreeFits ==
  ASSUME TypeOK, NEW src \in Named, NEW dst \in Named, NEW o \in BOOLEAN,
         CopyPath(src, dst, o), src \notin DOMAIN files,
         ~(src \in dirs /\ Endless(src, dst))
  PROVE  Used' <= Used \/ Used' <= Quota
<1> DEFINE kept == Without(dst)
           image == Image(DOMAIN kept, src, dst)
           old == Size(Below(dst, Entries))
           new == Size(Below(src, Entries))
<1>1. src \in Path /\ dst \in Path /\ [Next]_vars
  BY PathsAssumption DEF PathsAssumption, Path, Next
<1>2. \/ files' = files
      \/ files' = kept
      \/ /\ ~OverQuota(new, old)
         /\ files' = [q \in DOMAIN kept \cup image |->
                        IF q \in image THEN files[Rebase(q, dst, src)] ELSE files[q]]
  BY DEF CopyPath, CopyTree, CopyFile, Image, Return, Raise, Leave
<1>3. CASE files' = files \/ files' = kept
  BY <1>3, TakenFits
<1>4. CASE /\ ~OverQuota(new, old)
           /\ files' = [q \in DOMAIN kept \cup image |->
                          IF q \in image THEN files[Rebase(q, dst, src)] ELSE files[q]]
  <2>1. Used' = Bytes(files, DOMAIN kept) + Bytes(files, Below(src, DOMAIN kept))
    <3>1. DOMAIN kept \in SUBSET DOMAIN kept
      OBVIOUS
    <3> QED BY <1>1, <1>4, <3>1, GraftFits
  <2>2. /\ Bytes(files, DOMAIN kept) = Used - old
        /\ old \in Nat /\ Used \in Nat /\ old <= Used
    <3>1. Bytes(kept, DOMAIN kept) = Bytes(files, DOMAIN kept)
      BY <1>1, RoomBelow
    <3>2. Bytes(kept, DOMAIN kept) = Used - old
      BY <1>1, RoomBelow
    <3>3. old \in Nat /\ Used \in Nat /\ old <= Used
      BY <1>1, RoomBelow
    <3> HIDE DEF old
    <3> QED BY <3>1, <3>2, <3>3
  <2>3. Bytes(files, Below(src, DOMAIN kept)) <= new /\ new \in Nat
        /\ Bytes(files, Below(src, DOMAIN kept)) \in Nat
    <3>1. /\ Below(src, DOMAIN kept) \in SUBSET Below(src, DOMAIN files)
          /\ Below(src, DOMAIN files) \in SUBSET DOMAIN files
      BY DEF Below, Without
    <3>2. new = Bytes(files, Below(src, DOMAIN files)) /\ new \in Nat
      BY <1>1, RoomBelow
    <3>3. Stored(files)
      BY <1>1, StoredFiles
    <3> QED BY <3>1, <3>2, <3>3, BytesOfPart, BytesNat
  <2>4. Used + new <= Quota + old
    BY <1>4, <2>2, <2>3, QuotaAssumption DEF OverQuota, QuotaAssumption
  <2> HIDE DEF old, new, kept
  <2> QED BY <2>1, <2>2, <2>3, <2>4, QuotaAssumption DEF QuotaAssumption
<1> QED BY <1>2, <1>3, <1>4

\* move_path takes up no more than before.
LEMMA MoveFits ==
  ASSUME TypeOK, NEW src \in Named, NEW dst \in Named, NEW o \in BOOLEAN,
         MovePath(src, dst, o)
  PROVE  Used' <= Used
<1> DEFINE kept == Without(dst)
           image == Image(DOMAIN kept, src, dst)
           stay == {q \in DOMAIN kept : ~IsPrefix(src, q)}
<1>1. src \in Path /\ dst \in Path /\ [Next]_vars
  BY PathsAssumption DEF PathsAssumption, Path, Next
<1>2. \/ files' = files
      \/ files' = kept
      \/ files' = [q \in stay \cup image |->
                     IF q \in image THEN files[Rebase(q, dst, src)] ELSE files[q]]
  BY DEF MovePath, Image, Return, Raise, Leave
<1>3. CASE files' = files \/ files' = kept
  BY <1>3, TakenFits
<1>4. CASE files' = [q \in stay \cup image |->
                       IF q \in image THEN files[Rebase(q, dst, src)] ELSE files[q]]
  <2>1. Used' = Bytes(files, stay) + Bytes(files, Below(src, DOMAIN kept))
    <3>1. stay \in SUBSET DOMAIN kept
      OBVIOUS
    <3> HIDE DEF stay
    <3> QED BY <1>1, <1>4, <3>1, GraftFits
  <2>2. DOMAIN kept \subseteq DOMAIN files /\ Stored(files)
    BY <1>1, StoredFiles DEF Without
  <2>3. Bytes(files, DOMAIN kept) = Bytes(files, stay) + Bytes(files, Below(src, DOMAIN kept))
    <3>1. /\ stay \cup Below(src, DOMAIN kept) = DOMAIN kept
          /\ stay \cap Below(src, DOMAIN kept) = {}
      BY DEF Below
    <3>2. stay \in SUBSET DOMAIN files /\ Below(src, DOMAIN kept) \in SUBSET DOMAIN files
      BY <2>2, <3>1
    <3> HIDE DEF stay, kept
    <3>3. Bytes(files, stay \cup Below(src, DOMAIN kept))
            = Bytes(files, stay) + Bytes(files, Below(src, DOMAIN kept))
      BY <2>2, <3>1, <3>2, BytesOfUnion
    <3> QED BY <3>1, <3>3
  <2>4. Bytes(files, DOMAIN kept) <= Bytes(files, DOMAIN files)
    BY <2>2, BytesOfPart
  <2> QED BY <2>1, <2>3, <2>4, UsedIsBytes
<1> QED BY <1>2, <1>3, <1>4

\* copy_path of a file stays within the quota, except onto a directory.
LEMMA FileFits ==
  ASSUME TypeOK, NEW src \in Named, NEW dst \in Named, NEW o \in BOOLEAN,
         CopyPath(src, dst, o), src \in DOMAIN files, dst \notin dirs
  PROVE  Used' <= Used \/ Used' <= Quota
<1> DEFINE old == Size(Below(dst, Entries))
           new == Size(Below(src, Entries))
<1>1. /\ src \in Path /\ dst \in Path /\ [Next]_vars /\ Tree(dirs, files)
  BY TypeIsTree, PathsAssumption DEF PathsAssumption, Path, Next
<1>2. \/ files' = files
      \/ ~OverQuota(new, old) /\ files' = Holding(dst, files[src])
  <2>1. src \notin dirs
    BY <1>1 DEF Tree
  <2> QED BY <2>1 DEF CopyPath, CopyTree, CopyFile, Return, Raise, Leave
<1>3. CASE files' = files
  BY <1>3, TakenFits
<1>4. CASE ~OverQuota(new, old) /\ files' = Holding(dst, files[src])
  <2>1. Stored(files) /\ Stored(files')
    BY <1>1, StoredFiles
  <2>2. /\ old = Bytes(files, {dst} \cap DOMAIN files)
        /\ old \in Nat /\ Used \in Nat /\ Used = Bytes(files, DOMAIN files)
    <3>1. Below(dst, DOMAIN files) = {dst} \cap DOMAIN files
      BY <1>1, PrefixReflexive DEF Below, Tree
    <3> QED BY <1>1, <3>1, RoomBelow
  <2>3. Len(files[src]) <= new /\ Len(files[src]) \in Nat /\ new \in Nat
    <3>1. {src} \in SUBSET Below(src, DOMAIN files) /\ Below(src, DOMAIN files) \in SUBSET DOMAIN files
      BY <1>1, PrefixReflexive DEF Below
    <3>2. new = Bytes(files, Below(src, DOMAIN files)) /\ new \in Nat
      BY <1>1, RoomBelow
    <3>3. Bytes(files, {src}) <= Bytes(files, Below(src, DOMAIN files))
      BY <2>1, <3>1, BytesOfPart
    <3>4. Bytes(files, {src}) = Len(files[src]) /\ Len(files[src]) \in Nat
      BY <2>1, BytesOfOne, BytesNat
    <3> QED BY <3>2, <3>3, <3>4
  <2>4. Used + new <= Quota + old
    BY <1>4, <2>2, <2>3, QuotaAssumption DEF OverQuota, QuotaAssumption
  <2>5. Used' = Used - old + Len(files[src])
    <3> DEFINE G == files'
    <3>1. /\ Stored(G) /\ DOMAIN G = DOMAIN files \cup {dst}
          /\ G[dst] = files[src] /\ \A q \in DOMAIN files \ {dst} : G[q] = files[q]
      BY <1>4, <2>1 DEF Holding
    <3>2. Used' = Bytes(G, DOMAIN G)
      BY UsedIsBytes
    <3> HIDE DEF G, old
    <3>3. Bytes(G, DOMAIN G) =
            Bytes(files, DOMAIN files) - Bytes(files, {dst} \cap DOMAIN files) + Len(G[dst])
      BY <2>1, <3>1, HoldBytes
    <3> QED BY <2>2, <3>1, <3>2, <3>3
  <2> HIDE DEF old, new
  <2> QED BY <2>2, <2>3, <2>4, <2>5, QuotaAssumption DEF QuotaAssumption
<1> QED BY <1>2, <1>3, <1>4

\* Whatever the calls and their sizes, a user gets further over the quota by
\* copying a file onto a directory or a directory far below itself, and by
\* nothing else.
THEOREM QuotaCorrect == Spec => OverQuotaOnlyByCopy
<1>1. ASSUME TypeOK, Next, Used' > Quota, Used' > Used
      PROVE  \E src, dst \in Named, o \in BOOLEAN :
               /\ \/ src \in DOMAIN files /\ dst \in dirs
                  \/ src \in dirs /\ Endless(src, dst)
               /\ CopyPath(src, dst, o)
  <2>1. ~(Used' <= Used \/ Used' <= Quota)
    <3>1. Used \in Nat /\ Used' \in Nat
      BY <1>1, StoredFiles, BytesNat, UsedIsBytes
    <3> QED BY <1>1, <3>1, QuotaAssumption DEF QuotaAssumption
  <2>2. ~(files' = files \/ \E p \in Named : files' = Without(p))
    BY <1>1, <2>1, TakenFits
  <2>3. ~EnsureLayout /\ \A p \in Named : ~MakeDirectory(p)
    BY <2>2 DEF EnsureLayout, MakeDirectory, Return, Raise, Leave
  <2>4. \A p \in Named, r \in BOOLEAN : ~DeletePath(p, r)
    BY <2>2 DEF DeletePath, Return, Raise, Leave
  <2>5. \A p \in Named, c \in Payloads, o \in BOOLEAN : ~(WriteText(p, c, o) \/ AppendText(p, c))
    BY <1>1, <2>1, WriteFits
  <2>6. PICK src \in Named, dst \in Named, o \in BOOLEAN :
               CopyPath(src, dst, o) \/ MovePath(src, dst, o)
    BY <1>1, <2>3, <2>4, <2>5 DEF Next
  <2>7. CopyPath(src, dst, o)
    BY <1>1, <2>1, <2>6, MoveFits
  <2>8. \/ src \in DOMAIN files /\ dst \in dirs
        \/ src \in dirs /\ Endless(src, dst)
    BY <1>1, <2>1, <2>7, TreeFits, FileFits
  <2> QED BY <2>7, <2>8
<1>2. TypeOK /\ [Next]_vars =>
        [Used' > Quota /\ Used' > Used =>
           \E src, dst \in Named, o \in BOOLEAN :
             /\ \/ src \in DOMAIN files /\ dst \in dirs
                \/ src \in dirs /\ Endless(src, dst)
             /\ CopyPath(src, dst, o)]_vars
  BY <1>1 DEF vars
<1> QED BY <1>2, TypeCorrect, PTL DEF Spec, OverQuotaOnlyByCopy
=============================================================================
