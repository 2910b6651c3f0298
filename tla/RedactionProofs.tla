-------------------------- MODULE RedactionProofs --------------------------
(***************************************************************************)
(* Proofs about Redaction, for PDFs of any number of pages and any number  *)
(* of passes: what a page that is not listed for review went through, and  *)
(* that the name of the output agrees with the verdict.  For a page of any *)
(* text, in the single pass of the build: which values stay readable.      *)
(***************************************************************************)
EXTENDS RedactionContent, WellFoundedInduction, TLAPS

USE ModesAssumption, BoundsAssumption DEF ModesAssumption, BoundsAssumption

\* The call starts in an invariant state.
LEMMA InitInv == Init => InductiveInv
<1> SUFFICES ASSUME Init PROVE TypeOK /\ PassInv /\ SettledInv /\ NameInv
  BY DEF InductiveInv
<1>1. changed \in BOOLEAN
  BY Zenon DEF Init
<1>2. sure \in [Pages -> BOOLEAN]
  BY Zenon DEF Init
<1>3. page \in Pages /\ pass \in 0..(MaxPasses + 1)
  BY DEF Init, Pages
<1>4. TypeOK
  BY <1>1, <1>2, <1>3 DEF Init, TypeOK
<1>5. PassInv /\ SettledInv /\ NameInv
  BY DEF Init, PassInv, SettledInv, NameInv
<1> QED BY <1>4, <1>5

\* What the last step on a page of the output leaves, whether the page is
\* settled by a flag or by a check: types, and settled pages so far.
LEMMA NextPageSettles ==
  ASSUME TypeOK, at = "check", ~single, Settled(1..(page - 1)),
         sure' \in [Pages -> BOOLEAN],
         \A p \in Pages : p # page => sure'[p] = sure[p],
         NEW dirty \in BOOLEAN,
         NEW marked \in SUBSET Pages, flagged \subseteq marked,
         page \in marked \/ sure'[page],
         NextPage(dirty, marked), UNCHANGED <<single, name>>
  PROVE  TypeOK' /\ PassInv' /\ SettledInv' /\ NameInv'
<1> page \in Pages /\ flagged \subseteq Pages
  BY DEF TypeOK
<1>1. TypeOK'
  <2>1. page' \in Pages /\ pass' \in 0..(MaxPasses + 1)
    <3>1. page \in 1..NumPages /\ pass \in 0..(MaxPasses + 1)
      BY DEF TypeOK, Pages
    <3> QED BY <3>1 DEF NextPage, Pages, LastOutput
  <2>2. changed' \in BOOLEAN
    BY Zenon DEF NextPage
  <2>3. flagged' \subseteq Pages
    BY DEF NextPage
  <2>4. at' \in {"check", "conclude"}
    BY DEF NextPage
  <2>5. single' \in Modes /\ name' \in {"none", "given", "redacted", "review_required"}
    BY DEF TypeOK
  <2> QED BY <2>1, <2>2, <2>3, <2>4, <2>5 DEF TypeOK
<1>2. \A p \in 1..page : p \in marked \/ sure'[p]
  BY DEF Settled, Pages
<1>3. PassInv'
  BY DEF NextPage, PassInv
<1>4. SettledInv' /\ NameInv'
  <2>1. CASE page < NumPages
    <3>1. page' = page + 1 /\ flagged' = marked /\ at' = "check" /\ ~single'
      BY <2>1 DEF NextPage
    <3>2. 1..(page' - 1) = 1..page
      BY <3>1 DEF Pages
    <3> QED BY <1>2, <3>1, <3>2 DEF SettledInv, NameInv, Settled
  <2>2. CASE ~(page < NumPages)
    <3>1. Pages = 1..page
      BY <2>2 DEF Pages
    <3>2. CASE dirty /\ ~LastOutput
      <4>1. at' = "check" /\ ~single' /\ page' = 1
        BY <2>2, <3>2 DEF NextPage
      <4> QED BY <4>1 DEF SettledInv, NameInv, Settled
    <3>3. CASE ~(dirty /\ ~LastOutput)
      <4>1. at' = "conclude" /\ (flagged' = Pages \/ flagged' = marked)
        BY <2>2, <3>3 DEF NextPage
      <4> QED BY <1>2, <3>1, <4>1 DEF SettledInv, NameInv, Settled
    <3> QED BY <3>2, <3>3
  <2> QED BY <2>1, <2>2
<1> QED BY <1>1, <1>3, <1>4

\* Every step preserves the invariant.
LEMMA StepInv == InductiveInv /\ [Next]_vars => InductiveInv'
<1> SUFFICES ASSUME InductiveInv, [Next]_vars
             PROVE  TypeOK' /\ PassInv' /\ SettledInv' /\ NameInv'
  BY DEF InductiveInv
<1> TypeOK /\ PassInv /\ SettledInv /\ NameInv
  BY DEF InductiveInv
<1> page \in Pages /\ flagged \subseteq Pages
  BY DEF TypeOK
<1>1. ASSUME NEW doubt \in BOOLEAN, Detect(doubt)
      PROVE  TypeOK' /\ PassInv' /\ SettledInv' /\ NameInv'
  BY <1>1 DEF Detect, Flag, TypeOK, PassInv, SettledInv, NameInv
<1>2. ASSUME NEW found \in BOOLEAN, NEW doubt \in BOOLEAN, Review(found, doubt)
      PROVE  TypeOK' /\ PassInv' /\ SettledInv' /\ NameInv'
  <2>1. CASE found /\ ~LastReview
    <3>1. pass \in 0..(MaxPasses + 1) /\ pass < MaxPasses /\ pass # MaxPasses - 1
      BY <1>2, <2>1 DEF Review, LastReview, TypeOK, PassInv
    <3>2. pass' \in 0..(MaxPasses + 1) /\ pass' < MaxPasses
      BY <1>2, <2>1, <3>1 DEF Review
    <3> QED BY <1>2, <2>1, <3>2 DEF Review, Flag, TypeOK, PassInv, SettledInv, NameInv
  <2>2. CASE ~(found /\ ~LastReview)
    BY <1>2, <2>2 DEF Review, Flag, TypeOK, PassInv, SettledInv, NameInv
  <2> QED BY <2>1, <2>2
<1>3. ASSUME NEW present \in BOOLEAN, NEW stuck \in BOOLEAN, ReadBack(present, stuck)
      PROVE  TypeOK' /\ PassInv' /\ SettledInv' /\ NameInv'
  BY <1>3 DEF ReadBack, Flag, TypeOK, PassInv, SettledInv, NameInv, Settled, Pages
<1>4. CASE MaskOutput
  <2>1. /\ sure' \in [Pages -> BOOLEAN]
        /\ \A p \in Pages : p # page => sure'[p] = sure[p]
    BY <1>4 DEF MaskOutput, Mask, TypeOK
  <2>2. /\ at = "check" /\ ~single /\ Settled(1..(page - 1))
        /\ NextPage(TRUE, flagged \cup {page})
        /\ UNCHANGED <<single, name>>
    BY <1>4 DEF MaskOutput, SettledInv, TypeOK
  <2> QED BY <2>1, <2>2, NextPageSettles
<1>5. ASSUME NEW stuck \in BOOLEAN, NEW found \in BOOLEAN, NEW doubt \in BOOLEAN,
             CheckOutput(stuck, found, doubt)
      PROVE  TypeOK' /\ PassInv' /\ SettledInv' /\ NameInv'
  <2> DEFINE reason == stuck \/ found \/ doubt
             marked == IF reason THEN flagged \cup {page} ELSE flagged
  <2>1. /\ sure' \in [Pages -> BOOLEAN]
        /\ \A p \in Pages : p # page => sure'[p] = sure[p]
        /\ sure'[page] = ~reason
    BY <1>5 DEF CheckOutput, TypeOK
  <2>2. /\ at = "check" /\ ~single /\ Settled(1..(page - 1))
        /\ NextPage(changed \/ found, marked)
        /\ UNCHANGED <<single, name>>
    BY <1>5 DEF CheckOutput, SettledInv, TypeOK
  <2>3. (changed \/ found) \in BOOLEAN /\ marked \in SUBSET Pages /\ flagged \subseteq marked
    BY DEF TypeOK
  <2>4. page \in marked \/ sure'[page]
    BY <2>1
  <2> HIDE DEF marked
  <2> QED BY <2>1, <2>2, <2>3, <2>4, NextPageSettles
<1>6. ASSUME NEW given \in BOOLEAN, Conclude(given)
      PROVE  TypeOK' /\ PassInv' /\ SettledInv' /\ NameInv'
  BY <1>6 DEF Conclude, DefaultName, TypeOK, PassInv, SettledInv, NameInv, Settled
<1>7. CASE Write
  BY <1>7 DEF Write, DefaultName, TypeOK, PassInv, SettledInv, NameInv, Settled
<1>8. CASE Fail
  BY <1>8 DEF Fail, TypeOK, PassInv, SettledInv, NameInv
<1>9. CASE UNCHANGED vars
  BY <1>9 DEF vars, TypeOK, PassInv, SettledInv, NameInv, Settled, Pages, DefaultName
<1> QED BY <1>1, <1>2, <1>3, <1>4, <1>5, <1>6, <1>7, <1>8, <1>9 DEF Next

\* The invariant holds in every state of every call.
THEOREM Inductive == Spec => []InductiveInv
BY InitInv, StepInv, PTL DEF Spec

\* Whatever the number of pages and passes, a page that the result does not
\* list for review was read without a finding or a doubt in the image written.
THEOREM VerdictSound == Spec => []UnflaggedIsSure
<1>1. InductiveInv => UnflaggedIsSure
  BY DEF InductiveInv, SettledInv, Settled, UnflaggedIsSure
<1> QED BY <1>1, Inductive, PTL

\* The name that the call makes for its output agrees with its verdict.
THEOREM NameSound == Spec => []NameTellsVerdict
<1>1. InductiveInv => NameTellsVerdict
  BY DEF InductiveInv, NameInv, NameTellsVerdict
<1> QED BY <1>1, Inductive, PTL

-----------------------------------------------------------------------------
(* What the bars of a page cover. *)

USE SubjectAssumption, PlacesAssumption, ValuesAssumption
    DEF SubjectAssumption, PlacesAssumption, ValuesAssumption

\* A value that is read somewhere has a first match, one place of those.
LEMMA FirstMatch ==
  ASSUME NEW v, Lines(v) # {}
  PROVE  \E p \in Lines(v) : p \in Match(v)
<1>1. Lines(v) \subseteq Nat
  BY DEF Lines, Places
<1>2. PICK p \in Lines(v) : \A q \in Lines(v) : ~(<<q, p>> \in OpToRel(<, Nat))
  BY <1>1, NatLessThanWellFounded, WFMin
<1>3. \A q \in Nat : q < p => <<q, p>> \in OpToRel(<, Nat)
  BY <1>1 DEF OpToRel
<1>4. \A q \in Lines(v) : ~(q < p)
  BY <1>1, <1>2, <1>3, Zenon
<1>5. \A q \in Lines(v) : q \in Nat /\ p \in Nat
  BY <1>1, <1>2, Zenon
<1>6. \A q \in Lines(v) : p <= q
  BY <1>4, <1>5
<1> QED BY <1>2, <1>6 DEF Match

\* A match of a value is a place in which OCR reads it.
LEMMA MatchInLines == ASSUME NEW v PROVE Match(v) \subseteq Lines(v)
BY DEF Match

\* More bars make nothing readable.
LEMMA BarsOnlyHide ==
  ASSUME UNCHANGED text, black \subseteq black', NEW v
  PROVE  Lines(v)' \subseteq Lines(v)
BY DEF Lines

\* No bar is drawn before the first pass.
LEMMA ContentInit_Inv == Init /\ ContentInit => ContentInv
<1> SUFFICES ASSUME Init, ContentInit PROVE ContentInv
  OBVIOUS
<1>1. broken \subseteq Values \X Breaks
  BY DEF ContentInit, kSubset
<1>2. ContentTypeOK
  BY <1>1 DEF ContentInit, ContentTypeOK
<1>3. BarsInv
  BY DEF Init, ContentInit, BarsInv, Before, After
<1> QED BY <1>2, <1>3, InitInv DEF ContentInv

\* The bars of the detection cover each detected value once, if it is readable.
LEMMA DetectionCovers ==
  ASSUME ContentInv, NEW regions \in Answers, NEW doubt \in BOOLEAN,
         DetectContent(regions, doubt)
  PROVE  ContentTypeOK' /\ BarsInv'
<1> ContentTypeOK /\ BarsInv
  BY DEF ContentInv
<1> regions \subseteq (Values \cup {Unnamed}) \X Places
  BY DEF Answers, kSubset
<1>1. \A r \in regions : r[1] \in Values \cup {Unnamed} /\ r[2] \in Places
  OBVIOUS
<1>2. /\ single /\ page = Subject /\ at = "detect" /\ at' = "read"
      /\ UNCHANGED <<single, page, text, broken>>
  BY DEF DetectContent, Detect
<1>3. page \in Nat /\ black = {}
  BY <1>2 DEF BarsInv, Before
<1>4. \A r \in regions : Bar(r) \subseteq Places
  BY <1>1, MatchInLines DEF Bar, Lines
<1> DEFINE OfRegions == UNION {Bar(r) : r \in regions}
           OfPatterns == UNION {Match(m) : m \in Candidates}
<1>5. black' = OfRegions \cup OfPatterns
  BY DEF DetectContent
<1>6. ContentTypeOK'
  <2>1. located' \subseteq Places
    BY <1>1 DEF DetectContent
  <2>2. black' \subseteq Places
    <3>1. \A m : Match(m) \subseteq Places
      BY MatchInLines DEF Lines
    <3>2. OfRegions \subseteq Places /\ OfPatterns \subseteq Places
      BY <1>4, <3>1
    <3> QED
      <4> HIDE DEF OfRegions, OfPatterns
      <4> QED BY <1>5, <3>2
  <2>3. known' \subseteq Values
    BY <1>1 DEF DetectContent, Candidates
  <2> QED BY <1>2, <2>1, <2>2, <2>3 DEF ContentTypeOK
<1>7. ASSUME NEW v \in known', Lines(v)' # {} PROVE \E p \in black' : v \in text'[p]
  <2>1. Lines(v) # {}
    BY <1>2, <1>3, <1>7, BarsOnlyHide
  <2>2. PICK p \in Lines(v) : p \in Match(v)
    BY <2>1, FirstMatch
  <2>3. Match(v) \subseteq black'
    <3>1. CASE v \in Candidates
      <4>1. Match(v) \subseteq OfPatterns
        BY <3>1, Zenon
      <4> HIDE DEF OfRegions, OfPatterns
      <4> QED BY <1>5, <4>1
    <3>2. ASSUME NEW r \in regions, v = r[1] PROVE Match(v) \subseteq black'
      <4>1. Bar(r) = Match(v)
        BY <2>2, <3>2 DEF Bar
      <4> QED BY <4>1 DEF DetectContent
    <3> QED BY <1>7, <3>1, <3>2 DEF DetectContent
  <2> QED BY <1>2, <2>2, <2>3 DEF Lines
<1>8. BarsInv'
  BY <1>2, <1>3, <1>7 DEF BarsInv, Before, After
<1> QED BY <1>6, <1>8

\* The bars of the read-back cover it a second time, at another place.
LEMMA ReadBackCovers ==
  ASSUME ContentInv, ReadBackContent
  PROVE  ContentTypeOK' /\ BarsInv'
<1> ContentTypeOK /\ BarsInv /\ page \in Nat
  BY DEF ContentInv, InductiveInv, TypeOK, Pages
<1>1. /\ single /\ page = Subject /\ at = "read"
      /\ at' \in {"detect", "conclude"} /\ (at' = "detect" => page' = page + 1)
      /\ UNCHANGED <<single, text, broken, located, known>>
      /\ black' = black \cup MoreBars
  BY DEF ReadBackContent, ReadBack
<1>2. MoreBars \subseteq Places
  BY MatchInLines DEF MoreBars, Lines
<1>3. ContentTypeOK'
  BY <1>1, <1>2 DEF ContentTypeOK
<1>4. ASSUME NEW v \in known, Lines(v)' # {} PROVE CoveredTwice(v)'
  <2>1. Lines(v) # {}
    BY <1>1, <1>4, BarsOnlyHide
  <2>2. PICK q \in Lines(v) : q \in Match(v)
    BY <2>1, FirstMatch
  <2>3. PICK p \in black : v \in text[p]
    BY <1>1, <2>1 DEF BarsInv
  <2>4. p # q /\ v \in text[q]
    BY <2>2 DEF Lines
  <2>5. p \in black' /\ q \in black'
    BY <1>1, <2>2, <2>3 DEF MoreBars
  <2> QED BY <1>1, <2>3, <2>4, <2>5 DEF CoveredTwice
<1>5. BarsInv'
  BY <1>1, <1>4 DEF BarsInv, Before, After
<1> QED BY <1>3, <1>5

\* The steps that look at another page only move the call along.
LEMMA ElsewhereMoves ==
  ASSUME ContentInv, Elsewhere
  PROVE  ContentTypeOK' /\ BarsInv'
<1> ContentTypeOK /\ BarsInv /\ page \in Nat
  BY DEF ContentInv, InductiveInv, TypeOK, Pages
<1>1. UNCHANGED contentVars
  BY DEF Elsewhere
<1>2. ContentTypeOK'
  BY <1>1 DEF contentVars, ContentTypeOK
<1>3. \A v : Lines(v)' = Lines(v) /\ CoveredTwice(v)' = CoveredTwice(v)
  BY <1>1 DEF contentVars, Lines, CoveredTwice
<1>4. single' = single
  BY DEF Elsewhere, Next, Detect, Review, ReadBack, MaskOutput, CheckOutput, Conclude,
         Write, Fail
<1>5. ASSUME single
      PROVE  /\ at' \notin {"review", "check"}
             /\ Before' => Before
             /\ ~(at' = "read" /\ page' = Subject)
             /\ After' => After
  <2>1. at \notin {"review", "check"} /\ (page = Subject => at \notin {"detect", "read"})
    BY <1>5 DEF Elsewhere, BarsInv
  <2>2. CASE \E doubt \in BOOLEAN : Detect(doubt)
    BY <1>5, <2>1, <2>2 DEF Detect, Before, After
  <2>3. CASE \E present, stuck \in BOOLEAN : ReadBack(present, stuck)
    BY <1>5, <2>1, <2>3 DEF ReadBack, Before, After
  <2>4. CASE (\E given \in BOOLEAN : Conclude(given)) \/ Write \/ Fail
    BY <2>4 DEF Conclude, Write, Fail, Before, After
  <2> QED BY <2>1, <2>2, <2>3, <2>4 DEF Elsewhere, Next, Review, MaskOutput, CheckOutput
<1>6. BarsInv'
  BY <1>1, <1>3, <1>4, <1>5 DEF contentVars, BarsInv
<1> QED BY <1>2, <1>6

\* Every step of redact_pdf preserves the invariant of the bars.
LEMMA ContentNext_Inv ==
  ContentInv /\ [ContentNext]_<<vars, contentVars>> => ContentInv'
<1> SUFFICES ASSUME ContentInv, [ContentNext]_<<vars, contentVars>> PROVE ContentInv'
  OBVIOUS
<1> InductiveInv /\ ContentTypeOK /\ BarsInv
  BY DEF ContentInv
<1>1. [Next]_vars
  BY DEF ContentNext, DetectContent, ReadBackContent, Elsewhere, Next, Present
<1> SUFFICES ContentTypeOK' /\ BarsInv'
  BY <1>1, StepInv DEF ContentInv
<1>2. ASSUME UNCHANGED contentVars
      PROVE  ContentTypeOK' /\ \A v : Lines(v)' = Lines(v) /\ CoveredTwice(v)' = CoveredTwice(v)
  BY <1>2 DEF contentVars, ContentTypeOK, Lines, CoveredTwice
<1>3. CASE Fail /\ UNCHANGED contentVars
  <2>1. ~Before' /\ ~After' /\ at' = "failed"
    BY <1>3 DEF Fail, Before, After
  <2>2. BarsInv'
    BY <2>1 DEF BarsInv
  <2> QED BY <1>2, <1>3, <2>2
<1>4. CASE UNCHANGED <<vars, contentVars>>
  <2>1. UNCHANGED contentVars /\ UNCHANGED <<at, page, single, known, black, text>>
    BY <1>4 DEF vars, contentVars
  <2>2. (Before' => Before) /\ (After' => After)
    BY <2>1 DEF Before, After
  <2>3. BarsInv'
    BY <1>2, <2>1, <2>2 DEF BarsInv
  <2> QED BY <1>2, <2>1, <2>3
<1>5. ASSUME NEW regions \in Answers, NEW doubt \in BOOLEAN, DetectContent(regions, doubt)
      PROVE  ContentTypeOK' /\ BarsInv'
  BY <1>5, DetectionCovers
<1>6. CASE ReadBackContent
  BY <1>6, ReadBackCovers
<1>7. CASE Elsewhere
  BY <1>7, ElsewhereMoves
<1> QED BY <1>3, <1>4, <1>5, <1>6, <1>7 DEF ContentNext

\* The invariant of the bars holds in every state, whatever the page says in
\* its lines and over them and whatever the vision model answers: before the
\* page no bar, and after each of its two steps one more bar on every value
\* that a line still has.
THEOREM BarsInductive == ContentSpec => []ContentInv
BY ContentInit_Inv, ContentNext_Inv, PTL DEF ContentSpec

\* A detected value that the finished page still shows stands in its lines at
\* least three times or is broken over two lines, whatever the page says and
\* whatever the vision model answers.
THEOREM BarsCoverTwice == ContentSpec => []ReadableIfRepeatedOrBroken
<1>1. ContentInv => ReadableIfRepeatedOrBroken
  BY DEF ContentInv, BarsInv, After, Finished, ReadableIfRepeatedOrBroken
<1> QED BY <1>1, BarsInductive, PTL
=============================================================================
