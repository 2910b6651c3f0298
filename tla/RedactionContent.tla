-------------------------- MODULE RedactionContent --------------------------
(***************************************************************************)
(* What the bars of agent_api/redaction.py cover: one page of the PDF in   *)
(* the mode of the build, a single pass.  The module adds to Redaction     *)
(* what that page says at its places and which of them are black; the      *)
(* outcomes Redaction leaves open follow from it.                          *)
(*                                                                         *)
(* OCR reads every place that says something and is not black: what it     *)
(* may miss besides is what the human review is for.  A place is words of  *)
(* one line as OCR groups them, and a bar covers one place.  A value may   *)
(* also be broken over two lines: it then stands at no place, but at two   *)
(* that OCR reads one after the other, and a bar on either breaks it.  A   *)
(* place that says nothing is a picture, a signature or handwriting.       *)
(***************************************************************************)
EXTENDS Redaction, FiniteSetsExt

CONSTANTS
  Subject,    \* the page looked at
  NumPlaces,  \* its places, in the order in which OCR reads them
  Values,     \* personal data of three letters or more
  Patterns,   \* those of a form that _ocr_candidate_regions looks for in a line
  Noticed,    \* those of a form that _redaction_values_present looks for
  Unnamed,    \* no value, or one of less than three letters
  MaxRegions, \* bound on the regions in one answer of the vision model
  MaxBroken   \* bound on the values broken over two lines

ASSUME SubjectAssumption == Subject \in 1..NumPages
ASSUME PlacesAssumption  == {NumPlaces, MaxRegions, MaxBroken} \subseteq Nat
ASSUME ValuesAssumption  == Patterns \cup Noticed \subseteq Values /\ Unnamed \notin Values

VARIABLES
  text,     \* text[p]: the values that the words at p contain
  broken,   \* <<v, p>>: v begins at p and ends at p + 1, on a new line
  located,  \* the places where the vision model saw personal data
  black,    \* the places under a bar
  known     \* detected_values

contentVars == <<text, broken, located, black, known>>

Places == 1..NumPlaces
Breaks == 1..(NumPlaces - 1)

\* Only the single pass is followed to what the page says.
ContentInit ==
  /\ text \in [Places -> SUBSET Values]
  /\ broken \in UNION {kSubset(k, Values \X Breaks) : k \in 0..MaxBroken}
  /\ ~single => text = [p \in Places |-> {}] /\ broken = {}
  /\ located = {} /\ black = {} /\ known = {}

\* The places where a line has the value, for _match_ocr_value and
\* _ocr_candidate_regions, which look at one line at a time.
Lines(value) == {p \in Places \ black : value \in text[p]}

\* With the bars also at covered, all words joined have it.
Joined(value, covered) ==
  \/ Lines(value) \ covered # {}
  \/ \E p \in Breaks : <<value, p>> \in broken /\ {p, p + 1} \cap (black \cup covered) = {}

\* The words of the first match of a value, if there is one.
Match(value) == {p \in Lines(value) : \A q \in Lines(value) : p <= q}

\* A region is <<value, place>>.  Its bar is drawn where a line first has the
\* value, and at the place itself only if no line has it.
Bar(region) == IF Match(region[1]) = {} THEN {region[2]} ELSE Match(region[1])

Candidates == {m \in Patterns : Lines(m) # {}}

Answers ==
  UNION {kSubset(k, (Values \cup {Unnamed}) \X Places) : k \in 0..MaxRegions}

DetectContent(regions, doubt) ==
  /\ single /\ page = Subject
  /\ Detect(doubt)
  /\ located' = {r[2] : r \in regions}
  /\ known' = ({r[1] : r \in regions} \ {Unnamed}) \cup Candidates
  /\ black' = (UNION {Bar(r) : r \in regions})
                \cup (UNION {Match(m) : m \in Candidates})
  /\ UNCHANGED <<text, broken>>

\* _redaction_values_present: a value that is known, or one of a form.
Present(covered) == \E v \in known \cup Noticed : Joined(v, covered)

\* The bars stay as they are; the page is only looked at again.
NoMoreBars == {}

\* One more match of each value, in the image with the bars; none for a value
\* that is present and in no line, and the page is flagged.
MoreBars == UNION {Match(v) : v \in known}

ReadBackContent ==
  /\ single /\ page = Subject
  /\ ReadBack(Present({}), Present(MoreBars))
  /\ black' = black \cup MoreBars
  /\ UNCHANGED <<text, broken, located, known>>

\* The other pages, the other mode and the steps that look at no page.
Elsewhere ==
  /\ single /\ page = Subject => at \notin {"detect", "read"}
  /\ Next
  /\ UNCHANGED contentVars

ContentNext ==
  \/ \E regions \in Answers, doubt \in BOOLEAN : DetectContent(regions, doubt)
  \/ ReadBackContent
  \/ Fail /\ UNCHANGED contentVars
  \/ Elsewhere

ContentSpec == Init /\ ContentInit /\ [][ContentNext]_<<vars, contentVars>>

-----------------------------------------------------------------------------
(* Properties.                                                             *)

ContentTypeOK ==
  /\ text \in [Places -> SUBSET Values]
  /\ broken \subseteq Values \X Breaks
  /\ located \subseteq Places /\ black \subseteq Places
  /\ known \subseteq Values

Finished == single /\ at = "done"

CoveredTwice(v) == \E p, q \in black : p # q /\ v \in text[p] \cap text[q]

\* The finished page shows a value that was detected on it in two cases only.
\* It stands in lines of the page at least three times: the bar of the detection
\* covers one, the bar after the page was read back covers another.  Or it stands
\* in no line that is still seen, only broken over two, and no bar is drawn there
\* because no line matches.
ReadableIfRepeatedOrBroken ==
  Finished => \A v \in known : Joined(v, {}) => Lines(v) = {} \/ CoveredTwice(v)

\* What the tool tells the model that calls it: the detected personal data are
\* permanently covered by black bars.  (The code draws the bar where the value
\* is read first, which need not be where the data were seen.)
DetectedIsCovered ==
  Finished => located \subseteq black

-----------------------------------------------------------------------------
(* The inductive invariant.                                                *)

\* The calls of redact_pdf that have not come to the page, and those beyond it.
Before ==
  \/ at = "detect" /\ page <= Subject
  \/ at = "read" /\ page < Subject

After ==
  \/ at \in {"detect", "read"} /\ page > Subject
  \/ at \in {"conclude", "write", "done"}

\* The detection covers a value once in a line, the read-back a second time.
BarsInv ==
  single =>
    /\ at \notin {"review", "check"}
    /\ Before => known = {} /\ black = {}
    /\ at = "read" /\ page = Subject
         => \A v \in known : Lines(v) # {} => \E p \in black : v \in text[p]
    /\ After => \A v \in known : Lines(v) # {} => CoveredTwice(v)

ContentInv == InductiveInv /\ ContentTypeOK /\ BarsInv
=============================================================================
