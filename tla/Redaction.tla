----------------------------- MODULE Redaction -----------------------------
(***************************************************************************)
(* redact_pdf of agent_api/redaction.py: the passes over the pages of one  *)
(* PDF, and what its verdict and the name of its output say.  What OCR and *)
(* the vision model find is up to them; any answer may also fail the call. *)
(* The images are left out but for one fact of each, sure: the image of    *)
(* the page as it is now has been read by OCR and by the vision model, and *)
(* neither found anything or was in doubt.                                 *)
(***************************************************************************)
EXTENDS Naturals

CONSTANTS
  Modes,      \* the values of SINGLE_PASS_REDACTION; the code has TRUE
  NumPages,   \* the pages of the PDF
  MaxPasses   \* MAX_REDACTION_PASSES

ASSUME ModesAssumption  == Modes \subseteq BOOLEAN
ASSUME BoundsAssumption == NumPages \in Nat \ {0} /\ MaxPasses \in Nat \ {0}

VARIABLES
  single,    \* SINGLE_PASS_REDACTION
  at,        \* where the call is
  page,      \* page_number
  pass,      \* review_pass of a page, later output_pass
  changed,   \* changed, of the output pass
  flagged,   \* review_required_pages
  name,      \* the name of the output: given, or made from the verdict
  sure       \* see above

vars == <<single, at, page, pass, changed, flagged, name, sure>>

Pages == 1..NumPages

TypeOK ==
  /\ single \in Modes
  /\ at \in {"detect", "review", "read", "check", "conclude", "write", "done", "failed"}
  /\ page \in Pages
  /\ pass \in 0..(MaxPasses + 1)
  /\ changed \in BOOLEAN
  /\ flagged \subseteq Pages
  /\ name \in {"none", "given", "redacted", "review_required"}
  /\ sure \in [Pages -> BOOLEAN]

Init ==
  /\ single \in Modes
  /\ at = "detect" /\ page = 1 /\ pass = 0
  /\ changed = FALSE
  /\ flagged = {}
  /\ name = "none"
  /\ sure = [p \in Pages |-> FALSE]

-----------------------------------------------------------------------------

\* The page is flagged if there is a reason to.
Flag(reason) == flagged' = IF reason THEN flagged \cup {page} ELSE flagged

\* Black bars make a new image.
Mask == sure' = [sure EXCEPT ![page] = FALSE]

\* Detection on the page and, when it was in doubt, on the tiles of it; then
\* OCR and the bars.
Detect(doubt) ==
  /\ at = "detect"
  /\ Flag(doubt)
  /\ at' = IF single THEN "read" ELSE "review"
  /\ pass' = 0
  /\ UNCHANGED <<single, page, changed, name, sure>>

LastReview == pass = MaxPasses - 1

\* The vision model looks at the masked page, again after each new mask.
Review(found, doubt) ==
  /\ at = "review"
  /\ Flag(doubt \/ (found /\ LastReview))
  /\ IF found /\ ~LastReview
     THEN pass' = pass + 1 /\ at' = at
     ELSE pass' = 0 /\ at' = "read"
  /\ UNCHANGED <<single, page, changed, name, sure>>

\* OCR reads the masked page.  A value it still reads is masked where its words
\* are found; one that is read afterwards, or has no place, needs a person.
ReadBack(present, stuck) ==
  /\ at = "read"
  /\ Flag(present /\ stuck)
  /\ IF page < NumPages THEN page' = page + 1 /\ at' = "detect"
     ELSE page' = 1 /\ at' = IF single THEN "conclude" ELSE "check"
  /\ UNCHANGED <<single, pass, changed, name, sure>>

LastOutput == pass = MaxPasses + 1

\* After the last page of an output pass: another pass if this one changed a
\* page, and if there is none left every page is flagged.
NextPage(dirty, marked) ==
  IF page < NumPages
  THEN /\ page' = page + 1 /\ changed' = dirty /\ flagged' = marked
       /\ UNCHANGED <<at, pass>>
  ELSE /\ page' = 1
       /\ changed' = FALSE
       /\ IF dirty /\ ~LastOutput
          THEN pass' = pass + 1 /\ at' = at /\ flagged' = marked
          ELSE /\ at' = "conclude" /\ pass' = pass
               /\ flagged' = IF dirty THEN Pages ELSE marked

\* The bars are drawn and the page is forgotten.
MaskOutputQuietly ==
  /\ at = "check"
  /\ Mask
  /\ NextPage(changed, flagged)
  /\ UNCHANGED <<single, name>>

\* OCR finds something on the page of the written PDF: it is masked, and the
\* vision model is not asked about it in this pass.
MaskOutput ==
  /\ at = "check"
  /\ Mask
  /\ NextPage(TRUE, flagged \cup {page})
  /\ UNCHANGED <<single, name>>

\* OCR finds nothing it can mask (stuck: but reads a value), and the vision
\* model is asked.
CheckOutput(stuck, found, doubt) ==
  /\ at = "check"
  /\ sure' = [sure EXCEPT ![page] = ~(stuck \/ found \/ doubt)]
  /\ NextPage(changed \/ found, IF stuck \/ found \/ doubt THEN flagged \cup {page} ELSE flagged)
  /\ UNCHANGED <<single, name>>

DefaultName(pages) == IF pages = {} THEN "redacted" ELSE "review_required"

\* The pages of a single pass flagged only when the file is written.
ConcludeEarly(given) ==
  /\ at = "conclude"
  /\ name' = IF given THEN "given" ELSE DefaultName(flagged)
  /\ at' = "write"
  /\ UNCHANGED <<single, page, pass, changed, flagged, sure>>

\* The PDF is built; a single pass flags every page before the name is made.
Conclude(given) ==
  /\ at = "conclude"
  /\ flagged' = IF single THEN Pages ELSE flagged
  /\ name' = IF given THEN "given" ELSE DefaultName(flagged')
  /\ at' = "write"
  /\ UNCHANGED <<single, page, pass, changed, sure>>

Write ==
  /\ at = "write"
  /\ flagged' = IF single THEN Pages ELSE flagged
  /\ at' = "done"
  /\ UNCHANGED <<single, page, pass, changed, name, sure>>

\* The vision model, OCR, a limit, a text layer in the output, a path that is
\* not allowed or a file of that name: the call ends without an output.
Fail ==
  /\ at \notin {"done", "failed"}
  /\ at' = "failed"
  /\ UNCHANGED <<single, page, pass, changed, flagged, name, sure>>

Next ==
  \/ \E doubt \in BOOLEAN : Detect(doubt)
  \/ \E found, doubt \in BOOLEAN : Review(found, doubt)
  \/ \E present, stuck \in BOOLEAN : ReadBack(present, stuck)
  \/ MaskOutput
  \/ \E stuck, found, doubt \in BOOLEAN : CheckOutput(stuck, found, doubt)
  \/ \E given \in BOOLEAN : Conclude(given)
  \/ Write
  \/ Fail

Spec == Init /\ [][Next]_vars

-----------------------------------------------------------------------------
(* Properties.                                                             *)

\* A page that is not listed for review is sure in the very image that was
\* written, however often it was masked before; so a result that is called
\* verified rests on checks of what the file holds.
UnflaggedIsSure == at = "done" => \A p \in Pages : p \in flagged \/ sure[p]

\* A file whose name was made by the call is named after the verdict that the
\* call returns.
NameTellsVerdict ==
  at = "done" /\ name # "given" => name = DefaultName(flagged)

-----------------------------------------------------------------------------
(* The inductive invariant.                                                *)

Settled(P) == \A p \in P : p \in flagged \/ sure[p]

\* In an output pass the pages before the present one are settled, a finished
\* pass leaves all of them so.
SettledInv ==
  /\ at = "check" => ~single /\ Settled(1..(page - 1))
  /\ at = "conclude" => single \/ Settled(Pages)
  /\ at \in {"write", "done"} => Settled(Pages)

\* From the moment it is made, the name agrees with the pages flagged, because
\* nothing is flagged after it.
NameInv ==
  at \in {"write", "done"} =>
    /\ single => flagged = Pages
    /\ name # "given" => name = DefaultName(flagged)

PassInv == at = "review" => pass < MaxPasses

InductiveInv == TypeOK /\ PassInv /\ SettledInv /\ NameInv
=============================================================================
