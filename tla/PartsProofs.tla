----------------------------- MODULE PartsProofs -----------------------------
(***************************************************************************)
(* Proofs about the smaller parts of the system, one after another, as     *)
(* MCParts checks them: the two copies of the memory file and the token    *)
(* limits of a conversation, for every window and size of message; what    *)
(* one browser session keeps and shows, for any people, login sessions and *)
(* keys of the session state; the start of the APIs, for any number of     *)
(* processes, stops and changes; and the copy of the legacy data, for any  *)
(* trees and files.  At the end all of them together, in the specification *)
(* in which one part moves and the others rest.                            *)
(***************************************************************************)
EXTENDS MCParts, RedactionProofs

-----------------------------------------------------------------------------
(* AgentMemory *)

\* A workspace begins without either copy.
LEMMA MemoryInit_Inv == MemoryInit => MemoryInv
<1> SUFFICES ASSUME MemoryInit PROVE MemoryInv
  OBVIOUS
<1>1. runtime \in BOOLEAN /\ spoilt \in BOOLEAN
  BY Zenon DEF MemoryInit
<1> QED BY <1>1 DEF MemoryInit, MemoryInv, MemoryTypeOK, Contents, SharedInv, SourceInv, FileInv

\* AgentRuntime.create: a torn file is never taken for the source of a copy
\* that is still whole.
LEMMA CreateInv ==
  ASSUME MemoryInv,
         BeginCreate \/ Restored \/ Seeded \/ DurableFound \/ DurableMissing \/ Kept
  PROVE  MemoryInv'
<1>1. CASE BeginCreate
  BY <1>1 DEF BeginCreate, Restore, Seed, FileFound, MemoryInv, MemoryTypeOK, Contents,
              SharedInv, SourceInv, FileInv
<1>2. CASE Restored
  <2>1. spoilt' \in BOOLEAN
    BY <1>2 DEF Restored, MemoryInv, MemoryTypeOK
  <2> QED BY <1>2, <2>1
    DEF Restored, MemoryInv, MemoryTypeOK, Contents, SharedInv, SourceInv, FileInv
<1>3. CASE Seeded
  BY <1>3 DEF Seeded, MemoryInv, MemoryTypeOK, Contents, SharedInv, SourceInv, FileInv
<1>4. CASE DurableFound
  BY <1>4 DEF DurableFound, MemoryInv, MemoryTypeOK, Contents, SharedInv, SourceInv, FileInv
<1>5. CASE DurableMissing
  BY <1>5 DEF DurableMissing, MemoryInv, MemoryTypeOK, Contents, SharedInv, SourceInv, FileInv
<1>6. CASE Kept
  BY <1>6 DEF Kept, MemoryInv, MemoryTypeOK, Contents, SharedInv, SourceInv, FileInv
<1> QED BY <1>1, <1>2, <1>3, <1>4, <1>5, <1>6

\* A turn, and the tools that write or remove the file.
LEMMA TurnInv ==
  ASSUME MemoryInv, Invoke \/ Edit \/ Edited \/ Remove \/ Save \/ Saved \/ NotSaved
  PROVE  MemoryInv'
<1>1. CASE Invoke
  BY <1>1 DEF Invoke, MemoryInv, MemoryTypeOK, Contents, SharedInv, SourceInv, FileInv
<1>2. CASE Edit
  BY <1>2 DEF Edit, MemoryInv, MemoryTypeOK, Contents, SharedInv, SourceInv, FileInv
<1>3. CASE Edited
  BY <1>3 DEF Edited, MemoryInv, MemoryTypeOK, Contents, SharedInv, SourceInv, FileInv
<1>4. CASE Remove
  <2>1. spoilt' \in BOOLEAN
    BY <1>4 DEF Remove, MemoryInv, MemoryTypeOK
  <2> QED BY <1>4, <2>1
    DEF Remove, MemoryInv, MemoryTypeOK, Contents, SharedInv, SourceInv, FileInv
<1>5. CASE Save
  BY <1>5 DEF Save, MemoryInv, MemoryTypeOK, Contents, SharedInv, SourceInv, FileInv
<1>6. CASE Saved
  BY <1>6 DEF Saved, MemoryInv, MemoryTypeOK, Contents, SharedInv, SourceInv, FileInv
<1>7. CASE NotSaved
  BY <1>7 DEF NotSaved, Orphaned, MemoryInv, MemoryTypeOK, Contents, SharedInv, SourceInv,
              FileInv
<1> QED BY <1>1, <1>2, <1>3, <1>4, <1>5, <1>6, <1>7

\* Every step of the worker, a tool or a crash preserves the invariant.
LEMMA MemoryNext_Inv == MemoryInv /\ [MemoryNext]_memoryVars => MemoryInv'
<1> SUFFICES ASSUME MemoryInv, [MemoryNext]_memoryVars PROVE MemoryInv'
  OBVIOUS
<1>1. CASE DropRuntime
  BY <1>1 DEF DropRuntime, Orphaned, MemoryInv, MemoryTypeOK, Contents, SharedInv, SourceInv,
              FileInv
<1>2. CASE MemoryCrash
  <2>1. spoilt' \in BOOLEAN
    BY <1>2 DEF MemoryCrash, MemoryInv, MemoryTypeOK
  <2> QED BY <1>2, <2>1
    DEF MemoryCrash, MemoryInv, MemoryTypeOK, Contents, SharedInv, SourceInv, FileInv
<1>3. CASE UNCHANGED memoryVars
  BY <1>3 DEF memoryVars, MemoryInv, MemoryTypeOK, Contents, SharedInv, SourceInv, FileInv
<1> QED BY <1>1, <1>2, <1>3, CreateInv, TurnInv DEF MemoryNext

\* The file is torn only while it is written, and gone only while the durable
\* copy can restore it, in every state.
THEOREM MemoryInductive == MemorySpec => []MemoryInv
BY MemoryInit_Inv, MemoryNext_Inv, PTL DEF MemorySpec

\* Some copy of the memory is whole, whatever fails or crashes, but for the
\* losses the property names.
THEOREM MemorySurvives == MemorySpec => []MemoryOutlivesCrash
<1>1. MemoryInv => MemoryOutlivesCrash
  BY DEF MemoryInv, MemoryTypeOK, Contents, SharedInv, SourceInv, FileInv, MemoryOutlivesCrash
<1> QED BY <1>1, MemoryInductive, PTL

-----------------------------------------------------------------------------
(* ContextBudget *)

USE WindowsAccepted, BoundsAccepted DEF WindowsAccepted, BoundsAccepted

\* The limits are tokens, and sizes are positive.
LEMMA FiguresAreTokens ==
  ASSUME window \in Windows
  PROVE  /\ InputBudget \in Nat \ {0} /\ Trigger \in Nat \ {0}
         /\ KeepTokens \in Nat \ {0}
         /\ Sizes \subseteq Nat \ {0}
<1>1. \A s \in Nat \ {0} : window \div s \in Nat
  OBVIOUS
<1> QED BY <1>1 DEF InputBudget, Trigger, KeepTokens, Sizes, AtLeast, AtMost

\* What is kept is a fifth of the budget at most, or a single token.
LEMMA KeepIsAFifth ==
  ASSUME window \in Windows
  PROVE  5 * KeepTokens <= InputBudget \/ KeepTokens = 1
<1>1. InputBudget \in Nat
  BY FiguresAreTokens
<1>2. 5 * (InputBudget \div 5) <= InputBudget
  BY <1>1
<1> QED BY <1>1, <1>2 DEF KeepTokens, AtLeast, AtMost

\* What the check refuses although the messages were cut, or were few enough,
\* is too large for the other reasons the property names.
LEMMA RefusedForOthers ==
  ASSUME window \in Windows,
         NEW n \in Nat, NEW o \in Nat \ {0}, NEW s \in Nat,
         \/ n <= KeepTokens
         \/ n <= 2 * KeepTokens + s /\ s > 0,
         Estimate(n + o) > InputBudget
  PROVE  15 * (o + s) > 4 * InputBudget
<1> DEFINE B == InputBudget
           K == KeepTokens
<1>1. B \in Nat \ {0} /\ K \in Nat \ {0} /\ (5 * K <= B \/ K = 1)
  BY FiguresAreTokens, KeepIsAFifth
<1>2. 3 * (n + o) > 2 * B
  <2>1. 2 * Estimate(n + o) <= 3 * (n + o) + 1 /\ Estimate(n + o) \in Nat
    BY DEF Estimate
  <2>2. Estimate(n + o) >= B + 1
    BY <1>1, <2>1
  <2> QED BY <1>1, <2>1, <2>2
<1> HIDE DEF B, K
<1>3. n <= K \/ (n <= 2 * K + s /\ s > 0)
  BY DEF K
<1>4. 15 * (o + s) > 4 * B
  BY <1>1, <1>2, <1>3
<1> QED BY <1>4 DEF B

\* A conversation begins empty, in one of the windows.
LEMMA BudgetInit_Inv == BudgetInit => BudgetInv
<1> SUFFICES ASSUME BudgetInit PROVE BudgetInv
  OBVIOUS
<1>1. overhead \in Nat \ {0}
  BY FiguresAreTokens DEF BudgetInit
<1> QED BY <1>1 DEF BudgetInit, BudgetInv, BudgetTypeOK, SentInv, TriedInv, RefusedInv

\* A model call begins with the whole history and no cut.
LEMMA CallInv ==
  ASSUME BudgetInv, NEW older \in Nat, NEW new \in Nat, Call(older, new)
  PROVE  BudgetInv'
<1> BudgetTypeOK
  BY DEF BudgetInv
<1>1. calls' \in 0..MaxCalls /\ history' \in Nat /\ newest' \in Nat
  BY DEF Call, BudgetTypeOK
<1>2. widest' \in Nat /\ newest' <= widest'
  BY DEF Call, AtLeast, BudgetTypeOK
<1>3. phase' \in {"summarise", "check"}
  BY DEF Call
<1>4. BudgetTypeOK'
  BY <1>1, <1>2, <1>3 DEF Call, BudgetTypeOK
<1> QED BY <1>2, <1>3, <1>4 DEF Call, BudgetInv, SentInv, TriedInv, RefusedInv

\* A cut leaves no more than twice what is to be kept, unless a single message
\* with its results is larger.
LEMMA SummariseInv == BudgetInv /\ Summarise => BudgetInv'
<1> SUFFICES ASSUME BudgetInv, Summarise PROVE BudgetInv'
  OBVIOUS
<1> BudgetTypeOK /\ TriedInv
  BY DEF BudgetInv
<1>1. KeepTokens \in Nat \ {0} /\ Sizes \subseteq Nat \ {0}
  BY FiguresAreTokens DEF BudgetTypeOK
<1>2. PICK n \in Sizes, w \in {newest, widest} : \E k \in Suffix(w) :
             sent' = k + n /\ summary' = n /\ large' = w
  BY DEF Summarise
<1>3. PICK k \in Suffix(w) : sent' = k + n /\ summary' = n /\ large' = w
  BY <1>2
<1>4. n \in Nat /\ n > 0 /\ w \in Nat /\ newest <= w
  BY <1>1 DEF BudgetTypeOK, TriedInv
<1>5. k \in Nat /\ (w <= KeepTokens => k <= 2 * KeepTokens)
  BY <1>1, <1>4 DEF Suffix, AtLeast, BudgetTypeOK
<1>6. UNCHANGED <<window, overhead, history, newest, widest, calls>>
      /\ tried' = "cut" /\ phase' = "check"
  BY DEF Summarise
<1>7. KeepTokens' = KeepTokens
  BY <1>6 DEF KeepTokens, InputBudget
<1>8. BudgetTypeOK'
  BY <1>3, <1>4, <1>5, <1>6 DEF BudgetTypeOK
<1>9. TriedInv'
  <2>1. w <= KeepTokens => k + n <= 2 * KeepTokens + n
    BY <1>1, <1>4, <1>5
  <2> QED BY <1>3, <1>4, <1>6, <1>7, <2>1 DEF TriedInv
<1> QED BY <1>6, <1>8, <1>9 DEF BudgetInv, SentInv, RefusedInv

\* A history that is not cut is no more than what is to be kept, or it is the
\* newest messages alone.
LEMMA CannotCutInv == BudgetInv /\ CannotCut => BudgetInv'
<1> SUFFICES ASSUME BudgetInv, CannotCut PROVE BudgetInv'
  OBVIOUS
<1> BudgetTypeOK /\ SentInv /\ TriedInv
  BY DEF BudgetInv
<1>1. KeepTokens \in Nat
  BY FiguresAreTokens DEF BudgetTypeOK
<1>2. sent = history /\ (history <= KeepTokens \/ history <= newest)
  BY <1>1 DEF CannotCut, CanCut, SentInv, BudgetTypeOK
<1>3. large <= KeepTokens => sent <= KeepTokens
  BY <1>1, <1>2 DEF TriedInv, BudgetTypeOK
<1>4. KeepTokens' = KeepTokens
  BY DEF CannotCut, KeepTokens, InputBudget
<1> QED BY <1>3, <1>4
  DEF CannotCut, BudgetInv, BudgetTypeOK, SentInv, TriedInv, RefusedInv

\* The check lets a request pass, has it summarised or refuses it.
LEMMA CheckInv == BudgetInv /\ CheckBudget => BudgetInv'
<1> SUFFICES ASSUME BudgetInv, CheckBudget PROVE BudgetInv'
  OBVIOUS
<1> BudgetTypeOK /\ SentInv /\ TriedInv
  BY DEF BudgetInv
<1>1. CASE Fits /\ Answered
  BY <1>1 DEF Answered, BudgetInv, BudgetTypeOK, SentInv, TriedInv, RefusedInv
<1>2. CASE ~Fits /\ Overflow /\ UNCHANGED requestVars
  <2>1. window' = window /\ (Fits <=> Fits')
    BY <1>2 DEF requestVars, Fits, Estimate, InputBudget
  <2>2. KeepTokens' = KeepTokens
    BY <2>1 DEF KeepTokens, InputBudget
  <2>3. phase = "check"
    BY DEF CheckBudget
  <2>4. CASE tried = "no"
    BY <1>2, <2>2, <2>3, <2>4
      DEF Overflow, requestVars, BudgetInv, BudgetTypeOK, SentInv, TriedInv, RefusedInv
  <2>5. CASE tried # "no"
    <3>1. phase' = "refused"
      BY <1>2, <2>5 DEF Overflow
    <3>2. RefusedInv'
      BY <1>2, <2>1, <2>5 DEF requestVars, RefusedInv
    <3>3. TriedInv'
      BY <1>2, <2>2, <2>3 DEF requestVars, TriedInv
    <3> QED BY <1>2, <3>1, <3>2, <3>3 DEF requestVars, BudgetInv, BudgetTypeOK, SentInv
  <2> QED BY <2>4, <2>5
<1> QED BY <1>1, <1>2 DEF CheckBudget

\* Every step of an invocation preserves the invariant.
LEMMA BudgetNext_Inv == BudgetInv /\ [BudgetNext]_budgetVars => BudgetInv'
<1> SUFFICES ASSUME BudgetInv, [BudgetNext]_budgetVars PROVE BudgetInv'
  OBVIOUS
<1> BudgetTypeOK /\ SentInv /\ TriedInv /\ RefusedInv
  BY DEF BudgetInv
<1>1. Sizes \subseteq Nat
  BY FiguresAreTokens DEF BudgetTypeOK
<1>2. CASE BudgetAsk
  <2>1. PICK n \in Sizes, answer \in Sizes \cup {0} : Call(answer, n)
    BY <1>2 DEF BudgetAsk
  <2> QED BY <1>1, <2>1, CallInv
<1>3. CASE SummaryFails
  BY <1>3 DEF SummaryFails, requestVars, BudgetInv, BudgetTypeOK, SentInv, TriedInv, RefusedInv
<1>4. CASE ModelFails
  <2>1. phase = "check" /\ phase' \in {"idle", "summarise"}
        /\ (phase' = "summarise" => tried = "no") /\ UNCHANGED requestVars
    BY <1>4 DEF ModelFails
  <2> QED BY <2>1 DEF requestVars, BudgetInv, BudgetTypeOK, SentInv, TriedInv, RefusedInv
<1>5. CASE Results
  <2>1. PICK call \in Sizes, n \in Sizes, o \in Sizes :
          Call(0, call + Offloaded(n) + Offloaded(o))
    BY <1>5 DEF Results
  <2>2. call + Offloaded(n) + Offloaded(o) \in Nat
    BY <1>1 DEF Offloaded, PreviewSize
  <2> QED BY <2>1, <2>2, CallInv
<1>6. CASE OffloadFails
  BY <1>6 DEF OffloadFails, requestVars, BudgetInv, BudgetTypeOK, SentInv, TriedInv, RefusedInv
<1>7. CASE UNCHANGED budgetVars
  <2>1. (Fits <=> Fits') /\ KeepTokens' = KeepTokens
    BY <1>7 DEF budgetVars, Fits, Estimate, KeepTokens, InputBudget
  <2> QED BY <1>7, <2>1 DEF budgetVars, BudgetInv, BudgetTypeOK, SentInv, TriedInv, RefusedInv
<1> QED BY <1>2, <1>3, <1>4, <1>5, <1>6, <1>7, SummariseInv, CannotCutInv, CheckInv
        DEF BudgetNext

\* For every window and every size of message: a request is refused only after
\* a cut of its history was tried, and what was cut is as small as it gets.
THEOREM BudgetInductive == BudgetSpec => []BudgetInv
BY BudgetInit_Inv, BudgetNext_Inv, PTL DEF BudgetSpec

\* For every window and every size of message: no turn is refused for the
\* length of its conversation alone.
THEOREM RefusalCorrect == BudgetSpec => []LengthNeverRefuses
<1>1. BudgetInv => LengthNeverRefuses
  <2> SUFFICES ASSUME BudgetInv, phase = "refused", ~(large > KeepTokens)
               PROVE  15 * (overhead + summary) > 4 * InputBudget
    BY DEF LengthNeverRefuses
  <2> BudgetTypeOK /\ TriedInv /\ RefusedInv
    BY DEF BudgetInv
  <2>1. KeepTokens \in Nat /\ InputBudget \in Nat /\ large \in Nat /\ sent \in Nat
        /\ overhead \in Nat \ {0} /\ summary \in Nat
    BY FiguresAreTokens DEF BudgetTypeOK
  <2>2. sent <= KeepTokens \/ (sent <= 2 * KeepTokens + summary /\ summary > 0)
    BY <2>1 DEF BudgetTypeOK, TriedInv, RefusedInv
  <2>3. Estimate(sent + overhead) > InputBudget
    BY <2>1 DEF RefusedInv, Fits, Estimate
  <2> QED BY <2>1, <2>2, <2>3, RefusedForOthers DEF BudgetTypeOK
<1> QED BY <1>1, BudgetInductive, PTL

-----------------------------------------------------------------------------
(* ClientSession *)

USE OwnerAssumption, NothingAssumption DEF OwnerAssumption, NothingAssumption

\* The session begins without a user and without data.
LEMMA ClientInit_Inv == ClientInit => ClientInv
BY DEF ClientInit, Empty, ClientInv, ClientTypeOK, MarkedState, RunInv, PageInv

\* Until a run has its user, nothing is claimed of the run; a step that leaves
\* the marked state alone and ends there is harmless.
LEMMA BeforeTheUser ==
  ASSUME ClientInv, ClientTypeOK', UNCHANGED <<auth_user, held>>,
         script' \in {"idle", "start", "exchange", "me", "login"}
  PROVE  ClientInv'
BY DEF ClientInv, MarkedState, RunInv, PageInv

\* A step of a run that knows its user, and changes neither the user nor the
\* guid, keeps what the run knows.
LEMMA RunKeepsUser ==
  ASSUME ClientInv, script \in {"compare", "clear", "page"},
         UNCHANGED <<cookie, auth_guid, user>>
  PROVE  RunInv'
BY DEF ClientInv, RunInv, current_guid

\* The keys of a session hold values of the owner of its guid or nothing.
LEMMA OwnerIsPerson ==
  ASSUME ClientTypeOK, current_guid # Nothing
  PROVE  current_guid \in Guids /\ Owner[current_guid] \in People
BY DEF ClientTypeOK, current_guid

\* require_login: the steps before the answer of the server.
LEMMA LoginInv ==
  ASSUME ClientInv,
         Rerun \/ Exchange \/ NoGuid \/ Rejected \/ Unavailable \/ (\E g \in Guids : Login(g))
  PROVE  ClientInv'
<1> ClientTypeOK
  BY DEF ClientInv
<1>1. CASE Rerun
  BY <1>1, BeforeTheUser DEF Rerun, browser, stored, ClientTypeOK
<1>2. CASE Exchange
  BY <1>2, BeforeTheUser DEF Exchange, At, End, ClientTypeOK
<1>3. CASE NoGuid
  BY <1>3, BeforeTheUser DEF NoGuid, At, browser, stored, ClientTypeOK
<1>4. CASE Rejected
  BY <1>4, BeforeTheUser DEF Rejected, At, browser, ClientTypeOK
<1>5. CASE Unavailable
  BY <1>5, BeforeTheUser DEF Unavailable, End, browser, stored, ClientTypeOK
<1>6. ASSUME NEW g \in Guids, Login(g) PROVE ClientInv'
  BY <1>6, BeforeTheUser DEF Login, End, ClientTypeOK
<1> QED BY <1>1, <1>2, <1>3, <1>4, <1>5, <1>6

\* _set_authenticated_user: the state of another user goes before the mark.
LEMMA ChangeOfUserInv ==
  ASSUME ClientInv,
         Accepted \/ SameUser \/ OtherUser \/ StoreUser \/ (\E k \in Keys : ClearKey(k))
  PROVE  ClientInv'
<1> ClientTypeOK /\ MarkedState /\ RunInv
  BY DEF ClientInv
<1>1. CASE Accepted
  <2>1. current_guid # Nothing /\ current_guid' = current_guid
    BY <1>1 DEF Accepted, ClientTypeOK, browser, stored, current_guid
  <2>2. user' \in People /\ user' = Owner[current_guid]
    BY <1>1, <2>1, OwnerIsPerson DEF Accepted
  <2> QED BY <1>1, <2>1, <2>2
    DEF Accepted, browser, stored, ClientInv, ClientTypeOK, MarkedState, RunInv, PageInv
<1>2. CASE SameUser
  <2>1. RunInv'
    BY <1>2, RunKeepsUser DEF SameUser, At, browser, stored
  <2> QED BY <1>2, <2>1
    DEF SameUser, At, browser, stored, ClientInv, ClientTypeOK, MarkedState, PageInv
<1>3. CASE OtherUser
  <2>1. RunInv'
    BY <1>3, RunKeepsUser DEF OtherUser, At, browser, stored
  <2> QED BY <1>3, <2>1
    DEF OtherUser, At, browser, stored, ClientInv, ClientTypeOK, MarkedState, PageInv
<1>4. CASE StoreUser
  <2>1. RunInv'
    BY <1>4, RunKeepsUser DEF StoreUser, At, browser
  <2>2. \A k \in Keys : held'[k] = Nothing
    BY <1>4 DEF StoreUser, Empty
  <2> QED BY <1>4, <2>1, <2>2
    DEF StoreUser, At, browser, ClientInv, ClientTypeOK, MarkedState, PageInv
<1>5. ASSUME NEW k \in Keys, ClearKey(k) PROVE ClientInv'
  <2>1. RunInv'
    BY <1>5, RunKeepsUser DEF ClearKey, browser
  <2> QED BY <1>5, <2>1
    DEF ClearKey, browser, ClientInv, ClientTypeOK, MarkedState, PageInv
<1> QED BY <1>1, <1>2, <1>3, <1>4, <1>5

\* The pages: what they keep is of the user whose mark the session has.
LEMMA PagesInv ==
  ASSUME ClientInv,
         NEW k \in Keys,
         Keep(k) \/ Forget(k) \/ (\E dropped \in SUBSET (Keys \ {k}) : Browse(k, dropped))
  PROVE  ClientInv'
<1> ClientTypeOK /\ MarkedState /\ RunInv /\ PageInv
  BY DEF ClientInv
<1>1. script = "page" => current_guid \in Guids /\ Owner[current_guid] = auth_user
                         /\ auth_user \in People
  BY OwnerIsPerson DEF RunInv, PageInv
<1>2. CASE Keep(k)
  <2>1. RunInv'
    BY <1>2, RunKeepsUser DEF Keep, browser
  <2>2. held' \in [Keys -> People \cup {Nothing}] /\ MarkedState'
    BY <1>1, <1>2 DEF Keep, ClientTypeOK, MarkedState
  <2> QED BY <1>2, <2>1, <2>2 DEF Keep, browser, ClientInv, ClientTypeOK, PageInv
<1>3. CASE Forget(k)
  <2>1. RunInv'
    BY <1>3, RunKeepsUser DEF Forget, browser
  <2> QED BY <1>3, <2>1
    DEF Forget, browser, ClientInv, ClientTypeOK, MarkedState, PageInv
<1>4. ASSUME NEW dropped \in SUBSET (Keys \ {k}), Browse(k, dropped) PROVE ClientInv'
  <2>1. held' \in [Keys -> People \cup {Nothing}] /\ MarkedState'
    BY <1>1, <1>4 DEF Browse, ClientTypeOK, MarkedState
  <2> QED BY <1>4, <2>1 DEF Browse, End, browser, ClientInv, ClientTypeOK, RunInv, PageInv
<1> QED BY <1>2, <1>3, <1>4

\* Every step preserves the invariant.
LEMMA ClientNext_Inv == ClientInv /\ [ClientNext]_clientVars => ClientInv'
<1> SUFFICES ASSUME ClientInv, [ClientNext]_clientVars PROVE ClientInv'
  OBVIOUS
<1> ClientTypeOK /\ MarkedState /\ RunInv /\ PageInv
  BY DEF ClientInv
<1>1. CASE Logout
  <2>1. \A k \in Keys : held'[k] = Nothing
    BY <1>1 DEF Logout, Empty
  <2> QED BY <1>1, <2>1
    DEF Logout, Empty, End, ClientInv, ClientTypeOK, MarkedState, RunInv, PageInv
<1>2. CASE Interrupt
  BY <1>2, BeforeTheUser DEF Interrupt, End, browser, stored, ClientTypeOK
<1>3. ASSUME NEW g \in Guids, ServerLogin(g) PROVE ClientInv'
  BY <1>3, BeforeTheUser DEF ServerLogin, stored, ClientTypeOK
<1>4. ASSUME NEW g \in Guids, Revoke(g) PROVE ClientInv'
  BY <1>4 DEF Revoke, stored, ClientInv, ClientTypeOK, MarkedState, RunInv, PageInv, current_guid
<1>5. CASE UNCHANGED clientVars
  BY <1>5 DEF clientVars, ClientInv, ClientTypeOK, MarkedState, RunInv, PageInv, current_guid
<1> QED BY <1>1, <1>2, <1>3, <1>4, <1>5, LoginInv, ChangeOfUserInv, PagesInv DEF ClientNext

\* The invariant holds throughout every browser session.
THEOREM SessionInductive == ClientSpec => []ClientInv
BY ClientInit_Inv, ClientNext_Inv, PTL DEF ClientSpec

\* What the session keeps belongs to the user it is marked with: the state of
\* one user is gone before the next one is stored, whatever run is cut off.
THEOREM MarkCorrect == ClientSpec => []MarkedState
<1>1. ClientInv => MarkedState
  BY DEF ClientInv
<1> QED BY <1>1, SessionInductive, PTL

\* A page shows and uses nothing of anybody but the user whose name it shows.
THEOREM PageCorrect == ClientSpec => []NoForeignState
<1>1. ClientInv => NoForeignState
  BY DEF ClientInv, MarkedState, RunInv, PageInv, NoForeignState
<1> QED BY <1>1, SessionInductive, PTL

USE NobodyAssumption, MaxAssumption, MigrationAssumption
    DEF NobodyAssumption, MaxAssumption, MigrationAssumption

-----------------------------------------------------------------------------
(* Bootstrap *)

\* An empty database and APIs that are down satisfy the invariant.
LEMMA BootInit_Inv == BootInit => BootInv
<1> SUFFICES ASSUME BootInit PROVE BootInv
  OBVIOUS
<1>1. MaxCrashes \in Nat /\ MaxOverlaps \in Nat /\ MaxChanges \in Nat
  OBVIOUS
<1>2. schema \in BOOLEAN
  BY Zenon DEF BootInit
<1>3. \A p \in Apis : api[p] = "down"
  BY DEF BootInit
<1>4. BootTypeOK
  BY <1>1, <1>2 DEF BootInit, BootTypeOK, Admins
<1> QED BY <1>3, <1>4 DEF BootInit, BootInv, SchemaInv, HoldInv, StarterInv, SeenInv

\* A transaction that ends without a commit takes back all it had.
LEMMA AbortInv ==
  ASSUME BootInv, NEW p \in Apis, Abort(p),
         crashes' \in 0..MaxCrashes, overlaps' \in 0..MaxOverlaps, changes' \in 0..MaxChanges
  PROVE  BootInv'
BY DEF Abort, Move, Release, Without, BootInv, BootTypeOK, Admins, SchemaInv, HoldInv,
       StarterInv, SeenInv

\* The statements that give locks.
LEMMA SchemaStepInv ==
  ASSUME BootInv, NEW p \in Apis,
         Boot(p) \/ SchemaFound(p) \/ SchemaMade(p) \/ SchemaWait(p) \/ SchemaFree(p) \/ Lock(p)
  PROVE  BootInv'
<1>1. CASE Boot(p)
  <2>1. overlaps' \in 0..MaxOverlaps
    BY <1>1 DEF Boot, BootInv, BootTypeOK
  <2> QED BY <1>1, <2>1
    DEF Boot, Move, BootInv, BootTypeOK, Admins, SchemaInv, HoldInv, StarterInv, SeenInv
<1>2. CASE SchemaFound(p)
  BY <1>2 DEF SchemaFound, Move, bounds, BootInv, BootTypeOK, Admins, SchemaInv, HoldInv,
              StarterInv, SeenInv
<1>3. CASE SchemaMade(p)
  BY <1>3 DEF SchemaMade, Move, bounds, BootInv, BootTypeOK, Admins, SchemaInv, HoldInv,
              StarterInv, SeenInv
<1>4. CASE SchemaWait(p)
  BY <1>4 DEF SchemaWait, Move, bounds, BootInv, BootTypeOK, Admins, SchemaInv, HoldInv,
              StarterInv, SeenInv
<1>5. CASE SchemaFree(p)
  BY <1>5 DEF SchemaFree, Move, bounds, BootInv, BootTypeOK, Admins, SchemaInv, HoldInv,
              StarterInv, SeenInv
<1>6. CASE Lock(p)
  BY <1>6 DEF Lock, Move, bounds, BootInv, BootTypeOK, Admins, SchemaInv, HoldInv,
              StarterInv, SeenInv
<1> QED BY <1>1, <1>2, <1>3, <1>4, <1>5, <1>6

\* The statements under the advisory lock, and the commit.
LEMMA AccountStepInv ==
  ASSUME BootInv, NEW p \in Apis, Look(p) \/ InsertAdmin(p) \/ Commit(p)
  PROVE  BootInv'
<1>1. CASE Look(p)
  BY <1>1 DEF Look, Found, Move, bounds, BootInv, BootTypeOK, Admins, SchemaInv, HoldInv,
              StarterInv, SeenInv
<1>2. CASE InsertAdmin(p)
  BY <1>2 DEF InsertAdmin, Move, bounds, BootInv, BootTypeOK, Admins, SchemaInv, HoldInv,
              StarterInv, SeenInv
<1>3. CASE Commit(p)
  BY <1>3 DEF Commit, Release, Without, Move, bounds, BootInv, BootTypeOK, Admins, SchemaInv,
              HoldInv, StarterInv, SeenInv
<1> QED BY <1>1, <1>2, <1>3

\* While somebody is about to commit, no administrator gets at the account.
LEMMA ChangeInv ==
  ASSUME BootInv, NEW to \in Admins \cup {"absent", "user"}, Change(to)
  PROVE  BootInv'
BY DEF Change, BootInv, BootTypeOK, Admins, SchemaInv, HoldInv, StarterInv, SeenInv

\* Every statement of a start, stop and change preserves the invariant.
LEMMA BootNext_Inv == BootInv /\ [BootNext]_bootVars => BootInv'
<1> SUFFICES ASSUME BootInv, [BootNext]_bootVars PROVE BootInv'
  OBVIOUS
<1> BootTypeOK
  BY DEF BootInv
<1>1. ASSUME NEW p \in Apis, Initialize(p) PROVE BootInv'
  <2>1. CASE SchemaCollides(p) \/ Refuse(p) \/ InsertRefused(p)
    BY <2>1, AbortInv DEF SchemaCollides, Refuse, InsertRefused, bounds, BootTypeOK
  <2> QED BY <1>1, <2>1, SchemaStepInv, AccountStepInv DEF Initialize
<1>2. ASSUME NEW p \in Apis, Deadlock(p) PROVE BootInv'
  BY <1>2, AbortInv DEF Deadlock, bounds, BootTypeOK
<1>3. ASSUME NEW p \in Apis, Stop(p) PROVE BootInv'
  BY <1>3, AbortInv DEF Stop, BootTypeOK
<1>4. CASE UNCHANGED bootVars
  BY <1>4 DEF bootVars, BootInv, BootTypeOK, Admins, SchemaInv, HoldInv, StarterInv, SeenInv
<1> QED BY <1>1, <1>2, <1>3, <1>4, ChangeInv DEF BootNext

\* The invariant of the locks holds in every state.
THEOREM BootInductive == BootSpec => []BootInv
BY BootInit_Inv, BootNext_Inv, PTL DEF BootSpec

\* Whoever starts to serve finds the bootstrap account with the role of an
\* administrator, deactivated or not, however starts collide, deadlock or are
\* stopped and whatever administrators do meanwhile.
THEOREM ServingCorrect == BootSpec => ServesWithAdmin
<1>1. ASSUME BootInv, [BootNext]_bootVars, NEW p \in Apis, api[p] # "up", api'[p] = "up"
      PROVE  account' \in Admins
  <2> BootTypeOK
    BY <1>1 DEF BootInv
  <2>1. \A q \in Apis : ~Abort(q)
    BY <1>1 DEF Abort, Move, BootTypeOK
  <2>2. PICK q \in Apis : Commit(q)
    BY <1>1, <2>1 DEF BootNext, bootVars, Initialize, Boot, SchemaFound, SchemaMade,
       SchemaWait, SchemaCollides, SchemaFree, Lock, Look, Found, Refuse, InsertAdmin,
       InsertRefused, Deadlock, Stop, Change, Move, BootTypeOK
  <2> QED BY <1>1, <2>2 DEF Commit, BootInv, SeenInv, Admins
<1>2. BootInv /\ [BootNext]_bootVars
        => [(\E p \in Apis : api[p] # "up" /\ api'[p] = "up") => account' \in Admins]_bootVars
  BY <1>1
<1> QED BY <1>2, BootInductive, PTL DEF BootSpec, ServesWithAdmin

-----------------------------------------------------------------------------
(* Migration *)

\* Before the first run nothing is taken as done.
LEMMA MigrationInit_Inv == MigrationInit => MigrationInv
<1> SUFFICES ASSUME MigrationInit PROVE MigrationInv
  OBVIOUS
<1>1. failed \in BOOLEAN
  BY Zenon DEF MigrationInit
<1>2. tree \in Trees /\ runs \in 0..MaxRuns
  BY DEF MigrationInit, Trees
<1>3. MigrationTypeOK
  BY <1>1, <1>2 DEF MigrationInit, NoFiles, MigrationTypeOK
<1> QED BY <1>3 DEF MigrationInit, Running, MigrationInv, ProgressInv, SuccessIsWhole

\* A tree that is done, the one the script is at too, lets it go on.
LEMMA NextTreeInv ==
  ASSUME MigrationInv, Running, Done(tree), NextTree,
         ~failed, UNCHANGED <<legacy, target, waiting, failed, runs>>
  PROVE  MigrationInv'
<1> MigrationTypeOK /\ (\A t \in 1..(tree - 1) : Done(t)) /\ tree \in Trees
  BY DEF MigrationInv, ProgressInv, MigrationTypeOK
<1>1. \A t \in 1..tree : Done(t)
  BY DEF Trees
<1>2. CASE tree < NumTrees
  <2>1. migration' = "check" /\ tree' = tree + 1
    BY <1>2 DEF NextTree
  <2>2. tree' \in Trees /\ tree' - 1 = tree
    BY <1>2, <2>1 DEF Trees
  <2> QED BY <1>1, <2>1, <2>2
    DEF MigrationInv, MigrationTypeOK, ProgressInv, SuccessIsWhole, Done, Taken, Running
<1>3. CASE ~(tree < NumTrees)
  <2>1. migration' = "succeeded" /\ tree' = tree
    BY <1>3 DEF NextTree
  <2>2. \A t \in Trees : Done(t)
    BY <1>1, <1>3 DEF Trees
  <2> QED BY <2>1, <2>2
    DEF MigrationInv, MigrationTypeOK, ProgressInv, SuccessIsWhole, Done, Taken, Running
<1> QED BY <1>2, <1>3

\* What a file becomes keeps every tree done that was.
LEMMA CopyInv ==
  ASSUME MigrationInv, CopyFile
  PROVE  MigrationInv'
<1> MigrationTypeOK /\ ProgressInv /\ tree \in Trees /\ tree \notin 1..(tree - 1)
  BY DEF MigrationInv, MigrationTypeOK, Trees
<1> PICK n \in waiting :
      LET begun == {m \in waiting : target[tree][m] = "torn"} IN
      /\ begun \subseteq {n}
      /\ \/ /\ begun = {}
            /\ target' = [target EXCEPT ![tree][n] = "torn"]
            /\ UNCHANGED <<waiting, failed>>
         \/ /\ begun = {n}
            /\ target' = [target EXCEPT ![tree][n] = "legacy"]
            /\ waiting' = waiting \ {n} /\ UNCHANGED failed
         \/ /\ waiting' = waiting \ {n} /\ failed' = TRUE
            /\ UNCHANGED target
  BY Zenon DEF CopyFile
<1> migration = "copy" /\ migration' = "copy" /\ UNCHANGED <<legacy, tree, runs>>
  BY DEF CopyFile
<1>1. /\ target' \in [Trees -> [Names -> {"absent", "torn", "legacy", "own"}]]
      /\ \A t \in Trees \ {tree} : target'[t] = target[t]
  BY DEF MigrationTypeOK
<1>2. MigrationTypeOK'
  BY <1>1 DEF MigrationTypeOK
<1>3. \A t \in 1..(tree - 1) : t \in Trees \ {tree}
  BY DEF Trees
<1>4. \A t \in 1..(tree - 1) : Done(t)'
  BY <1>1, <1>3 DEF ProgressInv, Running, Done, Taken
<1>5. failed' \/ \A m \in Names \ waiting' : Taken(tree, m)'
  BY DEF ProgressInv, Taken, MigrationTypeOK
<1> QED BY <1>2, <1>4, <1>5 DEF MigrationInv, ProgressInv, SuccessIsWhole

\* Every step of the script, the user and the operator preserves the invariant.
LEMMA MigrationNext_Inv == MigrationInv /\ [MigrationNext]_migrationVars => MigrationInv'
<1> SUFFICES ASSUME MigrationInv, [MigrationNext]_migrationVars PROVE MigrationInv'
  OBVIOUS
<1> MigrationTypeOK /\ ProgressInv /\ SuccessIsWhole /\ tree \in Trees
  BY DEF MigrationInv, MigrationTypeOK
<1>1. CASE Run
  <2>1. runs' \in 0..MaxRuns /\ tree' \in Trees
    BY <1>1 DEF Run, MigrationTypeOK, Trees
  <2>2. migration' = "check" /\ ~failed' /\ 1..(tree' - 1) = {}
    BY <1>1 DEF Run
  <2>3. MigrationTypeOK'
    <3>1. failed' \in BOOLEAN
      BY <1>1, Zenon DEF Run
    <3> QED BY <1>1, <2>1, <3>1 DEF Run, MigrationTypeOK
  <2> QED BY <2>2, <2>3 DEF MigrationInv, ProgressInv, SuccessIsWhole
<1>2. CASE NothingToCopy
  BY <1>2, NextTreeInv DEF NothingToCopy, Done, Running, ProgressInv
<1>3. CASE RefuseTree
  BY <1>3 DEF RefuseTree, Decline, MigrationInv, MigrationTypeOK, ProgressInv,
              SuccessIsWhole, Running
<1>4. CASE BeginTree
  BY <1>4 DEF BeginTree, MigrationInv, MigrationTypeOK, ProgressInv, SuccessIsWhole,
              Running, Done, Taken
<1>5. CASE EndTree
  <2>1. CASE failed
    BY <1>5, <2>1 DEF EndTree, MigrationInv, MigrationTypeOK, ProgressInv,
                      SuccessIsWhole, Running
  <2>2. CASE ~failed
    BY <1>5, <2>2, NextTreeInv DEF EndTree, Done, Running, ProgressInv
  <2> QED BY <2>1, <2>2
<1>6. CASE ScriptCrash
  <2>1. 1 \in Trees
    BY DEF Trees
  <2> QED BY <1>6, <2>1 DEF ScriptCrash, MigrationInv, MigrationTypeOK, ProgressInv,
                            SuccessIsWhole, Running
<1>7. CASE UserWrites
  <2> PICK t \in Served, n \in Names :
        /\ ~(migration = "copy" /\ tree = t /\ target[t][n] = "torn")
        /\ target' = [target EXCEPT ![t][n] = "own"]
    BY <1>7 DEF UserWrites
  <2>1. MigrationTypeOK'
    BY <1>7 DEF UserWrites, MigrationTypeOK
  <2>2. \A u \in Trees, m \in Names : Taken(u, m) => Taken(u, m)'
    BY DEF Taken, MigrationTypeOK
  <2>3. \A u \in 1..(tree - 1) : u \in Trees
    BY DEF Trees
  <2> QED BY <1>7, <2>1, <2>2, <2>3
    DEF UserWrites, MigrationInv, ProgressInv, SuccessIsWhole, Running, Done, Taken
<1>8. CASE Repair
  <2> ~Running /\ UNCHANGED <<migration, tree, waiting, failed, runs>>
    BY <1>8 DEF Repair
  <2> PICK t \in Trees :
        \/ /\ legacy[t] = "linked"
           /\ legacy' = [legacy EXCEPT ![t] = "plain"]
           /\ UNCHANGED target
        \/ /\ migration # "succeeded" /\ target[t] # NoFiles
           /\ target' = [target EXCEPT ![t] = NoFiles]
           /\ UNCHANGED legacy
    BY <1>8 DEF Repair
  <2>1. NoFiles \in [Names -> {"absent", "torn", "legacy", "own"}]
    BY DEF NoFiles
  <2>2. MigrationTypeOK'
    BY <2>1 DEF MigrationTypeOK
  <2>3. SuccessIsWhole'
    BY DEF SuccessIsWhole, MigrationTypeOK
  <2> QED BY <2>2, <2>3 DEF MigrationInv, ProgressInv, Running
<1>9. CASE UNCHANGED migrationVars
  BY <1>9 DEF migrationVars, MigrationInv, MigrationTypeOK, ProgressInv, SuccessIsWhole,
              Running, Done, Taken
<1> QED BY <1>1, <1>2, <1>3, <1>4, <1>5, <1>6, <1>7, <1>8, <1>9, CopyInv
  DEF MigrationNext

\* A run of the script is only as far as its trees are done, in every state.
THEOREM MigrationInductive == MigrationSpec => []MigrationInv
BY MigrationInit_Inv, MigrationNext_Inv, PTL DEF MigrationSpec

\* When the script says that it succeeded, every legacy file has arrived whole,
\* however often it was run, refused, stopped or failed before.
THEOREM MigrationCorrect == MigrationSpec => []SuccessIsWhole
<1>1. MigrationInv => SuccessIsWhole
  BY DEF MigrationInv
<1> QED BY <1>1, MigrationInductive, PTL
-----------------------------------------------------------------------------
(* All parts, side by side.                                                *)

\* The start of an API rests where every process serves and the bootstrap
\* account is an administrator.
LEMMA BootRests ==
  ASSUME api = [p \in Apis |-> "up"], schema = TRUE, account = "admin",
         creator = Nobody, starter = Nobody, inserter = Nobody, sharing = {},
         crashes = 0, overlaps = 0, changes = 0
  PROVE  BootInv
<1>1. BootTypeOK
  BY DEF BootTypeOK, Admins
<1> QED BY <1>1 DEF BootInv, SchemaInv, HoldInv, StarterInv, SeenInv, Admins

\* Every part begins in its invariant, the one that moves and those that rest.
LEMMA PartsInit_Inv == PartsInit => PartsInv
<1> SUFFICES ASSUME PartsInit PROVE PartsInv
  OBVIOUS
<1>1. ContentInv
  BY ContentInit_Inv DEF PartsInit
<1>2. ClientInv /\ MemoryInv /\ MigrationInv /\ BudgetInv
  BY ClientInit_Inv, MemoryInit_Inv, MigrationInit_Inv, BudgetInit_Inv DEF PartsInit
<1>3. BootInv
  <2>1. CASE part = "start"
    BY <2>1, BootInit_Inv DEF PartsInit
  <2>2. CASE part # "start"
    BY <2>2, BootRests DEF PartsInit
  <2> QED BY <2>1, <2>2
<1> QED BY <1>1, <1>2, <1>3 DEF PartsInv

\* A step of one part is a stutter of the others.
LEMMA PartsNext_Inv ==
  PartsInv /\ [PartsNext]_<<part, redactionVars, turnVars, clientVars, bootVars,
                            memoryVars, migrationVars, budgetVars>> => PartsInv'
<1> SUFFICES ASSUME PartsInv,
                    [PartsNext]_<<part, redactionVars, turnVars, clientVars, bootVars,
                                  memoryVars, migrationVars, budgetVars>>
             PROVE  PartsInv'
  OBVIOUS
<1>1. /\ [ContentNext]_<<vars, contentVars>> /\ [ClientNext]_clientVars
      /\ [BootNext]_bootVars /\ [MemoryNext]_memoryVars
      /\ [MigrationNext]_migrationVars /\ [BudgetNext]_budgetVars
  BY DEF PartsNext, redactionVars
<1> QED BY <1>1, ContentNext_Inv, ClientNext_Inv, BootNext_Inv, MemoryNext_Inv,
           MigrationNext_Inv, BudgetNext_Inv DEF PartsInv

\* Each part keeps its own invariant, types included, whichever of them moves.
THEOREM PartsCorrect == PartsSpec => []PartsInv
BY PartsInit_Inv, PartsNext_Inv, PTL DEF PartsSpec
=============================================================================
