-------------------------- MODULE Promotion_proofs --------------------------
(***************************************************************************)
(* Theorems about Promotion for every number of candidates, paths, edits,  *)
(* faults and crashes, proved by TLAPS.                                    *)
(*                                                                         *)
(* The inductive invariant PInv says, stage by stage of a call, what the   *)
(* call may rely on about a foreground that is not its own (Windows), and  *)
(* for every candidate's content in the foreground which record accounts   *)
(* for it (Accounted).                                                     *)
(***************************************************************************)
EXTENDS Promotion, TLAPS

-----------------------------------------------------------------------------
(***************************************************************************)
(* The inductive invariant                                                 *)
(***************************************************************************)
\* Where a call stands and what it must therefore know.
Before == {"verify", "gate", "recheck", "open"}
Writing == {"prepare", "apply", "record"}
Applied == Writing \cup {"final", "close", "rollback", "restore", "confirm"}

\* What a stage of a call says of its attempt's journal and of the list of paths it
\* would roll back.
Shape ==
    /\ call.at # "idle" => call.result = None
    /\ call.at \in Before =>
        journal[call.c].status = "none" /\ call.applied = {} /\ call.next = 1
    /\ call.at \in Writing => call.next \in Paths /\ \A p \in call.applied : p < call.next
    /\ call.at \in Applied =>
        journal[call.c].status = "open" /\ call.applied = AppliedPaths(call.c)
    /\ call.at = "settle" =>
        journal[call.c].status \in Final \/ (call.recovering /\ journal[call.c].status = "none")

\* A path as the plan found it, but for an edit in the window.
Untouched(p) == fg[p] = Base \/ (fg[p] = Edit /\ p \in raced)

\* What the foreground holds while a call writes to it.
Windows ==
    /\ call.at \in {"prepare", "apply"} =>
        \A p \in Paths : p >= call.next => Untouched(p)
    /\ call.at = "record" =>
        /\ \A p \in Paths : p > call.next => Untouched(p)
        /\ fg[call.next] = call.c \/ (fg[call.next] = Edit /\ call.next \in raced)
    /\ call.at \in Writing => \A p \in Paths : fg[p] \in {Base, Edit, call.c}
    /\ call.at = "restore" => \A p \in Paths : Newest(p) /\ fg[p] = Edit => p \in raced

\* A candidate's write in the foreground has an applied event, or is being recorded,
\* or was lost, or the attempt is closed as promoted.
Accounted ==
    \A c \in Candidates, p \in Paths : fg[p] = c =>
        \/ journal[c].status = "promoted" \/ journal[c].last[p] = "applied"
        \/ <<c, p>> \in lost
        \/ call.at = "record" /\ call.c = c /\ call.next = p

\* An attempt without an open journal or a promotion has nothing applied.
Clean ==
    \A c \in Candidates : journal[c].status \in {"none", "rolled_back"} => AppliedPaths(c) = {}

\* The copy holds what the plan captured, but for an edit in the window.
KeptCopy(c, p) == copies[c][p] = Base \/ (copies[c][p] = Edit /\ p \in raced)

\* The copy is made before the write.
Copied ==
    /\ \A c \in Candidates, p \in Paths : copies[c][p] \in {Base, Edit, None}
    /\ call.at \in {"apply", "record"} /\ call.next \notin NewPaths => KeptCopy(call.c, call.next)

\* A hash of the user's content was taken in the window.
Hashed == \A c \in Candidates, p \in Paths : journal[c].post[p] = Edit => p \in raced

PInv ==
    /\ PromotionTypeOK /\ Shape /\ Windows /\ Accounted /\ Clean /\ Copied /\ Hashed
    /\ CopiesOutliveNeed /\ OneCandidateInForeground

-----------------------------------------------------------------------------
(***************************************************************************)
(* What the assignments of the model do to the fields they name            *)
(***************************************************************************)
\* A call is always one of the calls, and no call is one.
LEMMA IdleType ==
    /\ NoJournal \in Journals /\ Idle \in Calls
    /\ Idle.at = "idle" /\ Idle.next = 1 /\ Idle.applied = {} /\ Idle.result = None
BY PromotionAssumption DEF Idle, Calls, CallStages, NoJournal, Journals, Statuses, PathEvents,
   Contents, Paths

\* Moving on leaves the rest of the call alone.
LEMMA GotoKeeps ==
    ASSUME call \in Calls, NEW stage \in CallStages, Goto(stage)
    PROVE  /\ call' \in Calls /\ call'.at = stage /\ call'.c = call.c /\ call'.next = call.next
           /\ call'.applied = call.applied /\ call'.result = call.result
BY DEF Goto, Calls

\* Returning ends the call.
LEMMA ReturnEnds ==
    ASSUME NEW result \in Results, Return(result)
    PROVE  call' \in Calls /\ call'.at = "idle"
BY IdleType DEF Return, Calls, Idle

\* A change of status leaves the events of the journal alone.
LEMMA StatusKeeps ==
    ASSUME journal \in [Candidates -> Journals], NEW c \in Candidates, NEW s \in Statuses,
           journal' = [journal EXCEPT ![c].status = s]
    PROVE  /\ journal' \in [Candidates -> Journals] /\ journal'[c].status = s
           /\ \A d \in Candidates : d # c => journal'[d].status = journal[d].status
           /\ \A d \in Candidates : journal'[d].last = journal[d].last
           /\ \A d \in Candidates : journal'[d].post = journal[d].post
BY DEF Journals

\* An event of a path leaves status and hashes alone.
LEMMA EventKeeps ==
    ASSUME journal \in [Candidates -> Journals], NEW c \in Candidates, NEW p \in Paths,
           NEW e \in PathEvents, journal' = [journal EXCEPT ![c].last[p] = e]
    PROVE  /\ journal' \in [Candidates -> Journals]
           /\ journal'[c].last = [journal[c].last EXCEPT ![p] = e]
           /\ \A d \in Candidates : journal'[d].status = journal[d].status
           /\ \A d \in Candidates : d # c => journal'[d].last = journal[d].last
           /\ \A d \in Candidates : journal'[d].post = journal[d].post
BY DEF Journals

-----------------------------------------------------------------------------
(***************************************************************************)
(* The steps                                                               *)
(***************************************************************************)
\* What a call does without touching foreground, journals and copies.
LEMMA CallOnly ==
    ASSUME PInv, UNCHANGED <<fg, journal, copies, edits>>,
           manifest' \in [Candidates -> {"none", "open", "closed"}],
           call' \in Calls, call'.at # "idle" => call'.c \in Candidates,
           call'.at \notin {"apply", "record"}, Shape', Windows',
           lost \subseteq lost', lost' \subseteq Candidates \X Paths, UNCHANGED raced,
           call.at = "record" => <<call.c, call.next>> \in lost'
    PROVE  PInv'
<1>1. PromotionTypeOK'
    BY DEF PInv, PromotionTypeOK
<1>2. Accounted' /\ Clean' /\ Copied' /\ Hashed'
    BY DEF PInv, Accounted, Clean, Copied, Hashed, AppliedPaths
<1>3. CopiesOutliveNeed' /\ OneCandidateInForeground'
    BY DEF PInv, CopiesOutliveNeed, OneCandidateInForeground
<1> QED BY <1>1, <1>2, <1>3 DEF PInv

\* Up to the opening of the journal a call only looks.
LEMMA LookingSteps ==
    ASSUME PInv, VerifyLease \/ Gate \/ Recheck
    PROVE  PInv'
<1>1. call \in Calls /\ call.at # "idle" /\ call.c \in Candidates /\ call.at \in Before
      /\ manifest \in [Candidates -> {"none", "open", "closed"}]
      /\ UNCHANGED <<fg, journal, copies, edits, lost, raced>>
    BY DEF PInv, PromotionTypeOK, VerifyLease, Gate, Recheck, At, Before
<1>2. manifest' \in [Candidates -> {"none", "open", "closed"}]
    BY <1>1 DEF VerifyLease, Gate, Recheck, Closed
<1>3. CASE \E r \in Results : Return(r)
    <2>1. call' \in Calls /\ call'.at = "idle"
        BY <1>3, ReturnEnds
    <2>2. Shape' /\ Windows'
        BY <2>1 DEF Shape, Windows, Before, Writing, Applied
    <2> QED BY <1>1, <1>2, <2>1, <2>2, CallOnly DEF PInv, PromotionTypeOK, Before
<1>4. CASE \E stage \in {"gate", "recheck", "open"} : Goto(stage)
    <2>1. PICK stage \in {"gate", "recheck", "open"} : Goto(stage)
        BY <1>4
    <2>2. stage \in CallStages /\ stage \in Before
        BY DEF CallStages, Before
    <2>3. call' \in Calls /\ call'.at = stage /\ call'.c = call.c /\ call'.next = call.next
          /\ call'.applied = call.applied /\ call'.result = call.result
        BY <1>1, <2>1, <2>2, GotoKeeps
    <2>4. Shape' /\ Windows'
        BY <1>1, <2>2, <2>3 DEF PInv, Shape, Windows, Before, Writing, Applied
    <2> QED BY <1>1, <1>2, <2>2, <2>3, <2>4, CallOnly DEF PInv, PromotionTypeOK, Before
<1>5. (\E r \in Results : Return(r)) \/ (\E stage \in {"gate", "recheck", "open"} : Goto(stage))
    BY DEF VerifyLease, Gate, Recheck, Results
<1> QED BY <1>3, <1>4, <1>5

\* A call begins, or answers from the receipt, only when none is running.
LEMMA PromoteStep ==
    ASSUME PInv, NEW c \in Candidates, Promote(c)
    PROVE  PInv'
<1>1. call = Idle /\ manifest \in [Candidates -> {"none", "open", "closed"}]
      /\ UNCHANGED <<fg, journal, copies, edits, lost, raced>>
    BY DEF PInv, PromotionTypeOK, Promote, ReplayReceipt, Begin, Free
<1>2. manifest' \in [Candidates -> {"none", "open", "closed"}]
    BY <1>1 DEF Promote, ReplayReceipt, Begin
<1>3. CASE \E r \in Results : Return(r)
    <2>1. call' \in Calls /\ call'.at = "idle"
        BY <1>3, ReturnEnds
    <2>2. Shape' /\ Windows'
        BY <2>1 DEF Shape, Windows, Before, Writing, Applied
    <2> QED BY <1>1, <1>2, <2>1, <2>2, CallOnly DEF PInv, PromotionTypeOK, Idle
<1>4. CASE call' = [Idle EXCEPT !.at = "verify", !.c = c] /\ journal[c].status = "none"
    <2>1. /\ call' \in Calls /\ call'.at = "verify" /\ call'.c = c /\ call'.next = 1
          /\ call'.applied = {} /\ call'.result = None
        BY <1>4, IdleType DEF Calls, CallStages
    <2>2. Shape' /\ Windows'
        BY <1>1, <1>4, <2>1 DEF Shape, Windows, Before, Writing, Applied
    <2> QED BY <1>1, <1>2, <2>1, <2>2, CallOnly DEF PInv, PromotionTypeOK, Idle
<1>5. (\E r \in Results : Return(r))
      \/ (call' = [Idle EXCEPT !.at = "verify", !.c = c] /\ journal[c].status = "none")
    BY DEF Promote, ReplayReceipt, Begin, HasReceipt, Results, Final
<1> QED BY <1>3, <1>4, <1>5

\* Opening the journal finds the foreground as it was captured.
LEMMA OpenStep ==
    ASSUME PInv, Open
    PROVE  PInv'
<1>1. /\ call \in Calls /\ call.at = "open" /\ call.c \in Candidates
      /\ journal \in [Candidates -> Journals] /\ journal[call.c].status = "none"
      /\ call.applied = {} /\ call.next = 1 /\ call.result = None
      /\ UNCHANGED <<fg, copies, manifest, edits, lost, raced>>
    BY DEF PInv, PromotionTypeOK, Shape, Before, Open, At
<1>2. CASE UNCHANGED journal /\ \E r \in Results : Return(r)
    <2>1. call' \in Calls /\ call'.at = "idle"
        BY <1>2, ReturnEnds
    <2>2. Shape' /\ Windows'
        BY <2>1 DEF Shape, Windows, Before, Writing, Applied
    <2> QED BY <1>1, <1>2, <2>1, <2>2, CallOnly DEF PInv, PromotionTypeOK
<1>3. ASSUME PreimagesHold(call.c), journal' = [journal EXCEPT ![call.c].status = "open"],
             NEW stage \in {"close", "prepare"}, Goto(stage),
             stage = "prepare" => Planned(call.c) # {}
      PROVE  PInv'
    <2>1. /\ call' \in Calls /\ call'.at = stage /\ call'.c = call.c /\ call'.next = 1
          /\ call'.applied = {} /\ call'.result = None
        BY <1>1, <1>3, GotoKeeps DEF CallStages
    <2>2. /\ journal' \in [Candidates -> Journals] /\ journal'[call.c].status = "open"
          /\ \A d \in Candidates : d # call.c => journal'[d].status = journal[d].status
          /\ \A d \in Candidates : journal'[d].last = journal[d].last
          /\ \A d \in Candidates : journal'[d].post = journal[d].post
        BY <1>1, <1>3, StatusKeeps DEF Statuses
    <2>3. AppliedPaths(call.c) = {} /\ \A d \in Candidates : AppliedPaths(d)' = AppliedPaths(d)
        BY <1>1, <2>2 DEF PInv, Clean, AppliedPaths
    <2>4. stage = "prepare" => \A p \in Paths : fg[p] = Base
        BY <1>3 DEF PreimagesHold, Planned, Captured
    <2>5. PromotionTypeOK'
        BY <1>1, <2>1, <2>2 DEF PInv, PromotionTypeOK
    <2>6. Shape'
        BY <1>1, <2>1, <2>2, <2>3, PromotionAssumption DEF Shape, Before, Writing, Applied, Paths
    <2>7. Windows'
        BY <1>1, <2>1, <2>4 DEF Windows, Untouched, Writing
    <2>8. Accounted'
        BY <1>1, <2>1, <2>2 DEF PInv, Accounted
    <2>9. Clean' /\ Copied' /\ Hashed'
        BY <1>1, <2>1, <2>2, <2>3 DEF PInv, Clean, Copied, Hashed
    <2>10. CopiesOutliveNeed' /\ OneCandidateInForeground'
        BY <1>1, <2>2, <2>3 DEF PInv, CopiesOutliveNeed, OneCandidateInForeground, AppliedPaths
    <2> QED BY <2>5, <2>6, <2>7, <2>8, <2>9, <2>10 DEF PInv
<1> QED BY <1>2, <1>3 DEF Open, Results

\* What the stages that write may rely on.
LEMMA WritingFacts ==
    ASSUME PInv, call.at \in Applied
    PROVE  /\ call \in Calls /\ call.c \in Candidates /\ call.result = None
           /\ journal \in [Candidates -> Journals] /\ journal[call.c].status = "open"
           /\ call.applied = AppliedPaths(call.c)
           /\ call.at \in Writing => call.next \in Paths /\ \A p \in call.applied : p < call.next
BY DEF PInv, PromotionTypeOK, Shape, Applied, Writing

\* A path is copied before it is written, and has no applied event yet.
LEMMA PrepareStep ==
    ASSUME PInv, Prepare
    PROVE  PInv'
<1> DEFINE c == call.c
           p == call.next
<1>1. call.at = "prepare" /\ UNCHANGED <<fg, manifest, edits, lost, raced>>
    BY DEF Prepare, At
<1>2. /\ call \in Calls /\ c \in Candidates /\ call.result = None
      /\ journal \in [Candidates -> Journals] /\ journal[c].status = "open"
      /\ call.applied = AppliedPaths(c) /\ p \in Paths /\ \A q \in call.applied : q < p
    BY <1>1, WritingFacts DEF Applied, Writing
<1>3. /\ call' \in Calls /\ call'.at = "apply" /\ call'.c = c /\ call'.next = p
      /\ call'.applied = call.applied /\ call'.result = None
    BY <1>2, GotoKeeps DEF Prepare, CallStages
<1>4. /\ journal' \in [Candidates -> Journals]
      /\ journal'[c].last = [journal[c].last EXCEPT ![p] = "prepared"]
      /\ \A d \in Candidates : journal'[d].status = journal[d].status
      /\ \A d \in Candidates : d # c => journal'[d].last = journal[d].last
      /\ \A d \in Candidates : journal'[d].post = journal[d].post
    BY <1>2, EventKeeps DEF Prepare, PathEvents
<1>5. journal[c].last[p] # "applied" /\ journal[c].last \in [Paths -> PathEvents]
    BY <1>2 DEF AppliedPaths, Paths, Journals
<1>6. \A d \in Candidates, q \in Paths :
            journal'[d].last[q] = "applied" <=> journal[d].last[q] = "applied"
    BY <1>2, <1>4, <1>5
<1>7. /\ copies' \in [Candidates -> [Paths -> Contents \cup {None}]]
      /\ \A d \in Candidates, q \in Paths : copies'[d][q] # copies[d][q] =>
            d = c /\ q = p /\ copies'[d][q] = fg[p]
      /\ p \notin NewPaths => copies'[c][p] = fg[p]
    BY <1>2 DEF PInv, PromotionTypeOK, Prepare, Kept
<1>8. fg[p] = Base \/ (fg[p] = Edit /\ p \in raced)
    BY <1>1, <1>2 DEF PInv, Windows, Untouched, Paths
<1>9. PromotionTypeOK' /\ Shape'
    BY <1>1, <1>2, <1>3, <1>4, <1>6, <1>7
    DEF PInv, PromotionTypeOK, Shape, Before, Writing, Applied, AppliedPaths
<1>10. Windows'
    BY <1>1, <1>2, <1>3 DEF PInv, Windows, Untouched, Writing
<1>11. Accounted' /\ Clean'
    BY <1>1, <1>3, <1>4, <1>6 DEF PInv, Accounted, Clean, AppliedPaths
<1>12. Copied' /\ Hashed'
    BY <1>1, <1>2, <1>3, <1>4, <1>7, <1>8 DEF PInv, Copied, Hashed, KeptCopy
<1>13. CopiesOutliveNeed' /\ OneCandidateInForeground'
    <2>1. \A d \in Candidates, q \in Paths :
            journal'[d].last[q] = "applied" => copies'[d][q] = copies[d][q]
        BY <1>5, <1>6, <1>7
    <2> QED BY <1>1, <1>4, <1>6, <2>1 DEF PInv, CopiesOutliveNeed, OneCandidateInForeground
<1> QED BY <1>9, <1>10, <1>11, <1>12, <1>13 DEF PInv

\* The write replaces what was captured, or an edit made in the window.
LEMMA ApplyStep ==
    ASSUME PInv, Apply
    PROVE  PInv'
<1> DEFINE c == call.c
           p == call.next
<1>1. call.at = "apply" /\ UNCHANGED <<journal, copies, manifest, edits, lost, raced>>
    BY DEF Apply, At
<1>2. /\ call \in Calls /\ c \in Candidates /\ call.result = None
      /\ journal \in [Candidates -> Journals] /\ journal[c].status = "open"
      /\ call.applied = AppliedPaths(c) /\ p \in Paths /\ \A q \in call.applied : q < p
    BY <1>1, WritingFacts DEF Applied, Writing
<1>3. /\ call' \in Calls /\ call'.at = "record" /\ call'.c = c /\ call'.next = p
      /\ call'.applied = call.applied /\ call'.result = None
    BY <1>2, GotoKeeps DEF Apply, CallStages
<1>4. /\ fg' \in [Paths -> Contents] /\ fg'[p] = c
      /\ \A q \in Paths : q # p => fg'[q] = fg[q]
    BY <1>2 DEF PInv, PromotionTypeOK, Apply, Contents
<1>5. \A q \in Paths : fg[q] \in {Base, Edit, c}
    BY <1>1 DEF PInv, Windows, Writing
<1>6. PromotionTypeOK' /\ Shape'
    BY <1>1, <1>2, <1>3, <1>4
    DEF PInv, PromotionTypeOK, Shape, Before, Writing, Applied, AppliedPaths
<1>7. Windows'
    BY <1>1, <1>2, <1>3, <1>4, <1>5 DEF PInv, Windows, Untouched, Writing, Paths
<1>8. Accounted' /\ Clean'
    BY <1>1, <1>2, <1>3, <1>4 DEF PInv, Accounted, Clean, AppliedPaths
<1>9. Copied' /\ Hashed' /\ CopiesOutliveNeed'
    BY <1>1, <1>3 DEF PInv, Copied, Hashed, KeptCopy, CopiesOutliveNeed
<1>10. OneCandidateInForeground'
    BY <1>4, <1>5, PromotionAssumption DEF OneCandidateInForeground
<1> QED BY <1>6, <1>7, <1>8, <1>9, <1>10 DEF PInv

\* The applied event hashes what the path holds by then.
LEMMA RecordStep ==
    ASSUME PInv, Record
    PROVE  PInv'
<1> DEFINE c == call.c
           p == call.next
<1>1. call.at = "record" /\ UNCHANGED <<fg, copies, manifest, edits, lost, raced>>
    BY DEF Record, At
<1>2. /\ call \in Calls /\ c \in Candidates /\ call.result = None
      /\ journal \in [Candidates -> Journals] /\ journal[c].status = "open"
      /\ call.applied = AppliedPaths(c) /\ p \in Paths /\ \A q \in call.applied : q < p
    BY <1>1, WritingFacts DEF Applied, Writing
<1>3. /\ call' \in Calls /\ call'.c = c /\ call'.next = p + 1
      /\ call'.applied = call.applied \cup {p} /\ call'.result = None
      /\ call'.at = IF p = PathCount THEN "final" ELSE "prepare"
    <2>1. p \in 1..PathCount /\ PathCount \in Nat /\ p + 1 \in 1..(PathCount + 1)
        BY <1>2, PromotionAssumption DEF Paths
    <2>2. call' = [call EXCEPT !.applied = call.applied \cup {p}, !.next = p + 1,
                               !.at = IF p = PathCount THEN "final" ELSE "prepare"]
        BY DEF Record
    <2> QED BY <1>2, <2>1, <2>2 DEF Calls, CallStages
<1>4. /\ journal' \in [Candidates -> Journals]
      /\ journal'[c].last = [journal[c].last EXCEPT ![p] = "applied"]
      /\ journal'[c].post = [journal[c].post EXCEPT ![p] = fg[p]]
      /\ \A d \in Candidates : journal'[d].status = journal[d].status
      /\ \A d \in Candidates : d # c =>
            journal'[d].last = journal[d].last /\ journal'[d].post = journal[d].post
    <2>1. fg[p] \in Contents
        BY <1>2 DEF PInv, PromotionTypeOK
    <2> QED BY <1>2, <2>1 DEF Record, Journals, PathEvents
<1>5. journal[c].last \in [Paths -> PathEvents] /\ journal[c].post \in [Paths -> Contents]
    BY <1>2 DEF Journals
<1>6. fg[p] = c \/ (fg[p] = Edit /\ p \in raced)
    BY <1>1 DEF PInv, Windows
<1>7. p \notin NewPaths => KeptCopy(c, p)
    BY <1>1 DEF PInv, Copied
<1>8. AppliedPaths(c)' = AppliedPaths(c) \cup {p}
    BY <1>2, <1>3, <1>4, <1>5 DEF AppliedPaths
<1>9. PromotionTypeOK' /\ Shape'
    <2>1. PromotionTypeOK'
        BY <1>1, <1>2, <1>3, <1>4 DEF PInv, PromotionTypeOK
    <2>2. /\ p # PathCount => p + 1 \in Paths
          /\ \A q \in call.applied \cup {p} : q < p + 1
        BY <1>2, PromotionAssumption DEF AppliedPaths, Paths
    <2>3. Shape'
        BY <1>2, <1>3, <1>4, <1>8, <2>2 DEF Shape, Before, Writing, Applied
    <2> QED BY <2>1, <2>3
<1>10. Windows'
    BY <1>1, <1>2, <1>3 DEF PInv, Windows, Untouched, Writing, Paths
<1>11. Accounted'
    BY <1>1, <1>2, <1>4, <1>5 DEF PInv, Accounted
<1>12. Clean'
    BY <1>2, <1>4 DEF PInv, Clean, AppliedPaths
<1>13. Copied' /\ OneCandidateInForeground'
    BY <1>1, <1>3 DEF PInv, Copied, OneCandidateInForeground
<1>14. Hashed'
    BY <1>1, <1>2, <1>4, <1>5, <1>6, PromotionAssumption DEF PInv, Hashed
<1>15. CopiesOutliveNeed'
    BY <1>1, <1>2, <1>4, <1>5, <1>7 DEF PInv, CopiesOutliveNeed, KeptCopy
<1> QED BY <1>9, <1>10, <1>11, <1>12, <1>13, <1>14, <1>15 DEF PInv

\* Closing the journal turns every write of the attempt into the receipt's.
LEMMA CloseStep ==
    ASSUME PInv, Close
    PROVE  PInv'
<1> DEFINE c == call.c
<1>1. call.at = "close" /\ UNCHANGED <<fg, copies, manifest, edits, lost, raced>>
    BY DEF Close, At
<1>2. /\ call \in Calls /\ c \in Candidates /\ call.result = None
      /\ journal \in [Candidates -> Journals]
    BY <1>1, WritingFacts DEF Applied
<1>3. call' \in Calls /\ call'.at = "settle" /\ call'.c = c /\ call'.result = None
    BY <1>2, GotoKeeps DEF Close, CallStages
<1>4. /\ journal' \in [Candidates -> Journals] /\ journal'[c].status = "promoted"
      /\ \A d \in Candidates : d # c => journal'[d].status = journal[d].status
      /\ \A d \in Candidates : journal'[d].last = journal[d].last
      /\ \A d \in Candidates : journal'[d].post = journal[d].post
    BY <1>2, StatusKeeps DEF Close, Statuses
<1>5. PromotionTypeOK'
    BY <1>1, <1>2, <1>3, <1>4 DEF PInv, PromotionTypeOK
<1>6. Shape' /\ Windows'
    BY <1>3, <1>4 DEF Shape, Windows, Before, Writing, Applied, Final
<1>7. Accounted' /\ Clean'
    BY <1>1, <1>2, <1>4 DEF PInv, Accounted, Clean, AppliedPaths
<1>8. Copied' /\ Hashed'
    BY <1>1, <1>3, <1>4 DEF PInv, Copied, Hashed
<1>9. CopiesOutliveNeed' /\ OneCandidateInForeground'
    BY <1>1, <1>2, <1>4 DEF PInv, CopiesOutliveNeed, OneCandidateInForeground
<1> QED BY <1>5, <1>6, <1>7, <1>8, <1>9 DEF PInv

\* Whatever fails or refuses while the plan is applied, the rollback starts from the
\* paths recorded; the write that was not recorded is lost.
LEMMA TurnBackSteps ==
    ASSUME PInv, VerifyForeground \/ ApplyFails
    PROVE  PInv'
<1>1. /\ call.at \in Applied \ {"rollback"}
      /\ UNCHANGED <<fg, journal, copies, manifest, edits, raced>>
    BY DEF VerifyForeground, ApplyFails, At, Applied, Writing
<1>2. /\ call \in Calls /\ call.c \in Candidates /\ call.result = None
      /\ journal[call.c].status = "open" /\ call.applied = AppliedPaths(call.c)
      /\ call.at = "record" => call.next \in Paths
    BY <1>1, WritingFacts DEF Writing
<1>3. /\ lost \subseteq lost' /\ lost' \subseteq Candidates \X Paths
      /\ call.at = "record" => <<call.c, call.next>> \in lost'
    BY <1>2 DEF PInv, PromotionTypeOK, VerifyForeground, ApplyFails, Unrecorded, At
<1>4. CASE Return("fault")
    <2>1. call' \in Calls /\ call'.at = "idle"
        BY <1>4, ReturnEnds DEF Results
    <2>2. Shape' /\ Windows'
        BY <2>1 DEF Shape, Windows, Before, Writing, Applied
    <2> QED BY <1>1, <1>2, <1>3, <2>1, <2>2, CallOnly DEF PInv, PromotionTypeOK
<1>5. CASE \E stage \in {"close", "rollback"} : Goto(stage)
    <2>1. PICK stage \in {"close", "rollback"} : Goto(stage)
        BY <1>5
    <2>2. /\ call' \in Calls /\ call'.at = stage /\ call'.c = call.c
          /\ call'.applied = call.applied /\ call'.result = None
        BY <1>2, <2>1, GotoKeeps DEF CallStages
    <2>3. Shape' /\ Windows'
        BY <1>1, <1>2, <2>2 DEF Shape, Windows, Before, Writing, Applied, AppliedPaths
    <2> QED BY <1>1, <1>2, <1>3, <2>2, <2>3, CallOnly DEF PInv, PromotionTypeOK
<1> QED BY <1>4, <1>5 DEF VerifyForeground, ApplyFails

\* What needs the user's attention keeps its events and copies.
LEMMA AttentionStep ==
    ASSUME PInv, call.at \in Applied \ {"record"}, NeedsAttention,
           UNCHANGED <<fg, copies, manifest, edits, lost, raced>>
    PROVE  PInv'
<1> DEFINE c == call.c
<1>1. c \in Candidates /\ journal \in [Candidates -> Journals] /\ journal[c].status = "open"
    BY WritingFacts
<1>2. call' \in Calls /\ call'.at = "idle"
    BY ReturnEnds DEF NeedsAttention, Results
<1>3. /\ journal' \in [Candidates -> Journals] /\ journal'[c].status = "needs_attention"
      /\ \A d \in Candidates : d # c => journal'[d].status = journal[d].status
      /\ \A d \in Candidates : journal'[d].last = journal[d].last
      /\ \A d \in Candidates : journal'[d].post = journal[d].post
    BY <1>1, StatusKeeps DEF NeedsAttention, Statuses
<1>4. PromotionTypeOK' /\ Shape' /\ Windows'
    BY <1>2, <1>3 DEF PInv, PromotionTypeOK, Shape, Windows, Before, Writing, Applied
<1>5. Accounted' /\ Clean'
    BY <1>1, <1>3 DEF PInv, Accounted, Clean, AppliedPaths
<1>6. Copied' /\ Hashed'
    BY <1>2, <1>3 DEF PInv, Copied, Hashed
<1>7. CopiesOutliveNeed' /\ OneCandidateInForeground'
    BY <1>1, <1>3 DEF PInv, CopiesOutliveNeed, OneCandidateInForeground
<1> QED BY <1>4, <1>5, <1>6, <1>7 DEF PInv

\* A path counts as rolled back only when it holds what was captured.
LEMMA RolledBackStep ==
    ASSUME PInv, call.at \in {"rollback", "confirm"}, NEW p \in Paths, fg[p] = Base,
           RolledBack(p), UNCHANGED <<fg, copies, manifest, edits, lost, raced>>
    PROVE  PInv'
<1> DEFINE c == call.c
<1>1. /\ call \in Calls /\ c \in Candidates /\ call.result = None
      /\ journal \in [Candidates -> Journals] /\ journal[c].status = "open"
      /\ call.applied = AppliedPaths(c)
    BY WritingFacts DEF Applied
<1>2. /\ call' \in Calls /\ call'.at = "rollback" /\ call'.c = c /\ call'.result = None
      /\ call'.applied = call.applied \ {p}
    BY <1>1 DEF RolledBack, Calls, CallStages
<1>3. /\ journal' \in [Candidates -> Journals]
      /\ journal'[c].last = [journal[c].last EXCEPT ![p] = "rolled_back"]
      /\ \A d \in Candidates : journal'[d].status = journal[d].status
      /\ \A d \in Candidates : d # c => journal'[d].last = journal[d].last
      /\ \A d \in Candidates : journal'[d].post = journal[d].post
    BY <1>1, EventKeeps DEF RolledBack, PathEvents
<1>4. journal[c].last \in [Paths -> PathEvents]
    BY <1>1 DEF Journals
<1>5. \A d \in Candidates, q \in Paths :
        journal'[d].last[q] = "applied" <=> journal[d].last[q] = "applied" /\ ~(d = c /\ q = p)
    BY <1>3, <1>4
<1>6. PromotionTypeOK'
    BY <1>2, <1>3 DEF PInv, PromotionTypeOK
<1>7. Shape' /\ Windows'
    <2>1. call'.applied = {q \in Paths : journal'[call'.c].last[q] = "applied"}
        BY <1>1, <1>2, <1>5 DEF AppliedPaths
    <2> QED BY <1>1, <1>2, <1>3, <2>1 DEF Shape, Windows, Before, Writing, Applied, AppliedPaths
<1>8. Accounted'
    BY <1>1, <1>3, <1>5, PromotionAssumption DEF PInv, Accounted
<1>9. Clean' /\ Copied' /\ Hashed'
    BY <1>2, <1>3, <1>5 DEF PInv, Clean, Copied, Hashed, AppliedPaths
<1>10. CopiesOutliveNeed' /\ OneCandidateInForeground'
    BY <1>3, <1>5 DEF PInv, CopiesOutliveNeed, OneCandidateInForeground
<1> QED BY <1>6, <1>7, <1>8, <1>9, <1>10 DEF PInv

\* Comparing the newest path decides between the next one, a restore and the user.
LEMMA CompareStep ==
    ASSUME PInv, Compare
    PROVE  PInv'
<1>1. call.at = "rollback" /\ UNCHANGED <<fg, copies, manifest, edits, lost, raced>>
    BY DEF Compare, At
<1>2. PICK p \in Paths :
        /\ Newest(p)
        /\ \/ fg[p] = Base /\ RolledBack(p)
           \/ fg[p] # Base /\ OwnWrite(p) /\ Goto("restore") /\ UNCHANGED journal
           \/ fg[p] # Base /\ ~OwnWrite(p) /\ NeedsAttention
    BY DEF Compare
<1>3. CASE fg[p] = Base /\ RolledBack(p)
    BY <1>1, <1>3, RolledBackStep
<1>4. CASE NeedsAttention
    BY <1>1, <1>4, AttentionStep DEF Applied
<1>5. CASE OwnWrite(p) /\ Goto("restore") /\ UNCHANGED journal
    <2>1. /\ call \in Calls /\ call.c \in Candidates /\ call.result = None
          /\ journal[call.c].status = "open" /\ call.applied = AppliedPaths(call.c)
        BY <1>1, WritingFacts DEF Applied
    <2>2. /\ call' \in Calls /\ call'.at = "restore" /\ call'.c = call.c
          /\ call'.applied = call.applied /\ call'.result = None
        BY <1>5, <2>1, GotoKeeps DEF CallStages
    <2>3. \A q \in Paths : Newest(q) => q = p
        BY <1>2 DEF Newest, Paths
    <2>4. fg[p] = Edit => p \in raced
        BY <1>5, <2>1 DEF PInv, Hashed, OwnWrite
    <2>5. Shape' /\ Windows'
        BY <1>1, <1>5, <2>1, <2>2, <2>3, <2>4
        DEF Shape, Windows, Before, Writing, Applied, AppliedPaths, Newest
    <2> QED BY <1>1, <1>5, <2>1, <2>2, <2>5, CallOnly DEF PInv, PromotionTypeOK
<1> QED BY <1>2, <1>3, <1>4, <1>5

\* What is restored is never a candidate's content.
LEMMA RestoreStep ==
    ASSUME PInv, Restore
    PROVE  PInv'
<1> DEFINE c == call.c
<1>1. call.at = "restore" /\ UNCHANGED <<copies, manifest, edits, lost, raced>>
    BY DEF Restore, At
<1>2. CASE NeedsAttention /\ UNCHANGED fg
    BY <1>1, <1>2, AttentionStep DEF Applied
<1>3. ASSUME NEW p \in Paths, Preimage(p) # None, fg' = [fg EXCEPT ![p] = Preimage(p)],
             Goto("confirm"), UNCHANGED journal
      PROVE  PInv'
    <2>1. /\ call \in Calls /\ c \in Candidates /\ call.result = None
          /\ journal[c].status = "open" /\ call.applied = AppliedPaths(c)
        BY <1>1, WritingFacts DEF Applied
    <2>2. /\ call' \in Calls /\ call'.at = "confirm" /\ call'.c = c
          /\ call'.applied = call.applied /\ call'.result = None
        BY <1>3, <2>1, GotoKeeps DEF CallStages
    <2>3. Preimage(p) \in {Base, Edit}
        BY <1>3, <2>1 DEF PInv, Copied, Preimage
    <2>4. /\ fg' \in [Paths -> Contents]
          /\ \A q \in Paths : fg'[q] \in Candidates => fg'[q] = fg[q]
        BY <1>3, <2>3, PromotionAssumption DEF PInv, PromotionTypeOK, Contents
    <2>5. PromotionTypeOK'
        BY <1>1, <1>3, <2>1, <2>2, <2>4 DEF PInv, PromotionTypeOK
    <2>6. Shape' /\ Windows'
        BY <1>3, <2>1, <2>2 DEF Shape, Windows, Before, Writing, Applied, AppliedPaths
    <2>7. Accounted' /\ Clean'
        BY <1>1, <1>3, <2>4 DEF PInv, Accounted, Clean, AppliedPaths
    <2>8. Copied' /\ Hashed'
        BY <1>1, <1>3, <2>2 DEF PInv, Copied, Hashed
    <2>9. CopiesOutliveNeed' /\ OneCandidateInForeground'
        BY <1>1, <1>3, <2>4 DEF PInv, CopiesOutliveNeed, OneCandidateInForeground
    <2> QED BY <2>5, <2>6, <2>7, <2>8, <2>9 DEF PInv
<1> QED BY <1>2, <1>3 DEF Restore

\* The restored path is looked at once more.
LEMMA ConfirmStep ==
    ASSUME PInv, Confirm
    PROVE  PInv'
<1>1. call.at = "confirm" /\ UNCHANGED <<fg, copies, manifest, edits, lost, raced>>
    BY DEF Confirm, At
<1>2. CASE NeedsAttention
    BY <1>1, <1>2, AttentionStep DEF Applied
<1>3. CASE \E p \in Paths : fg[p] = Base /\ RolledBack(p)
    BY <1>1, <1>3, RolledBackStep
<1> QED BY <1>2, <1>3 DEF Confirm

\* A rollback is over when no applied path is left.
LEMMA RollbackDoneStep ==
    ASSUME PInv, RollbackDone
    PROVE  PInv'
<1> DEFINE c == call.c
<1>1. call.at = "rollback" /\ UNCHANGED <<fg, copies, manifest, edits, lost, raced>>
    BY DEF RollbackDone, At
<1>2. /\ call \in Calls /\ c \in Candidates /\ call.result = None
      /\ journal \in [Candidates -> Journals] /\ journal[c].status = "open"
      /\ AppliedPaths(c) = {}
    BY <1>1, WritingFacts DEF Applied, RollbackDone, NothingLeft
<1>3. call' \in Calls /\ call'.at = "settle" /\ call'.c = c /\ call'.result = None
    BY <1>2, GotoKeeps DEF RollbackDone, CallStages
<1>4. /\ journal' \in [Candidates -> Journals] /\ journal'[c].status = "rolled_back"
      /\ \A d \in Candidates : d # c => journal'[d].status = journal[d].status
      /\ \A d \in Candidates : journal'[d].last = journal[d].last
      /\ \A d \in Candidates : journal'[d].post = journal[d].post
    BY <1>2, StatusKeeps DEF RollbackDone, Statuses
<1>5. PromotionTypeOK'
    BY <1>1, <1>2, <1>3, <1>4 DEF PInv, PromotionTypeOK
<1>6. Shape' /\ Windows'
    BY <1>3, <1>4 DEF Shape, Windows, Before, Writing, Applied, Final
<1>7. Accounted' /\ Clean'
    BY <1>1, <1>2, <1>4 DEF PInv, Accounted, Clean, AppliedPaths
<1>8. Copied' /\ Hashed'
    BY <1>1, <1>3, <1>4 DEF PInv, Copied, Hashed
<1>9. CopiesOutliveNeed' /\ OneCandidateInForeground'
    BY <1>1, <1>2, <1>4 DEF PInv, CopiesOutliveNeed, OneCandidateInForeground
<1> QED BY <1>5, <1>6, <1>7, <1>8, <1>9 DEF PInv

\* A rollback whose append fails stops where it is.
LEMMA RollbackFailsStep ==
    ASSUME PInv, RollbackFails
    PROVE  PInv'
<1>1. call.at = "rollback" /\ UNCHANGED <<fg, journal, copies, manifest, edits, lost, raced>>
    BY DEF RollbackFails, At
<1>2. call' \in Calls /\ call'.at = "idle"
    BY ReturnEnds DEF RollbackFails, Results
<1>3. Shape' /\ Windows'
    BY <1>2 DEF Shape, Windows, Before, Writing, Applied
<1> QED BY <1>1, <1>2, <1>3, CallOnly DEF PInv, PromotionTypeOK

\* The copies go only when the attempt is closed or was discarded.
LEMMA DropCopies ==
    ASSUME PInv, NEW c \in Candidates, copies' = [copies EXCEPT ![c] = NoCopies],
           journal[c].status \notin {"open", "needs_attention"},
           UNCHANGED <<fg, journal, edits, lost, raced>>,
           manifest' \in [Candidates -> {"none", "open", "closed"}],
           call.at # "record", call' \in Calls, call'.at = "idle"
    PROVE  PInv'
<1>1. /\ copies' \in [Candidates -> [Paths -> Contents \cup {None}]]
      /\ \A d \in Candidates, q \in Paths :
            copies'[d][q] = IF d = c THEN None ELSE copies[d][q]
    BY DEF PInv, PromotionTypeOK, NoCopies
<1>2. PromotionTypeOK' /\ Shape' /\ Windows'
    BY <1>1 DEF PInv, PromotionTypeOK, Shape, Windows, Before, Writing, Applied
<1>3. Accounted' /\ Clean'
    BY DEF PInv, Accounted, Clean, AppliedPaths
<1>4. Copied' /\ Hashed'
    BY <1>1 DEF PInv, Copied, Hashed
<1>5. CopiesOutliveNeed' /\ OneCandidateInForeground'
    BY <1>1 DEF PInv, CopiesOutliveNeed, OneCandidateInForeground
<1> QED BY <1>2, <1>3, <1>4, <1>5 DEF PInv

\* A call ends with the result its journal says, or recovered.
LEMMA SettleStep ==
    ASSUME PInv, Settle
    PROVE  PInv'
<1>1. /\ call.at = "settle" /\ call.c \in Candidates
      /\ UNCHANGED <<fg, journal, edits, lost, raced>>
      /\ journal[call.c].status \in Final \/ (call.recovering /\ journal[call.c].status = "none")
      /\ copies' = [copies EXCEPT ![call.c] = NoCopies]
    BY DEF PInv, PromotionTypeOK, Shape, Settle, At
<1>2. manifest' \in [Candidates -> {"none", "open", "closed"}]
    BY <1>1 DEF PInv, PromotionTypeOK, Settle, Closed
<1>3. call' \in Calls /\ call'.at = "idle"
    BY <1>1, ReturnEnds DEF Settle, Results, Final
<1> QED BY <1>1, <1>2, <1>3, DropCopies DEF Final

\* Recovery takes up an open journal, discards one without applied paths, and leaves
\* the others alone.
LEMMA RecoverStep ==
    ASSUME PInv, NEW c \in Candidates, Recover(c)
    PROVE  PInv'
<1>1. call = Idle /\ journal \in [Candidates -> Journals]
      /\ manifest \in [Candidates -> {"none", "open", "closed"}]
    BY DEF PInv, PromotionTypeOK, Recover, RecoverSettled, Discard, RecoverOpen, Free
<1>2. CASE RecoverSettled(c)
    <2>1. call' \in Calls /\ call'.at = "idle" /\ UNCHANGED <<fg, journal, edits, lost, raced>>
        BY <1>2, ReturnEnds DEF RecoverSettled, Results
    <2>2. manifest' \in [Candidates -> {"none", "open", "closed"}]
        BY <1>1, <1>2 DEF RecoverSettled, Closed
    <2>3. CASE UNCHANGED copies
        <3>1. Shape' /\ Windows'
            BY <2>1 DEF Shape, Windows, Before, Writing, Applied
        <3> QED BY <1>1, <2>1, <2>2, <2>3, <3>1, IdleType, CallOnly DEF PInv, PromotionTypeOK
    <2>4. CASE HasReceipt(c) /\ copies' = [copies EXCEPT ![c] = NoCopies]
        BY <1>1, <2>1, <2>2, <2>4, IdleType, DropCopies DEF HasReceipt, Final
    <2> QED BY <1>2, <2>3, <2>4 DEF RecoverSettled
<1>3. CASE Discard(c)
    <2>1. /\ journal' = [journal EXCEPT ![c] = NoJournal]
          /\ UNCHANGED <<fg, copies, manifest, edits, lost, raced>>
          /\ journal[c].status = "open" /\ AppliedPaths(c) = {}
        BY <1>3 DEF Discard, Interrupted
    <2>2. call' \in Calls /\ call'.at = "settle" /\ call'.c = c /\ call'.recovering
          /\ call'.result = None
        BY <1>3, IdleType DEF Discard, Calls, CallStages
    <2>3. /\ journal' \in [Candidates -> Journals]
          /\ \A d \in Candidates : d # c => journal'[d] = journal[d]
          /\ journal'[c].status = "none" /\ \A q \in Paths : journal'[c].last[q] = "none"
          /\ \A q \in Paths : journal'[c].post[q] = Base
        BY <1>1, <2>1, IdleType DEF NoJournal
    <2>4. PromotionTypeOK' /\ Shape' /\ Windows'
        BY <2>1, <2>2, <2>3 DEF PInv, PromotionTypeOK, Shape, Windows, Before, Writing, Applied
    <2>5. Accounted'
        BY <1>1, <2>1, <2>2, <2>3, IdleType DEF PInv, Accounted, AppliedPaths
    <2>6. Clean' /\ Copied' /\ Hashed'
        BY <2>1, <2>2, <2>3, PromotionAssumption DEF PInv, Clean, Copied, Hashed, AppliedPaths
    <2>7. CopiesOutliveNeed' /\ OneCandidateInForeground'
        BY <2>1, <2>3 DEF PInv, CopiesOutliveNeed, OneCandidateInForeground
    <2> QED BY <2>4, <2>5, <2>6, <2>7 DEF PInv
<1>4. CASE RecoverOpen(c)
    <2>1. /\ UNCHANGED <<fg, journal, copies, manifest, edits, lost, raced>>
          /\ journal[c].status = "open"
        BY <1>4 DEF RecoverOpen, Interrupted
    <2>2. /\ call' \in Calls /\ call'.at = "rollback" /\ call'.c = c /\ call'.result = None
          /\ call'.applied = AppliedPaths(c)
        BY <1>4, IdleType DEF RecoverOpen, Calls, CallStages, AppliedPaths
    <2>3. Shape' /\ Windows'
        BY <2>1, <2>2 DEF Shape, Windows, Before, Writing, Applied, AppliedPaths
    <2> QED BY <1>1, <2>1, <2>2, <2>3, IdleType, CallOnly DEF PInv, PromotionTypeOK
<1> QED BY <1>2, <1>3, <1>4 DEF Recover

\* An edit in a window is a race; an edit never looks like a candidate's content.
LEMMA UserEditStep ==
    ASSUME PInv, UserEdit
    PROVE  PInv'
<1>1. UNCHANGED <<journal, copies, manifest, call, lost>> /\ edits' \in 0..MaxEdits
    BY PromotionAssumption DEF PInv, PromotionTypeOK, UserEdit
<1>2. PICK p \in Paths : /\ fg' = [fg EXCEPT ![p] = Edit]
                        /\ raced' = IF InWindow(p) THEN raced \cup {p} ELSE raced
    BY DEF UserEdit
<1>3. /\ fg' \in [Paths -> Contents] /\ fg'[p] = Edit
      /\ \A q \in Paths : q # p => fg'[q] = fg[q]
      /\ raced \subseteq raced' /\ raced' \subseteq Paths
    BY <1>2 DEF PInv, PromotionTypeOK, Contents
<1>4. PromotionTypeOK' /\ Shape'
    BY <1>1, <1>3 DEF PInv, PromotionTypeOK, Shape, AppliedPaths
<1>5. Windows'
    BY <1>1, <1>2, <1>3 DEF PInv, Windows, Untouched, InWindow, At, Newest, Writing, Shape, Paths
<1>6. Accounted' /\ OneCandidateInForeground'
    BY <1>1, <1>3, PromotionAssumption DEF PInv, Accounted, OneCandidateInForeground
<1>7. Clean' /\ Copied' /\ Hashed' /\ CopiesOutliveNeed'
    BY <1>1, <1>3 DEF PInv, Clean, Copied, Hashed, KeptCopy, CopiesOutliveNeed, AppliedPaths
<1> QED BY <1>4, <1>5, <1>6, <1>7 DEF PInv

\* A lost process leaves its files; the write it did not record is lost.
LEMMA CallEnds ==
    ASSUME PInv, TakeResult \/ CallLost
    PROVE  PInv'
<1>1. /\ call' = Idle /\ UNCHANGED <<fg, journal, copies, manifest, edits, raced>>
      /\ lost' = lost \/ lost' = lost \cup Unrecorded
      /\ call.at = "record" => lost' = lost \cup Unrecorded
    BY DEF TakeResult, CallLost, PInv, Shape, PromotionTypeOK, Calls
<1>2. /\ lost \subseteq lost' /\ lost' \subseteq Candidates \X Paths
      /\ call.at = "record" => <<call.c, call.next>> \in lost'
    BY <1>1 DEF Unrecorded, At, PInv, PromotionTypeOK, Shape, Writing
<1>3. Shape' /\ Windows'
    BY <1>1, IdleType DEF Shape, Windows, Before, Writing, Applied
<1> QED BY <1>1, <1>2, <1>3, IdleType, CallOnly DEF PInv, PromotionTypeOK

\* Nothing has happened yet.
LEMMA PromotionInitial == PromotionInit => PInv
<1> SUFFICES ASSUME PromotionInit PROVE PInv
    OBVIOUS
<1>1. PromotionTypeOK
    BY IdleType, PromotionAssumption DEF PromotionInit, PromotionTypeOK, NoCopies, Contents
<1>2. Shape /\ Windows
    BY IdleType DEF PromotionInit, Shape, Windows, Before, Writing, Applied
<1>3. Accounted /\ OneCandidateInForeground
    BY PromotionAssumption DEF PromotionInit, Accounted, OneCandidateInForeground
<1>4. \A c \in Candidates, p \in Paths :
        journal[c].last[p] = "none" /\ journal[c].post[p] = Base /\ copies[c][p] = None
    BY DEF PromotionInit, NoJournal, NoCopies
<1>5. Clean /\ Copied /\ Hashed /\ CopiesOutliveNeed
    BY <1>4, IdleType, PromotionAssumption
    DEF PromotionInit, Clean, Copied, Hashed, CopiesOutliveNeed, AppliedPaths
<1> QED BY <1>1, <1>2, <1>3, <1>5 DEF PInv

-----------------------------------------------------------------------------
(***************************************************************************)
(* The theorems                                                            *)
(***************************************************************************)
\* What no call touches keeps the invariant.
LEMMA PromotionUntouched ==
    ASSUME PInv, UNCHANGED promotion
    PROVE  PInv'
BY DEF promotion, PInv, PromotionTypeOK, Shape, Windows, Untouched, Accounted, Clean, Copied,
   KeptCopy, Hashed, CopiesOutliveNeed, OneCandidateInForeground, AppliedPaths, Newest

\* Every step of a promotion, of its recovery, of the user and of the process keeps
\* the invariant.
THEOREM PromotionInductive == PInv /\ [PromotionNext]_<<promotion, failures>> => PInv'
<1>1. ASSUME PInv, PromotionStep PROVE PInv'
    BY <1>1, LookingSteps, OpenStep, PrepareStep, ApplyStep, RecordStep, CloseStep, TurnBackSteps,
       CompareStep, RestoreStep, ConfirmStep, RollbackDoneStep, RollbackFailsStep, SettleStep
    DEF PromotionStep
<1> QED BY <1>1, PromotionUntouched, PromoteStep, RecoverStep, UserEditStep, CallEnds
        DEF PromotionNext

\* The invariant holds in every state promotions, recoveries, edits, failures and
\* crashes can reach.
THEOREM PromotionInvariance == PromotionSpec => []PInv
BY PromotionInitial, PromotionInductive, PTL DEF PromotionSpec

\* Foreground, journals, copies and calls keep their shape.
THEOREM PromotionTypes == PromotionSpec => []PromotionTypeOK
<1>1. PInv => PromotionTypeOK
    BY DEF PInv
<1> QED BY <1>1, PromotionInvariance, PTL

\* The foreground is never a mix of two candidates.
THEOREM NoMixedForeground == PromotionSpec => []OneCandidateInForeground
<1>1. PInv => OneCandidateInForeground
    BY DEF PInv
<1> QED BY <1>1, PromotionInvariance, PTL

\* What an attempt replaced can be restored for as long as it can be rolled back.
THEOREM CopiesAreThere == PromotionSpec => []CopiesOutliveNeed
<1>1. PInv => CopiesOutliveNeed
    BY DEF PInv
<1> QED BY <1>1, PromotionInvariance, PTL

\* An attempt that rolled back, was discarded or never began has left nothing in the
\* foreground but a write whose applied event was lost.
THEOREM RollbackRestores == PromotionSpec => []RolledBackIsRestored
<1>1. PInv => RolledBackIsRestored
    BY DEF PInv, Shape, Accounted, Clean, AppliedPaths, RolledBackIsRestored, Applied, Writing
<1> QED BY <1>1, PromotionInvariance, PTL

\* The only steps that write to the foreground: applying a path and restoring one,
\* both of the call that is running, and the user.
LEMMA WhoWrites ==
    ASSUME PromotionNext
    PROVE  UNCHANGED fg \/ Apply \/ Restore \/ UserEdit
BY DEF PromotionNext, PromotionStep, VerifyLease, Gate, Recheck, Open, Prepare, Record,
   VerifyForeground, Close, ApplyFails, Compare, Confirm, RollbackDone, RollbackFails, Settle,
   TakeResult, CallLost, Promote, ReplayReceipt, Begin, Recover, RecoverSettled, Discard,
   RecoverOpen

\* No edit of the user is overwritten unless it was made in a window.
LEMMA EditsSurviveStep ==
    ASSUME PInv, [PromotionNext]_<<promotion, failures>>
    PROVE  \A p \in Paths : fg[p] = Edit /\ fg'[p] # Edit => p \in raced
<1> SUFFICES ASSUME NEW p \in Paths, fg[p] = Edit, fg'[p] # Edit PROVE p \in raced
    OBVIOUS
<1>1. Apply \/ Restore \/ UserEdit
    BY WhoWrites DEF promotion
<1>2. fg \in [Paths -> Contents]
    BY DEF PInv, PromotionTypeOK
<1>3. CASE Apply
    <2>1. call.at = "apply" /\ fg' = [fg EXCEPT ![call.next] = call.c]
        BY <1>3 DEF Apply, At
    <2>2. Untouched(call.next) /\ p = call.next
        BY <1>2, <2>1, WritingFacts DEF PInv, Windows, Applied, Writing, Paths
    <2> QED BY <2>2, PromotionAssumption DEF Untouched
<1>4. CASE Restore
    <2>1. call.at = "restore" /\ Newest(p)
        BY <1>2, <1>4 DEF Restore, At
    <2> QED BY <2>1 DEF PInv, Windows
<1>5. CASE UserEdit
    BY <1>2, <1>5 DEF UserEdit
<1> QED BY <1>1, <1>3, <1>4, <1>5

\* Neither apply, rollback nor recovery overwrites an edit of the user, but for the
\* windows the comparisons leave.
THEOREM UserEditsSurvive == PromotionSpec => EditsSurvive
<1>1. PInv /\ [PromotionNext]_<<promotion, failures>>
        => [\A p \in Paths : fg[p] = Edit /\ fg'[p] # Edit => p \in raced]_<<promotion, failures>>
    BY EditsSurviveStep
<1> QED BY <1>1, PromotionInvariance, PTL DEF PromotionSpec, EditsSurvive

\* The only attempt whose journal a step changes is the one of the call that is
\* running, or the open one recovery discards.
LEMMA JournalsOfOthers ==
    ASSUME PInv, PromotionNext, NEW c \in Candidates, journal[c].status \in Final
    PROVE  journal'[c] = journal[c]
<1>1. journal \in [Candidates -> Journals]
    BY DEF PInv, PromotionTypeOK
<1>2. call.at \in Applied \cup {"open"} => call.c # c /\ call.c \in Candidates
    BY DEF PInv, Shape, Before, Applied, Writing, Final, PromotionTypeOK
<1>3. CASE Open \/ Prepare \/ Record \/ Close
    BY <1>1, <1>2, <1>3 DEF Open, Prepare, Record, Close, At, Applied, Writing
<1>4. CASE Compare \/ Restore \/ Confirm \/ RollbackDone
    BY <1>1, <1>2, <1>4
    DEF Compare, Restore, Confirm, RollbackDone, At, Applied, RolledBack, NeedsAttention
<1>5. CASE \E d \in Candidates : Discard(d)
    BY <1>1, <1>5 DEF Discard, Interrupted, Final
<1>6. CASE UNCHANGED journal
    BY <1>6
<1>7. UNCHANGED journal \/ Open \/ Prepare \/ Record \/ Close \/ Compare \/ Restore \/ Confirm
      \/ RollbackDone \/ \E d \in Candidates : Discard(d)
    BY DEF PromotionNext, PromotionStep, VerifyLease, Gate, Recheck, Apply, VerifyForeground,
       ApplyFails, RollbackFails, Settle, TakeResult, CallLost, Promote, ReplayReceipt, Begin,
       Recover, RecoverSettled, RecoverOpen, UserEdit
<1> QED BY <1>3, <1>4, <1>5, <1>6, <1>7

\* The attempt of a receipt writes nothing any more.
LEMMA ReceiptStep ==
    ASSUME PInv, [PromotionNext]_<<promotion, failures>>
    PROVE  \A c \in Candidates : HasReceipt(c) =>
             /\ journal'[c] = journal[c]
             /\ \A p \in Paths : fg'[p] = c => fg[p] = c
<1> SUFFICES ASSUME NEW c \in Candidates, journal[c].status \in Final
             PROVE  journal'[c] = journal[c] /\ \A p \in Paths : fg'[p] = c => fg[p] = c
    BY DEF HasReceipt
<1>1. CASE UNCHANGED <<promotion, failures>>
    BY <1>1 DEF promotion
<1>2. CASE PromotionNext
    <2>1. journal'[c] = journal[c]
        BY <1>2, JournalsOfOthers
    <2>2. fg \in [Paths -> Contents] /\ c # Base /\ c # Edit
        BY PromotionAssumption DEF PInv, PromotionTypeOK
    <2>3. ASSUME Apply, NEW p \in Paths, fg'[p] = c PROVE fg[p] = c
        <3>1. call.at = "apply" /\ fg' = [fg EXCEPT ![call.next] = call.c]
            BY <2>3 DEF Apply, At
        <3>2. call.c # c
            BY <3>1, WritingFacts DEF Applied, Writing, Final
        <3> QED BY <2>2, <2>3, <3>1, <3>2
    <2>4. ASSUME Restore, NEW p \in Paths, fg'[p] = c PROVE fg[p] = c
        <3>1. call.c \in Candidates
            BY <2>4, WritingFacts DEF Restore, At, Applied
        <3>2. \A q \in Paths : Preimage(q) \in {Base, Edit, None}
            BY <3>1 DEF PInv, Copied, Preimage
        <3> QED BY <2>2, <2>4, <3>2 DEF Restore
    <2>5. ASSUME UserEdit, NEW p \in Paths, fg'[p] = c PROVE fg[p] = c
        BY <2>2, <2>5 DEF UserEdit
    <2> QED BY <1>2, <2>1, <2>3, <2>4, <2>5, WhoWrites
<1> QED BY <1>1, <1>2

\* A receipt is never taken back, and its attempt writes no more to the foreground.
THEOREM ReceiptsAreFinal == PromotionSpec => ReceiptIsFinal
<1>1. PInv /\ [PromotionNext]_<<promotion, failures>>
        => [\A c \in Candidates : HasReceipt(c) =>
              /\ journal'[c] = journal[c]
              /\ \A p \in Paths : fg'[p] = c => fg[p] = c]_<<promotion, failures>>
    BY ReceiptStep
<1> QED BY <1>1, PromotionInvariance, PTL DEF PromotionSpec, ReceiptIsFinal

=============================================================================
