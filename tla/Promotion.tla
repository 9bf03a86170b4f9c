----------------------------- MODULE Promotion -----------------------------
(***************************************************************************)
(* Promotion of a candidate's workspace lease into the user's foreground   *)
(* (workspace-promotion.ts, and promote and recover of the temporary       *)
(* directory adapter): verify, compare the foreground with the capture,    *)
(* apply path by path under a journal, roll back what was applied, recover *)
(* what a lost process left open.  The user may edit the foreground at any *)
(* time: the gates, copies and hashes are all there is between the two.    *)
(*                                                                         *)
(* A plan lists the same paths for every candidate, in order; what a       *)
(* candidate makes of a path is named by the candidate, also when it       *)
(* deletes the path.  An edit never restores what was captured, so the     *)
(* preimages a plan reads are the captured contents once its gate passed.  *)
(*                                                                         *)
(* Definitions whose comment begins with "Mutant:" are not part of the     *)
(* model: each is the definition after it with one plausible bug.          *)
(***************************************************************************)
EXTENDS Failures

CONSTANTS
    Candidates,   \* leases that may be promoted
    Identical,    \* those whose lease does not differ from the capture
    PathCount,    \* paths of a plan
    NewPaths,     \* those that did not exist when the foreground was captured
    Base, Edit,   \* contents: as captured, as the user left it
    None,         \* no copy, no result
    MaxEdits      \* edits of the user (bound)

Paths == 1..PathCount
Contents == Candidates \cup {Base, Edit}

ASSUME PromotionAssumption ==
    /\ PathCount \in Nat \ {0} /\ NewPaths \subseteq Paths
    /\ Identical \subseteq Candidates /\ MaxEdits \in Nat
    /\ Base # Edit /\ None \notin Contents
    /\ Base \notin Candidates /\ Edit \notin Candidates

VARIABLES
    fg,        \* the foreground
    journal,   \* the journal file of each attempt, folded
    copies,    \* the recovery copies of each attempt
    manifest,  \* the promotion record of each attempt in the manifest
    call,      \* the promote or recover call that is running
    edits,     \* edits so far
    lost,      \* writes without a durable applied event (history)
    raced      \* paths edited between a comparison and the write it is for (history)

promotion == <<fg, journal, copies, manifest, call, edits, lost, raced>>

-----------------------------------------------------------------------------
(***************************************************************************)
(* Journal and calls                                                       *)
(***************************************************************************)
Statuses == {"none", "open", "needs_attention", "promoted", "rolled_back"}
Final == {"promoted", "rolled_back"}
PathEvents == {"none", "prepared", "applied", "rolled_back"}

\* fold: where the attempt stands, the last event of every path, and the hash its
\* applied event recorded.
Journals == [status : Statuses, last : [Paths -> PathEvents], post : [Paths -> Contents]]

NoJournal ==
    [status |-> "none", last |-> [p \in Paths |-> "none"], post |-> [p \in Paths |-> Base]]

NoCopies == [p \in Paths |-> None]

CallStages == {"idle", "verify", "gate", "recheck", "open", "prepare", "apply", "record",
           "final", "close", "rollback", "restore", "confirm", "settle"}

Results == Final \cup {"verifier_failed", "foreground_changed", "conflict",
                       "needs_attention", "recovered", "fault"}

ASSUME ResultAssumption == None \notin Results

\* applied is the list a rollback works off, newest path first.
Idle == [at |-> "idle", c |-> None, next |-> 1, applied |-> {}, recovering |-> FALSE,
         result |-> None]

Free == call = Idle
At(stage) == call.at = stage
Goto(stage) == call' = [call EXCEPT !.at = stage]
Return(result) == call' = [Idle EXCEPT !.result = result]

Planned(c) == IF c \in Identical THEN {} ELSE Paths

\* Mutant: only an edit of the user counts as a difference.
NotEdited(p) == fg[p] # Edit

Captured(p) == fg[p] = Base

\* The fingerprint gate: the foreground is no longer what was captured.
Drifted == \E p \in Paths : ~Captured(p)

\* readPromotionReceipt
HasReceipt(c) == journal[c].status \in Final

Closed(c) == manifest' = [manifest EXCEPT ![c] = "closed"]

-----------------------------------------------------------------------------
(***************************************************************************)
(* promote                                                                 *)
(***************************************************************************)
\* A closed journal is the receipt: its result is returned again.
ReplayReceipt(c) ==
    /\ Free /\ HasReceipt(c)
    /\ manifest' = [manifest EXCEPT ![c] = IF @ = "open" THEN "closed" ELSE @]
    /\ Return(journal[c].status)
    /\ UNCHANGED <<fg, journal, copies, edits, lost, raced, failures>>

\* The manifest is opened first; an attempt whose journal is open or needs
\* attention is refused after that.
Begin(c) ==
    /\ Free /\ ~HasReceipt(c)
    /\ manifest' = [manifest EXCEPT ![c] = "open"]
    /\ \/ journal[c].status # "none" /\ Return("conflict")
       \/ journal[c].status = "none" /\ call' = [Idle EXCEPT !.at = "verify", !.c = c]
    /\ UNCHANGED <<fg, journal, copies, edits, lost, raced, failures>>

Promote(c) == ReplayReceipt(c) \/ Begin(c)

VerifyLease ==
    /\ At("verify")
    /\ \/ Goto("gate") /\ UNCHANGED manifest
       \/ Closed(call.c) /\ Return("verifier_failed")
    /\ UNCHANGED <<fg, journal, copies, edits, lost, raced, failures>>

\* The first fingerprint, then the plan; an empty plan has no second one.
Gate ==
    /\ At("gate")
    /\ \/ Drifted /\ Return("foreground_changed")
       \/ ~Drifted /\ Goto(IF Planned(call.c) = {} THEN "open" ELSE "recheck")
    /\ UNCHANGED <<fg, journal, copies, manifest, edits, lost, raced, failures>>

Recheck ==
    /\ At("recheck")
    /\ \/ Drifted /\ Return("foreground_changed")
       \/ ~Drifted /\ Goto("open")
    /\ UNCHANGED <<fg, journal, copies, manifest, edits, lost, raced, failures>>

\* The last look at the foreground before it is written.
PreimagesHold(c) == \A p \in Planned(c) : Captured(p)

Open ==
    /\ At("open")
    /\ \/ ~PreimagesHold(call.c) /\ Return("conflict") /\ UNCHANGED <<journal, failures>>
       \/ /\ PreimagesHold(call.c)
          /\ journal' = [journal EXCEPT ![call.c].status = "open"]
          /\ Goto(IF Planned(call.c) = {} THEN "close" ELSE "prepare")
          /\ UNCHANGED failures
       \/ PreimagesHold(call.c) /\ Fault /\ Return("fault") /\ UNCHANGED journal
    /\ UNCHANGED <<fg, copies, manifest, edits, lost, raced>>

\* Mutant: what is kept is not the content the write replaces.
NothingKept(c, p) == copies

\* What a path holds is copied before the write, unless the path is new.
Kept(c, p) == IF p \in NewPaths THEN copies ELSE [copies EXCEPT ![c][p] = fg[p]]

Prepare ==
    /\ At("prepare")
    /\ copies' = Kept(call.c, call.next)
    /\ journal' = [journal EXCEPT ![call.c].last[call.next] = "prepared"]
    /\ Goto("apply")
    /\ UNCHANGED <<fg, manifest, edits, lost, raced, failures>>

Apply ==
    /\ At("apply")
    /\ fg' = [fg EXCEPT ![call.next] = call.c]
    /\ Goto("record")
    /\ UNCHANGED <<journal, copies, manifest, edits, lost, raced, failures>>

\* The hash is taken of what the path holds now.
Record ==
    /\ At("record")
    /\ journal' = [journal EXCEPT ![call.c].last[call.next] = "applied",
                                  ![call.c].post[call.next] = fg[call.next]]
    /\ call' = [call EXCEPT !.applied = @ \cup {call.next}, !.next = @ + 1,
                            !.at = IF call.next = PathCount THEN "final" ELSE "prepare"]
    /\ UNCHANGED <<fg, copies, manifest, edits, lost, raced, failures>>

VerifyForeground ==
    /\ At("final")
    /\ Goto("close") \/ Goto("rollback")
    /\ UNCHANGED <<fg, journal, copies, manifest, edits, lost, raced, failures>>

Close ==
    /\ At("close")
    /\ journal' = [journal EXCEPT ![call.c].status = "promoted"]
    /\ Goto("settle")
    /\ UNCHANGED <<fg, copies, manifest, edits, lost, raced, failures>>

\* The path whose write has no applied event, if the call stops here.
Unrecorded == IF At("record") THEN {<<call.c, call.next>>} ELSE {}

\* Anything that fails while the plan is applied starts the rollback of the paths
\* recorded so far; an empty plan has none to start.
ApplyFails ==
    /\ call.at \in {"prepare", "apply", "record", "close"}
    /\ Fault
    /\ lost' = lost \cup Unrecorded
    /\ IF Planned(call.c) = {} THEN Return("fault") ELSE Goto("rollback")
    /\ UNCHANGED <<fg, journal, copies, manifest, edits, raced>>

-----------------------------------------------------------------------------
(***************************************************************************)
(* rollbackApplied                                                         *)
(***************************************************************************)
Newest(p) == p \in call.applied /\ \A q \in call.applied : q <= p

RolledBack(p) ==
    /\ journal' = [journal EXCEPT ![call.c].last[p] = "rolled_back"]
    /\ call' = [call EXCEPT !.at = "rollback", !.applied = @ \ {p}]

\* needs_attention: the attempt stops where it is, its copies stay.
NeedsAttention ==
    /\ journal' = [journal EXCEPT ![call.c].status = "needs_attention"]
    /\ Return("needs_attention")

\* Mutant: whatever the path holds is taken for this attempt's write.
AlwaysOwn(p) == TRUE

\* The path still holds what the applied event recorded.
OwnWrite(p) == fg[p] = journal[call.c].post[p]

Compare ==
    /\ At("rollback")
    /\ \E p \in Paths :
        /\ Newest(p)
        /\ \/ fg[p] = Base /\ RolledBack(p)
           \/ fg[p] # Base /\ OwnWrite(p) /\ Goto("restore") /\ UNCHANGED journal
           \/ fg[p] # Base /\ ~OwnWrite(p) /\ NeedsAttention
    /\ UNCHANGED <<fg, copies, manifest, edits, lost, raced, failures>>

Preimage(p) == IF p \in NewPaths THEN Base ELSE copies[call.c][p]

Restore ==
    /\ At("restore")
    /\ \/ \E p \in Paths :
            /\ Newest(p) /\ Preimage(p) # None
            /\ fg' = [fg EXCEPT ![p] = Preimage(p)]
            /\ Goto("confirm")
            /\ UNCHANGED <<journal, failures>>
       \/ Fault /\ NeedsAttention /\ UNCHANGED fg
    /\ UNCHANGED <<copies, manifest, edits, lost, raced>>

\* The restored path is hashed again; a failing append ends here like a mismatch.
Confirm ==
    /\ At("confirm")
    /\ \/ /\ UNCHANGED failures
          /\ \E p \in Paths :
                /\ Newest(p)
                /\ \/ fg[p] = Base /\ RolledBack(p)
                   \/ fg[p] # Base /\ NeedsAttention
       \/ Fault /\ NeedsAttention
    /\ UNCHANGED <<fg, copies, manifest, edits, lost, raced>>

\* Mutant: the attempt is closed with paths still to restore.
ClosedEarly == TRUE

NothingLeft == call.applied = {}

RollbackDone ==
    /\ At("rollback") /\ NothingLeft
    /\ journal' = [journal EXCEPT ![call.c].status = "rolled_back"]
    /\ Goto("settle")
    /\ UNCHANGED <<fg, copies, manifest, edits, lost, raced, failures>>

\* An append of the rollback fails: the call throws and the journal stays open.
RollbackFails ==
    /\ At("rollback") /\ Fault /\ Return("fault")
    /\ UNCHANGED <<fg, journal, copies, manifest, edits, lost, raced>>

\* The copies go, and the manifest record is closed.
Settle ==
    /\ At("settle")
    /\ copies' = [copies EXCEPT ![call.c] = NoCopies]
    /\ Closed(call.c)
    /\ Return(IF call.recovering THEN "recovered" ELSE journal[call.c].status)
    /\ UNCHANGED <<fg, journal, edits, lost, raced, failures>>

-----------------------------------------------------------------------------
(***************************************************************************)
(* recover, the user, and the process                                      *)
(***************************************************************************)
AppliedPaths(c) == {p \in Paths : journal[c].last[p] = "applied"}

\* Mutant: an attempt that is closed is taken up again.
AnyJournal(c) == journal[c].status # "none"

Interrupted(c) == journal[c].status = "open"

\* No journal: the record is closed.  A journal that is closed or needs attention
\* is left alone, but for the copies of a closed one.
RecoverSettled(c) ==
    /\ Free /\ manifest[c] = "open" /\ ~Interrupted(c)
    /\ \/ journal[c].status = "none" /\ Closed(c) /\ UNCHANGED copies
       \/ HasReceipt(c) /\ copies' = [copies EXCEPT ![c] = NoCopies] /\ UNCHANGED manifest
       \/ journal[c].status = "needs_attention" /\ UNCHANGED <<copies, manifest>>
    /\ Return("recovered")
    /\ UNCHANGED <<fg, journal, edits, lost, raced, failures>>

\* An open journal without an applied path is deleted.
Discard(c) ==
    /\ Free /\ manifest[c] = "open" /\ Interrupted(c) /\ AppliedPaths(c) = {}
    /\ journal' = [journal EXCEPT ![c] = NoJournal]
    /\ call' = [Idle EXCEPT !.at = "settle", !.c = c, !.recovering = TRUE]
    /\ UNCHANGED <<fg, copies, manifest, edits, lost, raced, failures>>

\* Otherwise its applied paths are rolled back.
RecoverOpen(c) ==
    /\ Free /\ manifest[c] = "open" /\ Interrupted(c) /\ AppliedPaths(c) # {}
    /\ call' = [Idle EXCEPT !.at = "rollback", !.c = c, !.recovering = TRUE,
                            !.applied = AppliedPaths(c)]
    /\ UNCHANGED <<fg, journal, copies, manifest, edits, lost, raced, failures>>

\* recover goes through the open promotion records.
Recover(c) == RecoverSettled(c) \/ Discard(c) \/ RecoverOpen(c)

\* A write to p is still to come, or its hash still to be taken or compared.
InWindow(p) ==
    \/ call.at \in {"prepare", "apply", "record"} /\ p >= call.next
    \/ At("restore") /\ Newest(p)

UserEdit ==
    /\ edits < MaxEdits /\ edits' = edits + 1
    /\ \E p \in Paths :
        /\ fg' = [fg EXCEPT ![p] = Edit]
        /\ raced' = IF InWindow(p) THEN raced \cup {p} ELSE raced
    /\ UNCHANGED <<journal, copies, manifest, call, lost, failures>>

\* What is left of a call when its process is lost.
CallLost ==
    /\ call' = Idle
    /\ lost' = lost \cup Unrecorded
    /\ UNCHANGED <<fg, journal, copies, manifest, edits, raced>>

PromotionStep ==
    \/ VerifyLease \/ Gate \/ Recheck \/ Open \/ Prepare \/ Apply \/ Record
    \/ VerifyForeground \/ Close \/ ApplyFails
    \/ Compare \/ Restore \/ Confirm \/ RollbackDone \/ RollbackFails \/ Settle

PromotionInit ==
    /\ fg = [p \in Paths |-> Base]
    /\ journal = [c \in Candidates |-> NoJournal]
    /\ copies = [c \in Candidates |-> NoCopies]
    /\ manifest = [c \in Candidates |-> "none"]
    /\ call = Idle /\ edits = 0 /\ lost = {} /\ raced = {}

\* The caller takes the result and may call again, in any order.
TakeResult ==
    /\ call.result # None /\ call' = Idle
    /\ UNCHANGED <<fg, journal, copies, manifest, edits, lost, raced, failures>>

PromotionNext ==
    \/ \E c \in Candidates : Promote(c) \/ Recover(c)
    \/ PromotionStep \/ TakeResult \/ UserEdit
    \/ Crash /\ CallLost

PromotionSpec ==
    PromotionInit /\ FailuresInit /\ [][PromotionNext]_<<promotion, failures>>

-----------------------------------------------------------------------------
(***************************************************************************)
(* What is checked                                                         *)
(***************************************************************************)
Calls == [at : CallStages, c : Candidates \cup {None}, next : 1..(PathCount + 1),
          applied : SUBSET Paths, recovering : BOOLEAN, result : Results \cup {None}]

\* Types; a call that is under way is about a candidate.
PromotionTypeOK ==
    /\ fg \in [Paths -> Contents]
    /\ journal \in [Candidates -> Journals]
    /\ copies \in [Candidates -> [Paths -> Contents \cup {None}]]
    /\ manifest \in [Candidates -> {"none", "open", "closed"}]
    /\ call \in Calls /\ (call.at # "idle" => call.c \in Candidates)
    /\ edits \in 0..MaxEdits /\ lost \subseteq Candidates \X Paths /\ raced \subseteq Paths

\* The foreground is never a mix of two candidates, whatever was rolled back,
\* discarded, recovered or left for the user in between.
OneCandidateInForeground ==
    \A p, q \in Paths : fg[p] \in Candidates /\ fg[q] \in Candidates => fg[p] = fg[q]

\* An attempt that rolled back, was discarded or never opened its journal has left
\* nothing of its candidate in the foreground, except a write whose applied event
\* was lost with the process or a failed append.
RolledBackIsRestored ==
    \A c \in Candidates, p \in Paths :
        journal[c].status \in {"none", "rolled_back"} /\ fg[p] = c => <<c, p>> \in lost

\* While an attempt can still be rolled back or needs the user's attention, what it
\* replaced can be restored: the copy is there, and it is the captured content
\* unless the user's edit came between the check and the copy.
CopiesOutliveNeed ==
    \A c \in Candidates, p \in Paths \ NewPaths :
        /\ journal[c].status \in {"open", "needs_attention"}
        /\ journal[c].last[p] = "applied"
        => copies[c][p] = Base \/ (copies[c][p] = Edit /\ p \in raced)

\* Neither apply, rollback nor recovery overwrites an edit of the user, except one
\* made between a comparison and the write it was for, or before the hash of that
\* write was taken.
EditsSurvive ==
    [][\A p \in Paths : fg[p] = Edit /\ fg'[p] # Edit => p \in raced]_<<promotion, failures>>

\* A receipt is never taken back, and its attempt writes no more to the foreground.
ReceiptIsFinal ==
    [][\A c \in Candidates : HasReceipt(c) =>
        /\ journal'[c] = journal[c]
        /\ \A p \in Paths : fg'[p] = c => fg[p] = c]_<<promotion, failures>>

=============================================================================
