------------------------- MODULE HarnessRun_proofs -------------------------
(***************************************************************************)
(* Theorems about HarnessRun for every number of items, runs, turns, tool  *)
(* calls, crashes and attempts and every setting, proved by TLAPS.         *)
(*                                                                         *)
(* The argument has one inductive invariant, IInv.  Its heart is that only *)
(* the driver moves the phase of op.state (DriverOwnsThePhase) and that a  *)
(* live effect pins the phase it was launched from (NoOrphanedEffect): the *)
(* two hold only together, because a settlement may rebuild its successor  *)
(* from the latest register exactly when no other writer moved the phase.  *)
(***************************************************************************)
EXTENDS HarnessRun, SequenceTheorems, TLAPS

-----------------------------------------------------------------------------
(***************************************************************************)
(* Lemmas about the operators                                              *)
(***************************************************************************)

\* Taking one item out of a queue leaves a queue (cancelQueued).
LEMMA RemoveAtType ==
    ASSUME NEW S, NEW s \in Seq(S), NEW n \in DOMAIN s
    PROVE  RemoveAt(s, n) \in Seq(S)
<1>1. n \in 1..Len(s) /\ Len(s) \in Nat
    BY LenProperties
<1>2. SubSeq(s, 1, n - 1) \in Seq(S)
    <2>1. \A i \in 1..(n - 1) : s[i] \in S
        BY <1>1, ElementOfSeq
    <2> QED BY <1>1, <2>1, SubSeqProperties
<1>3. SubSeq(s, n + 1, Len(s)) \in Seq(S)
    <2>1. \A i \in (n + 1)..Len(s) : s[i] \in S
        BY <1>1, ElementOfSeq
    <2> QED BY <1>1, <2>1, SubSeqProperties
<1> QED BY <1>2, <1>3, ConcatProperties DEF RemoveAt

\* What a drain leaves in a queue is a queue.
LEMMA RestType ==
    ASSUME NEW S, NEW s \in Seq(S), NEW n \in Nat
    PROVE  Rest(s, n) \in Seq(S)
<1>1. Len(s) \in Nat
    BY LenProperties
<1>2. \A i \in (n + 1)..Len(s) : s[i] \in S
    BY <1>1, ElementOfSeq
<1> QED BY <1>1, <1>2, SubSeqProperties DEF Rest

\* What a boundary selects from a queue is a queue.
LEMMA EligibleType ==
    ASSUME NEW S, NEW s \in Seq(S), NEW mode
    PROVE  Eligible(s, mode) \in Seq(S)
<1>1. CASE s = << >>
    BY <1>1 DEF Eligible
<1>2. CASE s # << >>
    <2>1. s[1] \in S
        BY <1>2, EmptySeq, ElementOfSeq
    <2> QED BY <2>1 DEF Eligible
<1> QED BY <1>1, <1>2

\* Items keep the queue they came through when they become entries.
LEMMA TagType ==
    ASSUME NEW s \in Seq(Ids), NEW via \in {"next", "idle", "writes", "steer", "follow"}
    PROVE  Tag(s, via) \in Seq(Entry)
<1>1. Len(s) \in Nat /\ DOMAIN s = 1..Len(s)
    BY LenProperties
<1>2. \A n \in 1..Len(s) : [id |-> s[n], via |-> via] \in Entry
    BY ElementOfSeq DEF Entry
<1>3. [n \in 1..Len(s) |-> [id |-> s[n], via |-> via]] \in Seq(Entry)
    BY <1>1, <1>2, IsASeq
<1> QED BY <1>1, <1>3 DEF Tag

\* A fresh operation and the absent one are operation states, told apart by k.
LEMMA NewRunType ==
    /\ NewRun \in OpState /\ NewRun.k = "need" /\ NewRun.ctl = "running"
    /\ NoOp \in OpState /\ NoOp.k = "none" /\ NoOp.ctl = "running"
    /\ NewRun.calls = << >> /\ NoOp.calls = << >>
<1>1. << >> \in Seq(Ids) /\ << >> \in Seq(CallStatus)
    BY EmptySeq
<1>2. NewRun \in OpState /\ NewRun.k = "need" /\ NewRun.ctl = "running" /\ NewRun.calls = << >>
    BY <1>1 DEF NewRun, OpState, Kinds
<1>3. NoOp \in OpState
    BY <1>2 DEF NoOp, OpState, Kinds
<1>4. NoOp.k = "none" /\ NoOp.ctl = "running" /\ NoOp.calls = << >>
    BY DEF NoOp, NewRun
<1> QED BY <1>2, <1>3, <1>4

\* The driver of a lane nobody drives is a well-formed view.
LEMMA NoDriverType == NoDriver \in DriverState /\ ~NoDriver.on
BY NewRunType, EmptySeq DEF NoDriver, DriverState

\* A drive starts from a well-formed view.
LEMMA StartedType ==
    ASSUME NEW sel \in {"settled", "post_turn"}, NEW o \in OpState, NEW nr \in Seq(Ids)
    PROVE  /\ Started(sel, o, nr) \in DriverState
           /\ Started(sel, o, nr).on /\ Started(sel, o, nr).snap = o
           /\ Started(sel, o, nr).pc = "plan"
BY EmptySeq DEF Started, NoDriver, DriverState

\* Taking over a state ends the drive or plans from exactly that state.
LEMMA AdoptedType ==
    ASSUME NEW d \in DriverState, NEW o \in OpState, nextRun \in Seq(Ids),
           NEW hydrated \in BOOLEAN, NEW e \in Adopted(d, o, hydrated)
    PROVE  /\ e \in DriverState
           /\ \/ e = NoDriver /\ o.k \in {"deferred", "ready"}
              \/ e.on = d.on /\ e.snap = o /\ e.pc = "plan" /\ e.sel = d.sel
<1> DEFINE kept == [d EXCEPT !.pc = "plan", !.snap = o, !.nr = nextRun,
                    !.hyd = hydrated, !.todo = {},
                    !.hooked = d.hooked /\ o.k = "may"]
<1>1. (d.hooked /\ o.k = "may") \in BOOLEAN
    OBVIOUS
<1>2. kept \in DriverState /\ kept.on = d.on /\ kept.snap = o /\ kept.pc = "plan"
      /\ kept.sel = d.sel
    BY <1>1 DEF DriverState
<1>3. e = kept \/ (e = NoDriver /\ o.k \in {"deferred", "ready"})
    BY DEF Adopted
<1> QED BY <1>2, <1>3, NoDriverType

-----------------------------------------------------------------------------
(***************************************************************************)
(* The inductive invariant                                                 *)
(***************************************************************************)
\* An idle lane has neither an operation nor a driver, an open one is the run
\* after the last one closed, and a preparation walks calls of the batch.
Shape ==
    /\ current = 0 => op = NoOp /\ ~drv.on
    /\ current # 0 => op.k # "none" /\ current = last.run + 1
    /\ Len(op.calls) <= MaxCalls
    /\ drv.on /\ drv.pc = "prep" =>
            op.k = "tools" /\ drv.todo \subseteq DOMAIN op.calls

IInv == TypeOK /\ Shape /\ DriverOwnsThePhase /\ NoOrphanedEffect

\* Every status of a call is one of CallStatus, and every index of the batch one
\* of Indices.
LEMMA CallsType ==
    ASSUME NEW o \in OpState, Len(o.calls) <= MaxCalls
    PROVE  /\ DOMAIN o.calls \subseteq Indices
           /\ DOMAIN o.calls = 1..Len(o.calls) /\ Len(o.calls) \in Nat
           /\ \A i \in DOMAIN o.calls : o.calls[i] \in CallStatus
           /\ \A i \in DOMAIN o.calls : \A c \in CallStatus :
                /\ [o EXCEPT !.calls[i] = c] \in OpState
                /\ [o EXCEPT !.calls[i] = c].calls = [o.calls EXCEPT ![i] = c]
                /\ Len([o.calls EXCEPT ![i] = c]) = Len(o.calls)
<1>1. o.calls \in Seq(CallStatus)
    BY DEF OpState
<1>2. DOMAIN o.calls = 1..Len(o.calls) /\ Len(o.calls) \in Nat
    BY <1>1, LenProperties
<1>3. DOMAIN o.calls \subseteq Indices
    BY <1>2, BoundsAssumption DEF Indices
<1>4. \A i \in DOMAIN o.calls : o.calls[i] \in CallStatus
    BY <1>1, <1>2, ElementOfSeq
<1>5. ASSUME NEW i \in DOMAIN o.calls, NEW c \in CallStatus
      PROVE  /\ [o EXCEPT !.calls[i] = c] \in OpState
             /\ [o EXCEPT !.calls[i] = c].calls = [o.calls EXCEPT ![i] = c]
             /\ Len([o.calls EXCEPT ![i] = c]) = Len(o.calls)
    <2>1. [o.calls EXCEPT ![i] = c] \in Seq(CallStatus)
          /\ Len([o.calls EXCEPT ![i] = c]) = Len(o.calls)
        BY <1>1, <1>2, ExceptSeq
    <2> QED BY <2>1 DEF OpState
<1> QED BY <1>2, <1>3, <1>4, <1>5

\* What every driver step that adopts a state does to the driver.
LEMMA FollowType ==
    ASSUME TypeOK, NEW o \in OpState, Follow(o)
    PROVE  /\ drv' \in DriverState
           /\ \/ drv' = NoDriver /\ o.k \in {"deferred", "ready"}
              \/ drv'.on = drv.on /\ drv'.snap = o /\ drv'.pc = "plan"
<1>1. nextRun \in Seq(Ids) /\ drv \in DriverState
    BY DEF TypeOK, LaneType
<1> DEFINE h == drv.hyd /\ Queued(o) \subseteq Queued(drv.snap)
<1>2. h \in BOOLEAN
    OBVIOUS
<1>3. drv' \in Adopted(drv, o, h)
    BY DEF Follow
<1> HIDE DEF h
<1> QED BY <1>1, <1>2, <1>3, AdoptedType

\* A replan ends the drive or plans from the current register.
LEMMA RestoredType ==
    ASSUME TypeOK, NEW d \in Restored(drv)
    PROVE  /\ d \in DriverState
           /\ \/ d = NoDriver /\ op.k \in {"deferred", "ready", "tools"}
              \/ d.on = drv.on /\ d.snap = op /\ d.pc = "plan"
<1>1. nextRun \in Seq(Ids) /\ drv \in DriverState /\ op \in OpState
    BY DEF TypeOK, LaneType
<1>2. CASE Unrestorable
    BY <1>2, NoDriverType DEF Restored, Unrestorable
<1>3. CASE ~Unrestorable
    <2> DEFINE h == TRUE
    <2>1. h \in BOOLEAN /\ d \in Adopted(drv, op, h)
        BY <1>3 DEF Restored
    <2> HIDE DEF h
    <2> QED BY <1>1, <2>1, AdoptedType
<1> QED BY <1>2, <1>3

\* A step of the driver leaves it gone, or planning or preparing from op'.
LEMMA DriverCommit ==
    ASSUME drv' \in DriverState, op' \in OpState, current' # 0,
           current' = last'.run + 1, op'.k # "none", Len(op'.calls) <= MaxCalls,
           \/ drv' = NoDriver
           \/ /\ drv'.snap = op'
              /\ drv'.pc = "prep" => op'.k = "tools" /\ drv'.todo \subseteq DOMAIN op'.calls
    PROVE  Shape' /\ DriverOwnsThePhase'
<1>1. drv' = NoDriver => ~drv'.on
    BY NoDriverType
<1> QED BY <1>1 DEF Shape, DriverOwnsThePhase

SamePhase(o, p) ==
    /\ p.k = o.k /\ p.skip = o.skip /\ p.turn = o.turn
    /\ p.attempt = o.attempt /\ p.calls = o.calls /\ p.auth = o.auth
    /\ Cancelled(o) => Cancelled(p)

\* A writer that leaves the phase and the driver alone preserves their relation.
LEMMA PhaseKept ==
    ASSUME IInv, current' = current, last' = last, drv' = drv, gen' = gen, tool' = tool,
           current # 0, SamePhase(op, op')
    PROVE  Shape' /\ DriverOwnsThePhase' /\ NoOrphanedEffect'
<1>1. Shape' /\ DriverOwnsThePhase'
    BY DEF IInv, Shape, DriverOwnsThePhase, SamePhase
<1>2. NoOrphanedEffect'
    BY DEF IInv, NoOrphanedEffect, SamePhase
<1> QED BY <1>1, <1>2

\* A fresh lane, idle and undriven, satisfies the inductive invariant.
THEOREM Initial == Init => IInv
<1> SUFFICES ASSUME Init PROVE IInv
    OBVIOUS
<1> USE BoundsAssumption DEF Init
<1>1. LaneType
    BY NewRunType, EmptySeq DEF LaneType
<1>2. InputType
    <2>1. placed \in Seq(Entry)
        BY EmptySeq
    <2> QED BY <2>1 DEF InputType
<1>3. BatchType
    BY EmptySeq DEF BatchType
<1>4. TurnType
    BY DEF TurnType
<1>5. TypeOK
    BY <1>1, <1>2, <1>3, <1>4, NoDriverType DEF TypeOK
<1>6. Shape
    BY NewRunType, NoDriverType, EmptySeq DEF Shape
<1>7. DriverOwnsThePhase /\ NoOrphanedEffect
    BY NoDriverType DEF DriverOwnsThePhase, NoOrphanedEffect
<1> QED BY <1>5, <1>6, <1>7 DEF IInv

-----------------------------------------------------------------------------
(***************************************************************************)
(* Callers                                                                 *)
(***************************************************************************)
\* What an admission does to the ids.
LEMMA AdmitType ==
    ASSUME InputType, NEW S \in {{}, {FreshId}}, Admit(S)
    PROVE  FreshId \in Ids /\ admitted' \in 0..MaxItems /\ pend' \subseteq Ids
<1>1. FreshId \in Ids /\ admitted' \in 0..MaxItems
    BY BoundsAssumption DEF InputType, Admit, FreshId, Ids
<1>2. S \subseteq Ids
    BY <1>1
<1> QED BY <1>1, <1>2 DEF InputType, Admit

\* No caller disturbs the invariant: acceptance, queues, withdrawals and abort
\* write around the driver without moving the phase it planned from.
LEMMA CallerStep == IInv /\ Caller => IInv'
<1> SUFFICES ASSUME IInv, Caller PROVE IInv'
    OBVIOUS
<1>0. /\ TypeOK /\ LaneType /\ InputType /\ BatchType /\ TurnType /\ Shape
      /\ drv \in DriverState /\ op \in OpState /\ nextRun \in Seq(Ids)
    BY DEF IInv, TypeOK, LaneType
<1>1. ASSUME NEW sel \in Selectors, NEW a \in AdaptiveRuns, Accept(sel, a)
      PROVE  IInv'
  <2>1. sel \in {"settled", "post_turn"} /\ a \in BOOLEAN
    BY SettingsAssumption
  <2>2. op' \in OpState /\ op'.k = "need" /\ op'.calls = << >> /\ op' # NoOp
    BY <1>1, <2>1, NewRunType DEF Accept, OpState
  <2>3. drv' \in DriverState /\ drv'.on /\ drv'.snap = op' /\ drv'.pc = "plan"
    <3>1. << >> \in Seq(Ids) /\ drv' = Started(sel, op', << >>)
        BY <1>1, EmptySeq DEF Accept
    <3> QED BY <2>1, <2>2, <3>1, StartedType
  <2>4. LaneType'
    BY <1>0, <1>1, <2>2, EmptySeq, BoundsAssumption DEF Accept, LaneType
  <2>5. InputType'
    <3>1. Tag(nextRun, "next") \in Seq(Entry)
        BY <1>0, TagType
    <3> QED BY <1>0, <1>1, <3>1, ConcatProperties DEF Accept, InputType
  <2>6. TypeOK'
    BY <1>0, <1>1, <2>3, <2>4, <2>5
       DEF Accept, TypeOK, BatchType, TurnType, batchVars, turnVars
  <2>7. Shape' /\ DriverOwnsThePhase'
    <3>1. current' # 0 /\ current' = last'.run + 1 /\ Len(op'.calls) <= MaxCalls
        BY <1>0, <1>1, <2>2, EmptySeq, BoundsAssumption DEF Accept, LaneType
    <3> QED BY <2>2, <2>3, <3>1, DriverCommit
  <2>8. NoOrphanedEffect'
    BY <1>0, <1>1, <2>2, NewRunType
       DEF IInv, Accept, Shape, NoOrphanedEffect, batchVars, turnVars
  <2> QED BY <2>6, <2>7, <2>8 DEF IInv
<1>2. ASSUME AcceptContinuation PROVE IInv'
  <2>1. op' \in OpState /\ op'.k = "need" /\ op'.calls = << >> /\ op' # NoOp
    BY <1>2, NewRunType DEF AcceptContinuation, OpState
  <2>2. LaneType'
    BY <1>0, <1>2, <2>1, BoundsAssumption DEF AcceptContinuation, LaneType
  <2>3. TypeOK'
    BY <1>0, <1>2, <2>2
       DEF AcceptContinuation, TypeOK, InputType, BatchType, TurnType,
           inputVars, batchVars, turnVars
  <2>4. Shape' /\ DriverOwnsThePhase'
    BY <1>0, <1>2, <2>1, EmptySeq, BoundsAssumption
       DEF AcceptContinuation, LaneType, Shape, DriverOwnsThePhase
  <2>5. NoOrphanedEffect'
    BY <1>0, <1>2, <2>1, NewRunType
       DEF IInv, AcceptContinuation, Shape, NoOrphanedEffect, batchVars, turnVars
  <2> QED BY <2>3, <2>4, <2>5 DEF IInv
<1>3. ASSUME NEW sel \in Selectors, Resume(sel) PROVE IInv'
  <2>1. sel \in {"settled", "post_turn"}
    BY SettingsAssumption
  <2>2. Started(sel, op, nextRun) \in DriverState /\ Started(sel, op, nextRun).on
    BY <1>0, <2>1, StartedType
  <2>3. drv' \in DriverState /\ drv'.on /\ drv'.snap = op /\ drv'.pc = "plan"
    <3> DEFINE h == TRUE
    <3>1. h \in BOOLEAN /\ drv' \in Adopted(Started(sel, op, nextRun), op, h) /\ drv'.on
        BY <1>3 DEF Resume
    <3> HIDE DEF h
    <3> QED BY <1>0, <2>2, <3>1, AdoptedType, NoDriverType
  <2>4. TypeOK'
    BY <1>0, <1>3, <2>3
       DEF Resume, TypeOK, LaneType, InputType, BatchType, TurnType,
           laneVars, inputVars, batchVars, turnVars
  <2>5. Shape' /\ DriverOwnsThePhase'
    <3>1. op' = op /\ current' # 0 /\ current' = last'.run + 1 /\ op'.k # "none"
          /\ Len(op'.calls) <= MaxCalls
        BY <1>0, <1>3 DEF Resume, Shape, laneVars
    <3> QED BY <1>0, <2>3, <3>1, DriverCommit
  <2>6. NoOrphanedEffect'
    BY <1>3, <2>3 DEF IInv, Resume, NoOrphanedEffect, batchVars, turnVars
  <2> QED BY <2>4, <2>5, <2>6 DEF IInv
<1>4. ASSUME NextRun PROVE IInv'
  <2>1. FreshId \in Ids /\ admitted' \in 0..MaxItems /\ pend' \subseteq Ids
    BY <1>0, <1>4, AdmitType DEF NextRun
  <2>2. nextRun' \in Seq(Ids)
    BY <1>0, <1>4, <2>1, AppendProperties DEF NextRun
  <2>3. TypeOK'
    BY <1>0, <1>4, <2>1, <2>2
       DEF NextRun, TypeOK, LaneType, InputType, BatchType, TurnType, batchVars, turnVars
  <2>4. Shape' /\ DriverOwnsThePhase' /\ NoOrphanedEffect'
    BY <1>4 DEF IInv, NextRun, Shape, DriverOwnsThePhase, NoOrphanedEffect, batchVars, turnVars
  <2> QED BY <2>3, <2>4 DEF IInv
<1>5. ASSUME AppendPlaced PROVE IInv'
  <2>1. FreshId \in Ids /\ admitted' \in 0..MaxItems /\ pend' \subseteq Ids
    BY <1>0, <1>5, AdmitType DEF AppendPlaced
  <2>2. placed' \in Seq(Entry)
    <3>1. [id |-> FreshId, via |-> "idle"] \in Entry
        BY <2>1 DEF Entry
    <3> QED BY <1>0, <1>5, <3>1, AppendProperties DEF AppendPlaced, InputType
  <2>3. TypeOK'
    BY <1>0, <1>5, <2>1, <2>2
       DEF AppendPlaced, TypeOK, LaneType, InputType, BatchType, TurnType,
           laneVars, batchVars, turnVars
  <2>4. Shape' /\ DriverOwnsThePhase' /\ NoOrphanedEffect'
    BY <1>5 DEF IInv, AppendPlaced, Shape, DriverOwnsThePhase, NoOrphanedEffect,
                laneVars, batchVars, turnVars
  <2> QED BY <2>3, <2>4 DEF IInv
<1>6. ASSUME NEW queue \in {"steer", "follow"}, Enqueue(queue) PROVE IInv'
  <2>1. FreshId \in Ids /\ admitted' \in 0..MaxItems /\ pend' \subseteq Ids
    BY <1>0, <1>6, AdmitType DEF Enqueue
  <2>2. op' \in OpState /\ SamePhase(op, op')
    <3>1. Append(op[queue], FreshId) \in Seq(Ids)
        BY <1>0, <2>1, AppendProperties DEF OpState
    <3>2. op' = [op EXCEPT ![queue] = Append(op[queue], FreshId)]
        BY <1>6 DEF Enqueue
    <3> QED BY <1>0, <3>1, <3>2 DEF OpState, SamePhase, Cancelled
  <2>3. current # 0 /\ op'.k # "none" /\ op' # NoOp
    BY <1>0, <1>6, <2>2, NewRunType DEF Enqueue, Shape, SamePhase
  <2>4. TypeOK'
    BY <1>0, <1>6, <2>1, <2>2, <2>3
       DEF Enqueue, TypeOK, LaneType, InputType, BatchType, TurnType,
           laneVars, batchVars, turnVars
  <2>5. Shape' /\ DriverOwnsThePhase' /\ NoOrphanedEffect'
    BY <1>6, <2>2, <2>3, PhaseKept DEF Enqueue, laneVars, batchVars, turnVars
  <2> QED BY <2>4, <2>5 DEF IInv
<1>7. ASSUME NEW isNote \in BOOLEAN, AppendDeferred(isNote) PROVE IInv'
  <2>1. FreshId \in Ids /\ admitted' \in 0..MaxItems /\ pend' \subseteq Ids
    BY <1>0, <1>7, AdmitType DEF AppendDeferred
  <2>2. op' \in OpState /\ SamePhase(op, op')
    <3>1. Append(op.writes, FreshId) \in Seq(Ids)
        BY <1>0, <2>1, AppendProperties DEF OpState
    <3>2. op' = [op EXCEPT !.writes = Append(op.writes, FreshId)]
        BY <1>7 DEF AppendDeferred
    <3> QED BY <1>0, <3>1, <3>2 DEF OpState, SamePhase, Cancelled
  <2>3. current # 0 /\ op'.k # "none" /\ op' # NoOp
    BY <1>0, <1>7, <2>2, NewRunType DEF AppendDeferred, Shape, SamePhase
  <2>4. notes' \subseteq Ids
    BY <1>0, <1>7, <2>1 DEF AppendDeferred, InputType
  <2>5. TypeOK'
    BY <1>0, <1>7, <2>1, <2>2, <2>3, <2>4
       DEF AppendDeferred, TypeOK, LaneType, InputType, BatchType, TurnType,
           laneVars, batchVars, turnVars
  <2>6. Shape' /\ DriverOwnsThePhase' /\ NoOrphanedEffect'
    BY <1>7, <2>2, <2>3, PhaseKept DEF AppendDeferred, laneVars, batchVars, turnVars
  <2> QED BY <2>5, <2>6 DEF IInv
<1>8. ASSUME CancelQueued PROVE IInv'
  <2>1. CASE \E n \in DOMAIN nextRun : /\ nextRun' = RemoveAt(nextRun, n)
                                       /\ Withdraw(nextRun[n])
                                       /\ UNCHANGED op
    <3>1. PICK n \in DOMAIN nextRun : /\ nextRun' = RemoveAt(nextRun, n)
                                      /\ Withdraw(nextRun[n])
                                      /\ UNCHANGED op
        BY <2>1
    <3>2. nextRun' \in Seq(Ids) /\ nextRun[n] \in Ids
        BY <1>0, <3>1, RemoveAtType, ElementOfSeq, LenProperties
    <3>3. TypeOK'
        BY <1>0, <3>1, <3>2
           DEF Withdraw, TypeOK, LaneType, InputType, BatchType, TurnType, batchVars, turnVars
    <3>4. Shape' /\ DriverOwnsThePhase' /\ NoOrphanedEffect'
        BY <3>1 DEF IInv, Withdraw, Shape, DriverOwnsThePhase, NoOrphanedEffect,
                    batchVars, turnVars
    <3> QED BY <3>3, <3>4 DEF IInv
  <2>2. CASE \E q \in Queues : \E n \in DOMAIN op[q] :
                /\ op' = [op EXCEPT ![q] = RemoveAt(@, n)]
                /\ Withdraw(op[q][n])
                /\ UNCHANGED nextRun
    <3>1. PICK q \in Queues : \E n \in DOMAIN op[q] :
                /\ op' = [op EXCEPT ![q] = RemoveAt(op[q], n)]
                /\ Withdraw(op[q][n])
                /\ UNCHANGED nextRun
        BY <2>2
    <3>2. PICK n \in DOMAIN op[q] :
                /\ op' = [op EXCEPT ![q] = RemoveAt(op[q], n)]
                /\ Withdraw(op[q][n])
                /\ UNCHANGED nextRun
        BY <3>1
    <3>3. op[q] \in Seq(Ids)
        BY <1>0 DEF OpState, Queues
    <3>4. RemoveAt(op[q], n) \in Seq(Ids) /\ op[q][n] \in Ids
        BY <3>3, RemoveAtType, ElementOfSeq, LenProperties
    <3>5. op' \in OpState /\ SamePhase(op, op')
        BY <1>0, <3>2, <3>4 DEF OpState, SamePhase, Cancelled, Queues
    <3>6. current # 0
        <4>1. NoOp[q] = << >>
            <5>1. /\ NoOp["steer"] = << >> /\ NoOp["follow"] = << >>
                  /\ NoOp["writes"] = << >>
                  /\ NoOp["dSteer"] = << >> /\ NoOp["dFollow"] = << >>
                BY DEF NoOp, NewRun
            <5> QED BY <5>1 DEF Queues
        <4>2. DOMAIN NoOp[q] = {}
            BY <4>1
        <4> QED BY <1>0, <4>2 DEF Shape
    <3>7. op'.k # "none" /\ op' # NoOp
        BY <1>0, <3>5, <3>6, NewRunType DEF Shape, SamePhase
    <3>8. TypeOK'
        BY <1>0, <3>2, <3>4, <3>5, <3>6, <3>7
           DEF Withdraw, TypeOK, LaneType, InputType, BatchType, TurnType, batchVars, turnVars
    <3>9. Shape' /\ DriverOwnsThePhase' /\ NoOrphanedEffect'
        BY <3>2, <3>5, <3>6, PhaseKept DEF Withdraw, batchVars, turnVars
    <3> QED BY <3>8, <3>9 DEF IInv
  <2> QED BY <1>8, <2>1, <2>2 DEF CancelQueued
<1>9. ASSUME Abort PROVE IInv'
  <2>1. op' \in OpState /\ SamePhase(op, op')
    BY <1>0, <1>9, EmptySeq DEF Abort, CancelMarked, OpState, SamePhase, Cancelled
  <2>2. current # 0 /\ op'.k # "none" /\ op' # NoOp
    BY <1>0, <1>9, <2>1, NewRunType DEF Abort, Abortable, Shape, SamePhase
  <2>3. drv' = drv \/ /\ ~drv.on
                      /\ drv'.on /\ drv'.snap = op' /\ drv'.pc = "plan" /\ drv' \in DriverState
    BY <1>0, <1>9, <2>1, StartedType DEF Abort, RecoveryDrive
  <2>4. TypeOK'
    BY <1>0, <1>9, <2>1, <2>2, <2>3
       DEF Abort, TypeOK, LaneType, InputType, BatchType, TurnType,
           laneVars, inputVars, batchVars, turnVars
  <2>5. Shape' /\ DriverOwnsThePhase' /\ NoOrphanedEffect'
    <3>1. CASE drv' = drv
        BY <1>9, <2>1, <2>2, <3>1, PhaseKept DEF Abort, laneVars, batchVars, turnVars
    <3>2. CASE ~drv.on /\ drv'.on /\ drv'.snap = op' /\ drv'.pc = "plan" /\ drv' \in DriverState
        <4>1. Shape' /\ DriverOwnsThePhase'
            <5>1. current' # 0 /\ current' = last'.run + 1 /\ Len(op'.calls) <= MaxCalls
                BY <1>0, <1>9, <2>1, <2>2 DEF Abort, Shape, SamePhase, laneVars
            <5> QED BY <2>1, <2>2, <3>2, <5>1, DriverCommit
        <4>2. NoOrphanedEffect'
            BY <1>9, <2>1, <3>2
               DEF IInv, Abort, NoOrphanedEffect, SamePhase, batchVars, turnVars
        <4> QED BY <4>1, <4>2
    <3> QED BY <2>3, <3>1, <3>2
  <2> QED BY <2>4, <2>5 DEF IInv
<1> QED BY <1>1, <1>2, <1>3, <1>4, <1>5, <1>6, <1>7, <1>8, <1>9 DEF Caller

-----------------------------------------------------------------------------
(***************************************************************************)
(* The driver's commits                                                    *)
(***************************************************************************)
Idle(t) == \A i \in Indices : t[i] = "none"

\* What a commit of the driver owes the invariant: a well-formed successor, a
\* driver that left or plans from it, and no effect outside the phase it pins.
LEMMA CommitStep ==
    ASSUME IInv, current # 0, UNCHANGED laneVars, cd' \in {"none", "live", "done"},
           UNCHANGED crashes, InputType', BatchType', TurnType',
           op' \in OpState, op'.k # "none", Len(op'.calls) <= MaxCalls,
           drv' \in DriverState,
           \/ drv' = NoDriver /\ op'.k # "pending"
           \/ /\ drv'.on /\ drv'.snap = op'
              /\ drv'.pc = "prep" => op'.k = "tools" /\ drv'.todo \subseteq DOMAIN op'.calls,
           gen' # "none" => op'.k = "pending",
           \A i \in Indices : tool'[i] # "none" =>
                /\ op'.k = "tools" /\ i \in DOMAIN op'.calls
                /\ op'.calls[i] \in PendingCall
    PROVE  IInv'
<1>1. op' # NoOp
    BY NewRunType
<1>2. LaneType' /\ TypeOK'
    BY <1>1 DEF IInv, TypeOK, LaneType, laneVars
<1>3. Shape' /\ DriverOwnsThePhase'
    <2>1. current' # 0 /\ current' = last'.run + 1
        BY DEF IInv, Shape, laneVars
    <2> QED BY <2>1, DriverCommit
<1>4. NoOrphanedEffect'
    BY DEF NoOrphanedEffect
<1> QED BY <1>2, <1>3, <1>4 DEF IInv

\* A commit of the driver that touches neither effects nor batch.
LEMMA PlainCommit ==
    ASSUME IInv, drv.on, UNCHANGED <<laneVars, batchVars, gen, asked, due, cd, crashes>>,
           turnOpen' \in BOOLEAN, InputType',
           op' \in OpState, op'.k # "none", Len(op'.calls) <= MaxCalls,
           \/ Follow(op')
           \/ drv' = NoDriver /\ op'.k # "pending"
           \/ drv' \in DriverState /\ drv'.on /\ drv'.snap = op' /\ drv'.pc = "plan",
           gen = "none", Idle(tool)
    PROVE  IInv'
<1>1. BatchType' /\ TurnType' /\ tool' = tool /\ gen' = gen /\ current # 0
    BY DEF IInv, TypeOK, BatchType, TurnType, Shape, batchVars
<1>2. /\ drv' \in DriverState
      /\ \/ drv' = NoDriver /\ op'.k # "pending"
         \/ drv'.on /\ drv'.snap = op' /\ drv'.pc = "plan"
    <2>1. CASE Follow(op')
        BY <2>1, FollowType DEF IInv
    <2>2. CASE drv' = NoDriver /\ op'.k # "pending"
        BY <2>2, NoDriverType
    <2>3. CASE drv' \in DriverState /\ drv'.on /\ drv'.snap = op' /\ drv'.pc = "plan"
        BY <2>3
    <2> QED BY <2>1, <2>2, <2>3
<1>3. cd' \in {"none", "live", "done"}
    BY DEF IInv, TypeOK
<1> QED BY <1>1, <1>2, <1>3, CommitStep DEF Idle

\* Replanning keeps the invariant whatever is running.
LEMMA ReplanStep == ASSUME IInv, drv.on, Replan PROVE IInv'
<1>1. /\ drv' \in DriverState
      /\ \/ drv' = NoDriver /\ op.k \in {"deferred", "ready", "tools"}
         \/ drv'.on = drv.on /\ drv'.snap = op /\ drv'.pc = "plan"
    BY RestoredType DEF Replan, IInv
<1>2. op' = op /\ tool' = tool /\ gen' = gen /\ current # 0
    BY DEF Replan, batchVars, turnVars, IInv, Shape
<1>3. InputType' /\ BatchType' /\ TurnType' /\ cd' \in {"none", "live", "done"}
    BY DEF Replan, IInv, TypeOK, InputType, BatchType, TurnType,
           inputVars, batchVars, turnVars
<1>4. op' \in OpState /\ op'.k # "none" /\ Len(op'.calls) <= MaxCalls
    BY <1>2 DEF IInv, TypeOK, LaneType, Shape
<1>5. /\ gen' # "none" => op'.k = "pending"
      /\ \A i \in Indices : tool'[i] # "none" =>
            /\ op'.k = "tools" /\ i \in DOMAIN op'.calls
            /\ op'.calls[i] \in PendingCall
    BY <1>2 DEF IInv, NoOrphanedEffect
<1>6. UNCHANGED laneVars /\ UNCHANGED crashes
    BY DEF Replan
<1> QED BY <1>1, <1>2, <1>3, <1>4, <1>5, <1>6, CommitStep

\* Closing the lane where nothing is running: every id the operation still
\* queues is discarded and the operation's registers are gone.
LEMMA TerminalStep ==
    ASSUME IInv, drv.on, NEW outcome \in Outcomes, NEW open \in BOOLEAN,
           Terminal(outcome, open), gen = "none", Idle(tool)
    PROVE  IInv'
<1>1. CASE Superseded
  <2>1. drv' \in Restored(drv) /\ op' = op /\ turnOpen' = open
        /\ UNCHANGED <<laneVars, inputVars, batchVars, gen, asked, due, cd, crashes>>
    BY <1>1 DEF Terminal
  <2>2. /\ drv' \in DriverState
        /\ \/ drv' = NoDriver /\ op.k \in {"deferred", "ready", "tools"}
           \/ drv'.on = drv.on /\ drv'.snap = op /\ drv'.pc = "plan"
    BY <2>1, RestoredType DEF IInv
  <2>3. InputType' /\ BatchType' /\ TurnType' /\ cd' \in {"none", "live", "done"}
    BY <2>1 DEF IInv, TypeOK, InputType, BatchType, TurnType, inputVars, batchVars
  <2>4. op' \in OpState /\ op'.k # "none" /\ Len(op'.calls) <= MaxCalls /\ current # 0
    BY <2>1 DEF IInv, TypeOK, LaneType, Shape
  <2>5. gen' = "none" /\ Idle(tool')
    BY <2>1 DEF Idle, batchVars
  <2> QED BY <2>1, <2>2, <2>3, <2>4, <2>5, CommitStep DEF Idle
<1>2. CASE ~Superseded
  <2>1. /\ current' = 0 /\ last' = [run |-> current, outcome |-> outcome]
        /\ op' = NoOp /\ drv' = NoDriver /\ args' = {} /\ turnOpen' = open
        /\ pend' = pend \ Queued(op) /\ nextRun' = nextRun
        /\ UNCHANGED <<admitted, notes, placed, withdrawn, tool, ran, results,
                       gen, asked, due, cd, crashes>>
    BY <1>2 DEF Terminal
  <2>2. dropped' \subseteq Discard
    <3>1. \A q \in Queues : Range(op[q]) \subseteq Ids
        <4>1. \A q \in Queues : op[q] \in Seq(Ids)
            BY DEF IInv, TypeOK, LaneType, OpState, Queues
        <4> QED BY <4>1, RangeOfSeq
    <3>2. op.k \in Kinds
        BY DEF IInv, TypeOK, LaneType, OpState
    <3>3. \A q \in Queues : \A i \in Range(op[q]) :
            [id |-> i, queue |-> q, outcome |-> outcome, k |-> op.k] \in Discard
        BY <3>1, <3>2 DEF Discard
    <3>4. dropped' = dropped \cup
            UNION {{[id |-> i, queue |-> q, outcome |-> outcome, k |-> op.k] :
                        i \in Range(op[q])} : q \in Queues}
        BY <1>2 DEF Terminal
    <3> QED BY <3>3, <3>4 DEF IInv, TypeOK, InputType
  <2>3. LaneType'
    BY <2>1, NewRunType, BoundsAssumption DEF IInv, TypeOK, LaneType
  <2>4. InputType' /\ BatchType' /\ TurnType'
    BY <2>1, <2>2 DEF IInv, TypeOK, InputType, BatchType, TurnType
  <2>5. TypeOK'
    BY <2>1, <2>3, <2>4, NoDriverType DEF IInv, TypeOK
  <2>6. Shape' /\ DriverOwnsThePhase' /\ NoOrphanedEffect'
    BY <2>1, NoDriverType, NewRunType, EmptySeq, BoundsAssumption
       DEF Shape, DriverOwnsThePhase, NoOrphanedEffect, Idle
  <2> QED BY <2>5, <2>6 DEF IInv
<1> QED BY <1>1, <1>2

\* What a planning driver may rely on: its snapshot has the phase of op.state,
\* and no effect runs outside the phase that awaits it.
LEMMA Seen ==
    ASSUME IInv, Planning
    PROVE  /\ drv.on /\ current # 0 /\ op \in OpState /\ drv \in DriverState
           /\ SamePhase(drv.snap, op) /\ op.k = drv.snap.k /\ op.calls = drv.snap.calls
           /\ op.k # "none" /\ Len(op.calls) <= MaxCalls
           /\ op.k # "pending" => gen = "none"
           /\ op.k # "tools" => Idle(tool)
           /\ AllDone(drv.snap) => Idle(tool)
<1>1. drv.on /\ current # 0 /\ op \in OpState /\ drv \in DriverState
    BY DEF IInv, Planning, Shape, TypeOK, LaneType
<1>2. SamePhase(drv.snap, op) /\ op.k = drv.snap.k /\ op.calls = drv.snap.calls
    BY <1>1 DEF IInv, DriverOwnsThePhase, SamePhase
<1>3. op.k # "none" /\ Len(op.calls) <= MaxCalls
    BY <1>1 DEF IInv, Shape
<1>4. (op.k # "pending" => gen = "none") /\ (op.k # "tools" => Idle(tool))
    BY DEF IInv, NoOrphanedEffect, Idle
<1>5. AllDone(drv.snap) => Idle(tool)
    BY <1>2 DEF IInv, NoOrphanedEffect, Idle, AllDone, PendingCall, DoneCall
<1> QED BY <1>1, <1>2, <1>3, <1>4, <1>5

\* Waiting for a hook or a timer, and waking up, changes what the driver does
\* next and nothing it knows.
LEMMA PcStep ==
    ASSUME IInv, drv.on, NEW pc \in {"plan", "hook", "sleep"},
           drv' = [drv EXCEPT !.pc = pc],
           UNCHANGED <<laneVars, op, inputVars, batchVars, turnVars, cd, crashes>>
    PROVE  IInv'
<1>1. drv \in DriverState
    BY DEF IInv, TypeOK
<1>2. drv' \in DriverState /\ drv'.on /\ drv'.pc # "prep" /\ drv'.snap = drv.snap
    BY <1>1 DEF DriverState
<1>3. TypeOK'
    BY <1>2 DEF IInv, TypeOK, LaneType, InputType, BatchType, TurnType,
                laneVars, inputVars, batchVars, turnVars
<1>4. Shape' /\ DriverOwnsThePhase' /\ NoOrphanedEffect'
    BY <1>2 DEF IInv, Shape, DriverOwnsThePhase, NoOrphanedEffect,
                laneVars, batchVars, turnVars
<1> QED BY <1>3, <1>4 DEF IInv

\* Nor does a checkpoint: drains, the before_run_end hook and terminal commits.
LEMMA CheckpointStep ==
    IInv /\ (Hydrate \/ Drain \/ (\E extend \in BOOLEAN : HookSettle(extend)) \/ HookStart
             \/ FinishCompleted \/ FinishFailed \/ FinishAborted) => IInv'
<1>1. ASSUME IInv, Hydrate PROVE IInv'
    BY <1>1, ReplanStep DEF Hydrate
<1>2. ASSUME IInv, Drain PROVE IInv'
  <2>1. drv.on /\ Planning /\ DrainDue(drv.snap)
    BY <1>2 DEF Drain, Planning
  <2> DEFINE p == DrainPlan(drv.snap)
  <2>2. CASE ~StillFits(p)
    BY <1>2, <2>1, <2>2, ReplanStep DEF Drain
  <2>3. CASE StillFits(p)
    <3> DEFINE next == [op EXCEPT !.writes = Rest(@, Len(p.writes)),
                            !.steer  = Rest(@, Len(p.steer)),
                            !.follow = Rest(@, Len(p.follow)),
                            !.k    = IF Projects(p) THEN "need" ELSE drv.snap.k,
                            !.skip = Projects(p) \/ drv.snap.skip]
    <3>1. /\ op' = next
          /\ placed' = placed \o Tag(p.writes, "writes") \o Tag(p.steer, "steer")
                              \o Tag(p.follow, "follow")
          /\ pend' = pend \ (Range(p.writes) \cup Range(p.steer) \cup Range(p.follow))
          /\ Follow(op')
          /\ UNCHANGED <<laneVars, admitted, notes, withdrawn, dropped,
                         batchVars, turnVars, cd, crashes>>
        BY <1>2, <2>3 DEF Drain
    <3>2. op \in OpState /\ drv.snap \in OpState
        BY <1>2 DEF IInv, TypeOK, LaneType, DriverState
    <3>3. p.writes \in Seq(Ids) /\ p.steer \in Seq(Ids) /\ p.follow \in Seq(Ids)
        <4>1. /\ drv.snap.writes \in Seq(Ids) /\ drv.snap.steer \in Seq(Ids)
              /\ drv.snap.follow \in Seq(Ids)
            BY <3>2 DEF OpState
        <4>2. /\ p.writes = drv.snap.writes
              /\ p.steer = << >> \/ p.steer = Eligible(drv.snap.steer, SteeringMode)
              /\ p.follow = << >> \/ p.follow = Eligible(drv.snap.follow, FollowUpMode)
            BY DEF DrainPlan
        <4> QED BY <4>1, <4>2, EligibleType, EmptySeq
    <3>4. drv.snap.k \in {"need", "may", "failure"}
        BY <2>1 DEF DrainDue
    <3>5. /\ Rest(op.writes, Len(p.writes)) \in Seq(Ids)
          /\ Rest(op.steer, Len(p.steer)) \in Seq(Ids)
          /\ Rest(op.follow, Len(p.follow)) \in Seq(Ids)
        <4>1. op.writes \in Seq(Ids) /\ op.steer \in Seq(Ids) /\ op.follow \in Seq(Ids)
            BY <3>2 DEF OpState
        <4> QED BY <3>3, <4>1, RestType, LenProperties
    <3>6. op' \in OpState /\ op'.k \in {"need", "may", "failure"} /\ op'.calls = op.calls
        <4>1. drv.snap.skip \in BOOLEAN
            BY <3>2 DEF OpState
        <4> HIDE DEF p
        <4> QED BY <3>1, <3>2, <3>4, <3>5, <4>1 DEF OpState, Kinds
    <3>7. InputType'
        <4>1. /\ Tag(p.writes, "writes") \in Seq(Entry) /\ Tag(p.steer, "steer") \in Seq(Entry)
              /\ Tag(p.follow, "follow") \in Seq(Entry)
            BY <3>3, TagType
        <4>2. placed \in Seq(Entry)
            BY <1>2 DEF IInv, TypeOK, InputType
        <4>3. placed' \in Seq(Entry)
            BY <3>1, <4>1, <4>2, ConcatProperties
        <4> QED BY <1>2, <3>1, <4>3 DEF IInv, TypeOK, InputType
    <3>8. gen = "none" /\ Idle(tool) /\ Len(op'.calls) <= MaxCalls
        BY <1>2, <2>1, <3>4, <3>6, Seen
    <3>9. turnOpen' \in BOOLEAN /\ UNCHANGED <<laneVars, batchVars, gen, asked, due, cd, crashes>>
        BY <1>2, <3>1 DEF IInv, TypeOK, TurnType, turnVars
    <3> QED BY <1>2, <2>1, <3>1, <3>6, <3>7, <3>8, <3>9, PlainCommit
  <2> QED BY <2>2, <2>3
<1>3. ASSUME IInv, NEW extend \in BOOLEAN, HookSettle(extend) PROVE IInv'
  <2>1. drv.on
    BY <1>3 DEF HookSettle
  <2>2. CASE ~FinishBoundary(op)
    BY <1>3, <2>1, <2>2, ReplanStep DEF HookSettle
  <2>3. CASE FinishBoundary(op)
    <3> DEFINE d == [drv EXCEPT !.hooked = TRUE]
               h == drv.hyd
    <3>1. /\ op' = IF extend THEN [op EXCEPT !.k = "need", !.skip = TRUE] ELSE op
          /\ drv' \in Adopted(d, op', h)
          /\ UNCHANGED <<laneVars, inputVars, batchVars, turnVars, cd, crashes>>
        BY <1>3, <2>3 DEF HookSettle
    <3>2. /\ op \in OpState /\ drv \in DriverState /\ nextRun \in Seq(Ids)
          /\ op.k = "may" /\ Len(op.calls) <= MaxCalls /\ current # 0
        BY <1>3, <2>1, <2>3 DEF IInv, TypeOK, LaneType, Shape, FinishBoundary
    <3>3. op' \in OpState /\ op'.k \in {"need", "may"} /\ op'.calls = op.calls
        BY <3>1, <3>2 DEF OpState, Kinds
    <3>4. d \in DriverState /\ d.on = drv.on /\ h \in BOOLEAN
        BY <3>2 DEF DriverState
    <3>5. drv' \in DriverState /\ drv'.on /\ drv'.snap = op' /\ drv'.pc = "plan"
        <4> DEFINE o == op'
        <4>1. o \in OpState /\ drv' \in Adopted(d, o, h)
            BY <3>1, <3>3
        <4> HIDE DEF d, h, o
        <4>2. /\ drv' \in DriverState
              /\ \/ drv' = NoDriver /\ o.k \in {"deferred", "ready"}
                 \/ drv'.on = d.on /\ drv'.snap = o /\ drv'.pc = "plan"
            BY <3>2, <3>4, <4>1, AdoptedType
        <4> QED BY <2>1, <3>3, <3>4, <4>2 DEF o
    <3>6. gen = "none" /\ Idle(tool)
        BY <1>3, <3>2 DEF IInv, NoOrphanedEffect, Idle
    <3>7. InputType' /\ turnOpen' \in BOOLEAN
        BY <1>3, <3>1 DEF IInv, TypeOK, InputType, TurnType, inputVars, turnVars
    <3>8. UNCHANGED <<laneVars, batchVars, gen, asked, due, cd, crashes>>
        BY <3>1 DEF turnVars
    <3> QED BY <1>3, <2>1, <3>2, <3>3, <3>5, <3>6, <3>7, <3>8, PlainCommit
  <2> QED BY <2>2, <2>3
<1>4. ASSUME IInv, HookStart PROVE IInv'
    BY <1>4, PcStep DEF HookStart, Planning
<1>5. ASSUME IInv, FinishCompleted \/ FinishFailed \/ FinishAborted PROVE IInv'
  <2>1. Planning /\ drv.on /\ drv.snap.k \notin {"pending", "tools"}
    BY <1>5 DEF FinishCompleted, FinishFailed, FinishAborted, FinishBoundary, AbortClosable,
                Planning
  <2>2. gen = "none" /\ Idle(tool)
    BY <1>5, <2>1, Seen
  <2>3. \E outcome \in Outcomes : Terminal(outcome, turnOpen)
    BY <1>5 DEF FinishCompleted, FinishFailed, FinishAborted, Outcomes
  <2>4. turnOpen \in BOOLEAN
    BY <1>5 DEF IInv, TypeOK, TurnType
  <2> QED BY <1>5, <2>1, <2>2, <2>3, <2>4, TerminalStep
<1> QED BY <1>1, <1>2, <1>3, <1>4, <1>5

\* Every answer of the provider carries a batch within the bound.
LEMMA AnswersType ==
    ASSUME NEW answer \in Answers
    PROVE  answer.calls \in Seq(CallStatus) /\ Len(answer.calls) <= MaxCalls
<1>1. CASE \E kind \in {"stop", "deferred", "transient", "fatal"} :
                answer = [kind |-> kind, calls |-> << >>]
    BY <1>1, EmptySeq, BoundsAssumption
<1>2. CASE \E n \in 0..MaxCalls : \E status \in UnstartedCall :
                answer = [kind |-> "tools", calls |-> [i \in 1..n |-> status]]
  <2>1. PICK n \in 0..MaxCalls, status \in UnstartedCall :
                answer = [kind |-> "tools", calls |-> [i \in 1..n |-> status]]
    BY <1>2
  <2>2. n \in Nat /\ status \in CallStatus
    BY <2>1, BoundsAssumption DEF CallStatus
  <2>3. [i \in 1..n |-> status] \in Seq(CallStatus)
    BY <2>2, IsASeq
  <2>4. Len([i \in 1..n |-> status]) = n
    BY <2>2, <2>3, LenProperties
  <2> QED BY <2>1, <2>2, <2>3, <2>4, BoundsAssumption
<1> QED BY <1>1, <1>2 DEF Answers

\* Every classification of an answer leaves the generation.
LEMMA ClassifiedType ==
    ASSUME NEW o \in OpState, NEW answer, answer.calls \in Seq(CallStatus)
    PROVE  /\ Classified(o, answer) \in OpState
           /\ Classified(o, answer).k \in {"may", "tools", "deferred", "retry", "failure"}
           /\ Classified(o, answer).calls \in {o.calls, answer.calls}
<1> USE DEF Classified, OpState, Kinds
<1>1. CASE answer.kind = "stop"
    BY <1>1
<1>2. CASE answer.kind = "tools"
  <2>1. Classified(o, answer) =
            [o EXCEPT !.k = "tools", !.calls = answer.calls,
                      !.auth = IF o.adaptive THEN "adaptive" ELSE "standard"]
    BY <1>2
  <2> QED BY <2>1
<1>3. CASE answer.kind = "deferred"
    BY <1>3
<1>4. CASE answer.kind = "transient" /\ o.attempt < MaxAttempts
  <2>1. Classified(o, answer) = [o EXCEPT !.k = "retry", !.attempt = o.attempt + 1]
    BY <1>4
  <2>2. o.attempt + 1 \in Nat
    OBVIOUS
  <2> QED BY <2>1, <2>2
<1>5. CASE /\ answer.kind \notin {"stop", "tools", "deferred"}
           /\ ~(answer.kind = "transient" /\ o.attempt < MaxAttempts)
    BY <1>5
<1> QED BY <1>1, <1>2, <1>3, <1>4, <1>5

\* Settling the assistant: whatever was answered, the lane leaves the pending
\* generation and no effect is left behind.
LEMMA SettleAssistantStep ==
    ASSUME IInv, Planning, drv.snap.k = "pending", NEW answer,
           answer.calls \in Seq(CallStatus), Len(answer.calls) <= MaxCalls,
           SettleAssistant(answer)
    PROVE  IInv'
<1> DEFINE next == IF Cancelled(op) THEN [op EXCEPT !.k = "may", !.skip = FALSE]
                                    ELSE Classified(op, answer)
           ends == turnOpen /\ next.k \notin {"retry", "tools"}
           d    == [drv EXCEPT !.hooked = FALSE, !.ended = @ \/ ends]
           h    == drv.hyd /\ Queued(next) \subseteq Queued(drv.snap)
<1>1. /\ op' = next /\ turnOpen' = (turnOpen /\ ~ends) /\ due' = FALSE /\ gen' = "none"
      /\ drv' = NoDriver \/ drv' \in Adopted(d, next, h)
      /\ UNCHANGED <<laneVars, inputVars, args, tool, asked, cd, crashes>>
    BY DEF SettleAssistant
<1>2. \/ results' = << >> /\ ran' = [i \in Indices |-> 0]
      \/ results' = results /\ ran' = ran
    BY DEF SettleAssistant
<1>3. /\ drv.on /\ current # 0 /\ op \in OpState /\ drv \in DriverState
      /\ op.k = "pending" /\ Len(op.calls) <= MaxCalls /\ Idle(tool)
    BY Seen
<1>4. next \in OpState /\ next.k \notin {"none", "pending"} /\ Len(next.calls) <= MaxCalls
    <2>1. CASE Cancelled(op)
        BY <1>3, <2>1 DEF OpState, Kinds
    <2>2. CASE ~Cancelled(op)
        BY <1>3, <2>2, ClassifiedType
    <2> QED BY <2>1, <2>2
<1>5. d \in DriverState /\ d.on /\ h \in BOOLEAN
    BY <1>3 DEF DriverState
<1>6. /\ drv' \in DriverState
      /\ \/ drv' = NoDriver
         \/ drv'.on /\ drv'.snap = next /\ drv'.pc = "plan"
    <2>1. nextRun \in Seq(Ids)
        BY DEF IInv, TypeOK, LaneType
    <2>2. CASE drv' = NoDriver
        BY <2>2, NoDriverType
    <2>3. CASE drv' \in Adopted(d, next, h)
        <3> HIDE DEF d, h, next
        <3> QED BY <1>4, <1>5, <2>1, <2>3, AdoptedType
    <2> QED BY <1>1, <2>2, <2>3
<1>7. InputType' /\ cd' \in {"none", "live", "done"}
    BY <1>1 DEF IInv, TypeOK, InputType, inputVars
<1>8. BatchType'
    <2>1. << >> \in Seq(Result)
        BY EmptySeq
    <2>2. BatchType
        BY DEF IInv, TypeOK
    <2>3. results' \in Seq(Result)
        BY <1>2, <2>1, <2>2 DEF BatchType
    <2>4. ran' \in [Indices -> 0..2]
        BY <1>2, <2>2 DEF BatchType
    <2> QED BY <1>1, <2>2, <2>3, <2>4 DEF BatchType
<1>9. TurnType'
    <2>1. turnOpen \in BOOLEAN
        BY DEF IInv, TypeOK, TurnType
    <2>2. turnOpen' \in BOOLEAN
        BY <1>1
    <2> QED BY <1>1, <2>2 DEF IInv, TypeOK, TurnType
<1>10. gen' = "none" /\ Idle(tool')
    BY <1>1, <1>3 DEF Idle
<1> HIDE DEF next, d, h, ends
<1> QED BY <1>1, <1>3, <1>4, <1>6, <1>7, <1>8, <1>9, <1>10, CommitStep DEF Idle

\* Nor does any step of a generation, retries and recovery included.
LEMMA GenerationSteps ==
    IInv /\ (NeedAssistant \/ Dispatch \/ SettleGeneration \/ RecoverAttempt
             \/ SettleInterrupted \/ RetryReady \/ Sleep \/ Wake) => IInv'
<1>1. ASSUME IInv, NeedAssistant \/ RecoverAttempt \/ RetryReady PROVE IInv'
  <2>1. Planning /\ drv.on /\ drv.snap.k \in {"need", "retry", "pending"}
        /\ (drv.snap.k = "pending" => gen = "none")
    BY <1>1 DEF NeedAssistant, RecoverAttempt, RetryReady, Planning, UnknownAttempt
  <2>2. /\ current # 0 /\ op \in OpState /\ Len(op.calls) <= MaxCalls
        /\ gen = "none" /\ Idle(tool)
    BY <1>1, <2>1, Seen
  <2>3. CASE Replan
    BY <1>1, <2>1, <2>3, ReplanStep
  <2>4. CASE /\ \/ op' = [op EXCEPT !.k = "ready", !.skip = FALSE,
                                     !.attempt = 1, !.turn = @ + 1]
                \/ op' = [op EXCEPT !.k = "ready", !.attempt = @ + 1]
                \/ op' = [op EXCEPT !.k = "ready"]
             /\ Follow(op')
             /\ UNCHANGED <<laneVars, inputVars, batchVars, turnVars, cd, crashes>>
    <3>1. op' \in OpState /\ op'.k = "ready" /\ op'.calls = op.calls
        <4>1. op.turn + 1 \in Nat /\ op.attempt + 1 \in Nat
            BY <2>2 DEF OpState
        <4>2. CASE op' = [op EXCEPT !.k = "ready", !.skip = FALSE,
                                    !.attempt = 1, !.turn = op.turn + 1]
            BY <2>2, <4>1, <4>2 DEF OpState, Kinds
        <4>3. CASE op' = [op EXCEPT !.k = "ready", !.attempt = op.attempt + 1]
            BY <2>2, <4>1, <4>3 DEF OpState, Kinds
        <4>4. CASE op' = [op EXCEPT !.k = "ready"]
            BY <2>2, <4>4 DEF OpState, Kinds
        <4> QED BY <2>4, <4>2, <4>3, <4>4
    <3>2. InputType' /\ turnOpen' \in BOOLEAN
        BY <1>1, <2>4 DEF IInv, TypeOK, InputType, TurnType, inputVars, turnVars
    <3>3. UNCHANGED <<laneVars, batchVars, gen, asked, due, cd, crashes>>
        BY <2>4 DEF turnVars
    <3> QED BY <1>1, <2>1, <2>2, <2>4, <3>1, <3>2, <3>3, PlainCommit
  <2> QED BY <1>1, <2>3, <2>4 DEF NeedAssistant, RecoverAttempt, RetryReady, Cas, NextAttempt
<1>2. ASSUME IInv, Dispatch PROVE IInv'
  <2>1. Planning /\ drv.on /\ drv.snap.k = "ready"
    BY <1>2 DEF Dispatch, Planning
  <2>2. /\ current # 0 /\ op \in OpState /\ Len(op.calls) <= MaxCalls /\ Idle(tool)
    BY <1>2, <2>1, Seen
  <2>3. CASE Replan
    BY <1>2, <2>1, <2>3, ReplanStep
  <2>4. CASE /\ op' = [op EXCEPT !.k = "pending"]
             /\ Follow(op')
             /\ gen' = "launched"
             /\ turnOpen' = TRUE
             /\ UNCHANGED <<laneVars, inputVars, batchVars, asked, due, cd, crashes>>
    <3>1. op' \in OpState /\ op'.k = "pending" /\ op'.calls = op.calls
        BY <2>2, <2>4 DEF OpState, Kinds
    <3>2. drv' \in DriverState /\ drv'.on /\ drv'.snap = op' /\ drv'.pc = "plan"
        BY <1>2, <2>1, <2>4, <3>1, FollowType DEF IInv
    <3>3. InputType' /\ BatchType' /\ TurnType' /\ cd' \in {"none", "live", "done"}
        BY <1>2, <2>4 DEF IInv, TypeOK, InputType, BatchType, TurnType, inputVars, batchVars
    <3>4. Idle(tool')
        BY <2>2, <2>4 DEF Idle, batchVars
    <3> QED BY <1>2, <2>2, <2>4, <3>1, <3>2, <3>3, <3>4, CommitStep DEF Idle
  <2> QED BY <1>2, <2>3, <2>4 DEF Dispatch, Cas
<1>3. ASSUME IInv, SettleGeneration PROVE IInv'
  <2>1. Planning /\ drv.snap.k = "pending"
    BY <1>3 DEF SettleGeneration
  <2>2. PICK answer : /\ answer \in Answers \/ answer = [kind |-> "fatal", calls |-> << >>]
                      /\ SettleAssistant(answer)
    BY <1>3 DEF SettleGeneration
  <2>3. answer.calls \in Seq(CallStatus) /\ Len(answer.calls) <= MaxCalls
    <3>1. CASE answer \in Answers
        BY <3>1, AnswersType
    <3>2. CASE answer = [kind |-> "fatal", calls |-> << >>]
        BY <3>2, EmptySeq, BoundsAssumption
    <3> QED BY <2>2, <3>1, <3>2
  <2> QED BY <1>3, <2>1, <2>2, <2>3, SettleAssistantStep
<1>4. ASSUME IInv, SettleInterrupted PROVE IInv'
  <2> DEFINE answer == [kind |-> "fatal", calls |-> << >>]
  <2>1. Planning /\ drv.snap.k = "pending" /\ SettleAssistant(answer)
    BY <1>4 DEF SettleInterrupted, UnknownAttempt
  <2>2. answer.calls \in Seq(CallStatus) /\ Len(answer.calls) <= MaxCalls
    BY EmptySeq, BoundsAssumption
  <2> HIDE DEF answer
  <2> QED BY <1>4, <2>1, <2>2, SettleAssistantStep
<1>5. ASSUME IInv, Sleep PROVE IInv'
    BY <1>5, PcStep DEF Sleep, Planning
<1>6. ASSUME IInv, Wake PROVE IInv'
    BY <1>6, PcStep DEF Wake
<1> QED BY <1>1, <1>2, <1>3, <1>4, <1>5, <1>6

-----------------------------------------------------------------------------
(***************************************************************************)
(* The tool batch                                                          *)
(***************************************************************************)
\* Recording one result completes one open call and leaves the others alone.
LEMMA ResultCommit ==
    ASSUME IInv, op.k = "tools", current # 0, NEW i \in DOMAIN op.calls,
           NEW body \in {"live", "lost", "interrupted", "blocked", "truncated"},
           NEW terminate \in BOOLEAN, CommitResult(i, body, terminate)
    PROVE  /\ InputType' /\ BatchType' /\ TurnType' /\ cd' \in {"none", "live", "done"}
           /\ UNCHANGED <<laneVars, crashes>>
           /\ op' \in OpState /\ op'.k = "tools" /\ Len(op'.calls) <= MaxCalls
           /\ DOMAIN op'.calls = DOMAIN op.calls
           /\ gen' = "none"
           /\ \A j \in Indices : tool'[j] # "none" =>
                j \in DOMAIN op'.calls /\ op'.calls[j] \in PendingCall
<1>1. op \in OpState /\ Len(op.calls) <= MaxCalls
    BY DEF IInv, TypeOK, LaneType, Shape
<1>2. DOMAIN op.calls \subseteq Indices /\ DOMAIN op.calls = 1..Len(op.calls)
    BY <1>1, CallsType
<1> DEFINE c == IF terminate /\ ~Cancelled(op) THEN "terminated" ELSE "done"
<1>3. /\ op' = [op EXCEPT !.calls[i] = c] /\ c \in CallStatus
    BY DEF CommitResult, Settled, CallStatus, DoneCall
<1> HIDE DEF c
<1>4. /\ op' \in OpState /\ op'.calls = [op.calls EXCEPT ![i] = c]
      /\ Len(op'.calls) = Len(op.calls)
    BY <1>1, <1>3, CallsType
<1>5. op'.k = "tools"
    BY <1>1, <1>3 DEF OpState
<1>6. /\ tool' = [tool EXCEPT ![i] = "none"] /\ ran' = ran
      /\ args' \subseteq args \/ args' = {}
      /\ UNCHANGED <<laneVars, inputVars, turnVars, cd, crashes>>
    BY DEF CommitResult, ArgumentsAfter
<1>7. results' \in Seq(Result)
    <2>1. results \in Seq(Result)
        BY DEF IInv, TypeOK, BatchType
    <2>2. [call |-> i, body |-> IF Cancelled(op) /\ op.calls[i] \in UnstartedCall
                                THEN "aborted" ELSE body] \in Result
        BY <1>2 DEF Result
    <2> QED BY <2>1, <2>2, AppendProperties DEF CommitResult, Recorded
<1>8. BatchType'
    BY <1>6, <1>7 DEF IInv, TypeOK, BatchType
<1>9. InputType' /\ TurnType' /\ cd' \in {"none", "live", "done"}
    BY <1>6 DEF IInv, TypeOK, InputType, TurnType, inputVars, turnVars
<1>10. \A j \in Indices : tool'[j] # "none" =>
                j \in DOMAIN op'.calls /\ op'.calls[j] \in PendingCall
    <2>1. tool \in [Indices -> {"none", "launched", "started", "refused", "broken"}]
        BY DEF IInv, TypeOK, BatchType
    <2>2. \A j \in Indices : tool[j] # "none" =>
                j \in DOMAIN op.calls /\ op.calls[j] \in PendingCall
        BY DEF IInv, NoOrphanedEffect
    <2> QED BY <1>2, <1>4, <1>6, <2>1, <2>2
<1>11. gen' = "none"
    BY <1>6 DEF IInv, NoOrphanedEffect, turnVars
<1>12. DOMAIN op'.calls = DOMAIN op.calls
    BY <1>4
<1> QED BY <1>1, <1>4, <1>5, <1>6, <1>8, <1>9, <1>10, <1>11, <1>12

\* The preparation loop goes on from the state its commit returned.
LEMMA PreparedType ==
    ASSUME IInv, NEW i, Preparing(i), op' \in OpState, op'.k = "tools",
           DOMAIN op'.calls = DOMAIN op.calls, Prepared(i, op')
    PROVE  /\ drv' \in DriverState /\ drv'.on /\ drv'.snap = op'
           /\ drv'.todo \subseteq DOMAIN op'.calls
<1>1. /\ drv \in DriverState /\ drv.on /\ drv.pc = "prep" /\ nextRun \in Seq(Ids)
      /\ drv.todo \subseteq DOMAIN op.calls
    BY DEF IInv, TypeOK, LaneType, Shape, Preparing
<1> DEFINE h == drv.hyd /\ Queued(op') \subseteq Queued(drv.snap)
           pc == IF drv.todo = {i} THEN "plan" ELSE "prep"
           o == op'
<1>2. drv' = [drv EXCEPT !.todo = drv.todo \ {i}, !.snap = o, !.nr = nextRun,
                          !.pc = pc, !.hyd = h]
    BY DEF Prepared
<1>3. h \in BOOLEAN /\ pc \in {"plan", "prep"} /\ o \in OpState
    OBVIOUS
<1>4. drv.todo \ {i} \subseteq Indices
    BY <1>1 DEF DriverState
<1> HIDE DEF h, pc, o
<1>5. drv' \in DriverState /\ drv'.on /\ drv'.snap = o /\ drv'.todo = drv.todo \ {i}
    BY <1>1, <1>2, <1>3, <1>4 DEF DriverState
<1> QED BY <1>1, <1>5 DEF o

\* While prepare_tools walks a batch the lane is in the tools phase of that batch.
LEMMA PreparingType ==
    ASSUME IInv, NEW i, Preparing(i)
    PROVE  drv.on /\ current # 0 /\ op.k = "tools" /\ i \in DOMAIN op.calls
BY DEF IInv, Shape, Preparing

\* Nor does a step on one call: prepare, settle or recover it.
LEMMA ToolSteps ==
    ASSUME IInv, NEW i \in Indices,
           PrepareImmediate(i) \/ PrepareLaunch(i) \/ SettleTool(i)
           \/ SettleSynthetic(i) \/ RecoverTool(i)
    PROVE  IInv'
<1>1. CASE PrepareImmediate(i)
  <2>1. drv.on /\ current # 0 /\ op.k = "tools" /\ i \in DOMAIN op.calls /\ Preparing(i)
    BY <1>1, PreparingType DEF PrepareImmediate
  <2>2. PICK terminate \in BOOLEAN : CommitResult(i, "blocked", terminate)
    BY <1>1 DEF PrepareImmediate
  <2>3. /\ InputType' /\ BatchType' /\ TurnType' /\ cd' \in {"none", "live", "done"}
        /\ UNCHANGED <<laneVars, crashes>>
        /\ op' \in OpState /\ op'.k = "tools" /\ Len(op'.calls) <= MaxCalls
        /\ DOMAIN op'.calls = DOMAIN op.calls
        /\ gen' = "none"
        /\ \A j \in Indices : tool'[j] # "none" =>
                j \in DOMAIN op'.calls /\ op'.calls[j] \in PendingCall
    BY <2>1, <2>2, ResultCommit
  <2>4. drv' \in DriverState /\ drv'.on /\ drv'.snap = op' /\ drv'.todo \subseteq DOMAIN op'.calls
    BY <1>1, <2>1, <2>3, PreparedType DEF PrepareImmediate
  <2> QED BY <2>1, <2>3, <2>4, CommitStep
<1>2. CASE PrepareLaunch(i)
  <2>1. drv.on /\ current # 0 /\ op.k = "tools" /\ i \in DOMAIN op.calls /\ Preparing(i)
    BY <1>2, PreparingType DEF PrepareLaunch
  <2>2. CASE Cancelled(op)
    BY <1>2, <2>1, <2>2, ReplanStep DEF PrepareLaunch
  <2>3. CASE ~Cancelled(op)
    <3>1. PICK replay \in PendingCall : op' = [op EXCEPT !.calls[i] = replay]
        BY <1>2, <2>3 DEF PrepareLaunch
    <3>2. /\ args' = args \cup {i} /\ tool' = [tool EXCEPT ![i] = "launched"]
          /\ Prepared(i, op')
          /\ UNCHANGED <<laneVars, inputVars, ran, results, turnVars, cd, crashes>>
        BY <1>2, <2>3 DEF PrepareLaunch
    <3>3. op \in OpState /\ Len(op.calls) <= MaxCalls /\ replay \in CallStatus
        BY DEF IInv, TypeOK, LaneType, Shape, CallStatus
    <3>4. /\ op' \in OpState /\ op'.calls = [op.calls EXCEPT ![i] = replay]
          /\ Len(op'.calls) <= MaxCalls
        BY <2>1, <3>1, <3>3, CallsType
    <3>5. op'.k = "tools" /\ DOMAIN op'.calls = DOMAIN op.calls
        BY <2>1, <3>1, <3>3, <3>4 DEF OpState
    <3>6. drv' \in DriverState /\ drv'.on /\ drv'.snap = op' /\ drv'.todo \subseteq DOMAIN op'.calls
        BY <2>1, <3>2, <3>4, <3>5, PreparedType
    <3>7. InputType' /\ TurnType' /\ cd' \in {"none", "live", "done"}
        BY <3>2 DEF IInv, TypeOK, InputType, TurnType, inputVars, turnVars
    <3>8. BatchType'
        BY <3>2 DEF IInv, TypeOK, BatchType
    <3>9. \A j \in Indices : tool'[j] # "none" =>
                j \in DOMAIN op'.calls /\ op'.calls[j] \in PendingCall
        <4>1. tool \in [Indices -> {"none", "launched", "started", "refused", "broken"}]
            BY DEF IInv, TypeOK, BatchType
        <4>2. \A j \in Indices : tool[j] # "none" =>
                j \in DOMAIN op.calls /\ op.calls[j] \in PendingCall
            BY DEF IInv, NoOrphanedEffect
        <4> QED BY <2>1, <3>1, <3>2, <3>4, <4>1, <4>2
    <3>10. gen' = "none" /\ UNCHANGED laneVars /\ UNCHANGED crashes
        BY <2>1, <3>2 DEF IInv, NoOrphanedEffect, turnVars
    <3> QED BY <2>1, <3>4, <3>5, <3>6, <3>7, <3>8, <3>9, <3>10, CommitStep
  <2> QED BY <2>2, <2>3
<1>3. CASE SettleTool(i) \/ SettleSynthetic(i)
  <2>1. /\ Planning /\ drv.snap.k = "tools" /\ FirstOpen(drv.snap, i) /\ Follow(op')
    BY <1>3 DEF SettleTool, SettleSynthetic
  <2>2. \E body \in {"live", "lost", "interrupted", "blocked", "truncated"} :
            \E terminate \in BOOLEAN : CommitResult(i, body, terminate)
    BY <1>3 DEF SettleTool, SettleSynthetic
  <2>3. drv.on /\ current # 0 /\ op.k = "tools" /\ i \in DOMAIN op.calls
    BY <2>1, Seen DEF FirstOpen
  <2>4. /\ InputType' /\ BatchType' /\ TurnType' /\ cd' \in {"none", "live", "done"}
        /\ UNCHANGED <<laneVars, crashes>>
        /\ op' \in OpState /\ op'.k = "tools" /\ Len(op'.calls) <= MaxCalls
        /\ gen' = "none"
        /\ \A j \in Indices : tool'[j] # "none" =>
                j \in DOMAIN op'.calls /\ op'.calls[j] \in PendingCall
    BY <2>2, <2>3, ResultCommit
  <2>5. drv' \in DriverState /\ drv'.on /\ drv'.snap = op' /\ drv'.pc = "plan"
    BY <2>1, <2>3, <2>4, FollowType DEF IInv
  <2> QED BY <2>3, <2>4, <2>5, CommitStep
<1>4. CASE RecoverTool(i)
  <2>1. /\ Planning /\ drv.snap.k = "tools" /\ FirstOpen(drv.snap, i)
        /\ drv.snap.calls[i] \in PendingCall
    BY <1>4 DEF RecoverTool
  <2>2. drv.on /\ current # 0 /\ op.k = "tools" /\ i \in DOMAIN op.calls
        /\ op.calls[i] \in PendingCall
    BY <2>1, Seen DEF FirstOpen
  <2>3. CASE /\ tool' = [tool EXCEPT ![i] = "launched"]
             /\ UNCHANGED <<laneVars, op, drv, inputVars, args, ran, results,
                            turnVars, cd, crashes>>
    <3>1. tool \in [Indices -> {"none", "launched", "started", "refused", "broken"}]
        BY DEF IInv, TypeOK, BatchType
    <3>2. TypeOK'
        BY <2>3, <3>1 DEF IInv, TypeOK, LaneType, InputType, BatchType, TurnType,
                    laneVars, inputVars, turnVars
    <3>3. Shape' /\ DriverOwnsThePhase'
        BY <2>3 DEF IInv, Shape, DriverOwnsThePhase, laneVars
    <3>4. NoOrphanedEffect'
        BY <2>2, <2>3, <3>1 DEF IInv, NoOrphanedEffect, turnVars
    <3> QED BY <3>2, <3>3, <3>4 DEF IInv
  <2>4. CASE CommitResult(i, "interrupted", FALSE) /\ Follow(op')
    <3>1. /\ InputType' /\ BatchType' /\ TurnType' /\ cd' \in {"none", "live", "done"}
          /\ UNCHANGED <<laneVars, crashes>>
          /\ op' \in OpState /\ op'.k = "tools" /\ Len(op'.calls) <= MaxCalls
          /\ gen' = "none"
          /\ \A j \in Indices : tool'[j] # "none" =>
                j \in DOMAIN op'.calls /\ op'.calls[j] \in PendingCall
        BY <2>2, <2>4, ResultCommit
    <3>2. drv' \in DriverState /\ drv'.on /\ drv'.snap = op' /\ drv'.pc = "plan"
        BY <2>2, <2>4, <3>1, FollowType DEF IInv
    <3> QED BY <2>2, <3>1, <3>2, CommitStep
  <2> QED BY <1>4, <2>3, <2>4 DEF RecoverTool
<1> QED BY <1>1, <1>2, <1>3, <1>4

\* Nor does a step on the whole batch: prepare, clear, close or terminate it.
LEMMA BatchSteps ==
    IInv /\ (PrepareTools \/ ClearTools \/ ToolsDone \/ CancelToolsDone
             \/ FinishTerminated \/ CancelDeferred) => IInv'
<1>1. ASSUME IInv, PrepareTools PROVE IInv'
  <2>1. Planning /\ drv.on /\ drv.snap.k = "tools"
        /\ UNCHANGED <<laneVars, op, inputVars, batchVars, turnVars, cd, crashes>>
    BY <1>1 DEF PrepareTools, Planning
  <2>2. PICK i \in DOMAIN drv.snap.calls :
            drv' = [drv EXCEPT !.pc = "prep",
                     !.todo = IF Parallel THEN Planned(drv.snap) ELSE {i}]
    BY <1>1 DEF PrepareTools
  <2>3. /\ drv \in DriverState /\ op \in OpState /\ Len(op.calls) <= MaxCalls
        /\ op.k = "tools" /\ op.calls = drv.snap.calls
    BY <1>1, <2>1, Seen
  <2>4. DOMAIN op.calls \subseteq Indices
    BY <2>3, CallsType
  <2> DEFINE todo == IF Parallel THEN Planned(drv.snap) ELSE {i}
  <2>5. todo \subseteq DOMAIN op.calls
    BY <2>3 DEF Planned
  <2>6. drv' \in DriverState /\ drv'.on /\ drv'.snap = drv.snap /\ drv'.todo = todo
    <3>1. todo \subseteq Indices /\ drv' = [drv EXCEPT !.pc = "prep", !.todo = todo]
        BY <2>2, <2>4, <2>5
    <3> HIDE DEF todo
    <3> QED BY <2>1, <2>3, <3>1 DEF DriverState
  <2>7. TypeOK'
    BY <1>1, <2>1, <2>6 DEF IInv, TypeOK, LaneType, InputType, BatchType, TurnType,
                            laneVars, inputVars, batchVars, turnVars
  <2>8. Shape' /\ DriverOwnsThePhase' /\ NoOrphanedEffect'
    <3> HIDE DEF todo
    <3> QED BY <1>1, <2>1, <2>3, <2>5, <2>6
            DEF IInv, Shape, DriverOwnsThePhase, NoOrphanedEffect,
                laneVars, batchVars, turnVars
  <2> QED BY <2>7, <2>8 DEF IInv
<1>2. ASSUME IInv, ClearTools PROVE IInv'
  <2>1. Planning /\ drv.on /\ drv.snap.k = "tools"
    BY <1>2 DEF ClearTools, Planning
  <2>2. /\ current # 0 /\ op \in OpState /\ Len(op.calls) <= MaxCalls
        /\ op.k = "tools" /\ gen = "none"
    BY <1>2, <2>1, Seen
  <2>3. CASE Cancelled(op)
    BY <1>2, <2>1, <2>3, ReplanStep DEF ClearTools
  <2>4. CASE ~Cancelled(op)
    <3>1. PICK decided \in [DOMAIN op.calls -> {"planned"} \cup PendingCall] :
        /\ op' = [op EXCEPT !.auth = "entry", !.calls = decided]
        /\ tool' = [i \in Indices |-> IF i \in DOMAIN decided /\ decided[i] # "planned"
                                      THEN "launched" ELSE "none"]
        /\ Follow(op')
        /\ UNCHANGED <<laneVars, inputVars, args, ran, results, turnVars, cd, crashes>>
        BY <1>2, <2>4 DEF ClearTools
    <3>2. DOMAIN op.calls = 1..Len(op.calls) /\ Len(op.calls) \in Nat
        BY <2>2, CallsType
    <3>3. decided \in Seq(CallStatus) /\ Len(decided) = Len(op.calls)
        <4>1. decided \in [1..Len(op.calls) -> CallStatus]
            BY <3>2 DEF CallStatus, UnstartedCall
        <4>2. decided \in Seq(CallStatus)
            BY <3>2, <4>1, SeqDef
        <4>3. DOMAIN decided = 1..Len(op.calls) /\ DOMAIN decided = 1..Len(decided)
              /\ Len(decided) \in Nat
            BY <4>1, <4>2, LenProperties
        <4> QED BY <3>2, <4>2, <4>3
    <3>4. op' \in OpState /\ op'.k = "tools" /\ op'.calls = decided
        BY <2>2, <3>1, <3>3 DEF OpState
    <3>5. drv' \in DriverState /\ drv'.on /\ drv'.snap = op' /\ drv'.pc = "plan"
        BY <1>2, <2>1, <3>1, <3>4, FollowType DEF IInv
    <3>6. InputType' /\ TurnType' /\ cd' \in {"none", "live", "done"}
        BY <1>2, <3>1 DEF IInv, TypeOK, InputType, TurnType, inputVars, turnVars
    <3>7. BatchType'
        BY <1>2, <3>1 DEF IInv, TypeOK, BatchType
    <3>8. \A i \in Indices : tool'[i] # "none" =>
                i \in DOMAIN op'.calls /\ op'.calls[i] \in PendingCall
        BY <3>1, <3>4
    <3>9. gen' = "none" /\ UNCHANGED laneVars /\ UNCHANGED crashes
        BY <2>2, <3>1 DEF turnVars
    <3> QED BY <1>2, <2>2, <3>3, <3>4, <3>5, <3>6, <3>7, <3>8, <3>9, CommitStep
  <2> QED BY <2>3, <2>4
<1>3. ASSUME IInv, ToolsDone \/ CancelToolsDone PROVE IInv'
  <2>1. Planning /\ drv.on /\ drv.snap.k = "tools" /\ AllDone(drv.snap)
    BY <1>3 DEF ToolsDone, CancelToolsDone, Planning
  <2>2. /\ current # 0 /\ op \in OpState /\ gen = "none" /\ Idle(tool)
    BY <1>3, <2>1, Seen
  <2>3. CASE Replan
    BY <1>3, <2>1, <2>3, ReplanStep
  <2>4. CASE /\ \E k \in {"need", "may"} :
                    op' = [op EXCEPT !.k = k, !.skip = FALSE,
                                     !.calls = << >>, !.auth = "standard"]
             /\ drv' = NoDriver \/ Follow(op')
             /\ turnOpen' = FALSE
             /\ UNCHANGED <<laneVars, inputVars, batchVars, gen, asked, due, cd, crashes>>
    <3>1. op' \in OpState /\ op'.k \in {"need", "may"} /\ op'.calls = << >>
        <4>1. PICK k \in {"need", "may"} :
                    op' = [op EXCEPT !.k = k, !.skip = FALSE,
                                     !.calls = << >>, !.auth = "standard"]
            BY <2>4
        <4>2. << >> \in Seq(CallStatus) /\ k \in Kinds
            BY EmptySeq DEF Kinds
        <4> QED BY <2>2, <4>1, <4>2 DEF OpState
    <3>2. InputType' /\ Len(op'.calls) <= MaxCalls
        BY <1>3, <2>4, <3>1, EmptySeq, BoundsAssumption DEF IInv, TypeOK, InputType, inputVars
    <3> QED BY <1>3, <2>1, <2>2, <2>4, <3>1, <3>2, PlainCommit
  <2>5. CASE ToolsDone
    BY <2>3, <2>4, <2>5 DEF ToolsDone, Cas
  <2>6. CASE CancelToolsDone
    BY <2>3, <2>4, <2>6 DEF CancelToolsDone, Cas
  <2> QED BY <1>3, <2>5, <2>6
<1>4. ASSUME IInv, FinishTerminated PROVE IInv'
  <2>1. Planning /\ drv.on /\ drv.snap.k = "tools" /\ AllDone(drv.snap)
        /\ Terminal("completed", FALSE)
    BY <1>4 DEF FinishTerminated, Planning
  <2>2. gen = "none" /\ Idle(tool) /\ "completed" \in Outcomes
    BY <1>4, <2>1, Seen DEF Outcomes
  <2> QED BY <1>4, <2>1, <2>2, TerminalStep
<1>5. ASSUME IInv, CancelDeferred PROVE IInv'
  BY <1>5 DEF CancelDeferred, IInv, TypeOK, LaneType, InputType, BatchType, TurnType, Shape,
              DriverOwnsThePhase, NoOrphanedEffect, laneVars, inputVars, batchVars, turnVars
<1> QED BY <1>1, <1>2, <1>3, <1>4, <1>5

-----------------------------------------------------------------------------
(***************************************************************************)
(* Effects, the clock and crashes                                          *)
(***************************************************************************)
LEMMA EffectSteps == IInv /\ (EffectStep \/ TimerDue) => IInv'
<1>1. ASSUME IInv, GenerationStart PROVE IInv'
  <2>1. /\ gen = "launched" /\ gen' \in {"started", "refused"}
        /\ asked' = asked \/ asked' = <<current, op.turn, op.attempt>>
        /\ UNCHANGED <<laneVars, op, drv, inputVars, batchVars, due, turnOpen, cd, crashes>>
    BY <1>1 DEF GenerationStart
  <2>2. current \in Nat /\ op.turn \in Nat /\ op.attempt \in Nat
    BY <1>1, BoundsAssumption DEF IInv, TypeOK, LaneType, OpState
  <2>3. TypeOK'
    BY <1>1, <2>1, <2>2 DEF IInv, TypeOK, LaneType, InputType, BatchType, TurnType,
                            laneVars, inputVars, batchVars
  <2>4. Shape' /\ DriverOwnsThePhase' /\ NoOrphanedEffect'
    BY <1>1, <2>1 DEF IInv, Shape, DriverOwnsThePhase, NoOrphanedEffect, laneVars, batchVars
  <2> QED BY <2>3, <2>4 DEF IInv
<1>2. ASSUME IInv, NEW i \in Indices, ToolStart(i) PROVE IInv'
  <2>1. /\ tool[i] = "launched"
        /\ \/ tool' = [tool EXCEPT ![i] = "refused"] /\ ran' = ran
           \/ tool' = [tool EXCEPT ![i] = "broken"] /\ ran' = ran
           \/ /\ tool' = [tool EXCEPT ![i] = "started"]
              /\ ran' = [ran EXCEPT ![i] = IF ran[i] = 2 THEN 2 ELSE ran[i] + 1]
        /\ UNCHANGED <<laneVars, op, drv, inputVars, args, results, turnVars, cd, crashes>>
    BY <1>2 DEF ToolStart
  <2>2. /\ tool \in [Indices -> {"none", "launched", "started", "refused", "broken"}]
        /\ ran \in [Indices -> 0..2]
    BY <1>2 DEF IInv, TypeOK, BatchType
  <2>3. BatchType'
    <3>1. ran' \in [Indices -> 0..2]
        BY <2>1, <2>2
    <3>2. tool' \in [Indices -> {"none", "launched", "started", "refused", "broken"}]
        BY <2>1, <2>2
    <3> QED BY <1>2, <2>1, <3>1, <3>2 DEF IInv, TypeOK, BatchType
  <2>4. TypeOK'
    BY <1>2, <2>1, <2>3 DEF IInv, TypeOK, LaneType, InputType, TurnType,
                            laneVars, inputVars, turnVars
  <2>5. Shape' /\ DriverOwnsThePhase'
    BY <1>2, <2>1 DEF IInv, Shape, DriverOwnsThePhase, laneVars
  <2>6. NoOrphanedEffect'
    BY <1>2, <2>1, <2>2 DEF IInv, NoOrphanedEffect, turnVars
  <2> QED BY <2>4, <2>5, <2>6 DEF IInv
<1>3. ASSUME IInv, CancelDeferredEnds PROVE IInv'
  BY <1>3 DEF CancelDeferredEnds, IInv, TypeOK, LaneType, InputType, BatchType, TurnType, Shape,
              DriverOwnsThePhase, NoOrphanedEffect, laneVars, inputVars, batchVars, turnVars
<1>4. ASSUME IInv, TimerDue PROVE IInv'
  BY <1>4 DEF TimerDue, IInv, TypeOK, LaneType, InputType, BatchType, TurnType, Shape,
              DriverOwnsThePhase, NoOrphanedEffect, laneVars, inputVars, batchVars
<1> QED BY <1>1, <1>2, <1>3, <1>4 DEF EffectStep

\* Nor does the loss of the process, which leaves registers and no effects.
LEMMA CrashStep == IInv /\ Crash => IInv'
<1> SUFFICES ASSUME IInv, Crash PROVE IInv'
    OBVIOUS
<1>1. /\ drv' = NoDriver /\ gen' = "none" /\ tool' = [i \in Indices |-> "none"]
      /\ cd' = "none" /\ turnOpen' = FALSE /\ crashes < MaxCrashes /\ crashes' = crashes + 1
      /\ UNCHANGED <<laneVars, op, inputVars, args, ran, results, asked, due>>
    BY DEF Crash
<1>2. crashes' \in 0..MaxCrashes
    BY <1>1, BoundsAssumption DEF IInv, TypeOK
<1>3. TypeOK'
    <2>1. LaneType' /\ InputType'
        BY <1>1 DEF IInv, TypeOK, LaneType, InputType, laneVars, inputVars
    <2>2. BatchType' /\ TurnType'
        BY <1>1 DEF IInv, TypeOK, BatchType, TurnType
    <2> QED BY <1>1, <1>2, <2>1, <2>2, NoDriverType DEF TypeOK
<1>4. Shape' /\ DriverOwnsThePhase' /\ NoOrphanedEffect'
    BY <1>1, NoDriverType DEF IInv, Shape, DriverOwnsThePhase, NoOrphanedEffect, laneVars
<1> QED BY <1>3, <1>4 DEF IInv

-----------------------------------------------------------------------------
(***************************************************************************)
(* The theorems                                                            *)
(***************************************************************************)
\* Every step keeps the invariant.
THEOREM Inductive == IInv /\ [Next]_vars => IInv'
<1>1. IInv /\ DriverStep => IInv'
    BY CheckpointStep, GenerationSteps, BatchSteps, ToolSteps DEF DriverStep
<1>2. IInv /\ UNCHANGED vars => IInv'
    BY DEF vars, IInv, TypeOK, LaneType, InputType, BatchType, TurnType, Shape,
           DriverOwnsThePhase, NoOrphanedEffect, laneVars, inputVars, batchVars, turnVars
<1> QED BY <1>1, <1>2, CallerStep, EffectSteps, CrashStep DEF Next

\* The inductive invariant holds in every reachable state of the harness.
THEOREM Invariance == Spec => []IInv
BY Initial, Inductive, PTL DEF Spec

\* Registers, driver and history keep their shape in every run of the harness.
THEOREM TypeCorrect == Spec => []TypeOK
<1>1. IInv => TypeOK
    BY DEF IInv
<1> QED BY <1>1, Invariance, PTL

\* Only the driver moves the phase: no caller, effect, clock tick or crash can
\* make the phase a driver planned from differ from the one in op.state.
THEOREM DriverOwnership == Spec => []DriverOwnsThePhase
<1>1. IInv => DriverOwnsThePhase
    BY DEF IInv
<1> QED BY <1>1, Invariance, PTL

\* No run is closed, and no phase is left, under a request or tool it launched.
THEOREM EffectsAreOwned == Spec => []NoOrphanedEffect
<1>1. IInv => NoOrphanedEffect
    BY DEF IInv
<1> QED BY <1>1, Invariance, PTL

\* Driver, effects and register stay together.
THEOREM PhaseOwnership == Spec => []PhaseIsOwned
<1>1. DriverOwnsThePhase /\ NoOrphanedEffect => PhaseIsOwned
    BY DEF PhaseIsOwned
<1> QED BY <1>1, DriverOwnership, EffectsAreOwned, PTL
=============================================================================
