------------------------- MODULE ContractQueueProofs -------------------------
(* What ContractQueue guarantees for every set of rows and workers, and    *)
(* ClassifierExecution for every set of commands, candidates and budget.   *)
EXTENDS ContractQueue, SequenceTheorems, TLAPS

(* A busy worker works on a committed row; it applies only what it parsed  *)
(* and refuses only what may be refused.                                   *)
WorkInv == \A w \in Workers :
               /\ stage[w] # "idle" => work[w] \in outbox
               /\ stage[w] = "applying" => seen[w] # Accepted /\ work[w] \notin Malformed
               /\ stage[w] = "refusing" => work[w] \in Malformed \cup Conditional

(* SELECT ... FOR UPDATE: one transaction holds an existing inbox row, and *)
(* the row keeps the status that transaction read.                         *)
LockInv == \A w \in Workers :
               InTransaction(w) /\ seen[w] # Absent
                   => ~LockedByOther(w) /\ inbox[work[w]] = seen[w]

Base == TypeOK /\ WorkInv /\ LockInv

(* Every follow-up a row may emit is an answer to that row.                *)
LEMMA FollowUps ==
    \A m \in Messages : /\ Failures(m) \subseteq {m} \X {"result", "failure"}
                        /\ \A out \in Outcomes(m) :
                               out \subseteq {m} \X {"result", "failure"}
  BY DEF Failures, Outcomes

(* Finishing a row or leaving it keeps the types of what it writes.        *)
LEMMA FinishTyped ==
    ASSUME TypeOK, NEW w \in Workers, work[w] \in Messages, Finish(w),
           inbox' \in [Messages -> Status],
           effects' \in [Messages -> Nat],
           emitted' \subseteq Messages \X {"result", "failure"},
           alerts' \subseteq Messages
    PROVE  TypeOK'
  BY DEF TypeOK, Finish, Status

(* So do the acceptance transaction and both kinds of refusal.             *)
LEMMA ApplyTyped ==
    ASSUME TypeOK, NEW w \in Workers, work[w] \in Messages, Apply(w)
    PROVE  TypeOK'
<1>1. /\ Finish(w)
      /\ inbox' = [inbox EXCEPT ![work[w]] = Accepted]
      /\ effects' = [effects EXCEPT ![work[w]] = @ + 1]
      /\ alerts' = alerts
      /\ \E out \in Outcomes(work[w]) : emitted' = emitted \cup out
  BY DEF Apply
<1>2. emitted' \subseteq Messages \X {"result", "failure"}
  BY <1>1, FollowUps DEF TypeOK
<1>3. inbox' \in [Messages -> Status]
  BY <1>1 DEF TypeOK, Status
<1>4. effects' \in [Messages -> Nat]
  BY <1>1 DEF TypeOK
<1> QED
  BY <1>1, <1>2, <1>3, <1>4, FinishTyped DEF TypeOK

(* A refusal writes one alert, one status and at most one failure.         *)
LEMMA RefusalTyped ==
    ASSUME TypeOK, NEW w \in Workers, work[w] \in Messages,
           RejectUnsupported(w) \/ RefuseInvalid(w)
    PROVE  TypeOK'
<1>1. /\ Finish(w)
      /\ effects' = effects
      /\ alerts' \subseteq alerts \cup {work[w]}
      /\ emitted' \subseteq emitted \cup Failures(work[w])
      /\ \/ inbox' = inbox
         \/ inbox' = [inbox EXCEPT ![work[w]] = Unsupported]
         \/ inbox' = [inbox EXCEPT ![work[w]] = Invalid]
  BY DEF RejectUnsupported, RefuseInvalid, FailureDue
<1>2. emitted' \subseteq Messages \X {"result", "failure"}
  BY <1>1, FollowUps DEF TypeOK
<1>3. inbox' \in [Messages -> Status]
  BY <1>1 DEF TypeOK, Status
<1> QED
  BY <1>1, <1>2, <1>3, FinishTyped DEF TypeOK

(* A transaction that writes the inbox row it works on leaves the rows     *)
(* other transactions hold as they read them.                              *)
LEMMA FinishLocked ==
    ASSUME TypeOK, LockInv, NEW w \in Workers, InTransaction(w),
           work[w] \in Messages, Finish(w),
           ~InboxConflict(w) \/ ~LockedByOther(w),
           \A m \in Messages \ {work[w]} : inbox'[m] = inbox[m]
    PROVE  LockInv'
<1> SUFFICES ASSUME NEW v \in Workers, InTransaction(v)', (seen[v] # Absent)'
             PROVE  ~LockedByOther(v)' /\ (inbox[work[v]] = seen[v])'
  BY DEF LockInv
<1>1. /\ v # w /\ stage'[v] = stage[v] /\ work'[v] = work[v] /\ seen'[v] = seen[v]
      /\ InTransaction(v)
      /\ work[v] \in Messages
  BY DEF InTransaction, Finish, TypeOK
<1>2. ~LockedByOther(v) /\ inbox[work[v]] = seen[v]
  BY <1>1 DEF LockInv
<1>3. ~LockedByOther(v)'
  BY <1>2 DEF LockedByOther, InTransaction, Finish, TypeOK
<1>4. work[v] # work[w]
  BY <1>1, <1>2 DEF LockedByOther, InboxConflict, InTransaction
<1> QED
  BY <1>1, <1>2, <1>3, <1>4

(* Opening a transaction keeps the types.                                  *)
LEMMA OpenTyped ==
    ASSUME TypeOK, NEW w \in Workers, NEW next \in {"applying", "refusing"},
           OpenAs(w, next), work[w] \in Messages, inbox[work[w]] \in Status
    PROVE  TypeOK'
<1>1. /\ stage' = [stage EXCEPT ![w] = next]
      /\ seen' = [seen EXCEPT ![w] = inbox[work[w]]]
      /\ UNCHANGED <<queue, work, lapsed, upgraded, crashes>>
  BY DEF OpenAs
<1>2. stage' \in [Workers -> {"idle", "claimed", "applying", "refusing"}]
  BY <1>1 DEF TypeOK
<1>3. seen' \in [Workers -> Status]
  BY <1>1 DEF TypeOK
<1>4. \A v \in Workers : stage'[v] # "idle" => work'[v] \in Messages
  BY <1>1 DEF TypeOK
<1> QED
  BY <1>1, <1>2, <1>3, <1>4 DEF TypeOK, queue

(* Leaving a row behind writes nothing but the worker's own state.         *)
LEMMA AbandonTyped ==
    ASSUME TypeOK, NEW w \in Workers, Abandon(w), crashes' \in Nat
    PROVE  TypeOK'
  BY DEF TypeOK, Abandon, Status, queue

(* The type invariant of the queue, together with the row lock: two        *)
(* workers never hold one inbox row, and a status once read FOR UPDATE     *)
(* still stands when the transaction writes.                               *)
THEOREM QueueBase == Spec => []Base
<1> USE QueueAssumption DEF Base
<1>1. Init => Base
  <2> SUFFICES ASSUME Init PROVE Base
    OBVIOUS
  <2>1. TypeOK
    BY DEF Init, TypeOK, Status
  <2>2. WorkInv /\ LockInv
    BY DEF Init, WorkInv, LockInv, InTransaction
  <2> QED
    BY <2>1, <2>2
<1>2. Base /\ [Next]_vars => Base'
  <2> SUFFICES ASSUME TypeOK, WorkInv, LockInv, [Next]_vars PROVE Base'
    OBVIOUS
  <2> USE DEF WorkInv, LockInv, InTransaction, LockedByOther
  <2>1. ASSUME NEW m \in Messages, Produce(m) PROVE Base'
    BY <2>1 DEF Produce, TypeOK
  <2>2. ASSUME NEW m \in Messages, Cancel(m) PROVE Base'
    BY <2>2 DEF Cancel, TypeOK
  <2>3. ASSUME NEW w \in Workers, NEW m \in Messages, Claim(w, m) PROVE Base'
    BY <2>3 DEF Claim, Claimable, TypeOK
  <2>4. ASSUME NEW m \in Messages, LeaseLapse(m) PROVE Base'
    BY <2>4 DEF LeaseLapse, TypeOK
  <2>5. ASSUME NEW w \in Workers, OpenToApply(w) \/ OpenToRefuse(w) PROVE Base'
    <3>1. PICK next \in {"applying", "refusing"} :
             /\ OpenAs(w, next)
             /\ stage[w] = "claimed"
             /\ next = "applying" => inbox[work[w]] # Accepted /\ work[w] \notin Malformed
             /\ next = "refusing" => work[w] \in Malformed \cup Conditional
      BY <2>5 DEF OpenToApply, OpenToRefuse
    <3>2. work[w] \in Messages /\ inbox[work[w]] \in Status
      BY <3>1 DEF TypeOK
    <3>3. TypeOK'
      BY <3>1, <3>2, OpenTyped
    <3>4. WorkInv'
      BY <3>1 DEF OpenAs, queue, TypeOK
    <3>5. LockInv'
      BY <3>1 DEF OpenAs, queue, TypeOK
    <3> QED
      BY <3>3, <3>4, <3>5
  <2>6. ASSUME NEW w \in Workers, Replay(w) PROVE Base'
    BY <2>6 DEF Replay, Finish, TypeOK, Status
  <2>7. ASSUME NEW w \in Workers, AcceptConsumed(w) \/ AcceptOwned(w) PROVE Base'
    <3>1. /\ stage[w] = "applying" /\ work[w] \in Messages /\ Apply(w) /\ Finish(w)
          /\ \/ ~InboxConflict(w)
             \/ ~LockedByOther(w)
      BY <2>7 DEF AcceptConsumed, AcceptOwned, Apply, TypeOK
    <3>2. TypeOK'
      BY <3>1, ApplyTyped
    <3>3. WorkInv'
      BY <3>1 DEF Finish, TypeOK
    <3>4. LockInv'
      BY <3>1, FinishLocked DEF Apply, TypeOK
    <3> QED
      BY <3>2, <3>3, <3>4
  <2>8. ASSUME NEW w \in Workers, RejectUnsupported(w) \/ RefuseInvalid(w) PROVE Base'
    <3>1. /\ InTransaction(w) /\ work[w] \in Messages /\ Finish(w) /\ ~InboxConflict(w)
          /\ \E st \in Status : inbox' = [inbox EXCEPT ![work[w]] = st]
      BY <2>8 DEF RejectUnsupported, RefuseInvalid, TypeOK, Status
    <3>2. TypeOK'
      BY <2>8, <3>1, RefusalTyped
    <3>3. WorkInv'
      BY <3>1 DEF Finish, TypeOK
    <3>4. LockInv'
      BY <3>1, FinishLocked DEF TypeOK
    <3> QED
      BY <3>2, <3>3, <3>4
  <2>9. ASSUME NEW w \in Workers, Conflict(w) \/ Crash(w) PROVE Base'
    <3>1. Abandon(w) /\ crashes' \in Nat
      BY <2>9 DEF Conflict, Crash, TypeOK
    <3>2. TypeOK'
      BY <3>1, AbandonTyped
    <3> QED
      BY <3>1, <3>2 DEF Abandon, queue, TypeOK
  <2>10. CASE Upgrade
    BY <2>10 DEF Upgrade, queue, TypeOK, Status
  <2>11. CASE UNCHANGED vars
    BY <2>11 DEF vars, queue, TypeOK
  <2> QED
    BY <2>1, <2>2, <2>3, <2>4, <2>5, <2>6, <2>7, <2>8, <2>9, <2>10, <2>11
       DEF Next, WorkerStep
<1> QED
  BY <1>1, <1>2, PTL DEF Spec
-----------------------------------------------------------------------------
(* Only four actions write the inbox, owner state or the outbox.           *)
LEMMA Writers ==
    ASSUME [Next]_vars
    PROVE  \/ UNCHANGED <<inbox, effects, emitted>>
           \/ \E w \in Workers : \/ AcceptConsumed(w) \/ AcceptOwned(w)
                                 \/ RejectUnsupported(w) \/ RefuseInvalid(w)
  BY DEF Next, WorkerStep, vars, queue, Produce, Cancel, Claim, LeaseLapse, OpenToApply,
         OpenToRefuse, OpenAs, Replay, Conflict, Crash, Abandon, Upgrade

(* What an acceptance finds and leaves: a consumed row was not accepted    *)
(* before, an emitting row had not emitted its result.                     *)
LEMMA AcceptStep ==
    ASSUME Base, NEW w \in Workers, AcceptConsumed(w) \/ AcceptOwned(w)
    PROVE  /\ work[w] \in outbox /\ work[w] \in Messages /\ work[w] \notin Malformed
           /\ stage[w] = "applying" /\ Supported(work[w]) /\ Finish(w)
           /\ inbox' = [inbox EXCEPT ![work[w]] = Accepted]
           /\ effects' = [effects EXCEPT ![work[w]] = @ + 1]
           /\ \E out \in Outcomes(work[w]) :
                  out \cap emitted = {} /\ emitted' = emitted \cup out
           /\ work[w] \in Consumed => inbox[work[w]] # Accepted
           /\ work[w] \in Emitting \ Consumed =>
                  <<work[w], "result">> \notin emitted /\ <<work[w], "result">> \in emitted'
<1>1. /\ stage[w] = "applying" /\ Supported(work[w]) /\ Apply(w)
      /\ work[w] \in Consumed => ~InboxConflict(w)
  BY DEF AcceptConsumed, AcceptOwned
<1>2. work[w] \in outbox /\ work[w] \in Messages /\ work[w] \notin Malformed /\ seen[w] # Accepted
  BY <1>1 DEF Base, TypeOK, WorkInv
<1>3. work[w] \in Consumed => inbox[work[w]] # Accepted
  BY <1>1, <1>2 DEF Base, LockInv, InTransaction, InboxConflict, Absent, Accepted
<1>4. work[w] \in Emitting \ Consumed => Outcomes(work[w]) = {{<<work[w], "result">>}}
  BY DEF Outcomes
<1> QED
  BY <1>1, <1>2, <1>3, <1>4 DEF Apply

(* What a refusal finds and leaves: it settles nothing that was applied    *)
(* through consume, and takes nothing back.                                *)
LEMMA RefuseStep ==
    ASSUME Base, NEW w \in Workers, RejectUnsupported(w) \/ RefuseInvalid(w)
    PROVE  /\ work[w] \in Messages /\ stage[w] # "idle" /\ Finish(w)
           /\ effects' = effects
           /\ emitted \subseteq emitted'
           /\ emitted' \subseteq emitted \cup {<<work[w], "failure">>}
           /\ \A m \in Messages \ {work[w]} : inbox'[m] = inbox[m]
           /\ inbox'[work[w]] # inbox[work[w]] =>
                  \/ /\ inbox[work[w]] = Absent
                     /\ inbox'[work[w]] = Unsupported
                  \/ /\ inbox'[work[w]] = Invalid
                     /\ work[w] \in Malformed \cup Conditional
<1>1. work[w] \in Messages /\ InTransaction(w) /\ Finish(w) /\ ~InboxConflict(w)
      /\ effects' = effects
  BY DEF RejectUnsupported, RefuseInvalid, Base, TypeOK, InTransaction
<1>2. inbox \in [Messages -> Status] /\ (stage[w] = "refusing" => work[w] \in Malformed \cup Conditional)
  BY DEF Base, TypeOK, WorkInv
<1>3. CASE RejectUnsupported(w)
  BY <1>1, <1>2, <1>3 DEF RejectUnsupported, Failures, InTransaction, InboxConflict
<1>4. CASE RefuseInvalid(w)
  BY <1>1, <1>2, <1>4 DEF RefuseInvalid, FailureDue, Failures, InTransaction
<1> QED
  BY <1>3, <1>4

(* The inductive form of EffectsAtMostOnce: whatever shows that a row was  *)
(* applied is still there: the accepted inbox row of consume, which no     *)
(* refusal can reach, or the follow-up with the derived key.               *)
AppliedOnce(m) ==
    /\ m \in Malformed => effects[m] = 0
    /\ m \in Consumed /\ effects[m] # 0 => effects[m] = 1 /\ inbox[m] = Accepted
    /\ m \in Emitting \ Consumed /\ effects[m] # 0 =>
           effects[m] = 1 /\ <<m, "result">> \in emitted

EffectInv == \A m \in Messages : AppliedOnce(m)

(* Every step keeps that evidence.                                         *)
LEMMA EffectInvStep == Base /\ EffectInv /\ [Next]_vars => EffectInv'
<1> SUFFICES ASSUME Base, EffectInv, [Next]_vars PROVE EffectInv'
  OBVIOUS
<1>0. effects \in [Messages -> Nat] /\ inbox \in [Messages -> Status]
  BY DEF Base, TypeOK
<1>1. CASE UNCHANGED <<inbox, effects, emitted>>
  BY <1>1 DEF EffectInv, AppliedOnce
<1>2. ASSUME NEW w \in Workers, AcceptConsumed(w) \/ AcceptOwned(w) PROVE EffectInv'
  <2>1. /\ work[w] \in Messages /\ work[w] \notin Malformed
        /\ inbox' = [inbox EXCEPT ![work[w]] = Accepted]
        /\ effects' = [effects EXCEPT ![work[w]] = @ + 1]
        /\ emitted \subseteq emitted'
        /\ work[w] \in Consumed => inbox[work[w]] # Accepted
        /\ work[w] \in Emitting \ Consumed =>
               <<work[w], "result">> \notin emitted /\ <<work[w], "result">> \in emitted'
    BY <1>2, AcceptStep
  <2>2. \A m \in Messages : m # work[w] => inbox'[m] = inbox[m] /\ effects'[m] = effects[m]
    BY <1>0, <2>1
  <2>3. work[w] \in Consumed \cup Emitting => effects[work[w]] = 0
    BY <2>1 DEF EffectInv, AppliedOnce
  <2>4. inbox'[work[w]] = Accepted /\ effects'[work[w]] = effects[work[w]] + 1
    BY <1>0, <2>1
  <2>5. ASSUME NEW m \in Messages, m # work[w] PROVE AppliedOnce(m)'
    BY <2>1, <2>2, <2>5 DEF EffectInv, AppliedOnce
  <2>6. ASSUME NEW m \in Messages, m = work[w] PROVE AppliedOnce(m)'
    BY <2>1, <2>3, <2>4, <2>6 DEF AppliedOnce
  <2> QED
    BY <2>5, <2>6 DEF EffectInv
<1>3. ASSUME NEW w \in Workers, RejectUnsupported(w) \/ RefuseInvalid(w) PROVE EffectInv'
  <2>1. work[w] \in Consumed => work[w] \notin Conditional
    BY QueueAssumption
  <2>2. /\ work[w] \in Messages /\ effects' = effects
        /\ emitted \subseteq emitted'
        /\ emitted' \subseteq emitted \cup {<<work[w], "failure">>}
        /\ inbox'[work[w]] # inbox[work[w]] =>
               \/ inbox[work[w]] = Absent /\ inbox'[work[w]] = Unsupported
               \/ inbox'[work[w]] = Invalid /\ work[w] \in Malformed \cup Conditional
    BY Zenon, <1>3, RefuseStep
  <2>3. \A m \in Messages : m # work[w] => inbox'[m] = inbox[m]
    BY <1>3, RefuseStep
  <2>4. \A m \in Messages : <<m, "result">> \in emitted' <=> <<m, "result">> \in emitted
    BY <2>2
  <2>5. ASSUME NEW m \in Messages, m # work[w] PROVE AppliedOnce(m)'
    BY <2>2, <2>3, <2>4, <2>5 DEF EffectInv, AppliedOnce
  <2>6. ASSUME NEW m \in Messages, m = work[w] PROVE AppliedOnce(m)'
    BY <2>1, <2>2, <2>4, <2>6, QueueAssumption
    DEF EffectInv, AppliedOnce, Absent, Accepted, Unsupported, Invalid
  <2> QED
    BY <2>5, <2>6 DEF EffectInv
<1> QED
  BY <1>1, <1>2, <1>3, Writers

(* With one process per role, a busy worker's row is never settled, and    *)
(* whatever was applied or answered is.                                    *)
SingleInv ==
    Single => /\ \A w \in Workers : stage[w] # "idle" => inbox[work[w]] \notin Settled
              /\ \A m \in Messages : effects[m] # 0 =>
                     effects[m] = 1 /\ inbox[m] = Accepted
              /\ \A m \in Messages \ Newer : \A a \in {"result", "failure"} :
                     <<m, a>> \in emitted => inbox[m] \in Settled
              /\ \A m \in Messages \ Newer : ~BothAnswers(m)

(* The only worker wrote its row, which nothing had settled before.        *)
LEMMA SingleWrite ==
    ASSUME SingleInv, Single, NEW row \in Messages,
           inbox[row] \notin Settled, effects[row] = 0,
           \A v \in Workers : stage'[v] = "idle",
           \A m \in Messages \ {row} : inbox'[m] = inbox[m] /\ effects'[m] = effects[m],
           effects'[row] # 0 => effects'[row] = 1 /\ inbox'[row] = Accepted,
           \/ emitted' \subseteq emitted \cup {<<row, "result">>}
           \/ emitted' \subseteq emitted \cup {<<row, "failure">>},
           row \notin Newer /\ emitted' # emitted => inbox'[row] \in Settled
    PROVE  SingleInv'
<1>1. \A m \in Messages : effects'[m] # 0 => effects'[m] = 1 /\ inbox'[m] = Accepted
  BY DEF SingleInv
<1>2. row \notin Newer => \A a \in {"result", "failure"} : <<row, a>> \notin emitted
  BY DEF SingleInv
<1>3. \A m \in Messages \ {row} : \A a \in {"result", "failure"} :
          <<m, a>> \in emitted' => <<m, a>> \in emitted
  OBVIOUS
<1>4. \A m \in Messages \ Newer : \A a \in {"result", "failure"} :
          <<m, a>> \in emitted' => inbox'[m] \in Settled
  <2> SUFFICES ASSUME NEW m \in Messages \ Newer, NEW a \in {"result", "failure"},
                      <<m, a>> \in emitted'
               PROVE  inbox'[m] \in Settled
    OBVIOUS
  <2>1. CASE m = row
    BY <1>2, <2>1
  <2>2. CASE m # row
    BY <1>3, <2>2 DEF SingleInv
  <2> QED
    BY <2>1, <2>2
<1>5. \A m \in Messages \ Newer : ~BothAnswers(m)'
  <2> SUFFICES ASSUME NEW m \in Messages \ Newer PROVE ~BothAnswers(m)'
    OBVIOUS
  <2>1. CASE m = row
    BY <1>2, <2>1 DEF BothAnswers
  <2>2. CASE m # row
    BY <1>3, <2>2 DEF SingleInv, BothAnswers
  <2> QED
    BY <2>1, <2>2
<1> QED
  BY <1>1, <1>4, <1>5 DEF SingleInv

(* Every step of a role run by one process keeps it so.                    *)
LEMMA SingleInvStep == Base /\ SingleInv /\ [Next]_vars => SingleInv'
<1> SUFFICES ASSUME Base, SingleInv, [Next]_vars, Single PROVE SingleInv'
  BY DEF SingleInv, Single
<1>0. /\ effects \in [Messages -> Nat] /\ inbox \in [Messages -> Status]
      /\ stage \in [Workers -> {"idle", "claimed", "applying", "refusing"}]
      /\ work \in [Workers -> Messages \cup {NoMessage}]
      /\ \A v, w \in Workers : v = w
  BY DEF Base, TypeOK, Single
<1>1. CASE UNCHANGED <<inbox, effects, emitted>>
  <2>1. ASSUME NEW w \in Workers, stage'[w] # "idle" PROVE inbox'[work'[w]] \notin Settled
    <3>1. ASSUME NEW m \in Messages, Claim(w, m) PROVE inbox'[work'[w]] \notin Settled
      BY <1>0, <1>1, <3>1 DEF Claim, Claimable
    <3>2. CASE stage[w] # "idle" /\ work'[w] = work[w]
      BY <1>1, <3>2 DEF SingleInv
    <3>3. (\E m \in Messages : Claim(w, m)) \/ (stage[w] # "idle" /\ work'[w] = work[w])
      BY <1>0, <2>1 DEF Next, WorkerStep, vars, queue, Produce, Cancel, Claim, LeaseLapse,
         OpenToApply, OpenToRefuse, OpenAs, Replay, Finish, AcceptConsumed, AcceptOwned,
         Apply, RejectUnsupported, RefuseInvalid, Conflict, Crash, Abandon, Upgrade
    <3> QED
      BY <3>1, <3>2, <3>3
  <2> QED
    BY <1>1, <2>1 DEF SingleInv, BothAnswers
<1>2. ASSUME NEW w \in Workers, AcceptConsumed(w) \/ AcceptOwned(w) PROVE SingleInv'
  <2>1. /\ work[w] \in Messages /\ stage[w] # "idle" /\ Finish(w)
        /\ inbox' = [inbox EXCEPT ![work[w]] = Accepted]
        /\ effects' = [effects EXCEPT ![work[w]] = @ + 1]
        /\ \E out \in Outcomes(work[w]) : emitted' = emitted \cup out
    BY <1>2, AcceptStep
  <2>2. \/ emitted' \subseteq emitted \cup {<<work[w], "result">>}
        \/ emitted' \subseteq emitted \cup {<<work[w], "failure">>}
    BY <2>1 DEF Outcomes, Failures
  <2>3. inbox[work[w]] \notin Settled /\ effects[work[w]] = 0
    BY <2>1 DEF SingleInv, Settled
  <2>4. \A v \in Workers : stage'[v] = "idle"
    BY <1>0, <2>1 DEF Finish
  <2>5. \A m \in Messages : /\ m # work[w] => inbox'[m] = inbox[m] /\ effects'[m] = effects[m]
                            /\ m = work[w] => inbox'[m] = Accepted /\ effects'[m] = 1
    BY <1>0, <2>1, <2>3
  <2>6. work[w] \in Messages
    BY <2>1
  <2> QED
    BY <2>2, <2>3, <2>4, <2>5, <2>6, SingleWrite DEF Settled
<1>3. ASSUME NEW w \in Workers, RejectUnsupported(w) \/ RefuseInvalid(w) PROVE SingleInv'
  <2>1. /\ work[w] \in Messages /\ stage[w] # "idle" /\ Finish(w)
        /\ effects' = effects
        /\ emitted' \subseteq emitted \cup {<<work[w], "failure">>}
        /\ \A m \in Messages \ {work[w]} : inbox'[m] = inbox[m]
    BY <1>3, RefuseStep
  <2>2. inbox[work[w]] \notin Settled /\ effects[work[w]] = 0
    BY <2>1 DEF SingleInv, Settled
  <2>3. \A v \in Workers : stage'[v] = "idle"
    BY <1>0, <2>1 DEF Finish
  <2>4. work[w] \notin Newer /\ emitted' # emitted => inbox'[work[w]] \in Settled
    BY <1>0, <1>3 DEF RejectUnsupported, RefuseInvalid, Supported, Base, TypeOK, Settled
  <2> QED
    BY <1>0, <2>1, <2>2, <2>3, <2>4, SingleWrite
<1> QED
  BY <1>1, <1>2, <1>3, Writers
-----------------------------------------------------------------------------
(* EffectsAtMostOnce and OneAnswer, for any number of rows, crashes, lapsed*)
(* leases and workers: the inbox row and the derived keys make delivery    *)
(* idempotent.                                                             *)
THEOREM AtMostOnce == Spec => [](EffectsAtMostOnce /\ OneAnswer)
<1>1. Init => EffectInv /\ SingleInv
  BY DEF Init, EffectInv, AppliedOnce, SingleInv, BothAnswers
<1>2. Base /\ EffectInv /\ SingleInv => EffectsAtMostOnce /\ OneAnswer
  <2> SUFFICES ASSUME Base, EffectInv, SingleInv PROVE EffectsAtMostOnce /\ OneAnswer
    OBVIOUS
  <2>1. \A m \in Messages : m \in Keyed \/ Single => effects[m] = 0 \/ effects[m] = 1
    BY DEF EffectInv, AppliedOnce, SingleInv, Keyed
  <2> QED
    BY <2>1 DEF SingleInv, EffectsAtMostOnce, OneAnswer, Base, TypeOK
<1> QED
  BY <1>1, <1>2, QueueBase, EffectInvStep, SingleInvStep, PTL DEF Spec

(* SettledForGood: with one process per role, an accepted or refused row   *)
(* keeps its status and its effect, whatever is delivered again.           *)
THEOREM Settlement == Spec => SettledForGood
<1>1. Base /\ SingleInv /\ [Next]_vars =>
          [\A m \in Messages : (Single /\ inbox[m] \in Settled)
               => inbox'[m] = inbox[m] /\ effects'[m] = effects[m]]_vars
  <2> SUFFICES ASSUME Base, SingleInv, [Next]_vars, Single,
                      NEW m \in Messages, inbox[m] \in Settled
               PROVE  inbox'[m] = inbox[m] /\ effects'[m] = effects[m]
    OBVIOUS
  <2>0. inbox \in [Messages -> Status] /\ effects \in [Messages -> Nat]
    BY DEF Base, TypeOK
  <2>1. CASE UNCHANGED <<inbox, effects, emitted>>
    BY <2>1
  <2>2. ASSUME NEW w \in Workers, AcceptConsumed(w) \/ AcceptOwned(w)
        PROVE  inbox'[m] = inbox[m] /\ effects'[m] = effects[m]
    <3>1. /\ stage[w] # "idle" /\ work[w] \in Messages
          /\ inbox' = [inbox EXCEPT ![work[w]] = Accepted]
          /\ effects' = [effects EXCEPT ![work[w]] = @ + 1]
      BY <2>2, AcceptStep
    <3> QED
      BY <2>0, <3>1 DEF SingleInv
  <2>3. ASSUME NEW w \in Workers, RejectUnsupported(w) \/ RefuseInvalid(w)
        PROVE  inbox'[m] = inbox[m] /\ effects'[m] = effects[m]
    <3>1. /\ stage[w] # "idle" /\ effects' = effects
          /\ \A n \in Messages \ {work[w]} : inbox'[n] = inbox[n]
      BY <2>3, RefuseStep
    <3> QED
      BY <3>1 DEF SingleInv
  <2> QED
    BY <2>1, <2>2, <2>3, Writers
<1>2. Init => SingleInv
  BY DEF Init, SingleInv, BothAnswers
<1> QED
  BY <1>1, <1>2, QueueBase, SingleInvStep, PTL DEF Spec, SettledForGood

(* RejectionsAlerted holds of every row: the alert commits with the status.*)
THEOREM Alerted == Spec => []RejectionsAlerted
<1>1. Init => RejectionsAlerted
  BY DEF Init, RejectionsAlerted, Absent, Unsupported, Invalid
<1>2. Base /\ RejectionsAlerted /\ [Next]_vars => RejectionsAlerted'
  <2> SUFFICES ASSUME Base, RejectionsAlerted, [Next]_vars PROVE RejectionsAlerted'
    OBVIOUS
  <2>0. inbox \in [Messages -> Status]
    BY DEF Base, TypeOK
  <2>1. CASE UNCHANGED <<inbox, effects, emitted>>
    <3>1. alerts \subseteq alerts'
      BY DEF Next, WorkerStep, vars, queue, Produce, Cancel, Claim, LeaseLapse,
         OpenToApply, OpenToRefuse, OpenAs, Replay, AcceptConsumed, AcceptOwned, Apply,
         RejectUnsupported, RefuseInvalid, Conflict, Crash, Abandon, Upgrade
    <3> QED
      BY <2>1, <3>1 DEF RejectionsAlerted
  <2>2. ASSUME NEW w \in Workers, AcceptConsumed(w) \/ AcceptOwned(w)
        PROVE  RejectionsAlerted'
    <3>1. alerts' = alerts /\ inbox' = [inbox EXCEPT ![work[w]] = Accepted]
      BY <2>2 DEF AcceptConsumed, AcceptOwned, Apply
    <3> QED
      BY <2>0, <3>1 DEF RejectionsAlerted, Accepted, Unsupported, Invalid
  <2>3. ASSUME NEW w \in Workers, RejectUnsupported(w) \/ RefuseInvalid(w)
        PROVE  RejectionsAlerted'
    BY <2>0, <2>3 DEF RejectUnsupported, RefuseInvalid, RejectionsAlerted
  <2> QED
    BY <2>1, <2>2, <2>3, Writers
<1> QED
  BY <1>1, <1>2, QueueBase, PTL DEF Spec
-----------------------------------------------------------------------------
(* The inductive form of LeaseExclusive: a busy worker whose lease still   *)
(* runs is the one named in the claim, or nobody can claim its row again.  *)
Retired(m) == \/ m \in cancelled
              \/ inbox[m] \in Settled
              \/ inbox[m] = Unsupported /\ ~Supported(m)

LeaseInv ==
    /\ \A w \in Workers : stage[w] # "idle" /\ ~lapsed[w] =>
           claim[work[w]] = {w} \/ Retired(work[w])
    /\ LeaseExclusive

(* Giving a row up leaves the other workers under the lease invariant when *)
(* the row is retired, or when only its own claim was left to lapse.       *)
LEMMA LeaveLease ==
    ASSUME Base, LeaseInv, NEW w \in Workers,
           \A v \in Workers \ {w} : /\ stage'[v] = stage[v] /\ work'[v] = work[v]
                                    /\ lapsed'[v] = lapsed[v],
           stage'[w] = "idle",
           \A m \in Messages : \/ claim'[m] = claim[m] /\ (Retired(m) => Retired(m)')
                               \/ Retired(m)'
    PROVE  LeaseInv'
<1>1. ASSUME NEW v \in Workers, stage'[v] # "idle", ~lapsed'[v]
      PROVE  (claim[work[v]] = {v} \/ Retired(work[v]))'
  <2>1. /\ v # w /\ work'[v] = work[v] /\ work[v] \in Messages
        /\ claim[work[v]] = {v} \/ Retired(work[v])
    BY <1>1 DEF LeaseInv, Base, TypeOK
  <2>2. PICK m \in Messages : m = work[v]
    BY <2>1
  <2>3. claim'[m] = {v} \/ Retired(m)'
    BY <2>1, <2>2
  <2>4. m = work'[v]
    BY <2>1, <2>2
  <2> QED
    BY <2>3, <2>4 DEF Retired, Supported
<1>2. LeaseExclusive'
  BY DEF LeaseInv, LeaseExclusive
<1> QED
  BY <1>1, <1>2 DEF LeaseInv

(* LeaseExclusive for any number of workers: although _release_claim does  *)
(* not ask whose claim it clears, no row is worked on under two leases     *)
(* that both still run.                                                    *)
THEOREM LeasesExclude == Spec => []LeaseExclusive
<1>1. Init => LeaseInv
  BY DEF Init, LeaseInv, LeaseExclusive
<1>2. Base /\ LeaseInv /\ [Next]_vars => LeaseInv'
  <2> SUFFICES ASSUME Base, LeaseInv, [Next]_vars PROVE LeaseInv'
    OBVIOUS
  <2>0. TypeOK
    BY DEF Base
  <2> USE DEF LeaseInv, LeaseExclusive, Retired, Supported
  <2>1. ASSUME NEW m \in Messages, Produce(m) PROVE LeaseInv'
    BY <2>1 DEF Produce
  <2>2. ASSUME NEW m \in Messages, Cancel(m) PROVE LeaseInv'
    BY <2>0, <2>2 DEF Cancel, TypeOK
  <2>3. ASSUME NEW w \in Workers, NEW m \in Messages, Claim(w, m) PROVE LeaseInv'
    <3>1. ASSUME NEW v \in Workers, v # w, stage[v] # "idle", work[v] = m PROVE lapsed[v]
      BY <2>3, <3>1 DEF Claim, Claimable
    <3>2. /\ \A v \in Workers \ {w} : /\ stage'[v] = stage[v] /\ work'[v] = work[v]
                                       /\ lapsed'[v] = lapsed[v]
          /\ work'[w] = m /\ claim' = [claim EXCEPT ![m] = {w}] /\ claim[m] = {}
          /\ UNCHANGED <<cancelled, inbox, upgraded>>
      BY <2>0, <2>3 DEF Claim, Claimable, TypeOK
    <3>3. LeaseExclusive'
      BY <3>1, <3>2
    <3>4. ASSUME NEW v \in Workers, stage'[v] # "idle", ~lapsed'[v]
          PROVE  (claim[work[v]] = {v} \/ Retired(work[v]))'
      BY <2>0, <3>1, <3>2, <3>4 DEF TypeOK
    <3> QED
      BY <3>3, <3>4
  <2>4. ASSUME NEW m \in Messages, LeaseLapse(m) PROVE LeaseInv'
    BY <2>0, <2>4 DEF LeaseLapse, TypeOK
  <2>5. ASSUME NEW w \in Workers, OpenToApply(w) \/ OpenToRefuse(w) PROVE LeaseInv'
    BY <2>0, <2>5 DEF OpenToApply, OpenToRefuse, OpenAs, queue, TypeOK
  <2>6. ASSUME NEW w \in Workers, Replay(w) PROVE LeaseInv'
    BY <2>0, <2>6, LeaveLease DEF Replay, Finish, Settled, TypeOK
  <2>7. ASSUME NEW w \in Workers, AcceptConsumed(w) \/ AcceptOwned(w) PROVE LeaseInv'
    BY <2>0, <2>7, LeaveLease DEF AcceptConsumed, AcceptOwned, Apply, Finish, Settled, TypeOK
  <2>8. ASSUME NEW w \in Workers, RefuseInvalid(w) PROVE LeaseInv'
    BY <2>0, <2>8, LeaveLease DEF RefuseInvalid, Finish, Settled, TypeOK
  <2>9. ASSUME NEW w \in Workers, RejectUnsupported(w) PROVE LeaseInv'
    <3>1. /\ work[w] \in Messages /\ Finish(w) /\ ~Supported(work[w])
          /\ \A m \in Messages \ {work[w]} : inbox'[m] = inbox[m]
      BY <2>0, <2>9 DEF RejectUnsupported, TypeOK
    <3>2. inbox'[work[w]] \in {Unsupported, Invalid}
      BY <2>0, <2>9 DEF RejectUnsupported, Base, TypeOK, WorkInv, LockInv, InTransaction,
         Status
    <3> QED
      BY <2>0, <3>1, <3>2, LeaveLease DEF Finish, Settled, TypeOK
  <2>10. ASSUME NEW w \in Workers, Conflict(w) \/ Crash(w) PROVE LeaseInv'
    BY <2>0, <2>10, LeaveLease DEF Conflict, Crash, Abandon, queue, TypeOK
  <2>11. CASE Upgrade
    BY <2>0, <2>11 DEF Upgrade, queue, TypeOK
  <2>12. CASE UNCHANGED vars
    BY <2>12 DEF vars, queue
  <2> QED
    BY <2>1, <2>2, <2>3, <2>4, <2>5, <2>6, <2>7, <2>8, <2>9, <2>10, <2>11, <2>12
       DEF Next, WorkerStep
<1>3. LeaseInv => LeaseExclusive
  BY DEF LeaseInv
<1> QED
  BY <1>1, <1>2, <1>3, QueueBase, PTL DEF Spec
-----------------------------------------------------------------------------
(* An answered row is settled, and a settled row is under no claim.        *)
AnswerInv ==
    \A m \in Messages \ Newer :
        /\ <<m, "result">> \in emitted \/ <<m, "failure">> \in emitted
               => inbox[m] \in Settled
        /\ inbox[m] \in Settled => claim[m] = {}

(* A worker that gives its row up with at most one answer to it, having    *)
(* settled the row if it answered, was the only one to answer if it still  *)
(* held the claim.                                                         *)
LEMMA AnswerStep ==
    ASSUME Base, AnswerInv, NEW w \in Workers, Finish(w), work[w] \in Messages,
           NEW s \in Status, NEW k \in {"result", "failure"},
           NEW out \in SUBSET {<<work[w], k>>},
           inbox'[work[w]] = s, \A m \in Messages \ {work[w]} : inbox'[m] = inbox[m],
           emitted' = emitted \cup out,
           \/ s \in Settled
           \/ inbox[work[w]] \notin Settled /\ (out = {} \/ work[w] \in Newer)
    PROVE  /\ AnswerInv'
           /\ \A m \in Messages \ Newer :
                  claim[m] = {w} /\ BothAnswers(m)' => BothAnswers(m)
<1>1. ASSUME NEW m \in Messages \ Newer, m # work[w]
      PROVE  /\ inbox'[m] = inbox[m] /\ claim'[m] = claim[m]
             /\ \A j \in {"result", "failure"} : <<m, j>> \in emitted' => <<m, j>> \in emitted
  BY <1>1 DEF Base, TypeOK, Finish
<1>2. inbox'[work[w]] = s /\ claim'[work[w]] = {}
  BY DEF Base, TypeOK, Finish
<1>3. work[w] \notin Newer /\ s \notin Settled
         => \A j \in {"result", "failure"} : <<work[w], j>> \notin emitted'
  BY DEF AnswerInv
<1>4. AnswerInv'
  BY <1>1, <1>2, <1>3 DEF AnswerInv
<1>5. ASSUME NEW m \in Messages \ Newer, claim[m] = {w}, BothAnswers(m)'
      PROVE  BothAnswers(m)
  <2>1. <<m, "result">> \notin emitted /\ <<m, "failure">> \notin emitted
    BY <1>5 DEF AnswerInv
  <2> QED
    BY <1>5, <2>1 DEF BothAnswers
<1> QED
  BY <1>4, <1>5

(* OneAnswerUnderLease for any number of workers: a row that its claimant  *)
(* still holds was not settled by anyone, and what is not settled has no   *)
(* answer yet.                                                             *)
THEOREM AnswersUnderLease == Spec => OneAnswerUnderLease
<1>1. Init => AnswerInv
  BY DEF Init, AnswerInv, Settled, Absent, Accepted, Invalid
<1>2. ASSUME Base, AnswerInv, NEW w \in Workers, WorkerStep(w)
      PROVE  /\ AnswerInv'
             /\ \A m \in Messages \ Newer :
                    claim[m] = {w} /\ BothAnswers(m)' => BothAnswers(m)
  <2>0. TypeOK
    BY <1>2 DEF Base
  <2>1. ASSUME NEW m \in Messages, Claim(w, m)
        PROVE  AnswerInv' /\ emitted' = emitted
    BY <1>2, <2>0, <2>1 DEF AnswerInv, Claim, Claimable, TypeOK
  <2>2. CASE OpenToApply(w) \/ OpenToRefuse(w) \/ Conflict(w)
    <3>1. queue' = queue
      BY <2>2 DEF OpenToApply, OpenToRefuse, OpenAs, Conflict, Abandon
    <3> QED
      BY <1>2, <3>1 DEF queue, AnswerInv, BothAnswers
  <2>3. CASE Replay(w)
    <3>1. inbox' = inbox /\ emitted' = emitted /\ Finish(w) /\ work[w] \in Messages
          /\ stage[w] # "idle"
      BY <2>0, <2>3 DEF Replay, TypeOK
    <3>2. \A m \in Messages : claim'[m] \in {claim[m], {}}
      BY <2>0, <3>1 DEF Finish, TypeOK
    <3> QED
      BY <1>2, <3>1, <3>2 DEF AnswerInv, BothAnswers
  <2>5. CASE AcceptConsumed(w) \/ AcceptOwned(w)
    <3>1. /\ Finish(w) /\ work[w] \in Messages
          /\ inbox'[work[w]] = Accepted
          /\ \A m \in Messages \ {work[w]} : inbox'[m] = inbox[m]
      BY <2>0, <2>5 DEF AcceptConsumed, AcceptOwned, Apply, TypeOK
    <3>2. PICK out \in Outcomes(work[w]) : emitted' = emitted \cup out
      BY <2>5 DEF AcceptConsumed, AcceptOwned, Apply
    <3>3. PICK k \in {"result", "failure"} : out \in SUBSET {<<work[w], k>>}
      BY <3>2 DEF Outcomes, Failures
    <3>4. Accepted \in Status /\ Accepted \in Settled
      BY DEF Status, Settled
    <3> QED
      BY <1>2, <3>1, <3>2, <3>3, <3>4, AnswerStep
  <2>6. CASE RefuseInvalid(w)
    <3>1. /\ Finish(w) /\ work[w] \in Messages
          /\ inbox'[work[w]] = Invalid
          /\ \A m \in Messages \ {work[w]} : inbox'[m] = inbox[m]
          /\ emitted' = emitted \cup FailureDue(w)
      BY <2>0, <2>6 DEF RefuseInvalid, TypeOK
    <3>2. /\ FailureDue(w) \in SUBSET {<<work[w], "failure">>}
          /\ Invalid \in Status /\ Invalid \in Settled
      BY DEF FailureDue, Failures, Status, Settled
    <3> QED
      BY <1>2, <3>1, <3>2, AnswerStep
  <2>7. CASE RejectUnsupported(w)
    <3>1. /\ Finish(w) /\ work[w] \in Messages /\ work[w] \in Newer
          /\ inbox[work[w]] \in Status
      BY <2>0, <2>7 DEF RejectUnsupported, Supported, TypeOK
    <3>2. CASE seen[w] = Absent
      <4>1. /\ inbox'[work[w]] = Unsupported /\ inbox[work[w]] = Absent
            /\ \A m \in Messages \ {work[w]} : inbox'[m] = inbox[m]
        BY <2>0, <2>7, <3>1, <3>2 DEF RejectUnsupported, InboxConflict, TypeOK
      <4>2. PICK out \in SUBSET {<<work[w], "failure">>} : emitted' = emitted \cup out
        <5>1. Failures(work[w]) \subseteq {<<work[w], "failure">>}
          BY DEF Failures
        <5> QED
          BY <2>7, <3>2, <5>1 DEF RejectUnsupported
      <4>3. Unsupported \in Status /\ Absent \notin Settled
        BY DEF Status, Settled, Absent, Accepted, Unsupported, Invalid
      <4> QED
        BY <1>2, <3>1, <4>1, <4>2, <4>3, AnswerStep
    <3>3. CASE seen[w] # Absent
      <4>1. inbox' = inbox /\ emitted' = emitted
        BY <2>7, <3>3 DEF RejectUnsupported
      <4>2. \A m \in Messages : claim'[m] \in {claim[m], {}}
        BY <2>0, <3>1 DEF Finish, TypeOK
      <4> QED
        BY <1>2, <4>1, <4>2 DEF AnswerInv, BothAnswers
    <3> QED
      BY <3>2, <3>3
  <2> QED
    BY <1>2, <2>1, <2>2, <2>3, <2>5, <2>6, <2>7 DEF WorkerStep, BothAnswers
<1>3. ASSUME Base, AnswerInv, [Next]_vars,
             \A w \in Workers : ~WorkerStep(w)
      PROVE  AnswerInv' /\ emitted' = emitted
  BY <1>3 DEF Next, Produce, Cancel, LeaseLapse, Crash, Abandon, Upgrade, queue, vars,
     AnswerInv, Base, TypeOK
<1>4. Base /\ AnswerInv /\ [Next]_vars => AnswerInv'
  BY <1>2, <1>3
<1>5. Base /\ AnswerInv /\ [Next]_vars
         => [\A m \in Messages \ Newer, w \in Workers :
                (work[w] = m /\ claim[m] = {w} /\ work'[w] # m /\ BothAnswers(m)')
                    => BothAnswers(m)]_vars
  <2> SUFFICES ASSUME Base, AnswerInv, [Next]_vars,
                      NEW m \in Messages \ Newer, NEW w \in Workers,
                      work[w] = m, claim[m] = {w}, work'[w] # m, BothAnswers(m)'
               PROVE  BothAnswers(m)
    OBVIOUS
  <2>1. CASE \A v \in Workers : ~WorkerStep(v)
    BY <1>3, <2>1 DEF BothAnswers
  <2>2. ASSUME NEW v \in Workers, WorkerStep(v) PROVE BothAnswers(m)
    <3>1. CASE v = w
      BY <1>2, <2>2, <3>1
    <3>2. CASE v # w
      BY <2>2, <3>2 DEF WorkerStep, Claim, OpenToApply, OpenToRefuse, OpenAs, Replay,
         AcceptConsumed, AcceptOwned, Apply, RejectUnsupported, RefuseInvalid, Finish,
         Conflict, Abandon, Base, TypeOK
    <3> QED
      BY <3>1, <3>2
  <2> QED
    BY <2>1, <2>2
<1> QED
  BY <1>1, <1>4, <1>5, QueueBase, PTL DEF Spec, OneAnswerUnderLease
-----------------------------------------------------------------------------
(* HandoffSpec: the queue implements the handoff (a contract is sent and   *)
(* then changes owner state at most once) when every row of the role is    *)
(* keyed, or one process runs the role.                                    *)
THEOREM ImplementsHandoff ==
    ASSUME Messages \subseteq Keyed \/ Single
    PROVE  Spec => HandoffSpec
<1>1. Init => Handoff!Init
  BY DEF Init, Handoff!Init
<1>2. Base /\ EffectInv /\ SingleInv /\ [Next]_vars => [Handoff!Next]_<<outbox, effects>>
  <2> SUFFICES ASSUME Base, EffectInv, SingleInv, [Next]_vars
               PROVE  [Handoff!Next]_<<outbox, effects>>
    OBVIOUS
  <2>1. ASSUME NEW w \in Workers, AcceptConsumed(w) \/ AcceptOwned(w)
        PROVE  Handoff!Next
    <3>1. /\ work[w] \in outbox /\ work[w] \in Messages /\ outbox' = outbox
          /\ stage[w] # "idle"
          /\ effects' = [effects EXCEPT ![work[w]] = @ + 1]
          /\ work[w] \in Consumed => inbox[work[w]] # Accepted
          /\ work[w] \in Emitting \ Consumed => <<work[w], "result">> \notin emitted
      BY <2>1, AcceptStep DEF Finish
    <3>2. effects[work[w]] = 0
      <4>1. CASE work[w] \in Keyed
        BY <3>1, <4>1 DEF EffectInv, AppliedOnce, Keyed
      <4>2. CASE Single
        BY <3>1, <4>2 DEF SingleInv, Settled
      <4> QED
        BY <3>1, <4>1, <4>2
    <3>3. effects' = [effects EXCEPT ![work[w]] = 1]
      BY <3>1, <3>2 DEF Base, TypeOK
    <3> QED
      BY <3>1, <3>2, <3>3 DEF Handoff!Next, Handoff!Apply
  <2>2. ASSUME NEW m \in Messages, Produce(m) PROVE Handoff!Next
    BY <2>2 DEF Produce, Handoff!Next, Handoff!Send
  <2>3. \/ UNCHANGED <<outbox, effects>>
        \/ \E m \in Messages : Produce(m)
        \/ \E w \in Workers : AcceptConsumed(w) \/ AcceptOwned(w)
    BY DEF Next, WorkerStep, vars, queue, Cancel, Claim, LeaseLapse, OpenToApply,
       OpenToRefuse, OpenAs, Replay, Finish, RejectUnsupported, RefuseInvalid, Conflict,
       Crash, Abandon, Upgrade
  <2> QED
    BY <2>1, <2>2, <2>3
<1>3. Init => EffectInv /\ SingleInv
  BY DEF Init, EffectInv, AppliedOnce, SingleInv, BothAnswers
<1> QED
  BY <1>1, <1>2, <1>3, QueueBase, EffectInvStep, SingleInvStep, PTL
     DEF Spec, HandoffSpec, Handoff!Spec
-----------------------------------------------------------------------------
(* What a role does between the claim and the transaction that settles it  *)
(* is its own.  The longest is Classification's: C is ClassifierExecution, *)
(* and what follows holds for every set of commands, candidates and budget.*)
CONSTANTS Commands, Candidates, NoCandidate, MaxAttempts
VARIABLES row, attempts, proofWork, proposals, circuit, probeDue, deleted, paused,
          pausing, pc, job, run, calls

C == INSTANCE ClassifierExecution WITH work <- proofWork

RunType  == [cmd : Commands \cup {0}, mode : {"none", "fresh", "second", "proofs"},
             key : C!Keys, out : C!Output, done : SUBSET C!Keys, proofs : C!Proofs,
             tried : SUBSET Candidates, circuit : C!Circuits]
WorkType == [out : C!Output, proofs : C!Proofs]

(* The types that the argument needs.                                      *)
ExecutionTyped ==
    /\ attempts \in [Commands -> [C!Keys -> Seq(BOOLEAN)]]
    /\ calls \in [Commands -> [C!Keys -> Nat]]
    /\ proofWork \in [Commands -> WorkType]
    /\ run \in RunType
    /\ pc = "claimed" => job \in C!Jobs

(* The calls of a pass or of a candidate's proof are its numbered attempts.*)
CallsCounted ==
    \A c \in Commands, k \in C!Keys :
        calls[c][k] = Len(attempts[c][k]) /\ calls[c][k] <= MaxAttempts

(* An output is that of the last attempt of its pass.                      *)
OutputOf(c, out) ==
    /\ out.pass \in {1, 2}
    /\ out.number = Len(attempts[c][<<out.pass, NoCandidate>>])

ProofsMade(out) == {[candidate |-> k, pass |-> out.pass, number |-> out.number] :
                        k \in out.candidates}

SecondSucceeded(c) == attempts[c][C!Second] # <<>> /\ C!Last(attempts[c][C!Second])

(* What is kept between two runs is the output of the second pass, which   *)
(* succeeded last, with proofs made for it.                                *)
WorkKept ==
    \A c \in Commands :
        proofWork[c] # C!NoWork =>
            /\ OutputOf(c, proofWork[c].out) /\ proofWork[c].out.pass = 2
            /\ proofWork[c].proofs \subseteq ProofsMade(proofWork[c].out)
            /\ SecondSucceeded(c)

(* What a run holds in memory: attempts that were admitted; it resumes     *)
(* what was kept, or nothing is kept.                                      *)
RunOf(r) ==
    /\ r.cmd \in Commands /\ r.mode # "none"
    /\ \A k \in r.done : attempts[r.cmd][k] # <<>>
    /\ r.mode = "proofs" => C!Second \notin r.done
    /\ r.mode # "proofs" => proofWork[r.cmd] = C!NoWork

(* A run that has an output and makes its proofs.                          *)
ProofRun(r) ==
    /\ RunOf(r) /\ OutputOf(r.cmd, r.out)
    /\ r.proofs \subseteq ProofsMade(r.out)
    /\ IF r.mode = "proofs" THEN r.out.pass = 2 /\ SecondSucceeded(r.cmd)
       ELSE <<r.out.pass, NoCandidate>> \in r.done

(* The key of the next call fits what the run has done.                    *)
KeyFits(r, k) ==
    \/ /\ k \in {C!Primary, C!Second} /\ r.mode # "proofs"
       /\ r.proofs = {} /\ r.tried = {}
    \/ /\ ProofRun(r)
       /\ \E x \in r.out.candidates : k = C!ProofKey(r.out, x)

RunInv ==
    pc = "calling" =>
        /\ RunOf(run) /\ KeyFits(run, run.key) /\ run.circuit = "closed"
        /\ attempts[run.cmd][run.key] # <<>>

ExecutionInv == /\ ExecutionTyped /\ CallsCounted /\ WorkKept /\ RunInv
                /\ C!ProofsOfTheOutput
-----------------------------------------------------------------------------
(* The keys of the passes and of the proofs are different ones.            *)
LEMMA KeyFacts ==
    ASSUME C!ClassifierAssumption
    PROVE  /\ C!Primary \in C!Keys /\ C!Second \in C!Keys /\ C!Primary # C!Second
           /\ \A p \in {1, 2} : /\ <<p, NoCandidate>> \in {C!Primary, C!Second}
                                /\ \A k \in Candidates : <<p + 1, k>> \in C!ProofKeys
           /\ C!ProofKeys \subseteq C!Keys
           /\ \A k \in C!ProofKeys : k # C!Primary /\ k # C!Second
  BY DEF C!Keys, C!Primary, C!Second, C!ProofKeys, C!ClassifierAssumption

(* Marking an attempt as successful changes its last entry.                *)
LEMMA MarkedLast ==
    ASSUME NEW s \in Seq(BOOLEAN), s # <<>>
    PROVE  /\ Append(C!Front(s), TRUE) \in Seq(BOOLEAN)
           /\ Append(C!Front(s), TRUE) # <<>>
           /\ Len(Append(C!Front(s), TRUE)) = Len(s)
           /\ C!Last(Append(C!Front(s), TRUE))
<1>1. /\ Len(s) \in Nat \ {0} /\ Len(s) - 1 \in Nat /\ 1 <= Len(s)
      /\ \A i \in 1..(Len(s) - 1) : i \in 1..Len(s)
  BY EmptySeq
<1>2. \A i \in 1..(Len(s) - 1) : s[i] \in BOOLEAN
  <2>1. s \in [1..Len(s) -> BOOLEAN]
    BY LenProperties
  <2> QED
    BY <1>1, <2>1, Zenon
<1>3. /\ SubSeq(s, 1, Len(s) - 1) \in Seq(BOOLEAN)
      /\ Len(SubSeq(s, 1, Len(s) - 1)) = IF 1 <= Len(s) - 1 THEN Len(s) - 1 - 1 + 1 ELSE 0
  <2>1. 1 \in Int /\ Len(s) - 1 \in Int
    BY <1>1
  <2> QED
    BY <1>2, <2>1, SubSeqProperties
<1>4. C!Front(s) \in Seq(BOOLEAN) /\ Len(C!Front(s)) + 1 = Len(s)
  <2>1. PICK t : t = SubSeq(s, 1, Len(s) - 1)
    OBVIOUS
  <2>2. /\ t \in Seq(BOOLEAN) /\ C!Front(s) = t
        /\ Len(t) = IF 1 <= Len(s) - 1 THEN Len(s) - 1 - 1 + 1 ELSE 0
    BY <1>3, <2>1, Zenon DEF C!Front
  <2>3. \A n \in Nat \ {0} :
            (IF 1 <= n - 1 THEN n - 1 - 1 + 1 ELSE 0) + 1 = n
    OBVIOUS
  <2>4. Len(t) + 1 = Len(s)
    BY <1>1, <2>2, <2>3, Zenon
  <2> QED
    BY <2>2, <2>4, Zenon
<1>5. /\ Append(C!Front(s), TRUE) \in Seq(BOOLEAN)
      /\ Append(C!Front(s), TRUE) # <<>>
      /\ Len(Append(C!Front(s), TRUE)) = Len(C!Front(s)) + 1
      /\ Append(C!Front(s), TRUE)[Len(C!Front(s)) + 1] = TRUE
  <2>1. PICK t : t = C!Front(s)
    OBVIOUS
  <2>2. t \in Seq(BOOLEAN) /\ TRUE \in BOOLEAN
    BY <1>4, <2>1
  <2>3. /\ Append(t, TRUE) \in Seq(BOOLEAN) /\ Append(t, TRUE) # <<>>
        /\ Len(Append(t, TRUE)) = Len(t) + 1
        /\ Append(t, TRUE)[Len(t) + 1] = TRUE
    BY <2>2, AppendProperties, Zenon
  <2> QED
    BY <2>1, <2>3, Zenon
<1> QED
  BY <1>4, <1>5, Zenon DEF C!Last

(* An attempt is admitted as one that has failed.                          *)
LEMMA OneMore ==
    ASSUME NEW s \in Seq(BOOLEAN), NEW t, t = Append(s, FALSE)
    PROVE  t \in Seq(BOOLEAN) /\ t # <<>> /\ Len(t) = Len(s) + 1
<1>1. FALSE \in BOOLEAN
  OBVIOUS
<1>2. /\ Append(s, FALSE) \in Seq(BOOLEAN) /\ Append(s, FALSE) # <<>>
      /\ Len(Append(s, FALSE)) = Len(s) + 1
  BY <1>1, AppendProperties
<1> QED
  BY <1>2, Zenon

(* The last successful attempt is the last one if that succeeded.          *)
LEMMA LastIsSelected ==
    ASSUME NEW s \in Seq(BOOLEAN), s # <<>>, C!Last(s)
    PROVE  C!SelectLastInSeq(s, LAMBDA ok : ok) = Len(s)
<1> DEFINE I == {i \in 1..Len(s) : s[i]}
<1>1. Len(s) \in Nat /\ Len(s) > 0 /\ Len(s) \in I
  BY DEF C!Last
<1>2. \A i \in I : i \in Nat /\ i <= Len(s)
  BY <1>1
<1>3. C!Max(I) = Len(s)
  <2> HIDE DEF I
  <2> QED
    BY <1>1, <1>2 DEF C!Max
<1>4. I # {}
  BY <1>1
<1>5. C!SelectLastInSeq(s, LAMBDA ok : ok) = IF I # {} THEN C!Max(I) ELSE 0
  BY Zenon DEF C!SelectLastInSeq
<1> QED
  <2> HIDE DEF I
  <2> QED
    BY <1>3, <1>4, <1>5, Zenon

(* A step between calls that changes nothing of what is kept.              *)
LEMMA IdleKeeps ==
    ASSUME ExecutionInv, C!Idle, UNCHANGED <<attempts, calls, proposals>>,
           proofWork' \in [Commands -> WorkType],
           \A c \in Commands : proofWork'[c] \in {proofWork[c], C!NoWork}
    PROVE  ExecutionInv'
<1>1. run' \in RunType
  BY DEF C!Idle, C!NoRun, RunType, C!NoOutput, C!Output, C!Proofs, C!Circuits, C!Keys
<1>2. ExecutionTyped' /\ CallsCounted' /\ RunInv'
  BY <1>1 DEF ExecutionInv, ExecutionTyped, CallsCounted, RunInv, C!Idle
<1>3. WorkKept' /\ C!ProofsOfTheOutput'
  BY DEF ExecutionInv, WorkKept, OutputOf, SecondSucceeded, C!ProofsOfTheOutput
<1> QED
  BY <1>2, <1>3 DEF ExecutionInv

(* A step beside the run.                                                  *)
LEMMA BesideKeeps ==
    ASSUME ExecutionInv, UNCHANGED <<attempts, calls, proposals, proofWork, run>>,
           pc' = "claimed" => job' \in C!Jobs, pc' = "calling" => pc = "calling"
    PROVE  ExecutionInv'
<1>1. ExecutionTyped' /\ CallsCounted'
  BY DEF ExecutionInv, ExecutionTyped, CallsCounted
<1>2. WorkKept' /\ C!ProofsOfTheOutput'
  BY DEF ExecutionInv, WorkKept, OutputOf, SecondSucceeded, C!ProofsOfTheOutput
<1>3. RunInv'
  BY DEF ExecutionInv, RunInv, RunOf, KeyFits, ProofRun, OutputOf, SecondSucceeded
<1> QED
  BY <1>1, <1>2, <1>3 DEF ExecutionInv

(* The admission of a call counts one attempt more.                        *)
LEMMA AdmitKeeps ==
    ASSUME C!ClassifierAssumption, ExecutionInv, NEW r \in RunType, NEW k \in C!Keys,
           RunOf(r), KeyFits(r, k), r.circuit = "closed",
           ~C!Exhausted(r.cmd, k), C!Admit(r.cmd, k, r), ~C!Barred(r.cmd)
    PROVE  ExecutionInv'
<1> DEFINE c == r.cmd
<1>1. c \in Commands /\ c = r.cmd
  BY DEF RunOf
<1>2. /\ attempts' = [attempts EXCEPT ![c][k] = Append(@, FALSE)]
      /\ calls' = [calls EXCEPT ![c][k] = @ + 1]
      /\ pc' = "calling" /\ run' = [r EXCEPT !.key = k]
      /\ UNCHANGED <<proofWork, proposals, job>>
  BY DEF C!Admit
<1> HIDE DEF c
<1>3. /\ attempts[c][k] \in Seq(BOOLEAN) /\ calls[c][k] \in Nat
      /\ calls[c][k] = Len(attempts[c][k]) /\ Len(attempts[c][k]) < MaxAttempts
  <2>1. ~(Len(attempts[c][k]) >= MaxAttempts) /\ MaxAttempts \in Nat
    BY <1>1 DEF C!Exhausted, C!ClassifierAssumption
  <2>2. attempts[c][k] \in Seq(BOOLEAN) /\ calls[c][k] \in Nat
    BY <1>1 DEF ExecutionInv, ExecutionTyped
  <2>3. Len(attempts[c][k]) \in Nat
    BY <2>2
  <2>4. calls[c][k] = Len(attempts[c][k])
    BY <1>1 DEF ExecutionInv, CallsCounted
  <2> QED
    BY <2>1, <2>2, <2>3, <2>4
<1>4. /\ attempts'[c][k] = Append(attempts[c][k], FALSE)
      /\ calls'[c][k] = calls[c][k] + 1
      /\ \A x \in C!Keys : x # k => attempts'[c][x] = attempts[c][x]
                                  /\ calls'[c][x] = calls[c][x]
      /\ \A d \in Commands : d # c => attempts'[d] = attempts[d] /\ calls'[d] = calls[d]
      /\ attempts' \in [Commands -> [C!Keys -> Seq(BOOLEAN)]]
      /\ calls' \in [Commands -> [C!Keys -> Nat]]
  <2>1. Append(attempts[c][k], FALSE) \in Seq(BOOLEAN)
    BY <1>3, AppendProperties, Zenon
  <2>2. /\ attempts \in [Commands -> [C!Keys -> Seq(BOOLEAN)]]
        /\ calls \in [Commands -> [C!Keys -> Nat]]
    BY DEF ExecutionInv, ExecutionTyped
  <2>3. PICK s : s = Append(attempts[c][k], FALSE)
    OBVIOUS
  <2>4. s \in Seq(BOOLEAN) /\ attempts' = [attempts EXCEPT ![c][k] = s]
    BY <1>2, <2>1, <2>3, Zenon
  <2>5. attempts'[c][k] = Append(attempts[c][k], FALSE)
    BY <1>1, <2>2, <2>3, <2>4, Zenon
  <2>6. /\ \A x \in C!Keys : x # k => attempts'[c][x] = attempts[c][x]
        /\ \A d \in Commands : d # c => attempts'[d] = attempts[d]
        /\ attempts' \in [Commands -> [C!Keys -> Seq(BOOLEAN)]]
    BY <1>1, <2>2, <2>4
  <2>7. /\ calls'[c][k] = calls[c][k] + 1
        /\ \A x \in C!Keys : x # k => calls'[c][x] = calls[c][x]
        /\ \A d \in Commands : d # c => calls'[d] = calls[d]
        /\ calls' \in [Commands -> [C!Keys -> Nat]]
    BY <1>1, <1>2, <1>3, <2>2
  <2> QED
    BY <2>5, <2>6, <2>7
<1>5. /\ run' \in RunType /\ run'.cmd = c /\ run'.key = k /\ run'.mode = r.mode
      /\ run'.out = r.out /\ run'.done = r.done /\ run'.proofs = r.proofs
      /\ run'.tried = r.tried /\ run'.circuit = "closed"
  <2>1. run' = [r EXCEPT !.key = k]
    BY <1>2
  <2> QED
    BY <1>1, <2>1 DEF RunType
<1>6. Len(attempts'[c][k]) = Len(attempts[c][k]) + 1 /\ attempts'[c][k] # <<>>
  <2>1. PICK t : t = attempts'[c][k]
    OBVIOUS
  <2>2. t # <<>> /\ Len(t) = Len(attempts[c][k]) + 1
    BY <1>3, <1>4, <2>1, OneMore, Zenon
  <2> QED
    BY <2>1, <2>2, Zenon
<1>7. \A x \in C!Keys : attempts[c][x] # <<>> => attempts'[c][x] # <<>>
  BY <1>4, <1>6
<1>8. ExecutionTyped'
  BY <1>2, <1>4, <1>5 DEF ExecutionInv, ExecutionTyped
<1>9. CallsCounted'
  <2> SUFFICES ASSUME NEW d \in Commands, NEW x \in C!Keys
               PROVE  calls'[d][x] = Len(attempts'[d][x]) /\ calls'[d][x] <= MaxAttempts
    BY DEF CallsCounted
  <2>1. CASE d = c /\ x = k
    BY <1>3, <1>4, <1>6, <2>1 DEF C!ClassifierAssumption
  <2>2. CASE ~(d = c /\ x = k)
    <3>1. /\ calls[d][x] = Len(attempts[d][x])
          /\ calls[d][x] <= MaxAttempts
      BY DEF ExecutionInv, CallsCounted
    <3>2. attempts'[d][x] = attempts[d][x] /\ calls'[d][x] = calls[d][x]
      BY <1>4, <2>2, Zenon
    <3> QED
      BY <3>1, <3>2
  <2> QED
    BY <2>1, <2>2
<1>10. /\ RunOf(r)'
       /\ r.mode # "proofs" => proofWork[c] = C!NoWork
  BY <1>1, <1>2, <1>7 DEF RunOf, RunType
<1>11. CASE k \in {C!Primary, C!Second} /\ r.mode # "proofs" /\ r.proofs = {} /\ r.tried = {}
  <2>1. WorkKept'
    <3>1. proofWork[c] = C!NoWork /\ proofWork' = proofWork
      BY <1>2, <1>10, <1>11
    <3>2. \A d \in Commands : proofWork[d] # C!NoWork => attempts'[d] = attempts[d]
      BY <1>4, <3>1
    <3>3. WorkKept
      BY DEF ExecutionInv
    <3> QED
      BY <3>1, <3>2, <3>3 DEF WorkKept, OutputOf, SecondSucceeded
  <2>2. RunInv'
    BY <1>1, <1>2, <1>5, <1>6, <1>10, <1>11 DEF RunInv, RunOf, KeyFits
  <2> QED
    BY <1>2, <1>8, <1>9, <2>1, <2>2 DEF ExecutionInv, C!ProofsOfTheOutput
<1>12. CASE ProofRun(r) /\ \E x \in r.out.candidates : k = C!ProofKey(r.out, x)
  <2>1. k \in C!ProofKeys
    BY <1>12, KeyFacts DEF C!ProofKey, ProofRun, OutputOf, RunType, C!Output
  <2>2. /\ attempts'[c][C!Primary] = attempts[c][C!Primary]
        /\ attempts'[c][C!Second] = attempts[c][C!Second]
        /\ \A p \in {1, 2} :
               attempts'[c][<<p, NoCandidate>>] = attempts[c][<<p, NoCandidate>>]
    <3>1. /\ C!Primary \in C!Keys /\ C!Second \in C!Keys /\ k # C!Primary /\ k # C!Second
          /\ \A p \in {1, 2} : <<p, NoCandidate>> \in {C!Primary, C!Second}
      BY <2>1, KeyFacts
    <3> HIDE DEF C!Primary, C!Second
    <3>2. \A x \in {C!Primary, C!Second} : x \in C!Keys /\ x # k
      BY <3>1
    <3>3. \A x \in {C!Primary, C!Second} : attempts'[c][x] = attempts[c][x]
      BY <1>4, <3>2
    <3> QED
      BY <3>1, <3>3
  <2>3. WorkKept'
    <3>4. proofWork' = proofWork
      BY <1>2
    <3> SUFFICES ASSUME NEW d \in Commands, proofWork[d] # C!NoWork
                 PROVE  /\ OutputOf(d, proofWork[d].out)' /\ proofWork[d].out.pass = 2
                        /\ proofWork[d].proofs \subseteq ProofsMade(proofWork[d].out)
                        /\ SecondSucceeded(d)'
      BY <3>4 DEF WorkKept, OutputOf, ProofsMade
    <3>1. /\ OutputOf(d, proofWork[d].out) /\ proofWork[d].out.pass = 2
          /\ proofWork[d].proofs \subseteq ProofsMade(proofWork[d].out)
          /\ SecondSucceeded(d)
      BY DEF ExecutionInv, WorkKept
    <3>2. /\ attempts'[d][C!Second] = attempts[d][C!Second]
          /\ \A p \in {1, 2} :
                 attempts'[d][<<p, NoCandidate>>] = attempts[d][<<p, NoCandidate>>]
      BY <1>4, <2>2
    <3> QED
      BY <1>2, <3>1, <3>2 DEF OutputOf, SecondSucceeded
  <2>4. ProofRun(r)'
    BY <1>1, <1>10, <1>12, <2>2 DEF ProofRun, OutputOf, SecondSucceeded
  <2>5. ProofRun(run)' /\ RunOf(run)'
    BY <1>1, <1>5, <2>4 DEF ProofRun, RunOf, OutputOf, SecondSucceeded
  <2>6. RunInv'
    BY <1>2, <1>5, <1>6, <1>12, <2>5 DEF RunInv, KeyFits, C!ProofKey
  <2> QED
    BY <1>2, <1>8, <1>9, <2>3, <2>6 DEF ExecutionInv, C!ProofsOfTheOutput
<1> QED
  BY <1>11, <1>12 DEF KeyFits

(* Whatever becomes of an admission that is asked for.                     *)
LEMMA TryKeeps ==
    ASSUME C!ClassifierAssumption, ExecutionInv, NEW r \in RunType, NEW k \in C!Keys,
           RunOf(r), KeyFits(r, k), r.circuit = "closed", C!Try(r.cmd, k, r)
    PROVE  ExecutionInv'
<1>1. CASE C!Terminalize(r.cmd, k) \/ C!Consume(r.cmd)
  <2>1. /\ C!Idle /\ UNCHANGED <<attempts, calls, proposals>>
        /\ proofWork' = proofWork \/ proofWork' = [proofWork EXCEPT ![r.cmd] = C!NoWork]
    BY <1>1 DEF C!Terminalize, C!Consume
  <2>2. proofWork \in [Commands -> WorkType] /\ C!NoWork \in WorkType
    BY DEF ExecutionInv, ExecutionTyped, WorkType, C!NoWork, C!NoOutput, C!Output, C!Proofs
  <2> QED
    BY <2>1, <2>2, IdleKeeps
<1>2. CASE ~C!Exhausted(r.cmd, k) /\ ~C!Barred(r.cmd) /\ C!Admit(r.cmd, k, r)
  BY <1>2, AdmitKeeps
<1> QED
  BY <1>1, <1>2 DEF C!Try, C!Admit

(* The record of a run keeps the numbers of its attempts.                  *)
LEMMA RecordKeeps ==
    ASSUME C!ClassifierAssumption, ExecutionInv, NEW r \in RunType, RunOf(r),
           NEW next, NEW keep \in WorkType, NEW publish, C!Record(r, next, keep, publish),
           \/ keep = C!NoWork
           \/ /\ OutputOf(r.cmd, keep.out) /\ keep.out.pass = 2
              /\ keep.proofs \subseteq ProofsMade(keep.out)
              /\ C!Second \in r.done \/ SecondSucceeded(r.cmd),
           \A p \in publish :
               /\ p.attempt = <<p.out.pass, p.out.number>>
               /\ p.out.disposition = "accepted" => p.proofs = ProofsMade(p.out)
    PROVE  ExecutionInv'
<1> DEFINE c == r.cmd
<1>1. c \in Commands /\ c = r.cmd /\ r.done \subseteq C!Keys
      /\ \A k \in r.done : attempts[c][k] # <<>>
  BY DEF RunOf, RunType
<1>2. /\ attempts' = C!Marked(r) /\ proofWork' = [proofWork EXCEPT ![c] = keep]
      /\ proposals' = proposals \cup publish /\ calls' = calls /\ C!Idle
  BY DEF C!Record
<1> HIDE DEF c
<1>3. /\ attempts' \in [Commands -> [C!Keys -> Seq(BOOLEAN)]]
      /\ \A d \in Commands : d # c => attempts'[d] = attempts[d]
      /\ \A k \in C!Keys : IF k \in r.done
                         THEN attempts'[c][k] = Append(C!Front(attempts[c][k]), TRUE)
                         ELSE attempts'[c][k] = attempts[c][k]
  <2>1. attempts \in [Commands -> [C!Keys -> Seq(BOOLEAN)]]
    BY DEF ExecutionInv, ExecutionTyped
  <2>2. \A k \in r.done : Append(C!Front(attempts[c][k]), TRUE) \in Seq(BOOLEAN)
    BY <1>1, <2>1, MarkedLast
  <2>3. attempts' = [attempts EXCEPT ![c] =
            [k \in C!Keys |-> IF k \in r.done THEN Append(C!Front(attempts[c][k]), TRUE)
                            ELSE attempts[c][k]]]
    BY <1>1, <1>2, <2>1 DEF C!Marked
  <2>4. [k \in C!Keys |-> IF k \in r.done THEN Append(C!Front(attempts[c][k]), TRUE)
                        ELSE attempts[c][k]] \in [C!Keys -> Seq(BOOLEAN)]
    BY <1>1, <2>1, <2>2
  <2> QED
    BY <1>1, <2>1, <2>3, <2>4
<1>4. \A d \in Commands, k \in C!Keys : Len(attempts'[d][k]) = Len(attempts[d][k])
  <2> SUFFICES ASSUME NEW d \in Commands, NEW k \in C!Keys
               PROVE  Len(attempts'[d][k]) = Len(attempts[d][k])
    OBVIOUS
  <2>1. attempts[d][k] \in Seq(BOOLEAN)
    BY DEF ExecutionInv, ExecutionTyped
  <2>2. CASE d = c /\ k \in r.done
    BY <1>1, <1>3, <2>1, <2>2, MarkedLast, Zenon
  <2>3. CASE ~(d = c /\ k \in r.done)
    BY <1>3, <2>3, Zenon
  <2> QED
    BY <2>2, <2>3
<1>5. C!Second \in r.done \/ SecondSucceeded(c) => SecondSucceeded(c)'
  <2>1. CASE C!Second \in r.done
    <3>1. attempts[c][C!Second] \in Seq(BOOLEAN) /\ attempts[c][C!Second] # <<>>
      BY <1>1, <2>1, KeyFacts DEF ExecutionInv, ExecutionTyped
    <3>2. attempts'[c][C!Second] = Append(C!Front(attempts[c][C!Second]), TRUE)
      BY <1>3, <2>1, KeyFacts
    <3> QED
      BY <3>1, <3>2, MarkedLast, Zenon DEF SecondSucceeded
  <2>2. CASE C!Second \notin r.done
    BY <1>3, <2>2, KeyFacts DEF SecondSucceeded
  <2> QED
    BY <2>1, <2>2
<1>6. /\ proofWork' \in [Commands -> WorkType] /\ proofWork'[c] = keep
      /\ \A d \in Commands : d # c => proofWork'[d] = proofWork[d]
  BY <1>1, <1>2 DEF ExecutionInv, ExecutionTyped
<1>7. run' \in RunType
  BY <1>2 DEF C!Idle, C!NoRun, RunType, C!NoOutput, C!Output, C!Proofs, C!Circuits, C!Keys
<1>8. ExecutionTyped' /\ CallsCounted' /\ RunInv'
  BY <1>2, <1>3, <1>4, <1>6, <1>7
     DEF ExecutionInv, ExecutionTyped, CallsCounted, RunInv, C!Idle
<1>9. \A d \in Commands, out \in C!Output : OutputOf(d, out) => OutputOf(d, out)'
  BY <1>4, KeyFacts DEF OutputOf
<1>10. WorkKept'
  <2> SUFFICES ASSUME NEW d \in Commands, NEW w \in WorkType, w = proofWork'[d], w # C!NoWork
               PROVE  /\ OutputOf(d, w.out)' /\ w.out.pass = 2
                      /\ w.proofs \subseteq ProofsMade(w.out)
                      /\ SecondSucceeded(d)'
    <3> HIDE DEF WorkType, C!NoWork
    <3> QED
      BY <1>6 DEF WorkKept, OutputOf, ProofsMade
  <2>1. w.out \in C!Output
    BY DEF WorkType
  <2>2. CASE d = c
    BY <1>1, <1>5, <1>6, <1>9, <2>1, <2>2
  <2>3. CASE d # c
    <3>1. /\ OutputOf(d, w.out) /\ w.out.pass = 2
          /\ w.proofs \subseteq ProofsMade(w.out)
          /\ SecondSucceeded(d)
      BY <1>6, <2>3 DEF ExecutionInv, WorkKept
    <3> QED
      BY <1>3, <1>6, <1>9, <2>1, <2>3, <3>1 DEF SecondSucceeded
  <2> QED
    BY <2>2, <2>3
<1>11. C!ProofsOfTheOutput'
  BY <1>2 DEF ExecutionInv, C!ProofsOfTheOutput, ProofsMade
<1> QED
  BY <1>8, <1>10, <1>11 DEF ExecutionInv

(* A proposal names the attempt its output came from.                      *)
LEMMA PublishKeeps ==
    ASSUME C!ClassifierAssumption, ExecutionInv, NEW r \in RunType, RunOf(r),
           OutputOf(r.cmd, r.out),
           r.mode = "proofs" => r.out.pass = 2 /\ SecondSucceeded(r.cmd),
           r.out.disposition = "accepted" => r.proofs = ProofsMade(r.out),
           C!Publish(r)
    PROVE  ExecutionInv'
<1> DEFINE p == [cmd |-> r.cmd, out |-> r.out, proofs |-> r.proofs,
                 attempt |-> C!NamedAttempt(r)]
           keep == IF r.mode = "proofs" THEN C!NoWork ELSE proofWork[r.cmd]
<1>1. keep = C!NoWork /\ keep \in WorkType
  BY DEF RunOf, WorkType, C!NoWork, C!NoOutput, C!Output, C!Proofs
<1>2. C!NamedAttempt(r) = <<r.out.pass, r.out.number>>
  <2>1. CASE r.mode = "proofs"
    <3>1. attempts[r.cmd][C!Second] \in Seq(BOOLEAN)
      <4>1. C!Second \in C!Keys /\ r.cmd \in Commands
        BY KeyFacts DEF RunOf
      <4> QED
        BY <4>1 DEF ExecutionInv, ExecutionTyped
    <3>2. C!SelectLastInSeq(attempts[r.cmd][C!Second], LAMBDA ok : ok)
              = Len(attempts[r.cmd][C!Second])
      BY <2>1, <3>1, LastIsSelected DEF SecondSucceeded
    <3>3. r.out.pass = 2 /\ r.out.number = Len(attempts[r.cmd][C!Second])
      BY <2>1 DEF OutputOf, C!Second
    <3> QED
      BY <2>1, <3>2, <3>3 DEF C!NamedAttempt
  <2>2. CASE r.mode # "proofs"
    BY <2>2 DEF C!NamedAttempt, OutputOf
  <2> QED
    BY <2>1, <2>2
<1>3. C!Record(r, "settled", keep, {p})
  BY DEF C!Publish
<1>4. p.attempt = <<p.out.pass, p.out.number>>
      /\ (p.out.disposition = "accepted" => p.proofs = ProofsMade(p.out))
  BY <1>2
<1> HIDE DEF p, keep
<1> QED
  BY <1>1, <1>3, <1>4, RecordKeeps

(* The proofs of an output are complete when its last candidate has one.   *)
LEMMA AllProved ==
    ASSUME NEW r, r.proofs \subseteq ProofsMade(r.out), r.out.candidates \subseteq C!Proved(r)
    PROVE  r.proofs = ProofsMade(r.out)
<1> SUFFICES ASSUME NEW k \in r.out.candidates
             PROVE  [candidate |-> k, pass |-> r.out.pass, number |-> r.out.number]
                        \in r.proofs
  BY DEF ProofsMade
<1>1. PICK p \in r.proofs : p.candidate = k
  BY DEF C!Proved
<1>2. PICK x \in r.out.candidates :
          p = [candidate |-> x, pass |-> r.out.pass, number |-> r.out.number]
  BY <1>1 DEF ProofsMade
<1>3. x = k
  BY <1>1, <1>2
<1> QED
  BY <1>1, <1>2, <1>3

(* A run that makes its proofs tries the next one, or closes.              *)
LEMMA ProveKeeps ==
    ASSUME C!ClassifierAssumption, ExecutionInv, NEW r \in RunType, ProofRun(r),
           r.tried = {} => r.circuit = "closed", C!Prove(r)
    PROVE  ExecutionInv'
<1>0. RunOf(r) /\ OutputOf(r.cmd, r.out) /\ r.out.pass \in {1, 2}
      /\ r.proofs \subseteq ProofsMade(r.out) /\ r.cmd \in Commands
  BY DEF ProofRun, OutputOf, RunOf
<1>1. ASSUME r.circuit = "closed", NEW k \in r.out.candidates,
             C!Try(r.cmd, C!ProofKey(r.out, k), r)
      PROVE  ExecutionInv'
  <2>1. C!ProofKey(r.out, k) \in C!Keys
    <3>1. k \in Candidates
      BY <1>1 DEF RunType, C!Output
    <3> QED
      BY <1>0, <3>1, KeyFacts DEF C!ProofKey
  <2>2. KeyFits(r, C!ProofKey(r.out, k))
    BY <1>1 DEF KeyFits
  <2> QED
    BY <1>0, <1>1, <2>1, <2>2, TryKeeps
<1>2. CASE /\ C!Broken(r) \/ r.out.candidates \subseteq C!Proved(r) \cup r.tried
           /\ C!CloseProofs(r)
  <2>1. CASE ~C!ProofFailed(r)
    <3>1. r.tried = {} /\ ~C!Broken(r) /\ C!Publish(r)
      BY <1>2, <2>1 DEF C!ProofFailed, C!CloseProofs, C!Broken
    <3>2. r.proofs = ProofsMade(r.out)
      BY <1>0, <1>2, <3>1, AllProved
    <3> QED
      BY <1>0, <3>1, <3>2, PublishKeeps DEF ProofRun
  <2>2. CASE C!ProofFailed(r)
    <3>1. PICK next, keep :
              /\ C!Record(r, next, keep, {})
              /\ \/ keep = C!NoWork
                 \/ r.out.pass = 2 /\ keep = [out |-> r.out, proofs |-> r.proofs]
                 \/ r.out.pass # 2 /\ keep = proofWork[r.cmd]
      <4> DEFINE retryable ==
                     \/ r.circuit # "closed"
                     \/ \E k \in r.tried :
                            Len(attempts[r.cmd][C!ProofKey(r.out, k)]) < MaxAttempts
                 next == CASE r.circuit # "closed" -> "waiting"
                           [] r.circuit = "closed" /\ retryable -> "later"
                           [] OTHER -> "settled"
                 keep == CASE ~retryable -> C!NoWork
                           [] retryable /\ r.out.pass = 2 ->
                                  [out |-> r.out, proofs |-> r.proofs]
                           [] OTHER -> proofWork[r.cmd]
      <4>1. C!Record(r, next, keep, {})
        BY <1>2, <2>2 DEF C!CloseProofs
      <4> HIDE DEF retryable
      <4>2. \/ keep = C!NoWork
            \/ r.out.pass = 2 /\ keep = [out |-> r.out, proofs |-> r.proofs]
            \/ r.out.pass # 2 /\ keep = proofWork[r.cmd]
        OBVIOUS
      <4> QED
        BY <4>1, <4>2
    <3>2. r.out.pass # 2 => proofWork[r.cmd] = C!NoWork
      BY <1>0 DEF ProofRun, RunOf
    <3>3. /\ keep \in WorkType
          /\ \/ keep = C!NoWork
             \/ /\ OutputOf(r.cmd, keep.out) /\ keep.out.pass = 2
                /\ keep.proofs \subseteq ProofsMade(keep.out)
                /\ C!Second \in r.done \/ SecondSucceeded(r.cmd)
      <4>1. CASE keep = C!NoWork
        BY <4>1 DEF WorkType, C!NoWork, C!NoOutput, C!Output, C!Proofs
      <4>2. CASE r.out.pass = 2 /\ keep = [out |-> r.out, proofs |-> r.proofs]
        <5>1. keep \in WorkType /\ keep.out = r.out /\ keep.proofs = r.proofs
          BY <4>2 DEF WorkType, RunType
        <5>2. C!Second \in r.done \/ SecondSucceeded(r.cmd)
          BY <4>2 DEF ProofRun, C!Second
        <5> QED
          BY <1>0, <4>2, <5>1, <5>2
      <4> QED
        BY <3>1, <3>2, <4>1, <4>2
    <3> QED
      BY <1>0, <3>1, <3>3, RecordKeeps
  <2> QED
    BY <2>1, <2>2
<1>3. \/ /\ C!Broken(r) \/ r.out.candidates \subseteq C!Proved(r) \cup r.tried
         /\ C!CloseProofs(r)
      \/ /\ r.circuit = "closed"
         /\ \E k \in r.out.candidates : C!Try(r.cmd, C!ProofKey(r.out, k), r)
  BY DEF C!Prove, C!Broken
<1> QED
  BY <1>1, <1>2, <1>3

(* The run that a claimed command starts.                                  *)
LEMMA StartKeeps ==
    ASSUME C!ClassifierAssumption, ExecutionInv, C!Start
    PROVE  ExecutionInv'
<1> DEFINE c == job[2]
<1>1. c \in Commands /\ pc = "claimed"
  BY DEF C!Start, ExecutionInv, ExecutionTyped, C!Jobs
<1> HIDE DEF c
<1>2. /\ C!Primary \in C!Keys /\ C!Second \in C!Keys
      /\ C!NoRun \in RunType /\ C!NoRun.done = {} /\ C!NoRun.proofs = {} /\ C!NoRun.tried = {}
      /\ C!NoRun.circuit = "closed"
  BY KeyFacts DEF C!NoRun, RunType, C!NoOutput, C!Output, C!Proofs, C!Circuits
<1>3. PICK r : r = [C!NoRun EXCEPT !.cmd = c, !.mode = C!Mode(c)]
  OBVIOUS
<1>4. C!Mode(c) \in {"fresh", "second", "proofs"}
  BY DEF C!Mode
<1>5. /\ r \in RunType /\ r.cmd = c /\ r.mode = C!Mode(c)
      /\ r.done = {} /\ r.proofs = {} /\ r.tried = {} /\ r.circuit = "closed"
  BY <1>1, <1>2, <1>3, <1>4 DEF RunType
<1>6. CASE C!Consume(c)
  <2>1. C!Idle /\ UNCHANGED <<attempts, calls, proposals, proofWork>>
    BY <1>6 DEF C!Consume
  <2> QED
    BY <2>1, IdleKeeps DEF ExecutionInv, ExecutionTyped
<1>7. C!Mode(c) # "proofs" => proofWork[c] = C!NoWork
  <2> SUFFICES ASSUME proofWork[c] # C!NoWork PROVE C!Mode(c) = "proofs"
    OBVIOUS
  <2>1. attempts[c][C!Second] \in Seq(BOOLEAN) /\ SecondSucceeded(c)
    BY <1>1, <1>2 DEF ExecutionInv, ExecutionTyped, WorkKept
  <2>2. TRUE \in C!ToSet(attempts[c][C!Second])
    <3>1. Len(attempts[c][C!Second]) \in DOMAIN attempts[c][C!Second]
      BY <2>1, LenProperties, EmptySeq DEF SecondSucceeded
    <3>2. attempts[c][C!Second][Len(attempts[c][C!Second])] = TRUE
      BY <2>1, <3>1 DEF SecondSucceeded, C!Last
    <3> QED
      BY <3>1, <3>2, Zenon DEF C!ToSet
  <2> QED
    BY <2>2 DEF C!Mode
<1>8. CASE C!Mode(c) # "proofs" /\ \E k \in {C!Primary, C!Second} : C!Try(c, k, r)
  <2>1. RunOf(r)
    BY <1>1, <1>4, <1>5, <1>7, <1>8 DEF RunOf
  <2>2. ASSUME NEW k \in {C!Primary, C!Second}, C!Try(c, k, r) PROVE ExecutionInv'
    <3>1. k \in C!Keys /\ KeyFits(r, k)
      BY <1>2, <1>5, <1>8 DEF KeyFits
    <3> QED
      BY <1>5, <2>1, <2>2, <3>1, TryKeeps
  <2> QED
    BY <1>8, <2>2
<1>9. CASE /\ C!Mode(c) = "proofs"
           /\ C!Prove([r EXCEPT !.out = proofWork[c].out, !.proofs = proofWork[c].proofs])
  <2>1. PICK q : q = [r EXCEPT !.out = proofWork[c].out, !.proofs = proofWork[c].proofs]
    OBVIOUS
  <2>2. proofWork[c] \in WorkType /\ proofWork[c] # C!NoWork
    BY <1>1, <1>9 DEF ExecutionInv, ExecutionTyped, C!Mode
  <2>3. /\ q \in RunType /\ q.cmd = c /\ q.mode = "proofs" /\ q.done = {} /\ q.tried = {}
        /\ q.circuit = "closed" /\ q.out = proofWork[c].out /\ q.proofs = proofWork[c].proofs
    BY <1>5, <1>9, <2>1, <2>2 DEF RunType, WorkType
  <2>4. ProofRun(q)
    BY <1>1, <2>2, <2>3 DEF ProofRun, RunOf, ExecutionInv, WorkKept
  <2> QED
    BY <1>9, <2>1, <2>3, <2>4, ProveKeeps
<1> QED
  BY <1>3, <1>4, <1>5, <1>6, <1>8, <1>9 DEF C!Start, c

(* What a call answers.                                                    *)
LEMMA CallFailsKeeps ==
    ASSUME C!ClassifierAssumption, ExecutionInv,
           NEW failure \in C!Failures, C!CallFails(failure)
    PROVE  ExecutionInv'
<1> DEFINE r == [run EXCEPT !.circuit = C!Opened(failure)]
<1>1. /\ run \in RunType /\ RunOf(run) /\ KeyFits(run, run.key)
      /\ run.key \in {C!Primary, C!Second}
  BY DEF C!CallFails, ExecutionInv, ExecutionTyped, RunInv
<1>2. C!Opened(failure) \in C!Circuits
  BY DEF C!Opened, C!Circuits
<1>3. r \in RunType /\ r.cmd = run.cmd /\ r.mode = run.mode /\ r.done = run.done
  BY <1>1, <1>2 DEF RunType
<1>4. RunOf(r)
  BY <1>1, <1>3 DEF RunOf
<1>5. run.mode # "proofs" /\ run.cmd \in Commands
  <2>1. \A x \in run.out.candidates : ProofRun(run) => C!ProofKey(run.out, x) \in C!ProofKeys
    BY <1>1, KeyFacts DEF ProofRun, OutputOf, C!ProofKey, RunType, C!Output
  <2> QED
    BY <1>1, <2>1, KeyFacts DEF KeyFits, RunOf
<1>6. proofWork[r.cmd] = C!NoWork /\ C!NoWork \in WorkType
  BY <1>1, <1>3, <1>5 DEF RunOf, WorkType, C!NoWork, C!NoOutput, C!Output, C!Proofs
<1>7. \E next : C!Record(r, next, proofWork[r.cmd], {})
  BY DEF C!CallFails
<1> HIDE DEF r
<1> QED
  BY <1>3, <1>4, <1>6, <1>7, RecordKeeps

(* A valid output is proved, sent to a second pass, or published.          *)
LEMMA CallSucceedsKeeps ==
    ASSUME C!ClassifierAssumption, ExecutionInv, NEW o \in C!Outputs, C!CallSucceeds(o)
    PROVE  ExecutionInv'
<1> DEFINE c == run.cmd
<1>1. /\ run \in RunType /\ RunOf(run) /\ KeyFits(run, run.key) /\ c \in Commands
      /\ run.key \in {C!Primary, C!Second} /\ run.circuit = "closed"
      /\ attempts[c][run.key] # <<>> /\ attempts[c][run.key] \in Seq(BOOLEAN)
  BY DEF C!CallSucceeds, ExecutionInv, ExecutionTyped, RunInv, RunOf, RunType
<1>2. run.mode # "proofs" /\ run.proofs = {} /\ run.tried = {}
  <2>1. \A x \in run.out.candidates : ProofRun(run) => C!ProofKey(run.out, x) \in C!ProofKeys
    BY <1>1, KeyFacts DEF ProofRun, OutputOf, C!ProofKey, RunType, C!Output
  <2> QED
    BY <1>1, <2>1, KeyFacts DEF KeyFits
<1> HIDE DEF c
<1>3. PICK out : out = [pass |-> run.key[1], number |-> Len(attempts[c][run.key]),
                        disposition |-> o.disposition, candidates |-> o.candidates]
  OBVIOUS
<1>4. PICK r : r = [run EXCEPT !.done = @ \cup {run.key}, !.out = out]
  OBVIOUS
<1>5. /\ run.key[1] \in {1, 2} /\ run.key = <<run.key[1], NoCandidate>>
      /\ run.key \in C!Keys
  BY <1>1, KeyFacts DEF C!Primary, C!Second
<1>6. /\ o.disposition \in {"review", "ambiguous", "accepted"}
      /\ o.candidates \subseteq Candidates
      /\ o.disposition # "accepted" => o.candidates = {}
  BY DEF C!Outputs
<1>7. out \in C!Output
  <2>1. Len(attempts[c][run.key]) \in Nat
    BY <1>1
  <2> QED
    BY <1>3, <1>5, <1>6, <2>1 DEF C!Output
<1>8. /\ r \in RunType /\ r.cmd = c /\ r.mode = run.mode /\ r.done = run.done \cup {run.key}
      /\ r.proofs = {} /\ r.tried = {} /\ r.circuit = "closed" /\ r.out = out
  BY <1>1, <1>2, <1>4, <1>5, <1>7 DEF RunType, c
<1>9. RunOf(r)
  BY <1>1, <1>2, <1>8 DEF RunOf, c
<1>10. OutputOf(r.cmd, r.out)
  BY <1>3, <1>5, <1>8 DEF OutputOf
<1>11. CASE o.disposition = "accepted" /\ C!Prove(r)
  <2>1. ProofRun(r)
    BY <1>2, <1>3, <1>5, <1>8, <1>9, <1>10 DEF ProofRun
  <2> QED
    BY <1>8, <1>11, <2>1, ProveKeeps
<1>12. CASE C!Try(c, C!Second, r)
  <2>1. KeyFits(r, C!Second) /\ C!Second \in C!Keys
    BY <1>2, <1>8, KeyFacts DEF KeyFits
  <2> QED
    BY <1>8, <1>9, <1>12, <2>1, TryKeeps
<1>13. CASE o.disposition # "accepted" /\ C!Publish(r)
  <2>1. r.out.disposition # "accepted" /\ r.mode # "proofs"
    BY <1>2, <1>3, <1>8, <1>13
  <2> QED
    BY <1>8, <1>9, <1>10, <1>13, <2>1, PublishKeeps
<1> QED
  BY <1>3, <1>4, <1>6, <1>11, <1>12, <1>13 DEF C!CallSucceeds, c

(* A proof that fails or succeeds.                                         *)
LEMMA ProofAnswersKeep ==
    ASSUME C!ClassifierAssumption, ExecutionInv,
           C!ProofSucceeds \/ \E failure \in C!Failures : C!ProofFails(failure)
    PROVE  ExecutionInv'
<1>1. /\ run \in RunType /\ RunOf(run) /\ KeyFits(run, run.key)
      /\ run.key \in C!ProofKeys /\ run.key \in C!Keys /\ run.circuit = "closed"
      /\ attempts[run.cmd][run.key] # <<>>
  BY KeyFacts DEF C!ProofSucceeds, C!ProofFails, ExecutionInv, ExecutionTyped, RunInv
<1>2. run.key # C!Primary /\ run.key # C!Second
  BY <1>1, KeyFacts
<1>3. ProofRun(run)
  BY <1>1, <1>2 DEF KeyFits
<1>4. PICK k \in run.out.candidates : run.key = C!ProofKey(run.out, k)
  BY <1>1, <1>2 DEF KeyFits
<1>5. run.key[2] = k /\ k \in Candidates
  BY <1>1, <1>4 DEF C!ProofKey, RunType, C!Output
<1>6. CASE C!ProofSucceeds
  <2>1. PICK r : r = [run EXCEPT !.done = @ \cup {run.key},
                                 !.proofs = @ \cup {C!Made(run, run.key[2])}]
    OBVIOUS
  <2>2. C!Made(run, k) \in ProofsMade(run.out)
    BY <1>4 DEF C!Made, ProofsMade
  <2>3. C!Made(run, k) \in [candidate : Candidates, pass : 0..2, number : Nat]
    BY <1>1, <1>5 DEF C!Made, RunType, C!Output
  <2>4. /\ r \in RunType /\ r.cmd = run.cmd /\ r.mode = run.mode /\ r.out = run.out
        /\ r.done = run.done \cup {run.key} /\ r.proofs = run.proofs \cup {C!Made(run, k)}
        /\ r.tried = run.tried /\ r.circuit = "closed"
    BY <1>1, <1>5, <2>1, <2>3 DEF RunType, C!Proofs
  <2>5. ProofRun(r)
    BY <1>1, <1>2, <1>3, <2>2, <2>4 DEF ProofRun, RunOf
  <2>6. C!Prove(r)
    BY <1>6, <2>1 DEF C!ProofSucceeds
  <2> QED
    BY <2>4, <2>5, <2>6, ProveKeeps
<1>7. ASSUME NEW failure \in C!Failures, C!ProofFails(failure) PROVE ExecutionInv'
  <2>1. PICK r : r = [run EXCEPT !.tried = @ \cup {run.key[2]}, !.circuit = C!Opened(failure)]
    OBVIOUS
  <2>2. C!Opened(failure) \in C!Circuits
    BY DEF C!Opened, C!Circuits
  <2>3. /\ r \in RunType /\ r.cmd = run.cmd /\ r.mode = run.mode /\ r.out = run.out
        /\ r.done = run.done /\ r.proofs = run.proofs /\ r.tried # {}
    BY <1>1, <1>5, <2>1, <2>2 DEF RunType
  <2>4. ProofRun(r)
    BY <1>3, <2>3 DEF ProofRun, RunOf
  <2>5. C!Prove(r)
    BY <1>7, <2>1 DEF C!ProofFails
  <2> QED
    BY <2>3, <2>4, <2>5, ProveKeeps
<1> QED
  BY <1>6, <1>7

(* Steps beside the run, and those that end it.                            *)
LEMMA OtherKeep ==
    ASSUME C!ClassifierAssumption, ExecutionInv,
           \/ C!Scrub \/ C!Crash \/ C!DeadlockEndsRole \/ C!Pause \/ C!EmptyProbe
           \/ (\E j \in C!Jobs : C!Claim(j) \/ C!Elapse(j))
           \/ C!ProbeFallsDue \/ C!CloseAuthentication \/ (\E c \in Commands : C!Delete(c))
           \/ C!PauseWaits \/ C!PauseRollsBack \/ UNCHANGED C!vars
    PROVE  ExecutionInv'
<1>0. /\ proofWork \in [Commands -> WorkType] /\ C!NoWork \in WorkType
      /\ pc = "claimed" => job[2] \in Commands
  BY DEF ExecutionInv, ExecutionTyped, WorkType, C!NoWork, C!NoOutput, C!Output,
         C!Proofs, C!Jobs
<1>1. CASE C!Scrub
  <2>1. /\ C!Idle /\ UNCHANGED <<attempts, calls, proposals>>
        /\ proofWork' = [proofWork EXCEPT ![job[2]] = C!NoWork]
    BY <1>1 DEF C!Scrub
  <2> QED
    BY <1>0, <2>1, IdleKeeps
<1>2. CASE C!Crash \/ C!DeadlockEndsRole
  <2>1. C!Idle /\ UNCHANGED <<attempts, calls, proposals, proofWork>>
    BY <1>2 DEF C!Crash, C!DeadlockEndsRole, C!queue
  <2> QED
    BY <1>0, <2>1, IdleKeeps
<1>3. CASE C!Pause
  <2>1. /\ UNCHANGED <<attempts, calls, proposals, run, pc, job>>
        /\ proofWork' = [d \in Commands |-> C!NoWork]
    BY <1>3 DEF C!Pause, C!worker
  <2>2. pc # "calling"
    BY <1>3 DEF C!Pause, C!Locked, ExecutionInv, RunInv, RunOf
  <2>3. ExecutionTyped' /\ CallsCounted' /\ WorkKept' /\ RunInv' /\ C!ProofsOfTheOutput'
    BY <1>0, <2>1, <2>2 DEF ExecutionInv, ExecutionTyped, CallsCounted, WorkKept, RunInv,
                            C!ProofsOfTheOutput
  <2> QED
    BY <2>3 DEF ExecutionInv
<1>4. CASE \E j \in C!Jobs : C!Claim(j)
  <2>1. /\ UNCHANGED <<attempts, calls, proposals, proofWork, run>>
        /\ pc' = "claimed" /\ job' \in C!Jobs
    BY <1>4 DEF C!Claim
  <2> QED
    BY <2>1, BesideKeeps
<1>5. CASE \/ C!EmptyProbe \/ (\E j \in C!Jobs : C!Elapse(j)) \/ C!ProbeFallsDue
           \/ C!CloseAuthentication \/ (\E c \in Commands : C!Delete(c))
           \/ C!PauseWaits \/ C!PauseRollsBack \/ UNCHANGED C!vars
  <2>1. UNCHANGED <<attempts, calls, proposals, proofWork, run, pc, job>>
    BY <1>5 DEF C!EmptyProbe, C!Elapse, C!ProbeFallsDue, C!CloseAuthentication, C!Delete,
                C!PauseWaits, C!PauseRollsBack, C!vars, C!queue, C!worker
  <2>2. pc' = "claimed" => job' \in C!Jobs
    BY <2>1 DEF ExecutionInv, ExecutionTyped
  <2> QED
    BY <2>1, <2>2, BesideKeeps
<1> QED
  BY <1>1, <1>2, <1>3, <1>4, <1>5

(* The inductive invariant, for any commands, candidates and budget.       *)
THEOREM ExecutionInvariant ==
    ASSUME C!ClassifierAssumption PROVE C!Spec => []ExecutionInv
<1>1. C!Init => ExecutionInv
  <2> SUFFICES ASSUME C!Init PROVE ExecutionInv
    OBVIOUS
  <2>1. /\ C!NoRun \in RunType /\ C!NoWork \in WorkType
        /\ <<>> \in Seq(BOOLEAN) /\ Len(<<>>) = 0 /\ 0 <= MaxAttempts
    BY KeyFacts
       DEF C!NoRun, RunType, C!NoOutput, C!Output, C!Proofs, C!Circuits, WorkType,
           C!NoWork
  <2>2. ExecutionTyped
    BY <2>1 DEF C!Init, ExecutionTyped
  <2>3. CallsCounted
    BY <2>1 DEF C!Init, CallsCounted
  <2>4. WorkKept /\ RunInv /\ C!ProofsOfTheOutput
    BY DEF C!Init, WorkKept, RunInv, C!ProofsOfTheOutput
  <2> QED
    BY <2>2, <2>3, <2>4 DEF ExecutionInv
<1>2. ExecutionInv /\ [C!Next]_(C!vars) => ExecutionInv'
  <2> SUFFICES ASSUME ExecutionInv, [C!Next]_(C!vars) PROVE ExecutionInv'
    OBVIOUS
  <2>1. CASE C!Start
    BY <2>1, StartKeeps
  <2>2. CASE C!Answer
    BY <2>2, CallFailsKeeps, CallSucceedsKeeps, ProofAnswersKeep, OtherKeep
       DEF C!Answer
  <2>3. CASE ~C!Start /\ ~C!Answer
    BY <2>3, OtherKeep DEF C!Next, C!Work
  <2> QED
    BY <2>1, <2>2, <2>3
<1> QED
  BY <1>1, <1>2, PTL DEF C!Spec

(* No pass and no proof costs more calls than its budget.                  *)
THEOREM BudgetHolds == ASSUME C!ClassifierAssumption PROVE C!Spec => []C!BudgetKept
<1>1. ExecutionInv => C!BudgetKept
  BY DEF ExecutionInv, CallsCounted, C!BudgetKept
<1> QED
  BY <1>1, ExecutionInvariant, PTL

(* A proposal is proved for the output it publishes.                       *)
THEOREM ProposalsAreProved ==
    ASSUME C!ClassifierAssumption PROVE C!Spec => []C!ProofsOfTheOutput
<1>1. ExecutionInv => C!ProofsOfTheOutput
  BY DEF ExecutionInv
<1> QED
  BY <1>1, ExecutionInvariant, PTL
=============================================================================
