--------------------------- MODULE ContractQueue ---------------------------
(***************************************************************************)
(* The leased outbox/inbox handoff of ONE consumer role                    *)
(* (modules/postgres_adapter: claim_next, consume, _begin_owned_contract,  *)
(* reject_invalid_contract, _release_claim).                               *)
(*                                                                         *)
(* A worker claims the oldest claimable outbox row (its own transaction),  *)
(* works on it, then opens a second transaction that reads the inbox row   *)
(* FOR UPDATE and commits inbox status, owner state, outgoing contract and *)
(* claim release together.  Between the two the worker may crash or outlive*)
(* its lease.  PostgreSQL runs READ COMMITTED: an absent inbox row is not  *)
(* locked by the SELECT, so two openers may both see no row.               *)
(***************************************************************************)
EXTENDS Naturals, FiniteSets

CONSTANTS
    Messages,    \* rows addressed to the role; a smaller number was recorded earlier
    NoMessage,
    Workers,     \* processes running the role
    Consumed,    \* handled by store.consume: a plain INSERT into the inbox
    Emitting,    \* their handler inserts a follow-up contract with a derived key
    Answered,    \* refusing them inserts a failure contract with a derived key
    Malformed,   \* ContractEnvelope.from_raw refuses the payload
    Conditional, \* the handler may refuse them after reading other state
    Newer,       \* of a contract version only the next release supports
    MaxCrashes   \* bound on worker crashes

ASSUME QueueAssumption ==
    /\ Messages \subseteq Nat
    /\ NoMessage \notin Messages
    /\ {Consumed, Emitting, Answered, Malformed, Conditional, Newer}
           \subseteq SUBSET Messages
    /\ Consumed \cap Conditional = {}
    /\ Malformed \cap Newer = {}
    /\ MaxCrashes \in Nat

Absent      == "absent"
Accepted    == "accepted"
Unsupported == "rejected_unsupported_version"
Invalid     == "rejected_invalid_contract"
Status      == {Absent, Accepted, Unsupported, Invalid}
Settled     == {Accepted, Invalid}

VARIABLES
    outbox,     \* rows committed by producers
    cancelled,  \* rows with cancelled_at set
    claim,      \* the worker whose claimed_until lies ahead, per row; {} when none
    inbox,      \* processing_status of the role's inbox row
    effects,    \* times the row's owner-state change was committed
    emitted,    \* follow-ups in the outbox: <<row, "result">> or <<row, "failure">>
    alerts,     \* rows with an operator alert
    stage,      \* per worker: idle, claimed, applying or refusing
    work,       \* the row the worker claimed
    lapsed,     \* the lease of that claim ran out
    seen,       \* the inbox status its open transaction read
    upgraded,   \* the release that supports Newer is deployed
    crashes

queue == <<outbox, cancelled, claim, inbox, effects, emitted, alerts>>
vars  == <<queue, stage, work, lapsed, seen, upgraded, crashes>>

Init == /\ outbox = {}
        /\ cancelled = {}
        /\ claim = [m \in Messages |-> {}]
        /\ inbox = [m \in Messages |-> Absent]
        /\ effects = [m \in Messages |-> 0]
        /\ emitted = {}
        /\ alerts = {}
        /\ stage = [w \in Workers |-> "idle"]
        /\ work = [w \in Workers |-> NoMessage]
        /\ lapsed = [w \in Workers |-> FALSE]
        /\ seen = [w \in Workers |-> Absent]
        /\ upgraded = FALSE
        /\ crashes = 0

Supported(m) == m \notin Newer \/ upgraded
-----------------------------------------------------------------------------
(* A producer's transaction commits the outbox row with its own state.     *)
Produce(m) == /\ m \notin outbox
              /\ outbox' = outbox \cup {m}
              /\ UNCHANGED <<cancelled, claim, inbox, effects, emitted, alerts,
                             stage, work, lapsed, seen, upgraded, crashes>>

(* cancel_source_chat_work: an unfinished row is cancelled and unleased.   *)
Cancel(m) == /\ m \in outbox \ cancelled
             /\ inbox[m] \notin Settled
             /\ cancelled' = cancelled \cup {m}
             /\ claim' = [claim EXCEPT ![m] = {}]
             /\ UNCHANGED <<outbox, inbox, effects, emitted, alerts,
                            stage, work, lapsed, seen, upgraded, crashes>>

(* Mutants: the claim query takes refused rows for unfinished, or forgets  *)
(* that a version may be supported by now.                                 *)
ClaimableWhenRefused(m) == /\ m \in outbox \ cancelled
                           /\ inbox[m] # Accepted
                           /\ inbox[m] = Unsupported => Supported(m)
                           /\ claim[m] = {}

ClaimableAtFirst(m) == /\ m \in outbox \ cancelled
                       /\ inbox[m] = Absent
                       /\ claim[m] = {}

Claimable(m) == /\ m \in outbox \ cancelled
                /\ inbox[m] \notin Settled
                /\ inbox[m] = Unsupported => Supported(m)
                /\ claim[m] = {}

(* claim_next: the oldest claimable row gets a fresh lease.                *)
Claim(w, m) == /\ stage[w] = "idle"
               /\ Claimable(m)
               /\ \A n \in Messages : n < m => ~Claimable(n)
               /\ claim' = [claim EXCEPT ![m] = {w}]
               /\ stage' = [stage EXCEPT ![w] = "claimed"]
               /\ work' = [work EXCEPT ![w] = m]
               /\ lapsed' = [lapsed EXCEPT ![w] = FALSE]
               /\ UNCHANGED <<outbox, cancelled, inbox, effects, emitted, alerts,
                              seen, upgraded, crashes>>

(* claimed_until passes; nothing tells the worker.                         *)
LeaseLapse(m) == /\ claim[m] # {}
                 /\ claim' = [claim EXCEPT ![m] = {}]
                 /\ lapsed' = [w \in Workers |-> lapsed[w] \/ work[w] = m]
                 /\ UNCHANGED <<outbox, cancelled, inbox, effects, emitted, alerts,
                                stage, work, seen, upgraded, crashes>>

InTransaction(w) == stage[w] \in {"applying", "refusing"}

(* An inbox row read FOR UPDATE by another worker's open transaction.      *)
LockedByOther(w) == \E v \in Workers \ {w} : /\ InTransaction(v)
                                              /\ work[v] = work[w]
                                              /\ seen[v] # Absent

OpenAs(w, next) == /\ ~LockedByOther(w)
                   /\ stage' = [stage EXCEPT ![w] = next]
                   /\ seen' = [seen EXCEPT ![w] = inbox[work[w]]]
                   /\ UNCHANGED <<queue, work, lapsed, upgraded, crashes>>

(* consume / _begin_owned_contract read the inbox row: not accepted yet.   *)
OpenToApply(w) == /\ stage[w] = "claimed"
                  /\ inbox[work[w]] # Accepted
                  /\ work[w] \notin Malformed
                  /\ OpenAs(w, "applying")

(* reject_invalid_contract reads the inbox row, whatever its status.       *)
OpenToRefuse(w) == /\ stage[w] = "claimed"
                   /\ work[w] \in Malformed \cup Conditional
                   /\ Supported(work[w])
                   /\ OpenAs(w, "refusing")

(* The worker is done with its row: an unconditional release by row id.    *)
Finish(w) == /\ claim' = [claim EXCEPT ![work[w]] = {}]
             /\ stage' = [stage EXCEPT ![w] = "idle"]
             /\ work' = [work EXCEPT ![w] = NoMessage]
             /\ lapsed' = [lapsed EXCEPT ![w] = FALSE]
             /\ seen' = [seen EXCEPT ![w] = Absent]
             /\ UNCHANGED <<outbox, cancelled, upgraded, crashes>>

(* The row was accepted before: the handoff is answered REPLAYED.          *)
Replay(w) == /\ stage[w] = "claimed"
             /\ ~LockedByOther(w)
             /\ inbox[work[w]] = Accepted
             /\ work[w] \notin Malformed
             /\ Finish(w)
             /\ UNCHANGED <<inbox, effects, emitted, alerts>>

(* Mutant: consume inserts its inbox row ON CONFLICT DO NOTHING.           *)
NeverConflict(w) == FALSE

(* A plain INSERT of an inbox row that another transaction inserted.       *)
InboxConflict(w) == seen[w] = Absent /\ inbox[work[w]] # Absent

Failures(m) == {<<m, "failure">> : n \in {m} \cap Answered}

(* What handling the row may put in the outbox: a row of consume that asks *)
(* the outside world may find out that the answer is a failure.            *)
Outcomes(m) == {{<<m, "result">> : n \in {m} \cap Emitting}}
                   \cup {Failures(m) : n \in {m} \cap Consumed \cap Answered}

Apply(w) == /\ inbox' = [inbox EXCEPT ![work[w]] = Accepted]
            /\ effects' = [effects EXCEPT ![work[w]] = @ + 1]
            /\ \E out \in Outcomes(work[w]) :
                   out \cap emitted = {} /\ emitted' = emitted \cup out
            /\ Finish(w)
            /\ UNCHANGED alerts

AcceptConsumed(w) == /\ stage[w] = "applying"
                     /\ work[w] \in Consumed
                     /\ Supported(work[w])
                     /\ ~InboxConflict(w)
                     /\ Apply(w)

(* _begin_owned_contract upserts the inbox row (ON CONFLICT DO UPDATE),    *)
(* waiting for a lock on it but indifferent to what it says by then.       *)
AcceptOwned(w) == /\ stage[w] = "applying"
                  /\ work[w] \notin Consumed
                  /\ Supported(work[w])
                  /\ ~LockedByOther(w)
                  /\ Apply(w)

(* consume with an unsupported version; of these rows only the admission   *)
(* request is answered (it is Consumed).  Nothing the second time.         *)
RejectUnsupported(w) ==
    /\ stage[w] = "applying"
    /\ ~Supported(work[w])
    /\ ~InboxConflict(w)
    /\ IF seen[w] = Absent
       THEN /\ inbox' = [inbox EXCEPT ![work[w]] = Unsupported]
            /\ alerts' = alerts \cup {work[w]}
            /\ emitted' = emitted \cup
                   (IF work[w] \in Consumed THEN Failures(work[w]) ELSE {})
       ELSE UNCHANGED <<inbox, alerts, emitted>>
    /\ Finish(w)
    /\ UNCHANGED effects

(* reject_invalid_contract: the failure goes out the first time only.      *)
FailureDue(w) == {f \in Failures(work[w]) : seen[w] # Invalid}

RefuseInvalid(w) == /\ stage[w] = "refusing"
                    /\ ~InboxConflict(w)
                    /\ FailureDue(w) \cap emitted = {}
                    /\ inbox' = [inbox EXCEPT ![work[w]] = Invalid]
                    /\ alerts' = alerts \cup {work[w]}
                    /\ emitted' = emitted \cup FailureDue(w)
                    /\ Finish(w)
                    /\ UNCHANGED effects

(* The worker leaves without releasing its claim.                          *)
Abandon(w) == /\ stage' = [stage EXCEPT ![w] = "idle"]
              /\ work' = [work EXCEPT ![w] = NoMessage]
              /\ lapsed' = [lapsed EXCEPT ![w] = FALSE]
              /\ seen' = [seen EXCEPT ![w] = Absent]
              /\ UNCHANGED <<queue, upgraded>>

(* UniqueViolation (an inbox row or a follow-up with that key exists)      *)
(* rolls the transaction back and ends the process.                        *)
Conflict(w) ==
    /\ \/ /\ stage[w] = "applying"
          /\ \/ InboxConflict(w) /\ (work[w] \in Consumed \/ ~Supported(work[w]))
             \/ /\ Supported(work[w])
                /\ \E out \in Outcomes(work[w]) : out \cap emitted # {}
       \/ /\ stage[w] = "refusing"
          /\ InboxConflict(w) \/ FailureDue(w) \cap emitted # {}
    /\ Abandon(w)
    /\ UNCHANGED crashes

Crash(w) == /\ stage[w] # "idle"
            /\ crashes < MaxCrashes
            /\ crashes' = crashes + 1
            /\ Abandon(w)

(* A deployment restarts every worker of the role on the new release.      *)
Upgrade == /\ ~upgraded
           /\ upgraded' = TRUE
           /\ stage' = [w \in Workers |-> "idle"]
           /\ work' = [w \in Workers |-> NoMessage]
           /\ lapsed' = [w \in Workers |-> FALSE]
           /\ seen' = [w \in Workers |-> Absent]
           /\ UNCHANGED <<queue, crashes>>

WorkerStep(w) == \/ \E m \in Messages : Claim(w, m)
                 \/ OpenToApply(w) \/ OpenToRefuse(w) \/ Replay(w)
                 \/ AcceptConsumed(w) \/ AcceptOwned(w)
                 \/ RejectUnsupported(w) \/ RefuseInvalid(w) \/ Conflict(w)

Next == \/ \E m \in Messages : Produce(m) \/ Cancel(m) \/ LeaseLapse(m)
        \/ \E w \in Workers : WorkerStep(w) \/ Crash(w)
        \/ Upgrade

(* The pump loops for ever, time passes, and the upgrade is rolled out;    *)
(* nothing obliges a producer, an administrator or a crash.                *)
Fairness == /\ \A w \in Workers : WF_vars(WorkerStep(w))
            /\ \A m \in Messages : WF_vars(LeaseLapse(m))
            /\ WF_vars(Upgrade)

Spec     == Init /\ [][Next]_vars
FairSpec == Spec /\ Fairness
-----------------------------------------------------------------------------
TypeOK == /\ outbox \subseteq Messages
          /\ cancelled \subseteq outbox
          /\ claim \in [Messages -> SUBSET Workers]
          /\ inbox \in [Messages -> Status]
          /\ effects \in [Messages -> Nat]
          /\ emitted \subseteq Messages \X {"result", "failure"}
          /\ alerts \subseteq Messages
          /\ stage \in [Workers -> {"idle", "claimed", "applying", "refusing"}]
          /\ work \in [Workers -> Messages \cup {NoMessage}]
          /\ \A w \in Workers : stage[w] # "idle" => work[w] \in Messages
          /\ lapsed \in [Workers -> BOOLEAN]
          /\ seen \in [Workers -> Status]
          /\ upgraded \in BOOLEAN
          /\ crashes \in Nat

Keyed  == Consumed \cup Emitting
Single == \A v, w \in Workers : v = w

(* A contract changes owner state at most once, whatever crashes, lapsed   *)
(* leases and concurrent workers do to its delivery: always when a key     *)
(* (the inbox INSERT of consume, or the derived id of the follow-up)       *)
(* guards its transaction, and for every contract when one process runs    *)
(* the role, as the deployment has it.                                     *)
EffectsAtMostOnce ==
    \A m \in Messages : (m \in Keyed \/ Single) => effects[m] <= 1

(* _release_claim names only the row, so a worker that outlived its lease  *)
(* clears its successor's claim.  Still no row is ever worked on under two *)
(* leases that have both not run out: whoever releases also settles.       *)
LeaseExclusive ==
    \A v, w \in Workers :
        /\ v # w
        /\ stage[v] # "idle" /\ stage[w] # "idle"
        /\ work[v] = work[w]
        => lapsed[v] \/ lapsed[w]

BothAnswers(m) == {<<m, "result">>, <<m, "failure">>} \subseteq emitted

(* A requester gets a result or a failure for one contract, never both,    *)
(* whatever is redelivered (one process per role).  Of one that only       *)
(* the next release supports the code does not promise it: its rejection   *)
(* answers the request, and claim_next hands it to the next release, which *)
(* answers it again.                                                       *)
OneAnswer == Single => \A m \in Messages \ Newer : ~BothAnswers(m)

(* With several processes a second answer can go out (a late worker        *)
(* refuses what its successor applied), but never from a worker that       *)
(* still holds the row's lease: who keeps within its lease finds the       *)
(* requester unanswered.                                                   *)
OneAnswerUnderLease ==
    [][\A m \in Messages \ Newer, w \in Workers :
          (work[w] = m /\ claim[m] = {w} /\ work'[w] # m /\ BothAnswers(m)')
              => BothAnswers(m)]_vars

(* An unsupported or invalid contract never goes away unnoticed, and the   *)
(* alert of a contract rejected for its version does not stop the next     *)
(* release from applying it.                                               *)
RejectionsAlerted ==
    \A m \in Messages : inbox[m] \in {Unsupported, Invalid} => m \in alerts

(* A contract that was settled is never unsettled or applied again by a    *)
(* later delivery (one process per role).                                  *)
SettledForGood ==
    [][\A m \in Messages :
          (Single /\ inbox[m] \in Settled)
              => inbox'[m] = inbox[m] /\ effects'[m] = effects[m]]_vars

(* Every committed contract that is not cancelled is eventually accepted   *)
(* or refused: no crash, lapsed lease or version lag strands it.  (Except  *)
(* one that was answered when its version was rejected: its second failure *)
(* would have the key of the first.)                                       *)
EventuallySettled ==
    \A m \in Messages \ (Newer \cap Answered) :
        m \in outbox ~> (inbox[m] \in Settled \/ m \in cancelled)

(* The handoff implements exactly-once effects on top of at-least-once     *)
(* delivery.                                                               *)
Handoff     == INSTANCE ContractHandoff WITH sent <- outbox
HandoffSpec == Handoff!Spec
=============================================================================
