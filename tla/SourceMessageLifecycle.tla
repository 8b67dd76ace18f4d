----------------------- MODULE SourceMessageLifecycle -----------------------
(***************************************************************************)
(* One Source Message and the Opportunity derived from it, across the four *)
(* runtime roles that keep a part of it:                                   *)
(*   ingestion       the difference checkpoint and the recorded events     *)
(*   application     the message row, the Opportunity row, the registry    *)
(*   classification  turns a revision into a proposal                      *)
(*   recommendation  the projection that searches read                     *)
(* Revision r of the message is the r-th thing that happened to it on      *)
(* Telegram.  A role is one process: it handles its oldest contract that   *)
(* is not under a lease, in one transaction; a crash after the claim       *)
(* leaves the lease behind, so that younger contracts overtake.            *)
(* The session lock a classifier attempt holds on the message from its     *)
(* admission to its record makes an attempt one step here.                 *)
(***************************************************************************)
EXTENDS Naturals, Sequences, SequencesExt

CONSTANTS
    Channel,       \* the chat is a channel or supergroup: its edits are transport-proven
    MaxRevision,   \* bound on what happens to the message on Telegram
    Commands,      \* what the administrator may ask for the chat to become
    MaxCommands,   \* bound on those commands
    MaxTargetEdits,\* bound on edits of the message this one replies to
    MaxDecisions,  \* bound on operator moderation decisions
    Crashing,      \* roles whose process may crash
    MaxCrashes     \* bound on those crashes

ASSUME LifecycleAssumption ==
    /\ Channel \in BOOLEAN
    /\ Commands \subseteq {"enabled", "paused", "removed"}
    /\ MaxRevision \in Nat /\ MaxCommands \in Nat /\ MaxTargetEdits \in Nat
    /\ MaxDecisions \in Nat /\ MaxCrashes \in Nat
    /\ Crashing \subseteq {"application", "classification", "recommendation"}

VARIABLES
    history,         \* what happened on Telegram: kind, and how often the chat
                     \* had been re-enabled by then (its event_time)
    checkpoint,      \* how much of it the committed difference checkpoint covers
    recorded,        \* revisions in source_event_records
    chat,            \* registry: enabled, paused or removed
    epoch,           \* re-enables so far: each moves processing_started_at
    commands,        \* commands sent so far
    source,          \* source_messages: current revision (0: no row), tombstoned
    target,          \* current revision of the message this one replies to
    outcome,         \* classification_routing_outcomes, per revision
    opportunity,     \* application_opportunities: revision (0: no row), state,
                     \* reason, and whether its response route is usable
    pausedAt,        \* revisions whose pause publication is in the outbox
    applicationQ, classificationQ, recommendationQ, \* unsettled contracts
    projection,      \* recommendation_opportunities, per opportunity revision
    decisions,
    crashes

telegram == <<history, checkpoint, recorded>>
registry == <<chat, epoch, commands>>
queues   == <<applicationQ, classificationQ, recommendationQ>>
bounds   == <<decisions, crashes>>
vars     == <<telegram, registry, source, target, outcome, opportunity,
              pausedAt, queues, projection, bounds>>

Revisions == 1..MaxRevision
Kinds     == {"create", "edit", "delete"}
States    == {"none", "active", "held_for_review", "suppressed"}
Lifecycle == {"source_chat_paused", "source_chat_removed"}
Reasons   == Lifecycle \cup
             {"none", "source_deleted", "source_revision_superseded",
              "response_route_unavailable", "moderation_held",
              "moderation_suppressed", "review_timeout"}

NoRow == [state |-> "none", reason |-> "none"]

Init == /\ history = <<>>
        /\ checkpoint = 0
        /\ recorded = {}
        /\ chat = "enabled"
        /\ epoch = 0 /\ commands = 0
        /\ source = [revision |-> 0, tombstoned |-> FALSE]
        /\ target = 0
        /\ outcome = [r \in Revisions |-> "none"]
        /\ opportunity = [revision |-> 0, state |-> "none", reason |-> "none",
                          usable |-> FALSE]
        /\ pausedAt = {}
        /\ applicationQ = <<>> /\ classificationQ = <<>> /\ recommendationQ = <<>>
        /\ projection = [r \in Revisions |-> NoRow]
        /\ decisions = 0 /\ crashes = 0
-----------------------------------------------------------------------------
(* Contracts.  A classification job carries the revision of the reply      *)
(* target it was created with, and its proposal repeats it.                *)
Event(r)            == [type |-> "event", revision |-> r]
Classify(r, reply)  == [type |-> "classify", revision |-> r, reply |-> reply]
Proposal(r, reply)  == [type |-> "proposal", revision |-> r, reply |-> reply]
ChangeChat(next)    == [type |-> "change", next |-> next]
Cancelled           == [type |-> "cancelled"]

Publication(r, state, reason) ==
    [type |-> "publication", revision |-> r, state |-> state, reason |-> reason]

Send(queue, contract) == Append(queue, [contract |-> contract, leased |-> FALSE])

(* claim_next of the single process of a role: the oldest contract that is *)
(* neither cancelled nor under the lease of a process that crashed.        *)
PassedOver(entry) == entry.leased \/ entry.contract.type = "cancelled"

Due(queue, i) == /\ ~PassedOver(queue[i])
                 /\ \A j \in 1..(i - 1) : PassedOver(queue[j])
-----------------------------------------------------------------------------
(* Telegram.  A deleted message has no further history.                    *)
Happens(kind) ==
    /\ Len(history) < MaxRevision
    /\ kind = "create" <=> history = <<>>
    /\ history # <<>> => Last(history).kind # "delete"
    /\ history' = Append(history, [kind |-> kind, epoch |-> epoch])
    /\ UNCHANGED <<checkpoint, recorded, registry, source, target, outcome,
                   opportunity, pausedAt, queues, projection, bounds>>

(* The application accepts an edit of the message this one replies to.     *)
TargetEdited ==
    /\ target < MaxTargetEdits
    /\ target' = target + 1
    /\ UNCHANGED <<telegram, registry, source, outcome, opportunity, pausedAt,
                   queues, projection, bounds>>

(* source_message_replay_barrier: a tombstone lets no revision back in.    *)
Barred(r) == history[r].kind # "delete" /\ source.tombstoned

(* source_chat_event_is_processable: enabled, and after the boundary.      *)
AfterBoundary(r) == chat = "enabled" /\ history[r].epoch = epoch

(* commit_source_event: record, outbox row and checkpoint in one           *)
(* transaction; an event the chat's state excludes is passed over.         *)
CommitSourceEvent ==
    /\ checkpoint < Len(history)
    /\ checkpoint' = checkpoint + 1
    /\ IF AfterBoundary(checkpoint + 1) /\ ~Barred(checkpoint + 1)
       THEN /\ recorded' = recorded \cup {checkpoint + 1}
            /\ applicationQ' = Send(applicationQ, Event(checkpoint + 1))
       ELSE UNCHANGED <<recorded, applicationQ>>
    /\ UNCHANGED <<history, registry, source, target, outcome, opportunity,
                   pausedAt, classificationQ, recommendationQ, projection, bounds>>
-----------------------------------------------------------------------------
(* Application: SourceEventRecorded.  An edit with transport proof passes  *)
(* whatever its event time says, as long as the chat is enabled.           *)
Admitted(r) == \/ AfterBoundary(r)
               \/ chat = "enabled" /\ Channel /\ history[r].kind = "edit"

(* Mutant: the revision before the current one counts as newer.            *)
StaleWhenAdjacent(r) == history[r].kind # "create" /\ source.revision >= r - 1

(* Mutant: an edit is never stale.                                         *)
StaleDeletesOnly(r) == history[r].kind = "delete" /\ source.revision >= r

(* A lower or equal edit or delete is stale once a newer row is durable.   *)
Stale(r) == history[r].kind # "create" /\ source.revision >= r

Stored(r) == Admitted(r) /\ ~Barred(r) /\ ~Stale(r)

(* Mutant: an edit inserts its row as well.                                *)
ConflictingOnEdit(r) == Stored(r) /\ source.revision # 0

(* The plain INSERT of a create meets a row some edit has inserted.        *)
Conflicting(r) == Stored(r) /\ history[r].kind = "create" /\ source.revision # 0

(* The oldest due contract of the application is of this type.             *)
Handles(i, type) == /\ Due(applicationQ, i)
                    /\ applicationQ[i].contract.type = type

(* reject_invalid_contract, or an acceptance without effect.               *)
IgnoreSourceEvent(i) ==
    /\ Handles(i, "event")
    /\ ~Stored(applicationQ[i].contract.revision)
    /\ applicationQ' = RemoveAt(applicationQ, i)
    /\ UNCHANGED <<telegram, registry, source, target, outcome, opportunity,
                   pausedAt, classificationQ, recommendationQ, projection, bounds>>

(* _suppress_source_event_opportunities: the Opportunity of an older       *)
(* revision moves to the new one, suppressed.                              *)
Overtaken(r) == opportunity.revision \in 1..(r - 1)

Overtaking(r) ==
    IF history[r].kind = "delete"
    THEN [revision |-> r, state |-> "suppressed", reason |-> "source_deleted",
          usable |-> FALSE]
    ELSE [opportunity EXCEPT !.revision = r, !.state = "suppressed",
                             !.reason = "source_revision_superseded"]

(* accept_source_event; a tombstone is scrubbed, any other revision goes   *)
(* to the classifier.                                                      *)
AcceptSourceEvent(i) ==
    LET r == applicationQ[i].contract.revision IN
    /\ Handles(i, "event")
    /\ Stored(r) /\ ~Conflicting(r)
    /\ applicationQ' = RemoveAt(applicationQ, i)
    /\ source' = [revision |-> r, tombstoned |-> history[r].kind = "delete"]
    /\ classificationQ' = IF history[r].kind = "delete" THEN classificationQ
                          ELSE Send(classificationQ, Classify(r, target))
    /\ IF Overtaken(r)
       THEN /\ opportunity' = Overtaking(r)
            /\ recommendationQ' = Send(recommendationQ,
                   Publication(r, "suppressed", Overtaking(r).reason))
       ELSE UNCHANGED <<opportunity, recommendationQ>>
    /\ UNCHANGED <<telegram, registry, target, outcome, pausedAt, projection,
                   bounds>>

(* The exception ends the process: the contract keeps its lease.           *)
LeaseHead(i) ==
    /\ applicationQ' = [applicationQ EXCEPT ![i].leased = TRUE]
    /\ UNCHANGED <<telegram, registry, source, target, outcome, opportunity,
                   pausedAt, classificationQ, recommendationQ, projection, bounds>>

ConflictOnCreate(i) == /\ Handles(i, "event")
                       /\ Conflicting(applicationQ[i].contract.revision)
                       /\ LeaseHead(i)
-----------------------------------------------------------------------------
(* source_chat_revision_is_processable.                                    *)
Processable(r) == /\ source = [revision |-> r, tombstoned |-> FALSE]
                  /\ AfterBoundary(r)

Proposed(i) == LET job == classificationQ[i].contract
               IN Proposal(job.revision, job.reply)

(* Mutant: the contract is left under its lease.                           *)
ClassifyUnsettled(i) ==
    /\ Due(classificationQ, i)
    /\ classificationQ' = [classificationQ EXCEPT ![i].leased = TRUE]
    /\ applicationQ' = IF Processable(classificationQ[i].contract.revision)
                       THEN Send(applicationQ, Proposed(i)) ELSE applicationQ
    /\ UNCHANGED <<telegram, registry, source, target, outcome, opportunity,
                   pausedAt, recommendationQ, projection, bounds>>

(* Classification: one attempt, admitted and recorded, or consumed without *)
(* one because the revision is no longer processable.                      *)
ClassifyRevision(i) ==
    /\ Due(classificationQ, i)
    /\ classificationQ' = RemoveAt(classificationQ, i)
    /\ applicationQ' = IF Processable(classificationQ[i].contract.revision)
                       THEN Send(applicationQ, Proposed(i)) ELSE applicationQ
    /\ UNCHANGED <<telegram, registry, source, target, outcome, opportunity,
                   pausedAt, recommendationQ, projection, bounds>>

(* Application: ClassificationProposal.                                    *)
TakeProposal(i) == /\ Handles(i, "proposal")
                   /\ applicationQ' = RemoveAt(applicationQ, i)
                   /\ UNCHANGED <<telegram, registry, source, target, pausedAt,
                                  classificationQ, projection, bounds>>

(* _application_opportunity_is_lifecycle_suppressed.                       *)
LifecycleSuppressed == opportunity.reason \in Lifecycle

(* Mutant: the revision is not looked at again.                            *)
UsableUnchecked(proposal) == proposal.reply = target

(* The revision is current, and so is the message it replies to.           *)
Usable(proposal) == /\ Processable(proposal.revision)
                    /\ proposal.reply = target

(* Overtaken, or suppressed for good: consumed without effect.             *)
DropProposal(i) == /\ TakeProposal(i)
                   /\ \/ ~Usable(applicationQ[i].contract)
                      \/ LifecycleSuppressed
                   /\ UNCHANGED <<outcome, opportunity, recommendationQ>>

(* publish_opportunity: accepted, or held by the moderation gate.          *)
PublishOpportunity(i, state) ==
    LET r      == applicationQ[i].contract.revision
        reason == IF state = "active" THEN "none" ELSE "moderation_held"
    IN /\ TakeProposal(i)
       /\ Usable(applicationQ[i].contract) /\ ~LifecycleSuppressed
       /\ outcome' = [outcome EXCEPT ![r] = "accepted"]
       /\ opportunity' = IF r >= opportunity.revision
                         THEN [revision |-> r, state |-> state,
                               reason |-> reason, usable |-> TRUE]
                         ELSE opportunity
       /\ recommendationQ' =
              Send(recommendationQ, Publication(r, state, reason))

(* record_classification_routing_outcome: no Opportunity, or none with a   *)
(* usable response route; _stale_opportunity_suppression.                  *)
RecordRoutingOutcome(i, reason) ==
    LET r     == applicationQ[i].contract.revision
        stale == \/ opportunity.state = "active"
                 \/ /\ reason = "response_route_unavailable"
                    /\ opportunity.revision = r
                    /\ opportunity.reason = "source_revision_superseded"
    IN /\ TakeProposal(i)
       /\ Usable(applicationQ[i].contract)
       /\ outcome' = [outcome EXCEPT ![r] = "rejected"]
       /\ IF stale
          THEN /\ opportunity' =
                      [revision |-> r, state |-> "suppressed", reason |-> reason,
                       usable |-> IF reason = "response_route_unavailable"
                                  THEN FALSE ELSE opportunity.usable]
               /\ recommendationQ' = Send(recommendationQ,
                      Publication(r, "suppressed", reason))
          ELSE UNCHANGED <<opportunity, recommendationQ>>
-----------------------------------------------------------------------------
(* Application: ChangeSourceChatRegistry.  The administrator asks.         *)
RequestChange(next) ==
    /\ next \in Commands
    /\ commands < MaxCommands
    /\ commands' = commands + 1
    /\ applicationQ' = Send(applicationQ, ChangeChat(next))
    /\ UNCHANGED <<telegram, chat, epoch, source, target, outcome, opportunity,
                   pausedAt, classificationQ, recommendationQ, projection, bounds>>

(* Only an enabled chat is paused, only a paused one re-enabled, and a     *)
(* removed one stays removed.                                              *)
Transitioned(next) == CASE next = "paused"  -> chat = "enabled"
                        [] next = "enabled" -> chat = "paused"
                        [] next = "removed" -> chat # "removed"

(* cancel_source_chat_work takes classifier and publication work, claimed  *)
(* or not, and leaves Source Events and commands.  A pause that meets an   *)
(* attempt under way is in ClassifierExecution.                            *)
Spared(entry) == entry.contract.type \in {"event", "change", "cancelled"}

WithoutWork(queue) ==
    [i \in 1..Len(queue) |->
         IF Spared(queue[i]) THEN queue[i]
         ELSE [contract |-> Cancelled, leased |-> FALSE]]

StopReason(next) == IF source.tombstoned THEN "source_deleted"
                    ELSE IF next = "paused" THEN "source_chat_paused"
                    ELSE "source_chat_removed"

(* _suppress_source_chat_opportunities tells Recommendation, unless the    *)
(* deletion did, or this very suppression stands already.                  *)
Announced(next) ==
    /\ opportunity.revision # 0
    /\ StopReason(next) # "source_deleted"
    /\ \/ opportunity.state # "suppressed"
       \/ opportunity.reason # StopReason(next)

(* The publication's key names the action and the Opportunity revision,    *)
(* and the outbox takes a key once.                                        *)
KeyTaken(next) == /\ next = "paused"
                  /\ Announced(next)
                  /\ opportunity.revision \in pausedAt

(* change_source_chat_lifecycle: pause, or remove.                         *)
StopChat(i, next) ==
    /\ Handles(i, "change")
    /\ applicationQ[i].contract.next = next
    /\ next \in {"paused", "removed"}
    /\ Transitioned(next) /\ ~KeyTaken(next)
    /\ chat' = next
    /\ applicationQ' = WithoutWork(RemoveAt(applicationQ, i))
    /\ classificationQ' = <<>>
    /\ opportunity' = IF opportunity.revision = 0 THEN opportunity
                      ELSE [opportunity EXCEPT !.state = "suppressed",
                                !.reason = StopReason(next), !.usable = FALSE]
    /\ recommendationQ' =
           IF Announced(next)
           THEN Send(<<>>, Publication(opportunity.revision, "suppressed", StopReason(next)))
           ELSE <<>>
    /\ pausedAt' = IF Announced(next) /\ next = "paused"
                   THEN pausedAt \cup {opportunity.revision} ELSE pausedAt
    /\ UNCHANGED <<telegram, epoch, commands, source, target, outcome,
                   projection, bounds>>

(* UniqueViolation: nothing of the command is committed.                   *)
ConflictOnPause(i) == /\ Handles(i, "change")
                      /\ Transitioned(applicationQ[i].contract.next)
                      /\ KeyTaken(applicationQ[i].contract.next)
                      /\ LeaseHead(i)

ReEnable(i) ==
    /\ Handles(i, "change")
    /\ applicationQ[i].contract.next = "enabled"
    /\ Transitioned("enabled")
    /\ chat' = "enabled"
    /\ epoch' = epoch + 1
    /\ applicationQ' = RemoveAt(applicationQ, i)
    /\ UNCHANGED <<telegram, commands, source, target, outcome, opportunity,
                   pausedAt, classificationQ, recommendationQ, projection, bounds>>

IgnoreChange(i) ==
    /\ Handles(i, "change")
    /\ ~Transitioned(applicationQ[i].contract.next)
    /\ applicationQ' = RemoveAt(applicationQ, i)
    /\ UNCHANGED <<telegram, registry, source, target, outcome, opportunity,
                   pausedAt, classificationQ, recommendationQ, projection, bounds>>
-----------------------------------------------------------------------------
(* Moderation: a transition of the current revision, told Recommendation.  *)
Current == /\ opportunity.revision # 0
           /\ source = [revision |-> opportunity.revision, tombstoned |-> FALSE]

Transition(state, reason) ==
    /\ Current
    /\ opportunity' = [opportunity EXCEPT !.state = state, !.reason = reason]
    /\ recommendationQ' = Send(recommendationQ,
           Publication(opportunity.revision, state, reason))
    /\ UNCHANGED <<telegram, registry, source, target, outcome, pausedAt,
                   applicationQ, classificationQ, projection, crashes>>

(* moderate_opportunity: an approval needs a usable route.                 *)
Moderate(state, reason) ==
    /\ decisions < MaxDecisions
    /\ decisions' = decisions + 1
    /\ chat = "enabled"
    /\ state = "active" => opportunity.usable
    /\ <<opportunity.state, opportunity.reason>> # <<state, reason>>
    /\ Transition(state, reason)

(* expire_moderation_reviews: nobody decided for 30 days.                  *)
ExpireReview == /\ opportunity.state = "held_for_review"
                /\ Transition("suppressed", "review_timeout")
                /\ UNCHANGED decisions
-----------------------------------------------------------------------------
(* Recommendation: OpportunityPublicationChanged.  What is written passes  *)
(* the barriers of the source and of the chat first, and a row the chat    *)
(* suppressed once suppresses the Opportunity for good.                    *)
Projected(contract) ==
    LET barred(reason) == [state |-> "suppressed", reason |-> reason] IN
    IF source.tombstoned THEN barred("source_deleted")
    ELSE IF chat = "removed" THEN barred("source_chat_removed")
    ELSE IF \/ ~AfterBoundary(opportunity.revision)
            \/ \E r \in Revisions : projection[r].reason \in Lifecycle
         THEN barred("source_chat_paused")
    ELSE [state |-> contract.state, reason |-> contract.reason]

(* Mutant: the last write wins.                                            *)
GuardedNever(contract) == FALSE

(* project_opportunity leaves a stored row alone: a source suppression     *)
(* does not undo a publication of its own revision, and nothing but a      *)
(* suppression overwrites what the chat suppressed.                        *)
Guarded(contract) == contract.reason \in {"source_revision_superseded",
                                          "response_route_unavailable"}

Kept(row, contract) ==
    /\ row # NoRow
    /\ \/ /\ Guarded(contract)
          /\ row.state = "active" \/ row.reason = "response_route_unavailable"
       \/ row.reason \in Lifecycle /\ Projected(contract).state # "suppressed"

ProjectOpportunity(i) ==
    LET contract == recommendationQ[i].contract
        row      == projection[contract.revision]
    IN /\ Due(recommendationQ, i)
       /\ recommendationQ' = RemoveAt(recommendationQ, i)
       /\ projection' = IF Kept(row, contract) THEN projection
                        ELSE [projection EXCEPT
                                  ![contract.revision] = Projected(contract)]
       /\ UNCHANGED <<telegram, registry, source, target, outcome, opportunity,
                      pausedAt, applicationQ, classificationQ, bounds>>
-----------------------------------------------------------------------------
(* A process ends after its claim; the lease lapses.                       *)
Leased(queue, i) == [queue EXCEPT ![i].leased = TRUE]
Lapsed(queue, i) == [queue EXCEPT ![i].leased = FALSE]

Crash(role) ==
    /\ role \in Crashing
    /\ crashes < MaxCrashes
    /\ crashes' = crashes + 1
    /\ \/ /\ role = "application"
          /\ \E i \in 1..Len(applicationQ) :
                 Due(applicationQ, i) /\ applicationQ' = Leased(applicationQ, i)
          /\ UNCHANGED <<classificationQ, recommendationQ>>
       \/ /\ role = "classification"
          /\ \E i \in 1..Len(classificationQ) :
                 Due(classificationQ, i) /\ classificationQ' = Leased(classificationQ, i)
          /\ UNCHANGED <<applicationQ, recommendationQ>>
       \/ /\ role = "recommendation"
          /\ \E i \in 1..Len(recommendationQ) :
                 Due(recommendationQ, i) /\ recommendationQ' = Leased(recommendationQ, i)
          /\ UNCHANGED <<applicationQ, classificationQ>>
    /\ UNCHANGED <<telegram, registry, source, target, outcome, opportunity,
                   pausedAt, projection, decisions>>

LeaseLapse ==
    /\ \/ /\ \E i \in 1..Len(applicationQ) :
                 applicationQ[i].leased /\ applicationQ' = Lapsed(applicationQ, i)
          /\ UNCHANGED <<classificationQ, recommendationQ>>
       \/ /\ \E i \in 1..Len(classificationQ) :
                 classificationQ[i].leased /\ classificationQ' = Lapsed(classificationQ, i)
          /\ UNCHANGED <<applicationQ, recommendationQ>>
       \/ /\ \E i \in 1..Len(recommendationQ) :
                 recommendationQ[i].leased /\ recommendationQ' = Lapsed(recommendationQ, i)
          /\ UNCHANGED <<applicationQ, classificationQ>>
    /\ UNCHANGED <<telegram, registry, source, target, outcome, opportunity,
                   pausedAt, projection, bounds>>
-----------------------------------------------------------------------------
(* process_next of the application, with what it decides on a proposal.    *)
Application ==
    \E i \in 1..Len(applicationQ) :
        \/ IgnoreSourceEvent(i) \/ AcceptSourceEvent(i) \/ ConflictOnCreate(i)
        \/ DropProposal(i)
        \/ \E state \in {"active", "held_for_review"} : PublishOpportunity(i, state)
        \/ \E reason \in {"source_revision_superseded", "response_route_unavailable"} :
               RecordRoutingOutcome(i, reason)
        \/ \E next \in {"paused", "removed"} : StopChat(i, next)
        \/ ConflictOnPause(i) \/ ReEnable(i) \/ IgnoreChange(i)

Classification == \E i \in 1..Len(classificationQ) : ClassifyRevision(i)
Recommendation == \E i \in 1..Len(recommendationQ) : ProjectOpportunity(i)

Moderation == \/ Moderate("active", "none")
              \/ Moderate("suppressed", "moderation_suppressed")

Next == \/ \E kind \in Kinds : Happens(kind)
        \/ TargetEdited
        \/ CommitSourceEvent
        \/ Application \/ Classification \/ Recommendation
        \/ \E next \in Commands : RequestChange(next)
        \/ Moderation \/ ExpireReview
        \/ \E role \in Crashing : Crash(role)
        \/ LeaseLapse

(* The pumps loop, a lease lapses; Telegram, people and crashes owe        *)
(* nothing.                                                                *)
Fairness == /\ WF_vars(CommitSourceEvent)
            /\ WF_vars(Application) /\ WF_vars(Classification)
            /\ WF_vars(Recommendation)
            /\ WF_vars(LeaseLapse)

Spec     == Init /\ [][Next]_vars
FairSpec == Spec /\ Fairness
-----------------------------------------------------------------------------
(* Mutant: any active revision is found, not the newest.                   *)
SearchableAnyRevision(r) == /\ projection[r].state = "active"
                            /\ ~source.tombstoned
                            /\ AfterBoundary(opportunity.revision)

(* find_search_results: the chat and the source must pass, then the newest *)
(* revision Recommendation has a row for decides.                          *)
Searchable(r) ==
    /\ projection[r].state = "active"
    /\ \A s \in (r + 1)..MaxRevision : projection[s] = NoRow
    /\ ~source.tombstoned
    /\ AfterBoundary(opportunity.revision)

Contracts(queue) == {queue[i].contract : i \in 1..Len(queue)}

(* Every variable stays within its type.                                   *)
EventContracts    == {Event(r) : r \in Revisions}
JobContracts      == [type : {"classify"}, revision : Revisions, reply : 0..MaxTargetEdits]
ProposalContracts == [type : {"proposal"}, revision : Revisions, reply : 0..MaxTargetEdits]
ChangeContracts   == {ChangeChat(next) : next \in Commands}
Incoming          == EventContracts \cup ProposalContracts \cup ChangeContracts
                     \cup {Cancelled}
Publications      == [type : {"publication"}, revision : Revisions,
                      state : States, reason : Reasons]
Entries(contracts) == [contract : contracts, leased : BOOLEAN]

TypeOK ==
    /\ history \in Seq([kind : Kinds, epoch : Nat]) /\ Len(history) <= MaxRevision
    /\ checkpoint \in 0..Len(history)
    /\ recorded \subseteq Revisions
    /\ chat \in {"enabled", "paused", "removed"}
    /\ epoch \in Nat /\ commands \in 0..MaxCommands
    /\ source \in [revision : 0..MaxRevision, tombstoned : BOOLEAN]
    /\ target \in 0..MaxTargetEdits
    /\ outcome \in [Revisions -> {"none", "accepted", "rejected"}]
    /\ opportunity \in [revision : 0..MaxRevision, state : States,
                        reason : Reasons, usable : BOOLEAN]
    /\ pausedAt \subseteq Revisions
    /\ applicationQ \in Seq(Entries(Incoming))
    /\ classificationQ \in Seq(Entries(JobContracts))
    /\ recommendationQ \in Seq(Entries(Publications))
    /\ projection \in [Revisions -> [state : States, reason : Reasons]]
    /\ decisions \in 0..MaxDecisions /\ crashes \in 0..MaxCrashes

(* The activation gate: an Opportunity that is active or held for review   *)
(* belongs to the current revision of a message that is not deleted, in an *)
(* enabled chat, from after the chat's last re-enable -- whatever overtook *)
(* what in the queues.                                                     *)
LiveIsCurrent ==
    opportunity.state \in {"active", "held_for_review"} =>
        /\ Current
        /\ AfterBoundary(opportunity.revision)

(* No delivery order takes the message or its Opportunity back to an older *)
(* revision, and nothing un-deletes the message.                           *)
NeverGoesBack ==
    [][/\ source'.revision >= source.revision
       /\ opportunity'.revision >= opportunity.revision
       /\ source.tombstoned => source'.tombstoned]_vars

(* Once Recommendation has no publication left, what a search finds is     *)
(* what the application holds active, in that revision: no reordered,      *)
(* dropped or guarded write leaves a stale active row behind.              *)
SearchConverges ==
    recommendationQ = <<>> =>
        \A r \in Revisions :
            Searchable(r) => opportunity.state = "active" /\ opportunity.revision = r

(* A recorded deletion that the application is done with has taken effect, *)
(* however it was overtaken -- in a chat not paused since the deletion.    *)
DeletionHonoured ==
    \A r \in recorded :
        /\ history[r].kind = "delete"
        /\ AfterBoundary(r)
        /\ Event(r) \notin Contracts(applicationQ)
        => source.tombstoned

(* An operator's suppression of a revision whose classification has been   *)
(* decided stands until the message changes or an operator approves: no    *)
(* proposal of that revision comes a second time.                          *)
SuppressionStands ==
    [][(/\ opportunity.reason = "moderation_suppressed"
        /\ outcome[opportunity.revision] # "none"
        /\ opportunity'.revision = opportunity.revision
        /\ opportunity'.state = "active") => decisions' # decisions]_vars

(* An Opportunity that stays active comes to be found by searches.         *)
ActiveBecomesSearchable ==
    \A r \in Revisions :
        (opportunity.state = "active" /\ opportunity.revision = r)
            ~> (Searchable(r) \/ opportunity.state # "active"
                              \/ opportunity.revision # r)

(* Every recorded event and every command is eventually dealt with.        *)
EventuallyHandled ==
    \A c \in EventContracts \cup ChangeContracts :
        (c \in Contracts(applicationQ)) ~> (c \notin Contracts(applicationQ))
=============================================================================
