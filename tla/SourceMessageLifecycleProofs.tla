--------------------- MODULE SourceMessageLifecycleProofs ---------------------
(* What SourceMessageLifecycle guarantees for every number of revisions,   *)
(* commands, decisions and crashes.                                        *)
EXTENDS SourceMessageLifecycle, SequenceTheorems, TLAPS

(* Sequences: what leaves a queue, joins it or changes in place keeps its  *)
(* type.                                                                   *)
LEMMA RemoveTyped ==
    ASSUME NEW S, NEW q \in Seq(S), NEW i \in 1..Len(q)
    PROVE  RemoveAt(q, i) \in Seq(S)
  BY DEF RemoveAt

(* Sending appends.                                                        *)
LEMMA SendTyped ==
    ASSUME NEW C, NEW q \in Seq(Entries(C)), NEW c \in C
    PROVE  Send(q, c) \in Seq(Entries(C))
  BY DEF Send, Entries

(* A lease changes one flag.                                               *)
LEMMA LeaseTyped ==
    ASSUME NEW C, NEW q \in Seq(Entries(C)), NEW i \in 1..Len(q)
    PROVE  Leased(q, i) \in Seq(Entries(C)) /\ Lapsed(q, i) \in Seq(Entries(C))
<1>1. q[i] \in Entries(C)
  OBVIOUS
<1>2. /\ [q[i] EXCEPT !.leased = TRUE] \in Entries(C)
      /\ [q[i] EXCEPT !.leased = FALSE] \in Entries(C)
  BY <1>1 DEF Entries
<1> QED
  BY <1>2 DEF Leased, Lapsed

(* Cancellation replaces entries in place.                                 *)
LEMMA WithoutWorkTyped ==
    ASSUME NEW C, NEW q \in Seq(Entries(C)), Cancelled \in C
    PROVE  WithoutWork(q) \in Seq(Entries(C))
<1>1. \A i \in 1..Len(q) : q[i] \in Entries(C)
  OBVIOUS
<1>2. [contract |-> Cancelled, leased |-> FALSE] \in Entries(C)
  BY DEF Entries
<1>3. \A i \in 1..Len(q) :
          (IF Spared(q[i]) THEN q[i]
           ELSE [contract |-> Cancelled, leased |-> FALSE]) \in Entries(C)
  BY <1>1, <1>2
<1>4. WithoutWork(q) \in [1..Len(q) -> Entries(C)]
  BY <1>3 DEF WithoutWork
<1> QED
  BY <1>4, SeqDef, LenProperties

(* Contracts the application may hold when n things have happened.         *)
ApplicationContracts(n) ==
    {Event(r) : r \in 1..n} \cup ProposalContracts \cup ChangeContracts
                            \cup {Cancelled}

(* A queue of fewer kinds of contract is a queue of more kinds.            *)
LEMMA SequencesGrow ==
    ASSUME NEW C, NEW D, C \subseteq D
    PROVE  Seq(Entries(C)) \subseteq Seq(Entries(D))
<1>1. Entries(C) \subseteq Entries(D)
  BY DEF Entries
<1> QED
  BY <1>1
-----------------------------------------------------------------------------
(* The contract a handler finds has the shape of its type.                 *)
LEMMA HandledTyped ==
    ASSUME TypeOK, NEW i \in 1..Len(applicationQ)
    PROVE  /\ Handles(i, "event") => applicationQ[i].contract \in EventContracts
           /\ Handles(i, "proposal") => applicationQ[i].contract \in ProposalContracts
           /\ Handles(i, "change") => applicationQ[i].contract \in ChangeContracts
<1>1. applicationQ[i].contract \in Incoming
  <2>1. applicationQ \in Seq(Entries(Incoming))
    BY DEF TypeOK
  <2>2. applicationQ[i] \in Entries(Incoming)
    BY <2>1
  <2> QED
    BY <2>2 DEF Entries
<1>2. \A c \in EventContracts : c.type = "event"
  BY DEF EventContracts, Event
<1>3. \A c \in ProposalContracts : c.type = "proposal"
  BY DEF ProposalContracts
<1>4. \A c \in ChangeContracts : c.type = "change"
  BY DEF ChangeContracts, ChangeChat
<1>5. Cancelled.type = "cancelled"
  BY DEF Cancelled
<1> QED
  BY <1>1, <1>2, <1>3, <1>4, <1>5 DEF Handles, Incoming

(* The queues, once one contract is taken or sent.                         *)
LEMMA QueuesTyped ==
    ASSUME TypeOK
    PROVE  /\ \A i \in 1..Len(applicationQ) :
                  RemoveAt(applicationQ, i) \in Seq(Entries(Incoming))
           /\ \A i \in 1..Len(classificationQ) :
                  RemoveAt(classificationQ, i) \in Seq(Entries(JobContracts))
           /\ \A i \in 1..Len(recommendationQ) :
                  RemoveAt(recommendationQ, i) \in Seq(Entries(Publications))
           /\ \A c \in EventContracts \cup ProposalContracts \cup ChangeContracts :
                  Send(applicationQ, c) \in Seq(Entries(Incoming))
           /\ \A c \in JobContracts :
                  Send(classificationQ, c) \in Seq(Entries(JobContracts))
           /\ \A c \in Publications :
                  Send(recommendationQ, c) \in Seq(Entries(Publications))
<1>1. /\ applicationQ \in Seq(Entries(Incoming))
      /\ classificationQ \in Seq(Entries(JobContracts))
      /\ recommendationQ \in Seq(Entries(Publications))
  BY DEF TypeOK
<1>2. EventContracts \cup ProposalContracts \cup ChangeContracts \subseteq Incoming
  BY DEF Incoming
<1> QED
  BY <1>1, <1>2, RemoveTyped, SendTyped

(* A publication about a revision is one Recommendation may receive.       *)
LEMMA PublicationTyped ==
    ASSUME NEW r \in Revisions, NEW state \in States, NEW reason \in Reasons
    PROVE  Publication(r, state, reason) \in Publications
  BY DEF Publication, Publications

(* Telegram and Ingestion.                                                 *)
LEMMA IngestionTyped ==
    ASSUME TypeOK,
           \/ \E kind \in Kinds : Happens(kind)
           \/ TargetEdited
           \/ CommitSourceEvent
    PROVE  TypeOK'
<1> USE LifecycleAssumption
<1>1. CASE \E kind \in Kinds : Happens(kind)
  <2>1. PICK kind \in Kinds : Happens(kind)
    BY <1>1
  <2>2. /\ history' \in Seq([kind : Kinds, epoch : Nat])
        /\ Len(history') = Len(history) + 1 /\ Len(history') <= MaxRevision
        /\ checkpoint' \in 0..Len(history')
    BY <2>1 DEF TypeOK, Happens
  <2> QED
    BY <2>1, <2>2 DEF TypeOK, Happens, registry, queues, bounds
<1>2. CASE TargetEdited
  BY <1>2 DEF TypeOK, TargetEdited, telegram, registry, queues, bounds
<1>3. CASE CommitSourceEvent
  <2>0. checkpoint + 1 \in Revisions /\ checkpoint + 1 \in 0..Len(history)
    BY <1>3 DEF TypeOK, CommitSourceEvent, Revisions
  <2>1. Event(checkpoint + 1) \in EventContracts
    BY <2>0 DEF EventContracts
  <2>2. applicationQ' \in Seq(Entries(Incoming))
    BY <1>3, <2>1, QueuesTyped DEF TypeOK, CommitSourceEvent
  <2>3. recorded' \subseteq Revisions /\ checkpoint' \in 0..Len(history)
    BY <1>3, <2>0 DEF TypeOK, CommitSourceEvent
  <2> QED
    BY <1>3, <2>2, <2>3 DEF TypeOK, CommitSourceEvent, registry, bounds
<1> QED
  BY <1>1, <1>2, <1>3

(* Application: Source Events.                                             *)
LEMMA SourceEventTyped ==
    ASSUME TypeOK, NEW i \in 1..Len(applicationQ),
           IgnoreSourceEvent(i) \/ AcceptSourceEvent(i) \/ LeaseHead(i)
    PROVE  TypeOK'
<1> USE LifecycleAssumption
<1>1. CASE IgnoreSourceEvent(i)
  BY <1>1, QueuesTyped
  DEF TypeOK, IgnoreSourceEvent, telegram, registry, bounds
<1>2. CASE LeaseHead(i)
  <2>1. applicationQ' \in Seq(Entries(Incoming))
    BY <1>2, LeaseTyped DEF TypeOK, LeaseHead, Leased
  <2> QED
    BY <1>2, <2>1 DEF TypeOK, LeaseHead, telegram, registry, bounds
<1>3. CASE AcceptSourceEvent(i)
  <2> DEFINE r == applicationQ[i].contract.revision
  <2>1. r \in Revisions
    BY <1>3, HandledTyped DEF AcceptSourceEvent, EventContracts, Event
  <2>2. applicationQ' \in Seq(Entries(Incoming))
    BY <1>3, QueuesTyped DEF AcceptSourceEvent
  <2>3. source' \in [revision : 0..MaxRevision, tombstoned : BOOLEAN]
    BY <1>3, <2>1 DEF AcceptSourceEvent, Revisions
  <2>4. classificationQ' \in Seq(Entries(JobContracts))
    <3>1. Classify(r, target) \in JobContracts
      BY <2>1 DEF Classify, JobContracts, TypeOK
    <3> QED
      BY <1>3, <3>1, QueuesTyped DEF AcceptSourceEvent, TypeOK
  <2>5. /\ opportunity' \in [revision : 0..MaxRevision, state : States,
                             reason : Reasons, usable : BOOLEAN]
        /\ recommendationQ' \in Seq(Entries(Publications))
    <3>1. /\ Overtaking(r) \in [revision : 0..MaxRevision, state : States,
                                reason : Reasons, usable : BOOLEAN]
          /\ Overtaking(r).reason \in Reasons
      <4>1. opportunity \in [revision : 0..MaxRevision, state : States,
                              reason : Reasons, usable : BOOLEAN]
        BY DEF TypeOK
      <4>2. r \in 0..MaxRevision /\ "suppressed" \in States
            /\ "source_deleted" \in Reasons /\ "source_revision_superseded" \in Reasons
        BY <2>1 DEF Revisions, States, Reasons
      <4>3. CASE history[r].kind = "delete"
        BY <4>2, <4>3 DEF Overtaking
      <4>4. CASE history[r].kind # "delete"
        BY <4>1, <4>2, <4>4 DEF Overtaking
      <4> QED
        BY <4>3, <4>4
    <3>2. Publication(r, "suppressed", Overtaking(r).reason) \in Publications
      BY <2>1, <3>1, PublicationTyped DEF States
    <3>3. CASE Overtaken(r)
      BY <1>3, <3>1, <3>2, <3>3, QueuesTyped DEF AcceptSourceEvent
    <3>4. CASE ~Overtaken(r)
      BY <1>3, <3>4 DEF AcceptSourceEvent, TypeOK
    <3> QED
      BY <3>3, <3>4
  <2> QED
    BY <1>3, <2>2, <2>3, <2>4, <2>5
    DEF TypeOK, AcceptSourceEvent, telegram, registry, bounds
<1> QED
  BY <1>1, <1>2, <1>3

(* Application: proposals.                                                 *)
LEMMA ProposalTyped ==
    ASSUME TypeOK, NEW i \in 1..Len(applicationQ), TakeProposal(i)
    PROVE  /\ applicationQ[i].contract.revision \in Revisions
           /\ /\ outcome' \in [Revisions -> {"none", "accepted", "rejected"}]
              /\ opportunity' \in [revision : 0..MaxRevision, state : States,
                                   reason : Reasons, usable : BOOLEAN]
              /\ recommendationQ' \in Seq(Entries(Publications))
              => TypeOK'
<1>1. applicationQ[i].contract.revision \in Revisions
  BY HandledTyped DEF TakeProposal, ProposalContracts
<1>2. applicationQ' \in Seq(Entries(Incoming))
  BY QueuesTyped DEF TakeProposal
<1> QED
  BY <1>1, <1>2 DEF TypeOK, TakeProposal, telegram, registry, bounds

(* Every decision on a proposal keeps the types.                           *)
LEMMA DecisionTyped ==
    ASSUME TypeOK, NEW i \in 1..Len(applicationQ),
           \/ DropProposal(i)
           \/ \E state \in {"active", "held_for_review"} : PublishOpportunity(i, state)
           \/ \E reason \in {"source_revision_superseded", "response_route_unavailable"} :
                  RecordRoutingOutcome(i, reason)
    PROVE  TypeOK'
<1> USE LifecycleAssumption
<1> DEFINE r == applicationQ[i].contract.revision
<1> DEFINE Row == [revision : 0..MaxRevision, state : States,
                   reason : Reasons, usable : BOOLEAN]
<1>0. opportunity \in Row
  BY DEF TypeOK
<1>1. CASE DropProposal(i)
  BY <1>1, ProposalTyped DEF DropProposal, TypeOK
<1>2. CASE \E state \in {"active", "held_for_review"} : PublishOpportunity(i, state)
  <2>1. PICK state \in {"active", "held_for_review"} : PublishOpportunity(i, state)
    BY <1>2
  <2> DEFINE reason == IF state = "active" THEN "none" ELSE "moderation_held"
  <2>2. r \in Revisions /\ state \in States /\ reason \in Reasons
    BY <2>1, ProposalTyped DEF PublishOpportunity, States, Reasons
  <2>3. opportunity' \in Row
    BY <2>1, <2>2, <1>0 DEF PublishOpportunity, Revisions
  <2>4. recommendationQ' \in Seq(Entries(Publications))
    BY <2>1, <2>2, PublicationTyped, QueuesTyped DEF PublishOpportunity
  <2>5. outcome' \in [Revisions -> {"none", "accepted", "rejected"}]
    BY <2>1 DEF PublishOpportunity, TypeOK
  <2> QED
    BY <2>1, <2>3, <2>4, <2>5, ProposalTyped DEF PublishOpportunity
<1>3. CASE \E reason \in {"source_revision_superseded", "response_route_unavailable"} :
               RecordRoutingOutcome(i, reason)
  <2>1. PICK reason \in {"source_revision_superseded", "response_route_unavailable"} :
            RecordRoutingOutcome(i, reason)
    BY <1>3
  <2>2. r \in Revisions /\ reason \in Reasons /\ "suppressed" \in States
    BY <2>1, ProposalTyped DEF RecordRoutingOutcome, States, Reasons
  <2>3. Publication(r, "suppressed", reason) \in Publications
    BY <2>2, PublicationTyped
  <2>4. [revision |-> r, state |-> "suppressed", reason |-> reason,
         usable |-> IF reason = "response_route_unavailable"
                    THEN FALSE ELSE opportunity.usable] \in Row
    <3> DEFINE usable == IF reason = "response_route_unavailable"
                         THEN FALSE ELSE opportunity.usable
    <3>1. usable \in BOOLEAN
      BY <1>0
    <3> HIDE DEF usable
    <3>2. [revision |-> r, state |-> "suppressed", reason |-> reason,
           usable |-> usable] \in Row
      BY <2>2, <3>1 DEF Revisions
    <3> QED
      BY <3>2 DEF usable
  <2>5. opportunity' \in Row /\ recommendationQ' \in Seq(Entries(Publications))
    <3>1. recommendationQ \in Seq(Entries(Publications))
      BY DEF TypeOK
    <3>2. \/ /\ opportunity' = [revision |-> r, state |-> "suppressed", reason |-> reason,
                               usable |-> IF reason = "response_route_unavailable"
                                          THEN FALSE ELSE opportunity.usable]
             /\ recommendationQ' = Send(recommendationQ, Publication(r, "suppressed", reason))
          \/ UNCHANGED <<opportunity, recommendationQ>>
      BY <2>1, Zenon DEF RecordRoutingOutcome
    <3> QED
      BY <1>0, <2>3, <2>4, <3>1, <3>2, QueuesTyped
  <2>6. outcome' \in [Revisions -> {"none", "accepted", "rejected"}]
    BY <2>1 DEF RecordRoutingOutcome, TypeOK
  <2> QED
    BY <2>1, <2>5, <2>6, ProposalTyped DEF RecordRoutingOutcome
<1> QED
  BY <1>1, <1>2, <1>3

(* Application: chat commands.                                             *)
LEMMA StopTyped ==
    ASSUME TypeOK, NEW i \in 1..Len(applicationQ),
           NEW next \in {"paused", "removed"}, StopChat(i, next)
    PROVE  TypeOK'
<1> USE LifecycleAssumption
<1> DEFINE Row == [revision : 0..MaxRevision, state : States,
                   reason : Reasons, usable : BOOLEAN]
<1>0. /\ opportunity \in Row
      /\ classificationQ \in Seq(Entries(JobContracts))
      /\ recommendationQ \in Seq(Entries(Publications))
      /\ pausedAt \subseteq Revisions
  BY DEF TypeOK
<1>1. applicationQ' \in Seq(Entries(Incoming))
  <2>1. WithoutWork(RemoveAt(applicationQ, i)) \in Seq(Entries(Incoming))
    BY QueuesTyped, WithoutWorkTyped DEF Incoming
  <2> QED
    BY <2>1 DEF StopChat
<1>2. StopReason(next) \in Reasons
  BY DEF StopReason, Reasons, Lifecycle
<1>3. opportunity' \in Row
  <2>1. [opportunity EXCEPT !.state = "suppressed", !.reason = StopReason(next),
                            !.usable = FALSE] \in Row
    BY <1>0, <1>2 DEF States
  <2> QED
    BY <1>0, <2>1 DEF StopChat
<1>4. /\ recommendationQ' \in Seq(Entries(Publications))
      /\ pausedAt' \subseteq Revisions
  <2>1. <<>> \in Seq(Entries(Publications))
    OBVIOUS
  <2>2. CASE Announced(next)
    <3>1. opportunity.revision \in Revisions
      BY <1>0, <2>2 DEF Announced, Revisions
    <3>2. Publication(opportunity.revision, "suppressed", StopReason(next)) \in Publications
      BY <3>1, <1>2, PublicationTyped DEF States
    <3>3. recommendationQ' = Send(<<>>,
              Publication(opportunity.revision, "suppressed", StopReason(next)))
      BY <2>2 DEF StopChat
    <3>4. Send(<<>>, Publication(opportunity.revision, "suppressed", StopReason(next)))
              \in Seq(Entries(Publications))
      BY <2>1, <3>2, SendTyped
    <3>5. pausedAt' \in SUBSET Revisions
      BY <1>0, <3>1 DEF StopChat
    <3> QED
      BY <3>3, <3>4, <3>5
  <2>3. CASE ~Announced(next)
    BY <1>0, <2>1, <2>3 DEF StopChat
  <2> QED
    BY <2>2, <2>3
<1>5. classificationQ' \in Seq(Entries(JobContracts))
  BY DEF StopChat
<1>6. chat' \in {"enabled", "paused", "removed"}
  BY DEF StopChat
<1> QED
  BY <1>1, <1>3, <1>4, <1>5, <1>6 DEF TypeOK, StopChat, telegram, bounds

(* Requests, re-enables and commands without effect.                       *)
LEMMA CommandTyped ==
    ASSUME TypeOK,
           \/ \E next \in Commands : RequestChange(next)
           \/ \E i \in 1..Len(applicationQ) : ReEnable(i) \/ IgnoreChange(i)
    PROVE  TypeOK'
<1> USE LifecycleAssumption
<1>1. CASE \E next \in Commands : RequestChange(next)
  <2>1. PICK next \in Commands : RequestChange(next)
    BY <1>1
  <2>2. applicationQ' \in Seq(Entries(Incoming))
    BY <2>1, QueuesTyped DEF RequestChange, ChangeContracts
  <2>3. commands' \in 0..MaxCommands
    BY <2>1 DEF RequestChange, TypeOK
  <2> QED
    BY <2>1, <2>2, <2>3 DEF TypeOK, RequestChange, telegram, bounds
<1>2. CASE \E i \in 1..Len(applicationQ) : ReEnable(i) \/ IgnoreChange(i)
  <2>1. PICK i \in 1..Len(applicationQ) : ReEnable(i) \/ IgnoreChange(i)
    BY <1>2
  <2>2. applicationQ' \in Seq(Entries(Incoming))
    BY <2>1, QueuesTyped DEF ReEnable, IgnoreChange
  <2>3. chat' \in {"enabled", "paused", "removed"} /\ epoch' \in Nat
    BY <2>1 DEF TypeOK, ReEnable, IgnoreChange, registry
  <2>4. UNCHANGED <<telegram, commands, source, target, outcome, opportunity,
                    pausedAt, classificationQ, recommendationQ, projection, bounds>>
    BY <2>1 DEF ReEnable, IgnoreChange, registry
  <2> QED
    BY <2>2, <2>3, <2>4 DEF TypeOK, telegram, bounds
<1> QED
  BY <1>1, <1>2

(* Moderation.                                                             *)
LEMMA ModerationTyped ==
    ASSUME TypeOK, Moderation \/ ExpireReview
    PROVE  TypeOK'
<1> USE LifecycleAssumption
<1>1. PICK state \in States, reason \in Reasons : Transition(state, reason)
  BY DEF Moderation, Moderate, ExpireReview, States, Reasons
<1>2. decisions' \in 0..MaxDecisions
  BY DEF TypeOK, Moderation, Moderate, ExpireReview
<1>3. opportunity \in [revision : 0..MaxRevision, state : States,
                       reason : Reasons, usable : BOOLEAN]
  BY DEF TypeOK
<1>4. opportunity' \in [revision : 0..MaxRevision, state : States,
                        reason : Reasons, usable : BOOLEAN]
  BY <1>1, <1>3 DEF Transition
<1>5. opportunity.revision \in Revisions
  BY <1>1, <1>3 DEF Transition, Current, Revisions
<1>6. recommendationQ' \in Seq(Entries(Publications))
  BY <1>1, <1>5, PublicationTyped, QueuesTyped DEF Transition
<1> QED
  BY <1>1, <1>2, <1>4, <1>6 DEF TypeOK, Transition, telegram, registry

(* Classification and Recommendation.                                      *)
LEMMA ClassificationTyped ==
    ASSUME TypeOK, Classification
    PROVE  TypeOK'
<1> USE LifecycleAssumption
<1>1. PICK i \in 1..Len(classificationQ) : ClassifyRevision(i)
  BY DEF Classification
<1>2. classificationQ \in Seq(Entries(JobContracts))
  BY DEF TypeOK
<1>3. classificationQ[i] \in Entries(JobContracts)
  BY <1>2
<1>4. Proposed(i) \in ProposalContracts
  BY <1>3 DEF Proposed, Proposal, ProposalContracts, JobContracts, Entries
<1>5. applicationQ' \in Seq(Entries(Incoming))
  BY <1>1, <1>4, QueuesTyped DEF ClassifyRevision, TypeOK
<1>6. classificationQ' \in Seq(Entries(JobContracts))
  BY <1>1, QueuesTyped DEF ClassifyRevision
<1> QED
  BY <1>1, <1>5, <1>6 DEF TypeOK, ClassifyRevision, telegram, registry, bounds

(* A projection writes a state and a reason a publication or a barrier has. *)
LEMMA RecommendationTyped ==
    ASSUME TypeOK, Recommendation
    PROVE  TypeOK'
<1> USE LifecycleAssumption
<1>1. PICK i \in 1..Len(recommendationQ) : ProjectOpportunity(i)
  BY DEF Recommendation
<1> DEFINE c == recommendationQ[i].contract
<1>2. recommendationQ \in Seq(Entries(Publications))
  BY DEF TypeOK
<1>3. recommendationQ[i] \in Entries(Publications)
  BY <1>2
<1>4. c.state \in States /\ c.reason \in Reasons
  BY <1>3 DEF Entries, Publications
<1>5. Projected(c) \in [state : States, reason : Reasons]
  BY <1>4 DEF Projected, States, Reasons, Lifecycle
<1>6. projection' \in [Revisions -> [state : States, reason : Reasons]]
  BY <1>1, <1>5 DEF ProjectOpportunity, TypeOK
<1>7. recommendationQ' \in Seq(Entries(Publications))
  BY <1>1, QueuesTyped DEF ProjectOpportunity
<1> QED
  BY <1>1, <1>6, <1>7 DEF TypeOK, ProjectOpportunity, telegram, registry, bounds

(* Crashes and leases.                                                     *)
LEMMA LeasesTyped ==
    ASSUME TypeOK, LeaseLapse \/ \E role \in Crashing : Crash(role)
    PROVE  TypeOK'
<1> USE LifecycleAssumption
<1>1. /\ applicationQ \in Seq(Entries(Incoming))
      /\ classificationQ \in Seq(Entries(JobContracts))
      /\ recommendationQ \in Seq(Entries(Publications))
  BY DEF TypeOK
<1>2. /\ applicationQ' \in Seq(Entries(Incoming))
      /\ classificationQ' \in Seq(Entries(JobContracts))
      /\ recommendationQ' \in Seq(Entries(Publications))
  BY <1>1, LeaseTyped DEF LeaseLapse, Crash
<1>3. crashes' \in 0..MaxCrashes
  BY DEF TypeOK, LeaseLapse, Crash, bounds
<1>4. UNCHANGED <<telegram, registry, source, target, outcome, opportunity,
                  pausedAt, projection, decisions>>
  BY DEF LeaseLapse, Crash, bounds
<1> QED
  BY <1>2, <1>3, <1>4 DEF TypeOK, telegram, registry

(* Every step of every role keeps the types.                               *)
LEMMA StepTyped == TypeOK /\ [Next]_vars => TypeOK'
<1> SUFFICES ASSUME TypeOK, [Next]_vars PROVE TypeOK'
  OBVIOUS
<1>1. CASE Application
  <2>1. PICK i \in 1..Len(applicationQ) :
            \/ IgnoreSourceEvent(i) \/ AcceptSourceEvent(i) \/ ConflictOnCreate(i)
            \/ DropProposal(i)
            \/ \E state \in {"active", "held_for_review"} : PublishOpportunity(i, state)
            \/ \E reason \in {"source_revision_superseded",
                              "response_route_unavailable"} :
                   RecordRoutingOutcome(i, reason)
            \/ \E next \in {"paused", "removed"} : StopChat(i, next)
            \/ ConflictOnPause(i) \/ ReEnable(i) \/ IgnoreChange(i)
    BY <1>1 DEF Application
  <2> QED
    BY <2>1, SourceEventTyped, DecisionTyped, StopTyped, CommandTyped
    DEF ConflictOnCreate, ConflictOnPause
<1>2. CASE UNCHANGED vars
  BY <1>2 DEF TypeOK, vars, telegram, registry, queues, bounds
<1> QED
  BY <1>1, <1>2, IngestionTyped, ClassificationTyped, RecommendationTyped,
     CommandTyped, ModerationTyped, LeasesTyped DEF Next

(* The initial rows and empty queues are typed.                            *)
LEMMA InitTyped == Init => TypeOK
<1> SUFFICES ASSUME Init PROVE TypeOK
  OBVIOUS
<1>1. /\ history \in Seq([kind : Kinds, epoch : Nat]) /\ Len(history) = 0
      /\ applicationQ \in Seq(Entries(Incoming))
      /\ classificationQ \in Seq(Entries(JobContracts))
      /\ recommendationQ \in Seq(Entries(Publications))
  BY EmptySeq DEF Init
<1>2. /\ opportunity \in [revision : 0..MaxRevision, state : States,
                          reason : Reasons, usable : BOOLEAN]
      /\ source \in [revision : 0..MaxRevision, tombstoned : BOOLEAN]
      /\ projection \in [Revisions -> [state : States, reason : Reasons]]
      /\ outcome \in [Revisions -> {"none", "accepted", "rejected"}]
  BY LifecycleAssumption DEF Init, NoRow, States, Reasons
<1> QED
  BY LifecycleAssumption, <1>1, <1>2 DEF Init, TypeOK

(* Every variable of the lifecycle stays within its type: no handler,      *)
(* cancellation, crash or overtaking leaves a malformed row or contract.   *)
THEOREM LifecycleTyped == Spec => []TypeOK
<1> QED
  BY InitTyped, StepTyped, PTL DEF Spec
-----------------------------------------------------------------------------
(* Telegram's history is only ever extended, in the order of the chat's    *)
(* re-enables.                                                             *)
HistoryInv == \A r, s \in 1..Len(history) :
                  r <= s => /\ history[r].epoch <= history[s].epoch
                            /\ history[s].epoch <= epoch

(* An event in the queue is about something that happened.                 *)
EventsInv == applicationQ \in Seq(Entries(ApplicationContracts(Len(history))))

(* The message row is at most where the history is, and the Opportunity    *)
(* row at most where the message row is.                                   *)
RowsInv == /\ source.revision <= Len(history)
           /\ opportunity.revision <= source.revision
           /\ opportunity.revision = 0 =>
                  opportunity.state = "none" /\ ~opportunity.usable

(* A usable response route was published after the chat's last re-enable.  *)
RouteInv == opportunity.usable => AfterBoundary(opportunity.revision)

IInv == TypeOK /\ HistoryInv /\ EventsInv /\ RowsInv /\ RouteInv /\ LiveIsCurrent

(* Most steps leave what the invariant relates alone.                      *)
LEMMA Steps ==
    ASSUME [Next]_vars
    PROVE  \/ \E kind \in Kinds : Happens(kind)
           \/ UNCHANGED <<history, chat, epoch, source, opportunity>>
           \/ \E i \in 1..Len(applicationQ) :
                 \/ AcceptSourceEvent(i)
                 \/ \E state \in {"active", "held_for_review"} :
                        PublishOpportunity(i, state)
                 \/ \E reason \in {"source_revision_superseded",
                                   "response_route_unavailable"} :
                        RecordRoutingOutcome(i, reason)
                 \/ \E next \in {"paused", "removed"} : StopChat(i, next)
                 \/ ReEnable(i)
           \/ Moderation \/ ExpireReview
<1>1. CASE Application
  <2>1. PICK i \in 1..Len(applicationQ) :
            \/ IgnoreSourceEvent(i) \/ AcceptSourceEvent(i) \/ ConflictOnCreate(i)
            \/ DropProposal(i)
            \/ \E state \in {"active", "held_for_review"} : PublishOpportunity(i, state)
            \/ \E reason \in {"source_revision_superseded",
                              "response_route_unavailable"} :
                   RecordRoutingOutcome(i, reason)
            \/ \E next \in {"paused", "removed"} : StopChat(i, next)
            \/ ConflictOnPause(i) \/ ReEnable(i) \/ IgnoreChange(i)
    BY <1>1 DEF Application
  <2>2. IgnoreSourceEvent(i) \/ IgnoreChange(i) \/ LeaseHead(i) =>
            UNCHANGED <<history, chat, epoch, source, opportunity>>
    BY DEF IgnoreSourceEvent, IgnoreChange, LeaseHead, telegram, registry
  <2>3. DropProposal(i) => UNCHANGED <<history, chat, epoch, source, opportunity>>
    BY DEF DropProposal, TakeProposal, telegram, registry
  <2> QED
    BY <2>1, <2>2, <2>3 DEF ConflictOnCreate, ConflictOnPause
<1>2. TargetEdited \/ CommitSourceEvent =>
          UNCHANGED <<history, chat, epoch, source, opportunity>>
  BY DEF TargetEdited, CommitSourceEvent, telegram, registry
<1>3. Classification => UNCHANGED <<history, chat, epoch, source, opportunity>>
  BY DEF Classification, ClassifyRevision, telegram, registry
<1>4. Recommendation => UNCHANGED <<history, chat, epoch, source, opportunity>>
  BY DEF Recommendation, ProjectOpportunity, telegram, registry
<1>5. (\E next \in Commands : RequestChange(next)) =>
          UNCHANGED <<history, chat, epoch, source, opportunity>>
  BY DEF RequestChange, telegram
<1>6. (\E role \in Crashing : Crash(role)) =>
          UNCHANGED <<history, chat, epoch, source, opportunity>>
  BY DEF Crash, telegram, registry
<1>7. LeaseLapse => UNCHANGED <<history, chat, epoch, source, opportunity>>
  BY DEF LeaseLapse, telegram, registry
<1>8. CASE UNCHANGED vars
  BY <1>8 DEF vars, telegram, registry
<1> QED
  BY <1>1, <1>2, <1>3, <1>4, <1>5, <1>6, <1>7, <1>8 DEF Next

(* The history only grows.                                                 *)
LEMMA HistoryGrows ==
    ASSUME TypeOK, [Next]_vars
    PROVE  /\ Len(history) \in Nat /\ Len(history') \in Nat
           /\ Len(history) <= Len(history')
           /\ \A r \in 1..Len(history) : history'[r] = history[r]
<1>1. history \in Seq([kind : Kinds, epoch : Nat])
  BY DEF TypeOK
<1>2. CASE \E kind \in Kinds : Happens(kind)
  BY <1>1, <1>2, LifecycleAssumption DEF Happens, TypeOK
<1>3. CASE UNCHANGED history
  BY <1>1, <1>3
<1>4. \A i : AcceptSourceEvent(i) => UNCHANGED history
  BY DEF AcceptSourceEvent, telegram
<1>5. \A i : ReEnable(i) => UNCHANGED history
  BY DEF ReEnable, telegram
<1>6. \A i, next : StopChat(i, next) => UNCHANGED history
  BY DEF StopChat, telegram
<1>7. \A i, x : PublishOpportunity(i, x) \/ RecordRoutingOutcome(i, x)
                   => UNCHANGED history
  BY DEF PublishOpportunity, RecordRoutingOutcome, TakeProposal, telegram
<1>8. Moderation \/ ExpireReview => UNCHANGED history
  BY DEF Moderation, Moderate, ExpireReview, Transition, telegram
<1> QED
  BY <1>2, <1>3, <1>4, <1>5, <1>6, <1>7, <1>8, Steps

(* The epochs of the history stay ordered.                                 *)
LEMMA HistoryStep ==
    ASSUME TypeOK, HistoryInv, [Next]_vars
    PROVE  HistoryInv'
<1>0. history \in Seq([kind : Kinds, epoch : Nat]) /\ epoch \in Nat
  BY DEF TypeOK
<1>1. CASE \E kind \in Kinds : Happens(kind)
  <2>1. PICK kind \in Kinds : Happens(kind)
    BY <1>1
  <2>2. /\ history' = Append(history, [kind |-> kind, epoch |-> epoch])
        /\ epoch' = epoch
    BY <2>1 DEF Happens, registry
  <2>3. /\ Len(history') = Len(history) + 1
        /\ history'[Len(history) + 1].epoch = epoch
        /\ \A r \in 1..Len(history) : history'[r] = history[r]
    BY <1>0, <2>2
  <2>4. \A r \in 1..Len(history) : history[r].epoch <= epoch
    BY DEF HistoryInv
  <2> SUFFICES ASSUME NEW r \in 1..Len(history'), NEW s \in 1..Len(history'), r <= s
               PROVE  history'[r].epoch <= history'[s].epoch /\ history'[s].epoch <= epoch'
    BY DEF HistoryInv
  <2>0. /\ r \in 1..Len(history) \/ r = Len(history) + 1
        /\ s \in 1..Len(history) \/ s = Len(history) + 1
        /\ Len(history) \in Nat
    <3>1. Len(history) \in Nat
      BY <1>0
    <3> QED
      BY <2>3, <3>1
  <2>5. CASE s \in 1..Len(history)
    <3>1. r \in 1..Len(history)
      BY <1>0, <2>5
    <3> QED
      BY <2>2, <2>3, <2>5, <3>1 DEF HistoryInv
  <2>6. CASE s = Len(history) + 1
    <3>1. history'[s].epoch = epoch
      BY <2>3, <2>6
    <3>2. history'[r].epoch <= epoch
      <4>1. CASE r \in 1..Len(history)
        BY <2>3, <2>4, <4>1
      <4>2. CASE r = Len(history) + 1
        BY <1>0, <2>3, <4>2
      <4> QED
        BY <2>0, <4>1, <4>2
    <3> QED
      BY <1>0, <2>2, <3>1, <3>2
  <2> QED
    BY <2>0, <2>5, <2>6
<1>2. CASE UNCHANGED <<history, epoch>>
  BY <1>2 DEF HistoryInv
<1>3. CASE \E i \in 1..Len(applicationQ) : ReEnable(i)
  <2>1. UNCHANGED history /\ epoch' = epoch + 1
    BY <1>3 DEF ReEnable, telegram
  <2> SUFFICES ASSUME NEW r \in 1..Len(history), NEW s \in 1..Len(history), r <= s
               PROVE  history[r].epoch <= history[s].epoch
                      /\ history[s].epoch <= epoch + 1
    BY <2>1 DEF HistoryInv
  <2>2. history[r].epoch <= history[s].epoch /\ history[s].epoch <= epoch
    BY DEF HistoryInv
  <2>3. history[s].epoch \in Nat
    <3>1. history[s] \in [kind : Kinds, epoch : Nat]
      BY <1>0, ElementOfSeq
    <3> QED
      BY <3>1
  <2> QED
    BY <1>0, <2>2, <2>3
<1>4. \A i : AcceptSourceEvent(i) => UNCHANGED <<history, epoch>>
  BY DEF AcceptSourceEvent, telegram, registry
<1>6. \A i, next : StopChat(i, next) => UNCHANGED <<history, epoch>>
  BY DEF StopChat, telegram
<1>7. \A i, x : PublishOpportunity(i, x) \/ RecordRoutingOutcome(i, x)
                   => UNCHANGED <<history, epoch>>
  BY DEF PublishOpportunity, RecordRoutingOutcome, TakeProposal, telegram, registry
<1>8. Moderation \/ ExpireReview => UNCHANGED <<history, epoch>>
  BY DEF Moderation, Moderate, ExpireReview, Transition, telegram, registry
<1> QED
  BY <1>1, <1>2, <1>3, <1>4, <1>6, <1>7, <1>8, Steps

(* No event in the queue is about something that has not happened.         *)
LEMMA EventsHappened ==
    ASSUME TypeOK, [Next]_vars, EventsInv
    PROVE  EventsInv'
<1> DEFINE C == ApplicationContracts(Len(history))
<1>1. C \subseteq ApplicationContracts(Len(history'))
  BY HistoryGrows DEF ApplicationContracts
<1>2. Seq(Entries(C)) \subseteq Seq(Entries(ApplicationContracts(Len(history'))))
  BY <1>1, SequencesGrow
<1>3. SUFFICES applicationQ' \in Seq(Entries(C))
  BY <1>2 DEF EventsInv
<1>4. Cancelled \in C /\ ProposalContracts \subseteq C /\ ChangeContracts \subseteq C
  BY DEF ApplicationContracts
<1> HIDE DEF C
<1>5. CASE UNCHANGED applicationQ
  BY <1>5 DEF C, EventsInv
<1>6. \A i \in 1..Len(applicationQ) :
          /\ RemoveAt(applicationQ, i) \in Seq(Entries(C))
          /\ WithoutWork(RemoveAt(applicationQ, i)) \in Seq(Entries(C))
          /\ Leased(applicationQ, i) \in Seq(Entries(C))
          /\ Lapsed(applicationQ, i) \in Seq(Entries(C))
  BY <1>4, RemoveTyped, WithoutWorkTyped, LeaseTyped DEF C, EventsInv
<1>7. \A c \in C : Send(applicationQ, c) \in Seq(Entries(C))
  BY SendTyped DEF C, EventsInv
<1>8. \A j \in 1..Len(classificationQ) : Proposed(j) \in C
  <2>1. classificationQ \in Seq(Entries(JobContracts))
    BY DEF TypeOK
  <2>2. \A j \in 1..Len(classificationQ) : classificationQ[j] \in Entries(JobContracts)
    BY <2>1
  <2>3. \A j \in 1..Len(classificationQ) : Proposed(j) \in ProposalContracts
    BY <2>2 DEF Proposed, Proposal, ProposalContracts, JobContracts, Entries
  <2> QED
    BY <1>4, <2>3
<1>9. CASE CommitSourceEvent
  <2>1. checkpoint + 1 \in 1..Len(history)
    BY <1>9 DEF TypeOK, CommitSourceEvent
  <2>2. Event(checkpoint + 1) \in C
    BY <2>1 DEF C, ApplicationContracts
  <2> QED
    BY <1>7, <1>9, <2>2 DEF CommitSourceEvent, C, EventsInv
<1>10. CASE Application
  <2>1. PICK i \in 1..Len(applicationQ) :
            \/ IgnoreSourceEvent(i) \/ AcceptSourceEvent(i) \/ ConflictOnCreate(i)
            \/ DropProposal(i)
            \/ \E state \in {"active", "held_for_review"} : PublishOpportunity(i, state)
            \/ \E reason \in {"source_revision_superseded",
                              "response_route_unavailable"} :
                   RecordRoutingOutcome(i, reason)
            \/ \E next \in {"paused", "removed"} : StopChat(i, next)
            \/ ConflictOnPause(i) \/ ReEnable(i) \/ IgnoreChange(i)
    BY <1>10 DEF Application
  <2>2. CASE \E next \in {"paused", "removed"} : StopChat(i, next)
    <3>1. PICK next \in {"paused", "removed"} : StopChat(i, next)
      BY <2>2
    <3> QED
      BY <1>6, <3>1 DEF StopChat
  <2>3. LeaseHead(i) => applicationQ' = Leased(applicationQ, i)
    BY DEF LeaseHead, Leased
  <2> QED
    BY <1>6, <2>1, <2>2, <2>3
    DEF IgnoreSourceEvent, AcceptSourceEvent, ConflictOnCreate, ConflictOnPause,
        DropProposal, PublishOpportunity, RecordRoutingOutcome, TakeProposal,
        ReEnable, IgnoreChange
<1>11. CASE Classification
  <2>1. PICK i \in 1..Len(classificationQ) : ClassifyRevision(i)
    BY <1>11 DEF Classification
  <2>2. applicationQ' = Send(applicationQ, Proposed(i)) \/ applicationQ' = applicationQ
    BY <2>1 DEF ClassifyRevision
  <2> QED
    BY <1>5, <1>7, <1>8, <2>1, <2>2
<1>12. CASE \E next \in Commands : RequestChange(next)
  BY <1>4, <1>7, <1>12 DEF RequestChange, ChangeContracts
<1>13. CASE (\E role \in Crashing : Crash(role)) \/ LeaseLapse
  <2>1. applicationQ' = applicationQ
        \/ \E i \in 1..Len(applicationQ) :
               applicationQ' = Leased(applicationQ, i) \/ applicationQ' = Lapsed(applicationQ, i)
    BY <1>13 DEF Crash, LeaseLapse
  <2> QED
    BY <1>5, <1>6, <2>1
<1>14. (\E kind \in Kinds : Happens(kind)) \/ TargetEdited \/ Recommendation
           => UNCHANGED applicationQ
  BY DEF Happens, TargetEdited, Recommendation, ProjectOpportunity, queues
<1>15. Moderation \/ ExpireReview => UNCHANGED applicationQ
  BY DEF Moderation, Moderate, ExpireReview, Transition
<1>16. UNCHANGED vars => UNCHANGED applicationQ
  BY DEF vars, queues
<1> QED
  BY <1>5, <1>9, <1>10, <1>11, <1>12, <1>13, <1>14, <1>15, <1>16 DEF Next

(* The parts of the invariant about the rows.                              *)
Guarantee == RowsInv /\ RouteInv /\ LiveIsCurrent

(* What the invariant says of the rows' numbers.                           *)
LEMMA RowFacts ==
    ASSUME IInv
    PROVE  /\ Len(history) \in Nat /\ source.revision \in Nat
           /\ opportunity.revision \in Nat /\ epoch \in Nat
           /\ opportunity.usable \in BOOLEAN
           /\ opportunity.usable => opportunity.revision \in 1..Len(history)
           /\ opportunity.state \in {"active", "held_for_review"} =>
                  opportunity.revision \in 1..Len(history)
<1>1. /\ Len(history) \in Nat /\ source.revision \in Nat
      /\ opportunity.revision \in Nat /\ epoch \in Nat
      /\ opportunity.usable \in BOOLEAN
  BY LifecycleAssumption DEF IInv, TypeOK
<1>2. opportunity.revision = 0 => opportunity.state = "none" /\ ~opportunity.usable
  BY DEF IInv, RowsInv
<1>3. opportunity.revision <= Len(history)
  BY <1>1 DEF IInv, RowsInv
<1> QED
  BY <1>1, <1>2, <1>3

(* A longer history changes nothing for the rows.                          *)
LEMMA TelegramStep ==
    ASSUME IInv, NEW kind \in Kinds, Happens(kind), [Next]_vars
    PROVE  Guarantee'
<1>1. UNCHANGED <<source, opportunity, chat, epoch>>
  BY DEF Happens, registry
<1>2. /\ Len(history) <= Len(history') /\ Len(history') \in Nat
      /\ \A r \in 1..Len(history) : history'[r] = history[r]
  BY HistoryGrows DEF IInv
<1>3. RowsInv'
  BY <1>1, <1>2, RowFacts DEF RowsInv, IInv
<1>4. RouteInv'
  BY <1>1, <1>2, RowFacts DEF RouteInv, IInv, AfterBoundary
<1>5. LiveIsCurrent'
  BY <1>1, <1>2, RowFacts DEF LiveIsCurrent, IInv, AfterBoundary, Current
<1> QED
  BY <1>3, <1>4, <1>5 DEF Guarantee

(* Nor does a step that leaves the rows and the chat alone.                *)
LEMMA FrameStep ==
    ASSUME IInv, UNCHANGED <<history, chat, epoch, source, opportunity>>
    PROVE  Guarantee'
  BY DEF IInv, Guarantee, RowsInv, RouteInv, LiveIsCurrent, AfterBoundary, Current

(* An accepted event is newer than the row, and takes the Opportunity      *)
(* with it.                                                                *)
LEMMA AcceptStep ==
    ASSUME IInv, NEW i \in 1..Len(applicationQ), AcceptSourceEvent(i)
    PROVE  /\ Guarantee'
           /\ source'.revision > source.revision
           /\ opportunity'.revision >= opportunity.revision
           /\ source.tombstoned => source'.tombstoned
<1> DEFINE r == applicationQ[i].contract.revision
<1>1. r \in 1..Len(history)
  <2>1. applicationQ[i] \in Entries(ApplicationContracts(Len(history)))
    BY DEF IInv, EventsInv
  <2>2. applicationQ[i].contract \in ApplicationContracts(Len(history))
    BY <2>1 DEF Entries
  <2>3. applicationQ[i].contract.type = "event"
    BY DEF AcceptSourceEvent, Handles
  <2>4. \A c \in ProposalContracts \cup ChangeContracts \cup {Cancelled} : c.type # "event"
    BY DEF ProposalContracts, ChangeContracts, ChangeChat, Cancelled
  <2>5. applicationQ[i].contract \in {Event(e) : e \in 1..Len(history)}
    BY <2>2, <2>3, <2>4 DEF ApplicationContracts
  <2> QED
    BY <2>5 DEF Event
<1>2. /\ Stored(r) /\ ~Conflicting(r)
      /\ source' = [revision |-> r, tombstoned |-> history[r].kind = "delete"]
      /\ IF Overtaken(r) THEN opportunity' = Overtaking(r)
                         ELSE opportunity' = opportunity
      /\ UNCHANGED <<history, chat, epoch>>
  BY DEF AcceptSourceEvent, telegram, registry
<1> HIDE DEF r
<1>3. source.revision < r
  BY <1>1, <1>2, RowFacts DEF Stored, Stale, Conflicting
<1>4. opportunity.revision < r /\ opportunity.revision <= source.revision
  BY <1>1, <1>3, RowFacts DEF IInv, RowsInv
<1>5. source.tombstoned => source'.tombstoned
  BY <1>2 DEF Stored, Barred
<1>6. CASE opportunity.revision = 0
  <2>1. opportunity' = opportunity
    BY <1>2, <1>6 DEF Overtaken
  <2>2. opportunity.state = "none" /\ ~opportunity.usable
    BY <1>6 DEF IInv, RowsInv
  <2> QED
    BY <1>1, <1>2, <1>3, <1>5, <1>6, <2>1, <2>2, RowFacts
    DEF Guarantee, RowsInv, RouteInv, LiveIsCurrent
<1>7. CASE opportunity.revision # 0
  <2>1. opportunity' = Overtaking(r)
    BY <1>1, <1>2, <1>4, <1>7, RowFacts DEF Overtaken
  <2>2. /\ opportunity'.revision = r /\ opportunity'.state = "suppressed"
        /\ opportunity'.usable => opportunity.usable
    <3>1. CASE history[r].kind = "delete"
      BY <2>1, <3>1 DEF Overtaking
    <3>2. CASE history[r].kind # "delete"
      BY <2>1, <3>2 DEF Overtaking, IInv, TypeOK
    <3> QED
      BY <3>1, <3>2
  <2>3. opportunity.usable => chat = "enabled" /\ history[r].epoch = epoch
    <3> SUFFICES ASSUME opportunity.usable
                 PROVE  chat = "enabled" /\ history[r].epoch = epoch
      OBVIOUS
    <3>1. chat = "enabled" /\ history[opportunity.revision].epoch = epoch
      BY DEF IInv, RouteInv, AfterBoundary
    <3>2. opportunity.revision \in 1..Len(history) /\ opportunity.revision <= r
      BY <1>1, <1>4, RowFacts
    <3>3. history[opportunity.revision].epoch <= history[r].epoch
          /\ history[r].epoch <= epoch
      BY <1>1, <3>2 DEF IInv, HistoryInv
    <3>4. history[r].epoch \in Nat
      <4>1. history \in Seq([kind : Kinds, epoch : Nat])
        BY DEF IInv, TypeOK
      <4>2. history[r] \in [kind : Kinds, epoch : Nat]
        BY <1>1, <4>1, ElementOfSeq
      <4> QED
        BY <4>2
    <3> QED
      BY <3>1, <3>3, <3>4, RowFacts
  <2>4. RowsInv'
    BY <1>1, <1>2, <2>2 DEF RowsInv
  <2>5. RouteInv'
    BY <1>2, <2>2, <2>3 DEF RouteInv, AfterBoundary
  <2>6. LiveIsCurrent'
    BY <2>2 DEF LiveIsCurrent
  <2> QED
    BY <1>1, <1>2, <1>3, <1>4, <1>5, <2>2, <2>4, <2>5, <2>6, RowFacts DEF Guarantee
<1> QED
  BY <1>6, <1>7

(* A proposal that is taken up is about the current revision.              *)
LEMMA DecisionStep ==
    ASSUME IInv, NEW i \in 1..Len(applicationQ),
           \/ \E state \in {"active", "held_for_review"} : PublishOpportunity(i, state)
           \/ \E reason \in {"source_revision_superseded", "response_route_unavailable"} :
                  RecordRoutingOutcome(i, reason)
    PROVE  /\ Guarantee'
           /\ UNCHANGED source
           /\ opportunity'.revision >= opportunity.revision
<1> DEFINE r == applicationQ[i].contract.revision
<1>1. /\ UNCHANGED <<history, chat, epoch, source>>
      /\ r \in Revisions
      /\ source = [revision |-> r, tombstoned |-> FALSE] /\ AfterBoundary(r)
  <2>1. TakeProposal(i) /\ Usable(applicationQ[i].contract)
    BY DEF PublishOpportunity, RecordRoutingOutcome
  <2> QED
    BY <2>1, ProposalTyped DEF IInv, TakeProposal, telegram, registry, Usable, Processable
<1>2. \/ /\ opportunity'.revision = r
         /\ \/ opportunity'.state \in {"active", "held_for_review"}
            \/ opportunity'.state = "suppressed"
      \/ opportunity' = opportunity
  BY DEF PublishOpportunity, RecordRoutingOutcome
<1> HIDE DEF r
<1>3. opportunity.revision <= r /\ r <= Len(history) /\ r # 0 /\ r \in Nat
  BY <1>1, RowFacts DEF IInv, RowsInv, Revisions
<1>4. CASE opportunity'.revision = r
           /\ opportunity'.state \in {"active", "held_for_review", "suppressed"}
  BY <1>1, <1>3, <1>4, RowFacts
  DEF Guarantee, RowsInv, RouteInv, LiveIsCurrent, Current, AfterBoundary
<1>5. CASE opportunity' = opportunity
  BY <1>1, <1>5, FrameStep, RowFacts
<1> QED
  BY <1>2, <1>4, <1>5

(* A stop leaves nothing live and no route usable.                         *)
LEMMA StopStep ==
    ASSUME IInv, NEW i \in 1..Len(applicationQ),
           NEW next \in {"paused", "removed"}, StopChat(i, next)
    PROVE  /\ Guarantee'
           /\ UNCHANGED source
           /\ opportunity'.revision = opportunity.revision
<1>1. /\ UNCHANGED <<history, source>>
      /\ opportunity' = IF opportunity.revision = 0 THEN opportunity
                        ELSE [opportunity EXCEPT !.state = "suppressed",
                                  !.reason = StopReason(next), !.usable = FALSE]
  BY DEF StopChat, telegram
<1>2. CASE opportunity.revision = 0
  BY <1>1, <1>2
  DEF IInv, Guarantee, RowsInv, RouteInv, LiveIsCurrent
<1>3. CASE opportunity.revision # 0
  <2>1. /\ opportunity'.revision = opportunity.revision
        /\ opportunity'.state = "suppressed" /\ opportunity'.usable = FALSE
    BY <1>1, <1>3 DEF IInv, TypeOK
  <2> QED
    BY <1>1, <1>3, <2>1 DEF IInv, Guarantee, RowsInv, RouteInv, LiveIsCurrent
<1> QED
  BY <1>2, <1>3

(* A re-enable finds nothing live.                                         *)
LEMMA ReEnableStep ==
    ASSUME IInv, NEW i \in 1..Len(applicationQ), ReEnable(i)
    PROVE  Guarantee' /\ UNCHANGED <<source, opportunity>>
<1>1. UNCHANGED <<history, source, opportunity>> /\ chat = "paused"
  BY DEF ReEnable, Transitioned, telegram
<1>2. ~opportunity.usable /\ opportunity.state \notin {"active", "held_for_review"}
  BY <1>1 DEF IInv, RouteInv, LiveIsCurrent, AfterBoundary
<1> QED
  BY <1>1, <1>2 DEF IInv, Guarantee, RowsInv, RouteInv, LiveIsCurrent

(* An operator approves only what has a usable route.                      *)
LEMMA ModerationStep ==
    ASSUME IInv, Moderation \/ ExpireReview
    PROVE  /\ Guarantee'
           /\ UNCHANGED source
           /\ opportunity'.revision = opportunity.revision
<1>1. /\ UNCHANGED <<history, chat, epoch, source>>
      /\ Current
      /\ \E state \in {"active", "suppressed"}, reason \in Reasons :
             /\ opportunity' = [opportunity EXCEPT !.state = state, !.reason = reason]
             /\ state = "active" => opportunity.usable
  BY DEF Moderation, Moderate, ExpireReview, Transition, telegram, registry, Reasons
<1>2. /\ opportunity'.revision = opportunity.revision
      /\ opportunity'.usable = opportunity.usable
      /\ \/ opportunity'.state = "suppressed"
         \/ opportunity'.state = "active" /\ opportunity.usable
  BY <1>1 DEF IInv, TypeOK
<1>3. opportunity.revision # 0
  BY <1>1 DEF Current
<1> QED
  BY <1>1, <1>2, <1>3
  DEF IInv, Guarantee, RowsInv, RouteInv, LiveIsCurrent, Current, AfterBoundary

(* What every step preserves, and how the rows move.                       *)
LEMMA Moves ==
    ASSUME IInv, [Next]_vars
    PROVE  /\ IInv'
           /\ source'.revision >= source.revision
           /\ opportunity'.revision >= opportunity.revision
           /\ source.tombstoned => source'.tombstoned
<1>1. TypeOK' /\ HistoryInv' /\ EventsInv'
  BY StepTyped, HistoryStep, EventsHappened DEF IInv
<1> SUFFICES /\ Guarantee'
             /\ source'.revision >= source.revision
             /\ opportunity'.revision >= opportunity.revision
             /\ source.tombstoned => source'.tombstoned
  BY <1>1 DEF IInv, Guarantee
<1>2. /\ source.revision \in Nat /\ opportunity.revision \in Nat
      /\ source'.revision \in Nat /\ opportunity'.revision \in Nat
  BY <1>1, RowFacts, LifecycleAssumption DEF TypeOK
<1>3. CASE \E kind \in Kinds : Happens(kind)
  <2>1. UNCHANGED <<source, opportunity>>
    BY <1>3 DEF Happens
  <2> QED
    BY <1>2, <1>3, <2>1, TelegramStep
<1>4. CASE UNCHANGED <<history, chat, epoch, source, opportunity>>
  BY <1>2, <1>4, FrameStep
<1>5. ASSUME NEW i \in 1..Len(applicationQ),
             \/ AcceptSourceEvent(i)
             \/ \E state \in {"active", "held_for_review"} :
                    PublishOpportunity(i, state)
             \/ \E reason \in {"source_revision_superseded",
                               "response_route_unavailable"} :
                    RecordRoutingOutcome(i, reason)
             \/ \E next \in {"paused", "removed"} : StopChat(i, next)
             \/ ReEnable(i)
      PROVE  /\ Guarantee'
             /\ source'.revision >= source.revision
             /\ opportunity'.revision >= opportunity.revision
             /\ source.tombstoned => source'.tombstoned
  <2>1. CASE AcceptSourceEvent(i)
    BY <1>2, <2>1, AcceptStep
  <2>2. CASE \/ \E state \in {"active", "held_for_review"} : PublishOpportunity(i, state)
             \/ \E reason \in {"source_revision_superseded",
                               "response_route_unavailable"} :
                    RecordRoutingOutcome(i, reason)
    BY <1>2, <2>2, DecisionStep
  <2>3. CASE \E next \in {"paused", "removed"} : StopChat(i, next)
    BY <1>2, <2>3, StopStep
  <2>4. CASE ReEnable(i)
    BY <1>2, <2>4, ReEnableStep
  <2> QED
    BY <1>5, <2>1, <2>2, <2>3, <2>4
<1>6. CASE Moderation \/ ExpireReview
  BY <1>2, <1>6, ModerationStep
<1> QED
  BY <1>3, <1>4, <1>5, <1>6, Steps

(* The rows start empty.                                                   *)
LEMMA InitInv == Init => IInv
<1> SUFFICES ASSUME Init PROVE IInv
  OBVIOUS
<1>1. history = <<>> /\ Len(history) = 0
  BY DEF Init
<1>2. EventsInv
  BY <1>1, EmptySeq DEF Init, EventsInv
<1>3. HistoryInv
  BY <1>1 DEF HistoryInv
<1>4. RowsInv /\ RouteInv /\ LiveIsCurrent
  BY <1>1 DEF Init, RowsInv, RouteInv, LiveIsCurrent
<1>5. TypeOK
  BY InitTyped
<1> QED
  BY <1>2, <1>3, <1>4, <1>5 DEF IInv

(* The inductive invariant: the rows never run ahead of the history, a     *)
(* usable route is from after the last re-enable, and so is what lives.    *)
THEOREM LifecycleInvariant == Spec => []IInv
<1>1. Init => IInv
  BY InitInv
<1>2. IInv /\ [Next]_vars => IInv'
  BY Moves
<1> QED
  BY <1>1, <1>2, PTL DEF Spec

(* The activation gate, for every number of revisions, commands, decisions *)
(* and crashes and for channel and group messages alike: what is active or *)
(* held for review belongs to the current revision in an enabled chat.     *)
THEOREM OnlyCurrentLives == Spec => []LiveIsCurrent
<1>1. IInv => LiveIsCurrent
  BY DEF IInv
<1> QED
  BY <1>1, LifecycleInvariant, PTL

(* No delivery order takes the message or its Opportunity back.            *)
THEOREM RowsNeverGoBack == Spec => NeverGoesBack
<1>1. IInv /\ [Next]_vars =>
          [/\ source'.revision >= source.revision
           /\ opportunity'.revision >= opportunity.revision
           /\ source.tombstoned => source'.tombstoned]_vars
  BY Moves
<1> QED
  BY <1>1, LifecycleInvariant, PTL DEF Spec, NeverGoesBack
-----------------------------------------------------------------------------
(* What the queues hold, whatever the order.  Where an entry ends up when  *)
(* one is removed.                                                         *)
LEMMA RemovedAt ==
    ASSUME NEW S, NEW q \in Seq(S), NEW i \in 1..Len(q)
    PROVE  /\ Len(RemoveAt(q, i)) = Len(q) - 1
           /\ \A k \in 1..(Len(q) - 1) :
                  RemoveAt(q, i)[k] = IF k < i THEN q[k] ELSE q[k + 1]
<1> DEFINE a == SubSeq(q, 1, i - 1)
           b == SubSeq(q, i + 1, Len(q))
<1>1. Len(q) \in Nat /\ i \in Nat /\ i >= 1 /\ i <= Len(q)
  OBVIOUS
<1>2. /\ a \in Seq(S) /\ Len(a) = i - 1
      /\ \A k \in 1..(i - 1) : a[k] = q[k]
  BY <1>1
<1>3. /\ b \in Seq(S) /\ Len(b) = Len(q) - i
      /\ \A k \in 1..(Len(q) - i) : b[k] = q[i + k]
  BY <1>1
<1>4. RemoveAt(q, i) = a \o b
  BY DEF RemoveAt
<1> HIDE DEF a, b
<1>5. Len(a \o b) = Len(q) - 1
  <2>1. Len(a \o b) = Len(a) + Len(b)
    BY <1>2, <1>3, ConcatProperties
  <2> QED
    BY <1>1, <1>2, <1>3, <2>1
<1>6. ASSUME NEW k \in 1..(Len(q) - 1)
      PROVE  (a \o b)[k] = IF k < i THEN q[k] ELSE q[k + 1]
  <2>1. CASE k < i
    BY <1>1, <1>2, <1>3, <2>1
  <2>2. CASE ~(k < i)
    <3>1. k - (i - 1) \in 1..(Len(q) - i) /\ i + (k - (i - 1)) = k + 1
      BY <1>1, <2>2
    <3>2. (a \o b)[k] = b[k - (i - 1)]
      BY <1>1, <1>2, <1>3, <2>2
    <3> QED
      BY <1>3, <2>2, <3>1, <3>2
  <2> QED
    BY <2>1, <2>2
<1> QED
  BY <1>4, <1>5, <1>6

(* The revisions the contracts of one type are about.                      *)
Works(queue, type) ==
    {queue[i].contract.revision :
        i \in {k \in 1..Len(queue) : queue[k].contract.type = type}}

(* No two contracts of the type are about the same revision.               *)
Once(queue, type) ==
    \A i, j \in 1..Len(queue) :
        /\ queue[i].contract.type = type
        /\ queue[j].contract.type = type
        /\ queue[i].contract.revision = queue[j].contract.revision
        => i = j

(* Removal takes one contract.                                             *)
LEMMA RemoveContracts ==
    ASSUME NEW S, NEW q \in Seq(S), NEW i \in 1..Len(q)
    PROVE  /\ Contracts(RemoveAt(q, i)) \subseteq Contracts(q)
           /\ Contracts(q) \subseteq Contracts(RemoveAt(q, i)) \cup {q[i].contract}
<1> DEFINE p == RemoveAt(q, i)
<1>1. /\ Len(p) = Len(q) - 1 /\ Len(q) \in Nat
      /\ \A k \in 1..(Len(q) - 1) : p[k] = IF k < i THEN q[k] ELSE q[k + 1]
  BY RemovedAt
<1> HIDE DEF p
<1>2. ASSUME NEW k \in 1..Len(p)
      PROVE  \E j \in 1..Len(q) : p[k] = q[j]
  <2>1. k \in 1..Len(q) /\ k + 1 \in 1..Len(q)
    BY <1>1
  <2> QED
    BY <1>1, <2>1
<1>3. ASSUME NEW j \in 1..Len(q), j # i
      PROVE  \E k \in 1..Len(p) : p[k] = q[j]
  <2>1. CASE j < i
    <3>1. j \in 1..Len(p)
      BY <1>1, <2>1
    <3> QED
      BY <1>1, <2>1, <3>1
  <2>2. CASE i < j
    <3>1. j - 1 \in 1..Len(p) /\ ~(j - 1 < i) /\ (j - 1) + 1 = j
      BY <1>1, <2>2
    <3> QED
      BY <1>1, <3>1
  <2> QED
    BY <1>3, <2>1, <2>2
<1>4. Contracts(p) \subseteq Contracts(q)
  BY <1>2 DEF Contracts
<1>5. Contracts(q) \subseteq Contracts(p) \cup {q[i].contract}
  BY <1>3 DEF Contracts
<1> QED
  BY <1>4, <1>5 DEF p

(* Sending adds one.                                                       *)
LEMMA SendContracts ==
    ASSUME NEW C, NEW q \in Seq(Entries(C)), NEW c \in C
    PROVE  /\ Len(Send(q, c)) = Len(q) + 1 /\ Len(q) \in Nat
           /\ \A k \in 1..Len(q) : Send(q, c)[k] = q[k]
           /\ Send(q, c)[Len(q) + 1].contract = c
           /\ Contracts(Send(q, c)) = Contracts(q) \cup {c}
<1> DEFINE e == [contract |-> c, leased |-> FALSE]
           p == Send(q, c)
<1>1. e \in Entries(C) /\ e.contract = c
  BY DEF Entries
<1>2. p = Append(q, e)
  BY DEF Send
<1> HIDE DEF e, p
<1>3. /\ Len(p) = Len(q) + 1 /\ Len(q) \in Nat
      /\ \A k \in 1..Len(q) : p[k] = q[k]
      /\ p[Len(q) + 1] = e
  BY <1>1, <1>2
<1>4. \A k : k \in 1..Len(p) <=> k \in 1..Len(q) \/ k = Len(q) + 1
  BY <1>3
<1>5. Contracts(p) = Contracts(q) \cup {c}
  BY <1>1, <1>3, <1>4 DEF Contracts
<1> QED
  BY <1>1, <1>3, <1>5 DEF p

(* A lease changes no contract.                                            *)
LEMMA LeaseContracts ==
    ASSUME NEW C, NEW q \in Seq(Entries(C)), NEW i \in 1..Len(q),
           NEW p, p = Leased(q, i) \/ p = Lapsed(q, i)
    PROVE  /\ Len(p) = Len(q)
           /\ \A k \in 1..Len(q) : p[k].contract = q[k].contract
           /\ Contracts(p) = Contracts(q)
<1>1. \A k \in 1..Len(q) : q[k] \in Entries(C)
  OBVIOUS
<1>2. /\ [q[i] EXCEPT !.leased = TRUE].contract = q[i].contract
      /\ [q[i] EXCEPT !.leased = FALSE].contract = q[i].contract
  BY <1>1 DEF Entries
<1>3. /\ Len(p) = Len(q)
      /\ \A k \in 1..Len(q) : p[k].contract = q[k].contract
  <2>1. CASE p = Leased(q, i)
    BY <1>2, <2>1 DEF Leased
  <2>2. CASE p = Lapsed(q, i)
    BY <1>2, <2>2 DEF Lapsed
  <2> QED
    BY <2>1, <2>2
<1> QED
  BY <1>3 DEF Contracts

(* A pause leaves no proposal in the queue.                                *)
LEMMA CancelledWorks ==
    ASSUME NEW S, NEW q \in Seq(S)
    PROVE  /\ Works(WithoutWork(q), "proposal") = {}
           /\ Once(WithoutWork(q), "proposal")
<1> DEFINE p == WithoutWork(q)
<1>1. Len(p) = Len(q)
  BY DEF WithoutWork
<1>2. \A k \in 1..Len(q) : p[k].contract.type # "proposal"
  BY DEF WithoutWork, Spared, Cancelled
<1> QED
  BY <1>1, <1>2 DEF Works, Once

(* An event, a proposal and a command differ in their types.               *)
LEMMA ContractTypes ==
    /\ \A c \in ProposalContracts : c.type = "proposal"
    /\ \A c \in ChangeContracts : c.type = "change"
    /\ \A r : Event(r).type = "event" /\ Event(r).revision = r
    /\ Cancelled.type = "cancelled"
  BY DEF ProposalContracts, ChangeContracts, ChangeChat, Event, Cancelled

(* How a step may move the application's queue.                            *)
LEMMA ApplicationQueueMoves ==
    ASSUME TypeOK, [Next]_vars
    PROVE  \/ UNCHANGED applicationQ
           \/ \E i \in 1..Len(applicationQ) :
                  applicationQ' = Leased(applicationQ, i) \/ applicationQ' = Lapsed(applicationQ, i)
           \/ CommitSourceEvent /\ applicationQ' = Send(applicationQ, Event(checkpoint + 1))
           \/ \E j \in 1..Len(classificationQ) :
                  ClassifyRevision(j) /\ applicationQ' = Send(applicationQ, Proposed(j))
           \/ \E c \in ChangeContracts : applicationQ' = Send(applicationQ, c)
           \/ \E i \in 1..Len(applicationQ) :
                  /\ applicationQ' = RemoveAt(applicationQ, i)
                  /\ \/ IgnoreSourceEvent(i) \/ AcceptSourceEvent(i)
                     \/ Handles(i, "proposal") \/ Handles(i, "change")
           \/ \E i \in 1..Len(applicationQ) :
                  \E next \in {"paused", "removed"} : StopChat(i, next)
<1>1. CASE Application
  <2>1. PICK i \in 1..Len(applicationQ) :
            \/ IgnoreSourceEvent(i) \/ AcceptSourceEvent(i) \/ ConflictOnCreate(i)
            \/ DropProposal(i)
            \/ \E state \in {"active", "held_for_review"} : PublishOpportunity(i, state)
            \/ \E reason \in {"source_revision_superseded",
                              "response_route_unavailable"} :
                   RecordRoutingOutcome(i, reason)
            \/ \E next \in {"paused", "removed"} : StopChat(i, next)
            \/ ConflictOnPause(i) \/ ReEnable(i) \/ IgnoreChange(i)
    BY <1>1 DEF Application
  <2>2. ConflictOnCreate(i) \/ ConflictOnPause(i) => applicationQ' = Leased(applicationQ, i)
    BY DEF ConflictOnCreate, ConflictOnPause, LeaseHead, Leased
  <2>3. IgnoreSourceEvent(i) \/ AcceptSourceEvent(i) => applicationQ' = RemoveAt(applicationQ, i)
    BY DEF IgnoreSourceEvent, AcceptSourceEvent
  <2>4. ReEnable(i) \/ IgnoreChange(i) =>
            applicationQ' = RemoveAt(applicationQ, i) /\ Handles(i, "change")
    BY DEF ReEnable, IgnoreChange
  <2>5. TakeProposal(i) => applicationQ' = RemoveAt(applicationQ, i) /\ Handles(i, "proposal")
    BY DEF TakeProposal
  <2>6. \A x : DropProposal(i) \/ PublishOpportunity(i, x) \/ RecordRoutingOutcome(i, x)
                   => TakeProposal(i)
    BY DEF DropProposal, PublishOpportunity, RecordRoutingOutcome
  <2> QED
    BY <2>1, <2>2, <2>3, <2>4, <2>5, <2>6
<1>2. CASE Classification
  <2>1. PICK j \in 1..Len(classificationQ) : ClassifyRevision(j)
    BY <1>2 DEF Classification
  <2>2. applicationQ' = Send(applicationQ, Proposed(j)) \/ applicationQ' = applicationQ
    BY <2>1 DEF ClassifyRevision
  <2> QED
    BY <2>1, <2>2
<1>3. CASE \E next \in Commands : RequestChange(next)
  BY <1>3 DEF RequestChange, ChangeContracts
<1>4. CASE (\E role \in Crashing : Crash(role)) \/ LeaseLapse
  BY <1>4 DEF Crash, LeaseLapse
<1>5. CASE CommitSourceEvent
  <2>1. \/ applicationQ' = Send(applicationQ, Event(checkpoint + 1))
        \/ applicationQ' = applicationQ
    BY <1>5 DEF CommitSourceEvent
  <2> QED
    BY <1>5, <2>1
<1>6. (\E kind \in Kinds : Happens(kind)) \/ TargetEdited \/ Recommendation
           => UNCHANGED applicationQ
  BY DEF Happens, TargetEdited, Recommendation, ProjectOpportunity, queues
<1>7. Moderation \/ ExpireReview => UNCHANGED applicationQ
  BY DEF Moderation, Moderate, ExpireReview, Transition
<1>8. UNCHANGED vars => UNCHANGED applicationQ
  BY DEF vars, queues
<1> QED
  BY <1>1, <1>2, <1>3, <1>4, <1>5, <1>6, <1>7, <1>8 DEF Next

(* What the classifier proposes is a proposal.                             *)
LEMMA ProposedTyped ==
    ASSUME TypeOK, NEW j \in 1..Len(classificationQ)
    PROVE  /\ Proposed(j) \in ProposalContracts /\ Proposed(j) \in Incoming
           /\ Proposed(j).revision = classificationQ[j].contract.revision
           /\ classificationQ[j].contract \in JobContracts
<1>1. classificationQ \in Seq(Entries(JobContracts))
  BY DEF TypeOK
<1>2. classificationQ[j] \in Entries(JobContracts)
  BY <1>1
<1> QED
  BY <1>2 DEF Proposed, Proposal, ProposalContracts, JobContracts, Entries, Incoming

(* What is committed has happened.                                         *)
LEMMA CommittedTyped ==
    ASSUME TypeOK, CommitSourceEvent
    PROVE  Event(checkpoint + 1) \in Incoming
<1>1. checkpoint + 1 \in Revisions
  BY LifecycleAssumption DEF TypeOK, CommitSourceEvent, Revisions
<1> QED
  BY <1>1 DEF EventContracts, Incoming

(* While the chat is enabled, an event leaves the queue ignored or         *)
(* accepted.                                                               *)
LEMMA EventsStay ==
    ASSUME TypeOK, [Next]_vars, NEW r,
           Event(r) \in Contracts(applicationQ), Event(r) \notin Contracts(applicationQ)',
           chat' = "enabled"
    PROVE  \E i \in 1..Len(applicationQ) :
               /\ applicationQ[i].contract = Event(r)
               /\ IgnoreSourceEvent(i) \/ AcceptSourceEvent(i)
<1>0. applicationQ \in Seq(Entries(Incoming))
  BY DEF TypeOK
<1>1. Contracts(applicationQ)' # Contracts(applicationQ)
  OBVIOUS
<1>2. ~UNCHANGED applicationQ
  BY <1>1 DEF Contracts
<1>3. \A i \in 1..Len(applicationQ) :
          ~(applicationQ' = Leased(applicationQ, i) \/ applicationQ' = Lapsed(applicationQ, i))
  <2> SUFFICES ASSUME NEW i \in 1..Len(applicationQ),
                      applicationQ' = Leased(applicationQ, i)
                      \/ applicationQ' = Lapsed(applicationQ, i)
               PROVE  Contracts(applicationQ') = Contracts(applicationQ)
    BY <1>1 DEF Contracts
  <2> QED
    BY <1>0, LeaseContracts
<1>4. \A c \in Incoming : applicationQ' # Send(applicationQ, c)
  <2> SUFFICES ASSUME NEW c \in Incoming, applicationQ' = Send(applicationQ, c)
               PROVE  Contracts(applicationQ) \subseteq Contracts(applicationQ')
    BY DEF Contracts
  <2> QED
    BY <1>0, SendContracts
<1>5. \A j \in 1..Len(classificationQ) : Proposed(j) \in Incoming
  BY ProposedTyped
<1>6. CommitSourceEvent => Event(checkpoint + 1) \in Incoming
  BY CommittedTyped
<1>7. \A i \in 1..Len(applicationQ) : \A next \in {"paused", "removed"} : ~StopChat(i, next)
  BY DEF StopChat
<1>8. PICK i \in 1..Len(applicationQ) :
          /\ applicationQ' = RemoveAt(applicationQ, i)
          /\ \/ IgnoreSourceEvent(i) \/ AcceptSourceEvent(i)
             \/ Handles(i, "proposal") \/ Handles(i, "change")
  <2>1. ChangeContracts \subseteq Incoming
    BY DEF Incoming
  <2> QED
    BY <1>2, <1>3, <1>4, <1>5, <1>6, <1>7, <2>1, ApplicationQueueMoves
<1>9. applicationQ[i].contract = Event(r)
  <2>1. Contracts(applicationQ) \subseteq Contracts(applicationQ') \cup {applicationQ[i].contract}
    BY <1>0, <1>8, RemoveContracts
  <2> QED
    BY <2>1 DEF Contracts
<1> QED
  BY <1>8, <1>9, ContractTypes DEF Handles
-----------------------------------------------------------------------------
(* What is recorded lies below the checkpoint; nothing happens to a        *)
(* message after its deletion; and a row at the deletion is a tombstone.   *)
RecordInv ==
    /\ recorded \subseteq 1..checkpoint
    /\ \A r \in 1..(Len(history) - 1) : history[r].kind # "delete"
    /\ source.revision # 0 /\ history[source.revision].kind = "delete" => source.tombstoned

DeletionInv == IInv /\ RecordInv /\ DeletionHonoured

(* Who moves the message row, the checkpoint and the history.              *)
LEMMA RowMoves ==
    ASSUME [Next]_vars
    PROVE  /\ \/ UNCHANGED source
              \/ \E i \in 1..Len(applicationQ) : AcceptSourceEvent(i)
           /\ \/ UNCHANGED telegram
              \/ \E kind \in Kinds : Happens(kind)
              \/ CommitSourceEvent
<1>1. CASE Application
  <2>1. PICK i \in 1..Len(applicationQ) :
            \/ IgnoreSourceEvent(i) \/ AcceptSourceEvent(i) \/ ConflictOnCreate(i)
            \/ DropProposal(i)
            \/ \E state \in {"active", "held_for_review"} : PublishOpportunity(i, state)
            \/ \E reason \in {"source_revision_superseded",
                              "response_route_unavailable"} :
                   RecordRoutingOutcome(i, reason)
            \/ \E next \in {"paused", "removed"} : StopChat(i, next)
            \/ ConflictOnPause(i) \/ ReEnable(i) \/ IgnoreChange(i)
    BY <1>1 DEF Application
  <2>2. \/ IgnoreSourceEvent(i) \/ ConflictOnCreate(i) \/ ConflictOnPause(i)
        \/ ReEnable(i) \/ IgnoreChange(i)
        => UNCHANGED <<source, telegram>>
    BY DEF IgnoreSourceEvent, ConflictOnCreate, ConflictOnPause, LeaseHead, ReEnable,
           IgnoreChange
  <2>3. \A x : DropProposal(i) \/ PublishOpportunity(i, x) \/ RecordRoutingOutcome(i, x)
                   => UNCHANGED <<source, telegram>>
    BY DEF DropProposal, PublishOpportunity, RecordRoutingOutcome, TakeProposal
  <2>4. \A next : StopChat(i, next) => UNCHANGED <<source, telegram>>
    BY DEF StopChat
  <2>5. AcceptSourceEvent(i) => UNCHANGED telegram
    BY DEF AcceptSourceEvent
  <2> QED
    BY <2>1, <2>2, <2>3, <2>4, <2>5
<1>2. Classification \/ Recommendation => UNCHANGED <<source, telegram>>
  BY DEF Classification, ClassifyRevision, Recommendation, ProjectOpportunity
<1>3. (\E next \in Commands : RequestChange(next)) \/ TargetEdited
          => UNCHANGED <<source, telegram>>
  BY DEF RequestChange, TargetEdited
<1>4. (\E role \in Crashing : Crash(role)) \/ LeaseLapse => UNCHANGED <<source, telegram>>
  BY DEF Crash, LeaseLapse
<1>5. (\E kind \in Kinds : Happens(kind)) \/ CommitSourceEvent => UNCHANGED source
  BY DEF Happens, CommitSourceEvent
<1>6. Moderation \/ ExpireReview => UNCHANGED <<source, telegram>>
  BY DEF Moderation, Moderate, ExpireReview, Transition
<1>7. UNCHANGED vars => UNCHANGED <<source, telegram>>
  BY DEF vars
<1> QED
  BY <1>1, <1>2, <1>3, <1>4, <1>5, <1>6, <1>7 DEF Next

(* The event an acceptance is about, and the row it leaves.                *)
LEMMA AcceptedEvent ==
    ASSUME IInv, NEW i \in 1..Len(applicationQ), AcceptSourceEvent(i),
           NEW r, r = applicationQ[i].contract.revision
    PROVE  /\ r \in 1..Len(history) /\ r \in Revisions
           /\ source.revision < r
           /\ source' = [revision |-> r, tombstoned |-> history[r].kind = "delete"]
<1>1. r \in 1..Len(history)
  <2>1. applicationQ[i] \in Entries(ApplicationContracts(Len(history)))
    BY DEF IInv, EventsInv
  <2>2. applicationQ[i].contract \in ApplicationContracts(Len(history))
    BY <2>1 DEF Entries
  <2>3. applicationQ[i].contract.type = "event"
    BY DEF AcceptSourceEvent, Handles
  <2>4. applicationQ[i].contract \in {Event(e) : e \in 1..Len(history)}
    BY <2>2, <2>3, ContractTypes DEF ApplicationContracts
  <2> QED
    BY <2>4 DEF Event
<1>2. /\ Stored(r) /\ ~Conflicting(r)
      /\ source' = [revision |-> r, tombstoned |-> history[r].kind = "delete"]
  BY DEF AcceptSourceEvent
<1>3. source.revision < r
  BY <1>1, <1>2, RowFacts DEF Stored, Stale, Conflicting
<1>4. r \in Revisions
  BY <1>1, RowFacts, LifecycleAssumption DEF IInv, TypeOK, Revisions
<1> QED
  BY <1>1, <1>2, <1>3, <1>4

(* The facts of the record last.                                           *)
LEMMA RecordStep ==
    ASSUME IInv, RecordInv, [Next]_vars
    PROVE  RecordInv'
<1>0. /\ checkpoint \in 0..Len(history) /\ Len(history) \in Nat
      /\ source.revision \in Nat /\ source.revision <= Len(history)
      /\ history \in Seq([kind : Kinds, epoch : Nat])
  BY RowFacts DEF IInv, TypeOK, RowsInv
<1>1. recorded' \subseteq 1..checkpoint'
  <2>1. CASE CommitSourceEvent
    <3>1. checkpoint' = checkpoint + 1 /\ recorded' \subseteq recorded \cup {checkpoint + 1}
      BY <2>1 DEF CommitSourceEvent
    <3> QED
      BY <1>0, <3>1 DEF RecordInv
  <2>2. CASE UNCHANGED <<checkpoint, recorded>>
    BY <2>2 DEF RecordInv
  <2> QED
    BY <2>1, <2>2, RowMoves DEF telegram, Happens
<1>2. \A r \in 1..(Len(history') - 1) : history'[r].kind # "delete"
  <2>1. CASE \E kind \in Kinds : Happens(kind)
    <3>1. PICK kind \in Kinds : Happens(kind)
      BY <2>1
    <3>2. /\ Len(history') = Len(history) + 1
          /\ \A r \in 1..Len(history) : history'[r] = history[r]
      BY <1>0, <3>1 DEF Happens
    <3>3. ASSUME NEW r \in 1..Len(history)
          PROVE  history[r].kind # "delete"
      <4>1. CASE r = Len(history)
        BY <1>0, <3>1, <4>1 DEF Happens, Last
      <4>2. CASE r # Len(history)
        BY <1>0, <4>2 DEF RecordInv
      <4> QED
        BY <4>1, <4>2
    <3> QED
      BY <1>0, <3>2, <3>3
  <2>2. CASE UNCHANGED history
    BY <2>2 DEF RecordInv
  <2> QED
    BY <2>1, <2>2, RowMoves DEF telegram, CommitSourceEvent
<1>3. source'.revision # 0 /\ history'[source'.revision].kind = "delete" => source'.tombstoned
  <2>0. \A r \in 1..Len(history) : history'[r] = history[r]
    BY HistoryGrows DEF IInv
  <2>1. CASE UNCHANGED source
    BY <1>0, <2>0, <2>1 DEF RecordInv
  <2>2. ASSUME NEW i \in 1..Len(applicationQ), AcceptSourceEvent(i)
        PROVE  history'[source'.revision].kind = "delete" => source'.tombstoned
    <3>1. PICK r : r = applicationQ[i].contract.revision
      OBVIOUS
    <3>2. /\ r \in 1..Len(history)
          /\ source' = [revision |-> r, tombstoned |-> history[r].kind = "delete"]
      BY <2>2, <3>1, AcceptedEvent
    <3> QED
      BY <2>0, <3>2
  <2> QED
    BY <2>1, <2>2, RowMoves
<1> QED
  BY <1>1, <1>2, <1>3 DEF RecordInv

(* No step makes an event pass that did not: a re-enable moves the         *)
(* boundary beyond everything that had happened.                           *)
LEMMA BoundaryStays ==
    ASSUME IInv, [Next]_vars, NEW r \in 1..Len(history), AfterBoundary(r)'
    PROVE  AfterBoundary(r) /\ history'[r] = history[r]
<1>1. history'[r] = history[r]
  BY HistoryGrows DEF IInv
<1>2. CASE UNCHANGED <<chat, epoch>>
  BY <1>1, <1>2 DEF AfterBoundary
<1>3. CASE \E i \in 1..Len(applicationQ) : ReEnable(i)
  <2>1. epoch' = epoch + 1
    BY <1>3 DEF ReEnable
  <2>2. history[r].epoch <= epoch
    BY DEF IInv, HistoryInv
  <2>3. history[r].epoch = epoch + 1
    BY <1>1, <2>1 DEF AfterBoundary
  <2> QED
    BY <2>2, <2>3, RowFacts
<1>4. \A i, next : ~(next \in {"paused", "removed"} /\ StopChat(i, next))
  BY DEF StopChat, AfterBoundary
<1>5. \A i : AcceptSourceEvent(i) => UNCHANGED <<chat, epoch>>
  BY DEF AcceptSourceEvent, registry
<1>6. \A i, x : PublishOpportunity(i, x) \/ RecordRoutingOutcome(i, x)
                   => UNCHANGED <<chat, epoch>>
  BY DEF PublishOpportunity, RecordRoutingOutcome, TakeProposal, registry
<1>7. Moderation \/ ExpireReview => UNCHANGED <<chat, epoch>>
  BY DEF Moderation, Moderate, ExpireReview, Transition, registry
<1>8. \A kind : Happens(kind) => UNCHANGED <<chat, epoch>>
  BY DEF Happens, registry
<1> QED
  BY <1>2, <1>3, <1>4, <1>5, <1>6, <1>7, <1>8, Steps

(* A deletion leaves the queue only for the message row.                   *)
LEMMA DeletionStep ==
    ASSUME DeletionInv, [Next]_vars
    PROVE  DeletionHonoured'
<1> USE DEF DeletionInv
<1> SUFFICES ASSUME NEW r \in recorded', history'[r].kind = "delete", AfterBoundary(r)',
                    Event(r) \notin Contracts(applicationQ)'
             PROVE  source'.tombstoned
  BY DEF DeletionHonoured
<1>0. /\ checkpoint \in 0..Len(history) /\ Len(history) \in Nat
      /\ applicationQ \in Seq(Entries(Incoming))
  BY RowFacts DEF IInv, TypeOK
<1>1. r \in recorded
  <2>1. CASE CommitSourceEvent /\ r \notin recorded
    <3>1. r = checkpoint + 1 /\ applicationQ' = Send(applicationQ, Event(r))
      BY <2>1 DEF CommitSourceEvent
    <3>2. Event(r) \in Incoming
      BY <2>1, <3>1, CommittedTyped DEF IInv
    <3>3. Event(r) \in Contracts(applicationQ')
      BY <1>0, <3>1, <3>2, SendContracts
    <3> QED
      BY <3>3 DEF Contracts
  <2>2. CASE UNCHANGED recorded
    BY <2>2
  <2> QED
    BY <2>1, <2>2, RowMoves DEF telegram, Happens
<1>2. r \in 1..Len(history)
  BY <1>0, <1>1 DEF RecordInv
<1>3. AfterBoundary(r) /\ history[r].kind = "delete"
  BY <1>2, BoundaryStays
<1>4. CASE source.tombstoned
  BY <1>4, Moves
<1>5. CASE ~source.tombstoned
  <2>1. Event(r) \in Contracts(applicationQ)
    BY <1>1, <1>3, <1>5 DEF DeletionHonoured
  <2>2. chat' = "enabled"
    BY DEF AfterBoundary
  <2>3. PICK i \in 1..Len(applicationQ) :
            /\ applicationQ[i].contract = Event(r)
            /\ IgnoreSourceEvent(i) \/ AcceptSourceEvent(i)
    BY <2>1, <2>2, EventsStay DEF IInv
  <2>4. applicationQ[i].contract.revision = r
    BY <2>3, ContractTypes
  <2>5. CASE AcceptSourceEvent(i)
    <3>1. source' = [revision |-> r, tombstoned |-> history[r].kind = "delete"]
      BY <2>4, <2>5, AcceptedEvent
    <3> QED
      BY <1>3, <3>1
  <2>6. CASE IgnoreSourceEvent(i)
    <3>1. ~Stored(r)
      BY <2>4, <2>6 DEF IgnoreSourceEvent
    <3>2. source.revision >= r
      BY <1>3, <3>1 DEF Stored, Admitted, Barred, Stale
    <3>3. r = Len(history)
      BY <1>0, <1>2, <1>3 DEF RecordInv
    <3>4. source.revision = r
      BY <3>2, <3>3, RowFacts DEF IInv, RowsInv
    <3> QED
      BY <1>2, <1>3, <1>5, <3>4 DEF RecordInv
  <2> QED
    BY <2>3, <2>5, <2>6
<1> QED
  BY <1>4, <1>5

(* A recorded deletion that left the application's queue has tombstoned    *)
(* the message, for every length of the history and every overtaking, in a *)
(* chat not stopped since.                                                 *)
THEOREM DeletionsAreHonoured == Spec => []DeletionHonoured
<1>1. Init => DeletionInv
  <2> SUFFICES ASSUME Init PROVE DeletionInv
    OBVIOUS
  <2>1. IInv
    BY InitInv
  <2>2. RecordInv /\ DeletionHonoured
    BY DEF Init, RecordInv, DeletionHonoured
  <2> QED
    BY <2>1, <2>2 DEF DeletionInv
<1>2. DeletionInv /\ [Next]_vars => DeletionInv'
  BY Moves, RecordStep, DeletionStep DEF DeletionInv
<1>3. DeletionInv => DeletionHonoured
  BY DEF DeletionInv
<1> QED
  BY <1>1, <1>2, <1>3, PTL DEF Spec
-----------------------------------------------------------------------------
(* The work of a type once a contract is removed, sent or leased.          *)
LEMMA RemoveWorks ==
    ASSUME NEW S, NEW q \in Seq(S), NEW i \in 1..Len(q), NEW type, Once(q, type)
    PROVE  /\ Works(RemoveAt(q, i), type) \subseteq Works(q, type)
           /\ Once(RemoveAt(q, i), type)
           /\ q[i].contract.type = type =>
                  q[i].contract.revision \notin Works(RemoveAt(q, i), type)
<1> DEFINE p    == RemoveAt(q, i)
           f(k) == IF k < i THEN k ELSE k + 1
<1>1. Len(p) = Len(q) - 1 /\ Len(q) \in Nat /\ i \in Nat
  BY RemovedAt
<1>2. \A k \in 1..Len(p) : f(k) \in 1..Len(q) /\ f(k) # i /\ p[k] = q[f(k)]
  <2>1. \A k \in 1..(Len(q) - 1) : p[k] = IF k < i THEN q[k] ELSE q[k + 1]
    BY RemovedAt
  <2> HIDE DEF p
  <2> QED
    BY <1>1, <2>1
<1>3. \A k, l \in 1..Len(p) : f(k) = f(l) => k = l
  BY <1>1
<1> HIDE DEF p, f
<1>4. Works(p, type) \subseteq Works(q, type)
  BY <1>2 DEF Works
<1>5. Once(p, type)
  <2> SUFFICES ASSUME NEW k \in 1..Len(p), NEW l \in 1..Len(p),
                      p[k].contract.type = type, p[l].contract.type = type,
                      p[k].contract.revision = p[l].contract.revision
               PROVE  k = l
    BY DEF Once
  <2>1. f(k) = f(l)
    BY <1>2 DEF Once
  <2> QED
    BY <1>3, <2>1
<1>6. q[i].contract.type = type => q[i].contract.revision \notin Works(p, type)
  <2> SUFFICES ASSUME q[i].contract.type = type, NEW k \in 1..Len(p),
                      p[k].contract.type = type,
                      p[k].contract.revision = q[i].contract.revision
               PROVE  FALSE
    BY DEF Works
  <2> QED
    BY <1>2 DEF Once
<1> QED
  BY <1>4, <1>5, <1>6 DEF p

(* A contract that is sent adds its work, and only to its own type.        *)
LEMMA SendWorks ==
    ASSUME NEW C, NEW q \in Seq(Entries(C)), NEW c \in C, NEW type, Once(q, type)
    PROVE  /\ Works(Send(q, c), type) \subseteq Works(q, type) \cup {c.revision}
           /\ c.type # type => /\ Works(Send(q, c), type) \subseteq Works(q, type)
                               /\ Once(Send(q, c), type)
           /\ c.revision \notin Works(q, type) => Once(Send(q, c), type)
<1> DEFINE p == Send(q, c)
<1>1. /\ Len(p) = Len(q) + 1 /\ Len(q) \in Nat
      /\ \A k \in 1..Len(q) : p[k] = q[k]
      /\ p[Len(q) + 1].contract = c
  BY SendContracts
<1> HIDE DEF p
<1>2. \A k \in 1..Len(p) : k \in 1..Len(q) \/ k = Len(q) + 1
  BY <1>1
<1>3. /\ Works(p, type) \subseteq Works(q, type) \cup {c.revision}
      /\ c.type # type => Works(p, type) \subseteq Works(q, type)
  BY <1>1, <1>2 DEF Works
<1>4. ASSUME c.type # type \/ c.revision \notin Works(q, type)
      PROVE  Once(p, type)
  <2>1. \A k \in 1..Len(q) : q[k].contract.type = type =>
            q[k].contract.revision \in Works(q, type)
    BY DEF Works
  <2> SUFFICES ASSUME NEW k \in 1..Len(p), NEW l \in 1..Len(p),
                      p[k].contract.type = type, p[l].contract.type = type,
                      p[k].contract.revision = p[l].contract.revision
               PROVE  k = l
    BY DEF Once
  <2>2. CASE k \in 1..Len(q) /\ l \in 1..Len(q)
    BY <1>1, <2>2 DEF Once
  <2>3. CASE k \in 1..Len(q) /\ l = Len(q) + 1
    BY <1>1, <1>4, <2>1, <2>3
  <2>4. CASE k = Len(q) + 1 /\ l \in 1..Len(q)
    BY <1>1, <1>4, <2>1, <2>4
  <2> QED
    BY <1>2, <2>2, <2>3, <2>4
<1> QED
  BY <1>3, <1>4 DEF p

(* A lease leaves the work as it is.                                       *)
LEMMA LeaseWorks ==
    ASSUME NEW C, NEW q \in Seq(Entries(C)), NEW i \in 1..Len(q), NEW type, Once(q, type),
           NEW p, p = Leased(q, i) \/ p = Lapsed(q, i)
    PROVE  Works(p, type) \subseteq Works(q, type) /\ Once(p, type)
<1>1. Len(p) = Len(q) /\ \A k \in 1..Len(q) : p[k].contract = q[k].contract
  BY LeaseContracts
<1> QED
  BY <1>1 DEF Works, Once

(* Revisions with a classification job, and with a proposal.               *)
Jobs      == Works(classificationQ, "classify")
Proposals == Works(applicationQ, "proposal")

(* A revision has its work in one place, none once it has an outcome; and  *)
(* nobody works on a revision the message has not come to.                 *)
WorkInv ==
    /\ Once(classificationQ, "classify") /\ Once(applicationQ, "proposal")
    /\ Jobs \cap Proposals = {}
    /\ \A r \in Jobs \cup Proposals : outcome[r] = "none" /\ r <= source.revision
    /\ \A r \in Revisions : outcome[r] # "none" => r <= source.revision

(* The types of the work.                                                  *)
LEMMA WorkTyped ==
    ASSUME TypeOK
    PROVE  /\ Jobs \subseteq Revisions /\ Proposals \subseteq Revisions
           /\ \A j \in 1..Len(classificationQ) :
                  /\ classificationQ[j].contract.revision \in Jobs
                  /\ classificationQ[j].contract.type = "classify"
           /\ \A i \in 1..Len(applicationQ) :
                  Handles(i, "proposal") => applicationQ[i].contract.revision \in Proposals
<1>1. \A j \in 1..Len(classificationQ) : classificationQ[j].contract \in JobContracts
  BY ProposedTyped
<1>2. \A i \in 1..Len(applicationQ) : applicationQ[i].contract \in Incoming
  <2>1. applicationQ \in Seq(Entries(Incoming))
    BY DEF TypeOK
  <2>2. \A i \in 1..Len(applicationQ) : applicationQ[i] \in Entries(Incoming)
    BY <2>1
  <2> QED
    BY <2>2 DEF Entries
<1>3. \A c \in Incoming : c.type = "proposal" => c \in ProposalContracts
  BY ContractTypes DEF Incoming, EventContracts
<1>4. \A c \in ProposalContracts : c.revision \in Revisions
  BY DEF ProposalContracts
<1>5. \A c \in JobContracts : c.revision \in Revisions /\ c.type = "classify"
  BY DEF JobContracts
<1>6. Jobs \subseteq Revisions
  BY <1>1, <1>5 DEF Jobs, Works
<1>7. Proposals \subseteq Revisions
  BY <1>2, <1>3, <1>4 DEF Proposals, Works
<1>8. \A j \in 1..Len(classificationQ) :
          /\ classificationQ[j].contract.revision \in Jobs
          /\ classificationQ[j].contract.type = "classify"
  BY <1>1, <1>5 DEF Jobs, Works
<1>9. \A i \in 1..Len(applicationQ) :
          Handles(i, "proposal") => applicationQ[i].contract.revision \in Proposals
  BY DEF Proposals, Works, Handles
<1> QED
  BY <1>6, <1>7, <1>8, <1>9

(* The proposals only shrink, but for what the classifier sends.           *)
LEMMA ProposalsShrink ==
    ASSUME TypeOK, [Next]_vars, Once(applicationQ, "proposal")
    PROVE  \/ Once(applicationQ, "proposal")' /\ Proposals' \subseteq Proposals
           \/ \E j \in 1..Len(classificationQ) :
                  ClassifyRevision(j) /\ applicationQ' = Send(applicationQ, Proposed(j))
<1> DEFINE Shrunk(q) == /\ Once(q, "proposal")
                      /\ Works(q, "proposal") \subseteq Works(applicationQ, "proposal")
<1>0. applicationQ \in Seq(Entries(Incoming))
  BY DEF TypeOK
<1>1. Shrunk(applicationQ)
  OBVIOUS
<1>2. \A i \in 1..Len(applicationQ) :
          /\ Shrunk(RemoveAt(applicationQ, i))
          /\ Shrunk(WithoutWork(RemoveAt(applicationQ, i)))
  <2> TAKE i \in 1..Len(applicationQ)
  <2>1. RemoveAt(applicationQ, i) \in Seq(Entries(Incoming))
    BY <1>0, RemoveTyped
  <2> QED
    BY <1>0, <2>1, RemoveWorks, CancelledWorks
<1>3. \A i \in 1..Len(applicationQ) :
          Shrunk(Leased(applicationQ, i)) /\ Shrunk(Lapsed(applicationQ, i))
  BY <1>0, LeaseWorks
<1>4. \A c \in Incoming : c.type # "proposal" => Shrunk(Send(applicationQ, c))
  BY <1>0, SendWorks
<1>5. /\ \A c \in ChangeContracts : c \in Incoming /\ c.type # "proposal"
      /\ CommitSourceEvent => Event(checkpoint + 1) \in Incoming
      /\ Event(checkpoint + 1).type # "proposal"
  BY ContractTypes, CommittedTyped DEF Incoming
<1>6. \A i, next : StopChat(i, next) => applicationQ' = WithoutWork(RemoveAt(applicationQ, i))
  BY DEF StopChat
<1> HIDE DEF Shrunk
<1>7. \/ Shrunk(applicationQ')
      \/ \E j \in 1..Len(classificationQ) :
             ClassifyRevision(j) /\ applicationQ' = Send(applicationQ, Proposed(j))
  BY <1>1, <1>2, <1>3, <1>4, <1>5, <1>6, ApplicationQueueMoves
<1> QED
  BY <1>7 DEF Shrunk, Once, Proposals, Works

(* The jobs only shrink, but for what the application sends.               *)
LEMMA JobsShrink ==
    ASSUME TypeOK, [Next]_vars, Once(classificationQ, "classify")
    PROVE  \/ Once(classificationQ, "classify")' /\ Jobs' \subseteq Jobs
           \/ \E i \in 1..Len(applicationQ) :
                  /\ AcceptSourceEvent(i)
                  /\ classificationQ' = Send(classificationQ,
                         Classify(applicationQ[i].contract.revision, target))
<1> DEFINE Shrunk(q) == /\ Once(q, "classify")
                      /\ Works(q, "classify") \subseteq Works(classificationQ, "classify")
<1>0. classificationQ \in Seq(Entries(JobContracts))
  BY DEF TypeOK
<1>1. Shrunk(classificationQ)
  OBVIOUS
<1>2. Shrunk(<<>>)
  BY DEF Once, Works
<1>3. \A j \in 1..Len(classificationQ) :
          /\ Shrunk(RemoveAt(classificationQ, j))
          /\ Shrunk(Leased(classificationQ, j)) /\ Shrunk(Lapsed(classificationQ, j))
  BY <1>0, RemoveWorks, LeaseWorks
<1> HIDE DEF Shrunk
<1>4. \/ UNCHANGED classificationQ
      \/ classificationQ' = <<>>
      \/ \E j \in 1..Len(classificationQ) :
             \/ classificationQ' = RemoveAt(classificationQ, j)
             \/ classificationQ' = Leased(classificationQ, j)
             \/ classificationQ' = Lapsed(classificationQ, j)
      \/ \E i \in 1..Len(applicationQ) :
             /\ AcceptSourceEvent(i)
             /\ classificationQ' = Send(classificationQ,
                    Classify(applicationQ[i].contract.revision, target))
  <2>1. CASE Application
    <3>1. PICK i \in 1..Len(applicationQ) :
              \/ IgnoreSourceEvent(i) \/ AcceptSourceEvent(i) \/ ConflictOnCreate(i)
              \/ DropProposal(i)
              \/ \E state \in {"active", "held_for_review"} : PublishOpportunity(i, state)
              \/ \E reason \in {"source_revision_superseded",
                                "response_route_unavailable"} :
                     RecordRoutingOutcome(i, reason)
              \/ \E next \in {"paused", "removed"} : StopChat(i, next)
              \/ ConflictOnPause(i) \/ ReEnable(i) \/ IgnoreChange(i)
      BY <2>1 DEF Application
    <3>2. \/ IgnoreSourceEvent(i) \/ ConflictOnCreate(i) \/ ConflictOnPause(i)
          \/ ReEnable(i) \/ IgnoreChange(i)
          => UNCHANGED classificationQ
      BY DEF IgnoreSourceEvent, ConflictOnCreate, ConflictOnPause, LeaseHead, ReEnable,
             IgnoreChange
    <3>3. \A x : DropProposal(i) \/ PublishOpportunity(i, x) \/ RecordRoutingOutcome(i, x)
                     => UNCHANGED classificationQ
      BY DEF DropProposal, PublishOpportunity, RecordRoutingOutcome, TakeProposal
    <3>4. \A next : StopChat(i, next) => classificationQ' = <<>>
      BY DEF StopChat
    <3>5. AcceptSourceEvent(i) =>
              \/ UNCHANGED classificationQ
              \/ classificationQ' = Send(classificationQ,
                     Classify(applicationQ[i].contract.revision, target))
      BY DEF AcceptSourceEvent
    <3> QED
      BY <3>1, <3>2, <3>3, <3>4, <3>5
  <2>2. CASE Classification
    BY <2>2 DEF Classification, ClassifyRevision
  <2>3. CASE (\E role \in Crashing : Crash(role)) \/ LeaseLapse
    BY <2>3 DEF Crash, LeaseLapse
  <2>4. \/ \E kind \in Kinds : Happens(kind)
        \/ TargetEdited \/ CommitSourceEvent \/ Recommendation
        => UNCHANGED classificationQ
    BY DEF Happens, TargetEdited, CommitSourceEvent, Recommendation, ProjectOpportunity, queues
  <2>5. (\E next \in Commands : RequestChange(next)) => UNCHANGED classificationQ
    BY DEF RequestChange
  <2>6. Moderation \/ ExpireReview => UNCHANGED classificationQ
    BY DEF Moderation, Moderate, ExpireReview, Transition
  <2>7. UNCHANGED vars => UNCHANGED classificationQ
    BY DEF vars, queues
  <2> QED
    BY <2>1, <2>2, <2>3, <2>4, <2>5, <2>6, <2>7 DEF Next
<1>5. \/ Shrunk(classificationQ')
      \/ \E i \in 1..Len(applicationQ) :
             /\ AcceptSourceEvent(i)
             /\ classificationQ' = Send(classificationQ,
                    Classify(applicationQ[i].contract.revision, target))
  BY <1>1, <1>2, <1>3, <1>4
<1> QED
  BY <1>5 DEF Shrunk, Once, Jobs, Works

(* Outcomes come of proposals about the current revision.                  *)
LEMMA OutcomeMoves ==
    ASSUME [Next]_vars
    PROVE  \/ UNCHANGED outcome
           \/ \E i \in 1..Len(applicationQ), d \in {"accepted", "rejected"} :
                  /\ Handles(i, "proposal") /\ applicationQ' = RemoveAt(applicationQ, i)
                  /\ UNCHANGED <<source, classificationQ>>
                  /\ outcome' = [outcome EXCEPT ![applicationQ[i].contract.revision] = d]
<1>1. CASE Application
  <2>1. PICK i \in 1..Len(applicationQ) :
            \/ IgnoreSourceEvent(i) \/ AcceptSourceEvent(i) \/ ConflictOnCreate(i)
            \/ DropProposal(i)
            \/ \E state \in {"active", "held_for_review"} : PublishOpportunity(i, state)
            \/ \E reason \in {"source_revision_superseded",
                              "response_route_unavailable"} :
                   RecordRoutingOutcome(i, reason)
            \/ \E next \in {"paused", "removed"} : StopChat(i, next)
            \/ ConflictOnPause(i) \/ ReEnable(i) \/ IgnoreChange(i)
    BY <1>1 DEF Application
  <2>2. \/ IgnoreSourceEvent(i) \/ AcceptSourceEvent(i) \/ ConflictOnCreate(i)
        \/ ConflictOnPause(i) \/ DropProposal(i) \/ ReEnable(i) \/ IgnoreChange(i)
        => UNCHANGED outcome
    BY DEF IgnoreSourceEvent, AcceptSourceEvent, ConflictOnCreate, ConflictOnPause, LeaseHead,
           DropProposal, ReEnable, IgnoreChange
  <2>3. \A next : StopChat(i, next) => UNCHANGED outcome
    BY DEF StopChat
  <2>4. \A x : PublishOpportunity(i, x) =>
            /\ TakeProposal(i)
            /\ outcome' = [outcome EXCEPT ![applicationQ[i].contract.revision] = "accepted"]
    BY DEF PublishOpportunity
  <2>5. \A x : RecordRoutingOutcome(i, x) =>
            /\ TakeProposal(i)
            /\ outcome' = [outcome EXCEPT ![applicationQ[i].contract.revision] = "rejected"]
    BY DEF RecordRoutingOutcome
  <2>6. TakeProposal(i) => /\ Handles(i, "proposal")
                           /\ applicationQ' = RemoveAt(applicationQ, i)
                           /\ UNCHANGED <<source, classificationQ>>
    BY DEF TakeProposal
  <2> QED
    BY <2>1, <2>2, <2>3, <2>4, <2>5, <2>6
<1>2. Classification \/ Recommendation => UNCHANGED outcome
  BY DEF Classification, ClassifyRevision, Recommendation, ProjectOpportunity
<1>3. (\E next \in Commands : RequestChange(next)) \/ TargetEdited => UNCHANGED outcome
  BY DEF RequestChange, TargetEdited
<1>4. (\E role \in Crashing : Crash(role)) \/ LeaseLapse => UNCHANGED outcome
  BY DEF Crash, LeaseLapse
<1>5. (\E kind \in Kinds : Happens(kind)) \/ CommitSourceEvent => UNCHANGED outcome
  BY DEF Happens, CommitSourceEvent
<1>6. Moderation \/ ExpireReview => UNCHANGED outcome
  BY DEF Moderation, Moderate, ExpireReview, Transition
<1>7. UNCHANGED vars => UNCHANGED outcome
  BY DEF vars
<1> QED
  BY <1>1, <1>2, <1>3, <1>4, <1>5, <1>6, <1>7 DEF Next

(* A new revision's job is the only work on it.                            *)
LEMMA AcceptedWork ==
    ASSUME IInv, WorkInv, NEW i \in 1..Len(applicationQ), AcceptSourceEvent(i),
           classificationQ' = Send(classificationQ,
               Classify(applicationQ[i].contract.revision, target))
    PROVE  WorkInv'
<1>1. PICK r : r = applicationQ[i].contract.revision
  OBVIOUS
<1>2. /\ r \in Revisions /\ source.revision < r /\ source'.revision = r
      /\ source.revision \in Nat /\ r \in Nat
  BY <1>1, AcceptedEvent, RowFacts DEF Revisions
<1>3. /\ applicationQ \in Seq(Entries(Incoming))
      /\ classificationQ \in Seq(Entries(JobContracts))
  BY DEF IInv, TypeOK
<1>4. UNCHANGED outcome /\ applicationQ' = RemoveAt(applicationQ, i)
  BY DEF AcceptSourceEvent
<1>5. Once(applicationQ, "proposal")' /\ Proposals' \subseteq Proposals
  <2>1. /\ Once(RemoveAt(applicationQ, i), "proposal")
        /\ Works(RemoveAt(applicationQ, i), "proposal") \subseteq Works(applicationQ, "proposal")
    BY <1>3, RemoveWorks DEF WorkInv
  <2> QED
    BY <1>4, <2>1 DEF Once, Proposals, Works
<1>6. Jobs \subseteq Revisions /\ Proposals \subseteq Revisions
  BY WorkTyped DEF IInv
<1>7. r \notin Jobs /\ r \notin Proposals /\ outcome[r] = "none"
  BY <1>2 DEF WorkInv
<1>8. Once(classificationQ, "classify")' /\ Jobs' \subseteq Jobs \cup {r}
  <2> DEFINE c == Classify(r, target)
             p == Send(classificationQ, c)
  <2>1. c \in JobContracts /\ c.revision = r
    BY <1>2 DEF Classify, JobContracts, IInv, TypeOK
  <2>2. classificationQ' = p
    BY <1>1
  <2> HIDE DEF c
  <2>3. /\ Once(p, "classify")
        /\ Works(p, "classify") \subseteq Works(classificationQ, "classify") \cup {r}
    BY <1>3, <1>7, <2>1, SendWorks DEF WorkInv, Jobs
  <2> QED
    BY <2>2, <2>3 DEF Once, Jobs, Works
<1>9. \A s \in Revisions : s <= source.revision => s <= r
  BY <1>2 DEF Revisions
<1>10. \A s \in Jobs \cup Proposals : outcome[s] = "none" /\ s <= source.revision
  BY DEF WorkInv
<1>11. \A s \in Jobs' \cup Proposals' : outcome'[s] = "none" /\ s <= source'.revision
  BY <1>2, <1>4, <1>5, <1>6, <1>7, <1>8, <1>9, <1>10
<1>12. \A s \in Revisions : outcome'[s] # "none" => s <= source'.revision
  BY <1>2, <1>4, <1>9 DEF WorkInv
<1>13. Jobs' \cap Proposals' = {}
  BY <1>5, <1>7, <1>8 DEF WorkInv
<1> QED
  BY <1>5, <1>8, <1>11, <1>12, <1>13 DEF WorkInv

(* A job becomes the proposal of its revision.                             *)
LEMMA ProposedWork ==
    ASSUME IInv, WorkInv, NEW j \in 1..Len(classificationQ), ClassifyRevision(j),
           applicationQ' = Send(applicationQ, Proposed(j))
    PROVE  WorkInv'
<1>1. PICK r : r = classificationQ[j].contract.revision
  OBVIOUS
<1>2. UNCHANGED <<outcome, source>> /\ classificationQ' = RemoveAt(classificationQ, j)
  BY DEF ClassifyRevision
<1>3. /\ applicationQ \in Seq(Entries(Incoming))
      /\ classificationQ \in Seq(Entries(JobContracts))
  BY DEF IInv, TypeOK
<1>4. r \in Jobs /\ classificationQ[j].contract.type = "classify"
  BY <1>1, WorkTyped DEF IInv
<1>5. r \notin Proposals /\ outcome[r] = "none" /\ r <= source.revision
  BY <1>4 DEF WorkInv
<1>6. Once(classificationQ, "classify")' /\ Jobs' \subseteq Jobs /\ r \notin Jobs'
  <2> DEFINE p == RemoveAt(classificationQ, j)
  <2>1. /\ Once(p, "classify") /\ Works(p, "classify") \subseteq Works(classificationQ, "classify")
        /\ r \notin Works(p, "classify")
    BY <1>1, <1>3, <1>4, RemoveWorks DEF WorkInv
  <2> QED
    BY <1>2, <2>1 DEF Once, Jobs, Works
<1>7. Once(applicationQ, "proposal")' /\ Proposals' \subseteq Proposals \cup {r}
  <2>1. Proposed(j) \in Incoming /\ Proposed(j).revision = r
    BY <1>1, ProposedTyped DEF IInv
  <2>2. PICK p : p = Send(applicationQ, Proposed(j))
    OBVIOUS
  <2>3. /\ Once(p, "proposal")
        /\ Works(p, "proposal") \subseteq Works(applicationQ, "proposal") \cup {r}
    BY <1>3, <1>5, <2>1, <2>2, SendWorks DEF WorkInv, Proposals
  <2>4. applicationQ' = p
    BY <2>2
  <2> QED
    BY <2>3, <2>4 DEF Once, Proposals, Works
<1>8. \A s \in Jobs \cup Proposals : outcome[s] = "none" /\ s <= source.revision
  BY DEF WorkInv
<1>9. \A s \in Jobs' \cup Proposals' : outcome'[s] = "none" /\ s <= source'.revision
  BY <1>2, <1>5, <1>6, <1>7, <1>8
<1>10. Jobs' \cap Proposals' = {}
  BY <1>6, <1>7 DEF WorkInv
<1>11. \A s \in Revisions : outcome'[s] # "none" => s <= source'.revision
  BY <1>2 DEF WorkInv
<1> QED
  BY <1>6, <1>7, <1>9, <1>10, <1>11 DEF WorkInv

(* An outcome ends the work on its revision.                               *)
LEMMA DecidedWork ==
    ASSUME IInv, WorkInv, NEW i \in 1..Len(applicationQ), NEW d \in {"accepted", "rejected"},
           Handles(i, "proposal"), applicationQ' = RemoveAt(applicationQ, i),
           UNCHANGED <<source, classificationQ>>,
           outcome' = [outcome EXCEPT ![applicationQ[i].contract.revision] = d]
    PROVE  WorkInv'
<1>1. PICK r : r = applicationQ[i].contract.revision
  OBVIOUS
<1>2. /\ applicationQ \in Seq(Entries(Incoming))
      /\ outcome \in [Revisions -> {"none", "accepted", "rejected"}]
  BY DEF IInv, TypeOK
<1>3. r \in Proposals /\ Proposals \subseteq Revisions /\ Jobs \subseteq Revisions
  BY <1>1, WorkTyped DEF IInv
<1>4. r \notin Jobs /\ r <= source.revision
  BY <1>3 DEF WorkInv
<1>5. Once(applicationQ, "proposal")' /\ Proposals' \subseteq Proposals /\ r \notin Proposals'
  <2> DEFINE p == RemoveAt(applicationQ, i)
  <2>1. /\ Once(p, "proposal") /\ Works(p, "proposal") \subseteq Works(applicationQ, "proposal")
        /\ r \notin Works(p, "proposal")
    BY <1>1, <1>2, RemoveWorks DEF WorkInv, Handles
  <2> QED
    BY <2>1 DEF Once, Proposals, Works
<1>6. Once(classificationQ, "classify")' /\ Jobs' = Jobs
  BY DEF WorkInv, Once, Jobs, Works
<1>7. \A s \in Revisions : s # r => outcome'[s] = outcome[s]
  BY <1>1, <1>2
<1>8. \A s \in Jobs' \cup Proposals' : outcome'[s] = "none" /\ s <= source'.revision
  BY <1>3, <1>4, <1>5, <1>6, <1>7 DEF WorkInv
<1>9. \A s \in Revisions : outcome'[s] # "none" => s <= source'.revision
  BY <1>4, <1>7 DEF WorkInv
<1>10. Jobs' \cap Proposals' = {}
  BY <1>5, <1>6 DEF WorkInv
<1> QED
  BY <1>5, <1>6, <1>8, <1>9, <1>10 DEF WorkInv

(* A revision is decided at most once.                                     *)
LEMMA WorkStep ==
    ASSUME IInv, WorkInv, [Next]_vars
    PROVE  WorkInv'
<1>0. TypeOK /\ Once(applicationQ, "proposal") /\ Once(classificationQ, "classify")
  BY DEF IInv, WorkInv
<1>1. CASE \E i \in 1..Len(applicationQ) :
               /\ AcceptSourceEvent(i)
               /\ classificationQ' = Send(classificationQ,
                      Classify(applicationQ[i].contract.revision, target))
  BY <1>1, AcceptedWork
<1>2. CASE \E j \in 1..Len(classificationQ) :
               ClassifyRevision(j) /\ applicationQ' = Send(applicationQ, Proposed(j))
  BY <1>2, ProposedWork
<1>3. CASE \E i \in 1..Len(applicationQ), d \in {"accepted", "rejected"} :
               /\ Handles(i, "proposal") /\ applicationQ' = RemoveAt(applicationQ, i)
               /\ UNCHANGED <<source, classificationQ>>
               /\ outcome' = [outcome EXCEPT ![applicationQ[i].contract.revision] = d]
  BY <1>3, DecidedWork
<1>4. CASE /\ Once(applicationQ, "proposal")' /\ Proposals' \subseteq Proposals
           /\ Once(classificationQ, "classify")' /\ Jobs' \subseteq Jobs
           /\ UNCHANGED outcome
  <2>1. /\ source.revision \in Nat /\ source'.revision \in Nat
        /\ source'.revision >= source.revision
    BY Moves, LifecycleAssumption DEF IInv, TypeOK
  <2>2. Jobs \subseteq Revisions /\ Proposals \subseteq Revisions
    BY WorkTyped DEF IInv
  <2>3. \A s \in Revisions : s <= source.revision => s <= source'.revision
    BY <2>1 DEF Revisions
  <2>4. \A s \in Jobs' \cup Proposals' : outcome'[s] = "none" /\ s <= source'.revision
    BY <1>4, <2>2, <2>3 DEF WorkInv
  <2>5. \A s \in Revisions : outcome'[s] # "none" => s <= source'.revision
    BY <1>4, <2>3 DEF WorkInv
  <2>6. Jobs' \cap Proposals' = {}
    BY <1>4 DEF WorkInv
  <2> QED
    BY <1>4, <2>4, <2>5, <2>6 DEF WorkInv
<1> QED
  BY <1>0, <1>1, <1>2, <1>3, <1>4, ProposalsShrink, JobsShrink, OutcomeMoves

(* A rejection suppresses the Opportunity or leaves it alone.              *)
LEMMA RoutingOutcomeRow ==
    ASSUME NEW i, NEW reason, RecordRoutingOutcome(i, reason)
    PROVE  opportunity'.state = "suppressed" \/ UNCHANGED opportunity
<1> DEFINE r == applicationQ[i].contract.revision
           usable == IF reason = "response_route_unavailable" THEN FALSE ELSE opportunity.usable
<1>1. \/ opportunity' = [revision |-> r, state |-> "suppressed", reason |-> reason,
                         usable |-> usable]
      \/ opportunity' = opportunity
  BY Zenon DEF RecordRoutingOutcome
<1> HIDE DEF r, usable
<1> QED
  BY <1>1

(* What is active has no reason against it.                                *)
ActiveUnsaid == opportunity.state = "active" => opportunity.reason = "none"

(* It stays so: an approval clears the reason.                             *)
LEMMA ActiveUnsaidStep ==
    ASSUME TypeOK, ActiveUnsaid, [Next]_vars
    PROVE  ActiveUnsaid'
<1>1. CASE UNCHANGED opportunity
  BY <1>1 DEF ActiveUnsaid
<1>2. ASSUME NEW i \in 1..Len(applicationQ),
             \/ AcceptSourceEvent(i)
             \/ \E next \in {"paused", "removed"} : StopChat(i, next)
      PROVE  ActiveUnsaid'
  <2>1. AcceptSourceEvent(i) =>
            \/ opportunity' = Overtaking(applicationQ[i].contract.revision)
            \/ UNCHANGED opportunity
    BY DEF AcceptSourceEvent
  <2>2. \A r : Overtaking(r).state = "suppressed"
    BY DEF TypeOK, Overtaking
  <2>3. \A next : StopChat(i, next) => opportunity'.state = "suppressed" \/ UNCHANGED opportunity
    BY DEF TypeOK, StopChat
  <2> QED
    BY <1>1, <1>2, <2>1, <2>2, <2>3 DEF ActiveUnsaid
<1>3. ASSUME NEW i, NEW state, PublishOpportunity(i, state)
      PROVE  ActiveUnsaid'
  BY <1>1, <1>3 DEF PublishOpportunity, ActiveUnsaid
<1>4. ASSUME NEW i, NEW reason, RecordRoutingOutcome(i, reason)
      PROVE  ActiveUnsaid'
  <2>1. opportunity'.state = "suppressed" \/ UNCHANGED opportunity
    BY <1>4, RoutingOutcomeRow
  <2> QED
    BY <1>1, <2>1 DEF ActiveUnsaid
<1>5. CASE Moderation \/ ExpireReview
  <2>1. \A state, reason : Transition(state, reason) =>
            opportunity'.state = state /\ opportunity'.reason = reason
    BY DEF TypeOK, Transition
  <2>2. \/ Transition("active", "none") \/ Transition("suppressed", "moderation_suppressed")
        \/ Transition("suppressed", "review_timeout")
    BY <1>5 DEF Moderation, Moderate, ExpireReview
  <2> QED
    BY <2>1, <2>2 DEF ActiveUnsaid
<1>6. \A kind, i : Happens(kind) \/ ReEnable(i) => UNCHANGED opportunity
  BY DEF Happens, ReEnable
<1> QED
  BY <1>1, <1>2, <1>3, <1>4, <1>5, <1>6, Steps

(* The inductive invariant of the work.                                    *)
THEOREM RevisionsAreDecidedOnce == Spec => [](IInv /\ WorkInv /\ ActiveUnsaid)
<1>1. Init => IInv /\ WorkInv /\ ActiveUnsaid
  <2> SUFFICES ASSUME Init PROVE IInv /\ WorkInv /\ ActiveUnsaid
    OBVIOUS
  <2>1. Jobs = {} /\ Proposals = {}
    BY DEF Init, Jobs, Proposals, Works
  <2>2. Once(classificationQ, "classify") /\ Once(applicationQ, "proposal")
    BY DEF Init, Once
  <2> QED
    BY <2>1, <2>2, InitInv DEF Init, WorkInv, ActiveUnsaid
<1>2. (IInv /\ WorkInv /\ ActiveUnsaid) /\ [Next]_vars => (IInv /\ WorkInv /\ ActiveUnsaid)'
  BY Moves, WorkStep, ActiveUnsaidStep DEF IInv
<1> QED
  BY <1>1, <1>2, PTL DEF Spec

(* What an operator suppressed after its decision stands until an operator *)
(* approves it or the message changes: no second proposal comes.           *)
THEOREM SuppressionsStand == Spec => SuppressionStands
<1> DEFINE Stands == (/\ opportunity.reason = "moderation_suppressed"
                      /\ outcome[opportunity.revision] # "none"
                      /\ opportunity'.revision = opportunity.revision
                      /\ opportunity'.state = "active") => decisions' # decisions
<1>1. ASSUME IInv, WorkInv, ActiveUnsaid, [Next]_vars PROVE Stands
  <2> SUFFICES ASSUME opportunity.reason = "moderation_suppressed",
                      outcome[opportunity.revision] # "none",
                      opportunity'.revision = opportunity.revision,
                      opportunity'.state = "active"
               PROVE  decisions' # decisions
    OBVIOUS
  <2>0. TypeOK
    BY <1>1 DEF IInv
  <2>1. opportunity' # opportunity
    BY <1>1 DEF ActiveUnsaid
  <2>2. \A i : ~AcceptSourceEvent(i)
    <3>1. \A r : Overtaking(r).state = "suppressed"
      BY <2>0 DEF TypeOK, Overtaking
    <3> QED
      BY <2>1, <3>1 DEF AcceptSourceEvent
  <2>3. \A i \in 1..Len(applicationQ) : \A state : ~PublishOpportunity(i, state)
    <3> SUFFICES ASSUME NEW i \in 1..Len(applicationQ), NEW state, PublishOpportunity(i, state)
                 PROVE  FALSE
      OBVIOUS
    <3>1. PICK r : r = applicationQ[i].contract.revision
      OBVIOUS
    <3>2. opportunity'.revision = r
      BY <2>1, <3>1 DEF PublishOpportunity
    <3>3. r \in Proposals
      BY <2>0, <3>1, WorkTyped DEF PublishOpportunity, TakeProposal
    <3> QED
      BY <1>1, <3>2, <3>3 DEF WorkInv
  <2>4. \A i, reason : ~RecordRoutingOutcome(i, reason)
    <3>1. \A i, reason : RecordRoutingOutcome(i, reason) =>
              opportunity'.state = "suppressed" \/ UNCHANGED opportunity
      BY RoutingOutcomeRow
    <3> QED
      BY <2>1, <3>1
  <2>5. \A i, next : ~StopChat(i, next)
    <3>1. \A i, next : StopChat(i, next) =>
              opportunity'.state = "suppressed" \/ UNCHANGED opportunity
      BY <2>0 DEF TypeOK, StopChat
    <3> QED
      BY <2>1, <3>1
  <2>6. ~ExpireReview
    BY <2>0 DEF TypeOK, ExpireReview, Transition
  <2>7. Moderation => decisions' # decisions
    BY <2>0 DEF TypeOK, Moderation, Moderate
  <2>8. \A kind, i : ~Happens(kind) /\ ~ReEnable(i)
    BY <2>1 DEF Happens, ReEnable
  <2> QED
    BY <1>1, <2>1, <2>2, <2>3, <2>4, <2>5, <2>6, <2>7, <2>8, Steps
<1>2. IInv /\ WorkInv /\ ActiveUnsaid /\ [Next]_vars => [Stands]_vars
  BY <1>1
<1> QED
  BY <1>2, RevisionsAreDecidedOnce, PTL DEF Spec, SuppressionStands
-----------------------------------------------------------------------------
(* What Recommendation knows or is about to: a revision it has been sent,  *)
(* and one that is or may yet be written active.                           *)
Told(r)  == \E c \in Contracts(recommendationQ) : c.revision = r
Shown(r) == \/ projection[r].state = "active"
            \/ \E c \in Contracts(recommendationQ) : c.revision = r /\ c.state = "active"

(* The revision the Opportunity has come to is known or on its way, and an *)
(* active row of it means an active Opportunity; no row is ahead of it.    *)
ProjectionInv ==
    /\ opportunity.revision # 0 /\ AfterBoundary(opportunity.revision) =>
           projection[opportunity.revision] # NoRow \/ Told(opportunity.revision)
    /\ \A r \in Revisions : Shown(r) =>
           /\ r <= opportunity.revision /\ outcome[r] # "none"
           /\ r = opportunity.revision /\ AfterBoundary(r) => opportunity.state = "active"
    /\ \A c \in Contracts(recommendationQ) : c.state # "none"

SearchInv == IInv /\ WorkInv /\ ProjectionInv

(* An outcome is not withdrawn.                                            *)
LEMMA OutcomesStay ==
    ASSUME TypeOK, [Next]_vars, NEW r \in Revisions, outcome[r] # "none"
    PROVE  outcome'[r] # "none"
<1>1. outcome \in [Revisions -> {"none", "accepted", "rejected"}]
  BY DEF TypeOK
<1>2. \A x, d : d \in {"accepted", "rejected"} => [outcome EXCEPT ![x] = d][r] # "none"
  BY <1>1
<1> QED
  BY <1>2, OutcomeMoves

(* What is shown is a revision.                                            *)
LEMMA PublicationsTyped ==
    ASSUME TypeOK
    PROVE  /\ Contracts(recommendationQ) \subseteq Publications
           /\ \A i \in 1..Len(recommendationQ) :
                  recommendationQ[i].contract \in Contracts(recommendationQ)
<1>1. recommendationQ \in Seq(Entries(Publications))
  BY DEF TypeOK
<1>2. \A i \in 1..Len(recommendationQ) : recommendationQ[i] \in Entries(Publications)
  BY <1>1
<1>3. \A i \in 1..Len(recommendationQ) : recommendationQ[i].contract \in Publications
  BY <1>2 DEF Entries
<1> QED
  BY <1>3 DEF Contracts

(* Publishing the state the Opportunity comes to, unless an older active   *)
(* publication of that very revision contradicts it.                       *)
LEMMA PublishedKnown ==
    ASSUME IInv, ProjectionInv, [Next]_vars,
           NEW r \in Revisions, NEW state \in States, NEW reason \in Reasons,
           recommendationQ' = Send(recommendationQ, Publication(r, state, reason)),
           UNCHANGED projection, opportunity'.revision = r, opportunity'.state = state,
           opportunity.revision <= r, state # "none",
           IF state = "active" THEN outcome'[r] # "none" ELSE ~Shown(r)
    PROVE  ProjectionInv'
<1> DEFINE c == Publication(r, state, reason)
<1>1. /\ recommendationQ \in Seq(Entries(Publications))
      /\ c \in Publications /\ c.revision = r /\ c.state = state
  BY PublicationTyped DEF IInv, TypeOK, Publication
<1>2. Contracts(recommendationQ') = Contracts(recommendationQ) \cup {c}
  BY <1>1, SendContracts
<1> HIDE DEF c
<1>3. Told(r)' /\ \A d \in Contracts(recommendationQ)' : d.state # "none"
  BY <1>1, <1>2 DEF Told, Contracts, ProjectionInv
<1>4. ASSUME NEW s \in Revisions, s # r, Shown(s)'
      PROVE  Shown(s)
  BY <1>1, <1>2, <1>4 DEF Shown, Contracts
<1>5. Shown(r)' => Shown(r) \/ state = "active"
  BY <1>1, <1>2 DEF Shown, Contracts
<1>6. ASSUME NEW s \in Revisions, Shown(s)'
      PROVE  s <= r /\ outcome'[s] # "none" /\ (s = r => state = "active")
  <2>1. CASE s = r
    BY <1>5, <1>6, <2>1 DEF Revisions
  <2>2. CASE s # r
    <3>1. s <= opportunity.revision /\ outcome[s] # "none"
      BY <1>4, <1>6, <2>2 DEF ProjectionInv
    <3>2. outcome'[s] # "none"
      BY <3>1, OutcomesStay DEF IInv
    <3>3. s <= r
      BY <3>1, RowFacts DEF Revisions
    <3> QED
      BY <2>2, <3>2, <3>3
  <2> QED
    BY <2>1, <2>2
<1> QED
  BY <1>3, <1>6 DEF ProjectionInv

(* Nothing new is told of an Opportunity that stays as it is.              *)
LEMMA UntoldKnown ==
    ASSUME IInv, ProjectionInv, [Next]_vars, UNCHANGED opportunity,
           Contracts(recommendationQ)' \subseteq Contracts(recommendationQ),
           \A s \in Revisions :
               /\ projection'[s].state = "active" => Shown(s)
               /\ projection[s] # NoRow \/ Told(s) => projection'[s] # NoRow \/ Told(s)'
    PROVE  ProjectionInv'
<1>1. \A s \in Revisions : Shown(s)' => Shown(s)
  BY DEF Shown
<1>2. ASSUME NEW s \in Revisions, Shown(s)'
      PROVE  /\ s <= opportunity.revision /\ outcome'[s] # "none"
             /\ s = opportunity.revision /\ AfterBoundary(s)' => opportunity.state = "active"
  <2>1. /\ s <= opportunity.revision /\ outcome[s] # "none"
        /\ s = opportunity.revision /\ AfterBoundary(s) => opportunity.state = "active"
    BY <1>1, <1>2 DEF ProjectionInv
  <2>2. outcome'[s] # "none"
    BY <2>1, OutcomesStay DEF IInv
  <2>3. s \in 1..Len(history)
    BY <2>1, RowFacts DEF IInv, RowsInv, Revisions
  <2> QED
    BY <2>1, <2>2, <2>3, BoundaryStays
<1>3. ASSUME opportunity.revision # 0, AfterBoundary(opportunity.revision)'
      PROVE  projection'[opportunity.revision] # NoRow \/ Told(opportunity.revision)'
  <2>1. opportunity.revision \in 1..Len(history) /\ opportunity.revision \in Revisions
    BY <1>3, RowFacts, LifecycleAssumption DEF IInv, RowsInv, TypeOK, Revisions
  <2>2. AfterBoundary(opportunity.revision)
    BY <1>3, <2>1, BoundaryStays
  <2> QED
    BY <1>3, <2>1, <2>2 DEF ProjectionInv
<1>4. \A c \in Contracts(recommendationQ)' : c.state # "none"
  BY DEF ProjectionInv
<1> QED
  BY <1>2, <1>3, <1>4 DEF ProjectionInv

(* A projection makes known what was told, and shows nothing that was not  *)
(* told.                                                                   *)
LEMMA ProjectedKnown ==
    ASSUME IInv, ProjectionInv, [Next]_vars,
           NEW i \in 1..Len(recommendationQ), ProjectOpportunity(i)
    PROVE  ProjectionInv'
<1> DEFINE c == recommendationQ[i].contract
<1>1. /\ recommendationQ \in Seq(Entries(Publications))
      /\ projection \in [Revisions -> [state : States, reason : Reasons]]
  BY DEF IInv, TypeOK
<1>2. c \in Contracts(recommendationQ) /\ c \in Publications /\ c.state # "none"
  BY PublicationsTyped DEF IInv, ProjectionInv
<1>3. c.revision \in Revisions
  BY <1>2 DEF Publications
<1>4. /\ UNCHANGED opportunity
      /\ recommendationQ' = RemoveAt(recommendationQ, i)
      /\ projection' = IF Kept(projection[c.revision], c) THEN projection
                       ELSE [projection EXCEPT ![c.revision] = Projected(c)]
  BY DEF ProjectOpportunity
<1> HIDE DEF c
<1>5. /\ Contracts(recommendationQ') \subseteq Contracts(recommendationQ)
      /\ Contracts(recommendationQ) \subseteq Contracts(recommendationQ') \cup {c}
  BY <1>1, <1>4, RemoveContracts DEF c
<1>6. /\ Projected(c).state # "none"
      /\ Projected(c).state = "active" => c.state = "active"
  BY <1>2 DEF Projected
<1>7. /\ \A s \in Revisions : s # c.revision => projection'[s] = projection[s]
      /\ \/ projection' = projection /\ projection[c.revision] # NoRow
         \/ projection'[c.revision] = Projected(c)
  BY <1>1, <1>3, <1>4 DEF Kept
<1>8. projection'[c.revision] # NoRow
  BY <1>6, <1>7 DEF NoRow
<1>9. ASSUME NEW s \in Revisions
      PROVE  /\ projection'[s].state = "active" => Shown(s)
             /\ projection[s] # NoRow \/ Told(s) => projection'[s] # NoRow \/ Told(s)'
  <2>1. projection'[s].state = "active" => Shown(s)
    <3>1. CASE s = c.revision
      BY <1>2, <1>6, <1>7, <3>1 DEF Shown
    <3>2. CASE s # c.revision
      BY <1>7, <3>2 DEF Shown
    <3> QED
      BY <3>1, <3>2
  <2>2. projection[s] # NoRow => projection'[s] # NoRow
    BY <1>7, <1>8
  <2>3. Told(s) => projection'[s] # NoRow \/ Told(s)'
    BY <1>5, <1>8 DEF Told, Contracts
  <2> QED
    BY <2>1, <2>2, <2>3
<1>10. Contracts(recommendationQ)' \subseteq Contracts(recommendationQ)
  BY <1>5 DEF Contracts
<1> QED
  BY <1>4, <1>9, <1>10, UntoldKnown

(* Who moves the Opportunity, its publications and their rows.             *)
LEMMA PublicationMoves ==
    ASSUME [Next]_vars
    PROVE  \/ /\ UNCHANGED <<opportunity, projection>>
              /\ \/ UNCHANGED recommendationQ
                 \/ \E i \in 1..Len(recommendationQ) :
                        \/ recommendationQ' = Leased(recommendationQ, i)
                        \/ recommendationQ' = Lapsed(recommendationQ, i)
           \/ \E i \in 1..Len(recommendationQ) : ProjectOpportunity(i)
           \/ \E i \in 1..Len(applicationQ) :
                 \/ AcceptSourceEvent(i)
                 \/ \E state \in {"active", "held_for_review"} : PublishOpportunity(i, state)
                 \/ \E reason \in {"source_revision_superseded",
                                   "response_route_unavailable"} :
                        RecordRoutingOutcome(i, reason)
                 \/ \E next \in {"paused", "removed"} : StopChat(i, next)
           \/ Moderation \/ ExpireReview
<1>1. CASE Application
  <2>1. PICK i \in 1..Len(applicationQ) :
            \/ IgnoreSourceEvent(i) \/ AcceptSourceEvent(i) \/ ConflictOnCreate(i)
            \/ DropProposal(i)
            \/ \E state \in {"active", "held_for_review"} : PublishOpportunity(i, state)
            \/ \E reason \in {"source_revision_superseded",
                              "response_route_unavailable"} :
                   RecordRoutingOutcome(i, reason)
            \/ \E next \in {"paused", "removed"} : StopChat(i, next)
            \/ ConflictOnPause(i) \/ ReEnable(i) \/ IgnoreChange(i)
    BY <1>1 DEF Application
  <2>2. \/ IgnoreSourceEvent(i) \/ ConflictOnCreate(i) \/ ConflictOnPause(i)
        \/ DropProposal(i) \/ ReEnable(i) \/ IgnoreChange(i)
        => UNCHANGED <<opportunity, projection, recommendationQ>>
    BY DEF IgnoreSourceEvent, ConflictOnCreate, ConflictOnPause, LeaseHead, DropProposal,
           TakeProposal, ReEnable, IgnoreChange
  <2> QED
    BY <2>1, <2>2
<1>2. \/ Classification \/ TargetEdited \/ CommitSourceEvent
      \/ \E kind \in Kinds : Happens(kind)
      \/ \E next \in Commands : RequestChange(next)
      => UNCHANGED <<opportunity, projection, recommendationQ>>
  BY DEF Classification, ClassifyRevision, TargetEdited, CommitSourceEvent, Happens,
         RequestChange, queues
<1>3. CASE (\E role \in Crashing : Crash(role)) \/ LeaseLapse
  BY <1>3 DEF Crash, LeaseLapse
<1>4. UNCHANGED vars => UNCHANGED <<opportunity, projection, recommendationQ>>
  BY DEF vars, queues
<1> QED
  BY <1>1, <1>2, <1>3, <1>4 DEF Next, Recommendation

(* What is not yet decided is not shown, nor is what has not come.         *)
LEMMA NotShown ==
    ASSUME ProjectionInv, NEW r \in Revisions,
           outcome[r] = "none" \/ ~(r <= opportunity.revision)
    PROVE  ~Shown(r)
  BY DEF ProjectionInv

(* A step that leaves the Opportunity, its rows and what is told of it.    *)
LEMMA KnownAsBefore ==
    ASSUME IInv, ProjectionInv, [Next]_vars, UNCHANGED <<opportunity, projection>>,
           Contracts(recommendationQ)' = Contracts(recommendationQ)
    PROVE  ProjectionInv'
<1>1. \A s \in Revisions : projection'[s].state = "active" => Shown(s)
  BY DEF Shown
<1>2. \A s \in Revisions :
          projection[s] # NoRow \/ Told(s) => projection'[s] # NoRow \/ Told(s)'
  BY DEF Told
<1> QED
  BY <1>1, <1>2, UntoldKnown

(* An overtaking revision is told suppressed.                              *)
LEMMA OvertakingKnown ==
    ASSUME SearchInv, [Next]_vars, NEW i \in 1..Len(applicationQ), AcceptSourceEvent(i)
    PROVE  ProjectionInv'
<1> USE DEF SearchInv
<1>1. PICK r : r = applicationQ[i].contract.revision
  OBVIOUS
<1>2. r \in Revisions /\ source.revision < r
  BY <1>1, AcceptedEvent
<1>3. opportunity.revision < r
  BY <1>2, RowFacts DEF IInv, RowsInv, Revisions
<1>4. UNCHANGED projection
  BY DEF AcceptSourceEvent
<1>5. CASE Overtaken(r)
  <2>1. /\ opportunity' = Overtaking(r)
        /\ recommendationQ' = Send(recommendationQ,
               Publication(r, "suppressed", Overtaking(r).reason))
    BY <1>1, <1>5 DEF AcceptSourceEvent
  <2>2. /\ Overtaking(r).revision = r /\ Overtaking(r).state = "suppressed"
        /\ Overtaking(r).reason \in Reasons
    BY DEF Overtaking, IInv, TypeOK, Reasons
  <2>3. ~Shown(r)
    BY <1>2, <1>3, RowFacts, NotShown DEF Revisions
  <2>4. PICK reason \in Reasons : reason = Overtaking(r).reason
    BY <2>2
  <2>5. opportunity.revision <= r
    BY <1>2, <1>3, RowFacts DEF Revisions
  <2>6. /\ recommendationQ' = Send(recommendationQ, Publication(r, "suppressed", reason))
        /\ opportunity'.revision = r /\ opportunity'.state = "suppressed"
    BY <2>1, <2>2, <2>4
  <2>7. "suppressed" \in States
    BY DEF States
  <2> QED
    BY <1>2, <1>4, <2>3, <2>5, <2>6, <2>7, PublishedKnown
<1>6. CASE ~Overtaken(r)
  <2>1. UNCHANGED <<opportunity, recommendationQ>>
    BY <1>1, <1>6 DEF AcceptSourceEvent
  <2> QED
    BY <1>4, <2>1, KnownAsBefore
<1> QED
  BY <1>5, <1>6

(* A decision is told as it is made.                                       *)
LEMMA DecisionKnown ==
    ASSUME SearchInv, [Next]_vars, NEW i \in 1..Len(applicationQ),
           \/ \E state \in {"active", "held_for_review"} : PublishOpportunity(i, state)
           \/ \E reason \in {"source_revision_superseded", "response_route_unavailable"} :
                  RecordRoutingOutcome(i, reason)
    PROVE  ProjectionInv'
<1> USE DEF SearchInv
<1>1. PICK r : r = applicationQ[i].contract.revision
  OBVIOUS
<1>2. /\ TakeProposal(i) /\ source.revision = r /\ UNCHANGED projection
      /\ r \in Proposals /\ r \in Revisions
  <2>1. TakeProposal(i) /\ Usable(applicationQ[i].contract)
    BY DEF PublishOpportunity, RecordRoutingOutcome
  <2>2. source.revision = r
    BY <1>1, <2>1 DEF Usable, Processable
  <2>3. r \in Proposals /\ Proposals \subseteq Revisions
    BY <1>1, <2>1, WorkTyped DEF TakeProposal, IInv
  <2> QED
    BY <2>1, <2>2, <2>3 DEF TakeProposal
<1>3. opportunity.revision <= r /\ ~(r > opportunity.revision /\ r < opportunity.revision)
  BY <1>2, RowFacts DEF IInv, RowsInv
<1>4. ~Shown(r)
  BY <1>2, NotShown DEF WorkInv
<1>5. CASE \E state \in {"active", "held_for_review"} : PublishOpportunity(i, state)
  <2>1. PICK state \in {"active", "held_for_review"} : PublishOpportunity(i, state)
    BY <1>5
  <2>2. PICK reason : reason = IF state = "active" THEN "none" ELSE "moderation_held"
    OBVIOUS
  <2>3. /\ reason \in Reasons /\ state \in States /\ state # "none"
    BY <2>2 DEF Reasons, States
  <2>4. r >= opportunity.revision
    BY <1>2, <1>3, RowFacts
  <2>5. /\ outcome' = [outcome EXCEPT ![r] = "accepted"]
        /\ opportunity' = [revision |-> r, state |-> state, reason |-> reason, usable |-> TRUE]
        /\ recommendationQ' = Send(recommendationQ, Publication(r, state, reason))
    BY <1>1, <2>1, <2>2, <2>4 DEF PublishOpportunity
  <2>6. outcome'[r] # "none"
    BY <1>2, <2>5 DEF IInv, TypeOK
  <2>7. opportunity'.revision = r /\ opportunity'.state = state
    BY <2>5
  <2> QED
    BY <1>2, <1>3, <1>4, <2>3, <2>5, <2>6, <2>7, PublishedKnown
<1>6. CASE \E reason \in {"source_revision_superseded", "response_route_unavailable"} :
               RecordRoutingOutcome(i, reason)
  <2>1. PICK reason \in {"source_revision_superseded", "response_route_unavailable"} :
            RecordRoutingOutcome(i, reason)
    BY <1>6
  <2>2. PICK usable : usable = IF reason = "response_route_unavailable"
                               THEN FALSE ELSE opportunity.usable
    OBVIOUS
  <2>3. \/ /\ opportunity' = [revision |-> r, state |-> "suppressed", reason |-> reason,
                              usable |-> usable]
           /\ recommendationQ' = Send(recommendationQ, Publication(r, "suppressed", reason))
        \/ UNCHANGED <<opportunity, recommendationQ>>
    BY <1>1, <2>1, <2>2, Zenon DEF RecordRoutingOutcome
  <2>4. CASE UNCHANGED <<opportunity, recommendationQ>>
    BY <1>2, <2>4, KnownAsBefore
  <2>5. CASE /\ opportunity' = [revision |-> r, state |-> "suppressed", reason |-> reason,
                                usable |-> usable]
             /\ recommendationQ' = Send(recommendationQ, Publication(r, "suppressed", reason))
    <3>1. opportunity'.revision = r /\ opportunity'.state = "suppressed"
      BY <2>5
    <3>2. reason \in Reasons /\ "suppressed" \in States
      BY DEF Reasons, States
    <3> QED
      BY <1>2, <1>3, <1>4, <2>5, <3>1, <3>2, PublishedKnown
  <2> QED
    BY <2>3, <2>4, <2>5
<1> QED
  BY <1>5, <1>6

(* A stop closes the boundary, whatever it leaves in the queue.            *)
LEMMA StopKnown ==
    ASSUME SearchInv, [Next]_vars, NEW i \in 1..Len(applicationQ),
           NEW next \in {"paused", "removed"}, StopChat(i, next)
    PROVE  ProjectionInv'
<1> USE DEF SearchInv
<1>1. /\ UNCHANGED <<outcome, projection>> /\ chat' = next
      /\ opportunity' = IF opportunity.revision = 0 THEN opportunity
                        ELSE [opportunity EXCEPT !.state = "suppressed",
                                  !.reason = StopReason(next), !.usable = FALSE]
  BY DEF StopChat
<1>2. opportunity'.revision = opportunity.revision
  BY <1>1 DEF IInv, TypeOK
<1>3. \A r : ~AfterBoundary(r)'
  BY <1>1 DEF AfterBoundary
<1>4. \A c \in Contracts(recommendationQ') : c.state = "suppressed"
  <2>1. Contracts(<<>>) = {}
    BY DEF Contracts
  <2>2. CASE recommendationQ' = <<>>
    BY <2>1, <2>2
  <2>3. CASE Announced(next)
    <3> DEFINE c == Publication(opportunity.revision, "suppressed", StopReason(next))
    <3>1. c.state = "suppressed"
      BY DEF Publication
    <3>2. recommendationQ' = Send(<<>>, c)
      BY <2>3 DEF StopChat
    <3> HIDE DEF c
    <3>3. <<>> \in Seq(Entries({c}))
      BY EmptySeq
    <3>4. Contracts(Send(<<>>, c)) = Contracts(<<>>) \cup {c}
      BY <3>3, SendContracts
    <3> QED
      BY <2>1, <3>1, <3>2, <3>4
  <2> QED
    BY <2>2, <2>3 DEF StopChat
<1>5. \A r \in Revisions : Shown(r)' => Shown(r)
  BY <1>1, <1>4 DEF Shown, Contracts
<1>6. \A c \in Contracts(recommendationQ)' : c.state # "none"
  BY <1>4 DEF Contracts
<1> QED
  BY <1>1, <1>2, <1>3, <1>5, <1>6 DEF ProjectionInv

(* A review that nobody decided ends what was never active.                *)
LEMMA ExpiryKnown ==
    ASSUME SearchInv, [Next]_vars, ExpireReview
    PROVE  ProjectionInv'
<1> USE DEF SearchInv
<1>1. PICK r : r = opportunity.revision
  OBVIOUS
<1>2. /\ opportunity.state = "held_for_review" /\ UNCHANGED projection
      /\ opportunity' = [opportunity EXCEPT !.state = "suppressed", !.reason = "review_timeout"]
      /\ recommendationQ' = Send(recommendationQ, Publication(r, "suppressed", "review_timeout"))
  BY <1>1 DEF ExpireReview, Transition
<1>3. /\ opportunity'.revision = r /\ opportunity'.state = "suppressed"
  BY <1>1, <1>2 DEF IInv, TypeOK
<1>4. r \in Revisions /\ AfterBoundary(r) /\ opportunity.revision <= r
  <2>1. r # 0 /\ AfterBoundary(r)
    BY <1>1, <1>2 DEF IInv, LiveIsCurrent, Current
  <2> QED
    BY <1>1, <2>1, RowFacts, LifecycleAssumption DEF IInv, TypeOK, Revisions
<1>5. ~Shown(r)
  BY <1>1, <1>2, <1>4 DEF ProjectionInv
<1>6. "review_timeout" \in Reasons /\ "suppressed" \in States
  BY DEF Reasons, States
<1> QED
  BY <1>2, <1>3, <1>4, <1>5, <1>6, PublishedKnown

(* Every step keeps Recommendation's knowledge, while no operator decides. *)
LEMMA ProjectionStep ==
    ASSUME SearchInv, [Next]_vars, MaxDecisions = 0
    PROVE  ProjectionInv'
<1> USE DEF SearchInv
<1>1. ~Moderation
  <2>1. ~(decisions < MaxDecisions)
    BY DEF IInv, TypeOK
  <2> QED
    BY <2>1 DEF Moderation, Moderate
<1>2. CASE /\ UNCHANGED <<opportunity, projection>>
           /\ \/ UNCHANGED recommendationQ
              \/ \E i \in 1..Len(recommendationQ) :
                     \/ recommendationQ' = Leased(recommendationQ, i)
                     \/ recommendationQ' = Lapsed(recommendationQ, i)
  <2>1. recommendationQ \in Seq(Entries(Publications))
    BY DEF IInv, TypeOK
  <2>2. Contracts(recommendationQ') = Contracts(recommendationQ)
    BY <1>2, <2>1, LeaseContracts
  <2>3. Contracts(recommendationQ)' = Contracts(recommendationQ)
    BY <2>2 DEF Contracts
  <2> QED
    BY <1>2, <2>3, KnownAsBefore
<1> QED
  BY <1>1, <1>2, PublicationMoves, ProjectedKnown, OvertakingKnown, DecisionKnown,
     StopKnown, ExpiryKnown

(* While no operator decides, a search without a publication on its way    *)
(* finds what the application holds active, in that revision -- for every  *)
(* history, whatever Recommendation's crashes reordered and the chat's     *)
(* stops dropped.                                                          *)
THEOREM SearchesConverge ==
    ASSUME MaxDecisions = 0
    PROVE  Spec => []SearchConverges
<1>1. Init => SearchInv
  <2> SUFFICES ASSUME Init PROVE SearchInv
    OBVIOUS
  <2>1. Contracts(recommendationQ) = {}
    BY DEF Init, Contracts
  <2>2. \A r \in Revisions : ~Shown(r)
    BY <2>1 DEF Init, Shown, NoRow
  <2>3. ProjectionInv
    BY <2>1, <2>2 DEF Init, ProjectionInv
  <2>4. Jobs = {} /\ Proposals = {}
    BY DEF Init, Jobs, Proposals, Works
  <2>5. Once(classificationQ, "classify") /\ Once(applicationQ, "proposal")
    BY DEF Init, Once
  <2>6. WorkInv
    BY <2>4, <2>5 DEF Init, WorkInv
  <2> QED
    BY <2>3, <2>6, InitInv DEF SearchInv
<1>2. SearchInv /\ [Next]_vars => SearchInv'
  BY Moves, WorkStep, ProjectionStep DEF SearchInv
<1>3. SearchInv => SearchConverges
  <2> SUFFICES ASSUME SearchInv, recommendationQ = <<>>, NEW r \in Revisions, Searchable(r)
               PROVE  opportunity.state = "active" /\ opportunity.revision = r
    BY DEF SearchConverges
  <2>1. ~Told(opportunity.revision)
    BY DEF Told, Contracts
  <2>2. /\ r <= opportunity.revision /\ AfterBoundary(opportunity.revision)
        /\ r = opportunity.revision => opportunity.state = "active"
    BY DEF SearchInv, ProjectionInv, Shown, Searchable
  <2>3. /\ opportunity.revision \in 0..MaxRevision /\ MaxRevision \in Nat /\ r \in Nat /\ r # 0
    BY LifecycleAssumption DEF SearchInv, IInv, TypeOK, Revisions
  <2>4. projection[opportunity.revision] # NoRow
    BY <2>1, <2>2, <2>3 DEF SearchInv, ProjectionInv
  <2>5. ~(opportunity.revision \in (r + 1)..MaxRevision)
    BY <2>4 DEF Searchable
  <2>6. opportunity.revision = r
    BY <2>2, <2>3, <2>5
  <2> QED
    BY <2>2, <2>6
<1> QED
  BY <1>1, <1>2, <1>3, PTL DEF Spec
=============================================================================
