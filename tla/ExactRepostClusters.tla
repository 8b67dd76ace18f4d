------------------------- MODULE ExactRepostClusters -------------------------
(***************************************************************************)
(* Exact reposts: the Source Messages of one publisher in one Source Chat  *)
(* that say the same, and the cluster in which the application keeps their *)
(* Opportunities so that searches show one of them.  A cluster's key is    *)
(* the normalized text and the resolved date of a proposition; moderation  *)
(* is a matter of the whole cluster.  A message has one proposition here,  *)
(* and its Opportunity goes by the message.                                *)
(* An action is one transaction of the application.  The steps inside it   *)
(* pass the rows along as one record, db, which also collects what the     *)
(* transaction tells Recommendation; Recommendation hears transactions in  *)
(* their order.                                                            *)
(***************************************************************************)
EXTENDS Naturals, FiniteSets

CONSTANTS
    Messages,
    Texts, Dates,
    None,          \* no text, no key, no representative
    MaxEvents,     \* bound on what happens to the messages on Telegram
    MaxDecisions,  \* bound on the operator's decisions
    MaxPauses,     \* bound on pauses of the chat
    MaxStale       \* bound on how many are past their freshness

Keys == Texts \X Dates

ASSUME RepostAssumption ==
    /\ None \notin Messages \cup Texts \cup Keys
    /\ MaxEvents \in Nat /\ MaxDecisions \in Nat /\ MaxStale \in Nat
    /\ MaxPauses \in {0, 1}

VARIABLES
    text,       \* source_messages: normalized text of the current revision
    deleted,    \* tombstoned messages
    newer,      \* <<m, p>>: m comes after p by event_time
    pending,    \* messages whose current revision awaits its proposal
    row,        \* application_opportunities: state and reason
    stale,      \* Opportunities whose accepted facts are past their freshness
    unroutable, \* Opportunities whose response route is unavailable
    member,     \* application_exact_repost_cluster_members, by Opportunity
    cluster,    \* application_exact_repost_clusters, by key
    triggered,  \* Opportunities with an unresolved moderation trigger
    sent,       \* exact-repost idempotency keys of the current revisions
    told,       \* Opportunities Recommendation lets searches find
    barred,     \* Opportunities Recommendation knows as paused
    chat, events, decisions, pauses

source == <<text, deleted, newer, pending>>
tables == <<row, stale, unroutable, member, cluster, triggered>>
heard  == <<sent, told, barred>>
vars   == <<source, tables, heard, chat, events, decisions, pauses>>

States  == {"none", "active", "held_for_review", "suppressed", "expired"}
Reasons == {"none", "source_revision_superseded", "source_deleted",
            "response_route_unavailable", "source_chat_paused",
            "exact_repost_superseded", "moderation_held",
            "moderation_suppressed", "review_timeout", "opportunity_expired"}
Is(state, reason) == [state |-> state, reason |-> reason]
NoRow     == Is("none", "none")
NoMember  == [key |-> None, rep |-> FALSE, shows |-> NoRow]
NoCluster == [moderation |-> "absent", rep |-> None, state |-> "none", n |-> 0]

Init == /\ text = [m \in Messages |-> None]
        /\ deleted = {} /\ newer = {} /\ pending = {}
        /\ row = [m \in Messages |-> NoRow]
        /\ stale = {} /\ unroutable = {}
        /\ member = [m \in Messages |-> NoMember]
        /\ cluster = [k \in Keys |-> NoCluster]
        /\ triggered = {}
        /\ sent = [m \in Messages |-> {}]
        /\ told = {} /\ barred = {}
        /\ chat = "enabled"
        /\ events = 0 /\ decisions = 0 /\ pauses = 0
-----------------------------------------------------------------------------
(* The rows as a transaction finds them; out is what it tells, n the       *)
(* number of the cluster transition that tells it, 0 for none.             *)
Db == [row |-> row, member |-> member, cluster |-> cluster, stale |-> stale,
       deleted |-> deleted, newer |-> newer, out |-> {}]

Telling(m, now, n) == [opp |-> m, now |-> now, n |-> n]

Members(db, k) == {m \in Messages : db.member[m].key = k}

Newest(db, opps) == {m \in opps : \A p \in opps \ {m} : <<m, p>> \in db.newer}

(* What may represent the cluster, or wait in it for its turn.             *)
InTurn(now) == /\ now.state \in {"active", "held_for_review", "suppressed"}
               /\ now.reason \in {"none", "exact_repost_superseded",
                     "moderation_held", "moderation_suppressed", "review_timeout"}

Candidates(db, k) ==
    {m \in Members(db, k) : InTurn(db.row[m]) /\ m \notin db.stale \cup db.deleted}

(* A cluster under review or suppressed has no representative, whatever    *)
(* older repost it could fall back to.                                     *)
Selected(db, k) ==
    IF db.cluster[k].moderation \in {"held_for_review", "suppressed"} THEN {}
    ELSE Newest(db, Candidates(db, k))

(* What becomes of one member; the first line that applies decides.        *)
Desired(db, k, m, forced) ==
    LET now        == db.row[m]
        moderation == db.cluster[k].moderation
    IN IF m \in db.deleted THEN Is("suppressed", "source_deleted")
       ELSE IF moderation = "held_for_review" THEN Is(moderation, "moderation_held")
       ELSE IF moderation = "suppressed"
            THEN Is(moderation, IF forced = "review_timeout" THEN forced
                                ELSE "moderation_suppressed")
       ELSE IF now.reason = "source_chat_paused" THEN Is("suppressed", now.reason)
       ELSE IF m \in Selected(db, k) THEN Is("active", "none")
       ELSE IF m \in db.stale
            THEN Is("expired", IF forced # "none" THEN forced
                               ELSE IF now.reason = "opportunity_expired"
                                    THEN now.reason ELSE "none")
       ELSE IF InTurn(now) THEN Is("suppressed", "exact_repost_superseded")
       ELSE now

(* The cluster's own publication state.                                    *)
ClusterState(db, k) ==
    IF db.cluster[k].moderation = "held_for_review"
    THEN IF Members(db, k) \subseteq db.deleted THEN "suppressed" ELSE "held_for_review"
    ELSE IF db.cluster[k].moderation = "suppressed" THEN "suppressed"
    ELSE IF Selected(db, k) # {} THEN "active"
    ELSE IF Members(db, k) # {} /\ Members(db, k) \subseteq db.deleted \cup db.stale
    THEN "expired" ELSE "suppressed"

(* _reconcile_exact_repost_cluster: every member moves, a cluster counts a *)
(* transition if anything did, and what moved is told under its number.    *)
(* keys are the clusters reconciled, touched the messages with a revision  *)
(* the members do not show yet.                                            *)
Reconcile(db, keys, forced, touched) ==
    LET key(m)     == db.member[m].key
        members    == {m \in Messages : key(m) \in keys}
        after(m)   == Desired(db, key(m), m, forced)
        leads(m)   == m \in Selected(db, key(m))
        changed(k) == {m \in Members(db, k) : \/ db.row[m] # after(m)
                                             \/ db.member[m].shows # after(m)
                                             \/ db.member[m].rep # leads(m)
                                             \/ m \in touched}
        rep(k)     == IF Selected(db, k) = {} THEN None
                      ELSE CHOOSE m \in Selected(db, k) : TRUE
        n(k)       == IF \/ changed(k) # {}
                         \/ db.cluster[k].rep # rep(k)
                         \/ db.cluster[k].state # ClusterState(db, k)
                      THEN db.cluster[k].n + 1 ELSE db.cluster[k].n
    IN [db EXCEPT
          !.row = [m \in Messages |-> IF m \in members THEN after(m) ELSE @[m]],
          !.member = [m \in Messages |->
              IF m \in members
              THEN [key |-> key(m), rep |-> leads(m), shows |-> after(m)] ELSE @[m]],
          !.cluster = [k \in Keys |->
              IF k \in keys
              THEN [moderation |-> @[k].moderation, rep |-> rep(k),
                    state |-> ClusterState(db, k), n |-> n(k)] ELSE @[k]],
          !.out = @ \cup {Telling(m, after(m), n(key(m))) :
                              m \in UNION {changed(k) : k \in keys}}]
-----------------------------------------------------------------------------
(* project_opportunity.  A suppression by the source leaves a publication  *)
(* of the same revision alone, and what was paused once stays hidden.      *)
Guarded(now) == now.reason \in {"source_revision_superseded",
                                "response_route_unavailable"}

(* Mutant: the guard looks at the state, not at the reason for it.         *)
GuardedWhenSuppressed(p, before) ==
    \/ p.now.state = "active" /\ p.opp \notin barred
    \/ p.now.state = "suppressed" /\ p.opp \in before

Shown(p, before) == \/ p.now.state = "active" /\ p.opp \notin barred
                    \/ Guarded(p.now) /\ p.opp \in before

Heard(out, before) == (before \ {p.opp : p \in out})
                        \cup {p.opp : p \in {q \in out : Shown(q, before)}}

(* The outbox takes an idempotency key once: it names the revision, the    *)
(* state and the number of the transition.  A refused transaction is       *)
(* rolled back.                                                            *)
KeysOf(out, m) == {<<p.now.state, p.n>> : p \in {q \in out : q.opp = m /\ q.n # 0}}

Commit(db, keys, before) ==
    /\ row' = db.row /\ member' = db.member /\ cluster' = db.cluster
    /\ stale' = db.stale /\ deleted' = db.deleted /\ newer' = db.newer
    /\ \A m \in Messages : KeysOf(db.out, m) \cap keys[m] = {}
    /\ sent' = [m \in Messages |-> keys[m] \cup KeysOf(db.out, m)]
    /\ told' = Heard(db.out, before)
-----------------------------------------------------------------------------
(* accept_source_event.                                                    *)
Happens == /\ chat = "enabled"
           /\ events < MaxEvents
           /\ events' = events + 1
           /\ UNCHANGED <<barred, chat, decisions, pauses>>

(* A revision takes its place by its event time among the other messages.  *)
Placings(m) ==
    LET known == {p \in Messages \ {m} : text[p] # None \/ p \in deleted}
        rest  == {pair \in newer : m \notin {pair[1], pair[2]}}
    IN {rest \cup (later \X {m}) \cup ({m} \X (known \ later)) :
           later \in {L \in SUBSET known :
                        \A pair \in rest : pair[2] \in L => pair[1] \in L}}

AcceptCreate(m, t) ==
    /\ Happens
    /\ text[m] = None /\ m \notin deleted
    /\ text' = [text EXCEPT ![m] = t]
    /\ newer' \in Placings(m)
    /\ pending' = pending \cup {m}
    /\ UNCHANGED <<deleted, tables, sent, told>>

(* _suppress_source_event_opportunities moves what was derived from the    *)
(* revision before to the new one, suppressed.                             *)
Overtaken(m, reason) ==
    [row EXCEPT ![m] = IF @ = NoRow THEN @ ELSE Is("suppressed", reason)]

(* _remove_stale_exact_repost_members_for_source_message: a text the key   *)
(* does not stand for leaves the cluster.                                  *)
WithoutReworded(db, m, t) ==
    [db EXCEPT !.member[m] = IF @.key # None /\ @.key[1] # t THEN NoMember ELSE @]

ClusterOf(m) == {member[m].key} \ {None}

(* A new revision has told nothing yet, and hides the one before it.       *)
CommitRevision(m, db) ==
    Commit(Reconcile(db, ClusterOf(m), "none", {m}),
           [sent EXCEPT ![m] = {}], told \ {m})

AcceptEdit(m, t) ==
    /\ Happens
    /\ text[m] # None
    /\ text' = [text EXCEPT ![m] = t]
    /\ pending' = pending \cup {m}
    /\ \E placing \in Placings(m) :
           CommitRevision(m, WithoutReworded(
               [Db EXCEPT !.newer = placing,
                          !.row = Overtaken(m, "source_revision_superseded")], m, t))
    /\ UNCHANGED <<unroutable, triggered>>

(* A cluster whose messages are all deleted is deleted with its members.   *)
Dissolved(db, keys) ==
    LET empty == {k \in keys : Members(db, k) \subseteq db.deleted}
    IN [db EXCEPT !.cluster = [k \in Keys |-> IF k \in empty THEN NoCluster ELSE @[k]],
                  !.member = [m \in Messages |->
                                 IF @[m].key \in empty THEN NoMember ELSE @[m]]]

AcceptDelete(m) ==
    /\ Happens
    /\ text[m] # None
    /\ text' = [text EXCEPT ![m] = None]
    /\ pending' = pending \ {m}
    /\ unroutable' = unroutable \cup {m}
    /\ LET gone == [Db EXCEPT !.deleted = @ \cup {m},
                              !.row = Overtaken(m, "source_deleted")]
           db   == Reconcile(gone, ClusterOf(m), "none", {m})
       IN Commit(Dissolved(db, ClusterOf(m)), [sent EXCEPT ![m] = {}], told \ {m})
    /\ UNCHANGED triggered
-----------------------------------------------------------------------------
(* ClassificationProposal of the current revision.                         *)
Taken(m) == /\ m \in pending
            /\ pending' = pending \ {m}
            /\ UNCHANGED <<text, barred, chat, events, decisions, pauses>>

(* What the chat's pause suppressed takes no proposal; the pause cancels    *)
(* the pending ones, and an edit lifts this suppression, so none is met.   *)
LifecycleSuppressed(m) == row[m].reason = "source_chat_paused"

(* Mutant: the cluster that is left is not looked at again.                *)
LeaveUnreconciled(db, m, k) ==
    IF db.member[m].key \in {k, None} THEN db
    ELSE [db EXCEPT !.member[m] = NoMember]

(* A proposition that belongs to another cluster now leaves the old one.   *)
Leave(db, m, k) ==
    LET old == db.member[m].key
    IN IF old \in {k, None} THEN db
       ELSE Reconcile([db EXCEPT !.member[m] = NoMember], {old}, "none", {})

(* Mutant: a new repost starts its cluster's review over.                  *)
ReviewStartsOver(standing, flagged) ==
    IF flagged THEN "held_for_review" ELSE "none"

(* The review a repost joins, or brings along.                             *)
ReviewJoined(standing, flagged) ==
    IF standing \in {"suppressed", "held_for_review"} THEN standing
    ELSE IF flagged THEN "held_for_review"
    ELSE IF standing = "absent" THEN "none" ELSE standing

Join(db, m, k, flagged) ==
    [db EXCEPT
        !.cluster[k] = [moderation |-> ReviewJoined(@.moderation, flagged),
                        rep |-> @.rep, n |-> @.n,
                        state |-> IF @ = NoCluster THEN "active" ELSE @.state],
        !.member[m] = [key |-> k, rep |-> @.key = k /\ @.rep, shows |-> db.row[m]]]

(* Mutant: the members the proposition joins are not moved.                *)
JoinsOnly(db, m, k, flagged) == Join(Leave(db, m, k), m, k, flagged)

(* _reconcile_exact_repost_for_opportunity.                                *)
Arbitrate(db, m, k, flagged) ==
    Reconcile(Join(Leave(db, m, k), m, k, flagged), {k}, "none", {})

(* publish_opportunity: the message's own publication carries the state    *)
(* the cluster gave it, under the cluster's key if that is another one.    *)
PublishOpportunity(m, date, flagged, outdated) ==
    LET k        == <<text[m], date>>
        accepted == IF flagged THEN Is("held_for_review", "moderation_held")
                    ELSE Is("active", "none")
        kept     == [Db EXCEPT !.row[m] = accepted,
                               !.stale = IF outdated THEN @ \cup {m} ELSE @ \ {m}]
        db       == Arbitrate(kept, m, k, flagged)
        own      == Telling(m, db.row[m],
                            IF db.row[m] = accepted THEN 0 ELSE db.cluster[k].n)
    IN /\ Taken(m)
       /\ ~LifecycleSuppressed(m)
       /\ Cardinality(kept.stale) <= MaxStale
       /\ unroutable' = unroutable \ {m}
       /\ triggered' = IF flagged THEN triggered \cup {m} ELSE triggered
       /\ Commit([db EXCEPT !.out = {p \in @ : p.opp # m} \cup {own}], sent, told)

(* record_classification_routing_outcome: the Opportunity is suppressed if *)
(* it is active, or has no route any more; its cluster is not looked at.   *)
RecordRoutingOutcome(m, reason) ==
    LET rejected == \/ row[m].state = "active"
                    \/ /\ reason = "response_route_unavailable"
                       /\ row[m].reason = "source_revision_superseded"
        now      == Is("suppressed", reason)
    IN /\ Taken(m)
       /\ unroutable' = IF rejected /\ reason = "response_route_unavailable"
                        THEN unroutable \cup {m} ELSE unroutable
       /\ Commit(IF rejected
                 THEN [Db EXCEPT !.row[m] = now, !.out = {Telling(m, now, 0)}]
                 ELSE Db, sent, told)
       /\ UNCHANGED triggered

-----------------------------------------------------------------------------
(* A moderation outcome for a whole cluster settles its members' triggers. *)
Settle(k, moderation, forced) ==
    /\ Commit(Reconcile([Db EXCEPT !.cluster[k].moderation = moderation],
                        {k}, forced, {}),
              sent, told)
    /\ triggered' = triggered \ Members(Db, k)
    /\ UNCHANGED <<text, pending, unroutable, barred, chat, events, pauses>>

(* moderate_opportunity, of a member: its cluster is moderated.            *)
ModerationOf == [approve |-> "approved", suppress |-> "suppressed"]
Decisions    == DOMAIN ModerationOf

Decides(m, decision) ==
    /\ decisions < MaxDecisions
    /\ decisions' = decisions + 1
    /\ chat = "enabled"
    /\ row[m] # NoRow /\ m \notin deleted
    /\ decision = "approve" => m \notin unroutable \cup stale

ModerateCluster(m, decision) ==
    LET k == member[m].key
    IN /\ Decides(m, decision)
       /\ k # None
       /\ cluster[k].moderation # ModerationOf[decision]
       /\ Settle(k, ModerationOf[decision], "none")

(* moderate_opportunity, of an Opportunity that is in no cluster.          *)
ModerateOpportunity(m, decision) ==
    LET now == IF decision = "approve" THEN Is("active", "none")
               ELSE Is("suppressed", "moderation_suppressed")
    IN /\ Decides(m, decision)
       /\ member[m].key = None
       /\ row[m] # now
       /\ Commit([Db EXCEPT !.row[m] = now, !.out = {Telling(m, now, 0)}], sent, told)
       /\ triggered' = triggered \ {m}
       /\ UNCHANGED <<text, pending, unroutable, barred, chat, events, pauses>>

(* expire_moderation_reviews: 30 days after the trigger nobody has decided. *)
ExpireReview(m) ==
    LET k == member[m].key
    IN /\ m \in triggered \ deleted
       /\ row[m] = Is("held_for_review", "moderation_held")
       /\ k # None /\ cluster[k].moderation = "held_for_review"
       /\ Settle(k, "suppressed", "review_timeout")
       /\ UNCHANGED decisions
-----------------------------------------------------------------------------
(* The freshness of the accepted facts ends.                               *)
Outdates(m) ==
    /\ row[m] # NoRow /\ m \notin stale
    /\ Cardinality(stale) < MaxStale
    /\ stale' = stale \cup {m}
    /\ UNCHANGED <<source, row, unroutable, member, cluster, triggered, heard,
                   chat, events, decisions, pauses>>

(* cleanup_expired_source_data: what is active past its freshness expires, *)
(* and the clusters concerned elect again.                                 *)
CleanupExpired ==
    LET overdue == {m \in stale : row[m].state = "active"}
        ended   == Is("expired", "opportunity_expired")
        before  == {m \in Messages : row[m] \in {ended, Is("expired", "none")}}
        marked  == [Db EXCEPT
            !.row = [m \in Messages |-> IF m \in overdue THEN ended ELSE @[m]],
            !.out = {Telling(m, ended, 0) : m \in overdue}]
    IN /\ overdue # {}
       /\ Commit(Reconcile(marked, UNION {ClusterOf(m) : m \in overdue \cup before},
                           ended.reason, {}), sent, told)
       /\ UNCHANGED <<text, pending, unroutable, triggered, barred, chat, events,
                      decisions, pauses>>
-----------------------------------------------------------------------------
(* change_source_chat_lifecycle, pause: every Opportunity of the chat is   *)
(* suppressed without its route, and the clusters are reconciled after.    *)
PauseChat ==
    LET rows    == {m \in Messages : row[m] # NoRow}
        gone(m) == Is("suppressed", IF m \in deleted THEN "source_deleted"
                                    ELSE "source_chat_paused")
        paused  == [Db EXCEPT
            !.row = [m \in Messages |-> IF m \in rows THEN gone(m) ELSE @[m]],
            !.member = [m \in Messages |->
                IF @[m].key = None THEN @[m]
                ELSE [key |-> @[m].key, rep |-> FALSE, shows |-> gone(m)]]]
        db      == Reconcile(paused, UNION {ClusterOf(m) : m \in rows}, "none", {})
    IN /\ chat = "enabled" /\ pauses < MaxPauses
       /\ chat' = "paused"
       /\ pauses' = pauses + 1
       /\ pending' = {}
       /\ unroutable' = unroutable \cup rows
       /\ barred' = barred \cup (rows \ deleted)
       /\ row' = db.row /\ member' = db.member /\ cluster' = db.cluster
       /\ told' = {}
       /\ UNCHANGED <<text, deleted, newer, stale, triggered, sent, events, decisions>>

ReEnableChat ==
    /\ chat = "paused"
    /\ chat' = "enabled"
    /\ UNCHANGED <<source, tables, heard, events, decisions, pauses>>
-----------------------------------------------------------------------------
Source == \E m \in Messages :
              \/ \E t \in Texts : AcceptCreate(m, t) \/ AcceptEdit(m, t)
              \/ AcceptDelete(m)

Proposal ==
    \E m \in Messages :
        \/ \E reason \in {"source_revision_superseded", "response_route_unavailable"} :
               RecordRoutingOutcome(m, reason)
        \/ \E date \in Dates, flagged \in BOOLEAN, outdated \in BOOLEAN :
               PublishOpportunity(m, date, flagged, outdated)

Moderation == \E m \in Messages, decision \in Decisions :
                  ModerateCluster(m, decision) \/ ModerateOpportunity(m, decision)

Next == \/ Source \/ Proposal \/ Moderation
        \/ \E m \in Messages : ExpireReview(m) \/ Outdates(m)
        \/ CleanupExpired
        \/ PauseChat \/ ReEnableChat

Spec == Init /\ [][Next]_vars
-----------------------------------------------------------------------------
(* Every variable stays within its type.                                   *)
TypeOK ==
    /\ text \in [Messages -> Texts \cup {None}]
    /\ deleted \subseteq Messages /\ pending \subseteq Messages
    /\ newer \subseteq Messages \X Messages
    /\ row \in [Messages -> [state : States, reason : Reasons]]
    /\ stale \subseteq Messages /\ unroutable \subseteq Messages
    /\ member \in [Messages -> [key : Keys \cup {None}, rep : BOOLEAN,
                                shows : [state : States, reason : Reasons]]]
    /\ cluster \in [Keys -> [moderation : {"absent", "none", "approved",
                                           "held_for_review", "suppressed"},
                             rep : Messages \cup {None}, state : States, n : Nat]]
    /\ triggered \subseteq Messages
    /\ sent \in [Messages -> SUBSET (States \X Nat)]
    /\ told \subseteq Messages /\ barred \subseteq Messages
    /\ chat \in {"enabled", "paused"}

(* A cluster shows one Opportunity at most, and none while it is under     *)
(* review or suppressed: a moderation action never falls back to an older  *)
(* repost.                                                                 *)
OneShown ==
    \A k \in Keys :
        LET shown == {m \in Members(Db, k) : row[m].state = "active"}
        IN /\ \A m, p \in shown : m = p
           /\ cluster[k].moderation \in {"held_for_review", "suppressed"} => shown = {}

(* A cluster that nothing withholds shows its newest fresh repost, unless  *)
(* the one it shows has just outdated or been rejected: after a deletion,  *)
(* an edit, an expiry or a change of cluster the next in turn takes over.  *)
NewestShown ==
    \A k \in Keys :
        (/\ cluster[k].moderation \in {"none", "approved"}
         /\ \A m \in Members(Db, k) :
                member[m].rep => row[m].state = "active" /\ m \notin stale)
        => \A m \in Newest(Db, Candidates(Db, k)) : row[m].state = "active"

(* What Recommendation lets searches find is what the application holds    *)
(* active, except what it knows as paused, and the publication that the    *)
(* guard of project_opportunity keeps when its revision is rejected        *)
(* afterwards.                                                             *)
ToldAsIs ==
    \A m \in Messages :
        /\ m \in told => row[m].state = "active" \/ Guarded(row[m])
        /\ row[m].state = "active" => m \in told \cup barred

(* An Opportunity suppressed by moderation becomes active again only by an *)
(* operator's decision or by a proposal of its own message: no repost,     *)
(* edit, deletion or expiry of another message lifts the suppression.      *)
SuppressionLifted ==
    [][\A m \in Messages :
          (/\ row[m].reason \in {"moderation_suppressed", "review_timeout"}
           /\ row'[m].state = "active")
          => decisions' # decisions \/ m \in pending \ pending']_vars

=============================================================================
