-------------------------- MODULE SourceDataDeletion --------------------------
(***************************************************************************)
(* How a Source Author's data is deleted on request.  The administrator    *)
(* decides, confirms with an effective time, and the Application begins:   *)
(* it captures its targets, raises barriers against their return, and asks *)
(* each of the five roles to suppress, then to delete, what it owns.  An   *)
(* owner that fails ends the attempt, and a retry repeats both phases with *)
(* the first targets.                                                      *)
(*                                                                         *)
(* Meanwhile the pipeline goes on, from the account to the search results: *)
(* contracts that carry the author's data wait in outboxes or in a role's  *)
(* memory.  Here it carries the revisions of one message of the author,    *)
(* consumed in order (SourceMessageLifecycle has the other orders); its    *)
(* later revisions are edits.  A piece of data is the number of the        *)
(* revision it was derived from.                                           *)
(*                                                                         *)
(* Every role is one process.  Where a claim and the transaction after it  *)
(* have nothing between them that would change what the transaction does,  *)
(* they are one action: the Application's (which also begins and advances  *)
(* the deletion) and Classification's admission (which reads the barriers  *)
(* anew).  `hand` is what the other roles hold between two transactions.   *)
(***************************************************************************)
EXTENDS Integers, FiniteSets, FiniteSetsExt

CONSTANTS
    MaxRevision,   \* revisions of the message
    Searches,      \* searches of Bot Users, submitted by one each
    MaxAttempts,   \* bound on execution attempts
    MaxTrouble,    \* bound on edits and on owner actions that raise, together
    MaxWaiting,    \* bound on events of owners that wait for the Application
    MaxLeft        \* bound on what is left of an attempt when its retry is confirmed

Owners == {"ingestion", "application", "classification", "recommendation", "bot_assistant"}
Revisions == 1..MaxRevision
Nothing == 0

ASSUME DeletionAssumption ==
    /\ {MaxRevision, MaxAttempts} \subseteq Nat \ {0}
    /\ {MaxTrouble, MaxLeft} \subseteq Nat /\ MaxWaiting \in Nat \ {0}
    /\ Searches \cap Owners = {}

\* An edit supersedes the Opportunity in a publication of its own.
Publications == {"publication", "supersession"}
Kinds == {"event", "classify", "proposal"} \cup Publications
Consumer(kind) == CASE kind \in {"event", "proposal"} -> "application"
                    [] kind = "classify"              -> "classification"
                    [] kind \in Publications          -> "recommendation"

VARIABLES
    posted, fetched,  \* revisions on Telegram, and those Ingestion has read
    request,          \* application_source_data_deletion_requests
    confirmed,        \* effective time of a start command that waits, or -1
    targets,          \* its target_* columns
    acks,             \* application_source_data_deletion_owner_acks
    scope,            \* commands to owners and their events
    records,          \* source_event_records
    accepted,         \* source_message_revisions
    attempts,         \* classification_attempts and their proof work
    opportunity,      \* the row of application_opportunities
    projection,       \* recommendation_opportunities, by revision
    searches,         \* searches, their results, and what Bot Assistant keeps
    contracts,        \* contract_outbox
    hand,             \* what each role's process works on
    failures,
    raced, overtaken  \* history: see NothingKept

telegram == <<posted, fetched>>
protocol == <<request, confirmed, targets, acks, scope, failures>>
owned    == <<records, accepted, attempts, opportunity, projection>>
history  == <<raced, overtaken>>
vars     == <<telegram, protocol, owned, searches, contracts, hand, history>>

Idle     == [what |-> "idle", id |-> Nothing, facts |-> Nothing, cards |-> {}]
Absent   == [state |-> "none", facts |-> Nothing, whole |-> FALSE]
NoOpp    == [rev |-> Nothing, facts |-> Nothing, active |-> FALSE]
NoRow    == [facts |-> Nothing, active |-> FALSE]
Pending  == [suppression |-> "pending", deletion |-> "pending"]
NoSearch == [stage |-> "none", results |-> {}, inputs |-> {}, count |-> 0, shown |-> {}]

Init == /\ posted = 0 /\ fetched = 0
        /\ request = [status |-> "pending_decision", attempt |-> 0, boundary |-> 0,
                      notified |-> FALSE]
        /\ confirmed = -1
        /\ targets = [revisions |-> {}, opportunity |-> FALSE, searches |-> {}]
        /\ acks = [o \in Owners |-> Pending] /\ scope = {} /\ failures = 0
        /\ records = {} /\ accepted = {} /\ attempts = {}
        /\ opportunity = NoOpp
        /\ projection = [r \in Revisions |-> NoRow]
        /\ searches = [s \in Searches |-> NoSearch]
        /\ contracts = [k \in Kinds \X Revisions |-> Absent]
        /\ hand = [o \in Owners \ {"ingestion", "application"} |-> Idle]
        /\ raced = {} /\ overtaken = FALSE

-----------------------------------------------------------------------------
\* Mutant: an event of the effective time itself passes.
AuthorBarredBefore(r) == request.attempt > 0 /\ r < request.boundary

\* source_author_deletion_barrier: written when execution begins.
AuthorBarred(r) == request.attempt > 0 /\ r <= request.boundary

\* Mutant: the barrier does not look at the time of an edit.
EveryEventBarred(r) == targets.revisions # {}

\* source_message_deletion_barrier with the event's time, and with the time
\* of the stored revision: one that is not stored any more is barred.
EventBarred(r) == targets.revisions # {} /\ r <= request.boundary
Barred(r)      == targets.revisions # {} /\ (r <= request.boundary \/ r \notin accepted)
Current        == Max(accepted \cup {Nothing})

Free(o) == o \in DOMAIN hand => hand[o] = Idle
Put(kind, r, facts, rows) ==
    [rows EXCEPT ![<<kind, r>>] = [state |-> "pending", facts |-> facts, whole |-> TRUE]]
Settle(kind, r, rows) == [rows EXCEPT ![<<kind, r>>].state = "settled"]
Holds(kind, r, facts) ==
    contracts[<<kind, r>>] = [state |-> "pending", facts |-> facts, whole |-> TRUE]
Finished(o) == hand' = [hand EXCEPT ![o] = Idle]

\* Rows that _scrub_source_scope_outbox and the capture remove content from.
\* Of a publication of one Opportunity evidence and response route go, so that
\* no consumer can parse it any more, but the accepted facts stay.
Hit(k, kinds, revs, opp) ==
    k[1] \in kinds /\ (k[2] \in revs \/ (opp /\ k[1] \in Publications))
Scrub(k, row) ==
    [row EXCEPT !.whole = FALSE, !.facts = IF k[1] \in Publications THEN @ ELSE Nothing]
Without(f, kinds, revs, opp) ==
    [k \in DOMAIN f |-> IF Hit(k, kinds, revs, opp) THEN Scrub(k, f[k]) ELSE f[k]]

-----------------------------------------------------------------------------
(* The author writes the message and edits it; Ingestion is never more     *)
(* than one revision behind.                                               *)
Post == /\ posted < MaxRevision /\ posted = fetched
        /\ posted = 0 \/ posted + failures <= MaxTrouble
        /\ posted' = posted + 1
        /\ UNCHANGED <<fetched, protocol, owned, searches, contracts, hand, history>>

(* Ingestion commits the next event.  One of a deleted author only moves   *)
(* the checkpoint.                                                         *)
Record ==
    LET r == fetched + 1 IN
    /\ fetched < posted
    /\ fetched' = r
    /\ IF AuthorBarred(r)
         THEN UNCHANGED <<records, contracts>>
         ELSE /\ records' = records \cup {r}
              /\ contracts' = Put("event", r, r, contracts)
    /\ UNCHANGED <<posted, protocol, accepted, attempts, opportunity, projection, searches,
                   hand, history>>

(* A contract that a scrub has left incomplete is refused at its claim; a  *)
(* scrubbed source event still parses.                                     *)
Refuse(kind, r) ==
    /\ kind # "event" /\ Free(Consumer(kind))
    /\ contracts[<<kind, r>>].state = "pending" /\ ~contracts[<<kind, r>>].whole
    /\ contracts' = Settle(kind, r, contracts)
    /\ UNCHANGED <<telegram, protocol, owned, searches, hand, history>>

(* The Application accepts a source event.  An edit moves the Opportunity  *)
(* to its own revision, suppressed, and publishes that: with the facts of  *)
(* the older revision.                                                     *)
AcceptEvent(r) ==
    LET content == contracts[<<"event", r>>].facts # Nothing
        late == r > request.boundary /\ opportunity.rev # Nothing
                /\ \/ request.attempt > 0 /\ opportunity.rev <= request.boundary
                   \/ confirmed >= 0 /\ opportunity.rev <= confirmed /\ r > confirmed
    IN
    /\ contracts[<<"event", r>>].state = "pending"
    /\ \A p \in 1..(r - 1) : contracts[<<"event", p>>].state # "pending"
    /\ IF EventBarred(r) \/ (content /\ AuthorBarred(r))
         THEN /\ contracts' = Settle("event", r, contracts)
              /\ UNCHANGED <<accepted, opportunity, overtaken>>
         ELSE /\ accepted' = accepted \cup {r}
              /\ opportunity' = IF opportunity.rev = Nothing THEN opportunity
                                ELSE [opportunity EXCEPT !.rev = r, !.active = FALSE]
              /\ contracts' = Settle("event", r, Put("classify", r, r,
                     IF opportunity.rev = Nothing THEN contracts
                     ELSE Put("supersession", r, opportunity.facts, contracts)))
              /\ overtaken' = (overtaken \/ late)
    /\ UNCHANGED <<telegram, protocol, records, attempts, projection, searches, hand, raced>>

(* Classification admits an attempt, calls the model, and records it with  *)
(* its proposal: the barrier is read before the call and after it.         *)
Admit(r) ==
    /\ Holds("classify", r, r) /\ Free("classification")
    /\ IF Barred(r) \/ r # Current
         THEN /\ contracts' = Settle("classify", r, contracts)
              /\ UNCHANGED <<attempts, hand>>
         ELSE /\ attempts' = attempts \cup {r}
              /\ hand' = [hand EXCEPT !["classification"] =
                             [what |-> "calling", id |-> r, facts |-> r, cards |-> {}]]
              /\ UNCHANGED contracts
    /\ UNCHANGED <<telegram, protocol, records, accepted, opportunity, projection, searches, history>>

Propose ==
    LET h == hand["classification"] IN
    /\ h.what = "calling"
    /\ contracts' = Settle("classify", h.id,
           IF Barred(h.id) THEN contracts ELSE Put("proposal", h.id, h.facts, contracts))
    /\ Finished("classification")
    /\ UNCHANGED <<telegram, protocol, owned, searches, history>>

(* The Application publishes what a proposal for the current revision      *)
(* holds, if anything.                                                     *)
AcceptProposal(r, found) ==
    /\ Holds("proposal", r, r)
    /\ IF Barred(r) \/ r # Current \/ ~found
         THEN /\ contracts' = Settle("proposal", r, contracts)
              /\ UNCHANGED opportunity
         ELSE /\ opportunity' = [rev |-> r, facts |-> r, active |-> TRUE]
              /\ contracts' = Settle("proposal", r, Put("publication", r, r, contracts))
    /\ UNCHANGED <<telegram, protocol, records, accepted, attempts, projection, searches,
                   hand, history>>

(* Recommendation claims a publication with the payload of that moment.    *)
Claim(kind, r) ==
    /\ \E facts \in Revisions :
          /\ Holds(kind, r, facts) /\ Free("recommendation")
          /\ hand' = [hand EXCEPT !["recommendation"] =
                         [what |-> kind, id |-> r, facts |-> facts, cards |-> {}]]
    /\ UNCHANGED <<telegram, protocol, owned, searches, contracts, history>>

(* Recommendation projects a publication, suppressed when its message is   *)
(* deleted: the facts are written all the same.                            *)
Project ==
    LET h == hand["recommendation"]
        r == h.id
        row == [facts |-> h.facts, active |-> h.what = "publication" /\ ~Barred(r)] IN
    /\ h.what \in Publications
    /\ projection' = [projection EXCEPT ![r] =
                         IF h.what = "supersession" /\ @.active THEN @ ELSE row]
    /\ contracts' = Settle(h.what, r, contracts)
    /\ Finished("recommendation")
    /\ UNCHANGED <<telegram, protocol, records, accepted, attempts, opportunity, searches, history>>

-----------------------------------------------------------------------------
\* Rows of recommendation_opportunities that a search takes: the latest, if
\* the Application still has the Opportunity, and by its state and barrier.
Latest  == Max({r \in Revisions : projection[r].facts # Nothing} \cup {Nothing})
Visible == Latest # Nothing /\ opportunity.rev \in accepted

\* Mutant: a search trusts the projected state alone.
FoundByState == Visible /\ projection[Latest].active
Found == FoundByState /\ ~Barred(opportunity.rev)

(* Recommendation evaluates a search on one snapshot and commits what it   *)
(* found, with the projections it looked at.  (One that saw nothing keeps  *)
(* nothing, and is left out.)                                              *)
Search(s) ==
    /\ searches[s].stage = "none" /\ Free("recommendation") /\ Visible
    /\ LET seen == IF Visible THEN projection[Latest].facts ELSE Nothing
       IN hand' = [hand EXCEPT !["recommendation"] =
                      [what |-> "search", id |-> s, facts |-> seen,
                       cards |-> IF Found THEN {seen} ELSE {}]]
    /\ UNCHANGED <<telegram, protocol, owned, searches, contracts, history>>

CompleteSearch ==
    LET h == hand["recommendation"] IN
    /\ h.what = "search"
    /\ searches' = [searches EXCEPT ![h.id] =
                       [stage |-> "completed", results |-> h.cards,
                        inputs |-> {h.facts} \ {Nothing}, count |-> Cardinality(h.cards),
                        shown |-> {}]]
    /\ Finished("recommendation")
    /\ UNCHANGED <<telegram, protocol, owned, contracts, history>>

(* Bot Assistant reads the results of a completed search, and queues its   *)
(* screen in a second transaction.  A search that a deletion has captured  *)
(* is not read: its contract stays.  One that lost results is disposed of. *)
ReadResults(s) ==
    /\ searches[s].stage = "completed" /\ Free("bot_assistant")
    /\ s \notin targets.searches
    /\ IF Cardinality(searches[s].results) = searches[s].count
         THEN /\ hand' = [hand EXCEPT !["bot_assistant"] =
                             [what |-> "read", id |-> s, facts |-> Nothing,
                              cards |-> searches[s].results]]
              /\ UNCHANGED searches
         ELSE /\ searches' = [searches EXCEPT ![s].stage = "answered"]
              /\ UNCHANGED hand
    /\ UNCHANGED <<telegram, protocol, owned, contracts, history>>

AcceptResults ==
    LET h == hand["bot_assistant"] IN
    /\ h.what = "read"
    /\ searches' = [searches EXCEPT ![h.id].stage = "answered",
                       ![h.id].shown = IF h.id \in targets.searches THEN {} ELSE h.cards]
    /\ Finished("bot_assistant")
    /\ UNCHANGED <<telegram, protocol, owned, contracts, history>>

-----------------------------------------------------------------------------
Command(name, o, n, list) == [name |-> name, owner |-> o, attempt |-> n, searches |-> list]

(* The administrator's decision, notice to the requester, and completion.  *)
(* A notice is only read by the completion, and forgotten when execution   *)
(* begins: an earlier one is not modelled.                                 *)
Decide(status) ==
    /\ request.status = "pending_decision"
    /\ request' = [request EXCEPT !.status = status]
    /\ UNCHANGED <<telegram, confirmed, targets, acks, scope, failures, owned, searches,
                   contracts, hand, history>>

Notify ==
    /\ request.status = "awaiting_completion"
    /\ request' = [request EXCEPT !.notified = TRUE]
    /\ UNCHANGED <<telegram, confirmed, targets, acks, scope, failures, owned, searches,
                   contracts, hand, history>>

AllDeleted(a)    == \A o \in Owners : a[o].deletion = "completed"
AllSuppressed(a) == \A o \in Owners : a[o].suppression = "completed"

Complete ==
    /\ request.status = "awaiting_completion" /\ request.notified /\ AllDeleted(acks)
    /\ request' = [request EXCEPT !.status = "completed"]
    /\ UNCHANGED <<telegram, confirmed, targets, acks, scope, failures, owned, searches,
                   contracts, hand, history>>

(* The administrator confirms the execution, or its retry: the effective   *)
(* time is that of the confirmation.                                       *)
Confirm ==
    /\ request.status \in {"approved_awaiting_execution", "execution_error"}
    /\ confirmed = -1
    /\ request.attempt < MaxAttempts /\ Cardinality(scope) <= MaxLeft
    /\ confirmed' = posted
    /\ UNCHANGED <<telegram, request, targets, acks, scope, failures, owned, searches,
                   contracts, hand, history>>

\* The searches whose results or inputs hold the targeted Opportunity.
SearchesOf(opp) == {s \in Searches : opp /\ searches[s].results \cup searches[s].inputs # {}}

(* Execution begins: targets are captured once, a retry keeps them and the *)
(* boundary; every owner is asked to suppress.                             *)
Begin ==
    LET first == request.attempt = 0
        edge  == IF first THEN confirmed ELSE request.boundary
        revs  == IF first THEN (records \cup accepted) \cap (1..edge) ELSE targets.revisions
        opp   == IF first THEN opportunity.rev \in revs ELSE targets.opportunity
        list  == IF first THEN SearchesOf(opp) ELSE targets.searches
    IN
    /\ confirmed >= 0
    /\ confirmed' = -1
    /\ targets' = [revisions |-> revs, opportunity |-> opp, searches |-> list]
    /\ request' = [status |-> "suppressing", attempt |-> request.attempt + 1,
                   boundary |-> edge, notified |-> FALSE]
    /\ acks' = [o \in Owners |-> Pending]
    /\ scope' = scope \cup {Command("suppress", o, request.attempt + 1, list) : o \in Owners}
    /\ contracts' = IF first THEN Without(contracts, {"event"}, records \cap (1..edge), FALSE)
                    ELSE contracts
    /\ raced' = IF hand["recommendation"].what = "search"
                THEN raced \cup {hand["recommendation"].id} ELSE raced
    /\ UNCHANGED <<telegram, failures, owned, searches, hand, overtaken>>

(* What each owner's action does to the pipeline.                          *)
Outbox(o) == CASE o = "ingestion"      -> {"event"}
               [] o = "application"    -> {"classify"} \cup Publications
               [] o = "classification" -> {"proposal"}
               [] OTHER                -> {}
Scrubbed(o) == Without(contracts, Outbox(o), targets.revisions,
                       o = "application" /\ targets.opportunity)
Cleaned(list) == [s \in Searches |-> IF s \in list THEN [searches[s] EXCEPT !.shown = {}]
                                     ELSE searches[s]]

Suppressed(o, list) ==
    /\ contracts' = Scrubbed(o)
    /\ opportunity' = IF o = "application" /\ targets.opportunity
                      THEN [opportunity EXCEPT !.active = FALSE] ELSE opportunity
    /\ projection' = IF o = "recommendation" /\ targets.opportunity
                     THEN [r \in Revisions |-> [projection[r] EXCEPT !.active = FALSE]]
                     ELSE projection
    /\ searches' = IF o = "bot_assistant" THEN Cleaned(list) ELSE searches
    /\ UNCHANGED <<records, accepted, attempts>>

Deleted(o, list) ==
    /\ contracts' = Scrubbed(o)
    /\ records'  = IF o = "ingestion" THEN records \ targets.revisions ELSE records
    /\ attempts' = IF o = "classification" THEN attempts \ targets.revisions ELSE attempts
    /\ accepted' = IF o = "application" THEN accepted \ targets.revisions ELSE accepted
    /\ opportunity' = IF o = "application"
                         /\ (targets.opportunity \/ opportunity.rev \in targets.revisions)
                      THEN NoOpp ELSE opportunity
    /\ projection' = IF o = "recommendation" /\ targets.opportunity
                     THEN [r \in Revisions |-> NoRow] ELSE projection
    /\ searches' = CASE o = "recommendation" /\ targets.opportunity ->
                            [s \in Searches |-> [searches[s] EXCEPT !.results = {}, !.inputs = {}]]
                     [] o = "bot_assistant" -> Cleaned(list)
                     [] OTHER -> searches

Asks == {"suppress", "delete"}
Room == Cardinality({e \in scope : e.name \notin Asks}) < MaxWaiting

(* An owner executes a command: of whatever attempt, as it does not ask.   *)
Execute(c) ==
    LET list == IF c.owner = "bot_assistant" /\ c.name = "suppress" /\ c.searches = {}
                THEN SearchesOf(targets.opportunity) ELSE c.searches IN
    /\ c \in scope /\ c.name \in Asks /\ Free(c.owner) /\ Room
    /\ IF c.name = "suppress" THEN Suppressed(c.owner, list) ELSE Deleted(c.owner, list)
    /\ scope' = (scope \ {c}) \cup
          {Command(IF c.name = "suppress" THEN "suppressed" ELSE "deleted",
                   c.owner, c.attempt, list)}
    /\ UNCHANGED <<telegram, request, confirmed, targets, acks, failures, hand, history>>

(* Its action raises: the savepoint is rolled back and the failure told.   *)
Failure(c) == {Command(IF c.name = "suppress" THEN "suppression_failed" ELSE "deletion_failed",
                       c.owner, c.attempt, {})}
Fail(c) ==
    /\ c \in scope /\ c.name \in Asks /\ Free(c.owner) /\ Room
    /\ failures + Max({posted, 1}) - 1 < MaxTrouble
    /\ failures' = failures + 1
    /\ scope' = (scope \ {c}) \cup Failure(c)
    /\ UNCHANGED <<telegram, request, confirmed, targets, acks, owned, searches, contracts,
                   hand, history>>

\* An event of an attempt that is over is dropped.
Stale(e) == e.attempt # request.attempt

(* The Application accepts an owner's event; when the last owner has       *)
(* suppressed, it asks all of them to delete.                              *)
OwnerEvent(e) ==
    LET acks1 == CASE e.name = "suppressed" ->
                          [acks EXCEPT ![e.owner].suppression = "completed"]
                   [] e.name = "deleted" -> [acks EXCEPT ![e.owner].deletion = "completed"]
                   [] e.name = "suppression_failed" ->
                          [acks EXCEPT ![e.owner].suppression = "failed"]
                   [] OTHER -> [acks EXCEPT ![e.owner].deletion = "failed"]
        list  == IF e.name = "suppressed" /\ e.owner = "bot_assistant"
                 THEN e.searches ELSE targets.searches
        next  == IF e.name = "suppressed" /\ AllSuppressed(acks1)
                 THEN {Command("delete", o, e.attempt, list) : o \in Owners} ELSE {}
        status == CASE e.name \in {"suppression_failed", "deletion_failed"} -> "execution_error"
                    [] next # {} /\ request.status = "suppressing" -> "executing"
                    [] e.name = "deleted" /\ AllDeleted(acks1)
                         /\ request.status = "executing" -> "awaiting_completion"
                    [] OTHER -> request.status
    IN
    /\ e \in scope /\ e.name \notin Asks
    /\ IF Stale(e)
         THEN /\ scope' = scope \ {e}
              /\ UNCHANGED <<request, targets, acks>>
         ELSE /\ scope' = (scope \ {e}) \cup next
              /\ acks' = acks1
              /\ targets' = [targets EXCEPT !.searches = list]
              /\ request' = [request EXCEPT !.status = status]
    /\ UNCHANGED <<telegram, confirmed, failures, owned, searches, contracts, hand, history>>

-----------------------------------------------------------------------------
Pipeline == \/ Record \/ Propose \/ Project
            \/ CompleteSearch \/ AcceptResults
            \/ \E r \in Revisions :
                   \/ AcceptEvent(r) \/ Admit(r)
                   \/ \E found \in BOOLEAN : AcceptProposal(r, found)
                   \/ \E k \in Publications : Claim(k, r)
                   \/ \E k \in Kinds : Refuse(k, r)
            \/ \E s \in Searches : ReadResults(s)

Next == \/ Post \/ Pipeline
        \/ \E s \in Searches : Search(s)
        \/ \E d \in {"approved_awaiting_execution", "rejected"} : Decide(d)
        \/ Notify \/ Complete \/ Confirm \/ Begin
        \/ \E c \in scope : Execute(c) \/ Fail(c) \/ OwnerEvent(c)

Spec == Init /\ [][Next]_vars

-----------------------------------------------------------------------------
Gone == request.status \in {"awaiting_completion", "completed"}

\* What the author wrote up to the effective time.
Before == 1..request.boundary

(* When every owner has acknowledged its deletion, no owner holds data of  *)
(* the author from before the effective time, and none comes back from a   *)
(* waiting contract, a role's memory, Telegram or a search -- unless an    *)
(* edit from after it took the Opportunity over before it was deleted, or  *)
(* a search evaluated while execution began is on a Bot User's screen.     *)
(* One thing is kept, against the documented promise: the accepted facts   *)
(* of a publication, in a row of the outbox that nobody can parse.         *)
NothingKept ==
    Gone /\ ~overtaken =>
        /\ (records \cup accepted \cup attempts) \cap Before = {}
        /\ opportunity.facts \notin Before
        /\ \A r \in Revisions : projection[r].facts \notin Before
        /\ \A k \in DOMAIN contracts :
               contracts[k].facts \in Before => k[1] \in Publications /\ ~contracts[k].whole
        /\ \A s \in Searches :
               /\ (searches[s].results \cup searches[s].inputs) \cap Before = {}
               /\ searches[s].shown \cap Before = {} \/ s \in raced

(* From the moment execution begins no search finds such data, with the    *)
(* same exception: the owners' suppression is not awaited.                 *)
FoundNoMore ==
    [][\A s \in Searches :
           hand'["recommendation"].what = "search" /\ hand["recommendation"] = Idle
           /\ request.attempt > 0 /\ ~overtaken
           => hand'["recommendation"].cards \cap Before = {}]_vars

(* What the author writes after the boundary remains eligible: neither a   *)
(* barrier nor an owner takes it, in whatever attempt.                     *)
LaterKept ==
    \A r \in Revisions :
        r > request.boundary =>
            /\ r <= fetched => r \in records
            /\ contracts[<<"event", r>>].state = "settled" => r \in accepted

=============================================================================
