# Formal models of the football bot

The bot ingests Telegram chats, classifies messages into Opportunities with a
model, and answers the searches of Bot Users.  Five long-lived processes, one
per runtime role, run the same code under `src/modules` with different database
credentials (`src/apps/runtime_service.py`).  They never call each other: each
commits its own state together with rows of `contract_outbox` addressed to a
consumer role, and the consumer claims those rows under a lease, applies them
and commits an inbox row (`src/modules/postgres_adapter`).  PostgreSQL, at READ
COMMITTED, is the only shared state.

This directory holds TLA+ modules of that machinery, the TLC configurations
that check them on small instances, and TLAPS proofs.  In what follows AP, PG,
BA, TI and RS stand for `src/modules/application/__init__.py`,
`src/modules/postgres_adapter/__init__.py`, `src/modules/bot_api/__init__.py`,
`src/modules/telethon_ingestion/__init__.py` and `src/apps/runtime_service.py`.

    tlc -workers 2 -config ContractQueue.cfg MCContractQueue
    tlapm ContractQueueProofs.tla

`PROJECT.json` lists the runs, the mutants, the source lines of every
definition, the hazards and the theorems.


## 1. Inventory

| component | state it keeps | operations | hard behaviours | what makes it correct |
|---|---|---|---|---|
| Contract queue (PG `claim_next`, `consume`, `_begin_owned_contract`, `reject_invalid_contract`, `_release_claim`, `cancel_source_chat_work`) | `contract_outbox` with lease columns, `contract_inbox`, operator alerts | produce, cancel, claim, apply, refuse, replay, release | lease lapse during work, crash between claim and commit, two openers who both read "no inbox row", version lag, unique-key conflicts | effects at most once, one answer, nothing stranded, refusals alerted |
| Source Message to Opportunity lifecycle (AP `process_next`; PG `commit_source_event`, `accept_source_event`, `publish_opportunity`, `change_source_chat_lifecycle`, `moderate_opportunity`, `project_opportunity`, `find_search_results`) | event records and checkpoint, `source_messages`, `application_opportunities`, registry, `recommendation_opportunities`, three queues | record and accept events, classify, publish or reject, pause/re-enable/remove, moderate, expire, project, search | contracts overtaken after a crash, cancellation of work under way, stale reads across roles, reused keys | a live Opportunity is current and accepted; searches converge; deletions take effect |
| Bot API ingress (BA `PollingBotApiIngress`, `PostgresBotApiContinuity`) | durable offset, poll lease, update claims, retention alerts | poll, claim, consume, complete, release, register and close a gap, deliver an alert | overlapping pollers, claims left by a dead process, Telegram's 24-hour retention, sends of unknown outcome | the offset waits for claims left behind, losses alerted, alerts shown once |
| Bot API delivery and conversation messages (BA ledger 1743-1921, adapter 2131-2838; PG 15825-16431) | `bot_message_outbox`, the delivery ledger, active and old chat views | claim, send, edit, reconcile, mark, supersede, clean up | unknown outcomes, edits retried after younger edits, a screen superseded while in flight | one active view that shows what the bot takes it to show, nothing sent twice, no screen comes back over a younger one |
| Classifier execution (AP 19571-21435; PG 8874-9625) | attempts, pass of a revision, two circuits, leases | claim, begin, abort, record, retry, exhaust, probe | a lease shorter than the model call, a probe of an open circuit, budget spent by crashes | at most one lease per circuit, budget respected, every revision decided or given up |
| Telegram ingestion (AP 17716-18758; PG 3662-6350) | account and channel checkpoints, history cursor and progress, stop scopes | difference page, history page, live event, discard, stop, recover | checkpoint races with three stop scopes, eligibility read early, history and live routes deliver the same message | no event lost or committed beyond a stop, checkpoint never passes an uncommitted event |
| Telethon provider (TI) | page buffers, pending acknowledgements, an event loop thread | fetch, normalise, acknowledge | acknowledgement after a failed commit | nothing acknowledged that was not committed |
| Source chat administration (AP 22512-23380; PG 3847-4680) | registry rows and generations, admission origins, administrator screens | request, admit, reject, pause, re-enable, remove | registrations that overtake each other, controls confirmed on an outdated list, activations dropped, a restart between them | one answer per request, one live generation, no reuse of a removed one, every enabled chat collected |
| Source data deletion and retention (PG 7162-8436, 8437-8874) | requests, target sets, owner acknowledgements, tombstones, deadlines | request, decide, begin, acknowledge, retry, remind, sweep | targets captured while events are queued; owners answer in any order | nothing of a confirmed request survives or comes back |
| Conversation (AP; PG 12988-15825) | conversation revision, drafts, callbacks, administrator screens | one handler per screen | outdated callbacks, two updates of one user, a search completing meanwhile | no effect of an outdated screen |
| Result navigation and result conversation (PG 13561 f.) | the message that shows a result, turns answered by a model | next, back, expand, ask | edits that fail, turns that outlive the result | the shown result is the current one |
| Search, matching, completion (PG 11751-12988; `src/modules/domain`) | search requests, immutable snapshots, presented results | submit, evaluate, complete, present | Opportunities that change between evaluation and presentation | no suppressed Opportunity is presented as new |
| Exact-repost clusters (PG 17443-18830, 11035-11409) | clusters by text and date, members, moderation of a cluster, idempotency keys of its transitions | join, leave, elect, moderate together, time out, expire, pause | members that come and go while a cluster is under review, several Opportunities told by one transaction | at most one member is shown, the newest that may be, and no repost lifts a suppression |
| Classifier contract, artifacts, configuration; promotion; model adapters; locations and time zones; domain and contracts | none, or constants of a running system | validation, parsing, calls to a model | shapes of input, for which unit tests do | - |
| Runtime launcher, services, health; checkpoint bootstrap and recovery; migrations; assistant and classifier data; test kit | process state, schema | start, restart, replace a checkpoint | a process ended by any exception and restarted | - |

**How they interact.**  Ingestion sends `SourceEventRecorded` to the application;
the application sends `ClassifySourceMessageRevision` to classification, which
answers with `ClassificationProposal`; the application sends
`OpportunityPublicationChanged` to recommendation, which also serves the
search contracts of the application; Bot Assistant sends administration and
conversation commands to the application and presents what comes back.
Cross-role reads go through SECURITY DEFINER functions of the migrations
(`source_chat_revision_is_processable`, `source_message_replay_barrier`, ...),
so one role reads another role's rows without waiting for its contracts:
most of the subtle behaviours come from that.

**Processes.**  Each role is one process that loops over `process_next`
(RS 444-450; Bot Assistant RS 453-470; ingestion RS 473-545).  An exception a
handler does not catch ends the process, which leaves its lease behind;
systemd restarts it after five seconds, three times in five minutes.  The
code also tolerates several processes per role, which is why ContractQueue and
BotApiIngress are checked with two.


## 2. Plan

1. `ContractHandoff`, `ContractQueue`, proofs: done.
2. `SourceMessageLifecycle`, proofs: done.
3. `BotApiIngress`, proofs: done.
4. `BotMessageDelivery`, proofs: done.
5. `TelegramIngestion`, proofs: done.  It ends where the lifecycle's
   `CommitSourceEvent` begins: with the recorded event and its contract.
6. `ClassifierExecution`, proofs (in `ContractQueueProofs`): done.  It opens up the
   attempt that is one step of the lifecycle.
7. `ConversationOnboarding`, `ConversationSchedule`, proofs: done.
8. `SourceDataDeletion`, proofs (in `SourceChatAdministrationProofs`): done.
9. `SourceChatAdministration`, proofs: done.  Its registry is what the
   ingestion's `Enable` and the lifecycle's commands stand for.
10. `ExactRepostClusters`, proofs: done.  It opens up what the lifecycle, which has one
   message, cannot see: which of several equal messages is shown.
11. Open: the internals of search completion, retention clocks, the result
   conversation's turn.
12. Open proofs: none of a safety property that a run checks.

A module has one run, under fairness where something must happen, or two runs
where the cases need instances that would be too large together.


## 3. Modules

### ContractHandoff, ContractQueue, MCContractQueue

`ContractQueue` is the leased handoff of one consumer role.  `outbox`,
`cancelled`, `claim`, `inbox`, `emitted` and `alerts` are the rows; `stage`,
`work`, `lapsed` and `seen` are each worker's local state between its two
transactions.  `Claim` is `claim_next` (oldest claimable row, fresh lease);
`OpenToApply`/`OpenToRefuse` are the start of the second transaction, which
reads the inbox row FOR UPDATE; `AcceptConsumed` commits `consume` (a plain
INSERT), `AcceptOwned` commits `_begin_owned_contract` (an upsert), and
`RejectUnsupported`, `RefuseInvalid`, `Replay` the other ends.  Opening and
committing are separate steps because an absent row is not locked by the
SELECT: two openers may both have seen no row, and what saves them is a unique
key (`Conflict`).  `LeaseLapse` lets a worker outlive its lease unknowingly,
and `Finish` releases by row id, as the code does, whoever holds the claim.
`Upgrade` is the deployment that supports a newer contract version.  The sets
`Consumed`, `Emitting`, `Answered`, `Malformed`, `Conditional` and `Newer` say
how the code handles a contract, so one module stands for every contract name.
`ContractHandoff` is the abstract promise: sent, then applied at most once.

### SourceMessageLifecycle

One message and its Opportunity through ingestion, application, classification
and recommendation.  A revision is the r-th thing that happened to the message
on Telegram; `history[r].epoch` stands for its event time relative to the
chat's `processing_started_at`, which every re-enable moves.  Each queue holds
the unsettled contracts of a role whose handling ContractQueue covers; here a
claim and its transaction are one step, because each role is one process and
its handler's reads happen under locks its transaction holds, while a crash
(or an exception: `ConflictOnCreate`, `ConflictOnPause`) leaves the entry
leased, so that younger entries overtake it until `LeaseLapse`.  The attempt
of the classifier is one step too: it holds the session advisory lock
`source-message-lifecycle:<id>` from admission to record.  A pause cancels
queued work before it takes that lock; what a pause does that meets an attempt
under way (a deadlock) is in ClassifierExecution.
The searches are the operator `Searchable`.  `moderate_opportunity` has no caller
in a runtime role (only the test kit and the promotion probe call it) but is
part of the store's interface; `expire_moderation_reviews` runs in
`process_next`.

### BotApiIngress

The long-polling loop of Bot Assistant with Telegram's side of it: `kept` is what
Telegram would still deliver; asking from an offset makes it forget what is
below; a day without polls drops the oldest.  `poll_once` is split where
another process or a crash can come between: acquire the lease, deliver one
retention alert, read the checkpoint, getUpdates, register the gap, record the
poll, then per update check, claim, consume, complete, close the gap; then one
alert again.  `row` and `holder` are `bot_api_updates`; "stale" is a claim
older than five minutes.  `trouble` counts what goes wrong, a claim or lease that
runs out while its process is at work on it included.  An alert goes through claim, send or look-up, and
mark, with the delivery ledger reduced to `known`: a confirmed send is
remembered.  Update ids are consecutive numbers (the renumbering Telegram may
do after a week is what the evidence "week" is for: no id says anything then),
and updates that are not private messages count as handed over, since they
are claimed and completed alike.

### BotMessageDelivery

What one Bot User sees.  A row of `bot_message_outbox` is named by its
`sequence_id`, a Telegram message by the row that was sent to create it, so
that `shows[m] = r` after the edit `r` of message `m`; `view` is the row and
the message of `bot_active_chat_views`, `old` and `cleanup` are
`bot_old_chat_views`.  Every update is one action that commits the
conversation's new state with a row: it takes the place of whatever is not
delivered yet (`Queue` is the supersede and the INSERT), apart from a deletion
reminder (`Remind`), which supersedes nothing.  The updates kept are those
that differ in that pair: another screen (`OpenScreen`, for onboarding, menus,
editing), the search (`Submit`, `SearchCompletes`, `SearchFails`,
`StartAgain`), results (`OpenResults`, `RedrawResult`, `Ask`, `Navigate`), a
repeated screen (`Redraw`) and an update without effect (`Ignored`).  An update
that is handled goes on with `deliver_pending`, whose transactions and
requests are a step each: `Claim`, `Begin` (the ledger), the request and what
becomes of it (`Answered`, `Refused`, `Lost`), `Confirm`, then `MarkDelivered`
or one of the ways out, then the cleanup of one old view.  `Crash` ends the
process between any two of them, also inside a request that Telegram goes on
to perform; so do the exceptions of `Release`, `MarkUnknown` and `MarkRaises`
as far as this chat is concerned.  Bot Assistant is one process and the claims
of a chat are taken in the order of the rows, so there is one `pc`; `Age`
makes a claim that a dead process left behind older than five minutes.  The
account begins with its first screen delivered.


### TelegramIngestion

Ingestion from Telegram's streams to recorded events, `commit_source_event`
included.  `log` is what Telegram has to say per stream (the account's, which
the basic groups share, and one per channel); `ck` are the checkpoint rows and
`progress` the history rows; `page` and `work` are the provider's held page and
what the pump has fetched and not committed, both lost at an `End`.
`Difference` fetches the next event of a stream with the registry's state read
at that moment, `Commit` and `Pass` are the transaction that records or discards it
and moves the checkpoint if it was the last of its page; `History` and
`CommitHistory` do the same for the visible messages of a chat, oldest first.
`Resolve` answers an admission: it takes the boundary and inserts a channel's
checkpoint in the same transaction.  A process that starts before any chat is
registered publishes the seeds of the catalogue (`Seed`), which have a boundary
and no checkpoint.  The Application registers a chat in two steps (`ReadClock`,
then `Enable` with the clock it read), so events fall between them;
`Activate` is `SourceChatScopeActivated`.  `StopUnavailable`
(a channel without a checkpoint: a seed) and `StopUnapproved` (a chat enabled and
not yet activated) stop one stream, `ProviderFails` a chat, the account or the role;
`Bootstrap` gives the seeds their checkpoints and takes missing histories for
complete, `Recover` starts the channels that were stopped for want of one; they
are the administrator's tools and act while the process is down.  Simplified: a
removal is a pause for good, the events of a page come in the order they
happened, a deletion carries the time it was fetched.

### ClassifierExecution

The role at work on ClassifySourceMessageRevision contracts.  `row` is the
outbox with its lease, `attempts` and `work` are `classification_attempts` and
`classification_proof_work` per pass and candidate, `run` is the worker's
memory during one `process_next`.  Each model call is an admission (`Admit`), the
call, and a record (`CallFails`, `CallSucceeds`, `ProofFails`, `ProofSucceeds`,
with the whole that follows them before the next call).  `MayClaim`, `EmptyProbe`,
`ProbeFallsDue` and `CloseAuthentication` are the circuits.  A pause
of the chat is the Application's transaction cut where it waits: it holds the
queued rows (`pausing`) and needs the message's lock; the attempt holds that
lock and its record needs the row.  PostgreSQL ends one of the two
(`DeadlockEndsRole`, `PauseRollsBack`).

### ConversationOnboarding, ConversationSchedule, MCConversationOnboarding

One Bot User's account row and Discovery Draft row, and a handler per screen of
onboarding, the draft's core, menus, settings and results.  The two rows carry a
stage and a screen revision each; `inStep` says that the revisions agree, which
is what a handler's first test asks (`At`).  `pending` is the presentation that
waits in `bot_message_outbox`, superseded by every other commit (BotMessageDelivery has
what becomes of it); `context` is `bot_active_result_contexts`.  Searches leave
with the draft's core (`Submit`, `AnswerResultMessage`), Recommendation answers or fails, and
`AcceptSearchCompletion`/`AcceptSearchFailure` accept it wherever the user is by
then.  A draft may be found expired at `/start`, at any moment: its thirty days
are not counted.

ConversationSchedule says when the process does it.  `_run_bot_assistant` (RS 453-470)
handles what waits for the role (`Accepts`) before it polls; the handler of an
update ends with one `deliver_pending` (`Update`, then `Deliver` or `Keep`); the
handlers of a search's outcome call none, and `submit_search` neither (`Search`).
A queued result therefore waits for an update: of any Bot User, as
`claim_conversation_message` (PG:15825) takes the oldest row of the outbox
whosoever's it is.
MCConversationOnboarding gives three cities in two countries.

### SourceDataDeletion

A deletion request from decision to completion, beside a pipeline that carries
one message of the author with an edit, and beside a search.  `request`,
`targets` and `acks` are the request's rows, `scope` the commands to the five
owners and their events.  `Begin` is `begin_source_data_deletion_request`: targets
captured once, barriers raised, every owner asked to suppress; `Execute` is
`process_source_scope_command` of an owner and `Fail` the same with its savepoint
rolled back; `OwnerEvent` is `accept_source_data_deletion_event`, which asks for
the deletions when the last suppression arrives.  A contract or a row holds the
number of the revision its data was derived from, so "nothing is kept" is a
statement about numbers.  A row of the outbox that a scrub has hit is not `whole`
any more: an event still parses without its text, another contract is refused
(`Refuse`), and a publication of one Opportunity keeps its accepted facts
(`Scrub`).  `hand` is a role's memory between two
transactions: a model call, a claimed publication, a search's snapshot, results
read and not presented yet.  `confirmed` is the effective time of a start command
that waits in the Application's queue, `raced` and `overtaken` record the two
situations the properties except.

### SourceChatAdministration

The administrator, the Application's registry and Ingestion's scope.  `registry`
has a row per chat and generation; `queue` the unsettled contracts of Bot
Assistant, the Application and Ingestion, a claim and its transaction being one step as
in the lifecycle (`Crash` leaves a lease, `LeaseLapse` ends it).  A contract
keeps the request it serves and changes its type on its way:
"change" (ChangeSourceChatRegistry), "admission", "resolved" or
"admission_failed", then "changed" (SourceChatGenerationChanged) or "failed",
and "activated" beside it.  `stage`, `listed` and `asked` are the administrator's
screen: the list as it was drawn, with a control for each row (`Offered`), the
confirmation, the input of an address, the screen that waits.
`SubmitAddress` takes the next generation of all registrations, so that
generations of one chat have gaps and a younger request may
be resolved first (`Stale`).  `Start`, `PublishSeed` and `Serve` are
Ingestion's start, which publishes the seeds into an empty registry.  `id` stands for
the time at which the Application acts on a request, which is what `Activate`
compares.  `Revoke` starts a role again with another administrator.


### ExactRepostClusters, MCExactRepostClusters

The messages of one publisher in one chat.  A message has a text, a place in
the order of event times (`newer`) and one Opportunity, `row`; `member` and
`cluster` are the two tables of migration 0026, and a cluster's key is a text and
a date.  A step is a transaction of the Application, which works on a record
`db` of the rows: `Reconcile` is `_reconcile_exact_repost_cluster` with what
it tells Recommendation (`out`), `Arbitrate` is a proposal that leaves one
cluster (`Leave`) and joins another (`Join`), and `Commit` writes the rows,
unless the outbox refuses an idempotency key of `sent` that was used before.
`told` and `barred` are Recommendation's side; its queue is in order here,
because overtaken publications are SourceMessageLifecycle's subject.  A revision
has told nothing yet, so an edit clears `sent` of its message.
`AcceptCreate`, `AcceptEdit` and `AcceptDelete` are `accept_source_event`,
`PublishOpportunity` and `RecordRoutingOutcome` the ends of a proposal,
`ModerateCluster` and `ModerateOpportunity` an operator's decision, `ExpireReview`
and `CleanupExpired` the two sweeps.

## 4. Runs

| run | states | bounds | shows |
|---|---|---|---|
| `queue` | 257 k | 3 rows of the three kinds, 2 workers, 1 crash, fair | refinement of `ContractHandoff` (at most one effect per keyed row), no second answer under a lease that runs, everything settles |
| `lifecycle_moderated` | 2.2 M | 3 revisions, 3 commands (pause, re-enable), 1 decision, 1 crash of the Application, group | live is current, deletions honoured, rows never go back, an operator's suppression stands |
| `lifecycle_live` | 112 k | 3 revisions, 1 command (pause or removal), 1 edit of the reply target, 1 crash of another role, channel, fair | searches converge, an active Opportunity becomes searchable, everything is handled |
| `ingress` | 358 k | 2 processes, 3 updates or 2 and an outage, 2 troubles (crashes, failures, refusals, claims or leases that run out at work), fair | the offset passes what is not done only behind an earlier claim left behind, alerts shown once, losses alerted, updates handled or so passed, alerts settle |
| `delivery` | 1.5 M | 5 rows of which one is delivered, 1 reminder, 1 fault (crash, refusal or lost answer) | nothing sent twice, the current message kept and showing what the bot takes it to show, buttons accepted, rows settle |
| `ingestion_group` | 2.9 M | 1 group, 2 messages, 3 events in pages of 3, 1 pause, 1 failure, 1 end of the process | no checkpoint passes an event, no text of a deleted message comes back |
| `ingestion_channel` | 217 k | 1 channel, registered by the administrator or a seed, 1 message, 3 events, 1 pause, 2 ends, fair | a pause is not backfilled, messages are recorded in the end |
| `classifier` | 193 k | 1 revision, 2 candidates, 2 attempts, 1 crash, a pause and a deletion | calls within the budget, proofs of the stored output only, every command settled |
| `conversation` | 474 k | Intents of three families, 3 cities in 2 countries, 2 searches | submitted searches agree with themselves, presentations find their state, every submission has its draft back or its results queued, and shown if updates go on |
| `deletion` | 1.1 M | 1 message, an edit or a failed action, 1 search, 2 attempts | nothing of the author kept but the facts of publications that nobody can parse, found no more, later data kept |
| `administration` | 247 k | 1 chat, a seed, 3 requests, 1 crash or revocation, fair | a live row is its chat's newest, no screen waits for nobody, activations come, registrations are answered and enabled chats collected |
| `reposts` | 964 k | 3 messages, 2 texts, 2 dates, 3 events, 1 decision, 1 pause, 1 message past its freshness | at most one member of a cluster is shown, the newest, Recommendation agrees, no repost lifts a suppression |

Why these bounds.  In the queue, what matters is a row touched by two workers,
one of them late, and the kinds of row: two workers and one row of each kind
meet every pairing; the proofs remove the bound.  In the lifecycle the
overtakings need an older contract left behind by a crash, two that pass it,
and a chat command between: three revisions, a command, one crash.
Re-enable needs a pause before it, and suppression, re-enable, second pause
need three commands and a decision.  In the ingress, two claims left behind and a later
update that is done are three updates and two troubles, crashes or claims and
leases that run out under a process at work; an alert needs an outage, its
interruption a crash or a claim that runs out, and that another process takes it over a lease
that runs out too: two troubles.  An outage takes the place of the third
update (with both, the safety properties hold in 2.0 M states).  In the delivery, a row can be overtaken while it waits
or while its outcome is unknown, an edit needs a result to edit and may need a
row to replace it: the first screen, a result, an edit, its replacement and a
younger screen are five rows.  One fault interrupts or spoils any one step;
a second matters where the recovery of the first is interrupted, which the
proofs cover for the safety properties.
In the ingestion a message's create, edit and deletion, or two messages with an
event of one of them, are three events; a page of three holds them all, so that an
end of the process or a pause falls before, within and after a page; every code
path tells groups and channels apart, and each has its run.  The classifier's
budget of two stands for three: one attempt spent by a crash and one left are
what the cases differ by, and two candidates make a partial failure.  In the
conversation the families game, player and coaching differ in what a search
needs (a number, a date, neither); three cities in two countries are another
city of the same country and one of another.  In the deletion the second
revision is the edit that may fall before, on or after the effective time; a
search has to be cut by the beginning in each of its three transactions.  An
edit and a failed action are not combined (`MaxTrouble`), owners' events are
accepted one by one (`MaxWaiting`), and one command at most is left over from a
failed attempt when it is retried (`MaxLeft`): the five owners in two phases are
3^10 interleavings without them.  With `MaxTrouble = 2` and `MaxLeft = 0` the
same properties hold in 7.0 M states.  In the administration a chat that is
removed and registered again takes three requests, and so do a pause, a re-enable and another
pause; two registrations in flight and a control beside them too.  Chats meet
only in the number of the next generation, whose gaps the proofs cover: they
are for any chats.  With two chats the safety properties hold in 1.4 M states.
Reposts need a cluster of two, and a third message that joins it, leaves it or is
placed between them; three events make three reposts, or two of which one is
edited or deleted; proposals, which may put a message into another cluster, are
not counted.  One decision suppresses or approves what the others meet; one
stale message lets the next in turn take over.

Deadlock is checked in the delivery, where an update can always come; in the
other models everything may be handled and nothing happen any more.

**Fairness.**  The pumps loop for ever and systemd restarts them, so each
worker step, `Application`, `Classification`, `Recommendation`,
`CommitSourceEvent` and `Poll` is weakly fair; time passes, so leases lapse,
claims age (30 s, 180 s or five minutes) and the upgrade of a release is
rolled out.  Nothing obliges a producer, Telegram, an administrator, an
operator, a failure, an outage or a crash, and crashes are bounded: systemd
gives up after three restarts in five minutes, so a process that keeps dying
is not a run these properties promise anything about.  Fairness of `Poll`
rests on the other work of Bot Assistant running dry now and then:
`_run_bot_assistant` (RS 453-470) polls only when `process_next` and
`present_next` found nothing.  In the delivery, `Deliver` is weakly fair (the
handler goes on, or the process has ended), so is `AnswerSearch` (the
lifecycle's pumps answer), and `Age` is strongly fair, because it is stated
for the moments between updates while its clock runs through them.  Nobody has
to write to the bot: `Settles` takes further updates as its premise, since
`deliver_pending` is only called by them.

In the ingestion, systemd restarts the process, the pump turns to every stream
in its turn, and the Application goes on with what it has begun.  Weak fairness
is enough here, as what comes between the turns of a stream is bounded; the
administrator owes no bootstrap, so `EventuallyIngested` speaks of streams that are not
stopped.  In the classifier, the pump loops, a call ends (the adapter has a
timeout), time passes (leases lapse, a probe falls due) and a pause whose locks
are free commits; nothing obliges the operator to close a circuit.  In the
conversation, Recommendation answers each search, the queue is drained before
each poll (strongly fair: updates come between), a call of `deliver_pending`
ends, and Telegram confirms in the end what it is sent again and again.  Nobody
has to write to the bot.  `Answered` therefore says that the draft comes back or the
results are queued; that they are shown, under the premise that no result waits
for ever without an update.  Without that premise TLC finds the run in which the
result stays queued (*Result unshown*, section 6).  `Answered` excepts
the searches in `lost`, whose presentation a later screen superseded.  In the
administration the three pumps loop, leases lapse and Ingestion, once down, is
started again; the administrator owes nothing.  The
deletion states no liveness.


## 5. Proofs

TLAPS checks every obligation of the eight modules whose names end in
`Proofs`, under the ASSUMEs of the modules alone (`QueueAssumption`,
`LifecycleAssumption`, `IngressAssumption`, `DeliveryAssumption`,
`IngestionAssumption`, `ConversationAssumption`, `AdministrationAssumption`,
`RepostAssumption`: types of the constants, disjoint kinds and names), for any
number of rows, workers, revisions, updates, reminders, faults, messages, pages,
intents, cities, searches, chats and requests; a premise of a single theorem is named
with it.

- **Queue.**  The base invariant `Base` is TypeOK, WorkInv (a worker that is
  not idle works on a committed row, of a kind its stage allows) and LockInv (a status read
  FOR UPDATE still stands until its reader is done).  *EffectsAtMostOnce* is
  not inductive: `EffectInv` adds the evidence each effect leaves (the
  accepted inbox row of `consume`, the follow-up with a derived key of an
  owned transition), against which the second commit fails.  For one process
  per role `SingleInv` adds that nothing it works on is settled, which gives
  *OneAnswer* and *SettledForGood*.  *LeaseExclusive* needs `LeaseInv`: a
  worker whose lease has not lapsed owns the row's claim unless the row is
  retired.  *OneAnswerUnderLease* follows from `AnswerInv` (what was answered is
  settled, and what is settled stays unclaimed by whoever holds its lease):
  with two processes a row may be answered twice, never by a worker that still
  holds the lease.  *ImplementsHandoff* puts them together: every step is a Send, an
  Apply or a stutter of `ContractHandoff`.
- **Lifecycle.**  `IInv` is TypeOK, HistoryInv (epochs grow with the history),
  EventsInv (a queued event is about something that happened), RowsInv
  (opportunity at most at the message's revision, which is at most the
  history's), RouteInv (a usable response route dates from after the last
  re-enable) and LiveIsCurrent.  RouteInv is what makes a moderator's approval
  after pause and re-enable safe, and the least obvious part.  From `IInv`
  follow *LiveIsCurrent* and the action property *NeverGoesBack*.
  *DeletionHonoured* needs RecordInv: what is recorded lies below the
  checkpoint, nothing happens to a message after its deletion, and the row at
  the deletion is a tombstone.  *RevisionsDecidedOnce* and *SuppressionStands*
  need WorkInv, that the work for a revision is in one place (a contract, a
  process or a proposal), nowhere once it has an outcome or before the message
  came to it, and ActiveUnsaid, that an active row still has nothing said
  against it.  *SearchConverges* needs ProjectionInv: the revision the
  Opportunity has come to is known to Recommendation or on its way there, and what
  is shown is no further than it.  The last is proved for `MaxDecisions = 0`,
  as the live run has it: an operator may approve a revision whose
  classification is not decided yet, which ProjectionInv excludes.
- **Ingress.**  `IngressInv`: Telegram still has what waits, and nothing
  later than an update that waits and was never handed out has been handed out
  (KeptInv); of what a poller holds (BatchInv), no waiting update below one of
  its answer is missing that was not handed out, and none at all while that
  answer may still move the offset.  *OffsetWaitsForClaims* follows: the offset
  moves in `Complete` and `Register` only, `Register` stops at the first update
  of its answer, and `Complete` passes an update above its own that was handed
  out.  `LossInv` adds
  that a loss no alert covers is one the next poll will see, its offset being at or
  below it and the evidence being there, or one that pollers have just seen, and gives
  *LossesAreAlerted*.  All hold for any number of processes and
  crashes.  `AlertInv`, that a pending alert was
  never shown and has no sender and that one poller at most claims a send, gives
  *AlertsAreShownOnce*.
- **Ingestion.**  `IngestionInv` relates what the checkpoint has passed, the
  page held and the rows.  *NoEventIsPassed* is not inductive, since a page's last
  event moves the checkpoint past all that the page left out: PassedKept says
  it of what a page *will* pass, PageShape that a page is made of results beyond the
  checkpoint of which only the newest moves it, PageClosed that a page with one
  event of a chat has all later ones up to its end.  *ScrubbedForGood* needs
  to know that a deleted message is not read again: DeletedSettled says that
  each text of it beyond the checkpoint is recorded, tombstoned or too old to be
  accepted (`Settled`), because a deletion is the last event of its message
  (LogFits) and what a page passed before it was handled (PageHandled).  An
  event may have been dropped because nothing was known of its message
  (`Unheard`); lemma AcceptedIsHeard has it that nothing later of that message
  is accepted then, until the history brings it, by which time HistoryFits
  has the edit too old.  *PausesStayGaps* needs RegFits: the clock of a
  re-enable is read after the pause.  Lemma MovesStep is shared by whatever moves
  a checkpoint.
- **Delivery.**  `DeliveryInv` carries the state properties together with what
  they rest on.  *SentOnce* needs LedgerInv: the ledger says "attempting"
  before Telegram sees a request, and a record that allows another attempt
  belongs to a row never sent.  *CurrentKept* and *ActivatedAsShown* need
  MessageInv (a message that is edited, shown, left or deleted belongs to a
  confirmed row, which can neither be sent nor claimed again) and ShownInv (a
  waiting row that Telegram confirmed is still what its message shows).  Both
  lean on OrderInv: of two screens the older one is superseded or confirmed,
  so that no edit waits beside another; *ScreensGoForward* follows from it.
  *ResultAwaited* is inductive with it, because whatever leaves the stages of
  a search supersedes its result.  *ControlsAnswer* needs ControlInv: while no
  reminder has been queued, the one row that waits carries the account's
  revision or brings its own.
- **Classifier.**  `ContractQueueProofs` instantiates ClassifierExecution as `C`
  beside the leases its processes work under; the theorems have the
  hypothesis `C!ClassifierAssumption`, which is what that module assumes of its
  constants.  `ExecutionInv` is ExecutionTyped, CallsCounted (the calls of a pass
  are its numbered attempts, and none is numbered beyond the budget), WorkKept
  (what is kept between two runs is the output of the second pass, which
  succeeded last, with proofs made for it) and RunInv (what a run holds in
  memory are attempts that were admitted, the output they led to, and the key of
  a call that fits them).  *BudgetKept* and *ProofsOfTheOutput* follow.
- **Conversation.**  `ConversationInv` is TypeOK, Explicit (no screen beyond
  the language without a chosen one), `Held(draft)` (what the draft holds at
  each stage), InStep, LeftAtDirections, PresentationHasState, Presentable
  (what waits may follow what is shown) and SearchesAgree.  *SearchesAgree* is
  not inductive: a search takes its core from a draft that was edited in any
  order, so `Held` says of every stage which of its parts agree with each other
  and which are cleared.  PresentationHasState needs LeftAtDirections: only a
  draft at the directions may be left for a screen on which a result waits.
  *ResultsGoOn* follows from Presentable and from the submitted draft's search
  being the latest.  *ScheduleRefines* says that ConversationSchedule
  only chooses among these steps, so all of it holds there.  Two lemmas, CommitGood and ShowGood, carry what every
  handler has in common.
- **Administration.**  The queues are read through `InFlight`, and lemma *Kept* says
  who takes a contract out of it.  With TypeOK, *LiveIsNewest* is
  inductive: a row is only inserted above every other, which are removed with
  it.  *RemovedForGood* follows from the same lemma on rows (RowStep).
  *ActivationComing* needs LiveIsNewest, since the enabled row
  must be the one the boundary query finds, and so does *ListedTrue*: a
  registration changes no listed row, because it meets none that is live.
  ListedTrue also needs ListedExists (what is listed has a row).
  *PendingAnswered* is inductive by itself: whoever takes a registration sends
  another contract of it, and the bot's consumption ends the wait.
- **Deletion.**  An instance `D` of SourceDataDeletion in
  `SourceChatAdministrationProofs`; the theorems have the hypothesis
  `D!DeletionAssumption`, which is what that module assumes of its constants.
  *NothingKept* is about the end of a protocol and needs `DeletionInv`, which
  says what holds on the way.  Typed, CarriesOwn (a contract and a process hold
  the revision they are about, but for a supersession) and InOrder carry the
  rest.  Untouched and Known are about the time before execution begins: nothing
  is missing, nobody has what was not read, and what is published has an
  Opportunity, which an edit from after the confirmed time takes over only if
  `overtaken` says so; so the beginning captures all there is.  Bounded is about
  the time after it: what anybody has from before the boundary is targeted, and
  the Opportunity is a target when anything targeted is published.  Promised says
  that what the commands, events and acknowledgements tell of an owner is so
  (Hidden after its suppression, when a publication that still carries something
  targeted is one nobody can parse; Cleared after its deletion) and stays so: the
  barriers let nothing targeted in, and the deletions begin when all have
  suppressed, so no contract brings back to one owner what another still held.
  The screens need more, as Bot Assistant is told which ones to clean: ScreenInv
  (a search that holds something targeted is raced or listed) and OrdersInv (in
  an attempt it is told once, and of all that are listed).
  *FoundNoMore* follows from Bounded and from the part of Promised about an
  Opportunity that has moved on, *LaterKept* from the types and Untouched.

- **Reposts.**  `RepostInv` is stated on the record `Db` of a transaction's tables, so that
  each step of a transaction (Reconcile, Leave, Join, Commit) is shown to preserve it
  by a lemma of its own and the actions compose them: Fits, that a cluster has
  one active member at most and a withheld one has none, whence *OneIsShown*;
  Elected, that what is shown is the representative and that while the
  representative stands the newest candidate is what is shown, whence
  *TheNewestIsShown*; Placed, that the order of events is total on the messages heard
  of, without which a newest member need not exist.  *SearchesFindTheActive* needs
  the versions of an Opportunity to grow, so that a transaction's outbox key is
  never one already sent; *ModerationIsFinal* is NothingLifted of the same steps.

Some results no run repeats, because a run's time goes to what is not proved:
the TypeOKs, EffectsAtMostOnce, LeaseExclusive, OneAnswer, RejectionsAlerted,
SettledForGood, ScreensGoForward, ActivatedAsShown, ResultAwaited, GivenUpUnknown, InStep,
LeftAtDirections, ResultsGoOn, ListedTrue and RemovedForGood.

Only model-checked: liveness, which is out of the prover's reach.


## 6. Where the code and its documents disagree

What follows was met while modelling and is kept out of the properties by a
stated premise or bound; the models reproduce each of them with the premise
taken away.

- *Create after edit.*  A crash of the Application lets an edit be accepted
  before its create, whose plain INSERT then fails for ever (PG:6620;
  `docs/adr/0001-use-a-durable-model-classification-service.md`:40):
  `lifecycle_live` lets the other roles crash.
- *Stale publication.*  A publication overtaken after a crash of
  Recommendation undoes a moderator's suppression (PG:11516;
  `docs/product/opportunity-publication-lifecycle.md`:322).
- *Abandoned claims.*  With two claims left by dead processes and a higher
  update completed meanwhile, completing the lower of them moves the offset past
  the other, which no consumer gets again (BA:1543): a claim left behind is
  to block the offset until it is retried (`tests/unit/test_bot_api.py`:465).
  The run reaches it; `OffsetWaits` says that it is the only way, and
  `EventuallyHandled` excepts the updates so passed.
- *Result unshown.*  The result of a completed search is queued and nothing
  delivers it until some Bot User writes again (PG:14848, RS 453-470;
  `docs/product/opportunity-fields-and-discovery-details.md`:469).  `Answered`
  has further updates as its premise because of it.
- *Late deletion.*  A deletion recorded before a pause and consumed during or
  after it is accepted without effect (PG:6490): `DeletionHonoured` speaks of
  a chat not re-enabled since.  `docs/adr/0006-bound-source-identity-and-data-lifecycles.md`:41
  wants suppression immediately.
- *Early approval.*  An operator may approve a revision whose own
  classification is not decided yet, because the row moved to it from an older
  revision (PG:11093; opportunity-publication-lifecycle.md:305).
- *Reactivation.*  Recommendation suppresses for good what a chat suppressed
  once, so that a re-published Opportunity stays unfound (PG:19384;
  opportunity-publication-lifecycle.md:48): `lifecycle_live` has one command.
- *Pause lag.*  The search asks for the chat's state now (PG:11805), so that a
  pause hides at once, and a re-enable shows at once whatever Recommendation
  still holds active until its publication arrives
  (source-chat-administration.md:180).
- *Reply context.*  A proposal computed with an older revision of the reply
  target is consumed and dropped (AP:21703) without another attempt, so that
  the revision is never decided (classification-pipeline.md:207).
- *Second pause.*  A second pause of an Opportunity that an operator
  suppressed in between reuses an idempotency key, and its contract is never
  applied (PG:19187; source-chat-administration.md:167): `ConflictOnPause`, and
  `EventuallyHandled` is checked with one command.
- *Lost suppression.*  The proposal of a revision overwrites an operator's
  suppression made before that revision's classification was decided (PG:10687;
  opportunity-publication-lifecycle.md:307): `SuppressionStands` speaks of
  decided revisions.
- *Admission answered twice.*  An admission request refused for its version is
  answered with a failure, and answered again by the next release, where a
  second failure has the key of the first (PG:11654;
  `tests/system/test_source_chat_administration.py`:1859): `OneAnswerUnderLease`
  and `EventuallySettled` leave those rows out.
- *Stuck offset.*  An incomplete update that Telegram has dropped holds the
  offset for ever (BA:1544): `EventuallyHandled` of the ingress speaks of runs
  in which nothing is dropped.
- *Offsets as evidence.*  After a week without updates Telegram goes on with
  random ids, possibly below the offset (BA:2833), and an offset of 0 is no
  evidence, so that an outage before the first completed update passes without
  an alert (BA:2824).
- *Lost result.*  While a search is being answered, an outdated control
  repeats the current screen and supersedes the queued result: the account
  stays submitting (PG:13326), and a result that was given up keeps `/start`
  deferred (PG:14681).  `ControlsAnswer` leaves that stage out.
- *Edit of a lost target.*  An edit that Telegram performed, whose
  confirmation was interrupted and whose target a reminder replaced meanwhile,
  raises on each attempt until something supersedes it (PG:16193): `Stuck` in
  `Settles`.
- *Reminders.*  A deletion reminder that waits is superseded by the next
  screen and so never sent; one that is sent replaces the administrator's
  current screen and cleans it up (PG:16431, PG:16219): `ControlsAnswer` speaks
  of accounts without them.
- *Orphans.*  A send whose answer is lost and that is superseded leaves a
  message nobody cleans up; a process that ends between the claim and the
  ledger's first record leaves a row that is given up and was never sent
  (AP:10407).
- *Arrow pressed again.*  The press of an arrow whose undelivered edit was
  superseded reuses its `delivery_id`: the INSERT fails at every hand-out of
  that update (PG:13507).  `Navigate` is the presses that commit.
- *Repeated edit.*  An edit that had arrived and is repeated is refused ("not
  modified"), and the card is sent as a message of its own (BA:2556).

Ingestion:

- *Seeds without a checkpoint.*  A channel of the seed catalogue has no
  checkpoint, so its stream is stopped as soon as it is enabled (AP:18647;
  `docs/product/source-consent.md`:40), until the administrator's bootstrap and recovery,
  which want a scope of channels only: seeds beside a group stay stopped.
  Recovery also wants every channel of the scope to have been stopped for this
  reason, so one channel registered by the administrator, whose checkpoint comes with its
  admission, keeps the seeds beside it stopped; bootstrap refuses
  a scope in which a history is under way.
- *Enabled before activated.*  A chat that is enabled and whose activation has not
  been consumed stops its stream, the account's included, when it is pumped.
- *Held page.*  A refused registration leaves the chat admitting, and its page
  blocks the account's stream until a restart or another activation; a stopped
  group does so at its next event.
- *Dropped edit.*  An edit in a page that began before the boundary of a group
  whose message was not known is dropped, and the history skips it.
- *Clock and commit.*  Events between the Application's reading of its clock and
  its registry commit can be passed.
- *Conflict on replay.*  Replaying a page with a create and a deletion that
  scrubbed it raises OutboxConflictError until the Application has tombstoned the message.
- *Backfill.*  The seven days of history before registration are read, where
  `docs/product/source-chat-administration.md` has "Do not backfill earlier
  visible history".

Classifier:

- Refusals for quota and authentication, crashes and deadlocks use up the same
  three attempts, so an open quota circuit can exhaust a job
  (`docs/product/classification-pipeline.md`:344); exhaustion publishes nothing
  and alerts nobody.
- A claim that finds no row uses up the probe of an open circuit and delays the
  next one (PG:8907); a circuit may be closed without a successful call.
- While the authentication circuit is open, SourceMessageDeleted contracts wait
  as well.
- A pause that meets an attempt deadlocks with it, and may end the role's process.

Conversation:

- Changing the intent keeps details, number and prompts
  (`docs/product/onboarding-flow.md`:178, 180): details leak into a later search of
  the same family, and a number from a player search makes a later game search
  raise (AP:5812).  A change of country or city keeps exact times (187, 198).
- A required date that has passed does not stop a submission; an open prompt
  survives `/start` and takes another family's text; a number that is none raises.
- A refinement whose answer arrives after the user went on is discarded, its
  failure told to nobody; free text in the results is not answered while a draft
  is paused.
- At SUBMITTING, drawing the screen again while the result waits supersedes it
  (`lost`); only thirty days of inactivity end that.
- A redrawn screen without results carries the next screen revision while the
  account keeps its own, so that "new search" only draws it again until "Menu"
  (AP:10247).

Deletion:

- *Overtaking edit* (`overtaken`).  An edit from after the effective time that is
  accepted before the Application's deletion takes the Opportunity over with the
  older revision's facts (PG:17288): published under a revision no barrier
  names, they outlive the completed request; accepted between confirmation and
  beginning, the Opportunity is not captured at all.  Where it is captured, the
  owners delete by Opportunity, the edit's own included, while
  `docs/product/source-author-data-lifecycle.md`:239 keeps later messages
  eligible; `tests/system/test_source_data_deletion.py`:1342 looks at the body only.
- *Search race* (`raced`).  A search evaluated when execution begins is not
  captured; its card stays on the screen, marked as unavailable.
- A captured search's SearchCompleted is neither accepted nor released (AP:8181):
  its contract is claimed again for ever, and its user stays submitting.
- *Scrubbed publications.*  Of a publication of one Opportunity, the supersession
  by an edit included, `_scrub_source_scope_outbox` takes evidence and response
  route only (PG:19987).  The row can be parsed no more, but the accepted facts are
  still in `contract_outbox` when the request is completed, where
  `docs/product/source-author-data-lifecycle.md`:234 removes derived data within
  30 days.  `NothingKept` excepts exactly these rows.

Administration:

- *Second username of a seed.*  Generations are numbered by the registrations of
  the bot, and the seeds have generation 1, so the first registration of the
  bot is stale if its address resolves to a seed, and is answered as failed
  (PG:3893, `src/modules/source_chat_bootstrap/__init__.py`:375), where
  `docs/product/source-chat-administration.md` has "A second username or invite
  that resolves to the same stable chat ID updates only the current address".
- *Interrupted seeds.*  Bootstrap wants an empty registry.  A process that ends
  between two publications, the first of which is registered before it starts
  again, leaves the other seeds unpublished for good (RS:145;
  `source_chat_bootstrap/__init__.py`:389 "Resolve and publish all approved seeds
  before the runtime reads scope").
- A new address of a paused chat is applied, and its result, which names
  a row that is not enabled, is shown as a failure.
- The screen that waits takes the result of an earlier registration for its own.
- A registration sent before a removal and resolved after it registers the chat
  again.
- A registration whose result arrives on another screen is consumed without a
  word, so that a list on display lacks the new chat until it is drawn again:
  `ListedTrue` speaks of listed chats.
- The result of a control draws the list anew without asking whether the account
  is still the administrator's (AP:4676).

## 7. Not modelled, and why

Grants, row-level security and credentials; the shape of payloads and their
validation (a contract is malformed or not); the text of messages; model
calls (an attempt has an outcome); ranking and matching; migrations other
than the functions the handlers call; offline tools.  Components left out are
listed with their reasons in `PROJECT.json`.  Across the models:
retention clocks and
reminders, the administrator's screens but those of Source Chats.  In the
administration: which address a row has, a peer whose
registration is malformed, the classifier context of a chat.  In the lifecycle: several Opportunities
per message, freshness expiry.  In the ingestion: the lower end of the history
window, protected content, the author's deletion barrier (SourceDataDeletion has
it).  In the classifier: what outputs say and how their provenance is checked.
In the conversation: optional criteria but Number of Players, the model's turn on
a result, the position within results.  In the deletion: other messages' reply
contexts, the order of events (SourceMessageLifecycle has it).  In the
repost clusters: messages with several propositions (their Opportunities join
several clusters in one transaction), messages without a publisher or text, which
are never clustered, the "hold" decision, which only the test kit makes, the
renewal of a cluster's freshness, the clusters a source data deletion touches,
and publications cancelled by a pause.  In the delivery:
answers to callbacks, the failure alarm, replacing a revoked administrator, the
deletion barrier, empty results and refined searches; a request of a dead process
that Telegram performs after the process is restarted.
