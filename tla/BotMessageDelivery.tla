-------------------------- MODULE BotMessageDelivery --------------------------
(***************************************************************************)
(* How Bot Assistant shows one Bot User its screens.  A handler commits    *)
(* the conversation's new state with a row of bot_message_outbox, and      *)
(* deliver_pending then sends the oldest row, or edits the message it      *)
(* targets, through the ledger bot_api_delivery_reconciliation, and makes  *)
(* it the active chat view; the view it replaces is cleaned up.  Telegram  *)
(* may refuse a request or leave its outcome unknown, and the process may  *)
(* end between any two transactions.                                       *)
(*                                                                         *)
(* A row is named by its sequence_id and a Telegram message by the row     *)
(* that was sent to create it, so that an edit shows one row in the        *)
(* message of another.                                                     *)
(***************************************************************************)
EXTENDS Naturals, FiniteSets

CONSTANTS
    MaxRows,       \* bound on rows of the outbox
    MaxReminders,  \* bound on deletion reminders (to the administrator only)
    MaxFaults      \* bound on crashes, refused requests and lost answers

ASSUME DeliveryAssumption ==
    /\ MaxRows \in Nat \ {0}
    /\ {MaxReminders, MaxFaults} \subseteq Nat

VARIABLES
    queued,        \* rows 1..queued are in the outbox
    row,           \* of each row: kind, screen_revision, message to edit
    status, claim, \* delivery_status; claimed, and more than five minutes ago
    superseded,    \* rows whose superseded_at is set
    ledger,        \* delivery_status of the ledger's record
    sends,         \* how often Telegram performed a row's send
    shows,         \* the row each message shows
    deleted,       \* messages deleted from the chat
    view,          \* bot_active_chat_views: the row and its message
    old,           \* bot_old_chat_views: of a row, the message it left
    cleanup,       \* cleanup_status of old
    stage, screen, \* bot_users
    context,       \* the row whose result is the Active Result Context
    search,        \* has the last submitted search still to be answered?
    pc, at,        \* where deliver_pending is, and with which row
    reminders, faults

outbox       == <<queued, row, status, claim, superseded>>
chat         == <<sends, shows, deleted>>
views        == <<view, old, cleanup>>
conversation == <<stage, screen, context, search>>
work         == <<pc, at>>
bounds       == <<reminders, faults>>
vars         == <<outbox, ledger, chat, views, conversation, work, bounds>>

Rows     == 1..MaxRows
Messages == Rows
None     == 0        \* no row, no message
NoRow    == [kind |-> "screen", rev |-> 0, target |-> None]

Kinds    == {"screen", "search", "edit", "reminder"}
Statuses == {"pending", "attempting", "unknown", "given_up", "confirmed"}
Steps    == {"idle", "deliver", "begin", "request", "confirm", "mark", "refused",
             "unknown", "lookup", "clean", "delete", "cleaned"}

(* The account has its first screen.                                       *)
Init == /\ queued = 1
        /\ row = [r \in Rows |-> IF r = 1 THEN [NoRow EXCEPT !.rev = 1] ELSE NoRow]
        /\ status = [r \in Rows |-> IF r = 1 THEN "confirmed" ELSE "pending"]
        /\ claim = [r \in Rows |-> "free"]
        /\ superseded = {}
        /\ ledger = [r \in Rows |-> IF r = 1 THEN "confirmed" ELSE "none"]
        /\ sends = [r \in Rows |-> IF r = 1 THEN 1 ELSE 0]
        /\ shows = [m \in Messages |-> IF m = 1 THEN 1 ELSE None]
        /\ deleted = {}
        /\ view = [row |-> 1, msg |-> 1]
        /\ old = [r \in Rows |-> None]
        /\ cleanup = [r \in Rows |-> "none"]
        /\ stage = "browsing" /\ screen = 1 /\ context = None /\ search = "idle"
        /\ pc = "idle" /\ at = None
        /\ reminders = 0 /\ faults = 0
-----------------------------------------------------------------------------
(* The outbox.                                                             *)
InOutbox    == {r \in Rows : r <= queued}
Undelivered == {r \in InOutbox : status[r] # "confirmed"}
Current     == Undelivered \ superseded
IsEdit(r)   == row[r].kind = "edit"
Presents(r) == row[r].kind \in {"search", "edit"}
Message(r)  == IF IsEdit(r) THEN row[r].target ELSE r

SupersededNow == superseded \cup Undelivered

(* Every edit may need one more row to replace it.                         *)
Room == queued + 1 + Cardinality({r \in Current : IsEdit(r)})

Insert(kind, rev, target) ==
    /\ queued < MaxRows
    /\ queued' = queued + 1
    /\ row' = [row EXCEPT ![queued + 1] =
                   [kind |-> kind, rev |-> rev, target |-> target]]
    /\ UNCHANGED <<status, claim>>

(* A new presentation takes the place of whatever was not delivered.       *)
Queue(kind, rev, target) ==
    /\ Room + (IF kind = "edit" THEN 1 ELSE 0) <= MaxRows
    /\ Insert(kind, rev, target)
    /\ superseded' = SupersededNow

(* A screen whose buttons the Bot User may have pressed.                   *)
Pressable == \E r \in InOutbox : row[r].rev = screen /\ sends[r] > 0
-----------------------------------------------------------------------------
(* Updates of the Bot User: each handler ends with deliver_pending, except *)
(* the submission of a search.                                             *)
Handled == /\ pc = "idle"
           /\ pc' = "deliver"
           /\ UNCHANGED <<at, ledger, chat, views, bounds>>

(* A handler that moves to another screen of the account.                  *)
OpenScreen ==
    /\ Handled
    /\ stage # "submitting"
    /\ Queue("screen", screen + 1, None)
    /\ stage' = "browsing"
    /\ screen' = screen + 1
    /\ UNCHANGED <<context, search>>

(* submit_search: the Search button of the post-core screen.               *)
Submit ==
    /\ pc = "idle"
    /\ stage = "browsing" /\ Pressable
    /\ search = "idle"
    /\ stage' = "submitting"
    /\ screen' = screen + 1
    /\ search' = "running"
    /\ UNCHANGED <<outbox, ledger, chat, views, context, work, bounds>>

(* /start while the search is running; a result that is already queued has *)
(* precedence (defer_start_to_pending_search_result).                      *)
StartAgain ==
    /\ Handled
    /\ stage = "submitting"
    /\ ~\E r \in Current : Presents(r)
    /\ Queue("screen", screen + 1, None)
    /\ screen' = screen + 1
    /\ UNCHANGED <<stage, context, search>>

(* "Search results" of the Main Menu.                                      *)
OpenResults ==
    /\ Handled
    /\ stage = "browsing" /\ Pressable
    /\ context # None
    /\ Queue("search", screen + 1, None)
    /\ stage' = "results"
    /\ screen' = screen + 1
    /\ UNCHANGED <<context, search>>

(* An outdated control shows the current result once more: pressed on the  *)
(* card under the same context's revision, otherwise under the next one.   *)
RedrawResult(rev) ==
    /\ Handled
    /\ stage = "results"
    /\ Queue("search", rev, None)
    /\ UNCHANGED conversation

(* Outside of the results the desired payload of the screen is repeated,   *)
(* if there is one (current_conversation_message).                         *)
Redraw ==
    /\ Handled
    /\ stage # "results"
    /\ \E r \in InOutbox \ superseded : row[r].rev = screen
    /\ Queue("screen", screen, None)
    /\ UNCHANGED conversation

(* A reply of the result conversation.                                     *)
Ask == /\ Handled
       /\ stage = "results"
       /\ Queue("screen", screen, None)
       /\ UNCHANGED conversation

(* An arrow of the active card; each of the two targets of a screen has    *)
(* one delivery_id.  A target that waits already is Ignored.               *)
Navigate ==
    /\ Handled
    /\ stage = "results"
    /\ row[context].rev = screen
    /\ row[view.row].rev = screen /\ Presents(view.row)
    /\ Cardinality({r \in InOutbox : IsEdit(r) /\ row[r].rev = screen + 1}) < 2
    /\ Queue("edit", screen + 1, view.msg)
    /\ UNCHANGED conversation

(* An update that changes nothing: a duplicate, or an ignored control.     *)
Ignored == Handled /\ UNCHANGED <<outbox, conversation>>
-----------------------------------------------------------------------------
(* Contracts that process_next consumes: no delivery follows.              *)
Consumed == pc = "idle" /\ UNCHANGED <<work, ledger, chat, views>>

SearchCompletes ==
    /\ Consumed
    /\ search = "running" /\ stage = "submitting"
    /\ Queue("search", screen + 1, None)
    /\ search' = "idle"
    /\ UNCHANGED <<stage, screen, context, bounds>>

SearchFails ==
    /\ Consumed
    /\ search = "running" /\ stage = "submitting"
    /\ Queue("screen", screen + 1, None)
    /\ search' = "idle"
    /\ stage' = "browsing"
    /\ screen' = screen + 1
    /\ UNCHANGED <<context, bounds>>

(* accept_source_data_deletion_reminder supersedes nothing.                *)
Remind ==
    /\ Consumed
    /\ reminders < MaxReminders
    /\ reminders' = reminders + 1
    /\ Room <= MaxRows
    /\ Insert("reminder", screen, None)
    /\ UNCHANGED <<superseded, conversation, faults>>
-----------------------------------------------------------------------------
(* deliver_pending: the claim.                                             *)
Goto(step) == /\ pc' = step
              /\ at' = IF step \in {"idle", "clean"} THEN None ELSE at

Take(r, step) == at' = r /\ pc' = step

(* Mutant: a row whose outcome is unknown is left to its age.              *)
ClaimableUnlessReleased(r) ==
    /\ r \in Current
    /\ \/ status[r] = "pending" /\ claim[r] = "free"
       \/ status[r] \in {"attempting", "unknown"} /\ claim[r] = "aged"
Claimable(r) ==
    /\ r \in Current
    /\ \/ status[r] = "pending" /\ claim[r] = "free"
       \/ status[r] = "attempting" /\ claim[r] = "aged"
       \/ status[r] = "unknown" /\ claim[r] \in {"free", "aged"}

Claim(r) ==
    /\ pc = "deliver"
    /\ Claimable(r)
    /\ \A q \in Rows : Claimable(q) => r <= q
    /\ status' = [status EXCEPT ![r] =
                      IF @ = "pending" THEN "attempting" ELSE "unknown"]
    /\ claim' = [claim EXCEPT ![r] = "held"]
    /\ Take(r, IF status[r] = "pending" THEN "begin" ELSE "lookup")
    /\ UNCHANGED <<queued, row, superseded, ledger, chat, views, conversation,
                   bounds>>

NothingToDeliver ==
    /\ pc = "deliver"
    /\ ~\E r \in Rows : Claimable(r)
    /\ Goto("clean")
    /\ UNCHANGED <<outbox, ledger, chat, views, conversation, bounds>>

(* _write_correlated: a record that is not new, nor back from a refusal,   *)
(* is never written again.                                                 *)
Begin ==
    /\ pc = "begin"
    /\ LET writable == ledger[at] \in {"none", "pending"}
       IN  /\ ledger' = [ledger EXCEPT ![at] = IF writable THEN "attempting" ELSE @]
           /\ Goto(IF writable THEN "request"
                   ELSE IF ledger[at] = "confirmed" THEN "mark" ELSE "unknown")
    /\ UNCHANGED <<outbox, chat, views, conversation, bounds>>

(* Telegram performs the request: a send creates a message, an edit shows  *)
(* another row in one that exists and does not show that row already.      *)
Performable(r) ==
    IsEdit(r) => shows[row[r].target] # r /\ row[r].target \notin deleted

Perform(r) == /\ Performable(r)
              /\ shows' = [shows EXCEPT ![Message(r)] = r]
              /\ sends' = [sends EXCEPT ![r] = IF IsEdit(r) THEN @ ELSE @ + 1]
              /\ UNCHANGED deleted

(* Refused requests and lost answers are bounded; what cannot be performed *)
(* is always refused.                                                      *)
MayFail == faults < MaxFaults /\ faults' = faults + 1 /\ UNCHANGED reminders

Answered ==
    /\ pc = "request"
    /\ Perform(at)
    /\ Goto("confirm")
    /\ UNCHANGED <<outbox, ledger, views, conversation, bounds>>

(* The last attempt of the adapter is refused, as those before it; when it *)
(* repeats an edit it looks the record up again and is not refused twice.  *)
Refused ==
    /\ pc = "request"
    /\ MayFail \/ (~Performable(at) /\ UNCHANGED bounds)
    /\ ledger' = [ledger EXCEPT ![at] = "pending"]
    /\ Goto(IF status[at] = "attempting" THEN "refused" ELSE "lookup")
    /\ UNCHANGED <<outbox, chat, views, conversation>>

(* Mutant: an unknown outcome is taken for a refusal.                      *)
LostAsRefused ==
    /\ pc = "request"
    /\ MayFail
    /\ Perform(at) \/ UNCHANGED chat
    /\ ledger' = [ledger EXCEPT ![at] = "pending"]
    /\ Goto("refused")
    /\ UNCHANGED <<outbox, views, conversation>>
Lost ==
    /\ pc = "request"
    /\ MayFail
    /\ Perform(at) \/ UNCHANGED chat
    /\ ledger' = [ledger EXCEPT ![at] = "unknown"]
    /\ Goto("unknown")
    /\ UNCHANGED <<outbox, views, conversation>>

Confirm ==
    /\ pc = "confirm"
    /\ ledger' = [ledger EXCEPT ![at] = "confirmed"]
    /\ Goto("mark")
    /\ UNCHANGED <<outbox, chat, views, conversation, bounds>>
-----------------------------------------------------------------------------
(* deliver_pending: what becomes of the row.                               *)
Settle(r, outcome) ==
    /\ status' = [status EXCEPT ![r] = outcome]
    /\ claim' = [claim EXCEPT ![r] = "free"]

(* release_conversation_message_claim; the exception ends the process.     *)
Release ==
    /\ pc = "refused" /\ ~IsEdit(at)
    /\ Settle(at, "pending")
    /\ Goto("idle")
    /\ UNCHANGED <<queued, row, superseded, ledger, chat, views,
                   conversation, bounds>>

(* replace_failed_result_navigation: an edit that was refused, or that the *)
(* ledger does not know of, is sent as a message of its own (Room is left  *)
(* for it).                                                                *)
ReplaceEdit ==
    /\ queued < MaxRows
    /\ Settle(at, "pending")
    /\ superseded' = superseded \cup {at}
    /\ queued' = queued + 1
    /\ row' = [row EXCEPT ![queued + 1] =
                   [kind |-> "search", rev |-> row[at].rev, target |-> None]]
    /\ Goto("idle")
    /\ UNCHANGED <<ledger, chat, views, conversation, bounds>>

ReplaceRefused == pc = "refused" /\ IsEdit(at) /\ ReplaceEdit

(* mark_conversation_message_outcome_unknown; the process ends.            *)
MarkUnknown ==
    /\ pc = "unknown"
    /\ Settle(at, "unknown")
    /\ Goto("idle")
    /\ UNCHANGED <<queued, row, superseded, ledger, chat, views,
                   conversation, bounds>>

(* A send is not repeated: it is confirmed by the ledger or given up.      *)
LookUp ==
    /\ pc = "lookup" /\ ~IsEdit(at)
    /\ IF ledger[at] = "confirmed"
       THEN Goto("mark") /\ UNCHANGED <<status, claim>>
       ELSE Goto("idle") /\ Settle(at, "given_up")
    /\ UNCHANGED <<queued, row, superseded, ledger, chat, views,
                   conversation, bounds>>

(* An edit is repeated, for it does no harm twice (reconcile_edit).        *)
LookUpEdit ==
    /\ pc = "lookup" /\ IsEdit(at)
    /\ ledger[at] \notin {"none", "pending"}
    /\ IF ledger[at] = "confirmed"
       THEN Goto("mark") /\ UNCHANGED ledger
       ELSE Goto("request") /\ ledger' = [ledger EXCEPT ![at] = "attempting"]
    /\ UNCHANGED <<outbox, chat, views, conversation, bounds>>

ReplaceUnknown == /\ pc = "lookup" /\ IsEdit(at)
                  /\ ledger[at] \in {"none", "pending"}
                  /\ ReplaceEdit
-----------------------------------------------------------------------------
(* mark_conversation_message_delivered.                                    *)

(* An edit is of the active view's message, or the transaction fails.      *)
TargetLost(r) == IsEdit(r) /\ view.msg # row[r].target

(* A search's result is presented while the account waits for it.          *)
StageLost(r) == Presents(r) /\ stage \notin {"submitting", "results"}

Outdated(r, msg) ==
    /\ old' = [old EXCEPT ![r] = msg]
    /\ cleanup' = [cleanup EXCEPT ![r] = "pending"]

(* Mutant: an edit leaves the message it edited behind as well.            *)
LeavesAny(r) == view.row \notin {None, r}
Leaves(r) == view.row \notin {None, r} /\ ~IsEdit(r)

(* Mutant: the account keeps the revision of the screen before.            *)
ActivateContextOnly(r) ==
    /\ stage' = "results"
    /\ context' = r
    /\ UNCHANGED <<screen, search>>
ActivateResult(r) ==
    /\ stage' = "results"
    /\ screen' = row[r].rev
    /\ context' = r
    /\ UNCHANGED search

Activate(r) == view' = [row |-> r, msg |-> Message(r)]

MarkDelivered ==
    /\ pc = "mark"
    /\ at \in superseded \/ ~(TargetLost(at) \/ StageLost(at))
    /\ Settle(at, "confirmed")
    /\ Goto("clean")
    /\ IF at \in superseded
       THEN /\ UNCHANGED <<view, conversation>>
            /\ IF IsEdit(at) THEN UNCHANGED <<old, cleanup>> ELSE Outdated(at, at)
       ELSE /\ Activate(at)
            /\ IF Leaves(at) THEN Outdated(view.row, view.msg)
               ELSE UNCHANGED <<old, cleanup>>
            /\ IF Presents(at) THEN ActivateResult(at)
               ELSE UNCHANGED conversation
    /\ UNCHANGED <<queued, row, superseded, ledger, chat, bounds>>

(* The confirmation raises: everything is rolled back, the process ends.   *)
MarkRaises ==
    /\ pc = "mark"
    /\ at \notin superseded /\ (TargetLost(at) \/ StageLost(at))
    /\ Goto("idle")
    /\ UNCHANGED <<outbox, ledger, chat, views, conversation, bounds>>
-----------------------------------------------------------------------------
(* _cleanup_old_chat_view, for one old view.                               *)
ClaimCleanup(r) ==
    /\ pc = "clean"
    /\ cleanup[r] \in {"pending", "aged"}
    /\ cleanup' = [cleanup EXCEPT ![r] = "claimed"]
    /\ Take(r, "delete")
    /\ UNCHANGED <<outbox, ledger, chat, view, old, conversation, bounds>>

NothingToClean ==
    /\ pc = "clean"
    /\ \A r \in Rows : cleanup[r] \notin {"pending", "aged"}
    /\ Goto("idle")
    /\ UNCHANGED <<outbox, ledger, chat, views, conversation, bounds>>

(* Telegram deletes a message for 48 hours only, and a failure is ignored. *)
DeleteMessage ==
    /\ pc = "delete"
    /\ \/ deleted' = deleted \cup {old[at]} /\ UNCHANGED bounds
       \/ MayFail /\ UNCHANGED deleted
    /\ Goto("cleaned")
    /\ UNCHANGED <<outbox, ledger, sends, shows, views, conversation>>

MarkCleaned ==
    /\ pc = "cleaned"
    /\ cleanup' = [cleanup EXCEPT ![at] = "attempted"]
    /\ Goto("idle")
    /\ UNCHANGED <<outbox, ledger, chat, view, old, conversation, bounds>>
-----------------------------------------------------------------------------
(* The process ends; a request under way may still be performed.           *)
Crash ==
    /\ pc # "idle"
    /\ MayFail
    /\ (pc = "request" /\ Perform(at)) \/ UNCHANGED chat
    /\ Goto("idle")
    /\ UNCHANGED <<outbox, ledger, views, conversation>>

(* Five minutes pass.  Of a claim that the one process is working on it    *)
(* does not matter whether they do, so that they pass between updates.     *)
Age ==
    /\ pc = "idle"
    /\ \E r \in Rows : claim[r] = "held" \/ cleanup[r] = "claimed"
    /\ claim' = [r \in Rows |-> IF claim[r] = "held" THEN "aged" ELSE claim[r]]
    /\ cleanup' = [r \in Rows |->
                      IF cleanup[r] = "claimed" THEN "aged" ELSE cleanup[r]]
    /\ UNCHANGED <<queued, row, status, superseded, ledger, chat, view, old,
                   conversation, work, bounds>>
-----------------------------------------------------------------------------
Update == \/ OpenScreen \/ Submit \/ StartAgain \/ OpenResults \/ Redraw
          \/ RedrawResult(screen) \/ RedrawResult(screen + 1)
          \/ Ask \/ Navigate \/ Ignored

AnswerSearch == SearchCompletes \/ SearchFails

Deliver == \/ \E r \in Rows : Claim(r) \/ ClaimCleanup(r)
           \/ NothingToDeliver \/ Begin \/ Answered \/ Refused \/ Lost \/ Confirm
           \/ Release \/ ReplaceRefused \/ MarkUnknown
           \/ LookUp \/ LookUpEdit \/ ReplaceUnknown
           \/ MarkDelivered \/ MarkRaises
           \/ NothingToClean \/ DeleteMessage \/ MarkCleaned

Next == Update \/ AnswerSearch \/ Remind \/ Deliver \/ Crash \/ Age

Spec == Init /\ [][Next]_vars

(* The process goes on, searches are answered and time passes; nobody has  *)
(* to write to the bot.                                                    *)
FairSpec == Spec /\ WF_vars(Deliver) /\ WF_vars(AnswerSearch) /\ SF_vars(Age)
-----------------------------------------------------------------------------
(* What must hold.                                                         *)

OutboxTyped ==
    /\ queued \in 1..MaxRows
    /\ row \in [Rows -> [kind : Kinds, rev : Nat, target : Messages \cup {None}]]
    /\ status \in [Rows -> Statuses]
    /\ claim \in [Rows -> {"free", "held", "aged"}]
    /\ superseded \subseteq InOutbox
ChatTyped ==
    /\ ledger \in [Rows -> {"none", "pending", "attempting", "unknown", "confirmed"}]
    /\ sends \in [Rows -> Nat]
    /\ shows \in [Messages -> Rows \cup {None}]
    /\ deleted \subseteq Messages
ViewsTyped ==
    /\ view \in [row : Rows, msg : Messages]
    /\ old \in [Rows -> Messages \cup {None}]
    /\ cleanup \in [Rows -> {"none", "pending", "claimed", "aged", "attempted"}]
ConversationTyped ==
    /\ stage \in {"browsing", "submitting", "results"}
    /\ screen \in Nat
    /\ context \in Rows \cup {None}
    /\ search \in {"idle", "running"}
WorkTyped ==
    /\ pc \in Steps
    /\ at \in Rows \cup {None}
    /\ reminders \in 0..MaxReminders
    /\ faults \in 0..MaxFaults

(* Types; the active view always has a row and a message that exists       *)
(* (bot_active_chat_views names both).                                     *)
TypeOK == OutboxTyped /\ ChatTyped /\ ViewsTyped /\ ConversationTyped /\ WorkTyped

(* Telegram performs the send of a row at most once, whatever is refused,  *)
(* lost or interrupted: an outcome that is not known is never sent again.  *)
SentOnce == \A r \in Rows : sends[r] <= 1

(* The message of the active view is neither deleted nor ever an old view  *)
(* to be deleted: an edit keeps the message it edits.                      *)
CurrentKept == view.msg \notin deleted /\ \A r \in Rows : old[r] # view.msg

(* The bot takes a row for what the Bot User sees only if Telegram shows   *)
(* that row in that message, also after repeated and interrupted edits.    *)
ActivatedAsShown == [][view' # view => shows[view'.msg] = view'.row]_vars

(* No screen comes back over one that was queued after it and has been     *)
(* shown, however late its own delivery is settled.  Deletion reminders,   *)
(* which supersede nothing, are not screens.                               *)
ScreensGoForward ==
    [][view'.row # view.row /\ row[view'.row].kind # "reminder" =>
           \A r \in Rows : r > view'.row /\ status[r] = "confirmed"
                              => row[r].kind = "reminder"]_vars

(* A result that may still be presented finds the account waiting for it:  *)
(* the confirmation never raises "lost active Search state".               *)
ResultAwaited ==
    \A r \in Current : Presents(r) => stage \in {"submitting", "results"}

(* Once nothing waits in the outbox, the buttons that the Bot User sees    *)
(* carry the revision that the handlers accept; a deletion reminder and a  *)
(* search under way are the exceptions.                                    *)
ControlsAnswer ==
    /\ Current = {}
    /\ stage # "submitting" /\ reminders = 0
    => row[view.row].rev = screen

(* A screen that the ledger knows to be confirmed is not given up with an  *)
(* alert to the operator.                                                  *)
GivenUpUnknown == \A r \in Rows : status[r] = "given_up" => ledger[r] # "confirmed"

(* An edit that was confirmed after its target ceased to be the active     *)
(* view, so that mark_conversation_message_delivered raises every time.    *)
Stuck == \E r \in Current : ledger[r] = "confirmed" /\ TargetLost(r)

(* As long as the bot is written to, the outbox is again and again empty   *)
(* but for rows that were given up, whatever was refused, lost or          *)
(* interrupted: no row waits for ever.                                     *)
Settles == []<><<Ignored>>_vars =>
               []<>(Stuck \/ \A r \in Current : status[r] = "given_up")

=============================================================================
