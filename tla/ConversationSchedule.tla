------------------------ MODULE ConversationSchedule ------------------------
(***************************************************************************)
(* When the process of the Bot Assistant does what ConversationOnboarding  *)
(* says.  It handles what waits for the role before it asks Telegram for   *)
(* an update; the handler of an update ends with one call of               *)
(* deliver_pending, which sends the oldest message that waits, and that of *)
(* a search's outcome does not.  So a message queued by an outcome waits   *)
(* for an update: of whatever Bot User, as the outbox is one.              *)
(***************************************************************************)
EXTENDS ConversationOnboarding

VARIABLE delivering    \* deliver_pending is called, and a result waits for it

schedule == <<vars, delivering>>

ScheduleInit == Init /\ delivering = FALSE

(* An update: handled, or ignored, or of another Bot User.                 *)
Update ==
    /\ ~delivering
    /\ Press \/ UNCHANGED vars
    /\ delivering' = (pending' # 0)

(* The search button: submit_search calls no deliver_pending, also when    *)
(* its control is outdated and the screen is drawn again.                  *)
Search ==
    /\ ~delivering /\ UNCHANGED delivering
    /\ Submit \/ Redraw

(* deliver_pending: the message that waits for this Bot User is confirmed, *)
(* or it is not: the call took a callback or another message, Telegram     *)
(* refused or did not answer, or the process ended.                        *)
Deliver == delivering /\ delivering' = FALSE /\ Activate
Keep    == delivering /\ delivering' = FALSE /\ UNCHANGED vars

(* The outcome of a search, from another role, and its handling.           *)
Accepts(i) == /\ i \in Ids /\ ~delivering
              /\ AcceptOutcome(i)
              /\ UNCHANGED delivering
Answers(i) == i \in Ids /\ Answer(i) /\ UNCHANGED delivering

ScheduleNext == \/ Update \/ Search \/ Deliver \/ Keep
                \/ \E i \in Ids : Answers(i) \/ Accepts(i)

(* Recommendation answers, the queue is drained before each poll, a call   *)
(* of deliver_pending ends, and Telegram confirms in the end what it is    *)
(* sent again and again.  Nobody has to write to the bot.                  *)
Fairness == /\ \A i \in 1..MaxSearches :
                   WF_schedule(Answers(i)) /\ SF_schedule(Accepts(i))
            /\ WF_schedule(Deliver \/ Keep) /\ SF_schedule(Deliver)

FairSpec == ScheduleInit /\ [][ScheduleNext]_schedule /\ Fairness
-----------------------------------------------------------------------------
Submitting == user.stage = "submitting" /\ draft.stage = "submitting"
Freed      == ~Submitting \/ draft.search \in lost

=============================================================================
