---------------------- MODULE BotMessageDeliveryProofs ----------------------
(***************************************************************************)
(* What BotMessageDelivery guarantees for every number of rows, reminders  *)
(* and faults.                                                             *)
(***************************************************************************)
EXTENDS BotMessageDelivery, TLAPS

RowSteps == {"begin", "request", "confirm", "mark", "refused", "unknown", "lookup"}

(* deliver_pending works on a row that waits and that it has claimed, and  *)
(* cleans up a message that was left.                                      *)
WorkInv ==
    /\ pc \in RowSteps => at \in Current /\ status[at] \in {"attempting", "unknown"}
    /\ pc \in {"delete", "cleaned"} => at \in Rows /\ old[at] \in Messages

(* A row that is not in the outbox yet is unknown to everybody.            *)
FreshInv == \A r \in Rows :
    r > queued => ledger[r] = "none" /\ sends[r] = 0 /\ status[r] = "pending"

(* The ledger says that a request is under way before Telegram sees it; a  *)
(* record that allows another attempt belongs to a row never sent.         *)
LedgerInv ==
    /\ pc \in {"request", "confirm"} => ledger[at] = "attempting"
    /\ pc = "mark" => ledger[at] = "confirmed"
    /\ pc = "request" /\ ~IsEdit(at) => sends[at] = 0
    /\ \A r \in Rows : ledger[r] \in {"none", "pending"} => sends[r] = 0
    /\ \A r \in Rows : IsEdit(r) => sends[r] = 0

(* Messages that are edited, shown, left or deleted were confirmed once.   *)
MessageInv ==
    /\ \A r \in Rows : IsEdit(r) => /\ row[r].target \in Messages
                                    /\ status[row[r].target] = "confirmed"
    /\ status[view.msg] = "confirmed"
    /\ \A r \in Rows : old[r] # None => status[old[r]] = "confirmed"
    /\ \A r \in Rows : cleanup[r] # "none" => old[r] # None
    /\ \A m \in deleted : status[m] = "confirmed"

(* Of two screens the older one is settled: no two wait at the same time.  *)
OrderInv == \A r, q \in Rows :
    /\ r < q /\ q <= queued
    /\ row[r].kind # "reminder" /\ row[q].kind # "reminder"
    => r \in superseded \/ status[r] = "confirmed"

(* A waiting row that was confirmed by Telegram is still what its message  *)
(* shows.                                                                  *)
ShownInv ==
    /\ pc = "confirm" => shows[Message(at)] = at
    /\ \A r \in Current : ledger[r] = "confirmed" => shows[Message(r)] = r

DeliveryInv == /\ TypeOK /\ WorkInv /\ FreshInv /\ LedgerInv /\ MessageInv
               /\ OrderInv /\ ShownInv
               /\ SentOnce /\ CurrentKept /\ GivenUpUnknown /\ ResultAwaited
-----------------------------------------------------------------------------
(* The part of the invariant that does not speak of the conversation.      *)
DeliveryCore == /\ WorkInv /\ FreshInv /\ LedgerInv /\ MessageInv /\ OrderInv
                /\ ShownInv /\ SentOnce /\ CurrentKept /\ GivenUpUnknown

(* Between updates a new row disturbs nothing, provided that no other      *)
(* screen waits beside it and that an edit is of the message shown.        *)
LEMMA InsertKeeps ==
    ASSUME TypeOK, DeliveryCore, pc = "idle", pc' \in {"idle", "deliver"}, at' = at,
           UNCHANGED <<ledger, chat, views>>,
           NEW kind \in Kinds, NEW rev \in Nat, NEW target \in Messages \cup {None},
           Insert(kind, rev, target),
           kind = "edit" => target = view.msg,
           \/ superseded' = SupersededNow
           \/ (kind = "reminder" /\ superseded' = superseded)
    PROVE  /\ OutboxTyped' /\ DeliveryCore'
           /\ row'[queued + 1].kind = kind
           /\ \A r \in Rows : r # queued + 1 => row'[r] = row[r]
           /\ Current' \subseteq Current \cup {queued + 1}
           /\ superseded' = SupersededNow => Current' \subseteq {queued + 1}
<1> DEFINE new == queued + 1
<1>1. /\ new \in Rows /\ new > queued /\ queued' = new
      /\ row' = [row EXCEPT ![new] = [kind |-> kind, rev |-> rev, target |-> target]]
      /\ status' = status /\ claim' = claim
  BY DeliveryAssumption DEF Insert, TypeOK, OutboxTyped, Rows
<1> HIDE DEF new
<1>2. /\ row'[new] = [kind |-> kind, rev |-> rev, target |-> target]
      /\ \A r \in Rows : r # new => row'[r] = row[r]
  BY <1>1 DEF TypeOK, OutboxTyped
<1>3. /\ superseded' \subseteq InOutbox'
      /\ superseded \subseteq superseded'
      /\ new \notin superseded'
  <2>1. /\ superseded \subseteq InOutbox /\ InOutbox \subseteq InOutbox'
        /\ new \notin InOutbox
    BY <1>1 DEF TypeOK, OutboxTyped, InOutbox, Rows
  <2>2. Undelivered \subseteq InOutbox
    BY DEF Undelivered
  <2> QED
    BY <2>1, <2>2 DEF SupersededNow
<1>4. OutboxTyped'
  <2>1. [kind |-> kind, rev |-> rev, target |-> target]
            \in [kind : Kinds, rev : Nat, target : Messages \cup {None}]
    OBVIOUS
  <2> QED
    BY <1>1, <1>3, <2>1 DEF TypeOK, OutboxTyped, Rows
<1>5. /\ Current' \subseteq Current \cup {new}
      /\ superseded' = SupersededNow => Current' \subseteq {new}
  BY <1>1, <1>3 DEF Current, Undelivered, InOutbox, SupersededNow, Rows, TypeOK,
                    OutboxTyped, new
<1>6. FreshInv' /\ SentOnce' /\ CurrentKept' /\ GivenUpUnknown'
  BY <1>1 DEF DeliveryCore, FreshInv, SentOnce, CurrentKept, GivenUpUnknown, chat,
              views, TypeOK, OutboxTyped, Rows
<1>7. WorkInv'
  BY DEF WorkInv, RowSteps
<1>8. LedgerInv'
  BY <1>1, <1>2 DEF DeliveryCore, LedgerInv, FreshInv, IsEdit, chat
<1>9. MessageInv'
  BY <1>1, <1>2 DEF DeliveryCore, MessageInv, IsEdit, chat, views, TypeOK, ViewsTyped
<1>10. OrderInv'
  <2> SUFFICES ASSUME NEW r \in Rows, NEW q \in Rows, r < q, q <= queued',
                      row'[r].kind # "reminder", row'[q].kind # "reminder"
               PROVE  r \in superseded' \/ status'[r] = "confirmed"
    BY DEF OrderInv
  <2>1. CASE q = new
    BY <1>1, <1>2, <2>1 DEF SupersededNow, Undelivered, InOutbox, Rows, TypeOK,
                            OutboxTyped, new
  <2>2. CASE q # new
    BY <1>1, <1>2, <1>3, <2>2 DEF DeliveryCore, OrderInv, Rows, TypeOK, OutboxTyped,
                                  new
  <2> QED
    BY <2>1, <2>2
<1>11. ShownInv'
  BY <1>1, <1>2, <1>5 DEF DeliveryCore, ShownInv, FreshInv, Message, IsEdit, chat,
                          Current, Undelivered, InOutbox
<1> QED
  BY <1>2, <1>4, <1>5, <1>6, <1>7, <1>8, <1>9, <1>10, <1>11 DEF DeliveryCore, new

(* Nor does a step that only moves on and changes no row, message or view. *)
LEMMA IdleKeeps ==
    ASSUME TypeOK, DeliveryCore, pc' \in {"idle", "deliver", "clean"},
           UNCHANGED <<outbox, ledger, chat, views>>
    PROVE  /\ OutboxTyped' /\ ChatTyped' /\ ViewsTyped' /\ DeliveryCore'
           /\ Current' = Current
<1>1. Current' = Current /\ OutboxTyped' /\ ChatTyped' /\ ViewsTyped'
  BY DEF TypeOK, OutboxTyped, ChatTyped, ViewsTyped, InOutbox, outbox, chat, views,
         Current, Undelivered
<1>2. WorkInv' /\ LedgerInv' /\ ShownInv'
  BY <1>1 DEF DeliveryCore, WorkInv, RowSteps, LedgerInv, ShownInv, IsEdit, Message,
              outbox, chat
<1>3. FreshInv' /\ MessageInv' /\ OrderInv'
  BY DEF DeliveryCore, FreshInv, MessageInv, OrderInv, IsEdit, outbox, chat, views
<1>4. SentOnce' /\ CurrentKept' /\ GivenUpUnknown'
  BY DEF DeliveryCore, SentOnce, CurrentKept, GivenUpUnknown, outbox, chat, views
<1> QED
  BY <1>1, <1>2, <1>3, <1>4 DEF DeliveryCore

LEMMA ScreenQueued ==
    ASSUME DeliveryInv, Handled \/ (Consumed /\ bounds' = bounds),
           NEW kind \in Kinds \ {"reminder"},
           NEW rev \in Nat, NEW target \in Messages \cup {None},
           kind = "edit" => target = view.msg,
           Queue(kind, rev, target), ConversationTyped',
           kind = "screen" \/ stage' \in {"submitting", "results"}
    PROVE  DeliveryInv'
<1>1. /\ pc = "idle" /\ pc' \in {"idle", "deliver"} /\ at' = at
      /\ UNCHANGED <<ledger, chat, views, bounds>>
  BY DEF Handled, Consumed, work
<1>2. Insert(kind, rev, target) /\ superseded' = SupersededNow
  BY DEF Queue
<1>3. /\ OutboxTyped' /\ DeliveryCore'
      /\ row'[queued + 1].kind = kind
      /\ Current' \subseteq {queued + 1}
  <2>1. TypeOK /\ DeliveryCore /\ kind \in Kinds
    BY DEF DeliveryInv, DeliveryCore
  <2> QED
    BY <1>1, <1>2, <2>1, InsertKeeps
<1>4. ChatTyped' /\ ViewsTyped'
  BY <1>1 DEF DeliveryInv, TypeOK, ChatTyped, ViewsTyped, chat, views
<1>5. WorkTyped'
  BY <1>1 DEF DeliveryInv, TypeOK, WorkTyped, bounds, Steps
<1>6. ResultAwaited'
  BY <1>3 DEF ResultAwaited, Presents
<1> QED
  BY <1>3, <1>4, <1>5, <1>6 DEF DeliveryInv, DeliveryCore, TypeOK

(* Updates of the Bot User.                                                *)
LEMMA UpdateKeeps == ASSUME DeliveryInv, Update PROVE DeliveryInv'
<1> USE DEF Kinds
<1>0. /\ screen \in Nat /\ screen + 1 \in Nat /\ None \in Messages \cup {None}
      /\ ConversationTyped /\ view.msg \in Messages
  BY DEF DeliveryInv, TypeOK, ConversationTyped, ViewsTyped
<1>1. CASE OpenScreen
  <2>1. Handled /\ Queue("screen", screen + 1, None) /\ ConversationTyped'
    BY <1>0, <1>1 DEF OpenScreen, ConversationTyped
  <2> QED
    BY <1>0, <2>1, ScreenQueued
<1>2. CASE Submit
  <2>1. /\ UNCHANGED <<outbox, ledger, chat, views, work, bounds>>
        /\ pc = "idle" /\ stage' = "submitting" /\ ConversationTyped'
    BY <1>0, <1>2 DEF Submit, ConversationTyped
  <2>2. /\ OutboxTyped' /\ ChatTyped' /\ ViewsTyped' /\ DeliveryCore'
        /\ Current' = Current
    <3>1. TypeOK /\ DeliveryCore /\ pc' \in {"idle", "deliver", "clean"}
      BY <2>1 DEF DeliveryInv, DeliveryCore, work
    <3> QED
      BY <2>1, <3>1, IdleKeeps
  <2>3. WorkTyped' /\ ResultAwaited'
    BY <2>1 DEF DeliveryInv, TypeOK, WorkTyped, work, bounds, ResultAwaited
  <2> QED
    BY <2>1, <2>2, <2>3 DEF DeliveryInv, DeliveryCore, TypeOK
<1>3. CASE StartAgain
  <2>1. Handled /\ Queue("screen", screen + 1, None) /\ ConversationTyped'
    BY <1>0, <1>3 DEF StartAgain, ConversationTyped
  <2> QED
    BY <1>0, <2>1, ScreenQueued
<1>4. CASE OpenResults
  <2>1. /\ Handled /\ Queue("search", screen + 1, None) /\ ConversationTyped'
        /\ stage' = "results"
    BY <1>0, <1>4 DEF OpenResults, ConversationTyped
  <2> QED
    BY <1>0, <2>1, ScreenQueued
<1>5. CASE Redraw
  <2>1. Handled /\ Queue("screen", screen, None) /\ ConversationTyped'
    BY <1>0, <1>5 DEF Redraw, ConversationTyped, conversation
  <2> QED
    BY <1>0, <2>1, ScreenQueued
<1>6. ASSUME NEW rev \in {screen, screen + 1}, RedrawResult(rev)
      PROVE  DeliveryInv'
  <2>1. /\ Handled /\ Queue("search", rev, None) /\ ConversationTyped'
        /\ stage' = "results" /\ rev \in Nat
    BY <1>0, <1>6 DEF RedrawResult, ConversationTyped, conversation
  <2> QED
    BY <1>0, <2>1, ScreenQueued
<1>7. CASE Ask
  <2>1. Handled /\ Queue("screen", screen, None) /\ ConversationTyped'
    BY <1>0, <1>7 DEF Ask, ConversationTyped, conversation
  <2> QED
    BY <1>0, <2>1, ScreenQueued
<1>8. CASE Navigate
  <2>1. /\ Handled /\ Queue("edit", screen + 1, view.msg) /\ ConversationTyped'
        /\ stage' = "results"
    BY <1>0, <1>8 DEF Navigate, ConversationTyped, conversation
  <2> QED
    BY <1>0, <2>1, ScreenQueued
<1>9. CASE Ignored
  <2>1. /\ UNCHANGED <<outbox, ledger, chat, views, conversation, at, bounds>>
        /\ pc' = "deliver" /\ ConversationTyped'
    BY <1>0, <1>9 DEF Ignored, Handled, ConversationTyped, conversation
  <2>2. /\ OutboxTyped' /\ ChatTyped' /\ ViewsTyped' /\ DeliveryCore'
        /\ Current' = Current
    <3>1. TypeOK /\ DeliveryCore
      BY DEF DeliveryInv, DeliveryCore
    <3> QED
      BY <2>1, <3>1, IdleKeeps
  <2>3. WorkTyped' /\ ResultAwaited'
    BY <2>1, <2>2 DEF DeliveryInv, TypeOK, WorkTyped, Steps, bounds, ResultAwaited,
                      Presents, outbox, conversation
  <2> QED
    BY <2>1, <2>2, <2>3 DEF DeliveryInv, DeliveryCore, TypeOK
<1> QED
  BY <1>1, <1>2, <1>3, <1>4, <1>5, <1>6, <1>7, <1>8, <1>9 DEF Update

(* Contracts that answer the search or remind the administrator.           *)
LEMMA ConsumedKeeps == ASSUME DeliveryInv, AnswerSearch \/ Remind PROVE DeliveryInv'
<1> USE DEF Kinds
<1>0. /\ screen \in Nat /\ screen + 1 \in Nat /\ None \in Messages \cup {None}
      /\ ConversationTyped
  BY DEF DeliveryInv, TypeOK, ConversationTyped
<1>1. CASE SearchCompletes
  <2>1. /\ Consumed /\ bounds' = bounds /\ Queue("search", screen + 1, None)
        /\ ConversationTyped' /\ stage' = "submitting"
    BY <1>0, <1>1 DEF SearchCompletes, ConversationTyped
  <2> QED
    BY <1>0, <2>1, ScreenQueued
<1>2. CASE SearchFails
  <2>1. /\ Consumed /\ bounds' = bounds /\ Queue("screen", screen + 1, None)
        /\ ConversationTyped'
    BY <1>0, <1>2 DEF SearchFails, ConversationTyped
  <2> QED
    BY <1>0, <2>1, ScreenQueued
<1>3. CASE Remind
  <2>1. /\ pc = "idle" /\ pc' = "idle" /\ at' = at
        /\ UNCHANGED <<ledger, chat, views>>
        /\ UNCHANGED <<superseded, conversation, faults>>
        /\ reminders' \in 0..MaxReminders
        /\ Insert("reminder", screen, None)
    BY <1>3, DeliveryAssumption
       DEF Remind, Consumed, work, DeliveryInv, TypeOK, WorkTyped
  <2>2. /\ OutboxTyped' /\ DeliveryCore'
        /\ row'[queued + 1].kind = "reminder"
        /\ \A r \in Rows : r # queued + 1 => row'[r] = row[r]
        /\ Current' \subseteq Current \cup {queued + 1}
    <3>1. TypeOK /\ DeliveryCore
      BY DEF DeliveryInv, DeliveryCore
    <3> QED
      BY <1>0, <2>1, <3>1, InsertKeeps
  <2>3. ChatTyped' /\ ViewsTyped' /\ ConversationTyped' /\ WorkTyped'
    BY <1>0, <2>1 DEF DeliveryInv, TypeOK, ChatTyped, ViewsTyped, ConversationTyped,
                      WorkTyped, chat, views, conversation
  <2>4. ResultAwaited'
    <3>1. Current \subseteq Rows
      BY DEF Current, Undelivered, InOutbox
    <3> QED
      BY <2>1, <2>2, <3>1 DEF DeliveryInv, ResultAwaited, Presents, conversation
  <2> QED
    BY <2>2, <2>3, <2>4 DEF DeliveryInv, DeliveryCore, TypeOK
<1> QED
  BY <1>1, <1>2, <1>3 DEF AnswerSearch
-----------------------------------------------------------------------------
(* The row being worked on waits, and no other waiting row is shown in its *)
(* message.                                                                *)
LEMMA Busy ==
    ASSUME DeliveryInv, pc \in RowSteps
    PROVE  /\ at \in Rows /\ at <= queued /\ at \notin superseded
           /\ at \in Current /\ status[at] \in {"attempting", "unknown"}
           /\ IsEdit(at) => row[at].target \in Messages
           /\ Message(at) \in Messages
           /\ \A r \in Current : Message(r) \in Messages
           /\ \A r \in Current : r # at => Message(r) # Message(at)
<1>1. /\ at \in Rows /\ at <= queued /\ at \notin superseded
      /\ at \in Current /\ status[at] \in {"attempting", "unknown"}
  BY DEF DeliveryInv, WorkInv, Current, Undelivered, InOutbox
<1>2. \A r \in Current : /\ r \in Rows /\ r <= queued /\ r \notin superseded
                         /\ status[r] # "confirmed"
  BY DEF Current, Undelivered, InOutbox
<1>3. /\ IsEdit(at) => row[at].target \in Messages
      /\ Message(at) \in Messages
      /\ \A r \in Current : Message(r) \in Messages
  BY <1>1, <1>2 DEF DeliveryInv, MessageInv, Message, Messages
<1>4. ASSUME NEW r \in Current, r # at
      PROVE  Message(r) # Message(at)
  <2>1. CASE row[r].kind # "reminder" /\ row[at].kind # "reminder"
    <3>1. r < at \/ at < r
      BY <1>1, <1>2, <1>4, DeliveryAssumption DEF Rows
    <3> QED
      BY <1>1, <1>2, <1>4, <2>1, <3>1 DEF DeliveryInv, OrderInv
  <2>2. CASE row[r].kind = "reminder" \/ row[at].kind = "reminder"
    BY <1>1, <1>2, <1>4, <2>2 DEF DeliveryInv, MessageInv, Message, IsEdit
  <2> QED
    BY <2>1, <2>2
<1> QED
  BY <1>1, <1>3, <1>4

(* Steps that write the ledger's record of the row.                        *)
LEMMA RecordKeeps ==
    ASSUME DeliveryInv, pc \in RowSteps, pc' \in RowSteps \ {"confirm"}, at' = at,
           NEW x \in {"none", "pending", "attempting", "unknown", "confirmed"},
           ledger' = [ledger EXCEPT ![at] = x],
           UNCHANGED <<outbox, chat, views, conversation>>, WorkTyped',
           pc' = "request" => x = "attempting" /\ (IsEdit(at) \/ sends[at] = 0),
           pc' = "mark" => x = "confirmed",
           x \in {"none", "pending"} => sends[at] = 0,
           x = "confirmed" => shows[Message(at)] = at
    PROVE  DeliveryInv'
<1>1. /\ at \in Rows /\ at <= queued /\ at \in Current
      /\ status[at] \in {"attempting", "unknown"}
  BY Busy
<1>2. /\ Current' = Current /\ \A r \in Rows : r # at => ledger'[r] = ledger[r]
      /\ ledger'[at] = x
  BY <1>1 DEF outbox, Current, Undelivered, InOutbox, DeliveryInv, TypeOK, ChatTyped
<1>3. TypeOK'
  BY <1>1 DEF DeliveryInv, TypeOK, OutboxTyped, ChatTyped, ViewsTyped,
              ConversationTyped, InOutbox, outbox, chat, views, conversation
<1>4. WorkInv' /\ FreshInv'
  BY <1>1, <1>2 DEF DeliveryInv, WorkInv, FreshInv, RowSteps, outbox, chat, views,
                    Rows, TypeOK, OutboxTyped
<1>5. LedgerInv'
  BY <1>1, <1>2 DEF DeliveryInv, LedgerInv, IsEdit, outbox, chat
<1>6. MessageInv' /\ OrderInv'
  BY DEF DeliveryInv, MessageInv, OrderInv, IsEdit, outbox, chat, views
<1>7. ShownInv'
  BY <1>1, <1>2 DEF DeliveryInv, ShownInv, Message, IsEdit, outbox, chat, Current,
                    Undelivered, InOutbox
<1>8. SentOnce' /\ CurrentKept' /\ GivenUpUnknown' /\ ResultAwaited'
  BY <1>1, <1>2 DEF DeliveryInv, SentOnce, CurrentKept, GivenUpUnknown, ResultAwaited,
                    Presents, outbox, chat, views, conversation
<1> QED
  BY <1>3, <1>4, <1>5, <1>6, <1>7, <1>8 DEF DeliveryInv

(* A request under way ends: answered, lost, or with the process.          *)
LEMMA RequestKeeps ==
    ASSUME DeliveryInv, pc = "request", pc' \in {"confirm", "unknown", "idle"},
           Perform(at) \/ UNCHANGED chat,
           pc' # "idle" => at' = at,
           pc' = "confirm" => Perform(at) /\ ledger' = ledger,
           ledger' = ledger \/ ledger' = [ledger EXCEPT ![at] = "unknown"],
           UNCHANGED <<outbox, views, conversation>>, WorkTyped'
    PROVE  DeliveryInv'
<1>1. /\ at \in Rows /\ at <= queued /\ at \in Current
      /\ status[at] \in {"attempting", "unknown"} /\ Message(at) \in Messages
      /\ \A r \in Current : Message(r) \in Messages
      /\ \A r \in Current : r # at => Message(r) # Message(at)
  BY Busy DEF RowSteps
<1>2. /\ Current' = Current /\ \A r \in Rows : r # at => ledger'[r] = ledger[r]
      /\ ledger[at] = "attempting" /\ ledger'[at] \in {"attempting", "unknown"}
  BY <1>1 DEF outbox, Current, Undelivered, InOutbox, DeliveryInv, TypeOK, ChatTyped,
              LedgerInv
<1>3. /\ \A r \in Rows : r # at => sends'[r] = sends[r]
      /\ sends'[at] \in {0, 1} /\ (IsEdit(at) => sends'[at] = 0)
      /\ sends' \in [Rows -> Nat] /\ deleted' = deleted
      /\ shows' \in [Messages -> Rows \cup {None}]
      /\ \A r \in Current : r # at => shows'[Message(r)] = shows[Message(r)]
      /\ Perform(at) => shows'[Message(at)] = at
  <2>1. CASE Perform(at)
    BY <1>1, <2>1 DEF Perform, DeliveryInv, TypeOK, ChatTyped, LedgerInv
  <2>2. CASE UNCHANGED chat /\ ~Perform(at)
    BY <1>1, <2>2 DEF chat, DeliveryInv, TypeOK, ChatTyped, LedgerInv, SentOnce
  <2> QED
    BY <2>1, <2>2
<1>4. TypeOK'
  BY <1>1, <1>3 DEF DeliveryInv, TypeOK, OutboxTyped, ChatTyped, ViewsTyped,
              ConversationTyped, InOutbox, outbox, views, conversation
<1>5. WorkInv' /\ FreshInv'
  BY <1>1, <1>2, <1>3 DEF DeliveryInv, WorkInv, FreshInv, RowSteps, outbox, views,
                          Rows, TypeOK, OutboxTyped
<1>6. LedgerInv'
  BY <1>1, <1>2, <1>3 DEF DeliveryInv, LedgerInv, IsEdit, outbox
<1>7. MessageInv' /\ OrderInv'
  BY <1>3 DEF DeliveryInv, MessageInv, OrderInv, IsEdit, outbox, views
<1>8. ShownInv'
  <2>1. \A r \in Current : Message(r)' = Message(r)
    BY DEF Message, IsEdit, outbox
  <2>2. ASSUME NEW r \in Current, ledger'[r] = "confirmed"
        PROVE  shows'[Message(r)] = r
    <3>1. r # at /\ r \in Rows
      BY <1>2, <2>2 DEF Current, Undelivered, InOutbox
    <3> QED
      BY <1>2, <1>3, <2>2, <3>1 DEF DeliveryInv, ShownInv
  <2>3. pc' = "confirm" => shows'[Message(at)'] = at
    BY <1>1, <1>3, <2>1
  <2> QED
    BY <1>2, <2>1, <2>2, <2>3 DEF ShownInv
<1>9. SentOnce' /\ CurrentKept' /\ GivenUpUnknown' /\ ResultAwaited'
  BY <1>1, <1>2, <1>3 DEF DeliveryInv, SentOnce, CurrentKept, GivenUpUnknown,
              ResultAwaited, Presents, outbox, views, conversation
<1> QED
  BY <1>4, <1>5, <1>6, <1>7, <1>8, <1>9 DEF DeliveryInv

(* A row is released, left as unknown or given up.                         *)
LEMMA SettleKeeps ==
    ASSUME DeliveryInv, pc \in RowSteps, pc' = "idle", WorkTyped',
           NEW outcome \in {"pending", "unknown", "given_up"}, Settle(at, outcome),
           outcome = "given_up" => ledger[at] # "confirmed",
           UNCHANGED <<queued, row, superseded, ledger, chat, views, conversation>>
    PROVE  DeliveryInv'
<1>1. /\ at \in Rows /\ at <= queued /\ at \in Current
      /\ status[at] \in {"attempting", "unknown"}
  BY Busy
<1>2. /\ \A r \in Rows : r # at => status'[r] = status[r]
      /\ status'[at] = outcome
      /\ \A r \in Rows : status'[r] = "confirmed" <=> status[r] = "confirmed"
      /\ status' \in [Rows -> Statuses]
      /\ claim' \in [Rows -> {"free", "held", "aged"}]
  BY <1>1 DEF Settle, DeliveryInv, TypeOK, OutboxTyped, Statuses
<1>3. Current' = Current
  BY <1>2 DEF Current, Undelivered, InOutbox
<1>4. TypeOK'
  BY <1>2 DEF DeliveryInv, TypeOK, OutboxTyped, ChatTyped, ViewsTyped,
              ConversationTyped, InOutbox, chat, views, conversation
<1>5. WorkInv' /\ FreshInv'
  BY <1>1, <1>2 DEF DeliveryInv, WorkInv, FreshInv, RowSteps, chat,
                    Rows, TypeOK, OutboxTyped
<1>6. LedgerInv' /\ ShownInv'
  BY <1>3 DEF DeliveryInv, LedgerInv, ShownInv, Message, IsEdit, chat
<1>7. MessageInv'
  <2> USE DEF Messages
  <2>1. /\ view.msg \in Messages /\ old \in [Rows -> Messages \cup {None}]
        /\ deleted \subseteq Messages
    BY DEF DeliveryInv, TypeOK, ViewsTyped, ChatTyped
  <2> QED
    BY <1>2, <2>1 DEF DeliveryInv, MessageInv, IsEdit, chat, views
<1>8. OrderInv'
  BY <1>2 DEF DeliveryInv, OrderInv
<1>9. SentOnce' /\ CurrentKept' /\ GivenUpUnknown' /\ ResultAwaited'
  BY <1>2, <1>3 DEF DeliveryInv, SentOnce, CurrentKept, GivenUpUnknown,
              ResultAwaited, Presents, chat, views, conversation
<1> QED
  BY <1>4, <1>5, <1>6, <1>7, <1>8, <1>9 DEF DeliveryInv

(* An edit gives way to a new row, a screen of its own.                    *)
LEMMA ReplaceKeeps ==
    ASSUME DeliveryInv, pc \in RowSteps, IsEdit(at), ReplaceEdit
    PROVE  DeliveryInv'
<1> DEFINE new == queued + 1
<1>1. /\ at \in Rows /\ at <= queued /\ at \in Current /\ at \notin superseded
      /\ status[at] \in {"attempting", "unknown"} /\ queued \in 1..MaxRows
  BY Busy DEF DeliveryInv, TypeOK, OutboxTyped
<1>2. /\ queued' = new /\ new \in Rows /\ new > queued /\ new # at
      /\ superseded' = superseded \cup {at}
      /\ Settle(at, "pending") /\ pc' = "idle" /\ at' = None
      /\ UNCHANGED <<ledger, chat, views, conversation, bounds>>
  BY <1>1, DeliveryAssumption DEF ReplaceEdit, Goto, Rows
<1>3. /\ \A r \in Rows : r # new => row'[r] = row[r]
      /\ row'[new].kind = "search"
      /\ row' \in [Rows -> [kind : Kinds, rev : Nat, target : Messages \cup {None}]]
  BY <1>1, <1>2 DEF ReplaceEdit, DeliveryInv, TypeOK, OutboxTyped, Kinds
<1>4. /\ \A r \in Rows : r # at => status'[r] = status[r]
      /\ status'[at] = "pending" /\ status'[new] = "pending"
      /\ \A r \in Rows : status'[r] = "confirmed" <=> status[r] = "confirmed"
      /\ status' \in [Rows -> Statuses]
      /\ claim' \in [Rows -> {"free", "held", "aged"}]
  BY <1>1, <1>2 DEF Settle, DeliveryInv, TypeOK, OutboxTyped, FreshInv, Statuses
<1>5. superseded' \subseteq InOutbox' /\ new \notin superseded'
  <2>1. superseded \subseteq InOutbox
    BY DEF DeliveryInv, TypeOK, OutboxTyped
  <2> QED
    BY <1>1, <1>2, <2>1 DEF InOutbox, Rows
<1> HIDE DEF new
<1>6. Current' \subseteq (Current \ {at}) \cup {new}
  BY <1>1, <1>2, <1>4 DEF Current, Undelivered, InOutbox, Rows, new
<1>7. TypeOK'
  <2>1. OutboxTyped'
    BY <1>2, <1>3, <1>4, <1>5 DEF OutboxTyped, Rows
  <2>2. ChatTyped' /\ ViewsTyped' /\ ConversationTyped' /\ WorkTyped'
    BY <1>2 DEF DeliveryInv, TypeOK, ChatTyped, ViewsTyped, ConversationTyped,
                WorkTyped, Steps, chat, views, conversation, bounds
  <2> QED
    BY <2>1, <2>2 DEF TypeOK
<1>8. WorkInv' /\ FreshInv'
  BY <1>1, <1>2, <1>4 DEF DeliveryInv, WorkInv, FreshInv, RowSteps, chat, Rows, new
<1>9. LedgerInv'
  BY <1>2, <1>3 DEF DeliveryInv, LedgerInv, FreshInv, IsEdit, chat
<1>10. MessageInv'
  <2> USE DEF Messages
  <2>1. /\ view.msg \in Messages /\ old \in [Rows -> Messages \cup {None}]
        /\ deleted \subseteq Messages
    BY DEF DeliveryInv, TypeOK, ViewsTyped, ChatTyped
  <2> QED
    BY <1>2, <1>3, <1>4, <2>1 DEF DeliveryInv, MessageInv, IsEdit, chat, views
<1>11. OrderInv'
  <2> SUFFICES ASSUME NEW r \in Rows, NEW q \in Rows, r < q, q <= queued',
                      row'[r].kind # "reminder", row'[q].kind # "reminder"
               PROVE  r \in superseded' \/ status'[r] = "confirmed"
    BY DEF OrderInv
  <2>0. row[at].kind # "reminder"
    BY DEF IsEdit
  <2>1. CASE q = new
    <3>1. r = at \/ r < at \/ (at < r /\ r <= queued)
      BY <1>1, <1>2, <2>1, DeliveryAssumption DEF Rows, new
    <3>2. r # new /\ row[r].kind # "reminder"
      BY <1>3, <2>1 DEF Rows
    <3> QED
      BY <1>1, <1>2, <1>4, <2>0, <3>1, <3>2 DEF DeliveryInv, OrderInv
  <2>2. CASE q # new
    <3>1. q <= queued /\ r # new
      BY <1>1, <1>2, <2>2, DeliveryAssumption DEF Rows, new
    <3> QED
      BY <1>2, <1>3, <1>4, <2>2, <3>1 DEF DeliveryInv, OrderInv
  <2> QED
    BY <2>1, <2>2
<1>12. ShownInv'
  BY <1>2, <1>3, <1>6 DEF DeliveryInv, ShownInv, FreshInv, Message, IsEdit, chat,
                          Current, Undelivered, InOutbox
<1>13. ResultAwaited'
  <2>1. stage \in {"submitting", "results"}
    BY <1>1 DEF DeliveryInv, ResultAwaited, Presents, IsEdit
  <2> QED
    BY <1>2, <2>1 DEF ResultAwaited, conversation
<1>14. SentOnce' /\ CurrentKept' /\ GivenUpUnknown'
  BY <1>1, <1>2, <1>4 DEF DeliveryInv, SentOnce, CurrentKept, GivenUpUnknown, chat,
                          views
<1> QED
  BY <1>7, <1>8, <1>9, <1>10, <1>11, <1>12, <1>13, <1>14 DEF DeliveryInv

(* The claim of a row, and the passing of five minutes.                    *)
LEMMA ClaimKeeps ==
    ASSUME DeliveryInv, NEW r \in Rows, Claim(r) PROVE DeliveryInv'
<1>1. /\ r \in Current /\ r <= queued /\ status[r] \in {"pending", "attempting", "unknown"}
      /\ at' = r /\ pc' \in {"begin", "lookup"}
      /\ UNCHANGED <<queued, row, superseded, ledger, chat, views, conversation, bounds>>
  BY DEF Claim, Claimable, Take, Current, Undelivered, InOutbox
<1>2. /\ \A q \in Rows : q # r => status'[q] = status[q]
      /\ status'[r] \in {"attempting", "unknown"}
      /\ \A q \in Rows : status'[q] = "confirmed" <=> status[q] = "confirmed"
      /\ status' \in [Rows -> Statuses]
      /\ claim' \in [Rows -> {"free", "held", "aged"}]
  BY <1>1 DEF Claim, DeliveryInv, TypeOK, OutboxTyped, Statuses
<1>3. Current' = Current
  BY <1>1, <1>2 DEF Current, Undelivered, InOutbox
<1>4. TypeOK'
  BY <1>1, <1>2 DEF DeliveryInv, TypeOK, OutboxTyped, ChatTyped, ViewsTyped,
              ConversationTyped, WorkTyped, Steps, InOutbox, chat, views, conversation,
              bounds
<1>5. WorkInv' /\ FreshInv'
  BY <1>1, <1>2, <1>3, DeliveryAssumption
     DEF DeliveryInv, WorkInv, FreshInv, RowSteps, chat, Rows, TypeOK, OutboxTyped
<1>6. LedgerInv' /\ ShownInv'
  BY <1>1, <1>3 DEF DeliveryInv, LedgerInv, ShownInv, Message, IsEdit, chat
<1>7. MessageInv'
  <2> USE DEF Messages
  <2>1. /\ view.msg \in Messages /\ old \in [Rows -> Messages \cup {None}]
        /\ deleted \subseteq Messages
    BY DEF DeliveryInv, TypeOK, ViewsTyped, ChatTyped
  <2> QED
    BY <1>1, <1>2, <2>1 DEF DeliveryInv, MessageInv, IsEdit, chat, views
<1>8. OrderInv'
  BY <1>1, <1>2 DEF DeliveryInv, OrderInv
<1>9. SentOnce' /\ CurrentKept' /\ GivenUpUnknown' /\ ResultAwaited'
  BY <1>1, <1>2, <1>3 DEF DeliveryInv, SentOnce, CurrentKept, GivenUpUnknown,
              ResultAwaited, Presents, chat, views, conversation
<1> QED
  BY <1>4, <1>5, <1>6, <1>7, <1>8, <1>9 DEF DeliveryInv

LEMMA AgeKeeps == ASSUME DeliveryInv, Age PROVE DeliveryInv'
<1>1. /\ pc = "idle" /\ pc' = "idle" /\ at' = at
      /\ UNCHANGED <<queued, row, status, superseded, ledger, chat, view, old,
                     conversation, bounds>>
      /\ claim' \in [Rows -> {"free", "held", "aged"}]
      /\ cleanup' \in [Rows -> {"none", "pending", "claimed", "aged", "attempted"}]
      /\ \A r \in Rows : cleanup'[r] # "none" => cleanup[r] # "none"
  BY DEF Age, work, DeliveryInv, TypeOK, OutboxTyped, ViewsTyped
<1>2. Current' = Current
  BY <1>1 DEF Current, Undelivered, InOutbox
<1>3. TypeOK'
  BY <1>1 DEF DeliveryInv, TypeOK, OutboxTyped, ChatTyped, ViewsTyped,
              ConversationTyped, WorkTyped, InOutbox, chat, conversation, bounds
<1>4. WorkInv' /\ FreshInv' /\ LedgerInv' /\ ShownInv'
  BY <1>1, <1>2 DEF DeliveryInv, WorkInv, FreshInv, LedgerInv, ShownInv, RowSteps,
                    Message, IsEdit, chat
<1>5. MessageInv' /\ OrderInv'
  BY <1>1 DEF DeliveryInv, MessageInv, OrderInv, IsEdit, chat
<1>6. SentOnce' /\ CurrentKept' /\ GivenUpUnknown' /\ ResultAwaited'
  BY <1>1, <1>2 DEF DeliveryInv, SentOnce, CurrentKept, GivenUpUnknown,
              ResultAwaited, Presents, chat, conversation
<1> QED
  BY <1>3, <1>4, <1>5, <1>6 DEF DeliveryInv
-----------------------------------------------------------------------------
(* What is marked is the active view from now on, in a message that was    *)
(* never left: its own, or the one that was active already.                *)
LEMMA Marked ==
    ASSUME DeliveryInv, MarkDelivered
    PROVE  /\ pc = "mark" /\ at \in Rows /\ at \in Current /\ at \notin superseded
           /\ ledger[at] = "confirmed"
           /\ view' = [row |-> at, msg |-> Message(at)] /\ Message(at) \in Messages
           /\ IF IsEdit(at) THEN Message(at) = view.msg
              ELSE Message(at) = at /\ status[at] # "confirmed"
           /\ IF Leaves(at) THEN Outdated(view.row, view.msg)
              ELSE UNCHANGED <<old, cleanup>>
           /\ IF Presents(at) THEN ActivateResult(at) ELSE UNCHANGED conversation
<1>1. pc = "mark" /\ pc \in RowSteps
  BY DEF MarkDelivered, RowSteps
<1>2. /\ at \in Rows /\ at \in Current /\ at \notin superseded
      /\ status[at] # "confirmed" /\ Message(at) \in Messages
  BY <1>1, Busy
<1>3. ledger[at] = "confirmed"
  BY <1>1 DEF DeliveryInv, LedgerInv
<1> QED
  BY <1>1, <1>2, <1>3 DEF MarkDelivered, Activate, TargetLost, Message

LEMMA MarkKeeps == ASSUME DeliveryInv, MarkDelivered PROVE DeliveryInv'
<1>1. /\ pc = "mark" /\ at \in Rows /\ at \in Current /\ at \notin superseded
      /\ at <= queued /\ status[at] # "confirmed" /\ ledger[at] = "confirmed"
      /\ Message(at) \in Messages
  BY Marked DEF Current, Undelivered, InOutbox
<1>2. /\ pc' = "clean" /\ at' = None
      /\ UNCHANGED <<queued, row, superseded, ledger, chat, bounds>>
  BY DEF MarkDelivered, Goto
<1>3. /\ \A r \in Rows : r # at => status'[r] = status[r]
      /\ status'[at] = "confirmed"
      /\ status' \in [Rows -> Statuses]
      /\ claim' \in [Rows -> {"free", "held", "aged"}]
  BY <1>1 DEF MarkDelivered, Settle, DeliveryInv, TypeOK, OutboxTyped, Statuses
<1>4. Current' \subseteq Current
  BY <1>1, <1>2, <1>3 DEF Current, Undelivered, InOutbox
<1>5. /\ view' \in [row : Rows, msg : Messages] /\ view'.msg = Message(at)
      /\ IF IsEdit(at) THEN view'.msg = view.msg ELSE view'.msg = at
  BY <1>1, Marked
<1>6. /\ old' \in [Rows -> Messages \cup {None}]
      /\ cleanup' \in [Rows -> {"none", "pending", "claimed", "aged", "attempted"}]
      /\ \A r \in Rows : old'[r] = old[r] \/ (old'[r] = view.msg /\ ~IsEdit(at))
      /\ \A r \in Rows : cleanup'[r] # "none" => old'[r] # None
  <2>1. /\ view.row \in Rows /\ view.msg \in Messages /\ view.msg # None
        /\ old \in [Rows -> Messages \cup {None}]
        /\ cleanup \in [Rows -> {"none", "pending", "claimed", "aged", "attempted"}]
        /\ \A r \in Rows : cleanup[r] # "none" => old[r] # None
    BY DEF DeliveryInv, TypeOK, ViewsTyped, MessageInv, Messages, Rows, None
  <2>2. CASE Leaves(at)
    BY <2>1, <2>2, Marked DEF Outdated, Leaves
  <2>3. CASE ~Leaves(at)
    BY <2>1, <2>3, Marked
  <2> QED
    BY <2>2, <2>3
<1>7. /\ ConversationTyped' /\ ResultAwaited'
  <2>1. stage' = stage \/ stage' = "results"
    BY Marked DEF ActivateResult, conversation
  <2>2. ConversationTyped'
    BY <1>1, Marked DEF ActivateResult, conversation, DeliveryInv, TypeOK,
                        ConversationTyped, OutboxTyped
  <2> QED
    BY <1>2, <1>4, <2>1, <2>2 DEF DeliveryInv, ResultAwaited, Presents
<1>8. TypeOK'
  BY <1>2, <1>3, <1>5, <1>6, <1>7
     DEF DeliveryInv, TypeOK, OutboxTyped, ChatTyped, ViewsTyped, WorkTyped, Steps,
         InOutbox, chat, bounds
<1>9. WorkInv' /\ FreshInv' /\ LedgerInv'
  BY <1>1, <1>2, <1>3 DEF DeliveryInv, WorkInv, FreshInv, LedgerInv, RowSteps, IsEdit,
                          chat, Rows, TypeOK, OutboxTyped
<1>10. MessageInv'
  <2> USE DEF Messages
  <2>1. /\ view.msg \in Messages /\ old \in [Rows -> Messages \cup {None}]
        /\ deleted \subseteq Messages
    BY DEF DeliveryInv, TypeOK, ViewsTyped, ChatTyped
  <2>2. \A r \in Rows : status[r] = "confirmed" => status'[r] = "confirmed"
    BY <1>3
  <2>3. status'[view'.msg] = "confirmed"
    BY <1>3, <1>5, <2>1, <2>2 DEF DeliveryInv, MessageInv
  <2>4. \A r \in Rows : old'[r] # None => status'[old'[r]] = "confirmed"
    BY <1>6, <2>1, <2>2 DEF DeliveryInv, MessageInv
  <2> QED
    BY <1>2, <1>6, <2>1, <2>2, <2>3, <2>4 DEF DeliveryInv, MessageInv, IsEdit, chat
<1>11. OrderInv'
  BY <1>2, <1>3 DEF DeliveryInv, OrderInv
<1>12. ShownInv'
  BY <1>2, <1>4 DEF DeliveryInv, ShownInv, Message, IsEdit, chat
<1>13. CurrentKept'
  <2>1. /\ \A r \in Rows : old[r] # None => status[old[r]] = "confirmed"
        /\ \A m \in deleted : status[m] = "confirmed"
        /\ status[view.msg] = "confirmed"
        /\ at # None
    BY <1>1 DEF DeliveryInv, MessageInv, Rows, None
  <2>2. CASE IsEdit(at)
    BY <1>2, <1>5, <1>6, <2>2 DEF DeliveryInv, CurrentKept, chat
  <2>3. CASE ~IsEdit(at)
    BY <1>1, <1>2, <1>5, <1>6, <2>1, <2>3 DEF CurrentKept, chat
  <2> QED
    BY <2>2, <2>3
<1>14. SentOnce' /\ GivenUpUnknown'
  BY <1>2, <1>3 DEF DeliveryInv, SentOnce, GivenUpUnknown, chat
<1> QED
  BY <1>7, <1>8, <1>9, <1>10, <1>11, <1>12, <1>13, <1>14 DEF DeliveryInv

(* Old views are claimed, deleted and settled.                             *)
LEMMA CleanKeeps ==
    ASSUME DeliveryInv,
           (\E r \in Rows : ClaimCleanup(r)) \/ DeleteMessage \/ MarkCleaned
    PROVE  DeliveryInv'
<1> DEFINE CleanStep ==
         /\ pc' \in {"delete", "cleaned", "idle"}
         /\ at' \in Rows \cup {None}
         /\ pc' \in {"delete", "cleaned"} => at' \in Rows /\ old[at'] \in Messages
         /\ cleanup' \in [Rows -> {"none", "pending", "claimed", "aged", "attempted"}]
         /\ \A r \in Rows : cleanup'[r] # "none" => old[r] # None
         /\ deleted' = deleted \/
               (\E r \in Rows : old[r] \in Messages /\ deleted' = deleted \cup {old[r]})
         /\ UNCHANGED <<outbox, ledger, sends, shows, view, old, conversation, reminders>>
         /\ faults' \in 0..MaxFaults
<1>1. CleanStep
  <2>1. /\ cleanup \in [Rows -> {"none", "pending", "claimed", "aged", "attempted"}]
        /\ old \in [Rows -> Messages \cup {None}] /\ faults \in 0..MaxFaults
        /\ \A r \in Rows : cleanup[r] # "none" => old[r] # None
        /\ pc \in {"delete", "cleaned"} => at \in Rows /\ old[at] \in Messages
        /\ at \in Rows \cup {None} /\ None \notin Messages
    BY DEF DeliveryInv, TypeOK, ViewsTyped, WorkTyped, MessageInv, WorkInv, Messages,
           Rows, None
  <2>2. ASSUME NEW r \in Rows, ClaimCleanup(r)
        PROVE  CleanStep
    BY <2>1, <2>2 DEF ClaimCleanup, Take, chat, bounds
  <2>3. CASE DeleteMessage
    BY <2>1, <2>3, DeliveryAssumption DEF DeleteMessage, MayFail, Goto, views, bounds
  <2>4. CASE MarkCleaned
    BY <2>1, <2>4 DEF MarkCleaned, Goto, chat, bounds
  <2> QED
    BY <2>2, <2>3, <2>4
<1>2. Current' = Current
  BY <1>1 DEF Current, Undelivered, InOutbox, outbox
<1>3. TypeOK'
  BY <1>1 DEF DeliveryInv, TypeOK, OutboxTyped, ChatTyped, ViewsTyped,
              ConversationTyped, WorkTyped, Steps, InOutbox, outbox, conversation
<1>4. WorkInv' /\ FreshInv' /\ LedgerInv' /\ ShownInv'
  BY <1>1, <1>2 DEF DeliveryInv, WorkInv, FreshInv, LedgerInv, ShownInv, RowSteps,
                    Message, IsEdit, outbox
<1>5. MessageInv' /\ CurrentKept'
  <2>1. \A r \in Rows : old[r] \in Messages => old[r] # None /\ old[r] # view.msg
    BY DEF DeliveryInv, CurrentKept, Messages, Rows, None
  <2> QED
    BY <1>1, <2>1 DEF DeliveryInv, MessageInv, CurrentKept, IsEdit, outbox
<1>6. OrderInv' /\ SentOnce' /\ GivenUpUnknown' /\ ResultAwaited'
  BY <1>1, <1>2 DEF DeliveryInv, OrderInv, SentOnce, GivenUpUnknown, ResultAwaited,
                    Presents, outbox, conversation
<1> QED
  BY <1>3, <1>4, <1>5, <1>6 DEF DeliveryInv

(* deliver_pending outside of a row: nothing to claim or to clean, the     *)
(* confirmation that raises, and the end of the process elsewhere than in  *)
(* a request.                                                              *)
LEMMA PauseKeeps ==
    ASSUME DeliveryInv, pc' \in {"idle", "clean"}, WorkTyped',
           UNCHANGED <<outbox, ledger, chat, views, conversation>>
    PROVE  DeliveryInv'
<1>1. TypeOK /\ DeliveryCore
  BY DEF DeliveryInv, DeliveryCore
<1>2. /\ OutboxTyped' /\ ChatTyped' /\ ViewsTyped' /\ DeliveryCore'
      /\ Current' = Current
  BY <1>1, IdleKeeps
<1>3. ConversationTyped' /\ ResultAwaited'
  BY <1>2 DEF DeliveryInv, TypeOK, ConversationTyped, ResultAwaited, Presents,
              conversation, outbox
<1> QED
  BY <1>2, <1>3 DEF DeliveryInv, DeliveryCore, TypeOK

LEMMA DeliverKeeps == ASSUME DeliveryInv, Deliver PROVE DeliveryInv'
<1>0. WorkTyped /\ pc \in Steps
  BY DEF DeliveryInv, TypeOK, WorkTyped
<1>00. MayFail \/ UNCHANGED bounds => reminders' = reminders /\ faults' \in 0..MaxFaults
  BY <1>0, DeliveryAssumption DEF WorkTyped, MayFail, bounds
<1>1. ASSUME NEW r \in Rows, Claim(r) PROVE DeliveryInv'
  BY <1>1, ClaimKeeps
<1>2. CASE NothingToDeliver \/ NothingToClean \/ MarkRaises
  <2>1. /\ UNCHANGED <<outbox, ledger, chat, views, conversation, bounds>>
        /\ pc' \in {"idle", "clean"} /\ at' = None
    BY <1>2 DEF NothingToDeliver, NothingToClean, MarkRaises, Goto
  <2>2. WorkTyped'
    BY <1>0, <2>1 DEF WorkTyped, Steps, bounds
  <2> QED
    BY <2>1, <2>2, PauseKeeps
<1>3. CASE Begin
  <2>1. /\ pc = "begin" /\ at' = at /\ pc' \in RowSteps \ {"confirm"}
        /\ UNCHANGED <<outbox, chat, views, conversation, bounds>>
    BY <1>3 DEF Begin, Goto, RowSteps
  <2>2. /\ at \in Rows /\ at \in Current /\ ledger \in [Rows ->
               {"none", "pending", "attempting", "unknown", "confirmed"}]
    BY <2>1, Busy DEF RowSteps, DeliveryInv, TypeOK, ChatTyped
  <2>3. WorkTyped'
    BY <1>0, <2>1 DEF WorkTyped, Steps, RowSteps, bounds
  <2>4. CASE ledger[at] \in {"none", "pending"}
    <3>1. ledger' = [ledger EXCEPT ![at] = "attempting"] /\ pc' = "request"
      BY <1>3, <2>4 DEF Begin, Goto
    <3>2. sends[at] = 0
      BY <2>2, <2>4 DEF DeliveryInv, LedgerInv
    <3> QED
      BY <2>1, <2>3, <3>1, <3>2, RecordKeeps DEF RowSteps
  <2>5. CASE ledger[at] \notin {"none", "pending"}
    <3>1. /\ ledger' = [ledger EXCEPT ![at] = ledger[at]]
          /\ pc' = IF ledger[at] = "confirmed" THEN "mark" ELSE "unknown"
      BY <1>3, <2>5 DEF Begin, Goto
    <3>2. ledger[at] = "confirmed" => shows[Message(at)] = at
      BY <2>2 DEF DeliveryInv, ShownInv
    <3>3. ledger[at] \in {"none", "pending", "attempting", "unknown", "confirmed"}
      BY <2>2
    <3>4. pc \in RowSteps /\ pc' # "request" /\ (pc' = "mark" => ledger[at] = "confirmed")
      BY <2>1, <3>1 DEF RowSteps
    <3> QED
      BY <2>1, <2>3, <2>5, <3>1, <3>2, <3>3, <3>4, RecordKeeps
  <2> QED
    BY <2>4, <2>5
<1>4. CASE Answered
  <2>1. /\ pc = "request" /\ Perform(at) /\ at' = at /\ pc' = "confirm"
        /\ UNCHANGED <<outbox, ledger, views, conversation, bounds>>
    BY <1>4 DEF Answered, Goto
  <2>2. WorkTyped'
    BY <1>0, <2>1 DEF WorkTyped, Steps, bounds
  <2> QED
    BY <2>1, <2>2, RequestKeeps
<1>5. CASE Refused
  <2>1. /\ pc = "request" /\ pc' \in {"refused", "lookup"} /\ at' = at
        /\ ledger' = [ledger EXCEPT ![at] = "pending"]
        /\ UNCHANGED <<outbox, chat, views, conversation>>
        /\ MayFail \/ UNCHANGED bounds
    BY <1>5 DEF Refused, Goto
  <2>2. WorkTyped'
    BY <1>0, <1>00, <2>1 DEF WorkTyped, Steps
  <2>3. sends[at] = 0
    BY <2>1, Busy DEF DeliveryInv, LedgerInv, RowSteps
  <2> QED
    BY <2>1, <2>2, <2>3, RecordKeeps DEF RowSteps
<1>6. CASE Lost
  <2>1. /\ pc = "request" /\ pc' = "unknown" /\ at' = at
        /\ ledger' = [ledger EXCEPT ![at] = "unknown"]
        /\ Perform(at) \/ UNCHANGED chat
        /\ UNCHANGED <<outbox, views, conversation>> /\ MayFail
    BY <1>6 DEF Lost, Goto
  <2>2. WorkTyped'
    BY <1>0, <1>00, <2>1 DEF WorkTyped, Steps
  <2> QED
    BY <2>1, <2>2, RequestKeeps
<1>7. CASE Confirm
  <2>1. /\ pc = "confirm" /\ pc' = "mark" /\ at' = at
        /\ ledger' = [ledger EXCEPT ![at] = "confirmed"]
        /\ UNCHANGED <<outbox, chat, views, conversation, bounds>>
    BY <1>7 DEF Confirm, Goto
  <2>2. WorkTyped' /\ shows[Message(at)] = at
    BY <1>0, <2>1 DEF WorkTyped, Steps, bounds, DeliveryInv, ShownInv
  <2> QED
    BY <2>1, <2>2, RecordKeeps DEF RowSteps
<1>8. CASE Release \/ MarkUnknown \/ (LookUp /\ ledger[at] # "confirmed")
  <2>1. /\ pc \in RowSteps /\ pc' = "idle" /\ at' = None
        /\ UNCHANGED <<queued, row, superseded, ledger, chat, views, conversation,
                       bounds>>
        /\ \E outcome \in {"pending", "unknown", "given_up"} :
               /\ Settle(at, outcome)
               /\ outcome = "given_up" => ledger[at] # "confirmed"
    BY <1>8 DEF Release, MarkUnknown, LookUp, Goto, RowSteps
  <2>2. WorkTyped'
    BY <1>0, <2>1 DEF WorkTyped, Steps, bounds
  <2> QED
    BY <2>1, <2>2, SettleKeeps
<1>9. CASE (LookUp \/ LookUpEdit) /\ ledger[at] = "confirmed"
  <2>1. /\ pc = "lookup" /\ pc' = "mark" /\ at' = at
        /\ UNCHANGED <<outbox, ledger, chat, views, conversation, bounds>>
    BY <1>9 DEF LookUp, LookUpEdit, Goto, outbox
  <2>2. at \in Rows /\ at \in Current
    BY <2>1, Busy DEF RowSteps
  <2>3. ledger' = [ledger EXCEPT ![at] = "confirmed"] /\ shows[Message(at)] = at
    BY <1>9, <2>1, <2>2 DEF DeliveryInv, TypeOK, ChatTyped, ShownInv
  <2>4. WorkTyped'
    BY <1>0, <2>1 DEF WorkTyped, Steps, bounds
  <2> QED
    BY <2>1, <2>3, <2>4, RecordKeeps DEF RowSteps
<1>10. CASE LookUpEdit /\ ledger[at] # "confirmed"
  <2>1. /\ pc = "lookup" /\ pc' = "request" /\ at' = at /\ IsEdit(at)
        /\ ledger' = [ledger EXCEPT ![at] = "attempting"]
        /\ UNCHANGED <<outbox, chat, views, conversation, bounds>>
    BY <1>10 DEF LookUpEdit, Goto
  <2>2. WorkTyped'
    BY <1>0, <2>1 DEF WorkTyped, Steps, bounds
  <2> QED
    BY <2>1, <2>2, RecordKeeps DEF RowSteps
<1>11. CASE ReplaceRefused \/ ReplaceUnknown
  BY <1>11, ReplaceKeeps DEF ReplaceRefused, ReplaceUnknown, RowSteps
<1>12. CASE MarkDelivered
  BY <1>12, MarkKeeps
<1>13. CASE (\E r \in Rows : ClaimCleanup(r)) \/ DeleteMessage \/ MarkCleaned
  BY <1>13, CleanKeeps
<1> QED
  BY <1>1, <1>2, <1>3, <1>4, <1>5, <1>6, <1>7, <1>8, <1>9, <1>10, <1>11, <1>12, <1>13
     DEF Deliver

LEMMA CrashKeeps == ASSUME DeliveryInv, Crash PROVE DeliveryInv'
<1>1. /\ (pc = "request" /\ Perform(at)) \/ UNCHANGED chat
      /\ MayFail /\ pc' = "idle" /\ at' = None
      /\ UNCHANGED <<outbox, ledger, views, conversation>>
  BY DEF Crash, Goto
<1>2. WorkTyped'
  BY <1>1, DeliveryAssumption DEF DeliveryInv, TypeOK, WorkTyped, Steps, MayFail
<1>3. CASE pc = "request"
  BY <1>1, <1>2, <1>3, RequestKeeps
<1>4. CASE pc # "request"
  BY <1>1, <1>2, <1>4, PauseKeeps
<1> QED
  BY <1>3, <1>4

LEMMA DeliveryInit == Init => DeliveryInv
<1> SUFFICES ASSUME Init PROVE DeliveryInv
  OBVIOUS
<1> USE DeliveryAssumption DEF Init
<1>1. 1 \in Rows /\ queued = 1 /\ MaxRows \in Nat \ {0}
  BY DEF Rows
<1>2. row \in [Rows -> [kind : Kinds, rev : Nat, target : Messages \cup {None}]]
  BY DEF NoRow, Kinds
<1>3. TypeOK
  BY <1>1, <1>2 DEF TypeOK, OutboxTyped, ChatTyped, ViewsTyped, ConversationTyped,
                    WorkTyped, Statuses, Steps, Messages, InOutbox
<1>4. WorkInv /\ FreshInv /\ LedgerInv /\ SentOnce /\ GivenUpUnknown
  BY <1>1 DEF WorkInv, FreshInv, LedgerInv, SentOnce, GivenUpUnknown, RowSteps, Rows,
              IsEdit, NoRow
<1>5. MessageInv /\ CurrentKept
  BY <1>1 DEF MessageInv, CurrentKept, IsEdit, NoRow, None
<1>6. Current = {}
  BY <1>1 DEF Current, Undelivered, InOutbox, Rows
<1>7. OrderInv /\ ShownInv /\ ResultAwaited
  BY <1>1, <1>6 DEF OrderInv, ShownInv, ResultAwaited, Rows
<1> QED
  BY <1>3, <1>4, <1>5, <1>7 DEF DeliveryInv

LEMMA DeliveryNext == DeliveryInv /\ [Next]_vars => DeliveryInv'
<1> SUFFICES ASSUME DeliveryInv, [Next]_vars PROVE DeliveryInv'
  OBVIOUS
<1>1. CASE Update
  BY <1>1, UpdateKeeps
<1>2. CASE AnswerSearch \/ Remind
  BY <1>2, ConsumedKeeps
<1>3. CASE Deliver
  BY <1>3, DeliverKeeps
<1>4. CASE Crash
  BY <1>4, CrashKeeps
<1>5. CASE Age
  BY <1>5, AgeKeeps
<1>6. CASE UNCHANGED vars
  BY <1>6 DEF vars, outbox, chat, views, conversation, work, bounds,
     DeliveryInv, TypeOK, OutboxTyped, ChatTyped, ViewsTyped, ConversationTyped,
     WorkTyped, InOutbox, WorkInv, FreshInv, LedgerInv, MessageInv, OrderInv,
     ShownInv, SentOnce, CurrentKept, GivenUpUnknown, ResultAwaited, Current,
     Undelivered, IsEdit, Message, Presents
<1> QED
  BY <1>1, <1>2, <1>3, <1>4, <1>5, <1>6 DEF Next
-----------------------------------------------------------------------------
(* The inductive invariant, for any number of rows, reminders and faults.  *)
THEOREM DeliveryInvariant == Spec => []DeliveryInv
<1>1. Init => DeliveryInv
  BY DeliveryInit
<1>2. DeliveryInv /\ [Next]_vars => DeliveryInv'
  BY DeliveryNext
<1> QED
  BY <1>1, <1>2, PTL DEF Spec

(* Every variable keeps its type and the active view its row and message.  *)
THEOREM DeliveryTyped == Spec => []TypeOK
<1>1. DeliveryInv => TypeOK
  BY DEF DeliveryInv
<1> QED
  BY <1>1, DeliveryInvariant, PTL

(* deliver_pending and the ledger never make Telegram perform a send of    *)
(* the same row twice.                                                     *)
THEOREM NoDoubleSend == Spec => []SentOnce
<1>1. DeliveryInv => SentOnce
  BY DEF DeliveryInv
<1> QED
  BY <1>1, DeliveryInvariant, PTL

(* The cleanup of old views never takes the message that is current.       *)
THEOREM ActiveMessageKept == Spec => []CurrentKept
<1>1. DeliveryInv => CurrentKept
  BY DEF DeliveryInv
<1> QED
  BY <1>1, DeliveryInvariant, PTL

(* mark_conversation_message_delivered never raises for the stage: a       *)
(* waiting result finds the account submitting or in its results.          *)
THEOREM ResultsAreAwaited == Spec => []ResultAwaited
<1>1. DeliveryInv => ResultAwaited
  BY DEF DeliveryInv
<1> QED
  BY <1>1, DeliveryInvariant, PTL

(* No row that the ledger has confirmed is given up.                       *)
THEOREM ConfirmedNotGivenUp == Spec => []GivenUpUnknown
<1>1. DeliveryInv => GivenUpUnknown
  BY DEF DeliveryInv
<1> QED
  BY <1>1, DeliveryInvariant, PTL

(* Only the confirmation changes the active view.                          *)
LEMMA ViewByMark ==
    ASSUME DeliveryInv, [Next]_vars, view' # view PROVE MarkDelivered
<1>1. ~(Update \/ AnswerSearch \/ Remind \/ Crash \/ Age \/ UNCHANGED vars)
  BY DEF Update, OpenScreen, Submit, StartAgain, OpenResults, RedrawResult, Redraw,
         Ask, Navigate, Ignored, Handled, AnswerSearch, SearchCompletes, SearchFails,
         Remind, Consumed, Crash, Age, views, vars
<1> QED
  BY <1>1 DEF Next, Deliver, Claim, ClaimCleanup, NothingToDeliver, Begin, Answered,
         Refused, Lost, Confirm, Release, ReplaceRefused, ReplaceUnknown, ReplaceEdit,
         MarkUnknown, LookUp, LookUpEdit, MarkRaises, NothingToClean, DeleteMessage,
         MarkCleaned, views

(* Whatever becomes the active view is what Telegram shows in its message. *)
THEOREM ViewIsShown == Spec => ActivatedAsShown
<1>1. ASSUME DeliveryInv, [Next]_vars
      PROVE  [view' # view => shows[view'.msg] = view'.row]_vars
  <2>1. CASE view' # view
    <3>1. MarkDelivered
      BY <1>1, <2>1, ViewByMark
    <3> QED
      BY <1>1, <3>1, Marked DEF DeliveryInv, ShownInv
  <2> QED
    BY <2>1
<1> QED
  BY <1>1, DeliveryInvariant, PTL DEF Spec, ActivatedAsShown

(* No screen is activated after a younger one has been.                    *)
THEOREM NoScreenComesBack == Spec => ScreensGoForward
<1> DEFINE Forward ==
        view'.row # view.row /\ row[view'.row].kind # "reminder" =>
            \A r \in Rows : r > view'.row /\ status[r] = "confirmed"
                               => row[r].kind = "reminder"
<1>1. ASSUME DeliveryInv, [Next]_vars PROVE Forward
  <2>1. SUFFICES ASSUME view'.row # view.row, row[view'.row].kind # "reminder",
                        NEW r \in Rows, r > view'.row, status[r] = "confirmed"
                 PROVE  row[r].kind = "reminder"
    OBVIOUS
  <2>2. MarkDelivered
    BY <1>1, <2>1, ViewByMark
  <2>3. /\ view'.row = at /\ at \in Rows /\ at \in Current /\ at \notin superseded
        /\ status[at] # "confirmed"
    BY <1>1, <2>2, Marked DEF Current, Undelivered
  <2>4. r <= queued /\ at < r
    BY <1>1, <2>1, <2>3, DeliveryAssumption
       DEF DeliveryInv, TypeOK, OutboxTyped, FreshInv, Rows
  <2> QED
    BY <1>1, <2>1, <2>3, <2>4 DEF DeliveryInv, OrderInv
<1> QED
  BY <1>1, DeliveryInvariant, PTL DEF Spec, ScreensGoForward
-----------------------------------------------------------------------------
(* Why the buttons answer.  As long as no reminder was queued, what waits  *)
(* carries the revision of the account or brings its own when it is        *)
(* activated.  (A search under way has moved the account on already.)      *)
ControlInv ==
    reminders = 0 =>
        /\ \A r \in Rows : row[r].kind # "reminder"
        /\ stage # "submitting" =>
               \A r \in Current : row[r].rev = screen \/ Presents(r)
        /\ ControlsAnswer

(* Without reminders only one row waits.                                   *)
LEMMA OneWaits ==
    ASSUME DeliveryInv, ControlInv, reminders = 0, NEW r \in Current, NEW q \in Current
    PROVE  r = q
<1>1. /\ r \in Rows /\ r <= queued /\ r \notin superseded /\ status[r] # "confirmed"
      /\ q \in Rows /\ q <= queued /\ q \notin superseded /\ status[q] # "confirmed"
      /\ row[r].kind # "reminder" /\ row[q].kind # "reminder"
  BY DEF Current, Undelivered, InOutbox, ControlInv
<1>2. ~(r < q) /\ ~(q < r)
  BY <1>1 DEF DeliveryInv, OrderInv
<1> QED
  BY <1>1, <1>2, DeliveryAssumption DEF Rows

(* A new screen takes the place of what waited.                            *)
LEMMA QueuedAnswers ==
    ASSUME DeliveryInv, ControlInv, view' = view, reminders' = reminders,
           NEW kind \in Kinds \ {"reminder"}, NEW rev, NEW target,
           Queue(kind, rev, target),
           stage' # "submitting" => rev = screen' \/ kind \in {"search", "edit"}
    PROVE  ControlInv'
<1> DEFINE new == queued + 1
<1>1. /\ new \in Rows /\ new > queued /\ queued' = new /\ status' = status
      /\ row' = [row EXCEPT ![new] = [kind |-> kind, rev |-> rev, target |-> target]]
      /\ superseded' = SupersededNow
  BY DeliveryAssumption DEF Queue, Insert, DeliveryInv, TypeOK, OutboxTyped, Rows
<1> HIDE DEF new
<1>2. /\ row'[new].kind = kind /\ row'[new].rev = rev
      /\ \A r \in Rows : r # new => row'[r] = row[r]
  BY <1>1 DEF DeliveryInv, TypeOK, OutboxTyped
<1>3. new \notin superseded' /\ status'[new] = "pending"
  BY <1>1 DEF SupersededNow, Undelivered, InOutbox, DeliveryInv, TypeOK, OutboxTyped,
              FreshInv, Rows
<1>4. Current' = {new}
  BY <1>1, <1>3 DEF Current, Undelivered, InOutbox, SupersededNow, Rows, TypeOK,
                    DeliveryInv, OutboxTyped, new
<1> QED
  BY <1>2, <1>4 DEF ControlInv, ControlsAnswer, Presents

(* A step that leaves what waits and what is shown alone.                  *)
LEMMA StillAnswers ==
    ASSUME ControlInv, UNCHANGED <<row, view, reminders>>, Current' = Current,
           stage' = "submitting" \/ UNCHANGED <<stage, screen>>
    PROVE  ControlInv'
BY DEF ControlInv, ControlsAnswer, Presents

(* So do the steps that claim, send or give up a row.                      *)
LEMMA SettledAnswers ==
    ASSUME DeliveryInv, ControlInv, UNCHANGED <<queued, row, superseded, view>>,
           UNCHANGED <<stage, screen, reminders>>,
           NEW r \in Rows, status[r] # "confirmed",
           NEW outcome \in Statuses \ {"confirmed"},
           status' = [status EXCEPT ![r] = outcome]
    PROVE  ControlInv'
<1>1. \A q \in Rows : status'[q] = "confirmed" <=> status[q] = "confirmed"
  BY DEF DeliveryInv, TypeOK, OutboxTyped
<1>2. Current' = Current
  BY <1>1 DEF Current, Undelivered, InOutbox
<1> QED
  BY <1>2, StillAnswers

(* Updates of the Bot User and the contracts they wait for.                *)
LEMMA UpdateAnswers ==
    ASSUME DeliveryInv, ControlInv, Update \/ AnswerSearch \/ Remind PROVE ControlInv'
<1> USE DEF Kinds
<1>1. CASE Submit
  <2>1. Current' = Current
    BY <1>1 DEF Submit, outbox, Current, Undelivered, InOutbox
  <2> QED
    BY <1>1, <2>1, StillAnswers DEF Submit, outbox, views, bounds
<1>2. CASE Ignored
  <2>1. Current' = Current
    BY <1>2 DEF Ignored, outbox, Current, Undelivered, InOutbox
  <2> QED
    BY <1>2, <2>1, StillAnswers DEF Ignored, Handled, outbox, views, bounds, conversation
<1>3. CASE Remind
  <2>1. reminders \in Nat /\ reminders' = reminders + 1
    BY <1>3, DeliveryAssumption DEF Remind, DeliveryInv, TypeOK, WorkTyped
  <2> QED
    BY <2>1 DEF ControlInv
<1>4. CASE OpenScreen \/ SearchFails
  <2>1. /\ Queue("screen", screen + 1, None) /\ screen' = screen + 1
        /\ view' = view /\ reminders' = reminders
    BY <1>4 DEF OpenScreen, SearchFails, Handled, Consumed, views, bounds
  <2> QED
    BY <2>1, QueuedAnswers
<1>5. CASE StartAgain
  <2>1. /\ Queue("screen", screen + 1, None) /\ screen' = screen + 1
        /\ view' = view /\ reminders' = reminders
    BY <1>5 DEF StartAgain, Handled, views, bounds
  <2> QED
    BY <2>1, QueuedAnswers
<1>6. CASE Redraw \/ Ask
  <2>1. /\ Queue("screen", screen, None) /\ screen' = screen
        /\ view' = view /\ reminders' = reminders
    BY <1>6 DEF Redraw, Ask, Handled, views, bounds, conversation
  <2> QED
    BY <2>1, QueuedAnswers
<1>7. CASE \E rev \in {screen, screen + 1} : RedrawResult(rev)
  <2>1. PICK rev \in {screen, screen + 1} : RedrawResult(rev)
    BY <1>7
  <2>2. Queue("search", rev, None) /\ view' = view /\ reminders' = reminders
    BY <2>1 DEF RedrawResult, Handled, views, bounds
  <2> QED
    BY <2>2, QueuedAnswers
<1>8. CASE OpenResults \/ SearchCompletes
  <2>1. Queue("search", screen + 1, None) /\ view' = view /\ reminders' = reminders
    BY <1>8 DEF OpenResults, SearchCompletes, Handled, Consumed, views, bounds
  <2> QED
    BY <2>1, QueuedAnswers
<1>9. CASE Navigate
  <2>1. Queue("edit", screen + 1, view.msg) /\ view' = view /\ reminders' = reminders
    BY <1>9 DEF Navigate, Handled, views, bounds
  <2> QED
    BY <2>1, QueuedAnswers
<1> QED
  BY <1>1, <1>2, <1>3, <1>4, <1>5, <1>6, <1>7, <1>8, <1>9 DEF Update, AnswerSearch

(* An edit that is replaced brings its revision with the new row.          *)
LEMMA ReplaceAnswers ==
    ASSUME DeliveryInv, ControlInv, pc \in RowSteps, ReplaceEdit
    PROVE  ControlInv'
<1> DEFINE new == queued + 1
<1>1. at \in Rows /\ at \in Current /\ at <= queued
  BY Busy
<1>2. /\ new \in Rows /\ new > queued /\ queued' = new /\ new # at
      /\ row' = [row EXCEPT ![new] =
                     [kind |-> "search", rev |-> row[at].rev, target |-> None]]
      /\ superseded' = superseded \cup {at}
      /\ status' = [status EXCEPT ![at] = "pending"]
      /\ UNCHANGED <<view, stage, screen, reminders>>
  BY <1>1, DeliveryAssumption
     DEF ReplaceEdit, Settle, DeliveryInv, TypeOK, OutboxTyped, Rows, views,
         conversation, bounds
<1> HIDE DEF new
<1>3. /\ row'[new].kind = "search" /\ \A r \in Rows : r # new => row'[r] = row[r]
      /\ \A r \in Rows : r # at => status'[r] = status[r]
  BY <1>1, <1>2 DEF DeliveryInv, TypeOK, OutboxTyped
<1>4. status'[new] = "pending" /\ new \notin superseded'
  <2>1. status[new] = "pending"
    BY <1>2 DEF DeliveryInv, FreshInv
  <2>2. \A r \in superseded : r <= queued
    BY DEF DeliveryInv, TypeOK, OutboxTyped, InOutbox
  <2>3. ~(new <= queued)
    BY <1>1, <1>2, DeliveryAssumption DEF Rows, DeliveryInv, TypeOK, OutboxTyped
  <2> QED
    BY <1>2, <1>3, <2>1, <2>2, <2>3
<1>5. new \in Current'
  BY <1>2, <1>4 DEF Current, Undelivered, InOutbox, Rows, DeliveryInv, TypeOK,
                    OutboxTyped
<1>6. ASSUME NEW r \in Current', r # new PROVE r \in Current /\ r # at
  BY <1>1, <1>2, <1>3, <1>6
     DEF Current, Undelivered, InOutbox, Rows, DeliveryInv, TypeOK, OutboxTyped, new
<1>7. Current' \subseteq Rows
  BY DEF Current, Undelivered, InOutbox, Rows
<1> QED
  BY <1>2, <1>3, <1>5, <1>6, <1>7 DEF ControlInv, ControlsAnswer, Presents

(* A confirmation shows the one row that waited.                           *)
LEMMA MarkAnswers ==
    ASSUME DeliveryInv, ControlInv, MarkDelivered PROVE ControlInv'
<1>1. /\ at \in Rows /\ at \in Current
      /\ view'.row = at
      /\ IF Presents(at) THEN ActivateResult(at) ELSE UNCHANGED conversation
  BY Marked
<1>2. /\ UNCHANGED <<queued, row, superseded, reminders>>
      /\ status' = [status EXCEPT ![at] = "confirmed"]
  BY DEF MarkDelivered, Settle, bounds
<1>3. reminders = 0 => Current' = {}
  <2>1. Current' \subseteq Current /\ at \notin Current'
    BY <1>1, <1>2 DEF Current, Undelivered, InOutbox, DeliveryInv, TypeOK, OutboxTyped
  <2> QED
    BY <1>1, <2>1, OneWaits
<1>4. CASE Presents(at)
  BY <1>1, <1>2, <1>3, <1>4 DEF ActivateResult, ControlInv, ControlsAnswer
<1>5. CASE ~Presents(at)
  BY <1>1, <1>2, <1>3, <1>5 DEF conversation, ControlInv, ControlsAnswer
<1> QED
  BY <1>4, <1>5

(* deliver_pending, the end of the process and the passing of time.        *)
LEMMA DeliverAnswers ==
    ASSUME DeliveryInv, ControlInv, Deliver \/ Crash \/ Age PROVE ControlInv'
<1>1. CASE MarkDelivered
  BY <1>1, MarkAnswers
<1>2. CASE ReplaceRefused \/ ReplaceUnknown
  BY <1>2, ReplaceAnswers DEF ReplaceRefused, ReplaceUnknown, RowSteps
<1>3. ASSUME NEW r \in Rows, Claim(r) PROVE ControlInv'
  <2>1. /\ status[r] # "confirmed"
        /\ UNCHANGED <<queued, row, superseded, view, stage, screen, reminders>>
        /\ \E outcome \in {"attempting", "unknown"} :
               status' = [status EXCEPT ![r] = outcome]
    BY <1>3 DEF Claim, Claimable, Current, Undelivered, views, conversation, bounds,
                DeliveryInv, TypeOK, OutboxTyped
  <2> QED
    BY <2>1, SettledAnswers DEF Statuses
<1>4. CASE Release \/ MarkUnknown \/ (LookUp /\ ledger[at] # "confirmed")
  <2>1. /\ UNCHANGED <<queued, row, superseded, view, stage, screen, reminders>>
        /\ \E outcome \in {"pending", "unknown", "given_up"} : Settle(at, outcome)
        /\ pc \in RowSteps
    BY <1>4 DEF Release, MarkUnknown, LookUp, RowSteps, views, conversation, bounds
  <2>2. at \in Rows /\ status[at] # "confirmed"
    BY <2>1, Busy
  <2> QED
    BY <2>1, <2>2, SettledAnswers DEF Settle, Statuses
<1>5. ASSUME UNCHANGED <<queued, row, status, superseded>>, view' = view,
             UNCHANGED <<stage, screen, reminders>>
      PROVE  ControlInv'
  <2>1. Current' = Current
    BY <1>5 DEF Current, Undelivered, InOutbox
  <2> QED
    BY <1>5, <2>1, StillAnswers
<1>6. CASE NothingToDeliver \/ NothingToClean \/ MarkRaises \/ Begin
  BY <1>5, <1>6 DEF NothingToDeliver, NothingToClean, MarkRaises, Begin, outbox, views,
                    conversation, bounds
<1>7. CASE Answered \/ Refused \/ Lost \/ Confirm \/ Crash
  BY <1>5, <1>7 DEF Answered, Refused, Lost, Confirm, Crash, MayFail, outbox, views,
                    conversation, bounds
<1>8. CASE LookUpEdit \/ (LookUp /\ ledger[at] = "confirmed")
  BY <1>5, <1>8 DEF LookUpEdit, LookUp, outbox, views, conversation, bounds
<1>9. CASE (\E r \in Rows : ClaimCleanup(r)) \/ DeleteMessage \/ MarkCleaned \/ Age
  BY <1>5, <1>9 DEF ClaimCleanup, DeleteMessage, MayFail, MarkCleaned, Age, outbox,
                    views, conversation, bounds
<1> QED
  BY <1>1, <1>2, <1>3, <1>4, <1>6, <1>7, <1>8, <1>9 DEF Deliver

(* When nothing waits, the buttons the Bot User sees are those that the    *)
(* handlers accept, for any number of screens, faults and interruptions.   *)
THEOREM ButtonsAnswer == Spec => []ControlsAnswer
<1>1. Init => ControlInv
  <2> SUFFICES ASSUME Init PROVE ControlInv
    OBVIOUS
  <2>1. 1 \in Rows
    BY DeliveryAssumption DEF Rows
  <2>2. Current = {}
    BY <2>1 DEF Init, Current, Undelivered, InOutbox, Rows
  <2> QED
    BY <2>1, <2>2 DEF Init, NoRow, ControlInv, ControlsAnswer
<1>2. DeliveryInv /\ ControlInv /\ [Next]_vars => ControlInv'
  <2> SUFFICES ASSUME DeliveryInv, ControlInv, [Next]_vars PROVE ControlInv'
    OBVIOUS
  <2>1. CASE Update \/ AnswerSearch \/ Remind
    BY <2>1, UpdateAnswers
  <2>2. CASE Deliver \/ Crash \/ Age
    BY <2>2, DeliverAnswers
  <2>3. CASE UNCHANGED vars
    <3>1. Current' = Current
      BY <2>3 DEF vars, outbox, Current, Undelivered, InOutbox
    <3> QED
      BY <2>3, <3>1, StillAnswers DEF vars, outbox, views, conversation, bounds
  <2> QED
    BY <2>1, <2>2, <2>3 DEF Next
<1>3. DeliveryInv /\ ControlInv => ControlsAnswer
  <2> SUFFICES ASSUME ControlInv PROVE ControlsAnswer
    OBVIOUS
  <2> QED
    BY DEF ControlInv, ControlsAnswer
<1> QED
  BY <1>1, <1>2, <1>3, DeliveryInvariant, PTL DEF Spec
=============================================================================
