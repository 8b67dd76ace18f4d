-------------------------- MODULE TelegramIngestion --------------------------
(***************************************************************************)
(* How the Ingestion role turns Telegram's update differences and the      *)
(* seven-day history of a Source Chat into recorded source events.         *)
(*                                                                         *)
(* Basic groups share the account's stream of updates, a channel has its   *)
(* own.  A stream is read in pages from a durable checkpoint, and the      *)
(* checkpoint moves with the last event of a page, so a process that ends  *)
(* within a page reads all of it again.  Meanwhile the Application         *)
(* registers, pauses and re-enables chats, and the administrator           *)
(* bootstraps the checkpoints of channels and recovers their streams while *)
(* the services are down.                                                  *)
(*                                                                         *)
(* Time is a counter of the moments the code compares: an event's, and     *)
(* those the Application reads from its clock.  The seven days themselves  *)
(* and content protection are left out.                                    *)
(***************************************************************************)
EXTENDS Integers, Sequences, SequencesExt, FiniteSetsExt

CONSTANTS
    Groups,        \* chats whose updates come with the account's
    Channels,      \* chats with a stream of their own
    Messages,      \* message ids of a chat, from 1 on
    PageSize,      \* events of one answer (100)
    MaxEvents,     \* bound on Telegram's events
    MaxPauses,     \* bound on pauses
    MaxFailures,   \* bound on provider failures and refused registrations
    MaxEnds        \* bound on ends of the Ingestion process

Chats   == Groups \cup Channels
Account == "account"
Role    == "role"
Streams == {Account} \cup Channels
NoChat  == "none"
Stream(c) == IF c \in Channels THEN c ELSE Account

ASSUME IngestionAssumption ==
    /\ Groups \cap Channels = {} /\ Chats \cap {Account, Role, NoChat} = {}
    /\ Messages \subseteq Nat \ {0}
    /\ PageSize \in Nat \ {0}
    /\ {MaxEvents, MaxPauses, MaxFailures, MaxEnds} \subseteq Nat

VARIABLES
    now, log,      \* Telegram: the time, and each stream's events
    reg, stamp,    \* source_chat_registry, and the clock the Application read
    activating,    \* chats whose SourceChatScopeActivated is under way
    ck, progress,  \* checkpoints and history progress
    records,       \* source_event_records, each with its outbox row
    bodies,        \* those that still hold their text
    barred,        \* messages the Application has tombstoned
    stopped,       \* active ingestion_failures: streams, chats and the role
    unavailable,   \* the chats among them stopped for want of a checkpoint
    up, approved, admitting, page, work,  \* the Ingestion process
    pauses, failures, ends

telegram == <<now, log>>
registry == <<reg, stamp, activating>>
durable  == <<ck, progress, records, bodies>>
failed   == <<stopped, unavailable>>
process  == <<up, approved, admitting, page, work>>
bounds   == <<pauses, failures, ends>>
vars     == <<telegram, registry, durable, barred, failed, process, bounds>>

Unset   == -1
Kinds   == {"create", "edit", "delete"}
NoEvent == [stream |-> Account, chat |-> NoChat, msg |-> 0, kind |-> "create", at |-> 0, index |-> 0,
            from |-> 0, to |-> 0, pending |-> FALSE]
NoWork  == [op |-> "none", event |-> NoEvent]
Unknown == [state |-> "unknown", boundary |-> 0, started |-> 0, resumed |-> FALSE,
            enabledAt |-> 0, pausedAt |-> 0]

Init == /\ now = 0 /\ log = [s \in Streams |-> <<>>]
        /\ reg = [c \in Chats |-> Unknown]
        /\ stamp = [c \in Chats |-> 0] /\ activating = {}
        /\ ck = [s \in Streams |-> IF s = Account THEN 0 ELSE Unset]
        /\ progress = [c \in Chats |-> [begun |-> FALSE, cursor |-> 0, completed |-> FALSE]]
        /\ records = {} /\ bodies = {} /\ barred = {}
        /\ stopped = {} /\ unavailable = {}
        /\ up = FALSE /\ approved = {} /\ admitting = {}
        /\ page = [s \in Streams |-> {}] /\ work = NoWork
        /\ pauses = 0 /\ failures = 0 /\ ends = 0
-----------------------------------------------------------------------------
(* Telegram.                                                               *)
Events(c)     == {e \in ToSet(log[Stream(c)]) : e.chat = c}
Created(c, m) == \E e \in Events(c) : e.msg = m /\ e.kind = "create"
Visible(c, m) == /\ Created(c, m)
                 /\ ~\E e \in Events(c) : e.msg = m /\ e.kind = "delete"
Born(c, m)    == (CHOOSE e \in Events(c) : e.msg = m /\ e.kind = "create").at
Edits(c, m)   == {e.at : e \in {f \in Events(c) : f.msg = m /\ f.kind = "edit"}}

Happen(c, m, k) ==
    /\ now < MaxEvents + Cardinality(Chats) + MaxPauses
    /\ Cardinality(UNION {Events(d) : d \in Chats}) < MaxEvents
    /\ IF k = "create" THEN /\ ~Created(c, m)
                            /\ \A n \in Messages : n < m => Created(c, n)
       ELSE Visible(c, m)
    /\ now' = now + 1
    /\ log' = [log EXCEPT ![Stream(c)] =
                   Append(@, [chat |-> c, msg |-> m, kind |-> k, at |-> now + 1])]
    /\ UNCHANGED <<registry, durable, barred, failed, process, bounds>>
-----------------------------------------------------------------------------
(* The Application.                                                        *)
Enabled(c) == reg[c].state = "enabled"
Idle       == up /\ work = NoWork

(* The handler of an admission or of a re-enable command reads the clock.  *)
ReadClock(c) ==
    /\ reg[c].state \in {"resolved", "paused"}
    /\ stamp[c] = 0
    /\ now' = now + 1
    /\ stamp' = [stamp EXCEPT ![c] = now + 1]
    /\ UNCHANGED <<log, reg, activating, durable, barred, failed, process, bounds>>

(* Its transaction: register_source_chat, or change_source_chat_lifecycle. *)
Enable(c) ==
    /\ stamp[c] # 0
    /\ reg' = [reg EXCEPT ![c] = [@ EXCEPT !.state = "enabled", !.started = stamp[c],
                                           !.enabledAt = now,
                                           !.resumed = reg[c].state = "paused"]]
    /\ stamp' = [stamp EXCEPT ![c] = 0]
    /\ activating' = activating \cup {c}
    /\ UNCHANGED <<telegram, durable, barred, failed, process, bounds>>

Pause(c) ==
    /\ Enabled(c) /\ pauses < MaxPauses
    /\ pauses' = pauses + 1
    /\ reg' = [reg EXCEPT ![c] = [@ EXCEPT !.state = "paused", !.pausedAt = now]]
    /\ UNCHANGED <<telegram, stamp, activating, durable, barred, failed, process,
                   failures, ends>>

(* _register_source_chat finds the request invalid or stale: Ingestion is  *)
(* not told.  A seed is registered by _register_source_chat_seed.          *)
Refuse(c) ==
    /\ reg[c].state = "resolved" /\ stamp[c] = 0 /\ failures < MaxFailures
    /\ ck[Stream(c)] # Unset
    /\ failures' = failures + 1
    /\ reg' = [reg EXCEPT ![c] = Unknown]
    /\ UNCHANGED <<telegram, stamp, activating, durable, barred, failed, process,
                   pauses, ends>>

(* The Application consumes a recorded deletion.                           *)
Deletion(c, m) == [chat |-> c, msg |-> m, kind |-> "delete", at |-> 0]

Tombstone(c, m) ==
    /\ Deletion(c, m) \in records
    /\ <<c, m>> \notin barred
    /\ barred' = barred \cup {<<c, m>>}
    /\ UNCHANGED <<telegram, registry, durable, failed, process, bounds>>
-----------------------------------------------------------------------------
(* Admission: RequestSourceChatAdmission resolves the address and captures *)
(* the boundary, from which a channel's stream is read: its checkpoint is  *)
(* a row of the new generation, inserted with the answer.                  *)
Boundary(c) == Len(log[Stream(c)])
Capture(c)  == reg' = [reg EXCEPT ![c] = [@ EXCEPT !.state = "resolved",
                                                   !.boundary = Boundary(c)]]

Resolve(c) ==
    /\ Idle /\ reg[c].state = "unknown"
    /\ admitting' = admitting \cup {c}
    /\ Capture(c)
    /\ ck' = IF c \in Channels THEN [ck EXCEPT ![c] = Boundary(c)] ELSE ck
    /\ UNCHANGED <<telegram, stamp, activating, progress, records, bodies, barred,
                   failed, up, approved, page, work, bounds>>

(* A process that starts before any chat is registered publishes the seeds *)
(* of the catalogue as resolved, without their checkpoints.  Which of the  *)
(* channels are in the catalogue is left open.                             *)
Seed(c) ==
    /\ ~up /\ c \in Channels /\ reg[c].state = "unknown"
    /\ \A d \in Chats : reg[d].state \in {"unknown", "resolved"}
    /\ ck[c] = Unset
    /\ Capture(c)
    /\ UNCHANGED <<telegram, stamp, activating, durable, barred, failed, process,
                   bounds>>

(* SourceChatScopeActivated renews the scope and drops every page held.    *)

Activate(c) ==
    /\ Idle /\ c \in activating
    /\ activating' = activating \ {c}
    /\ IF Enabled(c)
       THEN /\ approved' = approved \cup {c} /\ admitting' = {}
            /\ page' = [s \in Streams |-> {}]
       ELSE UNCHANGED <<approved, admitting, page>>
    /\ UNCHANGED <<telegram, reg, stamp, durable, barred, failed, up, work, bounds>>

(* What stops: the role over the account over a chat's stream.             *)
Stop(x) == stopped' = stopped \cup {x}

Suspended(s) == {Role, s} \cap stopped # {}
Halted(c)    == {Role, Stream(c), c} \cap stopped # {}

ProviderFails(x) ==
    /\ Idle /\ failures < MaxFailures
    /\ x \in Chats => Enabled(x)
    /\ ~Suspended(x)
    /\ failures' = failures + 1
    /\ Stop(x)
    /\ UNCHANGED <<telegram, registry, durable, barred, unavailable, process, pauses,
                   ends>>

(* The pumps of a channel stop its stream when it has no checkpoint.       *)
StopUnavailable(c) ==
    /\ Idle /\ c \in Channels /\ Enabled(c) /\ ~Halted(c)
    /\ ck[c] = Unset
    /\ Stop(c)
    /\ unavailable' = unavailable \cup {c}
    /\ UNCHANGED <<telegram, registry, durable, barred, process, bounds>>

(* The adapter refuses a chat that is enabled but not yet activated here.  *)
HistoryOpen(c) == /\ Enabled(c) /\ ~reg[c].resumed
                  /\ ~Halted(c) /\ Account \notin stopped
                  /\ ck[Stream(c)] # Unset
                  /\ ~progress[c].completed

StopUnapproved(c) ==
    /\ Idle /\ c \notin approved
    /\ \/ HistoryOpen(c)
       \/ c \in Channels /\ Enabled(c) /\ ~Halted(c) /\ ck[c] # Unset
    /\ Stop(Stream(c))
    /\ UNCHANGED <<telegram, registry, durable, barred, unavailable, process, bounds>>
-----------------------------------------------------------------------------
(* A page of a stream: the events of chats in scope, with the checkpoint   *)
(* moved by the last of them; those of chats under admission are held.     *)
(* Mutant: the newest event is left for a next page that never comes.      *)
PageEndShort(s) == Max({ck[s], Min({Len(log[s]) - 1, ck[s] + PageSize})})

PageEnd(s)  == Min({Len(log[s]), ck[s] + PageSize})
InScope(s)  == {i \in ck[s] + 1 .. PageEnd(s) :
                   \/ s # Account
                   \/ Enabled(log[s][i].chat)
                   \/ log[s][i].chat \in admitting}
(* Mutant: the checkpoint goes to the page's end with its first event.     *)
ResultMovingFirst(s, i) ==
    LET e == log[s][i] IN
    [stream |-> s, chat |-> e.chat, msg |-> e.msg, kind |-> e.kind,
     at |-> IF e.kind = "delete" THEN now + 1 ELSE e.at, index |-> i, from |-> ck[s],
     to |-> PageEnd(s), pending |-> s = Account /\ ~Enabled(e.chat)]

Result(s, i) ==
    LET e == log[s][i] IN
    [stream |-> s, chat |-> e.chat, msg |-> e.msg, kind |-> e.kind,
     at |-> IF e.kind = "delete" THEN now + 1 ELSE e.at,
     index |-> i, from |-> ck[s],
     to |-> IF \A j \in InScope(s) : j <= i THEN PageEnd(s) ELSE ck[s],
     pending |-> s = Account /\ ~Enabled(e.chat)]
Advancing(s) == [NoEvent EXCEPT !.stream = s, !.from = ck[s],
                                     !.to = PageEnd(s)]

Fetched(s) ==
    IF PageEnd(s) = ck[s] THEN {}
    ELSE IF InScope(s) = {} THEN {Advancing(s)}
    ELSE {Result(s, i) : i \in InScope(s)}

(* A page is taken in the order of its events.                             *)
First(p) == CHOOSE e \in p : \A f \in p : e.index <= f.index

(* A held page is kept while the checkpoint is where it began and no       *)
(* admission it waits for has come.                                        *)
Held(s) == /\ page[s] # {}
           /\ First(page[s]).from = ck[s]
           /\ ~(First(page[s]).pending /\ Enabled(First(page[s]).chat))
Current(s) == IF Held(s) THEN page[s] ELSE Fetched(s)

(* process_account_telegram_difference, process_channel_telegram_difference*)
(* up to the transaction: what it does is decided on a read of the scope.  *)
Decide(e) == IF e.pending \/ e.chat \in stopped THEN "none"
             ELSE IF e.chat = NoChat THEN "advance"
             ELSE IF Enabled(e.chat) THEN "commit" ELSE "discard"

Difference(s) ==
    /\ Idle /\ ~Suspended(s) /\ ck[s] # Unset
    /\ s \in Channels => Enabled(s) /\ s \in approved
    /\ Current(s) # {}
    /\ page' = [page EXCEPT ![s] = Current(s)]
    /\ LET e == First(Current(s))
       IN work' = IF Decide(e) = "none" THEN NoWork
                  ELSE [op |-> Decide(e), event |-> e]
    /\ UNCHANGED <<telegram, registry, durable, barred, failed, up, approved,
                   admitting, bounds>>
-----------------------------------------------------------------------------
(* commit_source_event.                                                    *)
Key(e) == [chat |-> e.chat, msg |-> e.msg, kind |-> e.kind,
           at |-> IF e.kind = "delete" THEN 0 ELSE e.at]
Of(c, m)       == {r \in records : r.chat = c /\ r.msg = m}
(* Mutant: an edit proven by its checkpoint alone, whatever was paused.    *)
AfterBoundaryByIndex(e) ==
    LET r == reg[e.chat]
    IN IF e.chat \in Groups
       THEN e.from >= r.boundary \/ (e.kind = "create" /\ e.at > r.started)
       ELSE e.from > r.boundary \/ (e.kind # "create" /\ e.index > r.boundary)

AfterBoundary(e) ==
    LET r == reg[e.chat]
    IN IF e.chat \in Groups
       THEN e.from >= r.boundary \/ (e.kind = "create" /\ e.at > r.started)
       ELSE /\ e.from > r.boundary \/ (e.kind # "create" /\ e.index > r.boundary)
            /\ ~(e.kind = "edit" /\ e.at <= r.started /\ r.resumed)
ProvenEdit(e)  == e.chat \in Channels /\ e.kind = "edit" /\ AfterBoundary(e)
Processable(e) == e.at > reg[e.chat].started \/ ProvenEdit(e)
Known(e)       == \/ AfterBoundary(e)
                  \/ e.kind = "create" /\ e.chat \in Channels
                  \/ Of(e.chat, e.msg) # {}
Barred(e)      == e.kind # "delete" /\ <<e.chat, e.msg>> \in barred

(* Mutant: the text of earlier events stays.                               *)
RecordKeeping(e) ==
    IF Key(e) \in records THEN UNCHANGED <<records, bodies>>
    ELSE /\ records' = records \cup {Key(e)}
         /\ bodies' = bodies \cup (IF e.kind = "delete" THEN {} ELSE {Key(e)})

(* The INSERT: a deletion scrubs what was recorded of the message.         *)
Record(e) ==
    IF Key(e) \in records THEN UNCHANGED <<records, bodies>>
    ELSE /\ records' = records \cup {Key(e)}
         /\ bodies' = IF e.kind = "delete" THEN bodies \ Of(e.chat, e.msg)
                      ELSE bodies \cup {Key(e)}

(* The row exists without the text that has come again.                    *)
Conflict(e) == e.kind # "delete" /\ Key(e) \in records \ bodies

(* The process ends with what it holds in memory.                          *)
Down == /\ up' = FALSE /\ approved' = {} /\ admitting' = {}
        /\ page' = [s \in Streams |-> {}] /\ work' = NoWork

Acknowledge(e) == /\ page' = [page EXCEPT ![e.stream] = @ \ {e}]
                  /\ work' = NoWork
                  /\ UNCHANGED <<up, approved, admitting>>
Leave == work' = NoWork /\ UNCHANGED <<up, approved, admitting, page>>

(* Every transaction asks again for the stops and compares the checkpoint. *)
Refused(e) == Halted(e.chat) \/ ck[e.stream] # e.from

Move(e)   == ck' = [ck EXCEPT ![e.stream] = e.to]
Accept(e) == Enabled(e.chat) /\ Processable(e) /\ Known(e) /\ ~Barred(e)

Commit ==
    LET e == work.event IN
    /\ work.op = "commit"
    /\ IF Refused(e) THEN Leave /\ UNCHANGED <<ck, records, bodies>>
       ELSE IF ~Accept(e)
       THEN Move(e) /\ Acknowledge(e) /\ UNCHANGED <<records, bodies>>
       ELSE IF Conflict(e) THEN Down /\ UNCHANGED <<ck, records, bodies>>
       ELSE Move(e) /\ Record(e) /\ Acknowledge(e)
    /\ UNCHANGED <<telegram, registry, progress, barred, failed, bounds>>

(* discard_account_difference_event asks again whether the chat is active, *)
(* advance_channel_difference_checkpoint whether it still is.              *)
MayPass(e) == ~Refused(e) /\ IF work.op = "discard" THEN ~Enabled(e.chat)
                             ELSE e.stream \in Channels => Enabled(e.stream)

Pass ==
    LET e == work.event IN
    /\ work.op \in {"discard", "advance"}
    /\ IF MayPass(e) THEN Move(e) /\ Acknowledge(e)
       ELSE Leave /\ UNCHANGED ck
    /\ UNCHANGED <<telegram, registry, progress, records, bodies, barred, failed,
                   bounds>>
-----------------------------------------------------------------------------
(* History: the messages still visible that were written up to the start.  *)
(* The first turn of a chat begins its progress, before Telegram is asked. *)
Window(c) == {m \in Messages : /\ m > progress[c].cursor /\ Visible(c, m)
                              /\ Born(c, m) <= reg[c].started}

HistoryResult(c, m) ==
    [NoEvent EXCEPT !.stream = Stream(c), !.chat = c, !.msg = m,
                    !.kind = IF Edits(c, m) = {} THEN "create" ELSE "edit",
                    !.at = Max({Born(c, m)} \cup Edits(c, m)),
                    !.from = ck[Stream(c)], !.to = ck[Stream(c)]]

(* process_source_chat_history up to the transaction.                      *)
History(c) ==
    /\ Idle /\ HistoryOpen(c) /\ c \in approved
    /\ work' = IF Window(c) = {}
               THEN [op |-> "complete", event |-> [NoEvent EXCEPT !.chat = c]]
               ELSE LET e == HistoryResult(c, Min(Window(c))) IN
                    [op |-> IF e.at > reg[c].started THEN "skip" ELSE "history",
                     event |-> e]
    /\ progress' = [progress EXCEPT ![c].begun = TRUE]
    /\ UNCHANGED <<telegram, registry, ck, records, bodies, barred, failed, up,
                   approved, admitting, page, bounds>>

Turn(e) ==
    progress' = [progress EXCEPT ![e.chat].cursor = Max({progress[e.chat].cursor, e.msg}),
                                 ![e.chat].completed = FALSE]

(* commit_source_event for a historical message, or the record of one that *)
(* was edited after the window.                                            *)
CommitHistory ==
    LET e == work.event IN
    /\ work.op \in {"history", "skip"}
    /\ IF Halted(e.chat) THEN Leave /\ UNCHANGED <<progress, records, bodies>>
       ELSE IF /\ work.op = "history" /\ ~Barred(e)
               /\ Enabled(e.chat) /\ ~reg[e.chat].resumed
       THEN IF Conflict(e)
            THEN Down /\ UNCHANGED <<progress, records, bodies>>
            ELSE Record(e) /\ Turn(e) /\ Leave
       ELSE Turn(e) /\ Leave /\ UNCHANGED <<records, bodies>>
    /\ UNCHANGED <<telegram, registry, ck, barred, failed, bounds>>

CompleteHistory ==
    /\ work.op = "complete"
    /\ progress' = [progress EXCEPT ![work.event.chat].completed = TRUE]
    /\ Leave
    /\ UNCHANGED <<telegram, registry, ck, records, bodies, barred, failed, bounds>>
-----------------------------------------------------------------------------
(* The process, and the administrator's tools, which run while it is down  *)
(* and only when channels are the whole scope.                             *)
End   == /\ up /\ ends < MaxEnds
         /\ ends' = ends + 1
         /\ Down
         /\ UNCHANGED <<telegram, registry, durable, barred, failed, pauses, failures>>

Start == /\ ~up
         /\ up' = TRUE
         /\ approved' = {c \in Chats : Enabled(c)}
         /\ UNCHANGED <<telegram, registry, durable, barred, failed, admitting, page,
                        work, bounds>>

WholeScope == Channels # {} /\ {c \in Chats : Enabled(c)} = Channels

(* Missing checkpoints begin at the boundary, missing histories are taken  *)
(* for complete; a history under way makes the tool refuse.                *)
Bootstrap ==
    /\ ~up /\ WholeScope
    /\ \A c \in Channels : progress[c].begun => progress[c].completed
    /\ \E c \in Channels : ck[c] = Unset \/ ~progress[c].begun
    /\ ck' = [s \in Streams |-> IF ck[s] = Unset THEN reg[s].boundary ELSE ck[s]]
    /\ progress' = [c \in Chats |->
                       IF c \in Channels /\ ~progress[c].begun
                       THEN [begun |-> TRUE, cursor |-> 0, completed |-> TRUE]
                       ELSE progress[c]]
    /\ UNCHANGED <<telegram, registry, records, bodies, barred, failed, process,
                   bounds>>

(* Every channel of the scope was stopped for want of a checkpoint.        *)
Recover ==
    /\ ~up /\ WholeScope
    /\ \A c \in Channels : ck[c] # Unset /\ progress[c].completed
    /\ unavailable = Channels
    /\ stopped' = stopped \ unavailable
    /\ unavailable' = {}
    /\ UNCHANGED <<telegram, registry, durable, barred, process, bounds>>
-----------------------------------------------------------------------------
Environment ==
    \/ \E c \in Chats, m \in Messages, k \in Kinds : Happen(c, m, k)
    \/ \E c \in Chats : Pause(c) \/ Refuse(c) \/ ReadClock(c) \/ Seed(c)
    \/ \E x \in Chats \cup {Account, Role} : ProviderFails(x)
    \/ End \/ Bootstrap \/ Recover

Transaction == Commit \/ Pass \/ CommitHistory \/ CompleteHistory

System ==
    \/ \E c \in Chats : \/ Enable(c) \/ Resolve(c) \/ Activate(c)
                        \/ StopUnavailable(c) \/ StopUnapproved(c) \/ History(c)
                        \/ \E m \in Messages : Tombstone(c, m)
    \/ \E s \in Streams : Difference(s)
    \/ Transaction \/ Start

Next == Environment \/ System

Spec == Init /\ [][Next]_vars

(* The role's process is restarted, pumps every stream in turn, and shares *)
(* the contract queue with an Application that goes on.                    *)
Fairness ==
    /\ WF_vars(Start) /\ WF_vars(Transaction)
    /\ \A c \in Chats : /\ WF_vars(Enable(c)) /\ WF_vars(Activate(c))
                        /\ WF_vars(StopUnavailable(c)) /\ WF_vars(StopUnapproved(c))
                        /\ WF_vars(History(c))
                        /\ \A m \in Messages : WF_vars(Tombstone(c, m))
    /\ \A s \in Streams : WF_vars(Difference(s))

FairSpec == Spec /\ Fairness
-----------------------------------------------------------------------------
Entries == [state : {"unknown", "resolved", "enabled", "paused"}, boundary : Nat,
            started : Nat, resumed : BOOLEAN, enabledAt : Nat, pausedAt : Nat]
LogEvents == [chat : Chats, msg : Messages, kind : Kinds, at : Nat]
Results == [stream : Streams, chat : Chats \cup {NoChat}, msg : Messages \cup {0},
            kind : Kinds, at : Nat, index : Nat, from : Nat, to : Nat, pending : BOOLEAN]
Works == [op : {"none", "commit", "discard", "advance", "history", "skip", "complete"},
          event : Results]

(* Types; text is held of recorded events only, and a page belongs to a    *)
(* process that runs.                                                      *)
TypeOK ==
    /\ now \in Nat /\ log \in [Streams -> Seq(LogEvents)]
    /\ reg \in [Chats -> Entries]
    /\ stamp \in [Chats -> Nat] /\ activating \subseteq Chats
    /\ ck \in [Streams -> Nat \cup {Unset}] /\ ck[Account] # Unset
    /\ progress \in [Chats -> [begun : BOOLEAN, cursor : Messages \cup {0},
                              completed : BOOLEAN]]
    /\ records \subseteq LogEvents /\ bodies \subseteq records
    /\ barred \subseteq Chats \X Messages
    /\ stopped \subseteq Chats \cup {Account, Role}
    /\ unavailable \subseteq stopped \cap Channels
    /\ approved \subseteq Chats /\ admitting \subseteq Chats
    /\ page \in [Streams -> SUBSET Results]
    /\ work \in Works
    /\ ~up => /\ approved = {} /\ admitting = {} /\ work = NoWork
              /\ \A s \in Streams : page[s] = {}

(* A checkpoint passes no event of a chat that has been enabled since      *)
(* before it happened, unless the event is recorded; only changes of a     *)
(* message of which nothing earlier was recorded may be dropped.           *)
Kept(c, e) ==
    \/ Key(e) \in records
    \/ Barred(e)
    \/ e.kind # "create" /\ \A r \in Of(c, e.msg) : r.kind = "delete" \/ r.at > e.at

NothingPassed ==
    \A c \in Chats : Enabled(c) =>
        \A i \in 1..ck[Stream(c)] :
            LET e == log[Stream(c)][i]
            IN e.chat = c /\ e.at > reg[c].enabledAt => Kept(c, e)

(* Once a deletion is recorded, Ingestion holds no text of the message,    *)
(* whichever route, replay or restart brings it again.                     *)
ScrubbedStays ==
    \A r \in records : r.kind = "delete" => Of(r.chat, r.msg) \cap bodies = {}

(* What happened while a chat was paused is never recorded afterwards: the *)
(* history, held pages and edits proven by their pts included.             *)
GapNotBackfilled ==
    \A r \in records :
        reg[r.chat].resumed /\ r.kind # "delete" =>
            ~(reg[r.chat].pausedAt < r.at /\ r.at <= reg[r.chat].started)

(* A message written to an enabled chat is recorded in the end, as long as *)
(* nothing stops its stream and no page is held for another chat: one that *)
(* was refused, or one that is itself stopped.                             *)
Wanted(c, m) == Enabled(c) /\ Created(c, m) /\ Born(c, m) > reg[c].enabledAt
Ingested(c, m) == \/ Of(c, m) # {}
                  \/ ~Enabled(c)
Obstructed(c) ==
    \/ Halted(c)
    \/ /\ c \in Groups /\ page[Account] # {}
       /\ LET d == First(page[Account]).chat
          IN d \in stopped \/ (d \in Chats /\ ~Enabled(d))

EventuallyIngested ==
    \A c \in Chats, m \in Messages :
        Wanted(c, m) ~> (Ingested(c, m) \/ Obstructed(c))

=============================================================================
