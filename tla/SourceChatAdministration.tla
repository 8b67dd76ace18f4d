----------------------- MODULE SourceChatAdministration -----------------------
(***************************************************************************)
(* How the administrator registers, pauses, re-enables and removes Source  *)
(* Chats from the bot, and how the seed chats get into an empty registry.  *)
(*   bot          the administrator's screens and the requests they send   *)
(*   application  source_chat_registry                                     *)
(*   ingestion    resolves addresses, and collects the chats in its scope  *)
(* A chat that is registered again after its removal gets another row, of  *)
(* a higher generation.  A role is one process: it handles its oldest      *)
(* contract that is not under a lease, in one transaction; a process that  *)
(* ends after the claim leaves the lease behind, so that younger contracts *)
(* overtake.  A press on a screen that is not the current one only repeats *)
(* the current one.  The current address of a row is not kept: what a      *)
(* request names is the chat its address resolves to.                      *)
(***************************************************************************)
EXTENDS Naturals, Sequences, SequencesExt

CONSTANTS
    Chats,
    Seeds,         \* chats of config/source-chats.yaml
    MaxRequests,   \* bound on what the administrator submits
    MaxCrashes     \* bound on processes that end, or start anew with another administrator

ASSUME AdministrationAssumption ==
    Seeds \subseteq Chats /\ MaxRequests \in Nat \ {0} /\ MaxCrashes \in Nat

Roles   == {"bot", "application", "ingestion"}
Actions == {"pause", "remove", "re_enable"}
States  == {"none", "enabled", "paused", "removed"}
Stages  == {"elsewhere", "chats", "address", "pending"}
Requests    == 1..MaxRequests
Generations == 1..MaxRequests

(* A contract keeps the request it serves: what became of it is its type.  *)
(* `id` also stands for the time at which the application acts on it, the  *)
(* processing_started_at of the row it enables (0 for a seed).             *)
Types == {"change", "admission", "resolved", "admission_failed",
          "changed", "failed", "activated"}
Contracts == [type : Types, action : Actions \cup {"register", "seed"},
              id : {0} \cup Requests, chat : Chats, generation : Generations]
Consumer(k) == CASE k.type \in {"change", "resolved", "admission_failed"} -> "application"
                 [] k.type \in {"admission", "activated"}                 -> "ingestion"
                 [] k.type \in {"changed", "failed"}                      -> "bot"

VARIABLES
    registry,      \* source_chat_registry: state and processing_started_at
    queue,         \* unsettled contracts of each role
    requests,      \* requests so far: their ids are 1, 2, ...
    registrations, \* rows of source_chat_registration_origins
    stage,         \* the administrator's stage
    listed,        \* the states shown, when the screen is the list of chats
    asked,         \* the control asked to confirm, when it is that
    admin,         \* whom a role takes for the administrator: still this one?
    ingestion,     \* down, starting (with the seeds to publish) or serving
    scope,         \* chats its provider collects
    published,     \* seeds with an outbox row
    crashes

screen  == <<stage, listed, asked>>
sent    == <<requests, registrations>>
process == <<ingestion, scope, published>>
vars    == <<registry, queue, sent, screen, admin, process, crashes>>

NoRow   == [state |-> "none", started |-> 0]
Nothing == [c \in Chats |-> [g \in Generations |-> "none"]]

Init == /\ registry = [c \in Chats |-> [g \in Generations |-> NoRow]]
        /\ queue = [r \in Roles |-> <<>>]
        /\ requests = 0 /\ registrations = 0
        /\ stage = "elsewhere" /\ listed = Nothing /\ asked = {}
        /\ admin = [role \in {"bot", "application"} |-> TRUE]
        /\ ingestion = "down" /\ scope = {} /\ published = {}
        /\ crashes = 0
-----------------------------------------------------------------------------
Exists(c, g)  == registry[c][g].state # "none"
Latest(c)     == {g \in Generations : Exists(c, g) /\ \A h \in Generations :
                                                          Exists(c, h) => h <= g}
Enabled(c)    == \E g \in Generations : registry[c][g].state = "enabled"
EnabledChats  == {c \in Chats : Enabled(c)}
Listing       == [c \in Chats |-> [g \in Generations |-> registry[c][g].state]]

Entry(k)      == [contract |-> k, leased |-> FALSE]
Sent(q, k)    == [q EXCEPT ![Consumer(k)] = Append(@, Entry(k))]
Consumed(r, i)  == [queue EXCEPT ![r] = RemoveAt(@, i)]
Answer(r, i, k) == Sent(Consumed(r, i), k)
As(k, type)   == [k EXCEPT !.type = type]

\* claim_next: the oldest contract that is not under the lease of a dead process.
Due(q, i) == ~q[i].leased /\ \A j \in 1..(i - 1) : q[j].leased

Handles(r, i, type) == Due(queue[r], i) /\ queue[r][i].contract.type = type
-----------------------------------------------------------------------------
(* The administrator's screens.  Whoever is not the administrator is sent  *)
(* back to the settings by any press (Leave).                              *)
ShowList   == stage' = "chats" /\ listed' = Listing /\ asked' = {}
Show(next) == stage' = next /\ listed' = Nothing /\ asked' = {}

ShowSourceChats ==
    /\ admin.bot
    /\ stage \in {"elsewhere", "address"} \/ (stage = "chats" /\ asked # {})
    /\ ShowList
    /\ UNCHANGED <<registry, queue, sent, admin, process, crashes>>

Leave == /\ stage # "elsewhere"
         /\ Show("elsewhere")
         /\ UNCHANGED <<registry, queue, sent, admin, process, crashes>>

ShowAddressInput == /\ admin.bot /\ stage = "chats" /\ asked = {}
                    /\ Show("address")
                    /\ UNCHANGED <<registry, queue, sent, admin, process, crashes>>

\* The buttons of a row are those of the state it is listed with.
Offered(state) == CASE state = "enabled" -> {"pause", "remove"}
                    [] state = "paused"  -> {"re_enable", "remove"}
                    [] OTHER             -> {}

AskConfirmation(c, g, action) ==
    /\ admin.bot /\ stage = "chats" /\ asked = {} /\ action \in Offered(listed[c][g])
    /\ stage' = "chats" /\ listed' = Nothing
    /\ asked' = {[action |-> action, chat |-> c, generation |-> g]}
    /\ UNCHANGED <<registry, queue, sent, admin, process, crashes>>

Request(action, c, g) == [type |-> "change", action |-> action, id |-> requests + 1,
                          chat |-> c, generation |-> g]

(* The confirmed control is sent; the list that follows is read before the *)
(* application has seen it.                                                *)
SubmitLifecycle ==
    /\ admin.bot /\ stage = "chats" /\ requests < MaxRequests
    /\ \E a \in asked : queue' = Sent(queue, Request(a.action, a.chat, a.generation))
    /\ requests' = requests + 1
    /\ ShowList
    /\ UNCHANGED <<registry, registrations, admin, process, crashes>>

(* An address is submitted, with the next generation of all registrations. *)
SubmitAddress(c) ==
    /\ admin.bot /\ stage = "address" /\ requests < MaxRequests
    /\ queue' = Sent(queue, Request("register", c, registrations + 1))
    /\ requests' = requests + 1 /\ registrations' = registrations + 1
    /\ Show("pending")
    /\ UNCHANGED <<registry, admin, process, crashes>>

Unshown == UNCHANGED screen
Waiting == stage = "pending"

(* A result is shown when the account still waits for one.  That of a      *)
(* registration must name an enabled row, or it is a failure.              *)
ShowFailure == Show(IF admin.bot THEN "address" ELSE "elsewhere")

AcceptRegistration(i) ==
    LET k == queue["bot"][i].contract IN
    /\ Handles("bot", i, "changed") /\ k.action = "register"
    /\ CASE ~Waiting  -> Unshown
         [] Waiting /\ registry[k.chat][k.generation].state # "enabled" -> ShowFailure
         [] Waiting /\ registry[k.chat][k.generation].state = "enabled" ->
                IF admin.bot THEN ShowList ELSE Show("elsewhere")
    /\ queue' = Consumed("bot", i)
    /\ UNCHANGED <<registry, sent, admin, process, crashes>>

AcceptFailure(i) ==
    /\ Handles("bot", i, "failed")
    /\ IF Waiting THEN ShowFailure ELSE Unshown
    /\ queue' = Consumed("bot", i)
    /\ UNCHANGED <<registry, sent, admin, process, crashes>>

\* The result of a control renders the list anew, over a confirmation too.
RenewList == ShowList

AcceptLifecycle(i) ==
    /\ Handles("bot", i, "changed") /\ queue["bot"][i].contract.action \in Actions
    /\ IF stage = "chats" THEN RenewList ELSE Unshown
    /\ queue' = Consumed("bot", i)
    /\ UNCHANGED <<registry, sent, admin, process, crashes>>
-----------------------------------------------------------------------------
(* The application.                                                        *)
RequestAdmission(i) ==
    LET k == queue["application"][i].contract IN
    /\ Handles("application", i, "change") /\ k.action = "register"
    /\ queue' = Answer("application", i, As(k, IF admin.application THEN "admission"
                                                                    ELSE "failed"))
    /\ UNCHANGED <<registry, sent, screen, admin, process, crashes>>

RejectRegistration(i) ==
    LET k == queue["application"][i].contract IN
    /\ Handles("application", i, "admission_failed")
    /\ queue' = Answer("application", i, As(k, "failed"))
    /\ UNCHANGED <<registry, sent, screen, admin, process, crashes>>

\* Mutant: what comes late is not told from what comes after a removal.
NeverStale(k) == FALSE

\* register_source_chat: a row of this generation or a higher one is there.
Stale(k) == \E g \in Generations : Exists(k.chat, g) /\ k.generation <= g

Refused(k) == \/ k.action = "register" /\ ~admin.application
              \/ Stale(k)

\* Mutant: a registration that is late ends without an answer.
Unanswered(i, k) == Consumed("application", i)

\* A seed has nobody to answer.
Refusal(i, k) == IF k.action = "seed" THEN Consumed("application", i)
                 ELSE Answer("application", i, As(k, "failed"))

RefuseRegistration(i) ==
    LET k == queue["application"][i].contract IN
    /\ Handles("application", i, "resolved") /\ Refused(k)
    /\ queue' = Refusal(i, k)
    /\ UNCHANGED <<registry, sent, screen, admin, process, crashes>>

Live(c, g) == registry[c][g].state \in {"enabled", "paused"}

(* A chat that is registered and not removed gets the new address, in the  *)
(* row it has, which the result names.                                     *)
ChangeAddress(i) ==
    LET k == queue["application"][i].contract IN
    /\ Handles("application", i, "resolved") /\ k.action = "register" /\ ~Refused(k)
    /\ \E g \in Latest(k.chat) :
           /\ Live(k.chat, g)
           /\ queue' = Answer("application", i, [As(k, "changed") EXCEPT !.generation = g])
    /\ UNCHANGED <<registry, sent, screen, admin, process, crashes>>

(* A new row, enabled; every other row of the chat is removed for good.    *)
RegisterSourceChat(i) ==
    LET k == queue["application"][i].contract
        removed == [g \in Generations |->
                       IF Exists(k.chat, g) THEN [registry[k.chat][g] EXCEPT !.state = "removed"]
                       ELSE NoRow]
        quiet == Sent(Consumed("application", i), As(k, "activated"))
    IN
    /\ Handles("application", i, "resolved") /\ ~Refused(k)
    /\ \A g \in Latest(k.chat) : ~Live(k.chat, g)
    /\ registry' = [registry EXCEPT ![k.chat] =
                       [removed EXCEPT ![k.generation] =
                           [state |-> "enabled", started |-> k.id]]]
    /\ queue' = IF k.action = "seed" THEN quiet ELSE Sent(quiet, As(k, "changed"))
    /\ UNCHANGED <<sent, screen, admin, process, crashes>>

Resumable(state) == state = "paused"

\* What a control makes of the row it names.
After(k, row) ==
    CASE k.action = "pause" /\ row.state = "enabled"  -> [row EXCEPT !.state = "paused"]
      [] k.action = "remove" /\ row.state # "none"    -> [row EXCEPT !.state = "removed"]
      [] k.action = "re_enable" /\ Resumable(row.state) ->
             [state |-> "enabled", started |-> k.id]
      [] OTHER -> row

\* Mutant: only a registration activates.
NeverActivates(k, row) == FALSE
Activates(k, row) == k.action = "re_enable" /\ Resumable(row.state)

ChangeLifecycle(i) ==
    LET k   == queue["application"][i].contract
        row == registry[k.chat][k.generation]
        result == Answer("application", i, As(k, "changed"))
    IN
    /\ Handles("application", i, "change") /\ k.action \in Actions
    /\ IF admin.application
         THEN /\ registry' = [registry EXCEPT ![k.chat][k.generation] = After(k, row)]
              /\ queue' = IF Activates(k, row) THEN Sent(result, As(k, "activated"))
                                               ELSE result
         ELSE /\ queue' = Consumed("application", i)
              /\ UNCHANGED registry
    /\ UNCHANGED <<sent, screen, admin, process, crashes>>
-----------------------------------------------------------------------------
(* Ingestion starts: with an empty registry it publishes the seeds first.  *)
Start == /\ ingestion = "down"
         /\ IF \E c \in Chats, g \in Generations : Exists(c, g)
              THEN ingestion' = "serving" /\ scope' = EnabledChats
              ELSE ingestion' = "starting" /\ UNCHANGED scope
         /\ UNCHANGED <<registry, queue, sent, screen, admin, published, crashes>>

PublishSeed(c) ==
    /\ ingestion = "starting" /\ c \in Seeds \ published
    /\ published' = published \cup {c}
    /\ queue' = Sent(queue, [type |-> "resolved", action |-> "seed", id |-> 0,
                             chat |-> c, generation |-> 1])
    /\ UNCHANGED <<registry, sent, screen, admin, ingestion, scope, crashes>>

Serve == /\ ingestion = "starting" /\ Seeds \subseteq published
         /\ ingestion' = "serving" /\ scope' = EnabledChats
         /\ UNCHANGED <<registry, queue, sent, screen, admin, published, crashes>>

(* The address resolves, or it does not.                                   *)
Admit(i, type) ==
    LET k == queue["ingestion"][i].contract IN
    /\ ingestion = "serving" /\ Handles("ingestion", i, "admission")
    /\ type \in {"resolved", "admission_failed"}
    /\ queue' = Answer("ingestion", i, As(k, type))
    /\ UNCHANGED <<registry, sent, screen, admin, process, crashes>>

\* source_chat_ingestion_activation_boundary: the highest enabled row.
Boundary(c) == {[generation |-> g, started |-> registry[c][g].started] :
                   g \in {h \in Generations :
                             /\ registry[c][h].state = "enabled"
                             /\ \A n \in Generations : registry[c][n].state = "enabled"
                                                           => n <= h}}

(* An activation counts if nothing was enabled since; the scope only ever  *)
(* grows while the process lives.                                          *)
Activate(i) ==
    LET k == queue["ingestion"][i].contract IN
    /\ ingestion = "serving" /\ Handles("ingestion", i, "activated")
    /\ scope' = IF [generation |-> k.generation, started |-> k.id] \in Boundary(k.chat)
                THEN scope \cup {k.chat} ELSE scope
    /\ queue' = Consumed("ingestion", i)
    /\ UNCHANGED <<registry, sent, screen, admin, ingestion, published, crashes>>
-----------------------------------------------------------------------------
(* A role is started again with another administrator.                     *)
Revoke(role) == /\ admin[role] /\ crashes < MaxCrashes
                /\ admin' = [admin EXCEPT ![role] = FALSE]
                /\ crashes' = crashes + 1
                /\ UNCHANGED <<registry, queue, sent, screen, process>>

(* A process ends with a contract in hand, or Ingestion's without one.     *)
Held(r, i) == [queue EXCEPT ![r][i].leased = TRUE]

Ends(r) == /\ crashes < MaxCrashes /\ crashes' = crashes + 1
           /\ IF r = "ingestion" THEN ingestion' = "down" /\ scope' = {}
              ELSE UNCHANGED <<ingestion, scope>>
           /\ UNCHANGED <<registry, sent, screen, admin, published>>

Crash(r, i) == /\ r = "ingestion" => ingestion = "serving"
               /\ Due(queue[r], i) /\ queue' = Held(r, i) /\ Ends(r)

IngestionEnds == ingestion # "down" /\ Ends("ingestion") /\ UNCHANGED queue

\* Mutant: a claim is taken for work in progress, however old.
StillHeld(r, i) == queue
Freed(r, i)     == [queue EXCEPT ![r][i].leased = FALSE]

LeaseLapse(r, i) == /\ queue[r][i].leased
                    /\ queue' = Freed(r, i)
                    /\ UNCHANGED <<registry, sent, screen, admin, process, crashes>>
-----------------------------------------------------------------------------
Bot == \E i \in 1..Len(queue["bot"]) :
           AcceptRegistration(i) \/ AcceptFailure(i) \/ AcceptLifecycle(i)

Application == \E i \in 1..Len(queue["application"]) :
                   \/ RequestAdmission(i) \/ RejectRegistration(i) \/ ChangeLifecycle(i)
                   \/ RefuseRegistration(i) \/ ChangeAddress(i) \/ RegisterSourceChat(i)

Ingestion == \/ Start \/ Serve \/ \E c \in Seeds : PublishSeed(c)
             \/ \E i \in 1..Len(queue["ingestion"]) :
                    Activate(i) \/ \E type \in Types : Admit(i, type)

Administrator == \/ ShowSourceChats \/ Leave \/ ShowAddressInput \/ SubmitLifecycle
                 \/ \E c \in Chats : SubmitAddress(c)
                 \/ \E c \in Chats, g \in Generations, a \in Actions : AskConfirmation(c, g, a)

Leases == \E r \in Roles : \E i \in 1..Len(queue[r]) : LeaseLapse(r, i)

Trouble == \/ \E r \in {"bot", "application"} : Revoke(r)
           \/ \E r \in Roles : \E i \in 1..Len(queue[r]) : Crash(r, i)
           \/ IngestionEnds

Next == Bot \/ Application \/ Ingestion \/ Administrator \/ Leases \/ Trouble

(* The pumps loop, processes that end are started again, leases lapse.     *)
Fairness == /\ WF_vars(Bot) /\ WF_vars(Application) /\ WF_vars(Ingestion)
            /\ WF_vars(Leases)

Spec     == Init /\ [][Next]_vars
FairSpec == Spec /\ Fairness
-----------------------------------------------------------------------------
\* What is on its way, leased or not.
InFlight(q) == UNION {{q[r][i].contract : i \in 1..Len(q[r])} : r \in Roles}

TypeOK ==
    /\ registry \in [Chats -> [Generations -> [state : States, started : {0} \cup Requests]]]
    /\ queue \in [Roles -> Seq([contract : Contracts, leased : BOOLEAN])]
    /\ requests \in 0..MaxRequests /\ registrations \in 0..requests
    /\ stage \in Stages
    /\ listed \in [Chats -> [Generations -> States]]
    /\ asked \subseteq [action : Actions, chat : Chats, generation : Generations]
    /\ admin \in [{"bot", "application"} -> BOOLEAN]
    /\ ingestion \in {"down", "starting", "serving"}
    /\ scope \subseteq Chats /\ published \subseteq Seeds
    /\ crashes \in 0..MaxCrashes

(* Whatever overtakes what, the row of a chat that is enabled or paused is *)
(* its newest: no late registration brings an older generation back, and   *)
(* none is left behind by a younger one.                                   *)
LiveIsNewest == \A c \in Chats, g \in Generations : Live(c, g) => g \in Latest(c)

(* What the administrator has removed stays removed in that generation: no *)
(* control confirmed on an outdated list, and no registration, revives it. *)
RemovedForGood ==
    [][\A c \in Chats, g \in Generations :
           registry[c][g].state = "removed" => registry'[c][g].state = "removed"]_vars

(* The screen that waits for a registration never waits for nobody, though *)
(* five steps of three roles can end the registration it stands for.       *)
PendingAnswered ==
    Waiting => \E k \in InFlight(queue) : k.action = "register" /\ k.type # "activated"

(* A chat is listed with the state it is in, unless the result of a       *)
(* control of it is on its way: the list is not drawn anew when the        *)
(* registry changes, only when a result arrives on the right screen.       *)
ListedTrue ==
    stage = "chats" /\ asked = {} =>
        \A c \in Chats, g \in Generations :
            \/ listed[c][g] \in {"none", registry[c][g].state}
            \/ \E k \in InFlight(queue) : /\ k.type = "changed" /\ k.action \in Actions
                                          /\ k.chat = c /\ k.generation = g

(* An enabled chat that Ingestion does not collect yet has an activation   *)
(* on its way that will count: one dropped because the chat was paused, or *)
(* enabled anew, or read before a restart, is not the last.                *)
ActivationComing ==
    ingestion = "serving" =>
        \A c \in Chats \ scope, g \in Generations :
            registry[c][g].state = "enabled" =>
                \E k \in InFlight(queue) :
                    /\ k.type = "activated" /\ k.chat = c
                    /\ k.generation = g /\ k.id = registry[c][g].started

(* Every registration is answered, and every chat that stays enabled comes *)
(* to be collected, once processes stop ending.                            *)
Settles ==
    /\ Waiting ~> ~Waiting
    /\ \A c \in Chats : Enabled(c) ~> (c \in scope \/ ~Enabled(c))
=============================================================================
