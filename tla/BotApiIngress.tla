---------------------------- MODULE BotApiIngress ----------------------------
(***************************************************************************)
(* Bot Assistant's long polling of the Bot API: which of the updates that  *)
(* Bot Users send are handed to the conversation handler, and when         *)
(* Telegram is told to forget them.  A poller is a process; it takes the   *)
(* poll lease, tells the administrator of an earlier retention gap, asks   *)
(* for the updates from the durable offset on, and claims, consumes and    *)
(* completes them one by one.  Telegram numbers updates consecutively,     *)
(* forgets those below the offset it is asked for, and those it has kept   *)
(* for 24 hours.                                                           *)
(***************************************************************************)
EXTENDS Naturals, Sequences, FiniteSetsExt

CONSTANTS
    Pollers,       \* processes of the Bot Assistant role
    NoPoller,
    MaxUpdate,     \* bound on updates sent, an outage counted as one of them
    BatchSize,     \* updates of one answer (100 when getUpdates names no limit)
    MaxTrouble,    \* bound on failing consumers, refused alerts, crashes, and
                   \* on claims and leases that run out under a process at work
    MaxCrashes,    \* how many of them are crashes
    MaxOutages     \* bound on days without a poll

ASSUME IngressAssumption ==
    /\ NoPoller \notin Pollers
    /\ BatchSize \in Nat \ {0}
    /\ {MaxUpdate, MaxTrouble, MaxCrashes, MaxOutages} \subseteq Nat

VARIABLES
    arrived,       \* updates sent so far: 1..arrived
    kept,          \* those Telegram would still deliver
    outage,        \* since last_poll_at: less than a day, a day, a week
    lost,          \* updates Telegram dropped for their age, and whether any
                   \* offset was durable by then
    nextOffset, gapOpen, lease, \* bot_api_checkpoints
    row, holder,   \* bot_api_updates: claim and claimant
    alerts,        \* bot_api_retention_alerts, with what came of the send
    pc, offset, evidence, batch, attempt, \* each poller's cycle
    trouble, crashes, outages

telegram   == <<arrived, kept, outage, lost>>
checkpoint == <<nextOffset, gapOpen, lease>>
updates    == <<row, holder>>
asked      == <<offset, evidence>>
cycle      == <<pc, asked, batch, attempt>>
bounds     == <<trouble, crashes, outages>>
vars       == <<telegram, checkpoint, updates, alerts, cycle, bounds>>

Updates == 1..MaxUpdate
Stages  == {"idle", "before", "fetching", "polling", "answered", "registered",
            "batch", "checked", "consuming", "closing", "after"}

NoAttempt == [alert |-> 0, mode |-> "none", result |-> "none"]

Init == /\ arrived = 0 /\ kept = {} /\ outage = "none"
        /\ lost = [u \in Updates |-> "no"]
        /\ nextOffset = 0 /\ gapOpen = FALSE /\ lease = NoPoller
        /\ row = [u \in Updates |-> "absent"]
        /\ holder = [u \in Updates |-> NoPoller]
        /\ alerts = <<>>
        /\ pc = [p \in Pollers |-> "idle"]
        /\ offset = [p \in Pollers |-> 0]
        /\ evidence = [p \in Pollers |-> "none"]
        /\ batch = [p \in Pollers |-> {}]
        /\ attempt = [p \in Pollers |-> NoAttempt]
        /\ trouble = 0 /\ crashes = 0 /\ outages = 0
-----------------------------------------------------------------------------
(* Telegram and time.                                                      *)
Arrive == /\ arrived + outages < MaxUpdate
          /\ arrived' = arrived + 1
          /\ kept' = kept \cup {arrived + 1}
          /\ UNCHANGED <<outage, lost, checkpoint, updates, alerts, cycle,
                         bounds>>

(* Nobody polls for a day, or a week: Telegram drops the oldest updates,   *)
(* and every claim and lease has run out.                                  *)
Outage(length, dropped) ==
    /\ outages < MaxOutages /\ arrived + outages < MaxUpdate
    /\ outages' = outages + 1
    /\ outage = "none" /\ \A p \in Pollers : pc[p] = "idle"
    /\ dropped = {u \in kept : \E v \in dropped : u <= v}
    /\ outage' = length
    /\ kept' = kept \ dropped
    /\ lost' = [u \in Updates |->
                   IF u \notin dropped \/ u < nextOffset THEN lost[u]
                   ELSE IF nextOffset = 0 THEN "unwatched" ELSE "watched"]
    /\ row' = [u \in Updates |-> IF row[u] = "claimed" THEN "stale" ELSE row[u]]
    /\ alerts' = [a \in DOMAIN alerts |-> [alerts[a] EXCEPT !.stale = TRUE]]
    /\ lease' = NoPoller
    /\ UNCHANGED <<arrived, nextOffset, gapOpen, holder, cycle, trouble,
                   crashes>>

(* The update a poller has come to.                                        *)
Current(p) == Min(batch[p])

Trouble == trouble < MaxTrouble /\ trouble' = trouble + 1

(* A claim runs out after five minutes, a lease after the long poll's      *)
(* timeout and 10 seconds: its process is gone, or slow.                   *)
RunsOut(atWork) == /\ IF atWork THEN Trouble ELSE UNCHANGED trouble
                   /\ UNCHANGED <<telegram, nextOffset, gapOpen, holder, cycle,
                                  crashes, outages>>

ClaimAges(u) == /\ row[u] = "claimed"
                /\ row' = [row EXCEPT ![u] = "stale"]
                /\ RunsOut(\E p \in Pollers : pc[p] = "consuming" /\ u = Current(p))
                /\ UNCHANGED <<lease, alerts>>

AlertAges(a) == /\ alerts[a].status = "attempting"
                /\ ~alerts[a].stale
                /\ alerts' = [alerts EXCEPT ![a].stale = TRUE]
                /\ RunsOut(\E p \in Pollers : attempt[p].alert = a)
                /\ UNCHANGED <<lease, row>>

LeaseLapse == /\ lease # NoPoller
              /\ lease' = NoPoller
              /\ RunsOut(\E p \in Pollers : lease = p /\ pc[p] # "idle")
              /\ UNCHANGED <<row, alerts>>
-----------------------------------------------------------------------------
(* acquire_poll_lease, release_poll_lease.                                 *)
Acquire(p) == /\ pc[p] = "idle"
              /\ lease = NoPoller
              /\ lease' = p
              /\ pc' = [pc EXCEPT ![p] = "before"]
              /\ UNCHANGED <<telegram, nextOffset, gapOpen, updates, alerts, asked,
                             batch, attempt, bounds>>

Released(p) == IF lease = p THEN NoPoller ELSE lease
-----------------------------------------------------------------------------
(* _deliver_retention_alert, before the poll and after it.                 *)
(* Mutant: an attempt that was interrupted is not looked at again.         *)
ClaimableUnattempted(alert) == alert.status \in {"pending", "outcome_unknown"}

Claimable(alert) == \/ alert.status \in {"pending", "outcome_unknown"}
                    \/ alert.status = "attempting" /\ alert.stale

(* Mutant: an attempt that was interrupted is sent again.                  *)
ModeOfInterrupted(alert) == IF alert.status = "outcome_unknown" THEN "reconcile"
                            ELSE "send"

(* What is not known to be unsent is only looked up, never sent again.     *)
Mode(alert) == IF alert.status = "pending" THEN "send" ELSE "reconcile"

(* After the first alert comes the poll, after the second the cycle ends.  *)
Advance(p) ==
    /\ attempt' = [attempt EXCEPT ![p] = NoAttempt]
    /\ pc' = [pc EXCEPT ![p] = IF pc[p] = "before" THEN "fetching" ELSE "idle"]
    /\ lease' = IF pc[p] = "before" THEN lease ELSE Released(p)
    /\ UNCHANGED <<telegram, nextOffset, gapOpen, updates, asked, batch, bounds>>

(* claim_retention_alert: one of them, or none.                            *)
ClaimAlert(p) ==
    /\ pc[p] \in {"before", "after"} /\ attempt[p] = NoAttempt
    /\ \E a \in DOMAIN alerts :
           /\ Claimable(alerts[a])
           /\ alerts' = [alerts EXCEPT ![a].status = "attempting",
                                       ![a].claimant = p, ![a].stale = FALSE]
           /\ attempt' = [attempt EXCEPT ![p] =
                  [alert |-> a, mode |-> Mode(alerts[a]), result |-> "none"]]
    /\ UNCHANGED <<telegram, checkpoint, updates, pc, asked, batch, bounds>>

NoAlert(p) == /\ pc[p] \in {"before", "after"} /\ attempt[p] = NoAttempt
              /\ \A a \in DOMAIN alerts : ~Claimable(alerts[a])
              /\ Advance(p)
              /\ UNCHANGED alerts

Unwritten(p, mode) == attempt[p].mode = mode /\ attempt[p].result = "none"

(* The send is answered, and the delivery ledger confirms it; or it is     *)
(* not, and the message may have been shown all the same.                  *)
SendAlert(p) ==
    /\ Unwritten(p, "send")
    /\ \E shown \in {0, 1}, result \in {"confirmed", "outcome_unknown"} :
           /\ result = "confirmed" => shown = 1
           /\ alerts' = [alerts EXCEPT ![attempt[p].alert].shown = @ + shown,
                             ![attempt[p].alert].known = result = "confirmed"]
           /\ attempt' = [attempt EXCEPT ![p].result = result]
    /\ UNCHANGED <<telegram, checkpoint, updates, pc, asked, batch, bounds>>

(* TelegramDeliveryPreEffectError: nothing was shown.                      *)
RefuseAlert(p) ==
    /\ Unwritten(p, "send")
    /\ Trouble
    /\ attempt' = [attempt EXCEPT ![p].result = "pending"]
    /\ UNCHANGED <<telegram, checkpoint, updates, alerts, pc, asked, batch,
                   crashes, outages>>

(* The ledger knows of a confirmed send, or an operator has to look.       *)
LookUpAlert(p) ==
    /\ Unwritten(p, "reconcile")
    /\ attempt' = [attempt EXCEPT ![p].result =
           IF alerts[attempt[p].alert].known THEN "confirmed" ELSE "unresolved"]
    /\ UNCHANGED <<telegram, checkpoint, updates, alerts, pc, asked, batch, bounds>>

Mine(p) == /\ attempt[p].result # "none"
           /\ alerts[attempt[p].alert].status = "attempting"
           /\ alerts[attempt[p].alert].claimant = p

(* release_retention_alert_claim: a claim that was lost goes unnoticed.    *)
ReleaseAlert(p) ==
    /\ attempt[p].result = "pending"
    /\ alerts' = [a \in DOMAIN alerts |->
                     IF a = attempt[p].alert /\ Mine(p)
                     THEN [alerts[a] EXCEPT !.status = "pending",
                                            !.claimant = NoPoller]
                     ELSE alerts[a]]
    /\ Advance(p)

(* One of the marks.                                                       *)
MarkAlert(p) ==
    /\ attempt[p].result # "pending" /\ Mine(p)
    /\ alerts' = [alerts EXCEPT ![attempt[p].alert].status = attempt[p].result,
                                ![attempt[p].alert].claimant = NoPoller]
    /\ Advance(p)
-----------------------------------------------------------------------------
(* poll_once reads the checkpoint and asks for what follows it.  A day     *)
(* without a poll tells of a gap, but not before the first completed       *)
(* update (_http_retention_gap_evidence).                                  *)
ReadCheckpoint(p) ==
    /\ pc[p] = "fetching"
    /\ offset' = [offset EXCEPT ![p] = nextOffset]
    /\ evidence' = [evidence EXCEPT ![p] = IF nextOffset = 0 THEN "none" ELSE outage]
    /\ pc' = [pc EXCEPT ![p] = "polling"]
    /\ UNCHANGED <<telegram, checkpoint, updates, alerts, batch, attempt, bounds>>

(* The oldest updates from the offset on; Telegram forgets those below.    *)
Answer(p) == LET due == {u \in kept : u >= offset[p]}
             IN {u \in due : Cardinality({v \in due : v <= u}) <= BatchSize}

GetUpdates(p) ==
    /\ pc[p] = "polling"
    /\ kept' = {u \in kept : u >= offset[p]}
    /\ batch' = [batch EXCEPT ![p] = Answer(p)]
    /\ pc' = [pc EXCEPT ![p] = IF evidence[p] = "none" THEN "registered" ELSE "answered"]
    /\ UNCHANGED <<arrived, outage, lost, checkpoint, updates, alerts, asked,
                   attempt, bounds>>

(* first_available_update_id; after a week ids say nothing any more.       *)
Boundary(p) == {u \in batch[p] : evidence[p] = "day" /\ \A v \in batch[p] : u <= v}

NewAlert(p) == [start |-> offset[p], status |-> "pending", claimant |-> NoPoller,
                stale |-> FALSE, shown |-> 0, known |-> FALSE]

(* Mutant: the gap is registered only when updates are available.          *)
RegisterWhenAvailable(p) ==
    /\ pc[p] = "answered"
    /\ nextOffset' = Max(Boundary(p) \cup {nextOffset})
    /\ gapOpen' = (gapOpen \/ Boundary(p) # {})
    /\ alerts' = IF gapOpen \/ Boundary(p) = {} THEN alerts
                 ELSE Append(alerts, NewAlert(p))
    /\ pc' = [pc EXCEPT ![p] = "registered"]
    /\ UNCHANGED <<telegram, lease, updates, asked, batch, attempt,
                   bounds>>

(* register_retention_gap: skip what is gone; one alert per open gap.      *)
Register(p) ==
    /\ pc[p] = "answered"
    /\ nextOffset' = Max(Boundary(p) \cup {nextOffset})
    /\ gapOpen' = TRUE
    /\ alerts' = IF gapOpen THEN alerts ELSE Append(alerts, NewAlert(p))
    /\ pc' = [pc EXCEPT ![p] = "registered"]
    /\ UNCHANGED <<telegram, lease, updates, asked, batch, attempt,
                   bounds>>

(* Only then does the poll count: a crash in between repeats the evidence. *)
RecordPoll(p) ==
    /\ pc[p] = "registered"
    /\ outage' = "none"
    /\ pc' = [pc EXCEPT ![p] = "batch"]
    /\ offset' = [offset EXCEPT ![p] = 0]
    /\ evidence' = [evidence EXCEPT ![p] = "none"]
    /\ UNCHANGED <<arrived, kept, lost, checkpoint, updates, alerts, batch, attempt,
                   bounds>>
-----------------------------------------------------------------------------
(* The updates of the answer, in order of their ids.                       *)
Check(p) == /\ pc[p] = "batch" /\ batch[p] # {}
            /\ IF Current(p) < nextOffset
               THEN /\ batch' = [batch EXCEPT ![p] = @ \ {Current(p)}]
                    /\ UNCHANGED pc
               ELSE /\ pc' = [pc EXCEPT ![p] = "checked"]
                    /\ UNCHANGED batch
            /\ UNCHANGED <<telegram, checkpoint, updates, alerts, asked, attempt,
                           bounds>>

(* Mutant: a claim is never taken over.                                    *)
FreeUnlessEverClaimed(u) == row[u] \in {"absent", "free"}

(* claim_update: a new row, a released one, or a claim older than 5 min.   *)
Free(u) == row[u] \in {"absent", "free", "stale"}

ClaimUpdate(p) ==
    LET u == Current(p) IN
    /\ pc[p] = "checked"
    /\ Free(u)
    /\ row' = [row EXCEPT ![u] = "claimed"]
    /\ holder' = [holder EXCEPT ![u] = p]
    /\ pc' = [pc EXCEPT ![p] = "consuming"]
    /\ UNCHANGED <<telegram, checkpoint, alerts, asked, batch, attempt, bounds>>

(* Completed, or under a fresh claim: not for this poller.                 *)
Duplicate(p) ==
    /\ pc[p] = "checked"
    /\ ~Free(Current(p))
    /\ batch' = [batch EXCEPT ![p] = @ \ {Current(p)}]
    /\ pc' = [pc EXCEPT ![p] = "batch"]
    /\ UNCHANGED <<telegram, checkpoint, updates, alerts, asked, attempt, bounds>>

Incomplete(u) == row[u] \in {"claimed", "stale", "free"}
Holds(p)      == holder[Current(p)] = p /\ Incomplete(Current(p))

(* Mutant: the offset follows the completed update.                        *)
PassedUnordered(u) == Max({nextOffset, u + 1})

(* complete_update moves the offset past every completed update, unless    *)
(* one below this one is incomplete.                                       *)
Passed(u) ==
    IF \E v \in 1..(u - 1) : Incomplete(v) THEN nextOffset
    ELSE Max({nextOffset, u + 1} \cup {v + 1 : v \in {w \in Updates : row[w] = "done"}})

Complete(p) ==
    LET u == Current(p) IN
    /\ pc[p] = "consuming" /\ Holds(p)
    /\ row' = [row EXCEPT ![u] = "done"]
    /\ holder' = [holder EXCEPT ![u] = NoPoller]
    /\ nextOffset' = Passed(u)
    /\ batch' = [batch EXCEPT ![p] = @ \ {u}]
    /\ pc' = [pc EXCEPT ![p] = "closing"]
    /\ UNCHANGED <<telegram, gapOpen, lease, alerts, asked, attempt, bounds>>

(* close_retention_gap, if one is open.                                    *)
CloseGap(p) == /\ pc[p] = "closing"
               /\ gapOpen' = FALSE
               /\ pc' = [pc EXCEPT ![p] = "batch"]
               /\ UNCHANGED <<telegram, nextOffset, lease, updates, alerts, asked,
                              batch, attempt, bounds>>

EndOfBatch(p) == /\ pc[p] = "batch" /\ batch[p] = {}
                 /\ pc' = [pc EXCEPT ![p] = "after"]
                 /\ UNCHANGED <<telegram, checkpoint, updates, alerts, asked, batch,
                                attempt, bounds>>
-----------------------------------------------------------------------------
(* An exception ends the cycle and the process; the lease is released.     *)
End(p) == /\ pc' = [pc EXCEPT ![p] = "idle"]
          /\ batch' = [batch EXCEPT ![p] = {}]
          /\ attempt' = [attempt EXCEPT ![p] = NoAttempt]
          /\ offset' = [offset EXCEPT ![p] = 0]
          /\ evidence' = [evidence EXCEPT ![p] = "none"]

(* The consumer raises: release_update_claim, if it is still this one's.   *)
Fail(p) ==
    /\ pc[p] = "consuming"
    /\ Trouble
    /\ IF Holds(p)
       THEN /\ row' = [row EXCEPT ![Current(p)] = "free"]
            /\ holder' = [holder EXCEPT ![Current(p)] = NoPoller]
       ELSE UNCHANGED updates
    /\ lease' = Released(p)
    /\ End(p)
    /\ UNCHANGED <<telegram, nextOffset, gapOpen, alerts, crashes, outages>>

(* complete_update, or the mark of an alert: the claim was lost.           *)
ClaimLost(p) == /\ \/ pc[p] = "consuming" /\ ~Holds(p)
                   \/ attempt[p].result \notin {"none", "pending"} /\ ~Mine(p)
                /\ lease' = Released(p)
                /\ End(p)
                /\ UNCHANGED <<telegram, nextOffset, gapOpen, updates, alerts,
                               bounds>>

(* The process is gone; its lease and its claims stay.                     *)
Crash(p) ==
    /\ pc[p] # "idle"
    /\ Trouble
    /\ crashes < MaxCrashes
    /\ crashes' = crashes + 1
    /\ End(p)
    /\ UNCHANGED <<telegram, checkpoint, updates, alerts, outages>>
-----------------------------------------------------------------------------
Poll(p) == \/ Acquire(p) \/ ClaimAlert(p) \/ NoAlert(p)
           \/ SendAlert(p) \/ LookUpAlert(p) \/ ReleaseAlert(p) \/ MarkAlert(p)
           \/ ReadCheckpoint(p) \/ GetUpdates(p) \/ Register(p) \/ RecordPoll(p)
           \/ Check(p) \/ ClaimUpdate(p) \/ Duplicate(p)
           \/ Complete(p) \/ CloseGap(p) \/ EndOfBatch(p)
           \/ ClaimLost(p)

Next == \/ Arrive
        \/ \E length \in {"day", "week"}, dropped \in SUBSET kept :
               Outage(length, dropped)
        \/ \E u \in Updates : ClaimAges(u)
        \/ \E a \in DOMAIN alerts : AlertAges(a)
        \/ LeaseLapse
        \/ \E p \in Pollers : \/ Poll(p)
                              \/ RefuseAlert(p) \/ Fail(p) \/ Crash(p)

(* The role's process polls for ever, and clocks run.                      *)
Fairness == /\ \A p \in Pollers : WF_vars(Poll(p))
            /\ \A u \in Updates : WF_vars(ClaimAges(u))
            /\ \A a \in 1..MaxOutages : WF_vars(a \in DOMAIN alerts /\ AlertAges(a))
            /\ WF_vars(LeaseLapse)

Spec     == Init /\ [][Next]_vars
FairSpec == Spec /\ Fairness
-----------------------------------------------------------------------------
Alerts == [start : 0..MaxUpdate + 1, claimant : Pollers \cup {NoPoller},
           status : {"pending", "attempting", "outcome_unknown", "unresolved",
                     "confirmed"},
           stale : BOOLEAN, shown : Nat, known : BOOLEAN]

(* Every variable stays within its type.                                   *)
TypeOK ==
    /\ arrived \in 0..MaxUpdate
    /\ kept \subseteq 1..arrived
    /\ outage \in {"none", "day", "week"}
    /\ lost \in [Updates -> {"no", "unwatched", "watched"}]
    /\ nextOffset \in 0..MaxUpdate + 1
    /\ gapOpen \in BOOLEAN
    /\ lease \in Pollers \cup {NoPoller}
    /\ row \in [Updates -> {"absent", "claimed", "stale", "free", "done"}]
    /\ holder \in [Updates -> Pollers \cup {NoPoller}]
    /\ alerts \in Seq(Alerts)
    /\ pc \in [Pollers -> Stages]
    /\ offset \in [Pollers -> 0..MaxUpdate + 1]
    /\ evidence \in [Pollers -> {"none", "day", "week"}]
    /\ batch \in [Pollers -> SUBSET Updates]
    /\ \A p \in Pollers : pc[p] \in {"checked", "consuming"} => batch[p] # {}
    /\ attempt \in [Pollers -> [alert : 0..Len(alerts),
                                mode : {"none", "send", "reconcile"},
                                result : {"none", "pending", "outcome_unknown",
                                          "unresolved", "confirmed"}]]
    /\ trouble \in 0..MaxTrouble /\ crashes \in 0..MaxCrashes
    /\ outages \in 0..MaxOutages

(* The offset tells Telegram what to forget.  It passes an update that is  *)
(* neither completed nor lost in one way only: the update was handed out   *)
(* and its claim left behind, and an earlier one that had been left behind *)
(* as well is completed now.  So nothing is forgotten that no consumer     *)
(* ever got, and a claim left behind holds the offset back for as long as  *)
(* no claim before it is settled.                                          *)
LeftBehind(u) == /\ row[u] # "absent"
                 /\ \E v \in 1..(u - 1) : Incomplete(v) /\ row'[v] = "done"

OffsetWaits ==
    [][\A u \in 1..arrived :
           nextOffset <= u /\ u < nextOffset' =>
               row'[u] = "done" \/ lost[u] # "no" \/ LeftBehind(u)]_vars

(* Updates that Telegram dropped for their age are accounted for: once a   *)
(* poll has seen it, an alert covers the interval they were in.  (Before   *)
(* the first completed update there is no offset to tell a gap by.)        *)
LossAlerted ==
    \A u \in Updates :
        lost[u] = "watched" /\ row[u] # "done" /\ outage = "none"
            => \E a \in DOMAIN alerts : alerts[a].start <= u

(* The administrator never gets an alert twice, whatever was unknown about *)
(* an earlier send of it.                                                  *)
AlertShownOnce == \A a \in DOMAIN alerts : alerts[a].shown <= 1

(* An update that Telegram can deliver is eventually consumed, or passed   *)
(* over as OffsetWaits has it: a claim left behind delays it, and nothing  *)
(* else (as long as Telegram drops nothing: an incomplete update that is   *)
(* gone holds the offset for ever).                                        *)
EventuallyHandled ==
    \A u \in Updates :
        u \in kept ~> \/ row[u] = "done" \/ u < nextOffset
                     \/ \E v \in Updates : lost[v] # "no"

(* Every alert is eventually confirmed, or left to an operator.            *)
AlertsSettle ==
    \A a \in 1..MaxOutages :
        a \in DOMAIN alerts ~>
            a \in DOMAIN alerts /\ alerts[a].status \in {"confirmed", "unresolved"}
=============================================================================
