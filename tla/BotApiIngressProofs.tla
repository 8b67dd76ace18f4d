------------------------- MODULE BotApiIngressProofs -------------------------
(***************************************************************************)
(* Proofs about BotApiIngress, for any number of processes, crashes and    *)
(* outages: what the offset may pass, that losses are alerted, and that no *)
(* alert is shown twice.                                                   *)
(***************************************************************************)
EXTENDS BotApiIngress, FiniteSetTheorems, SequenceTheorems,
        WellFoundedInduction, TLAPS

Waiting == {u \in 1..arrived : nextOffset <= u /\ lost[u] = "no"}

(* Telegram still has what waits, and updates are handed out in order:     *)
(* nothing later than one that waits and that nobody ever got.             *)
KeptInv ==
    /\ Waiting \subseteq kept
    /\ \A u \in Updates : row[u] # "absent" => u <= arrived
    /\ \A u \in Waiting, w \in Updates :
           u < w /\ row[w] # "absent" => row[u] # "absent"

(* What a poller has in its hands leaves out no update that waits below    *)
(* one of it, but those that were handed out; and none at all while the    *)
(* answer may yet move the offset.                                         *)
BatchInv ==
    \A p \in Pollers :
        /\ offset[p] <= nextOffset
        /\ \A b \in batch[p] :
               /\ b <= arrived
               /\ \A u \in Waiting : u < b =>
                      u \in batch[p] \/ (row[u] # "absent" /\ pc[p] # "answered")

IngressInv == KeptInv /\ BatchInv

Covered(u) == \E a \in DOMAIN alerts : alerts[a].start <= u

(* A loss that no alert covers yet will be seen by the next poll, or is    *)
(* being seen by this one.                                                 *)
LossInv ==
    /\ gapOpen => Covered(nextOffset)
    /\ \A u \in Updates :
           lost[u] = "watched" /\ row[u] # "done" /\ ~Covered(u) =>
               /\ outage # "none" /\ 0 < nextOffset /\ nextOffset <= u
               /\ \A p \in Pollers :
                      \/ pc[p] \in {"idle", "before", "fetching"}
                      \/ pc[p] \in {"polling", "answered"} /\ evidence[p] # "none"

(* Who may still show an alert is the one poller that claimed it when it   *)
(* was known to be unsent.                                                 *)
Sends(p, a) == /\ attempt[p].alert = a /\ attempt[p].mode = "send"
               /\ attempt[p].result \in {"none", "pending"}

AlertInv ==
    /\ \A p \in Pollers : attempt[p].result = "pending" => attempt[p].mode = "send"
    /\ \A a \in DOMAIN alerts :
           /\ alerts[a].shown <= 1
           /\ alerts[a].status = "pending" =>
                  alerts[a].shown = 0 /\ \A p \in Pollers : ~Sends(p, a)
           /\ \A p \in Pollers : Sends(p, a) => alerts[a].shown = 0
           /\ \A p, q \in Pollers : Sends(p, a) /\ Sends(q, a) => p = q
-----------------------------------------------------------------------------
LEMMA MinNat == ASSUME NEW S \in SUBSET Nat, S # {}
                PROVE  Min(S) \in S /\ \A x \in S : Min(S) <= x
<1>. DEFINE R == {pair \in Nat \X Nat : pair[1] < pair[2]}
<1>1. IsWellFoundedOn(R, Nat)
  BY NatLessThanWellFounded DEF OpToRel
<1>2. PICK m \in S : \A y \in S : ~(<<y, m>> \in R)
  <2>. HIDE DEF R
  <2>. QED BY <1>1, WFMin
<1>3. ASSUME NEW y \in S PROVE m <= y
  <2>1. <<y, m>> \notin R
    BY <1>2
  <2>2. y \in Nat /\ m \in Nat /\ <<y, m>>[1] = y /\ <<y, m>>[2] = m
    OBVIOUS
  <2>. QED BY <2>1, <2>2
<1>. QED BY <1>3 DEF Min

LEMMA MaxNat == ASSUME NEW n \in Nat, NEW S \in SUBSET (0..n), S # {}
                PROVE  Max(S) \in S /\ \A x \in S : x <= Max(S)
<1>. DEFINE T == {n - x : x \in S}
<1>0. \A x \in S : n - x \in Nat
  OBVIOUS
<1>1. T \in SUBSET Nat /\ T # {}
  BY <1>0, Zenon
<1>2. PICK m \in S : Min(T) = n - m
  BY <1>1, MinNat
<1>3. \A y \in S : Min(T) <= n - y
  BY <1>1, MinNat
<1>4. \A y \in S : m >= y
  BY <1>2, <1>3
<1>5. \E x \in S : \A y \in S : x >= y
  BY <1>4
<1>. QED BY <1>5 DEF Max

-----------------------------------------------------------------------------
LEMMA Bounds == /\ MaxUpdate \in Nat /\ MaxTrouble \in Nat /\ MaxCrashes \in Nat
                /\ MaxOutages \in Nat /\ BatchSize \in Nat
                /\ NoPoller \notin Pollers
                /\ Updates \in SUBSET Nat
BY IngressAssumption DEF IngressAssumption, Updates

LEMMA CurrentIsFirst ==
    ASSUME TypeOK, NEW p \in Pollers, batch[p] # {}
    PROVE  /\ Current(p) \in batch[p] /\ Current(p) \in Updates
           /\ \A b \in batch[p] : Current(p) <= b
<1>1. batch[p] \in SUBSET Updates
  BY DEF TypeOK
<1>2. batch[p] \in SUBSET Nat
  BY <1>1, Bounds
<1>. QED BY <1>1, <1>2, MinNat DEF Current

LEMMA PassedTyped ==
    ASSUME TypeOK, NEW u \in Updates
    PROVE  /\ Passed(u) \in 0..MaxUpdate + 1
           /\ nextOffset <= Passed(u)
           /\ \A x \in Nat : x < Passed(u) /\ nextOffset <= x =>
                  /\ \A v \in 1..(u - 1) : ~Incomplete(v)
                  /\ x <= u \/ \E w \in Updates : row[w] = "done" /\ x <= w
<1>. DEFINE S == {nextOffset, u + 1} \cup {v + 1 : v \in {w \in Updates : row[w] = "done"}}
<1>1. S \in SUBSET (0..(MaxUpdate + 1)) /\ S # {} /\ nextOffset \in S
  BY Bounds DEF Updates, TypeOK
<1>2. MaxUpdate + 1 \in Nat
  BY Bounds
<1>3. Max(S) \in S /\ nextOffset <= Max(S)
  <2>. HIDE DEF S
  <2>. QED BY <1>1, <1>2, MaxNat
<1>4. CASE \E v \in 1..(u - 1) : Incomplete(v)
  BY <1>4, Bounds DEF Passed, TypeOK
<1>5. CASE ~ \E v \in 1..(u - 1) : Incomplete(v)
  <2>1. Passed(u) = Max(S)
    BY <1>5 DEF Passed
  <2>2. ASSUME NEW x \in Nat, x < Max(S), nextOffset <= x
        PROVE  x <= u \/ \E w \in Updates : row[w] = "done" /\ x <= w
    <3>1. CASE Max(S) \in {nextOffset, u + 1}
      BY <3>1, <2>2, Bounds DEF TypeOK, Updates
    <3>2. CASE \E v \in Updates : row[v] = "done" /\ Max(S) = v + 1
      BY <3>2, <2>2, Bounds DEF Updates
    <3>. QED BY <3>1, <3>2, <1>3
  <2>. QED BY <1>1, <1>3, <1>5, <2>1, <2>2
<1>. QED BY <1>4, <1>5

LEMMA BoundaryTyped ==
    ASSUME TypeOK, NEW p \in Pollers
    PROVE  /\ Max(Boundary(p) \cup {nextOffset}) \in 0..MaxUpdate + 1
           /\ nextOffset <= Max(Boundary(p) \cup {nextOffset})
           /\ \A x \in Nat : x < Max(Boundary(p) \cup {nextOffset}) /\ nextOffset <= x =>
                  \E b \in batch[p] : x < b /\ \A c \in batch[p] : b <= c
<1>. DEFINE S == Boundary(p) \cup {nextOffset}
<1>1. S \in SUBSET (0..(MaxUpdate + 1)) /\ S # {}
  BY Bounds DEF Updates, TypeOK, Boundary
<1>2. MaxUpdate + 1 \in Nat
  BY Bounds
<1>3. Max(S) \in S /\ nextOffset <= Max(S)
  <2>. HIDE DEF S
  <2>1. nextOffset \in S
    BY DEF S
  <2>. QED BY <1>1, <1>2, <2>1, MaxNat
<1>4. \A x \in Nat : x < Max(S) /\ nextOffset <= x => Max(S) \in Boundary(p)
  BY <1>3, Bounds DEF TypeOK, Boundary
<1>. QED BY <1>1, <1>3, <1>4 DEF Boundary

LEMMA AlertsTyped ==
    ASSUME TypeOK
    PROVE  /\ Len(alerts) \in Nat /\ DOMAIN alerts = 1..Len(alerts)
           /\ \A a \in DOMAIN alerts : alerts[a] \in Alerts
BY ElementOfSeq, LenProperties DEF TypeOK

LEMMA AlertChanged ==
    ASSUME TypeOK, NEW a \in DOMAIN alerts, NEW e \in Alerts,
           alerts' = [alerts EXCEPT ![a] = e]
    PROVE  /\ alerts' \in Seq(Alerts) /\ Len(alerts') = Len(alerts)
BY AlertsTyped, ExceptSeq DEF TypeOK
-----------------------------------------------------------------------------
(* What a poller knows of an alert it works on, and the alert it marks.    *)
LEMMA AttemptTyped ==
    ASSUME TypeOK, NEW p \in Pollers
    PROVE  /\ attempt[p].alert \in 0..Len(alerts)
           /\ attempt[p].mode \in {"none", "send", "reconcile"}
           /\ attempt[p].result \in {"none", "pending", "outcome_unknown",
                                     "unresolved", "confirmed"}
BY DEF TypeOK

(* The part of TypeOK that concerns the alerts and who works on them.      *)
AttemptOK == attempt \in [Pollers -> [alert : 0..Len(alerts),
                                      mode : {"none", "send", "reconcile"},
                                      result : {"none", "pending", "outcome_unknown",
                                                "unresolved", "confirmed"}]]

LEMMA AttemptResult ==
    ASSUME TypeOK, NEW p \in Pollers,
           NEW r \in {"none", "pending", "outcome_unknown", "unresolved", "confirmed"},
           NEW t, t = [attempt[p] EXCEPT !.result = r]
    PROVE  /\ t \in [alert : 0..Len(alerts), mode : {"none", "send", "reconcile"},
                     result : {"none", "pending", "outcome_unknown", "unresolved",
                               "confirmed"}]
           /\ t.alert = attempt[p].alert
<1>1. attempt[p] \in [alert : 0..Len(alerts), mode : {"none", "send", "reconcile"},
                      result : {"none", "pending", "outcome_unknown", "unresolved",
                                "confirmed"}]
  BY DEF TypeOK
<1>. QED BY <1>1

(* Who sends, looks up or marks has an alert to do it to.                  *)
Working == \A p \in Pollers :
               attempt[p].mode # "none" \/ attempt[p].result # "none"
                   => attempt[p].alert \in DOMAIN alerts

LEMMA AlertStale ==
    ASSUME TypeOK, NEW a \in DOMAIN alerts
    PROVE  [alerts[a] EXCEPT !.stale = TRUE] \in Alerts
BY AlertsTyped DEF Alerts

LEMMA AlertTaken ==
    ASSUME TypeOK, NEW a \in DOMAIN alerts, NEW p \in Pollers
    PROVE  [alerts[a] EXCEPT !.status = "attempting", !.claimant = p,
                             !.stale = FALSE] \in Alerts
BY AlertsTyped DEF Alerts

LEMMA AlertTold ==
    ASSUME TypeOK, NEW a \in DOMAIN alerts, NEW n \in {0, 1}, NEW b \in BOOLEAN
    PROVE  [alerts[a] EXCEPT !.shown = alerts[a].shown + n, !.known = b] \in Alerts
<1>1. alerts[a] \in Alerts
  BY AlertsTyped
<1>2. alerts[a].shown + n \in Nat
  BY <1>1 DEF Alerts
<1>3. ASSUME NEW e \in Alerts, NEW m \in Nat
      PROVE  [e EXCEPT !.shown = m, !.known = b] \in Alerts
  BY DEF Alerts
<1>. QED BY Zenon, <1>1, <1>2, <1>3

LEMMA AlertGivenUp ==
    ASSUME TypeOK, NEW a \in DOMAIN alerts,
           NEW s \in {"pending", "outcome_unknown", "unresolved", "confirmed"}
    PROVE  [alerts[a] EXCEPT !.status = s, !.claimant = NoPoller] \in Alerts
BY AlertsTyped DEF Alerts

(* One poller goes on with its attempt, while alerts are only added.       *)
LEMMA AttemptSet ==
    ASSUME TypeOK, Working, NEW p \in Pollers, alerts' \in Seq(Alerts),
           Len(alerts') >= Len(alerts),
           NEW t \in [alert : 0..Len(alerts), mode : {"none", "send", "reconcile"},
                      result : {"none", "pending", "outcome_unknown", "unresolved",
                                "confirmed"}],
           attempt' = [attempt EXCEPT ![p] = t],
           t.mode # "none" \/ t.result # "none" => t.alert \in DOMAIN alerts
    PROVE  AttemptOK' /\ Working'
<1>1. Len(alerts') \in Nat /\ DOMAIN alerts' = 1..Len(alerts')
  BY LenProperties
<1>2. Len(alerts) \in Nat /\ DOMAIN alerts = 1..Len(alerts)
  BY AlertsTyped
<1>3. AttemptOK'
  BY <1>1, <1>2 DEF TypeOK, AttemptOK
<1>4. ASSUME NEW q \in Pollers,
             attempt'[q].mode # "none" \/ attempt'[q].result # "none"
      PROVE  attempt'[q].alert \in DOMAIN alerts'
  <2>1. CASE q = p
    BY <1>1, <1>2, <1>4, <2>1 DEF TypeOK
  <2>2. CASE q # p
    BY <1>1, <1>2, <1>4, <2>2 DEF TypeOK, Working
  <2>. QED BY <2>1, <2>2
<1>. QED BY <1>3, <1>4 DEF Working

LEMMA AttemptKept ==
    ASSUME TypeOK, Working, alerts' \in Seq(Alerts), Len(alerts') >= Len(alerts),
           UNCHANGED attempt
    PROVE  AttemptOK' /\ Working'
<1>1. Len(alerts') \in Nat /\ DOMAIN alerts' = 1..Len(alerts')
  BY LenProperties
<1>2. Len(alerts) \in Nat /\ DOMAIN alerts = 1..Len(alerts)
  BY AlertsTyped
<1>3. AttemptOK'
  BY <1>1, <1>2 DEF TypeOK, AttemptOK
<1>4. Working'
  BY <1>1, <1>2 DEF Working
<1>. QED BY <1>3, <1>4

LEMMA AttemptEnded ==
    ASSUME TypeOK, Working, NEW p \in Pollers, alerts' \in Seq(Alerts),
           Len(alerts') >= Len(alerts), attempt' = [attempt EXCEPT ![p] = NoAttempt]
    PROVE  AttemptOK' /\ Working'
<1>1. NoAttempt \in [alert : 0..Len(alerts), mode : {"none", "send", "reconcile"},
                     result : {"none", "pending", "outcome_unknown", "unresolved",
                               "confirmed"}]
  BY AlertsTyped DEF NoAttempt
<1>2. NoAttempt.mode = "none" /\ NoAttempt.result = "none"
  BY DEF NoAttempt
<1>. QED BY <1>1, <1>2, AttemptSet

LEMMA AttemptAnswered ==
    ASSUME TypeOK, Working, NEW p \in Pollers, attempt[p].alert \in DOMAIN alerts,
           alerts' \in Seq(Alerts), Len(alerts') >= Len(alerts),
           NEW r \in {"none", "pending", "outcome_unknown", "unresolved", "confirmed"},
           attempt' = [attempt EXCEPT ![p].result = r]
    PROVE  AttemptOK' /\ Working'
<1>. PICK t : t = [attempt[p] EXCEPT !.result = r]
  OBVIOUS
<1>1. /\ t \in [alert : 0..Len(alerts), mode : {"none", "send", "reconcile"},
                result : {"none", "pending", "outcome_unknown", "unresolved",
                          "confirmed"}]
      /\ t.alert = attempt[p].alert
  BY Zenon, AttemptResult
<1>2. attempt' = [attempt EXCEPT ![p] = t]
  OBVIOUS
<1>. QED BY Zenon, <1>1, <1>2, AttemptSet

LEMMA CheckGoesOn ==
    ASSUME NEW p \in Pollers, Check(p)
    PROVE  \/ UNCHANGED pc /\ batch' = [batch EXCEPT ![p] = @ \ {Current(p)}]
           \/ UNCHANGED batch /\ pc' = [pc EXCEPT ![p] = "checked"]
BY DEF Check

LEMMA TypeStep == TypeOK /\ Working /\ [Next]_vars => TypeOK' /\ Working'
<1>. SUFFICES ASSUME TypeOK, Working, [Next]_vars PROVE TypeOK' /\ Working'
  OBVIOUS
<1>0. alerts \in Seq(Alerts) /\ Len(alerts) >= Len(alerts)
  BY AlertsTyped DEF TypeOK
<1>00. UNCHANGED alerts => alerts' \in Seq(Alerts) /\ Len(alerts') >= Len(alerts)
  BY <1>0
<1>. USE Bounds
<1>1. CASE Arrive
  <2>1. AttemptOK' /\ Working'
    BY <1>1, <1>00, AttemptKept DEF Arrive, cycle
  <2>. QED BY <1>1, <2>1 DEF Arrive, TypeOK, AttemptOK, checkpoint, updates, cycle, asked, bounds
<1>2. ASSUME NEW length \in {"day", "week"}, NEW dropped \in SUBSET kept,
             Outage(length, dropped)
      PROVE  TypeOK' /\ Working'
  <2>1. alerts' \in Seq(Alerts) /\ Len(alerts') = Len(alerts)
    <3>1. alerts' = [a \in 1..Len(alerts) |-> [alerts[a] EXCEPT !.stale = TRUE]]
      BY <1>2, AlertsTyped DEF Outage
    <3>2. ASSUME NEW a \in 1..Len(alerts)
          PROVE  [alerts[a] EXCEPT !.stale = TRUE] \in Alerts
      BY Zenon, AlertStale, AlertsTyped
    <3>3. alerts' \in [1..Len(alerts) -> Alerts] /\ Len(alerts) \in Nat
      BY <3>1, <3>2, AlertsTyped
    <3>. QED BY <3>3
  <2>2. AttemptOK' /\ Working'
    BY <1>2, <2>1, <1>0, AttemptKept DEF Outage, cycle
  <2>0. /\ outages < MaxOutages /\ outages' = outages + 1
        /\ outage' = length /\ kept' = kept \ dropped
        /\ lost' = [u \in Updates |->
                       IF u \notin dropped \/ u < nextOffset THEN lost[u]
                       ELSE IF nextOffset = 0 THEN "unwatched" ELSE "watched"]
        /\ row' = [u \in Updates |-> IF row[u] = "claimed" THEN "stale" ELSE row[u]]
        /\ lease' = NoPoller /\ arrived' = arrived
    BY Zenon, <1>2 DEF Outage
  <2>3. /\ arrived' \in 0..MaxUpdate
        /\ kept' \subseteq 1..arrived'
        /\ outage' \in {"none", "day", "week"}
        /\ lease' \in Pollers \cup {NoPoller}
        /\ outages' \in 0..MaxOutages
    BY <2>0 DEF TypeOK
  <2>4. lost' \in [Updates -> {"no", "unwatched", "watched"}]
    BY <2>0 DEF TypeOK
  <2>5. row' \in [Updates -> {"absent", "claimed", "stale", "free", "done"}]
    BY <2>0 DEF TypeOK
  <2>. QED BY <1>2, <2>1, <2>2, <2>3, <2>4, <2>5 DEF Outage, TypeOK, AttemptOK, cycle,
           asked
<1>3. CASE \E u \in Updates : ClaimAges(u)
  <2>1. AttemptOK' /\ Working'
    BY <1>3, <1>00, AttemptKept DEF ClaimAges, RunsOut, cycle
  <2>. QED BY <1>3, <2>1 DEF ClaimAges, RunsOut, Trouble, TypeOK, AttemptOK, telegram,
           cycle, asked
<1>4. CASE \E a \in DOMAIN alerts : AlertAges(a)
  <2>1. PICK a \in DOMAIN alerts : AlertAges(a)
    BY <1>4
  <2>2. alerts' = [alerts EXCEPT ![a] = [alerts[a] EXCEPT !.stale = TRUE]]
    BY <2>1 DEF AlertAges
  <2>3. [alerts[a] EXCEPT !.stale = TRUE] \in Alerts
    BY Zenon, AlertStale
  <2>4. alerts' \in Seq(Alerts) /\ Len(alerts') = Len(alerts)
    BY <2>2, <2>3, AlertChanged
  <2>5. AttemptOK' /\ Working'
    BY <2>1, <2>4, <1>0, AttemptKept DEF AlertAges, RunsOut, cycle
  <2>6. trouble' \in 0..MaxTrouble /\ crashes' = crashes /\ outages' = outages
    <3>1. \E atWork \in BOOLEAN : RunsOut(atWork)
      BY <2>1 DEF AlertAges
    <3>. QED BY <3>1 DEF RunsOut, Trouble, TypeOK
  <2>7. UNCHANGED <<telegram, nextOffset, gapOpen, holder, lease, row, pc, offset,
                    evidence, batch>>
    BY <2>1 DEF AlertAges, RunsOut, cycle, asked
  <2>. QED BY <2>4, <2>5, <2>6, <2>7 DEF TypeOK, AttemptOK, telegram
<1>5. CASE LeaseLapse
  <2>1. AttemptOK' /\ Working'
    BY <1>5, <1>00, AttemptKept DEF LeaseLapse, RunsOut, cycle
  <2>. QED BY <1>5, <2>1 DEF LeaseLapse, RunsOut, Trouble, TypeOK, AttemptOK, telegram,
           cycle, asked
<1>6. ASSUME NEW p \in Pollers, Poll(p) \/ RefuseAlert(p) \/ Fail(p) \/ Crash(p)
      PROVE  TypeOK' /\ Working'
  <2>0. ASSUME UNCHANGED <<alerts, attempt>> PROVE AttemptOK' /\ Working'
    BY <2>0, <1>00, AttemptKept
  <2>00. ASSUME UNCHANGED alerts, attempt' = [attempt EXCEPT ![p] = NoAttempt]
         PROVE  AttemptOK' /\ Working'
    BY <2>00, <1>00, AttemptEnded
  <2>1. CASE Acquire(p)
    <3>1. AttemptOK' /\ Working'
      BY <2>1, <2>0 DEF Acquire
    <3>. QED BY <2>1, <3>1 DEF Acquire, TypeOK, AttemptOK, Stages, telegram, updates, asked,
             bounds
  <2>2. CASE ClaimAlert(p)
    <3>1. PICK a \in DOMAIN alerts :
             /\ alerts' = [alerts EXCEPT ![a] = [alerts[a] EXCEPT !.status = "attempting",
                                              !.claimant = p, !.stale = FALSE]]
             /\ attempt' = [attempt EXCEPT ![p] =
                    [alert |-> a, mode |-> Mode(alerts[a]), result |-> "none"]]
      BY <2>2 DEF ClaimAlert
    <3>2. alerts' \in Seq(Alerts) /\ Len(alerts') = Len(alerts)
      <4>1. [alerts[a] EXCEPT !.status = "attempting", !.claimant = p,
                              !.stale = FALSE] \in Alerts
        BY Zenon, AlertTaken
      <4>. QED BY <3>1, <4>1, AlertChanged
    <3>3. AttemptOK' /\ Working'
      <4>1. Mode(alerts[a]) \in {"none", "send", "reconcile"} /\ a \in 0..Len(alerts)
        BY AlertsTyped DEF Mode
      <4>. QED BY <3>1, <3>2, <4>1, <1>0, AttemptSet
    <3>. QED BY <2>2, <3>2, <3>3 DEF ClaimAlert, AttemptOK, TypeOK, telegram,
             checkpoint, updates, asked, bounds
  <2>3. CASE NoAlert(p)
    <3>1. AttemptOK' /\ Working'
      BY <2>3, <2>00 DEF NoAlert, Advance
    <3>. QED BY <2>3, <3>1 DEF NoAlert, Advance, Released, TypeOK, AttemptOK, Stages,
             telegram, updates, asked, bounds
  <2>4. CASE SendAlert(p)
    <3>1. PICK shown \in {0, 1}, result \in {"confirmed", "outcome_unknown"} :
             /\ alerts' = [alerts EXCEPT ![attempt[p].alert].shown = @ + shown,
                                         ![attempt[p].alert].known = result = "confirmed"]
             /\ attempt' = [attempt EXCEPT ![p].result = result]
      BY Zenon, <2>4 DEF SendAlert
    <3>. PICK a : a = attempt[p].alert
      OBVIOUS
    <3>. PICK e : e = [alerts[a] EXCEPT !.shown = alerts[a].shown + shown,
                                        !.known = (result = "confirmed")]
      OBVIOUS
    <3>2. a \in DOMAIN alerts
      BY <2>4 DEF SendAlert, Unwritten, Working
    <3>3. e \in Alerts
      <4>1. (result = "confirmed") \in BOOLEAN
        OBVIOUS
      <4>. QED BY Zenon, <3>2, <4>1, AlertTold
    <3>4. alerts' = [alerts EXCEPT ![a] = e]
      BY <3>1, <3>2
    <3>5. alerts' \in Seq(Alerts) /\ Len(alerts') = Len(alerts)
      BY Zenon, <3>2, <3>3, <3>4, AlertChanged
    <3>6. AttemptOK' /\ Working'
      <4>1. Len(alerts') >= Len(alerts)
        BY <3>5, <1>0
      <4>2. attempt' = [attempt EXCEPT ![p].result = result]
        BY <3>1
      <4>. QED BY <3>2, <3>5, <4>1, <4>2, AttemptAnswered
    <3>. QED BY <2>4, <3>5, <3>6 DEF SendAlert, AttemptOK, TypeOK, telegram, checkpoint,
             updates, asked, bounds
  <2>5. CASE RefuseAlert(p)
    <3>1. AttemptOK' /\ Working'
      <4>1. attempt[p].alert \in DOMAIN alerts
        BY <2>5 DEF RefuseAlert, Unwritten, Working
      <4>2. UNCHANGED alerts /\ attempt' = [attempt EXCEPT ![p].result = "pending"]
        BY Zenon, <2>5 DEF RefuseAlert
      <4>. QED BY <4>1, <4>2, <1>00, AttemptAnswered
    <3>2. trouble' \in 0..MaxTrouble
      <4>1. Trouble
        BY Zenon, <2>5 DEF RefuseAlert
      <4>. QED BY <4>1 DEF Trouble, TypeOK
    <3>3. UNCHANGED <<telegram, checkpoint, updates, alerts, pc, asked, batch, crashes,
                      outages>>
      BY Zenon, <2>5 DEF RefuseAlert
    <3>. QED BY <3>1, <3>2, <3>3 DEF TypeOK, AttemptOK, telegram, checkpoint, updates,
             asked
  <2>6. CASE LookUpAlert(p)
    <3>1. AttemptOK' /\ Working'
      <4>. PICK r : r = IF alerts[attempt[p].alert].known THEN "confirmed" ELSE "unresolved"
        OBVIOUS
      <4>1. attempt[p].alert \in DOMAIN alerts
        BY <2>6 DEF LookUpAlert, Unwritten, Working
      <4>2. UNCHANGED alerts /\ attempt' = [attempt EXCEPT ![p].result = r]
        BY <2>6 DEF LookUpAlert
      <4>3. r \in {"confirmed", "unresolved"}
        OBVIOUS
      <4>. QED BY <4>1, <4>2, <4>3, <1>00, AttemptAnswered
    <3>. QED BY <2>6, <3>1 DEF LookUpAlert, TypeOK, AttemptOK, telegram, checkpoint,
             updates, asked, bounds
  <2>7. CASE ReleaseAlert(p)
    <3>1. alerts' \in Seq(Alerts) /\ Len(alerts') = Len(alerts)
      <4>1. alerts' = [a \in 1..Len(alerts) |->
                     IF a = attempt[p].alert /\ Mine(p)
                     THEN [alerts[a] EXCEPT !.status = "pending",
                                            !.claimant = NoPoller]
                     ELSE alerts[a]]
        BY <2>7, AlertsTyped DEF ReleaseAlert
      <4>2. ASSUME NEW a \in 1..Len(alerts)
            PROVE  /\ [alerts[a] EXCEPT !.status = "pending", !.claimant = NoPoller] \in Alerts
                   /\ alerts[a] \in Alerts
        <5>1. a \in DOMAIN alerts
          BY AlertsTyped
        <5>2. alerts[a] \in Alerts
          BY AlertsTyped
        <5>3. [alerts[a] EXCEPT !.status = "pending", !.claimant = NoPoller] \in Alerts
          <6>1. "pending" \in {"pending", "outcome_unknown", "unresolved", "confirmed"}
            OBVIOUS
          <6>. QED BY Zenon, <5>1, <6>1, AlertGivenUp
        <5>. QED BY Zenon, <5>2, <5>3
      <4>3. alerts' \in [1..Len(alerts) -> Alerts] /\ Len(alerts) \in Nat
        BY <4>1, <4>2, AlertsTyped
      <4>. QED BY <4>3
    <3>2. AttemptOK' /\ Working'
      BY <2>7, <3>1, <1>0, AttemptEnded DEF ReleaseAlert, Advance
    <3>3. lease' \in Pollers \cup {NoPoller} /\ pc' \in [Pollers -> Stages]
      BY <2>7 DEF ReleaseAlert, Advance, Released, TypeOK, Stages
    <3>4. \A q \in Pollers : pc'[q] \in {"checked", "consuming"} => batch'[q] # {}
      BY <2>7 DEF ReleaseAlert, Advance, TypeOK
    <3>. QED BY <2>7, <3>1, <3>2, <3>3, <3>4 DEF ReleaseAlert, Advance, TypeOK, AttemptOK,
             telegram, updates, asked, bounds
  <2>8. CASE MarkAlert(p)
    <3>. PICK a : a = attempt[p].alert
      OBVIOUS
    <3>. PICK e : e = [alerts[a] EXCEPT !.status = attempt[p].result, !.claimant = NoPoller]
      OBVIOUS
    <3>1. a \in DOMAIN alerts
      BY <2>8 DEF MarkAlert, Mine, Working
    <3>2. e \in Alerts
      <4>1. attempt[p].result \in {"pending", "outcome_unknown", "unresolved", "confirmed"}
        BY <2>8, AttemptTyped DEF MarkAlert, Mine
      <4>. QED BY Zenon, <3>1, <4>1, AlertGivenUp
    <3>3. alerts' = [alerts EXCEPT ![a] = e]
      BY <2>8, <3>1 DEF MarkAlert
    <3>4. alerts' \in Seq(Alerts) /\ Len(alerts') = Len(alerts)
      BY <3>1, <3>2, <3>3, AlertChanged
    <3>5. AttemptOK' /\ Working'
      BY <2>8, <3>4, <1>0, AttemptEnded DEF MarkAlert, Advance
    <3>6. lease' \in Pollers \cup {NoPoller} /\ pc' \in [Pollers -> Stages]
      BY <2>8 DEF MarkAlert, Advance, Released, TypeOK, Stages
    <3>7. \A q \in Pollers : pc'[q] \in {"checked", "consuming"} => batch'[q] # {}
      BY <2>8 DEF MarkAlert, Advance, TypeOK
    <3>. QED BY <2>8, <3>4, <3>5, <3>6, <3>7 DEF MarkAlert, Advance, TypeOK, AttemptOK,
             telegram, updates, asked, bounds
  <2>9. CASE ReadCheckpoint(p)
    <3>1. AttemptOK' /\ Working'
      BY <2>9, <2>0 DEF ReadCheckpoint
    <3>. QED BY <2>9, <3>1 DEF ReadCheckpoint, TypeOK, AttemptOK, Stages, telegram,
             checkpoint, updates, bounds
  <2>10. CASE GetUpdates(p)
    <3>1. Answer(p) \in SUBSET Updates
      <4>1. kept \in SUBSET Updates
        BY DEF TypeOK, Updates
      <4>. QED BY <4>1 DEF Answer
    <3>2. AttemptOK' /\ Working'
      BY <2>10, <2>0 DEF GetUpdates
    <3>3. batch' \in [Pollers -> SUBSET Updates]
      BY <2>10, <3>1 DEF GetUpdates, TypeOK
    <3>4. \A q \in Pollers : pc'[q] \in {"checked", "consuming"} => batch'[q] # {}
      BY <2>10 DEF GetUpdates, TypeOK
    <3>. QED BY <2>10, <3>2, <3>3, <3>4 DEF GetUpdates, TypeOK, AttemptOK, Stages,
             checkpoint, updates, asked, bounds
  <2>11. CASE Register(p)
    <3>1. alerts' \in Seq(Alerts) /\ Len(alerts') >= Len(alerts)
      <4>1. NewAlert(p) \in Alerts
        BY DEF NewAlert, Alerts, TypeOK
      <4>. QED BY <2>11, <4>1, <1>0, AlertsTyped, AppendProperties DEF Register
    <3>2. AttemptOK' /\ Working'
      BY <2>11, <3>1, AttemptKept DEF Register
    <3>. QED BY <2>11, <3>1, <3>2, BoundaryTyped DEF Register, AttemptOK, TypeOK, Stages,
             telegram, updates, asked, bounds
  <2>12. CASE RecordPoll(p)
    <3>1. AttemptOK' /\ Working'
      BY <2>12, <2>0 DEF RecordPoll
    <3>. QED BY <2>12, <3>1 DEF RecordPoll, TypeOK, AttemptOK, Stages, checkpoint, updates,
             bounds
  <2>13. CASE Check(p)
    <3>1. AttemptOK' /\ Working'
      BY <2>13, <2>0 DEF Check
    <3>2. pc' \in [Pollers -> Stages] /\ batch' \in [Pollers -> SUBSET Updates]
      <4>1. \/ UNCHANGED pc /\ batch' = [batch EXCEPT ![p] = @ \ {Current(p)}]
            \/ UNCHANGED batch /\ pc' = [pc EXCEPT ![p] = "checked"]
        BY Zenon, <2>13, CheckGoesOn
      <4>2. pc' \in [Pollers -> Stages]
        BY <4>1 DEF TypeOK, Stages
      <4>3. CASE batch' = [batch EXCEPT ![p] = @ \ {Current(p)}]
        BY <4>2, <4>3 DEF TypeOK
      <4>. QED BY <4>1, <4>2, <4>3 DEF TypeOK
    <3>3. \A q \in Pollers : pc'[q] \in {"checked", "consuming"} => batch'[q] # {}
      BY <2>13 DEF Check, TypeOK
    <3>. QED BY <2>13, <3>1, <3>2, <3>3 DEF Check, TypeOK, AttemptOK, Stages, telegram, checkpoint,
             updates, asked, bounds
  <2>14. CASE ClaimUpdate(p)
    <3>1. AttemptOK' /\ Working'
      BY <2>14, <2>0 DEF ClaimUpdate
    <3>2. batch[p] # {}
      BY <2>14 DEF ClaimUpdate, TypeOK
    <3>3. Current(p) \in Updates
      BY <3>2, CurrentIsFirst
    <3>. QED BY <2>14, <3>1, <3>2, <3>3 DEF ClaimUpdate, TypeOK, AttemptOK, Stages,
             telegram, checkpoint, asked, bounds
  <2>15. CASE Duplicate(p)
    <3>1. AttemptOK' /\ Working'
      BY <2>15, <2>0 DEF Duplicate
    <3>. QED BY <2>15, <3>1 DEF Duplicate, TypeOK, AttemptOK, Stages, telegram, checkpoint,
             updates, asked, bounds
  <2>16. CASE Complete(p)
    <3>1. AttemptOK' /\ Working'
      BY <2>16, <2>0 DEF Complete
    <3>2. batch[p] # {}
      BY <2>16 DEF Complete, TypeOK
    <3>3. Current(p) \in Updates
      BY <3>2, CurrentIsFirst
    <3>4. nextOffset' \in 0..MaxUpdate + 1
      BY <2>16, <3>3, PassedTyped DEF Complete
    <3>5. row' \in [Updates -> {"absent", "claimed", "stale", "free", "done"}]
      BY <2>16 DEF Complete, TypeOK
    <3>6. holder' \in [Updates -> Pollers \cup {NoPoller}]
      BY <2>16 DEF Complete, TypeOK
    <3>7. batch' \in [Pollers -> SUBSET Updates] /\ pc' \in [Pollers -> Stages]
      BY <2>16 DEF Complete, TypeOK, Stages
    <3>8. \A q \in Pollers : pc'[q] \in {"checked", "consuming"} => batch'[q] # {}
      BY <2>16 DEF Complete, TypeOK
    <3>. QED BY <2>16, <3>1, <3>4, <3>5, <3>6, <3>7, <3>8 DEF Complete, TypeOK, AttemptOK,
             telegram, asked, bounds
  <2>17. CASE CloseGap(p)
    <3>1. AttemptOK' /\ Working'
      BY <2>17, <2>0 DEF CloseGap
    <3>. QED BY <2>17, <3>1 DEF CloseGap, TypeOK, AttemptOK, Stages, telegram, updates,
             asked, bounds
  <2>18. CASE EndOfBatch(p)
    <3>1. AttemptOK' /\ Working'
      BY <2>18, <2>0 DEF EndOfBatch
    <3>. QED BY <2>18, <3>1 DEF EndOfBatch, TypeOK, AttemptOK, Stages, telegram, checkpoint,
             updates, asked, bounds
  <2>19. ASSUME End(p) PROVE /\ pc' \in [Pollers -> Stages]
                             /\ batch' \in [Pollers -> SUBSET Updates]
                             /\ offset' \in [Pollers -> 0..MaxUpdate + 1]
                             /\ evidence' \in [Pollers -> {"none", "day", "week"}]
                             /\ \A q \in Pollers :
                                    pc'[q] \in {"checked", "consuming"} => batch'[q] # {}
    BY <2>19 DEF End, TypeOK, Stages
  <2>20. CASE ClaimLost(p)
    <3>1. AttemptOK' /\ Working'
      BY <2>20, <2>00 DEF ClaimLost, End
    <3>. QED BY <2>20, <3>1, <2>19 DEF ClaimLost, Released, TypeOK, AttemptOK, telegram,
             updates, bounds
  <2>21. CASE Fail(p)
    <3>1. AttemptOK' /\ Working'
      BY <2>21, <2>00 DEF Fail, End
    <3>2. /\ row' \in [Updates -> {"absent", "claimed", "stale", "free", "done"}]
          /\ holder' \in [Updates -> Pollers \cup {NoPoller}]
      BY <2>21 DEF Fail, TypeOK, updates
    <3>3. trouble' \in 0..MaxTrouble
      BY <2>21 DEF Fail, Trouble, TypeOK
    <3>4. lease' \in Pollers \cup {NoPoller}
      BY <2>21 DEF Fail, Released, TypeOK
    <3>5. End(p) /\ UNCHANGED <<telegram, nextOffset, gapOpen, alerts, crashes, outages>>
      BY <2>21 DEF Fail
    <3>. QED BY <3>1, <3>2, <3>3, <3>4, <3>5, <2>19 DEF TypeOK, AttemptOK, telegram
  <2>22. CASE Crash(p)
    <3>1. AttemptOK' /\ Working'
      BY <2>22, <2>00 DEF Crash, End
    <3>2. trouble' \in 0..MaxTrouble
      BY <2>22 DEF Crash, Trouble, TypeOK
    <3>3. crashes' \in 0..MaxCrashes
      BY <2>22 DEF Crash, TypeOK
    <3>4. End(p) /\ UNCHANGED <<telegram, checkpoint, updates, alerts, outages>>
      BY Zenon, <2>22 DEF Crash
    <3>. QED BY <3>1, <3>2, <3>3, <3>4, <2>19 DEF TypeOK, AttemptOK, telegram, checkpoint,
             updates
  <2>. QED BY <1>6, <2>1, <2>2, <2>3, <2>4, <2>5, <2>6, <2>7, <2>8, <2>9, <2>10, <2>11,
           <2>12, <2>13, <2>14, <2>15, <2>16, <2>17, <2>18, <2>20, <2>21, <2>22 DEF Poll
<1>7. CASE UNCHANGED vars
  <2>1. AttemptOK' /\ Working'
    BY <1>7, <1>00, AttemptKept DEF vars, cycle
  <2>. QED BY <1>7, <2>1 DEF TypeOK, AttemptOK, vars, telegram, checkpoint, updates, cycle,
           asked, bounds
<1>. QED BY <1>1, <1>2, <1>3, <1>4, <1>5, <1>6, <1>7 DEF Next

(* Types, for any processes, updates and bounds; and whoever is about to   *)
(* send, look up or mark has an alert to do it to.                         *)
THEOREM IngressTyped == Spec => [](TypeOK /\ Working)
<1>1. Init => TypeOK /\ Working
  <2>. SUFFICES ASSUME Init PROVE TypeOK /\ Working
    OBVIOUS
  <2>1. alerts = <<>> /\ Len(alerts) = 0 /\ alerts \in Seq(Alerts)
    BY EmptySeq DEF Init
  <2>2. attempt = [p \in Pollers |-> NoAttempt]
    BY DEF Init
  <2>3. AttemptOK /\ Working
    BY <2>1, <2>2 DEF AttemptOK, NoAttempt, Working
  <2>4. arrived \in 0..MaxUpdate /\ nextOffset \in 0..MaxUpdate + 1 /\ kept = {}
    BY Bounds DEF Init
  <2>5. /\ trouble \in 0..MaxTrouble /\ crashes \in 0..MaxCrashes
        /\ outages \in 0..MaxOutages
    BY Bounds DEF Init
  <2>6. offset \in [Pollers -> 0..MaxUpdate + 1] /\ pc \in [Pollers -> Stages]
    BY Bounds DEF Init, Stages
  <2>7. \A p \in Pollers : pc[p] \notin {"checked", "consuming"}
    BY DEF Init
  <2>. QED BY <2>1, <2>3, <2>4, <2>5, <2>6, <2>7 DEF Init, TypeOK, AttemptOK
<1>. QED BY <1>1, TypeStep, PTL DEF Spec
-----------------------------------------------------------------------------
(* The alerts keep what AlertInv looks at, and nobody new is to send one.  *)
LEMMA AlertsAsTheyWere ==
    ASSUME AlertInv, DOMAIN alerts' = DOMAIN alerts,
           \A a \in DOMAIN alerts : /\ alerts'[a].shown = alerts[a].shown
                                    /\ alerts'[a].status = "pending"
                                           => alerts[a].status = "pending",
           \A p \in Pollers : \/ attempt'[p] = attempt[p]
                              \/ attempt'[p].mode # "send" /\ attempt'[p].result # "pending"
    PROVE  AlertInv'
<1>1. \A p \in Pollers, a \in DOMAIN alerts : Sends(p, a)' => Sends(p, a)
  BY DEF Sends
<1>2. \A p \in Pollers : attempt'[p].result = "pending" => attempt'[p].mode = "send"
  BY DEF AlertInv
<1>. QED BY <1>1, <1>2 DEF AlertInv

LEMMA AttemptGone ==
    ASSUME TypeOK, NEW p \in Pollers, attempt' = [attempt EXCEPT ![p] = NoAttempt]
    PROVE  \A q \in Pollers : \/ attempt'[q] = attempt[q]
                              \/ attempt'[q].mode # "send" /\ attempt'[q].result # "pending"
BY DEF TypeOK, NoAttempt

LEMMA AlertStep == TypeOK /\ Working /\ AlertInv /\ [Next]_vars => AlertInv'
<1>. SUFFICES ASSUME TypeOK, Working, AlertInv, [Next]_vars PROVE AlertInv'
  OBVIOUS
<1>0. /\ DOMAIN alerts = 1..Len(alerts) /\ Len(alerts) \in Nat
      /\ \A a \in DOMAIN alerts : alerts[a] \in Alerts
  BY AlertsTyped
<1>00. ASSUME UNCHANGED <<alerts, attempt>> PROVE AlertInv'
  BY <1>00, AlertsAsTheyWere
<1>1. CASE Arrive
  BY <1>1, <1>00 DEF Arrive, cycle
<1>2. ASSUME NEW length \in {"day", "week"}, NEW dropped \in SUBSET kept,
             Outage(length, dropped)
      PROVE  AlertInv'
  <2>1. alerts' = [a \in DOMAIN alerts |-> [alerts[a] EXCEPT !.stale = TRUE]]
        /\ UNCHANGED attempt
    BY <1>2 DEF Outage, cycle
  <2>2. \A a \in DOMAIN alerts : /\ alerts'[a].shown = alerts[a].shown
                                 /\ alerts'[a].status = alerts[a].status
    BY <2>1, <1>0 DEF Alerts
  <2>. QED BY <2>1, <2>2, AlertsAsTheyWere
<1>3. CASE \E u \in Updates : ClaimAges(u)
  BY <1>3, <1>00 DEF ClaimAges, RunsOut, cycle
<1>4. CASE \E a \in DOMAIN alerts : AlertAges(a)
  <2>1. PICK a \in DOMAIN alerts : /\ alerts' = [alerts EXCEPT ![a].stale = TRUE]
                                   /\ UNCHANGED attempt
    BY <1>4 DEF AlertAges, RunsOut, cycle
  <2>2. \A b \in DOMAIN alerts : /\ alerts'[b].shown = alerts[b].shown
                                 /\ alerts'[b].status = alerts[b].status
    BY <2>1, <1>0 DEF Alerts
  <2>. QED BY <2>1, <2>2, AlertsAsTheyWere
<1>5. CASE LeaseLapse
  BY <1>5, <1>00 DEF LeaseLapse, RunsOut, cycle
<1>6. ASSUME NEW p \in Pollers, Poll(p) \/ RefuseAlert(p) \/ Fail(p) \/ Crash(p)
      PROVE  AlertInv'
  <2>0. ASSUME UNCHANGED alerts, attempt' = [attempt EXCEPT ![p] = NoAttempt]
        PROVE  AlertInv'
    BY <2>0, AttemptGone, AlertsAsTheyWere
  <2>1. CASE Acquire(p)
    BY <2>1, <1>00 DEF Acquire
  <2>2. CASE ClaimAlert(p)
    <3>1. PICK a \in DOMAIN alerts :
             /\ alerts' = [alerts EXCEPT ![a].status = "attempting",
                                         ![a].claimant = p, ![a].stale = FALSE]
             /\ attempt' = [attempt EXCEPT ![p] =
                    [alert |-> a, mode |-> Mode(alerts[a]), result |-> "none"]]
      BY <2>2 DEF ClaimAlert
    <3>2. /\ DOMAIN alerts' = DOMAIN alerts
          /\ \A b \in DOMAIN alerts : alerts'[b].shown = alerts[b].shown
          /\ \A b \in DOMAIN alerts : b # a => alerts'[b].status = alerts[b].status
          /\ alerts'[a].status # "pending"
      BY <3>1, <1>0 DEF Alerts
    <3>3. \A q \in Pollers : q # p => attempt'[q] = attempt[q]
      BY <3>1 DEF TypeOK
    <3>4. /\ attempt'[p].alert = a /\ attempt'[p].result = "none"
          /\ attempt'[p].mode = Mode(alerts[a])
      BY <3>1 DEF TypeOK
    <3>5. attempt'[p].mode = "send" => alerts[a].status = "pending"
      BY <3>4 DEF Mode
    <3>6. ASSUME NEW b \in DOMAIN alerts, NEW q \in Pollers, Sends(q, b)'
          PROVE  Sends(q, b) \/ (q = p /\ b = a /\ alerts[a].status = "pending")
      BY <3>3, <3>4, <3>5, <3>6 DEF Sends
    <3>7. \A q \in Pollers : attempt'[q].result = "pending" => attempt'[q].mode = "send"
      BY <3>3, <3>4 DEF AlertInv
    <3>. QED BY <3>2, <3>6, <3>7 DEF AlertInv
  <2>3. CASE NoAlert(p)
    BY <2>3, <2>0 DEF NoAlert, Advance
  <2>4. CASE SendAlert(p)
    <3>0. PICK a \in DOMAIN alerts : a = attempt[p].alert
      BY <2>4 DEF SendAlert, Unwritten, Working
    <3>1. PICK shown \in {0, 1}, result \in {"confirmed", "outcome_unknown"} :
             /\ alerts' = [alerts EXCEPT ![a].shown = @ + shown,
                                         ![a].known = result = "confirmed"]
             /\ attempt' = [attempt EXCEPT ![p].result = result]
      BY <2>4, <3>0 DEF SendAlert
    <3>2. a \in DOMAIN alerts /\ Sends(p, a)
      BY <2>4, <3>0 DEF SendAlert, Unwritten, Sends
    <3>3. /\ DOMAIN alerts' = DOMAIN alerts
          /\ \A b \in DOMAIN alerts : b # a => alerts'[b] = alerts[b]
          /\ alerts'[a].shown = alerts[a].shown + shown
          /\ alerts'[a].status = alerts[a].status
      BY <3>1, <3>2, <1>0 DEF Alerts
    <3>4. \A q \in Pollers : q # p => attempt'[q] = attempt[q]
      BY <3>1 DEF TypeOK
    <3>5. attempt'[p].result \in {"confirmed", "outcome_unknown"}
      BY <3>1 DEF TypeOK
    <3>6. \A q \in Pollers, b \in DOMAIN alerts : Sends(q, b)' => q # p /\ Sends(q, b)
      BY <3>4, <3>5 DEF Sends
    <3>7. alerts[a].shown = 0 /\ alerts[a].status # "pending"
      BY <3>2 DEF AlertInv
    <3>8. \A q \in Pollers : ~Sends(q, a)'
      BY <3>2, <3>6 DEF AlertInv
    <3>9. \A q \in Pollers : attempt'[q].result = "pending" => attempt'[q].mode = "send"
      BY <3>4, <3>5 DEF AlertInv
    <3>10. alerts'[a].shown <= 1
      BY <3>3, <3>7
    <3>. QED BY <3>2, <3>3, <3>6, <3>7, <3>8, <3>9, <3>10 DEF AlertInv
  <2>5. CASE RefuseAlert(p)
    <3>1. /\ attempt[p].mode = "send" /\ attempt[p].result = "none"
          /\ attempt' = [attempt EXCEPT ![p].result = "pending"]
          /\ UNCHANGED alerts
      BY <2>5 DEF RefuseAlert, Unwritten
    <3>2. \A q \in Pollers : q # p => attempt'[q] = attempt[q]
      BY <3>1 DEF TypeOK
    <3>3. attempt'[p].mode = "send" /\ attempt'[p].alert = attempt[p].alert
      BY <3>1 DEF TypeOK
    <3>4. \A q \in Pollers, b \in DOMAIN alerts : Sends(q, b)' => Sends(q, b)
      BY <3>1, <3>2, <3>3 DEF Sends
    <3>5. \A q \in Pollers : attempt'[q].result = "pending" => attempt'[q].mode = "send"
      BY <3>2, <3>3 DEF AlertInv
    <3>. QED BY <3>1, <3>4, <3>5 DEF AlertInv
  <2>6. CASE LookUpAlert(p)
    <3>1. /\ attempt[p].mode = "reconcile"
          /\ attempt' = [attempt EXCEPT ![p].result =
                 IF alerts[attempt[p].alert].known THEN "confirmed" ELSE "unresolved"]
          /\ UNCHANGED alerts
      BY <2>6 DEF LookUpAlert, Unwritten
    <3>2. \A q \in Pollers : q # p => attempt'[q] = attempt[q]
      BY <3>1 DEF TypeOK
    <3>3. attempt'[p].mode = "reconcile" /\ attempt'[p].result # "pending"
      BY <3>1 DEF TypeOK
    <3>. QED BY <3>1, <3>2, <3>3, AlertsAsTheyWere
  <2>7. CASE ReleaseAlert(p)
    <3>0. PICK a \in DOMAIN alerts : a = attempt[p].alert
      BY <2>7 DEF ReleaseAlert, Working
    <3>1. /\ attempt[p].result = "pending"
          /\ alerts' = [b \in DOMAIN alerts |->
                     IF b = a /\ Mine(p)
                     THEN [alerts[b] EXCEPT !.status = "pending",
                                            !.claimant = NoPoller]
                     ELSE alerts[b]]
          /\ attempt' = [attempt EXCEPT ![p] = NoAttempt]
      BY <2>7, <3>0 DEF ReleaseAlert, Advance
    <3>2. /\ DOMAIN alerts' = DOMAIN alerts
          /\ \A b \in DOMAIN alerts : alerts'[b].shown = alerts[b].shown
          /\ \A b \in DOMAIN alerts : b # a => alerts'[b] = alerts[b]
      BY <3>1, <1>0 DEF Alerts
    <3>3. attempt[p].mode = "send" /\ Sends(p, a)
      BY <3>0, <3>1 DEF AlertInv, Sends
    <3>4. \A q \in Pollers, b \in DOMAIN alerts : Sends(q, b)' => q # p /\ Sends(q, b)
      BY <3>1 DEF Sends, TypeOK, NoAttempt
    <3>5. alerts[a].shown = 0 /\ \A q \in Pollers : ~Sends(q, a)'
      BY <3>3, <3>4 DEF AlertInv
    <3>6. \A q \in Pollers : attempt'[q].result = "pending" => attempt'[q].mode = "send"
      BY <3>1 DEF AlertInv, TypeOK, NoAttempt
    <3>. QED BY <3>2, <3>3, <3>4, <3>5, <3>6 DEF AlertInv
  <2>8. CASE MarkAlert(p)
    <3>1. /\ attempt[p].result # "pending" /\ attempt[p].alert \in DOMAIN alerts
          /\ alerts' = [alerts EXCEPT ![attempt[p].alert].status = attempt[p].result,
                                      ![attempt[p].alert].claimant = NoPoller]
          /\ attempt' = [attempt EXCEPT ![p] = NoAttempt]
      BY <2>8 DEF MarkAlert, Advance, Mine, Working
    <3>2. /\ DOMAIN alerts' = DOMAIN alerts
          /\ \A b \in DOMAIN alerts : /\ alerts'[b].shown = alerts[b].shown
                                      /\ alerts'[b].status = "pending"
                                             => alerts[b].status = "pending"
      BY <3>1, <1>0 DEF Alerts
    <3>. QED BY <3>1, <3>2, AttemptGone, AlertsAsTheyWere
  <2>9. CASE ReadCheckpoint(p)
    BY <2>9, <1>00 DEF ReadCheckpoint
  <2>10. CASE GetUpdates(p)
    BY <2>10, <1>00 DEF GetUpdates
  <2>11. CASE Register(p)
    <3>1. CASE gapOpen
      BY <2>11, <3>1, <1>00 DEF Register
    <3>2. CASE ~gapOpen
      <4>. DEFINE n == Len(alerts) + 1
      <4>1. NewAlert(p) \in Alerts /\ NewAlert(p).shown = 0
        BY DEF NewAlert, Alerts, TypeOK
      <4>2. alerts' = Append(alerts, NewAlert(p)) /\ UNCHANGED attempt
        BY <2>11, <3>2 DEF Register
      <4>3. /\ DOMAIN alerts' = DOMAIN alerts \cup {n}
            /\ \A a \in DOMAIN alerts : alerts'[a] = alerts[a]
            /\ alerts'[n] = NewAlert(p)
        BY <4>1, <4>2, <1>0, AppendProperties DEF TypeOK
      <4>4. \A q \in Pollers, a \in DOMAIN alerts' : Sends(q, a)' => Sends(q, a) /\ a # n
        BY <4>2, <1>0 DEF Sends, Working
      <4>. HIDE DEF n
      <4>. QED BY <4>1, <4>2, <4>3, <4>4 DEF AlertInv
    <3>. QED BY <3>1, <3>2
  <2>12. CASE RecordPoll(p)
    BY <2>12, <1>00 DEF RecordPoll
  <2>13. CASE Check(p)
    BY <2>13, <1>00 DEF Check
  <2>14. CASE ClaimUpdate(p)
    BY <2>14, <1>00 DEF ClaimUpdate
  <2>15. CASE Duplicate(p)
    BY <2>15, <1>00 DEF Duplicate
  <2>16. CASE Complete(p)
    BY <2>16, <1>00 DEF Complete
  <2>17. CASE CloseGap(p)
    BY <2>17, <1>00 DEF CloseGap
  <2>18. CASE EndOfBatch(p)
    BY <2>18, <1>00 DEF EndOfBatch
  <2>19. CASE ClaimLost(p)
    BY <2>19, <2>0 DEF ClaimLost, End
  <2>20. CASE Fail(p)
    BY <2>20, <2>0 DEF Fail, End
  <2>21. CASE Crash(p)
    BY <2>21, <2>0 DEF Crash, End
  <2>. QED BY <1>6, <2>1, <2>2, <2>3, <2>4, <2>5, <2>6, <2>7, <2>8, <2>9, <2>10, <2>11,
           <2>12, <2>13, <2>14, <2>15, <2>16, <2>17, <2>18, <2>19, <2>20, <2>21 DEF Poll
<1>7. CASE UNCHANGED vars
  BY <1>7, <1>00 DEF vars, cycle
<1>. QED BY <1>1, <1>2, <1>3, <1>4, <1>5, <1>6, <1>7 DEF Next

(* claim_retention_alert, mark_retention_alert_* and the send between      *)
(* them, in any number of processes: no alert is shown a second time.      *)
THEOREM AlertsAreShownOnce == Spec => []AlertShownOnce
<1>1. Init => AlertInv
  BY DEF Init, AlertInv, NoAttempt
<1>2. AlertInv => AlertShownOnce
  BY DEF AlertInv, AlertShownOnce
<1>. QED BY <1>1, <1>2, AlertStep, IngressTyped, PTL DEF Spec
-----------------------------------------------------------------------------
(* The answer is a prefix of what Telegram has: nothing below is left out. *)
LEMMA AnswerIsPrefix ==
    ASSUME TypeOK, NEW p \in Pollers, NEW b \in Answer(p),
           NEW u \in kept, u >= offset[p], u < b
    PROVE  u \in Answer(p)
<1>. DEFINE due == {x \in kept : x >= offset[p]}
            upTo(x) == {v \in due : v <= x}
<1>1. arrived \in Nat /\ kept \subseteq 1..arrived
  BY Bounds DEF TypeOK
<1>2. IsFiniteSet(1..arrived)
  BY <1>1, FS_Interval
<1>3. IsFiniteSet(due)
  BY <1>1, <1>2, FS_Subset
<1>4. IsFiniteSet(upTo(b))
  BY <1>3, FS_Subset
<1>5. upTo(u) \subseteq upTo(b)
  <2>1. (\A x \in kept : x \in Nat) /\ b \in kept
    BY <1>1 DEF Answer
  <2>2. \A x \in due : x <= u => x <= b
    BY <2>1
  <2>. QED BY <2>2
<1>6. Cardinality(upTo(u)) <= Cardinality(upTo(b))
  <2>. HIDE DEF upTo
  <2>. QED BY <1>4, <1>5, FS_Subset
<1>7. Cardinality(upTo(u)) \in Nat /\ Cardinality(upTo(b)) \in Nat
  <2>1. IsFiniteSet(upTo(u))
    BY <1>3, FS_Subset
  <2>. HIDE DEF upTo
  <2>. QED BY <1>4, <2>1, FS_CardinalityType
<1>8. Cardinality(upTo(b)) <= BatchSize
  BY DEF Answer
<1>9. Cardinality(upTo(u)) <= BatchSize
  <2>. HIDE DEF upTo
  <2>. QED BY <1>6, <1>7, <1>8, Bounds
<1>. QED BY <1>9 DEF Answer

(* A step that hands out nothing new: what it takes from an answer has     *)
(* been handed out or needs no handing out.                                *)
LEMMA Quiet ==
    ASSUME TypeOK, IngressInv, UNCHANGED <<arrived, kept, lost>>,
           nextOffset' \in Nat, nextOffset <= nextOffset',
           \A u \in Updates : row'[u] = "absent" <=> row[u] = "absent",
           \A q \in Pollers :
               /\ offset'[q] <= nextOffset'
               /\ batch'[q] \subseteq batch[q]
               /\ pc[q] # "answered" => pc'[q] # "answered"
               /\ \/ batch'[q] = {} \/ batch'[q] = batch[q]
                  \/ /\ pc'[q] # "answered"
                     /\ \A u \in batch[q] \ batch'[q] :
                            u < nextOffset' \/ row'[u] # "absent"
    PROVE  IngressInv'
<1>0. /\ arrived \in Nat /\ nextOffset \in Nat /\ \A u \in 1..arrived : u \in Updates
      /\ Updates \in SUBSET Nat
  BY Bounds DEF TypeOK, Updates
<1>1. Waiting' \subseteq Waiting /\ \A u \in Waiting : u \in Updates /\ u \in Nat
  BY <1>0 DEF Waiting
<1>2. KeptInv'
  BY <1>1 DEF IngressInv, KeptInv
<1>3. ASSUME NEW q \in Pollers, NEW b \in batch'[q], NEW u \in Waiting', u < b
      PROVE  u \in batch'[q] \/ (row'[u] # "absent" /\ pc'[q] # "answered")
  <2>1. b \in batch[q] /\ u \in Waiting /\ u \in Updates
    BY <1>1, <1>3
  <2>2. u \in batch[q] \/ (row[u] # "absent" /\ pc[q] # "answered")
    BY <1>3, <2>1 DEF IngressInv, BatchInv
  <2>3. ~(u < nextOffset')
    BY <1>0, <1>3 DEF Waiting
  <2>. QED BY <1>3, <2>1, <2>2, <2>3
<1>4. BatchInv'
  BY <1>3 DEF IngressInv, BatchInv
<1>. QED BY <1>2, <1>4 DEF IngressInv

LEMMA IngressStep == ASSUME TypeOK, IngressInv, [Next]_vars
                     PROVE  IngressInv'
<1>0. KeptInv /\ BatchInv
  BY DEF IngressInv
<1>00. /\ arrived \in Nat /\ nextOffset \in Nat /\ Updates \in SUBSET Nat
       /\ kept \subseteq 1..arrived /\ \A u \in 1..arrived : u \in Updates
       /\ \A p \in Pollers : offset[p] \in Nat /\ batch[p] \subseteq Updates
       /\ \A p \in Pollers : offset[p] <= nextOffset
  BY <1>0, Bounds DEF TypeOK, Updates, BatchInv
<1>000. ASSUME UNCHANGED <<arrived, kept, lost, nextOffset, offset, batch>>,
               \A u \in Updates : row'[u] = "absent" <=> row[u] = "absent",
               \A q \in Pollers : pc[q] # "answered" => pc'[q] # "answered"
        PROVE  IngressInv'
  <2>1. /\ nextOffset' \in Nat /\ nextOffset <= nextOffset'
        /\ \A q \in Pollers : offset'[q] <= nextOffset'
    BY <1>00, <1>000
  <2>. QED BY <1>000, <2>1, Quiet
<1>1. CASE Arrive
  <2>1. /\ arrived' = arrived + 1 /\ kept' = kept \cup {arrived + 1}
        /\ UNCHANGED <<lost, nextOffset, row, batch, pc, offset>>
    BY <1>1 DEF Arrive, checkpoint, updates, cycle, asked
  <2>2. Waiting' \subseteq Waiting \cup {arrived + 1}
    BY <1>00, <2>1 DEF Waiting
  <2>3. \A w \in Updates : row[w] # "absent" => ~(arrived + 1 < w)
    BY <1>0, <1>00 DEF KeptInv
  <2>4. ASSUME NEW p \in Pollers, NEW b \in batch[p]
        PROVE  b <= arrived + 1 /\ ~(arrived + 1 < b)
    <3>1. b \in Nat /\ b <= arrived
      BY <1>0, <1>00 DEF BatchInv
    <3>. QED BY <1>00, <3>1
  <2>5. KeptInv'
    <3>1. Waiting' \subseteq kept'
      BY <1>0, <2>1, <2>2 DEF KeptInv
    <3>2. \A u \in Updates : row'[u] # "absent" => u <= arrived'
      BY <1>0, <1>00, <2>1 DEF KeptInv
    <3>3. ASSUME NEW u \in Waiting', NEW w \in Updates, u < w, row'[w] # "absent"
          PROVE  row'[u] # "absent"
      <4>1. row[w] # "absent" /\ row' = row
        BY <2>1, <3>3
      <4>2. u # arrived + 1
        BY <2>3, <3>3, <4>1
      <4>3. u \in Waiting
        BY <2>2, <3>3, <4>2
      <4>. QED BY <1>0, <3>3, <4>1, <4>3 DEF KeptInv
    <3>. QED BY <3>1, <3>2, <3>3 DEF KeptInv
  <2>6. BatchInv'
    BY <1>0, <1>00, <2>1, <2>2, <2>4 DEF BatchInv
  <2>. QED BY <2>5, <2>6 DEF IngressInv
<1>2. ASSUME NEW length \in {"day", "week"}, NEW dropped \in SUBSET kept,
             Outage(length, dropped)
      PROVE  IngressInv'
  <2>1. /\ kept' = kept \ dropped
        /\ lost' = [u \in Updates |->
                   IF u \notin dropped \/ u < nextOffset THEN lost[u]
                   ELSE IF nextOffset = 0 THEN "unwatched" ELSE "watched"]
        /\ row' = [u \in Updates |-> IF row[u] = "claimed" THEN "stale" ELSE row[u]]
        /\ UNCHANGED <<arrived, nextOffset, pc, offset, batch>>
    BY <1>2 DEF Outage, cycle, asked
  <2>2. \A u \in Updates : row'[u] = "absent" <=> row[u] = "absent"
    BY <2>1
  <2>3. Waiting' \subseteq Waiting \ dropped
    BY <1>00, <2>1 DEF Waiting
  <2>4. \A u \in Waiting : u \in Updates
    BY <1>00 DEF Waiting
  <2>5. KeptInv'
    BY <1>0, <2>1, <2>2, <2>3, <2>4 DEF KeptInv
  <2>6. BatchInv'
    BY <1>0, <2>1, <2>2, <2>3, <2>4 DEF BatchInv
  <2>. QED BY <2>5, <2>6 DEF IngressInv
<1>3. CASE \E u \in Updates : ClaimAges(u)
  <2>1. PICK a \in Updates : ClaimAges(a)
    BY <1>3
  <2>2. /\ row[a] = "claimed" /\ row' = [row EXCEPT ![a] = "stale"]
        /\ UNCHANGED <<arrived, kept, lost, nextOffset, offset, batch, pc>>
    BY <2>1 DEF ClaimAges, RunsOut, telegram, cycle, asked
  <2>3. \A u \in Updates : row'[u] = "absent" <=> row[u] = "absent"
    BY <2>2 DEF TypeOK
  <2>. QED BY <1>000, <2>2, <2>3
<1>4. CASE \E a \in DOMAIN alerts : AlertAges(a)
  <2>1. UNCHANGED <<arrived, kept, lost, nextOffset, offset, batch, pc, row>>
    BY <1>4 DEF AlertAges, RunsOut, telegram, cycle, asked
  <2>. QED BY <1>000, <2>1
<1>5. CASE LeaseLapse
  <2>1. UNCHANGED <<arrived, kept, lost, nextOffset, offset, batch, pc, row>>
    BY <1>5 DEF LeaseLapse, RunsOut, telegram, cycle, asked
  <2>. QED BY <1>000, <2>1
<1>6. ASSUME NEW p \in Pollers, Poll(p) \/ RefuseAlert(p) \/ Fail(p) \/ Crash(p)
      PROVE  IngressInv'
  <2>0. ASSUME UNCHANGED <<arrived, kept, lost, nextOffset, offset, batch, row>>,
               NEW s \in Stages, pc' = [pc EXCEPT ![p] = s], s # "answered"
        PROVE  IngressInv'
    <3>1. \A q \in Pollers : pc[q] # "answered" => pc'[q] # "answered"
      BY <2>0 DEF TypeOK
    <3>. QED BY <1>000, <2>0, <3>1
  <2>00. ASSUME End(p), UNCHANGED <<arrived, kept, lost, nextOffset>>,
                \A u \in Updates : row'[u] = "absent" <=> row[u] = "absent"
         PROVE  IngressInv'
    <3>1. \A q \in Pollers : /\ offset'[q] <= nextOffset'
                             /\ pc[q] # "answered" => pc'[q] # "answered"
                             /\ batch'[q] = {} \/ batch'[q] = batch[q]
      BY <1>00, <2>00 DEF End, TypeOK
    <3>. QED BY <1>00, <2>00, <3>1, Quiet
  <2>1. CASE Acquire(p)
    BY <2>1, <2>0 DEF Acquire, telegram, updates, asked, Stages
  <2>2. ASSUME Advance(p) PROVE IngressInv'
    <3>1. /\ UNCHANGED <<arrived, kept, lost, nextOffset, offset, batch, row>>
          /\ pc' = [pc EXCEPT ![p] = IF pc[p] = "before" THEN "fetching" ELSE "idle"]
      BY <2>2 DEF Advance, telegram, updates, asked
    <3>. QED BY <3>1, <2>0 DEF Stages
  <2>3. CASE NoAlert(p) \/ ReleaseAlert(p) \/ MarkAlert(p)
    BY Zenon, <2>2, <2>3 DEF NoAlert, ReleaseAlert, MarkAlert
  <2>4. CASE ClaimAlert(p) \/ SendAlert(p) \/ LookUpAlert(p) \/ RefuseAlert(p)
    <3>1. UNCHANGED <<telegram, checkpoint, updates, pc, asked, batch>>
      BY Zenon, <2>4 DEF ClaimAlert, SendAlert, LookUpAlert, RefuseAlert
    <3>. QED BY <3>1, <1>000 DEF telegram, checkpoint, updates, asked
  <2>5. CASE ReadCheckpoint(p)
    <3>1. /\ UNCHANGED <<arrived, kept, lost, nextOffset, batch, row>>
          /\ offset' = [offset EXCEPT ![p] = nextOffset]
          /\ pc' = [pc EXCEPT ![p] = "polling"]
      BY <2>5 DEF ReadCheckpoint, telegram, checkpoint, updates
    <3>2. \A q \in Pollers : /\ offset'[q] <= nextOffset'
                             /\ pc[q] # "answered" => pc'[q] # "answered"
      BY <1>00, <3>1 DEF TypeOK
    <3>. QED BY <1>00, <3>1, <3>2, Quiet
  <2>6. CASE GetUpdates(p)
    <3>1. /\ UNCHANGED <<arrived, lost, nextOffset, row, offset>>
          /\ kept' = {u \in kept : u >= offset[p]}
          /\ batch' = [batch EXCEPT ![p] = Answer(p)]
          /\ \A q \in Pollers : q # p => pc'[q] = pc[q]
      BY <2>6 DEF GetUpdates, checkpoint, updates, asked, TypeOK
    <3>2. Waiting' = Waiting
      BY <3>1 DEF Waiting
    <3>3. ASSUME NEW u \in Waiting PROVE u \in kept /\ u >= offset[p]
      <4>1. u \in kept /\ u \in Nat /\ nextOffset <= u
        BY <1>0, <1>00, <3>3 DEF KeptInv, Waiting
      <4>. QED BY <1>00, <4>1
    <3>4. KeptInv'
      BY <1>0, <3>1, <3>2, <3>3 DEF KeptInv
    <3>5. \A b \in Answer(p) : b <= arrived
      BY <1>00 DEF Answer
    <3>6. \A b \in Answer(p), u \in Waiting : u < b => u \in Answer(p)
      BY <3>3, AnswerIsPrefix
    <3>7. batch'[p] = Answer(p) /\ \A q \in Pollers : q # p => batch'[q] = batch[q]
      BY <3>1 DEF TypeOK
    <3>8. BatchInv'
      BY <1>0, <3>1, <3>2, <3>5, <3>6, <3>7 DEF BatchInv
    <3>. QED BY <3>4, <3>8 DEF IngressInv
  <2>7. CASE Register(p)
    <3>1. /\ UNCHANGED <<arrived, kept, lost, row, offset, batch>>
          /\ nextOffset' = Max(Boundary(p) \cup {nextOffset})
          /\ pc' = [pc EXCEPT ![p] = "registered"]
      BY <2>7 DEF Register, telegram, updates, asked
    <3>2. nextOffset <= nextOffset' /\ nextOffset' \in Nat
      BY <3>1, Bounds, BoundaryTyped
    <3>3. \A q \in Pollers : /\ offset'[q] <= nextOffset'
                             /\ pc[q] # "answered" => pc'[q] # "answered"
      BY <1>00, <3>1, <3>2 DEF TypeOK
    <3>. QED BY <3>1, <3>2, <3>3, Quiet
  <2>8. CASE RecordPoll(p)
    <3>1. /\ UNCHANGED <<arrived, kept, lost, nextOffset, batch, row>>
          /\ offset' = [offset EXCEPT ![p] = 0]
          /\ pc' = [pc EXCEPT ![p] = "batch"]
      BY <2>8 DEF RecordPoll, checkpoint, updates
    <3>2. \A q \in Pollers : /\ offset'[q] <= nextOffset'
                             /\ pc[q] # "answered" => pc'[q] # "answered"
      BY <1>00, <3>1 DEF TypeOK
    <3>. QED BY <1>00, <3>1, <3>2, Quiet
  <2>9. CASE Check(p) \/ Duplicate(p)
    <3>1. /\ UNCHANGED <<arrived, kept, lost, nextOffset, offset, row>>
          /\ pc[p] # "answered" /\ batch[p] # {}
          /\ \/ batch' = batch
             \/ /\ batch' = [batch EXCEPT ![p] = @ \ {Current(p)}]
                /\ Current(p) < nextOffset \/ row[Current(p)] # "absent"
          /\ \E s \in Stages \ {"answered"} : pc' = [pc EXCEPT ![p] = s]
      <4>1. CASE Check(p)
        <5>1. pc[p] = "batch" /\ pc' \in {pc, [pc EXCEPT ![p] = "checked"]}
          BY <4>1 DEF Check
        <5>2. pc = [pc EXCEPT ![p] = "batch"]
          BY <5>1 DEF TypeOK
        <5>. QED BY <4>1, <5>1, <5>2
                 DEF Check, telegram, checkpoint, updates, asked, Stages
      <4>2. CASE Duplicate(p)
        BY <4>2 DEF Duplicate, Free, telegram, checkpoint, updates, asked, Stages, TypeOK
      <4>. QED BY <2>9, <4>1, <4>2
    <3>2. \A q \in Pollers : pc[q] # "answered" => pc'[q] # "answered"
      BY <3>1 DEF TypeOK
    <3>3. pc'[p] # "answered"
      BY <3>1, <3>2
    <3>4. \A q \in Pollers : \/ batch'[q] = batch[q]
                             \/ /\ q = p /\ batch'[q] \subseteq batch[q]
                                /\ \A u \in batch[q] \ batch'[q] :
                                       u < nextOffset' \/ row'[u] # "absent"
      BY <3>1 DEF TypeOK
    <3>. QED BY <1>00, <3>1, <3>2, <3>3, <3>4, Quiet
  <2>10. CASE ClaimUpdate(p)
    <3>1. PICK c \in Updates : c = Current(p)
      BY <2>10, CurrentIsFirst DEF ClaimUpdate, TypeOK
    <3>2. /\ UNCHANGED <<arrived, kept, lost, nextOffset, offset, batch>>
          /\ pc[p] = "checked" /\ pc' = [pc EXCEPT ![p] = "consuming"]
          /\ row' = [row EXCEPT ![c] = "claimed"]
      BY <2>10, <3>1 DEF ClaimUpdate, telegram, checkpoint, asked
    <3>3. c \in batch[p] /\ c <= arrived /\ \A b \in batch[p] : c <= b
      BY <1>0, <3>1, <3>2, CurrentIsFirst DEF BatchInv, TypeOK
    <3>4. row'[c] # "absent" /\ \A w \in Updates : w # c => row'[w] = row[w]
      BY <3>2 DEF TypeOK
    <3>5. ASSUME NEW u \in Waiting, u < c PROVE row[u] # "absent"
      <4>1. u \in Nat /\ c \in Nat
        BY <1>00 DEF Waiting
      <4>2. u \notin batch[p]
        BY <3>3, <3>5, <4>1
      <4>. QED BY <1>0, <3>3, <3>5, <4>2 DEF BatchInv
    <3>6. Waiting' = Waiting /\ \A u \in Waiting : u \in Updates
      BY <1>00, <3>2 DEF Waiting
    <3>7. KeptInv'
      BY <1>0, <3>2, <3>3, <3>4, <3>5, <3>6 DEF KeptInv
    <3>8. BatchInv'
      <4>1. \A q \in Pollers : pc[q] # "answered" => pc'[q] # "answered"
        BY <3>2 DEF TypeOK
      <4>2. \A u \in Updates : row[u] # "absent" => row'[u] # "absent"
        BY <3>4
      <4>. QED BY <1>0, <3>2, <3>6, <4>1, <4>2 DEF BatchInv
    <3>. QED BY <3>7, <3>8 DEF IngressInv
  <2>11. CASE Complete(p)
    <3>1. PICK c \in Updates : c = Current(p)
      BY <2>11, CurrentIsFirst DEF Complete, TypeOK
    <3>2. /\ UNCHANGED <<arrived, kept, lost, offset>>
          /\ pc' = [pc EXCEPT ![p] = "closing"] /\ row[c] # "absent"
          /\ row' = [row EXCEPT ![c] = "done"] /\ nextOffset' = Passed(c)
          /\ batch' = [batch EXCEPT ![p] = @ \ {c}]
      BY <2>11, <3>1 DEF Complete, Holds, Incomplete, telegram, asked
    <3>3. nextOffset <= nextOffset' /\ nextOffset' \in Nat
      BY <3>2, Bounds, PassedTyped
    <3>4. \A u \in Updates : row'[u] = "absent" <=> row[u] = "absent"
      BY <3>2 DEF TypeOK
    <3>5. \A q \in Pollers : /\ offset'[q] <= nextOffset'
                             /\ pc[q] # "answered" => pc'[q] # "answered"
      BY <1>00, <3>2, <3>3 DEF TypeOK
    <3>6. \A q \in Pollers : \/ batch'[q] = batch[q]
                             \/ /\ pc'[q] # "answered" /\ batch'[q] \subseteq batch[q]
                                /\ \A u \in batch[q] \ batch'[q] : row'[u] # "absent"
      BY <3>2, <3>4 DEF TypeOK
    <3>. QED BY <3>2, <3>3, <3>4, <3>5, <3>6, Quiet
  <2>12. CASE CloseGap(p) \/ EndOfBatch(p)
    BY <2>12, <2>0 DEF CloseGap, EndOfBatch, telegram, checkpoint, updates, asked, Stages
  <2>13. CASE ClaimLost(p) \/ Crash(p)
    BY <2>13, <2>00 DEF ClaimLost, Crash, telegram, checkpoint, updates
  <2>14. CASE Fail(p)
    <3>1. /\ UNCHANGED <<arrived, kept, lost, nextOffset>> /\ End(p)
      BY <2>14 DEF Fail, telegram
    <3>2. \A u \in Updates : row'[u] = "absent" <=> row[u] = "absent"
      BY <2>14 DEF Fail, Holds, Incomplete, updates, TypeOK
    <3>. QED BY <2>00, <3>1, <3>2
  <2>. QED BY <1>6, <2>1, <2>3, <2>4, <2>5, <2>6, <2>7, <2>8, <2>9, <2>10, <2>11, <2>12,
              <2>13, <2>14 DEF Poll
<1>7. CASE UNCHANGED vars
  BY <1>7, <1>000 DEF vars, telegram, checkpoint, updates, cycle, asked
<1>. QED BY <1>1, <1>2, <1>3, <1>4, <1>5, <1>6, <1>7 DEF Next

LEMMA IngressInit == Init => IngressInv
<1>. SUFFICES ASSUME Init PROVE IngressInv
  OBVIOUS
<1>1. /\ arrived = 0 /\ nextOffset = 0 /\ 1..arrived = {}
      /\ \A u \in Updates : row[u] = "absent"
      /\ \A p \in Pollers : batch[p] = {} /\ offset[p] = 0
  BY DEF Init
<1>. QED BY <1>1 DEF IngressInv, KeptInv, BatchInv, Waiting

LEMMA OffsetStep ==
    ASSUME TypeOK, IngressInv, [Next]_vars, NEW u \in 1..arrived,
           nextOffset <= u, u < nextOffset', row'[u] # "done", lost[u] = "no"
    PROVE  LeftBehind(u)
<1>0. /\ nextOffset \in Nat /\ Updates \in SUBSET Nat /\ u \in Nat /\ u \in Updates
      /\ u \in Waiting
  BY Bounds DEF TypeOK, Updates, Waiting
<1>1. ASSUME NEW p \in Pollers, Register(p) PROVE FALSE
  <2>1. pc[p] = "answered" /\ nextOffset' = Max(Boundary(p) \cup {nextOffset})
    BY <1>1 DEF Register
  <2>2. PICK b \in batch[p] : u < b /\ \A c \in batch[p] : b <= c
    BY <1>0, <2>1, BoundaryTyped
  <2>3. u \in batch[p]
    BY <1>0, <2>1, <2>2 DEF IngressInv, BatchInv
  <2>4. b \in Nat
    BY Bounds DEF TypeOK
  <2>. QED BY <1>0, <2>2, <2>3, <2>4
<1>2. ASSUME NEW p \in Pollers, Complete(p) PROVE LeftBehind(u)
  <2>1. batch[p] # {}
    BY <1>2 DEF Complete, TypeOK
  <2>2. PICK c \in Updates : c = Current(p)
    BY <2>1, CurrentIsFirst
  <2>3. /\ Incomplete(c) /\ nextOffset' = Passed(c)
        /\ row'[c] = "done" /\ \A w \in Updates : w # c => row'[w] = row[w]
    BY <1>2, <2>2 DEF Complete, Holds, TypeOK
  <2>4. c \in batch[p] /\ \A b \in batch[p] : c <= b
    BY <2>1, <2>2, CurrentIsFirst
  <2>5. /\ \A v \in 1..(c - 1) : ~Incomplete(v)
        /\ u <= c \/ \E w \in Updates : row[w] = "done" /\ u <= w
    BY <1>0, <2>3, PassedTyped
  <2>6. c \in Nat /\ u # c /\ row[u] # "done"
    BY <1>0, <2>3
  <2>7. ASSUME u < c PROVE FALSE
    <3>1. row[u] = "absent"
      BY <1>0, <2>5, <2>6, <2>7 DEF Incomplete, TypeOK
    <3>2. u \in batch[p]
      BY <1>0, <2>4, <2>7, <3>1 DEF IngressInv, BatchInv
    <3>. QED BY <1>0, <2>4, <2>6, <2>7, <3>2
  <2>8. c \in 1..(u - 1)
    BY <1>0, <2>6, <2>7, Bounds DEF Updates
  <2>9. PICK w \in Updates : row[w] = "done" /\ u < w
    BY <1>0, <2>5, <2>6, <2>7
  <2>10. row[u] # "absent"
    BY <1>0, <2>9 DEF IngressInv, KeptInv
  <2>. QED BY <2>3, <2>8, <2>10 DEF LeftBehind
<1>3. ASSUME UNCHANGED nextOffset PROVE FALSE
  BY <1>0, <1>3
<1>4. \/ UNCHANGED nextOffset \/ \E p \in Pollers : Register(p) \/ Complete(p)
  BY DEF Next, vars, checkpoint, Arrive, Outage, ClaimAges, AlertAges, LeaseLapse, RunsOut,
         Poll, Acquire, ClaimAlert, NoAlert, SendAlert, LookUpAlert, ReleaseAlert, MarkAlert,
         Advance, ReadCheckpoint, GetUpdates, RecordPoll, Check, ClaimUpdate, Duplicate,
         CloseGap, EndOfBatch, ClaimLost, RefuseAlert, Fail, Crash
<1>. QED BY <1>1, <1>2, <1>3, <1>4

(* complete_update and register_retention_gap, for any number of processes *)
(* and crashes: the offset passes an update that is neither completed nor  *)
(* lost only if a consumer has had it, by the completion of an earlier one *)
(* that had been left behind.                                              *)
THEOREM OffsetWaitsForClaims == Spec => OffsetWaits
<1>1. TypeOK /\ IngressInv /\ [Next]_vars =>
          [\A u \in 1..arrived :
              nextOffset <= u /\ u < nextOffset' =>
                  row'[u] = "done" \/ lost[u] # "no" \/ LeftBehind(u)]_vars
  BY OffsetStep
<1>2. TypeOK /\ IngressInv /\ [Next]_vars => IngressInv'
  BY IngressStep
<1>. QED BY <1>1, <1>2, IngressInit, IngressTyped, PTL DEF Spec, OffsetWaits
-----------------------------------------------------------------------------
(* Alerts are never taken back, and keep the interval they are about.      *)
LEMMA StartsKept ==
    ASSUME TypeOK, Working, [Next]_vars
    PROVE  \A x \in Nat : Covered(x) => Covered(x)'
<1>. SUFFICES \A a \in DOMAIN alerts :
                  a \in DOMAIN alerts' /\ alerts'[a].start = alerts[a].start
  BY DEF Covered
<1>0. /\ DOMAIN alerts = 1..Len(alerts) /\ Len(alerts) \in Nat
      /\ \A a \in DOMAIN alerts : alerts[a] \in Alerts
  BY AlertsTyped
<1>1. CASE Arrive \/ LeaseLapse \/ (\E u \in Updates : ClaimAges(u)) \/ UNCHANGED vars
  BY <1>1 DEF Arrive, LeaseLapse, ClaimAges, vars
<1>2. ASSUME NEW length \in {"day", "week"}, NEW dropped \in SUBSET kept,
             Outage(length, dropped), NEW a \in DOMAIN alerts
      PROVE  a \in DOMAIN alerts' /\ alerts'[a].start = alerts[a].start
  BY <1>0, <1>2 DEF Outage, Alerts
<1>3. CASE \E a \in DOMAIN alerts : AlertAges(a)
  BY <1>0, <1>3 DEF AlertAges, Alerts
<1>4. ASSUME NEW p \in Pollers, Poll(p) \/ RefuseAlert(p) \/ Fail(p) \/ Crash(p),
             NEW a \in DOMAIN alerts
      PROVE  a \in DOMAIN alerts' /\ alerts'[a].start = alerts[a].start
  <2>1. CASE ClaimAlert(p)
    BY <1>0, <2>1 DEF ClaimAlert, Alerts
  <2>2. CASE SendAlert(p)
    <3>1. PICK b \in DOMAIN alerts : b = attempt[p].alert
      BY <2>2 DEF SendAlert, Unwritten, Working
    <3>2. PICK shown \in {0, 1}, result \in {"confirmed", "outcome_unknown"} :
              alerts' = [alerts EXCEPT ![b].shown = @ + shown,
                                       ![b].known = result = "confirmed"]
      BY <2>2, <3>1 DEF SendAlert
    <3>. QED BY <1>0, <3>2 DEF Alerts
  <2>3. CASE ReleaseAlert(p)
    BY <1>0, <2>3 DEF ReleaseAlert, Alerts
  <2>4. CASE MarkAlert(p)
    <3>1. PICK b \in DOMAIN alerts : b = attempt[p].alert
      BY <2>4 DEF MarkAlert, Mine, Working
    <3>2. alerts' = [alerts EXCEPT ![b].status = attempt[p].result,
                                   ![b].claimant = NoPoller]
      BY <2>4, <3>1 DEF MarkAlert
    <3>. QED BY <1>0, <3>2 DEF Alerts
  <2>5. CASE Register(p)
    <3>1. NewAlert(p) \in Alerts
      BY DEF NewAlert, Alerts, TypeOK
    <3>2. alerts' = alerts \/ alerts' = Append(alerts, NewAlert(p))
      BY <2>5 DEF Register
    <3>. QED BY <1>0, <3>1, <3>2, AppendProperties DEF TypeOK
  <2>6. CASE UNCHANGED alerts
    BY <2>6
  <2>7. \/ UNCHANGED alerts
        \/ ClaimAlert(p) \/ SendAlert(p) \/ ReleaseAlert(p) \/ MarkAlert(p) \/ Register(p)
    BY <1>4 DEF Poll, Acquire, NoAlert, LookUpAlert, ReadCheckpoint, GetUpdates, RecordPoll,
                Check, ClaimUpdate, Duplicate, Complete, CloseGap, EndOfBatch, ClaimLost,
                RefuseAlert, Fail, Crash
  <2>. QED BY <2>1, <2>2, <2>3, <2>4, <2>5, <2>6, <2>7
<1>. QED BY <1>1, <1>2, <1>3, <1>4 DEF Next

(* Whether a poller can have missed a loss that nobody was told of.        *)
LEMMA LossesAsTheyWere ==
    ASSUME TypeOK, LossInv, \A x \in Nat : Covered(x) => Covered(x)',
           UNCHANGED <<nextOffset, lost, outage>>, gapOpen' => gapOpen,
           \A u \in Updates : row[u] = "done" => row'[u] = "done",
           \A p \in Pollers : \/ pc'[p] \in {"idle", "before", "fetching"}
                              \/ /\ pc[p] \notin {"idle", "before", "fetching"}
                                 /\ pc[p] \in {"polling", "answered"}
                                       => pc'[p] = pc[p] /\ evidence'[p] = evidence[p]
    PROVE  LossInv'
<1>1. nextOffset \in Nat /\ Updates \in SUBSET Nat
  BY Bounds DEF TypeOK
<1>2. gapOpen' => Covered(nextOffset)'
  <2>1. PICK x \in Nat : x = nextOffset
    BY <1>1
  <2>2. gapOpen' => Covered(x)'
    BY <2>1 DEF LossInv
  <2>. QED BY <2>1, <2>2 DEF Covered
<1>3. ASSUME NEW u \in Updates, lost'[u] = "watched" /\ row'[u] # "done" /\ ~Covered(u)'
      PROVE  /\ outage' # "none" /\ 0 < nextOffset' /\ nextOffset' <= u
             /\ \A p \in Pollers :
                    \/ pc'[p] \in {"idle", "before", "fetching"}
                    \/ pc'[p] \in {"polling", "answered"} /\ evidence'[p] # "none"
  <2>1. lost[u] = "watched" /\ row[u] # "done" /\ ~Covered(u)
    BY <1>1, <1>3
  <2>2. /\ outage # "none" /\ 0 < nextOffset /\ nextOffset <= u
        /\ \A p \in Pollers :
                    \/ pc[p] \in {"idle", "before", "fetching"}
                    \/ pc[p] \in {"polling", "answered"} /\ evidence[p] # "none"
    BY <2>1 DEF LossInv
  <2>. QED BY <2>2
<1>. QED BY <1>2, <1>3 DEF LossInv

LEMMA LossStep ==
    ASSUME TypeOK, Working, IngressInv, LossInv, [Next]_vars
    PROVE  LossInv'
<1>0. /\ arrived \in Nat /\ nextOffset \in Nat /\ Updates \in SUBSET Nat
      /\ kept \subseteq 1..arrived /\ \A u \in 1..arrived : u \in Updates
      /\ \A p \in Pollers : offset[p] \in Nat
  BY Bounds DEF TypeOK, Updates
<1>00. \A x \in Nat : Covered(x) => Covered(x)'
  BY StartsKept
<1>000. ASSUME UNCHANGED <<nextOffset, lost, outage, gapOpen, row, pc, evidence>>
        PROVE  LossInv'
  <2>1. \A p \in Pollers : \/ pc'[p] \in {"idle", "before", "fetching"}
                           \/ /\ pc[p] \notin {"idle", "before", "fetching"}
                              /\ pc[p] \in {"polling", "answered"}
                                    => pc'[p] = pc[p] /\ evidence'[p] = evidence[p]
    BY <1>000
  <2>. QED BY <1>00, <1>000, <2>1, LossesAsTheyWere
<1>1. CASE Arrive
  BY <1>1, <1>000 DEF Arrive, checkpoint, updates, cycle, asked
<1>2. ASSUME NEW length \in {"day", "week"}, NEW dropped \in SUBSET kept,
             Outage(length, dropped)
      PROVE  LossInv'
  <2>1. /\ \A p \in Pollers : pc'[p] = "idle"
        /\ lost' = [u \in Updates |->
                   IF u \notin dropped \/ u < nextOffset THEN lost[u]
                   ELSE IF nextOffset = 0 THEN "unwatched" ELSE "watched"]
        /\ row' = [u \in Updates |-> IF row[u] = "claimed" THEN "stale" ELSE row[u]]
        /\ UNCHANGED <<nextOffset, gapOpen>> /\ outage' # "none"
    BY <1>2 DEF Outage, cycle
  <2>2. gapOpen' => Covered(nextOffset)'
    <3>1. PICK x \in Nat : x = nextOffset
      BY <1>0
    <3>2. gapOpen' => Covered(x)'
      BY <1>00, <2>1, <3>1 DEF LossInv
    <3>. QED BY <2>1, <3>1, <3>2 DEF Covered
  <2>3. ASSUME NEW u \in Updates, lost'[u] = "watched" /\ row'[u] # "done" /\ ~Covered(u)'
        PROVE  0 < nextOffset /\ nextOffset <= u
    <3>1. row[u] # "done" /\ ~Covered(u)
      BY <1>0, <1>00, <2>1, <2>3
    <3>2. CASE u \in dropped /\ ~(u < nextOffset)
      BY <1>0, <2>1, <2>3, <3>2
    <3>3. CASE u \notin dropped \/ u < nextOffset
      BY <2>1, <2>3, <3>1, <3>3 DEF LossInv
    <3>. QED BY <3>2, <3>3
  <2>. QED BY <2>1, <2>2, <2>3 DEF LossInv
<1>3. CASE \E u \in Updates : ClaimAges(u)
  <2>1. PICK a \in Updates : /\ row[a] = "claimed" /\ row' = [row EXCEPT ![a] = "stale"]
                             /\ UNCHANGED <<nextOffset, lost, outage, gapOpen, pc, evidence>>
    BY <1>3 DEF ClaimAges, RunsOut, telegram, cycle, asked
  <2>2. \A u \in Updates : row[u] = "done" => row'[u] = "done"
    BY <2>1 DEF TypeOK
  <2>. QED BY <1>00, <2>1, <2>2, LossesAsTheyWere
<1>4. CASE \E a \in DOMAIN alerts : AlertAges(a)
  BY <1>4, <1>000 DEF AlertAges, RunsOut, telegram, cycle, asked
<1>5. CASE LeaseLapse
  BY <1>5, <1>000 DEF LeaseLapse, RunsOut, telegram, cycle, asked
<1>6. ASSUME NEW p \in Pollers, Poll(p) \/ RefuseAlert(p) \/ Fail(p) \/ Crash(p)
      PROVE  LossInv'
  <2>0. \A q \in Pollers : q # p => pc'[q] = pc[q] /\ evidence'[q] = evidence[q]
    BY <1>6 DEF Poll, Acquire, ClaimAlert, NoAlert, SendAlert, LookUpAlert, ReleaseAlert,
                MarkAlert, Advance, ReadCheckpoint, GetUpdates, Register, RecordPoll, Check,
                ClaimUpdate, Duplicate, Complete, CloseGap, EndOfBatch, ClaimLost,
                RefuseAlert, Fail, Crash, End, asked, TypeOK
  (* A step to a stage from which the next poll sees the outage, or        *)
  (* between two stages in which nothing is missing.                       *)
  <2>00. ASSUME UNCHANGED <<nextOffset, lost, outage>>, gapOpen' => gapOpen,
                \A u \in Updates : row[u] = "done" => row'[u] = "done",
                \/ pc'[p] \in {"idle", "before", "fetching"}
                \/ pc[p] \notin {"idle", "before", "fetching", "polling", "answered"}
         PROVE  LossInv'
    BY <1>00, <2>0, <2>00, LossesAsTheyWere
  <2>1. CASE Acquire(p)
    <3>1. /\ UNCHANGED <<nextOffset, lost, outage, gapOpen, row>> /\ pc'[p] = "before"
      BY <2>1 DEF Acquire, telegram, updates, TypeOK
    <3>. QED BY <3>1, <2>00
  <2>2. ASSUME Advance(p) PROVE LossInv'
    <3>1. /\ UNCHANGED <<nextOffset, lost, outage, gapOpen, row>>
          /\ pc'[p] \in {"fetching", "idle"}
      BY <2>2 DEF Advance, telegram, updates, TypeOK
    <3>. QED BY <3>1, <2>00
  <2>3. CASE NoAlert(p) \/ ReleaseAlert(p) \/ MarkAlert(p)
    BY Zenon, <2>2, <2>3 DEF NoAlert, ReleaseAlert, MarkAlert
  <2>4. CASE ClaimAlert(p) \/ SendAlert(p) \/ LookUpAlert(p) \/ RefuseAlert(p)
    <3>1. UNCHANGED <<telegram, checkpoint, updates, pc, asked>>
      BY Zenon, <2>4 DEF ClaimAlert, SendAlert, LookUpAlert, RefuseAlert
    <3>. QED BY <3>1, <1>000 DEF telegram, checkpoint, updates, asked
  <2>5. CASE ReadCheckpoint(p)
    <3>1. /\ UNCHANGED <<nextOffset, lost, outage, gapOpen, row, alerts>>
          /\ pc[p] = "fetching" /\ pc'[p] = "polling"
          /\ evidence'[p] = IF nextOffset = 0 THEN "none" ELSE outage
      BY <2>5 DEF ReadCheckpoint, telegram, checkpoint, updates, TypeOK
    <3>. QED BY <2>0, <3>1 DEF LossInv, Covered
  <2>6. CASE GetUpdates(p)
    <3>1. /\ UNCHANGED <<nextOffset, lost, outage, gapOpen, row, alerts, evidence>>
          /\ pc[p] = "polling"
          /\ pc'[p] = IF evidence[p] = "none" THEN "registered" ELSE "answered"
      BY <2>6 DEF GetUpdates, checkpoint, updates, asked, TypeOK
    <3>. QED BY <2>0, <3>1 DEF LossInv, Covered
  <2>7. CASE Register(p)
    <3>1. /\ UNCHANGED <<lost, outage, row>>
          /\ pc[p] = "answered"
          /\ nextOffset' = Max(Boundary(p) \cup {nextOffset})
          /\ alerts' = IF gapOpen THEN alerts ELSE Append(alerts, NewAlert(p))
      BY <2>7 DEF Register, telegram, updates, TypeOK
    <3>2. nextOffset <= nextOffset' /\ nextOffset' \in Nat
      BY <3>1, Bounds, BoundaryTyped
    <3>3. PICK a \in DOMAIN alerts' : /\ alerts'[a].start \in Nat
                                      /\ alerts'[a].start <= nextOffset
      <4>1. CASE gapOpen
        <5>1. PICK a \in DOMAIN alerts : alerts[a].start <= nextOffset
          BY <4>1 DEF LossInv, Covered
        <5>2. alerts[a].start \in Nat
          BY <5>1, Bounds, AlertsTyped DEF Alerts
        <5>. QED BY <3>1, <4>1, <5>1, <5>2
      <4>2. CASE ~gapOpen
        <5>1. NewAlert(p) \in Alerts /\ NewAlert(p).start = offset[p]
          BY DEF NewAlert, Alerts, TypeOK
        <5>2. /\ Len(alerts) + 1 \in DOMAIN alerts'
              /\ alerts'[Len(alerts) + 1] = NewAlert(p)
          BY <3>1, <4>2, <5>1, AlertsTyped, AppendProperties DEF TypeOK
        <5>3. offset[p] <= nextOffset
          BY DEF IngressInv, BatchInv
        <5>. QED BY <1>0, <5>1, <5>2, <5>3
      <4>. QED BY <4>1, <4>2
    <3>4. \A x \in Nat : nextOffset <= x => Covered(x)'
      BY <1>0, <3>3 DEF Covered
    <3>5. Covered(nextOffset)'
      BY <1>0, <3>2, <3>3 DEF Covered
    <3>6. \A u \in Updates : lost'[u] = "watched" /\ row'[u] # "done" => Covered(u)'
      BY <1>0, <1>00, <3>1, <3>4 DEF LossInv
    <3>. QED BY <3>5, <3>6 DEF LossInv
  <2>8. CASE RecordPoll(p)
    <3>1. /\ UNCHANGED <<nextOffset, lost, gapOpen, row, alerts>> /\ pc[p] = "registered"
      BY <2>8 DEF RecordPoll, checkpoint, updates
    <3>2. \A u \in Updates : lost'[u] = "watched" /\ row'[u] # "done" => Covered(u)'
      BY <3>1 DEF LossInv, Covered
    <3>3. gapOpen' => Covered(nextOffset)'
      BY <3>1 DEF LossInv, Covered
    <3>. QED BY <3>2, <3>3 DEF LossInv
  <2>9. CASE Check(p) \/ Duplicate(p) \/ CloseGap(p) \/ EndOfBatch(p)
    <3>1. /\ UNCHANGED <<nextOffset, lost, outage, row>>
          /\ gapOpen' => gapOpen
      BY <2>9 DEF Check, Duplicate, CloseGap, EndOfBatch, telegram, checkpoint, updates
    <3>2. pc[p] \in {"batch", "checked", "closing"}
      BY <2>9 DEF Check, Duplicate, CloseGap, EndOfBatch
    <3>. QED BY <3>1, <3>2, <2>00
  <2>10. CASE ClaimUpdate(p)
    <3>1. /\ UNCHANGED <<nextOffset, lost, outage, gapOpen>> /\ pc[p] = "checked"
          /\ row' = [row EXCEPT ![Current(p)] = "claimed"] /\ Free(Current(p))
      BY <2>10 DEF ClaimUpdate, telegram, checkpoint
    <3>2. \A u \in Updates : row[u] = "done" => row'[u] = "done"
      BY <3>1 DEF Free, TypeOK
    <3>. QED BY <3>1, <3>2, <2>00
  <2>11. CASE Complete(p)
    <3>1. /\ UNCHANGED <<lost, outage, gapOpen, alerts>> /\ pc[p] = "consuming"
          /\ row' = [row EXCEPT ![Current(p)] = "done"]
          /\ nextOffset' = Passed(Current(p)) /\ batch[p] # {}
      BY <2>11 DEF Complete, telegram, TypeOK
    <3>2. nextOffset <= nextOffset' /\ nextOffset' \in Nat
      <4>1. PICK c \in Updates : c = Current(p)
        BY <3>1, CurrentIsFirst
      <4>2. nextOffset' = Passed(c)
        BY <3>1, <4>1
      <4>. QED BY <4>2, Bounds, PassedTyped
    <3>3. \A u \in Updates : lost[u] = "watched" /\ row[u] # "done" => Covered(u)
      BY <3>1 DEF LossInv
    <3>4. \A u \in Updates : lost'[u] = "watched" /\ row'[u] # "done" => Covered(u)'
      BY <1>0, <1>00, <3>1, <3>3 DEF TypeOK
    <3>5. gapOpen' => Covered(nextOffset)'
      <4>1. ASSUME gapOpen PROVE Covered(nextOffset)'
        <5>1. PICK a \in DOMAIN alerts : alerts[a].start <= nextOffset
          BY <4>1 DEF LossInv, Covered
        <5>2. alerts[a].start \in Nat
          BY <5>1, Bounds, AlertsTyped DEF Alerts
        <5>3. alerts[a].start <= nextOffset'
          BY <1>0, <3>2, <5>1, <5>2
        <5>. QED BY <3>1, <5>3 DEF Covered
      <4>. QED BY <3>1, <4>1
    <3>. QED BY <3>4, <3>5 DEF LossInv
  <2>12. CASE ClaimLost(p) \/ Fail(p) \/ Crash(p)
    <3>1. /\ UNCHANGED <<nextOffset, lost, outage, gapOpen>> /\ pc'[p] = "idle"
      BY <2>12 DEF ClaimLost, Fail, Crash, End, telegram, checkpoint, TypeOK
    <3>2. \A u \in Updates : row[u] = "done" => row'[u] = "done"
      BY <2>12 DEF ClaimLost, Fail, Crash, updates, Holds, Incomplete, TypeOK
    <3>. QED BY <3>1, <3>2, <2>00
  <2>. QED BY <1>6, <2>1, <2>3, <2>4, <2>5, <2>6, <2>7, <2>8, <2>9, <2>10, <2>11, <2>12
           DEF Poll
<1>7. CASE UNCHANGED vars
  BY <1>7, <1>000 DEF vars, telegram, checkpoint, updates, cycle, asked
<1>. QED BY <1>1, <1>2, <1>3, <1>4, <1>5, <1>6, <1>7 DEF Next

(* register_retention_gap before record_poll: whatever Telegram dropped    *)
(* while the offset was watched is in an alert once a poll has counted.    *)
THEOREM LossesAreAlerted == Spec => []LossAlerted
<1>1. Init => LossInv
  BY DEF Init, LossInv
<1>2. IngressInv /\ TypeOK /\ [Next]_vars => IngressInv'
  BY IngressStep
<1>3. TypeOK /\ Working /\ IngressInv /\ LossInv /\ [Next]_vars => LossInv'
  BY LossStep
<1>4. LossInv => LossAlerted
  BY DEF LossInv, LossAlerted, Covered
<1>. QED BY <1>1, <1>2, <1>3, <1>4, IngressInit, IngressTyped, PTL DEF Spec
=============================================================================
