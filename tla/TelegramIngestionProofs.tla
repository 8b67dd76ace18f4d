----------------------- MODULE TelegramIngestionProofs -----------------------
(***************************************************************************)
(* Proofs of what TelegramIngestion promises, for any chats, messages,     *)
(* page size and bounds: no checkpoint passes an event of an enabled chat  *)
(* that should be kept, no text of a message is held once its deletion is  *)
(* recorded, and nothing that happened during a pause is recorded later.   *)
(***************************************************************************)
EXTENDS TelegramIngestion, WellFoundedInduction, TLAPS

Text(e)     == e.kind # "delete"
Same(d, e)  == d.chat = e.chat /\ d.msg = e.msg
Indices(s)  == {p.index : p \in page[s]}
Admitted(c) == reg[c].state \in {"enabled", "paused"}

(* Telegram: a stream is ordered in time, a message is created first and   *)
(* deleted last.                                                           *)
LogFits ==
    \A s \in Streams : \A i \in DOMAIN log[s] :
        /\ Stream(log[s][i].chat) = s
        /\ log[s][i].at <= now
        /\ log[s][i].kind # "create" =>
               \E j \in DOMAIN log[s] :
                   j < i /\ Same(log[s][j], log[s][i]) /\ log[s][j].kind = "create"
        /\ \A j \in DOMAIN log[s] : i < j =>
               /\ log[s][i].at < log[s][j].at
               /\ Same(log[s][i], log[s][j]) =>
                      log[s][i].kind # "delete" /\ log[s][j].kind # "create"

(* The registry: what the boundary covers happened before the start, the   *)
(* clock is read after a pause and before the transaction that enables.    *)
RegFits ==
    \A c \in Chats :
        /\ reg[c].state # "unknown" => reg[c].boundary <= Len(log[Stream(c)])
        /\ stamp[c] <= now
        /\ stamp[c] # 0 =>
               /\ reg[c].state \in {"resolved", "paused"}
               /\ \A i \in 1..reg[c].boundary : log[Stream(c)][i].at < stamp[c]
               /\ reg[c].state = "paused" => reg[c].pausedAt < stamp[c]
        /\ Admitted(c) =>
               /\ \A i \in 1..reg[c].boundary : log[Stream(c)][i].at < reg[c].started
               /\ reg[c].started <= reg[c].enabledAt /\ reg[c].enabledAt <= now
        /\ reg[c].state = "paused" =>
               reg[c].enabledAt <= reg[c].pausedAt /\ reg[c].pausedAt <= now
        /\ Enabled(c) /\ reg[c].resumed => reg[c].pausedAt < reg[c].started

CkFits == \A s \in Streams : ck[s] <= Len(log[s])

(* Only an admitted chat has records: of its past, and of real deletions.  *)
RecordFits ==
    \A r \in records :
        /\ Admitted(r.chat)
        /\ Text(r) => /\ r.at <= now
                      /\ reg[r.chat].state = "paused" => r.at <= reg[r.chat].pausedAt
        /\ ~Text(r) => \E i \in DOMAIN log[Stream(r.chat)] :
                           /\ Same(log[Stream(r.chat)][i], r)
                           /\ ~Text(log[Stream(r.chat)][i])

(* An event that no later reading of its page will accept: it is recorded, *)
(* tombstoned, or as old as the chat's latest start or pause.              *)
Horizon(c) == IF Enabled(c) THEN reg[c].started ELSE reg[c].pausedAt

Rejected(c, i) ==
    /\ Admitted(c)
    /\ log[Stream(c)][i].at <= Horizon(c)
    /\ c \in Channels /\ log[Stream(c)][i].kind = "edit" /\ Enabled(c) /\ ~reg[c].resumed
       => i <= reg[c].boundary

Settled(c, i) == LET e == log[Stream(c)][i] IN
                 Key(e) \in records \/ <<e.chat, e.msg>> \in barred \/ Rejected(c, i)

(* An event dropped because nothing of its message is known.               *)
Unheard(c, i) == LET e == log[Stream(c)][i] IN
                 /\ c \in Groups /\ e.kind # "create"
                 /\ Of(c, e.msg) = {}
                 /\ ck[Account] < reg[c].boundary

(* What a held page is: results of events beyond the checkpoint.           *)
PageShape ==
    \A s \in Streams : \A p \in page[s] :
        /\ up /\ p.stream = s /\ p.from = ck[s] /\ ck[s] <= p.to /\ p.to <= Len(log[s])
        /\ s \in Channels => Admitted(s)
        /\ p.chat = NoChat => p.index = 0 /\ ~p.pending /\ page[s] = {p}
        /\ p.chat # NoChat =>
               /\ p.index \in DOMAIN log[s] /\ ck[s] < p.index
               /\ Same(log[s][p.index], p) /\ log[s][p.index].kind = p.kind
               /\ IF Text(p) THEN p.at = log[s][p.index].at
                  ELSE p.at > log[s][p.index].at
               /\ IF p.pending THEN s = Account
                  ELSE /\ Admitted(p.chat)
                       /\ ~Enabled(p.chat) => log[s][p.index].at <= reg[p.chat].pausedAt
        /\ p.to = ck[s] \/ \A q \in page[s] : q.index <= p.index /\ p.index <= p.to
        /\ \A q \in page[s] : q.index = p.index => q = p

(* A page that has an event of a chat has all later ones up to its end.    *)
PageClosed ==
    \A s \in Streams : \A p \in page[s] : \A i \in DOMAIN log[s] \ Indices(s) :
        log[s][i].chat = p.chat /\ p.index < i =>
            \A q \in page[s] : q.to < i /\ q.index < i

(* What the page has passed of a chat it has more of is settled, or was    *)
(* not known.                                                              *)
PageHandled ==
    \A s \in Streams : \A p \in page[s] : \A i \in DOMAIN log[s] \ Indices(s) :
        /\ log[s][i].chat = p.chat /\ ck[s] < i /\ i < p.index /\ ~p.pending
        /\ Text(log[s][i])
        => Settled(p.chat, i) \/ Unheard(p.chat, i)

(* Events that the checkpoint has passed or will pass with the page.       *)
Passed(s, i) == i <= ck[s] \/ (i \notin Indices(s) /\ \E p \in page[s] : i <= p.to)
Seen(s, i)   == i <= ck[s] \/ \E p \in page[s] : i <= p.to \/ i <= p.index

(* What the process is at: the first of a page, or a message of a history  *)
(* that was as Telegram had it when nothing later had been looked at.      *)
HistoryFits ==
    work.op = "history" =>
        LET e == work.event
            s == Stream(e.chat)
        IN  /\ Text(e) /\ Admitted(e.chat)
            /\ Enabled(e.chat) /\ ~reg[e.chat].resumed => e.at <= reg[e.chat].started
            /\ \A r \in Of(e.chat, e.msg) : Text(r)
            /\ \A i \in DOMAIN log[s] :
                   Same(log[s][i], e) /\ Seen(s, i) =>
                       /\ Text(log[s][i])
                       /\ log[s][i].kind = "edit" => log[s][i].at <= e.at

WorkFits ==
    /\ ~up => work = NoWork
    /\ work.op \in {"commit", "discard", "advance"} =>
           /\ work.event \in page[work.event.stream]
           /\ ~work.event.pending
           /\ \A q \in page[work.event.stream] : work.event.index <= q.index
           /\ work.op = "advance" <=> work.event.chat = NoChat
    /\ work.op \in {"history", "skip", "complete"} => work.event.chat \in Chats
    /\ work.op \in {"history", "skip"} => work.event.msg \in Messages

(* NothingPassed, of what a page passes before the checkpoint as well.     *)
KeptAt(c, i) == Kept(c, log[Stream(c)][i])

PassedKept ==
    \A c \in Chats : Enabled(c) =>
        \A i \in DOMAIN log[Stream(c)] :
            LET e == log[Stream(c)][i]
            IN Passed(Stream(c), i) /\ e.chat = c /\ e.at > reg[c].enabledAt => Kept(c, e)

(* No text of a message whose deletion is recorded is read again.          *)
DeletedSettled ==
    \A r \in records : ~Text(r) =>
        \A i \in DOMAIN log[Stream(r.chat)] :
            /\ ck[Stream(r.chat)] < i /\ Same(log[Stream(r.chat)][i], r)
            /\ Text(log[Stream(r.chat)][i])
            => Settled(r.chat, i)

IngestionInv ==
    /\ TypeOK /\ LogFits /\ RegFits /\ CkFits /\ RecordFits
    /\ PageShape /\ PageClosed /\ PageHandled
    /\ WorkFits /\ HistoryFits /\ PassedKept /\ DeletedSettled
-----------------------------------------------------------------------------
(* Numbers.                                                                *)
LEMMA MinNat == ASSUME NEW S \in SUBSET Nat, S # {}
                PROVE  Min(S) \in S /\ \A x \in S : Min(S) <= x
<1>. DEFINE R == {pair \in Nat \X Nat : pair[1] < pair[2]}
<1>1. IsWellFoundedOn(R, Nat)
  BY NatLessThanWellFounded DEF OpToRel
<1>2. PICK m \in S : \A y \in S : ~(<<y, m>> \in R)
  <2>. HIDE DEF R
  <2>. QED BY <1>1, WFMin
<1>3. ASSUME NEW y \in S PROVE m <= y
  <2>1. <<y, m>> \notin R
    BY <1>2
  <2>2. y \in Nat /\ m \in Nat /\ <<y, m>>[1] = y /\ <<y, m>>[2] = m
    OBVIOUS
  <2>. QED BY <2>1, <2>2
<1>. QED BY <1>3 DEF Min

LEMMA MaxNat == ASSUME NEW n \in Nat, NEW S \in SUBSET (0..n), S # {}
                PROVE  Max(S) \in S /\ \A x \in S : x <= Max(S)
<1>. DEFINE T == {n - x : x \in S}
<1>0. \A x \in S : n - x \in Nat
  OBVIOUS
<1>1. T \in SUBSET Nat /\ T # {}
  BY <1>0, Zenon
<1>2. PICK m \in S : Min(T) = n - m
  BY <1>1, MinNat
<1>3. \A y \in S : Min(T) <= n - y
  BY <1>1, MinNat
<1>4. \A y \in S : m >= y
  BY <1>2, <1>3
<1>5. \E x \in S : \A y \in S : x >= y
  BY <1>4
<1>. QED BY <1>5 DEF Max

LEMMA MaxOfTwo == ASSUME NEW a \in Messages \cup {0}, NEW b \in Messages
                  PROVE  Max({a, b}) \in {a, b}
<1>1. a \in Nat /\ b \in Nat
  BY IngestionAssumption
<1>2. a + b \in Nat /\ {a, b} \in SUBSET (0..a + b) /\ {a, b} # {}
  BY <1>1
<1>. QED BY <1>2, MaxNat

LEMMA FirstOf == ASSUME NEW P \in SUBSET Results, P # {}
                 PROVE  First(P) \in P /\ \A q \in P : First(P).index <= q.index
<1>. DEFINE S == {q.index : q \in P}
<1>1. \A q \in P : q.index \in Nat
  BY DEF Results
<1>2. S \in SUBSET Nat /\ S # {}
  BY <1>1, Zenon
<1>3. Min(S) \in S /\ \A x \in S : Min(S) <= x
  <2>. HIDE DEF S
  <2>. QED BY <1>2, MinNat
<1>4. \E e \in P : \A f \in P : e.index <= f.index
  <2>1. PICK e \in P : e.index = Min(S)
    BY <1>3, Zenon
  <2>2. ASSUME NEW f \in P PROVE e.index <= f.index
    <3>1. f.index \in S
      OBVIOUS
    <3>. QED BY <3>1, <2>1, <1>3
  <2>. QED BY <2>2
<1>. QED BY <1>4, Zenon DEF First
-----------------------------------------------------------------------------
(* Facts of the types.                                                     *)
LEMMA LogTyped ==
    ASSUME TypeOK, NEW s \in Streams
    PROVE  /\ Len(log[s]) \in Nat /\ DOMAIN log[s] = 1..Len(log[s])
           /\ \A i \in DOMAIN log[s] : log[s][i] \in LogEvents
BY DEF TypeOK

LEMMA StreamTyped ==
    ASSUME NEW c \in Chats
    PROVE  Stream(c) \in Streams /\ (c \in Channels => Stream(c) = c)
           /\ (c \in Groups => Stream(c) = Account) /\ c # NoChat /\ c # Account /\ c # Role
BY IngestionAssumption DEF Stream, Streams, Chats

LEMMA PageEndTyped ==
    ASSUME TypeOK, CkFits, NEW s \in Streams, ck[s] # Unset
    PROVE  /\ PageEnd(s) \in Nat /\ ck[s] \in Nat
           /\ ck[s] <= PageEnd(s) /\ PageEnd(s) <= Len(log[s])
<1>1. ck[s] \in Nat /\ Len(log[s]) \in Nat /\ PageSize \in Nat /\ ck[s] <= Len(log[s])
  BY IngestionAssumption, LogTyped DEF TypeOK, CkFits
<1>. DEFINE S == {Len(log[s]), ck[s] + PageSize}
<1>2. S \in SUBSET Nat /\ S # {}
  BY <1>1
<1>3. Min(S) \in S /\ \A x \in S : Min(S) <= x
  <2>. HIDE DEF S
  <2>. QED BY <1>2, MinNat
<1>4. Min(S) <= Len(log[s]) /\ Min(S) \in {Len(log[s]), ck[s] + PageSize}
  BY <1>3
<1>. QED BY <1>1, <1>4 DEF PageEnd

(* What is fetched, and where from.                                        *)
LEMMA FetchedTyped ==
    ASSUME TypeOK, CkFits, NEW s \in Streams, ck[s] # Unset, NEW p \in Fetched(s)
    PROVE  /\ p \in Results
           /\ \/ InScope(s) = {} /\ p = Advancing(s) /\ Fetched(s) = {p}
              \/ \E i \in InScope(s) : p = Result(s, i)
<1>1. PageEnd(s) \in Nat /\ ck[s] \in Nat /\ ck[s] <= PageEnd(s) /\ PageEnd(s) <= Len(log[s])
  BY PageEndTyped
<1>2. CASE InScope(s) = {}
  <2>1. p = Advancing(s) /\ Fetched(s) = {p}
    BY <1>2 DEF Fetched
  <2>2. Advancing(s) \in Results
    BY <1>1 DEF Advancing, NoEvent, Results, Kinds, NoChat
  <2>. QED BY <2>1, <2>2, <1>2
<1>3. CASE InScope(s) # {}
  <2>1. PICK i \in InScope(s) : p = Result(s, i)
    BY <1>3 DEF Fetched
  <2>2. i \in 1..Len(log[s])
    BY <1>1, LogTyped DEF InScope
  <2>3. log[s][i] \in LogEvents
    BY <2>2, LogTyped
  <2>4. now \in Nat /\ i \in Nat
    BY <2>2 DEF TypeOK
  <2>5. Result(s, i) \in Results
    BY <1>1, <2>3, <2>4 DEF Result, Results, LogEvents, Kinds
  <2>. QED BY <2>1, <2>5
<1>. QED BY <1>2, <1>3
LEMMA CurrentTyped ==
    ASSUME TypeOK, CkFits, NEW s \in Streams, ck[s] # Unset, Current(s) # {}
    PROVE  /\ Current(s) \in SUBSET Results
           /\ First(Current(s)) \in Current(s) /\ First(Current(s)) \in Results
           /\ \A q \in Current(s) : First(Current(s)).index <= q.index
<1>1. Current(s) \in SUBSET Results
  BY FetchedTyped DEF Current, TypeOK
<1>. QED BY <1>1, FirstOf

(* The state of a message that a history result shows.                     *)
LEMMA HistoryTyped ==
    ASSUME TypeOK, LogFits, NEW c \in Chats, Window(c) # {}
    PROVE  LET h == HistoryResult(c, Min(Window(c)))
               s == Stream(c)
           IN  /\ h.stream = s /\ h.chat = c /\ h.msg \in Messages
               /\ h.kind \in {"create", "edit"} /\ h.at \in Nat
               /\ h.index = 0 /\ h.pending = FALSE /\ h.from = ck[s] /\ h.to = ck[s]
               /\ \A i \in DOMAIN log[s] :
                      Same(log[s][i], h) =>
                          /\ Text(log[s][i])
                          /\ log[s][i].kind = "edit" => log[s][i].at <= h.at
<1>. DEFINE s == Stream(c)
            m == Min(Window(c))
            E == {Born(c, m)} \cup Edits(c, m)
            h == HistoryResult(c, m)
<1>1. m \in Window(c)
  <2>1. Window(c) \in SUBSET Nat
    BY IngestionAssumption DEF Window
  <2>. QED BY <2>1, MinNat
<1>2. m \in Messages /\ Visible(c, m)
  BY <1>1 DEF Window
<1>3. s \in Streams /\ \A i \in DOMAIN log[s] : log[s][i] \in LogEvents /\ log[s][i].at <= now
  BY StreamTyped, LogTyped DEF LogFits
<1>4. \A e \in Events(c) : e.at \in 0..now
  <2>1. \A e \in ToSet(log[s]) : e \in LogEvents /\ e.at <= now
    BY <1>3 DEF ToSet
  <2>. QED BY <2>1 DEF Events, LogEvents, TypeOK
<1>5. Born(c, m) \in 0..now
  BY <1>2, <1>4 DEF Visible, Created, Born
<1>6. E \in SUBSET (0..now) /\ E # {}
  BY <1>4, <1>5 DEF Edits
<1>7. Max(E) \in 0..now /\ \A x \in E : x <= Max(E)
  <2>1. now \in Nat
    BY DEF TypeOK
  <2>. HIDE DEF E
  <2>. QED BY <2>1, <1>6, MaxNat
<1>8. h = [NoEvent EXCEPT !.stream = s, !.chat = c, !.msg = m,
                          !.kind = IF Edits(c, m) = {} THEN "create" ELSE "edit",
                          !.at = Max(E), !.from = ck[s], !.to = ck[s]]
  BY Zenon DEF HistoryResult
<1>9. /\ h.stream = s /\ h.chat = c /\ h.msg = m /\ h.kind \in {"create", "edit"}
      /\ h.at = Max(E) /\ h.index = 0 /\ h.pending = FALSE /\ h.from = ck[s] /\ h.to = ck[s]
  <2>. HIDE DEF s, m, E, h
  <2>. QED BY <1>8 DEF NoEvent
<1>10. ASSUME NEW i \in DOMAIN log[s], Same(log[s][i], h)
       PROVE  /\ Text(log[s][i])
              /\ log[s][i].kind = "edit" => log[s][i].at <= h.at
  <2>1. log[s][i] \in Events(c) /\ log[s][i].msg = m
    BY <1>9, <1>10 DEF Events, ToSet, Same
  <2>2. Text(log[s][i])
    BY <2>1, <1>2 DEF Visible, Text
  <2>3. log[s][i].kind = "edit" => log[s][i].at \in E
    BY <2>1 DEF Edits
  <2>. QED BY <2>2, <2>3, <1>7, <1>9
<1>. HIDE DEF h
<1>. QED BY <1>2, <1>7, <1>9, <1>10 DEF h
-----------------------------------------------------------------------------
(* What the registry's operations leave.                                   *)
LEMMA RegPut ==
    ASSUME TypeOK, NEW c \in Chats, NEW x \in Entries, reg' = [reg EXCEPT ![c] = x]
    PROVE  /\ reg' \in [Chats -> Entries]
           /\ reg'[c] = x /\ \A d \in Chats : d # c => reg'[d] = reg[d]
BY DEF TypeOK

LEMMA PausedEntry ==
    ASSUME NEW e \in Entries, NEW t \in Nat
    PROVE  LET x == [e EXCEPT !.state = "paused", !.pausedAt = t]
           IN  /\ x \in Entries
               /\ x.state = "paused" /\ x.started = e.started /\ x.enabledAt = e.enabledAt
               /\ x.resumed = e.resumed /\ x.boundary = e.boundary /\ x.pausedAt = t
BY DEF Entries

LEMMA ResolvedEntry ==
    ASSUME NEW e \in Entries, NEW n \in Nat
    PROVE  LET x == [e EXCEPT !.state = "resolved", !.boundary = n]
           IN  x \in Entries /\ x.state = "resolved" /\ x.boundary = n
BY DEF Entries

LEMMA EnableDoes ==
    ASSUME TypeOK, NEW c \in Chats, Enable(c)
    PROVE  /\ reg' \in [Chats -> Entries] /\ stamp' \in [Chats -> Nat]
           /\ activating' \subseteq Chats
           /\ reg'[c].state = "enabled" /\ reg'[c].started = stamp[c]
           /\ reg'[c].enabledAt = now
           /\ IF reg[c].state = "paused" THEN reg'[c].resumed = TRUE ELSE reg'[c].resumed = FALSE
           /\ reg'[c].boundary = reg[c].boundary /\ reg'[c].pausedAt = reg[c].pausedAt
           /\ \A d \in Chats : d # c => reg'[d] = reg[d] /\ stamp'[d] = stamp[d]
           /\ stamp[c] # 0 /\ stamp'[c] = 0
           /\ UNCHANGED <<now, log, ck, progress, records, bodies, barred, stopped, unavailable,
                          up, approved, admitting, page, work>>
<1>. DEFINE x == [reg[c] EXCEPT !.state = "enabled", !.started = stamp[c], !.enabledAt = now,
                                !.resumed = reg[c].state = "paused"]
<1>1. reg[c] \in Entries /\ stamp[c] \in Nat /\ now \in Nat
  BY DEF TypeOK
<1>2. reg' = [reg EXCEPT ![c] = x]
  BY DEF Enable
<1>. DEFINE y(b) == [reg[c] EXCEPT !.state = "enabled", !.started = stamp[c],
                                   !.enabledAt = now, !.resumed = b]
<1>3. /\ x \in Entries
      /\ x.state = "enabled" /\ x.started = stamp[c] /\ x.enabledAt = now
      /\ IF reg[c].state = "paused" THEN x.resumed = TRUE ELSE x.resumed = FALSE
      /\ x.boundary = reg[c].boundary /\ x.pausedAt = reg[c].pausedAt
  <2>1. ASSUME NEW b \in BOOLEAN, x = y(b)
        PROVE  /\ x \in Entries
               /\ x.state = "enabled" /\ x.started = stamp[c] /\ x.enabledAt = now
               /\ x.resumed = b /\ x.boundary = reg[c].boundary /\ x.pausedAt = reg[c].pausedAt
    <3>1. PICK e, t, u : e = reg[c] /\ t = stamp[c] /\ u = now
      OBVIOUS
    <3>2. x = [e EXCEPT !.state = "enabled", !.started = t, !.enabledAt = u, !.resumed = b]
      BY <2>1, <3>1
    <3>3. e \in Entries /\ t \in Nat /\ u \in Nat
      BY <1>1, <3>1
    <3>4. /\ x \in Entries
          /\ x.state = "enabled" /\ x.started = t /\ x.enabledAt = u /\ x.resumed = b
          /\ x.boundary = e.boundary /\ x.pausedAt = e.pausedAt
      <4>. HIDE DEF x, y
      <4>. QED BY <3>2, <3>3, <2>1 DEF Entries
    <3>. HIDE DEF x, y
    <3>. QED BY <3>1, <3>4
  <2>2. CASE reg[c].state = "paused"
    <3>1. x = y(TRUE)
      BY <2>2
    <3>. HIDE DEF x, y
    <3>. QED BY <2>1, <2>2, <3>1
  <2>3. CASE reg[c].state # "paused"
    <3>1. x = y(FALSE)
      BY <2>3
    <3>. HIDE DEF x, y
    <3>. QED BY <2>1, <2>3, <3>1
  <2>. QED BY <2>2, <2>3
<1>4. /\ reg' \in [Chats -> Entries]
      /\ reg'[c] = x /\ \A d \in Chats : d # c => reg'[d] = reg[d]
  <2>. HIDE DEF x
  <2>. QED BY <1>2, <1>3, RegPut
<1>5. /\ stamp' \in [Chats -> Nat] /\ activating' \subseteq Chats
      /\ stamp[c] # 0 /\ stamp'[c] = 0 /\ \A d \in Chats : d # c => stamp'[d] = stamp[d]
  BY DEF Enable, TypeOK
<1>6. UNCHANGED <<now, log, ck, progress, records, bodies, barred, stopped, unavailable,
                  up, approved, admitting, page, work>>
  BY DEF Enable, telegram, durable, failed, process
<1>. HIDE DEF x
<1>. QED BY <1>3, <1>4, <1>5, <1>6

LEMMA PauseDoes ==
    ASSUME TypeOK, NEW c \in Chats, Pause(c)
    PROVE  /\ reg' \in [Chats -> Entries]
           /\ reg[c].state = "enabled" /\ reg'[c].state = "paused" /\ reg'[c].pausedAt = now
           /\ reg'[c].started = reg[c].started /\ reg'[c].enabledAt = reg[c].enabledAt
           /\ reg'[c].boundary = reg[c].boundary /\ reg'[c].resumed = reg[c].resumed
           /\ \A d \in Chats : d # c => reg'[d] = reg[d]
           /\ UNCHANGED <<now, log, stamp, activating, ck, progress, records, bodies, barred,
                          stopped, unavailable, up, approved, admitting, page, work>>
<1>. DEFINE x == [reg[c] EXCEPT !.state = "paused", !.pausedAt = now]
<1>1. reg[c] \in Entries /\ now \in Nat
  BY DEF TypeOK
<1>2. reg' = [reg EXCEPT ![c] = x]
  BY DEF Pause
<1>3. /\ x \in Entries
      /\ x.state = "paused" /\ x.started = reg[c].started /\ x.enabledAt = reg[c].enabledAt
      /\ x.resumed = reg[c].resumed /\ x.boundary = reg[c].boundary /\ x.pausedAt = now
  BY <1>1, PausedEntry, Zenon
<1>4. /\ reg' \in [Chats -> Entries]
      /\ reg'[c] = x /\ \A d \in Chats : d # c => reg'[d] = reg[d]
  <2>. HIDE DEF x
  <2>. QED BY <1>2, <1>3, RegPut
<1>5. /\ reg[c].state = "enabled"
      /\ UNCHANGED <<now, log, stamp, activating, ck, progress, records, bodies, barred,
                     stopped, unavailable, up, approved, admitting, page, work>>
  BY DEF Pause, Enabled, telegram, durable, failed, process
<1>. HIDE DEF x
<1>. QED BY <1>3, <1>4, <1>5

LEMMA RefuseDoes ==
    ASSUME TypeOK, NEW c \in Chats, Refuse(c)
    PROVE  /\ reg' \in [Chats -> Entries]
           /\ reg[c].state = "resolved" /\ stamp[c] = 0 /\ reg'[c] = Unknown
           /\ reg'[c].state = "unknown"
           /\ \A d \in Chats : d # c => reg'[d] = reg[d]
           /\ UNCHANGED <<now, log, stamp, activating, ck, progress, records, bodies, barred,
                          stopped, unavailable, up, approved, admitting, page, work>>
<1>1. Unknown \in Entries /\ Unknown.state = "unknown"
  BY DEF Unknown, Entries
<1>2. reg' = [reg EXCEPT ![c] = Unknown]
  BY DEF Refuse
<1>3. /\ reg[c].state = "resolved" /\ stamp[c] = 0
      /\ UNCHANGED <<now, log, stamp, activating, ck, progress, records, bodies, barred,
                     stopped, unavailable, up, approved, admitting, page, work>>
  BY DEF Refuse, telegram, durable, failed, process
<1>. QED BY <1>1, <1>2, <1>3, RegPut

LEMMA CaptureDoes ==
    ASSUME TypeOK, NEW c \in Chats, Capture(c)
    PROVE  /\ reg' \in [Chats -> Entries]
           /\ reg'[c].state = "resolved" /\ reg'[c].boundary = Len(log[Stream(c)])
           /\ \A d \in Chats : d # c => reg'[d] = reg[d]
<1>. DEFINE n == Len(log[Stream(c)])
            x == [reg[c] EXCEPT !.state = "resolved", !.boundary = n]
<1>1. n \in Nat /\ reg[c] \in Entries
  BY StreamTyped, LogTyped DEF TypeOK
<1>2. reg' = [reg EXCEPT ![c] = x]
  BY DEF Capture, Boundary
<1>3. x \in Entries /\ x.state = "resolved" /\ x.boundary = n
  <2>. HIDE DEF n
  <2>. QED BY <1>1, ResolvedEntry, Zenon
<1>4. /\ reg' \in [Chats -> Entries]
      /\ reg'[c] = x /\ \A d \in Chats : d # c => reg'[d] = reg[d]
  <2>. HIDE DEF x
  <2>. QED BY <1>2, <1>3, RegPut
<1>. HIDE DEF x
<1>. QED BY <1>3, <1>4

LEMMA ResolveDoes ==
    ASSUME TypeOK, NEW c \in Chats, Resolve(c)
    PROVE  /\ reg' \in [Chats -> Entries]
           /\ reg[c].state = "unknown" /\ reg'[c].state = "resolved"
           /\ reg'[c].boundary = Len(log[Stream(c)])
           /\ \A d \in Chats : d # c => reg'[d] = reg[d]
           /\ up /\ work = NoWork /\ admitting' \subseteq Chats
           /\ ck' \in [Streams -> Nat \cup {Unset}] /\ ck'[Account] # Unset
           /\ \A s \in Streams :
                  ck'[s] # ck[s] => s = c /\ c \in Channels /\ ck'[s] = Len(log[s])
           /\ UNCHANGED <<now, log, stamp, activating, progress, records, bodies, barred,
                          stopped, unavailable, up, approved, page, work>>
<1>. DEFINE n == Len(log[Stream(c)])
<1>1. n \in Nat /\ Account \notin Channels /\ Account \in Streams
  BY StreamTyped, LogTyped, IngestionAssumption DEF Chats, Streams
<1>2. ck' = IF c \in Channels THEN [ck EXCEPT ![c] = n] ELSE ck
  BY DEF Resolve, Boundary
<1>3. c \in Channels => Stream(c) = c /\ c \in Streams
  BY DEF Stream, Streams
<1>4. /\ ck' \in [Streams -> Nat \cup {Unset}] /\ ck'[Account] # Unset
      /\ \A s \in Streams :
             ck'[s] # ck[s] => s = c /\ c \in Channels /\ ck'[s] = Len(log[s])
  <2>1. ck \in [Streams -> Nat \cup {Unset}] /\ ck[Account] # Unset
    BY DEF TypeOK
  <2>2. c \in Channels => n = Len(log[c])
    BY <1>3
  <2>. HIDE DEF n
  <2>. QED BY <1>1, <1>2, <1>3, <2>1, <2>2
<1>5. /\ reg[c].state = "unknown" /\ up /\ work = NoWork /\ admitting' \subseteq Chats
      /\ UNCHANGED <<now, log, stamp, activating, progress, records, bodies, barred,
                     stopped, unavailable, up, approved, page, work>>
  BY DEF Resolve, Idle, TypeOK, telegram, failed
<1>6. Capture(c)
  BY DEF Resolve
<1>. QED BY <1>4, <1>5, <1>6, CaptureDoes

LEMMA SeedDoes ==
    ASSUME TypeOK, NEW c \in Chats, Seed(c)
    PROVE  /\ reg' \in [Chats -> Entries]
           /\ reg[c].state = "unknown" /\ reg'[c].state = "resolved"
           /\ reg'[c].boundary = Len(log[Stream(c)])
           /\ \A d \in Chats : d # c => reg'[d] = reg[d]
           /\ UNCHANGED <<now, log, stamp, activating, ck, progress, records, bodies, barred,
                          stopped, unavailable, up, approved, admitting, page, work>>
<1>1. /\ reg[c].state = "unknown" /\ Capture(c)
      /\ UNCHANGED <<now, log, stamp, activating, ck, progress, records, bodies, barred,
                     stopped, unavailable, up, approved, admitting, page, work>>
  BY DEF Seed, telegram, durable, failed, process
<1>. QED BY <1>1, CaptureDoes
-----------------------------------------------------------------------------
(* Types.                                                                  *)
LEMMA ApplicationTypes ==
    ASSUME IngestionInv,
           NEW c \in Chats,
           \/ \E m \in Messages, k \in Kinds : Happen(c, m, k)
           \/ \E m \in Messages : Tombstone(c, m)
           \/ Pause(c) \/ Refuse(c) \/ ReadClock(c) \/ Enable(c) \/ Resolve(c) \/ Activate(c)
           \/ Seed(c)
    PROVE  TypeOK'
<1>. USE DEF IngestionInv
<1>0. c \in Chats /\ Stream(c) \in Streams /\ Account \in Streams /\ Len(log[Stream(c)]) \in Nat
  BY StreamTyped, LogTyped DEF Streams
<1>1. ASSUME NEW m \in Messages, NEW k \in Kinds, Happen(c, m, k) PROVE TypeOK'
  <2>. DEFINE e == [chat |-> c, msg |-> m, kind |-> k, at |-> now + 1]
  <2>1. now' = now + 1 /\ now' \in Nat /\ e \in LogEvents
    BY <1>1 DEF Happen, TypeOK, LogEvents
  <2>2. log' = [log EXCEPT ![Stream(c)] = Append(@, e)]
    BY <1>1 DEF Happen
  <2>3. log' \in [Streams -> Seq(LogEvents)]
    <3>. HIDE DEF e
    <3>1. Append(log[Stream(c)], e) \in Seq(LogEvents)
      BY <1>0, <2>1 DEF TypeOK
    <3>2. log \in [Streams -> Seq(LogEvents)]
      BY DEF TypeOK
    <3>. QED BY <2>2, <3>1, <3>2
  <2>4. UNCHANGED <<reg, stamp, activating, ck, progress, records, bodies, barred, stopped,
                    unavailable, up, approved, admitting, page, work>>
    BY <1>1 DEF Happen, registry, durable, failed, process
  <2>5. c \in Chats /\ Stream(c) \in Streams
    BY <1>0
  <2>. QED BY <2>1, <2>3, <2>4 DEF TypeOK
<1>2. CASE Pause(c)
  <2>. QED BY <1>0, <1>2, PauseDoes DEF TypeOK
<1>3. CASE Refuse(c)
  <2>. QED BY <1>0, <1>3, RefuseDoes DEF TypeOK
<1>4. CASE ReadClock(c)
  <2>1. UNCHANGED <<log, reg, activating, ck, progress, records, bodies, barred, stopped,
                    unavailable, up, approved, admitting, page, work>>
    BY <1>4 DEF ReadClock, durable, failed, process
  <2>2. now + 1 \in Nat
    BY DEF TypeOK
  <2>3. now' \in Nat /\ stamp' \in [Chats -> Nat]
    BY <1>4, <2>2 DEF ReadClock, TypeOK
  <2>. QED BY <2>1, <2>3 DEF TypeOK
<1>5. CASE Enable(c)
  <2>. QED BY <1>0, <1>5, EnableDoes DEF TypeOK
<1>6. CASE Resolve(c)
  <2>. QED BY <1>0, <1>6, ResolveDoes DEF TypeOK
<1>7. CASE Activate(c)
  BY <1>0, <1>7 DEF Activate, TypeOK, Idle, telegram, durable, failed
<1>8. ASSUME NEW m \in Messages, Tombstone(c, m) PROVE TypeOK'
  BY <1>0, <1>8 DEF Tombstone, TypeOK, telegram, registry, durable, failed, process
<1>9. CASE Seed(c)
  <2>. QED BY <1>0, <1>9, SeedDoes DEF TypeOK
<1>. QED BY <1>1, <1>2, <1>3, <1>4, <1>5, <1>6, <1>7, <1>8, <1>9

LEMMA StopTypes ==
    ASSUME IngestionInv,
           \/ \E x \in Chats \cup {Account, Role} : ProviderFails(x)
           \/ \E c \in Chats : StopUnavailable(c) \/ StopUnapproved(c)
           \/ Recover \/ End \/ Start \/ Bootstrap
    PROVE  TypeOK'
<1>. USE DEF IngestionInv
<1>0. \A c \in Chats : Stream(c) \in Streams /\ (c \in Channels => c \in Streams)
  BY StreamTyped DEF Streams
<1>1. ASSUME NEW x \in Chats \cup {Account, Role}, ProviderFails(x) PROVE TypeOK'
  BY <1>1 DEF ProviderFails, Stop, TypeOK, telegram, registry, durable, process
<1>2. ASSUME NEW c \in Chats, StopUnavailable(c) PROVE TypeOK'
  BY <1>2 DEF StopUnavailable, Stop, TypeOK, telegram, registry, durable, process
<1>3. ASSUME NEW c \in Chats, StopUnapproved(c) PROVE TypeOK'
  BY <1>3 DEF StopUnapproved, Stop, Stream, TypeOK, telegram, registry, durable, process
<1>4. CASE Recover
  BY <1>4 DEF Recover, TypeOK, telegram, registry, durable, process
<1>5. CASE End
  <2>1. NoEvent \in Results
    BY DEF NoEvent, Results, Kinds, Streams, NoChat
  <2>. QED BY <1>5, <2>1 DEF End, Down, NoWork, Works, TypeOK, telegram, registry, durable, failed
<1>6. CASE Start
  BY <1>6 DEF Start, TypeOK, telegram, registry, durable, failed
<1>7. CASE Bootstrap
  <2>1. \A s \in Streams : ck[s] = Unset => s \in Channels /\ reg[s].boundary \in Nat
    BY DEF TypeOK, Streams, Chats, Entries
  <2>2. ck' \in [Streams -> Nat \cup {Unset}] /\ ck'[Account] # Unset
    BY <1>7, <2>1 DEF Bootstrap, TypeOK, Streams
  <2>3. progress' \in [Chats -> [begun : BOOLEAN, cursor : Messages \cup {0},
                               completed : BOOLEAN]]
    BY <1>7 DEF Bootstrap, TypeOK
  <2>. QED BY <1>7, <2>2, <2>3 DEF Bootstrap, TypeOK, telegram, registry, failed, process
<1>. QED BY <1>1, <1>2, <1>3, <1>4, <1>5, <1>6, <1>7

LEMMA ReadTypes ==
    ASSUME IngestionInv,
           \/ \E s \in Streams : Difference(s)
           \/ \E c \in Chats : History(c)
    PROVE  TypeOK'
<1>. USE DEF IngestionInv
<1>0. NoEvent \in Results /\ NoWork \in Works
  BY DEF NoEvent, Results, Kinds, Streams, NoChat, NoWork, Works
<1>1. ASSUME NEW s \in Streams, Difference(s) PROVE TypeOK'
  <2>1. ck[s] # Unset /\ Current(s) # {}
    BY <1>1 DEF Difference
  <2>2. Current(s) \in SUBSET Results /\ First(Current(s)) \in Results
    BY <2>1, CurrentTyped
  <2>3. page' \in [Streams -> SUBSET Results]
    BY <1>1, <2>2 DEF Difference, TypeOK
  <2>4. work' \in Works
    BY <1>0, <1>1, <2>2 DEF Difference, Decide, Works
  <2>5. up' /\ up
    BY <1>1 DEF Difference, Idle
  <2>. QED BY <1>1, <2>3, <2>4, <2>5
       DEF Difference, TypeOK, telegram, registry, durable, failed
<1>2. ASSUME NEW c \in Chats, History(c) PROVE TypeOK'
  <2>1. [NoEvent EXCEPT !.chat = c] \in Results
    BY DEF NoEvent, Results, Kinds, Streams, NoChat
  <2>2. Window(c) # {} => HistoryResult(c, Min(Window(c))) \in Results
    <3>. SUFFICES ASSUME Window(c) # {} PROVE HistoryResult(c, Min(Window(c))) \in Results
      OBVIOUS
    <3>. DEFINE h == HistoryResult(c, Min(Window(c)))
    <3>1. /\ h.stream = Stream(c) /\ h.chat = c /\ h.msg \in Messages
          /\ h.kind \in {"create", "edit"} /\ h.at \in Nat
          /\ h.index = 0 /\ h.pending = FALSE /\ h.from = ck[Stream(c)] /\ h.to = ck[Stream(c)]
      BY HistoryTyped
    <3>2. ck[Stream(c)] \in Nat /\ Stream(c) \in Streams
      BY <1>2, StreamTyped DEF History, HistoryOpen, TypeOK
    <3>. DEFINE R(k, a) == [NoEvent EXCEPT !.stream = Stream(c), !.chat = c,
                                           !.msg = Min(Window(c)), !.kind = k, !.at = a,
                                           !.from = ck[Stream(c)], !.to = ck[Stream(c)]]
    <3>3. h = R(h.kind, h.at)
      BY DEF HistoryResult, NoEvent
    <3>4. h.msg = Min(Window(c))
      BY DEF HistoryResult, NoEvent
    <3>5. \A k \in {"create", "edit"}, a \in Nat : R(k, a) \in Results
      BY <3>1, <3>2, <3>4 DEF Results, Kinds, NoEvent
    <3>. HIDE DEF h, R
    <3>. QED BY <3>1, <3>3, <3>5 DEF h
  <2>3. work' \in Works
    BY <1>2, <2>1, <2>2 DEF History, Works
  <2>4. up' /\ up
    BY <1>2 DEF History, Idle
  <2>5. progress' \in [Chats -> [begun : BOOLEAN, cursor : Messages \cup {0},
                                completed : BOOLEAN]]
    <3>1. progress' = [progress EXCEPT ![c].begun = TRUE]
      BY Zenon, <1>2 DEF History
    <3>2. progress \in [Chats -> [begun : BOOLEAN, cursor : Messages \cup {0},
                                 completed : BOOLEAN]]
      BY DEF TypeOK
    <3>. QED BY <3>1, <3>2
  <2>6. UNCHANGED <<now, log, reg, stamp, activating, ck, records, bodies, barred, stopped,
                    unavailable, up, approved, admitting, page>>
    BY <1>2 DEF History, telegram, registry, failed
  <2>. HIDE DEF History
  <2>. QED BY <2>3, <2>4, <2>5, <2>6 DEF TypeOK
<1>. QED BY <1>1, <1>2
LEMMA MoveTypes ==
    ASSUME IngestionInv, NEW e \in Results, Move(e)
    PROVE  ck' \in [Streams -> Nat \cup {Unset}] /\ ck'[Account] # Unset
BY DEF IngestionInv, TypeOK, Move, Results, Unset

LEMMA RecordTypes ==
    ASSUME IngestionInv, NEW e \in Results, e.chat \in Chats, e.msg \in Messages, Record(e)
    PROVE  records' \subseteq LogEvents /\ bodies' \subseteq records'
<1>1. Key(e) \in LogEvents
  BY DEF Key, LogEvents, Results, Kinds
<1>. QED BY <1>1 DEF IngestionInv, TypeOK, Record

(* A transaction leaves the page shorter, or ends the process.             *)
LEMMA ProcessTypes ==
    ASSUME IngestionInv, NEW e \in Results,
           Acknowledge(e) \/ Down \/ Leave, work # NoWork
    PROVE  /\ page' \in [Streams -> SUBSET Results] /\ work' \in Works
           /\ approved' \subseteq Chats /\ admitting' \subseteq Chats
           /\ ~up' => /\ approved' = {} /\ admitting' = {} /\ work' = NoWork
                      /\ \A s \in Streams : page'[s] = {}
<1>0. NoWork \in Works
  BY DEF NoEvent, Results, Kinds, Streams, NoChat, NoWork, Works
<1>1. up
  BY DEF IngestionInv, TypeOK
<1>2. CASE Acknowledge(e)
  BY <1>0, <1>1, <1>2 DEF IngestionInv, TypeOK, Acknowledge, Results
<1>3. CASE Down
  BY <1>0, <1>1, <1>3 DEF Down
<1>4. CASE Leave
  BY <1>0, <1>1, <1>4 DEF IngestionInv, TypeOK, Leave
<1>. QED BY <1>2, <1>3, <1>4

\* A replayed edit takes a history's progress back to an earlier cursor of the same shape.
LEMMA TurnTypes ==
  ASSUME NEW n \in Messages \cup {0},
         NEW p \in [begun : BOOLEAN, cursor : Messages \cup {0}, completed : BOOLEAN]
  PROVE  [p EXCEPT !.cursor = n, !.completed = FALSE]
           \in [begun : BOOLEAN, cursor : Messages \cup {0}, completed : BOOLEAN]
  OBVIOUS

LEMMA TransactionTypes ==
    ASSUME IngestionInv, Transaction
    PROVE  TypeOK'
<1>. DEFINE e == work.event
<1>0. e \in Results /\ ck \in [Streams -> Nat \cup {Unset}] /\ ck[Account] # Unset
  BY DEF IngestionInv, TypeOK, Works
<1>1. work.op # "none" => work # NoWork
  BY DEF NoWork
<1>2. work.op = "commit" => e.chat \in Chats /\ e.msg \in Messages
  <2>1. SUFFICES ASSUME work.op = "commit" PROVE e.chat \in Chats /\ e.msg \in Messages
    OBVIOUS
  <2>2. e.stream \in Streams /\ e \in page[e.stream] /\ e.chat # NoChat
    BY <1>0, <2>1 DEF IngestionInv, WorkFits, Results
  <2>3. e.index \in DOMAIN log[e.stream] /\ Same(log[e.stream][e.index], e)
    BY <2>2 DEF IngestionInv, PageShape
  <2>4. log[e.stream][e.index] \in LogEvents
    BY <2>2, <2>3, LogTyped DEF IngestionInv
  <2>. QED BY <2>3, <2>4 DEF Same, LogEvents
<1>3. CASE Commit
  <2>1. UNCHANGED <<now, log, reg, stamp, activating, progress, barred, stopped, unavailable>>
    BY <1>3 DEF Commit, telegram, registry, failed
  <2>2. work # NoWork /\ work.op = "commit"
    BY <1>1, <1>3 DEF Commit
  <2>3. Acknowledge(e) \/ Down \/ Leave
    BY <1>3 DEF Commit
  <2>4. ck' \in [Streams -> Nat \cup {Unset}] /\ ck'[Account] # Unset
    BY <1>0, <1>3, MoveTypes DEF Commit
  <2>5. records' \subseteq LogEvents /\ bodies' \subseteq records'
    <3>1. Record(e) \/ UNCHANGED <<records, bodies>>
      BY <1>3 DEF Commit
    <3>2. CASE UNCHANGED <<records, bodies>>
      BY <3>2 DEF IngestionInv, TypeOK
    <3>. QED BY <3>1, <3>2, <1>0, <1>2, <2>2, RecordTypes
  <2>6. /\ page' \in [Streams -> SUBSET Results] /\ work' \in Works
        /\ approved' \subseteq Chats /\ admitting' \subseteq Chats
        /\ ~up' => /\ approved' = {} /\ admitting' = {} /\ work' = NoWork
                   /\ \A s \in Streams : page'[s] = {}
    <3>. HIDE DEF e
    <3>. QED BY <1>0, <2>2, <2>3, ProcessTypes
  <2>. QED BY <2>1, <2>4, <2>5, <2>6 DEF IngestionInv, TypeOK
<1>4. CASE Pass
  <2>1. UNCHANGED <<now, log, reg, stamp, activating, progress, records, bodies, barred, stopped,
                    unavailable>>
    BY <1>4 DEF Pass, telegram, registry, failed
  <2>2. work # NoWork
    BY <1>1, <1>4 DEF Pass
  <2>3. Acknowledge(e) \/ Down \/ Leave
    BY <1>4 DEF Pass
  <2>4. ck' \in [Streams -> Nat \cup {Unset}] /\ ck'[Account] # Unset
    BY <1>0, <1>4, MoveTypes DEF Pass
  <2>6. /\ page' \in [Streams -> SUBSET Results] /\ work' \in Works
        /\ approved' \subseteq Chats /\ admitting' \subseteq Chats
        /\ ~up' => /\ approved' = {} /\ admitting' = {} /\ work' = NoWork
                   /\ \A s \in Streams : page'[s] = {}
    <3>. HIDE DEF e
    <3>. QED BY <1>0, <2>2, <2>3, ProcessTypes
  <2>. QED BY <2>1, <2>4, <2>6 DEF IngestionInv, TypeOK
<1>5. CASE CommitHistory
  <2>1. UNCHANGED <<now, log, reg, stamp, activating, ck, barred, stopped, unavailable>>
    BY <1>5 DEF CommitHistory, telegram, registry, failed
  <2>2. work # NoWork /\ work.op \in {"history", "skip"}
    BY <1>1, <1>5 DEF CommitHistory
  <2>3. Acknowledge(e) \/ Down \/ Leave
    BY <1>5 DEF CommitHistory
  <2>4. e.chat \in Chats /\ e.msg \in Messages
    BY <2>2 DEF IngestionInv, WorkFits
  <2>5. records' \subseteq LogEvents /\ bodies' \subseteq records'
    <3>1. Record(e) \/ UNCHANGED <<records, bodies>>
      BY <1>5 DEF CommitHistory
    <3>2. CASE UNCHANGED <<records, bodies>>
      BY <3>2 DEF IngestionInv, TypeOK
    <3>. QED BY <3>1, <3>2, <1>0, <2>4, RecordTypes
  <2>6. /\ page' \in [Streams -> SUBSET Results] /\ work' \in Works
        /\ approved' \subseteq Chats /\ admitting' \subseteq Chats
        /\ ~up' => /\ approved' = {} /\ admitting' = {} /\ work' = NoWork
                   /\ \A s \in Streams : page'[s] = {}
    <3>. HIDE DEF e
    <3>. QED BY <1>0, <2>2, <2>3, ProcessTypes
  <2>7. progress' \in [Chats -> [begun : BOOLEAN, cursor : Messages \cup {0},
                               completed : BOOLEAN]]
    <3>1. progress \in [Chats -> [begun : BOOLEAN, cursor : Messages \cup {0},
                               completed : BOOLEAN]]
      BY DEF IngestionInv, TypeOK
    <3>2. Turn(e) \/ UNCHANGED progress
      BY <1>5 DEF CommitHistory
    <3>. DEFINE cursor == progress[e.chat].cursor
                S == {cursor, e.msg}
    <3>3. cursor \in Messages \cup {0}
      BY <3>1, <2>4
    <3>4. Max(S) \in S
      <4>. HIDE DEF cursor, e
      <4>. QED BY <2>4, <3>3, MaxOfTwo
    <3>5. Max(S) \in Messages \cup {0}
      BY <2>4, <3>3, <3>4
    <3>6. CASE Turn(e)
      <4>. DEFINE x == [progress[e.chat] EXCEPT !.cursor = Max(S), !.completed = FALSE]
      <4>1. progress' = [progress EXCEPT ![e.chat] = x]
        BY <3>6 DEF Turn
      <4>2. x \in [begun : BOOLEAN, cursor : Messages \cup {0}, completed : BOOLEAN]
        <5>1. progress[e.chat] \in [begun : BOOLEAN, cursor : Messages \cup {0},
                                    completed : BOOLEAN]
          BY <3>1, <2>4
        <5>. HIDE DEF S, cursor, e
        <5>. QED BY <3>5, <5>1, TurnTypes
      <4>. DEFINE T == [begun : BOOLEAN, cursor : Messages \cup {0}, completed : BOOLEAN]
      <4>3. x \in T /\ progress \in [Chats -> T]
        BY <3>1, <4>2
      <4>. HIDE DEF x, S, T, e
      <4>4. progress' \in [Chats -> T]
        BY <4>1, <4>3
      <4>. QED BY <4>4 DEF T
    <3>. QED BY <3>1, <3>2, <3>6
  <2>. QED BY <2>1, <2>5, <2>6, <2>7 DEF IngestionInv, TypeOK
<1>6. CASE CompleteHistory
  <2>1. UNCHANGED <<now, log, reg, stamp, activating, ck, records, bodies, barred, stopped,
                    unavailable>>
    BY <1>6 DEF CompleteHistory, telegram, registry, failed
  <2>2. work # NoWork /\ Leave
    BY <1>1, <1>6 DEF CompleteHistory
  <2>6. /\ page' \in [Streams -> SUBSET Results] /\ work' \in Works
        /\ approved' \subseteq Chats /\ admitting' \subseteq Chats
        /\ ~up' => /\ approved' = {} /\ admitting' = {} /\ work' = NoWork
                   /\ \A s \in Streams : page'[s] = {}
    BY <1>0, <2>2, ProcessTypes
  <2>7. progress' \in [Chats -> [begun : BOOLEAN, cursor : Messages \cup {0},
                               completed : BOOLEAN]]
    <3>1. progress' = [progress EXCEPT ![work.event.chat].completed = TRUE]
      BY Zenon, <1>6 DEF CompleteHistory
    <3>2. progress \in [Chats -> [begun : BOOLEAN, cursor : Messages \cup {0},
                               completed : BOOLEAN]]
      BY DEF IngestionInv, TypeOK
    <3>. QED BY <3>1, <3>2
  <2>. QED BY <2>1, <2>6, <2>7 DEF IngestionInv, TypeOK
<1>. QED BY <1>3, <1>4, <1>5, <1>6 DEF Transaction
-----------------------------------------------------------------------------
(* The invariant but for the types; what a step leaves alone it keeps.     *)
Fits == /\ LogFits /\ RegFits /\ CkFits /\ RecordFits
        /\ PageShape /\ PageClosed /\ PageHandled
        /\ WorkFits /\ HistoryFits /\ PassedKept /\ DeletedSettled

LEMMA LogFrame ==
    ASSUME LogFits, TypeOK, log' = log, now' \in Nat, now <= now'
    PROVE  LogFits'
<1>1. \A s \in Streams : \A i \in DOMAIN log[s] : log[s][i].at \in Nat
  BY LogTyped DEF LogEvents
<1>2. now \in Nat
  BY DEF TypeOK
<1>. QED BY <1>1, <1>2 DEF LogFits

LEMMA RegFrame ==
    ASSUME RegFits, UNCHANGED <<now, log, reg, stamp>>
    PROVE  RegFits'
BY DEF RegFits, Admitted, Enabled

LEMMA CkFrame == ASSUME CkFits, UNCHANGED <<log, ck>> PROVE CkFits'
BY DEF CkFits

LEMMA RecordFrame ==
    ASSUME RecordFits, UNCHANGED <<now, log, reg, records>>
    PROVE  RecordFits'
BY DEF RecordFits, Admitted

LEMMA PageFrame ==
    ASSUME PageShape, PageClosed, PageHandled,
           UNCHANGED <<log, reg, ck, records, barred, page, up>>
    PROVE  PageShape' /\ PageClosed' /\ PageHandled'
<1>1. \A s : Indices(s)' = Indices(s)
  BY DEF Indices
<1>2. PageShape'
  BY DEF PageShape, Admitted, Enabled
<1>3. PageClosed'
  BY <1>1 DEF PageClosed
<1>4. PageHandled'
  BY <1>1 DEF PageHandled, Settled, Unheard, Rejected, Horizon, Admitted, Enabled, Of
<1>. QED BY <1>2, <1>3, <1>4

LEMMA NoPage ==
    ASSUME \A s \in Streams : page'[s] = {}
    PROVE  PageShape' /\ PageClosed' /\ PageHandled'
BY DEF PageShape, PageClosed, PageHandled

LEMMA WorkFrame == ASSUME WorkFits, UNCHANGED <<work, page, up>> PROVE WorkFits'
BY DEF WorkFits

LEMMA NoWorkFits == ASSUME work' = NoWork PROVE WorkFits' /\ HistoryFits'
BY DEF WorkFits, HistoryFits, NoWork

LEMMA HistoryFrame ==
    ASSUME HistoryFits, UNCHANGED <<log, reg, ck, records, page, work>>
    PROVE  HistoryFits'
BY DEF HistoryFits, Admitted, Enabled, Of, Seen

LEMMA PassedFrame ==
    ASSUME PassedKept, UNCHANGED <<log, reg, ck, records, barred, page>>
    PROVE  PassedKept'
<1>1. \A s : Indices(s)' = Indices(s)
  BY DEF Indices
<1>. QED BY <1>1 DEF PassedKept, Passed, Kept, Of, Barred, Enabled

(* A page that is dropped has passed nothing.                              *)
LEMMA PassedFewer ==
    ASSUME PassedKept, UNCHANGED <<log, reg, ck, records, barred>>,
           \A s \in Streams : page'[s] = {} \/ page'[s] = page[s]
    PROVE  PassedKept'
<1>1. \A s \in Streams : page'[s] = page[s] => Indices(s)' = Indices(s)
  BY DEF Indices
<1>2. \A s \in Streams : \A i : Passed(s, i)' => Passed(s, i)
  BY <1>1 DEF Passed
<1>. QED BY <1>2, StreamTyped DEF PassedKept, Kept, Of, Barred, Enabled

LEMMA DeletedFrame ==
    ASSUME DeletedSettled, UNCHANGED <<log, reg, ck, records, barred>>
    PROVE  DeletedSettled'
BY DEF DeletedSettled, Settled, Rejected, Horizon, Admitted, Enabled
-----------------------------------------------------------------------------
(* Steps that change neither the registry nor what is recorded.            *)
LEMMA QuietStep ==
    ASSUME IngestionInv,
           \/ \E x \in Chats \cup {Account, Role} : ProviderFails(x)
           \/ \E c \in Chats : StopUnavailable(c) \/ StopUnapproved(c) \/ Activate(c)
           \/ Recover \/ End \/ Start
    PROVE  Fits'
<1>1. /\ UNCHANGED <<now, log, reg, stamp, ck, records, bodies, barred>>
      /\ \/ UNCHANGED <<page, work, up>>
         \/ UNCHANGED <<page, work>> /\ ~up
         \/ work' = NoWork /\ page' = [s \in Streams |-> {}]
  <2>1. ASSUME NEW c \in Chats, Activate(c)
        PROVE  /\ UNCHANGED <<now, log, reg, stamp, ck, records, bodies, barred>>
               /\ \/ UNCHANGED <<page, work, up>>
                  \/ work' = NoWork /\ page' = [s \in Streams |-> {}]
    BY <2>1 DEF Activate, Idle, telegram, durable
  <2>. QED BY <2>1 DEF ProviderFails, StopUnavailable, StopUnapproved, Recover, End, Down,
              Start, telegram, registry, durable, process
<1>2. ~up => work = NoWork /\ \A s \in Streams : page[s] = {}
  BY DEF IngestionInv, TypeOK
<1>3. LogFits' /\ RegFits' /\ CkFits' /\ RecordFits' /\ DeletedSettled'
  <2>1. now' \in Nat /\ now <= now'
    BY <1>1 DEF IngestionInv, TypeOK
  <2>. QED BY <1>1, <2>1, LogFrame, RegFrame, CkFrame, RecordFrame, DeletedFrame DEF IngestionInv
<1>4. CASE UNCHANGED <<page, work, up>>
  BY <1>1, <1>3, <1>4, PageFrame, WorkFrame, HistoryFrame, PassedFrame DEF IngestionInv, Fits
<1>5. CASE UNCHANGED <<page, work>> /\ ~up
  BY <1>1, <1>2, <1>3, <1>5, NoPage, NoWorkFits, PassedFrame DEF IngestionInv, Fits
<1>6. CASE work' = NoWork /\ page' = [s \in Streams |-> {}]
  BY <1>1, <1>3, <1>6, NoPage, NoWorkFits, PassedFewer DEF IngestionInv, Fits
<1>. QED BY <1>1, <1>4, <1>5, <1>6

LEMMA TombstoneStep ==
    ASSUME IngestionInv, NEW c \in Chats, NEW m \in Messages, Tombstone(c, m)
    PROVE  Fits'
<1>1. /\ UNCHANGED <<now, log, reg, stamp, ck, records, bodies, page, work, up>>
      /\ barred \subseteq barred'
  BY DEF Tombstone, telegram, registry, durable, process
<1>2. LogFits' /\ RegFits' /\ CkFits' /\ RecordFits' /\ WorkFits' /\ HistoryFits'
  <2>1. now' \in Nat /\ now <= now'
    BY <1>1 DEF IngestionInv, TypeOK
  <2>. QED BY <1>1, <2>1, LogFrame, RegFrame, CkFrame, RecordFrame, WorkFrame, HistoryFrame
           DEF IngestionInv
<1>3. \A s : Indices(s)' = Indices(s)
  BY <1>1 DEF Indices
<1>4. \A d, i : Settled(d, i) => Settled(d, i)'
  BY <1>1 DEF Settled, Rejected, Horizon, Admitted, Enabled
<1>5. \A d, i : Unheard(d, i) => Unheard(d, i)'
  BY <1>1 DEF Unheard, Of
<1>6. PageShape'
  BY <1>1 DEF IngestionInv, PageShape, Admitted, Enabled
<1>7. PageClosed'
  BY <1>1, <1>3 DEF IngestionInv, PageClosed
<1>8. PageHandled'
  BY <1>1, <1>3, <1>4, <1>5 DEF IngestionInv, PageHandled
<1>9. DeletedSettled'
  BY <1>1, <1>4 DEF IngestionInv, DeletedSettled
<1>10. PassedKept'
  BY <1>1, <1>3 DEF IngestionInv, PassedKept, Passed, Kept, Of, Barred, Enabled
<1>. QED BY <1>2, <1>6, <1>7, <1>8, <1>9, <1>10 DEF Fits
-----------------------------------------------------------------------------
(* Steps of the registry.  An admitted chat stays admitted, its horizon    *)
(* moves on, and whoever is enabled again was paused in between.           *)
RegMoves(c) ==
    /\ UNCHANGED <<now, log, records, bodies, barred, page, work, up>>
    /\ reg' \in [Chats -> Entries]
    /\ \A s \in Streams :
           ck'[s] # ck[s] => /\ s = c /\ c \in Channels /\ ck'[s] = Len(log[s])
                            /\ reg[c].state = "unknown" /\ reg'[c].state = "resolved"
                            /\ work = NoWork
    /\ \A d \in Chats : d # c => reg'[d] = reg[d]
    /\ Admitted(c) => /\ Admitted(c)'
                      /\ reg'[c].boundary = reg[c].boundary
                      /\ Horizon(c) <= Horizon(c)'
                      /\ ~(Enabled(c)' /\ ~reg'[c].resumed)
    /\ Enabled(c)' => reg'[c].enabledAt = now
    /\ reg'[c].state = "paused" => reg'[c].pausedAt = now

LEMMA RegTyped ==
    ASSUME TypeOK, NEW c \in Chats
    PROVE  /\ reg[c].boundary \in Nat /\ reg[c].started \in Nat /\ reg[c].resumed \in BOOLEAN
           /\ reg[c].enabledAt \in Nat /\ reg[c].pausedAt \in Nat /\ stamp[c] \in Nat
           /\ reg[c].state \in {"unknown", "resolved", "enabled", "paused"}
           /\ now \in Nat
BY DEF TypeOK, Entries

LEMMA RegistryMoves ==
    ASSUME IngestionInv, NEW c \in Chats, Enable(c) \/ Pause(c) \/ Refuse(c) \/ Resolve(c) \/ Seed(c)
    PROVE  RegMoves(c)
<1>0. TypeOK /\ RegFits
  BY DEF IngestionInv
<1>1. CASE Enable(c)
  <2>1. stamp[c] # 0 => reg[c].state \in {"resolved", "paused"}
    BY <1>0 DEF RegFits
  <2>2. reg[c].state = "paused" /\ stamp[c] # 0 => reg[c].pausedAt < stamp[c]
    BY <1>0 DEF RegFits
  <2>3. stamp[c] # 0 /\ reg[c].state \in {"resolved", "paused"}
    BY <1>0, <1>1, <2>1, EnableDoes
  <2>4. Admitted(c) => reg[c].state = "paused"
    BY <2>3 DEF Admitted
  <2>5. Admitted(c)' /\ Enabled(c)' /\ reg'[c].state # "paused"
    BY <1>0, <1>1, EnableDoes DEF Admitted, Enabled
  <2>6. reg[c].state = "paused" => Horizon(c) <= Horizon(c)' /\ reg'[c].resumed
    <3>1. reg'[c].started = stamp[c] /\ (reg[c].state = "paused" => reg'[c].resumed = TRUE)
      BY <1>0, <1>1, EnableDoes
    <3>. QED BY <1>0, <2>2, <2>3, <2>5, <3>1, RegTyped DEF Horizon, Enabled
  <2>7. /\ reg' \in [Chats -> Entries] /\ reg'[c].enabledAt = now
        /\ reg'[c].boundary = reg[c].boundary
        /\ \A d \in Chats : d # c => reg'[d] = reg[d]
        /\ UNCHANGED <<now, log, ck, records, bodies, barred, page, work, up>>
    BY <1>0, <1>1, EnableDoes
  <2>. QED BY <2>4, <2>5, <2>6, <2>7 DEF RegMoves
<1>2. CASE Pause(c)
  <2>1. reg[c].state = "enabled" => reg[c].started <= now
    BY <1>0, RegTyped DEF RegFits, Admitted
  <2>. QED BY <1>0, <1>2, <2>1, PauseDoes, RegTyped DEF RegMoves, Admitted, Enabled, Horizon
<1>3. CASE Refuse(c)
  BY <1>0, <1>3, RefuseDoes, RegTyped DEF RegMoves, Admitted, Enabled, Horizon
<1>4. CASE Resolve(c)
  BY <1>0, <1>4, ResolveDoes, RegTyped DEF RegMoves, Admitted, Enabled, Horizon
<1>5. CASE Seed(c)
  BY <1>0, <1>5, SeedDoes, RegTyped DEF RegMoves, Admitted, Enabled, Horizon
<1>. QED BY <1>1, <1>2, <1>3, <1>4, <1>5

LEMMA RejectedStays ==
    ASSUME IngestionInv, NEW c \in Chats, RegMoves(c), NEW d \in Chats,
           NEW i \in DOMAIN log[Stream(d)]
    PROVE  Rejected(d, i) => Rejected(d, i)'
<1>1. log[Stream(d)][i].at \in Nat /\ log' = log
  BY StreamTyped, LogTyped DEF IngestionInv, LogEvents, RegMoves
<1>2. CASE d # c
  BY <1>1, <1>2 DEF RegMoves, Rejected, Admitted, Enabled, Horizon
<1>3. CASE d = c
  <2>1. Horizon(c) \in Nat /\ Horizon(c)' \in Nat
    BY RegTyped DEF RegMoves, Horizon, IngestionInv, Entries
  <2>. QED BY <1>1, <1>3, <2>1 DEF RegMoves, Rejected
<1>. QED BY <1>2, <1>3

LEMMA SettledStays ==
    ASSUME IngestionInv, NEW c \in Chats, RegMoves(c), NEW d \in Chats,
           NEW i \in DOMAIN log[Stream(d)]
    PROVE  Settled(d, i) => Settled(d, i)'
<1>1. UNCHANGED <<log, records, barred>>
  BY DEF RegMoves
<1>2. Key(log[Stream(d)][i])' = Key(log[Stream(d)][i])
  BY <1>1 DEF Key
<1>. QED BY <1>1, <1>2, RejectedStays DEF Settled

LEMMA RegistryFits ==
    ASSUME IngestionInv, NEW c \in Chats, Enable(c) \/ Pause(c) \/ Refuse(c) \/ Resolve(c) \/ Seed(c)
    PROVE  RegFits'
<1>0. /\ TypeOK /\ RegFits /\ LogFits
      /\ Stream(c) \in Streams
      /\ \A i \in DOMAIN log[Stream(c)] : log[Stream(c)][i].at <= now
  BY StreamTyped DEF IngestionInv, LogFits
<1>1. /\ Len(log[Stream(c)]) \in Nat /\ DOMAIN log[Stream(c)] = 1..Len(log[Stream(c)])
      /\ \A i \in DOMAIN log[Stream(c)] : log[Stream(c)][i].at \in Nat
  BY <1>0, LogTyped DEF LogEvents
<1>2. /\ now' = now /\ log' = log /\ now \in Nat
      /\ \A d \in Chats : d # c => reg'[d] = reg[d] /\ stamp'[d] = stamp[d]
  <2>1. now \in Nat
    BY <1>0 DEF TypeOK
  <2>2. CASE Enable(c)
    BY Zenon, <1>0, <2>1, <2>2, EnableDoes
  <2>3. CASE Pause(c)
    BY Zenon, <1>0, <2>1, <2>3, PauseDoes
  <2>4. CASE Refuse(c)
    BY Zenon, <1>0, <2>1, <2>4, RefuseDoes
  <2>5. CASE Resolve(c)
    BY Zenon, <1>0, <2>1, <2>5, ResolveDoes
  <2>6. CASE Seed(c)
    BY Zenon, <1>0, <2>1, <2>6, SeedDoes
  <2>. QED BY <2>2, <2>3, <2>4, <2>5, <2>6
<1>3. ASSUME NEW d \in Chats, d # c
      PROVE  /\ reg'[d].state # "unknown" => reg'[d].boundary <= Len(log'[Stream(d)])
             /\ stamp'[d] <= now'
             /\ stamp'[d] # 0 =>
                    /\ reg'[d].state \in {"resolved", "paused"}
                    /\ \A i \in 1..reg'[d].boundary : log'[Stream(d)][i].at < stamp'[d]
                    /\ reg'[d].state = "paused" => reg'[d].pausedAt < stamp'[d]
             /\ Admitted(d)' =>
                    /\ \A i \in 1..reg'[d].boundary : log'[Stream(d)][i].at < reg'[d].started
                    /\ reg'[d].started <= reg'[d].enabledAt /\ reg'[d].enabledAt <= now'
             /\ reg'[d].state = "paused" =>
                    reg'[d].enabledAt <= reg'[d].pausedAt /\ reg'[d].pausedAt <= now'
             /\ Enabled(d)' /\ reg'[d].resumed => reg'[d].pausedAt < reg'[d].started
  BY <1>0, <1>2, <1>3 DEF RegFits, Admitted, Enabled
<1>4. /\ reg'[c].state # "unknown" => reg'[c].boundary <= Len(log'[Stream(c)])
      /\ stamp'[c] <= now'
      /\ stamp'[c] # 0 =>
             /\ reg'[c].state \in {"resolved", "paused"}
             /\ \A i \in 1..reg'[c].boundary : log'[Stream(c)][i].at < stamp'[c]
             /\ reg'[c].state = "paused" => reg'[c].pausedAt < stamp'[c]
      /\ Admitted(c)' =>
             /\ \A i \in 1..reg'[c].boundary : log'[Stream(c)][i].at < reg'[c].started
             /\ reg'[c].started <= reg'[c].enabledAt /\ reg'[c].enabledAt <= now'
      /\ reg'[c].state = "paused" =>
             reg'[c].enabledAt <= reg'[c].pausedAt /\ reg'[c].pausedAt <= now'
      /\ Enabled(c)' /\ reg'[c].resumed => reg'[c].pausedAt < reg'[c].started
  <2>0. /\ reg[c].state # "unknown" => reg[c].boundary <= Len(log[Stream(c)])
        /\ stamp[c] <= now
        /\ stamp[c] # 0 =>
               /\ reg[c].state \in {"resolved", "paused"}
               /\ \A i \in 1..reg[c].boundary : log[Stream(c)][i].at < stamp[c]
               /\ reg[c].state = "paused" => reg[c].pausedAt < stamp[c]
        /\ Admitted(c) =>
               /\ \A i \in 1..reg[c].boundary : log[Stream(c)][i].at < reg[c].started
               /\ reg[c].started <= reg[c].enabledAt /\ reg[c].enabledAt <= now
        /\ reg[c].state = "paused" =>
               reg[c].enabledAt <= reg[c].pausedAt /\ reg[c].pausedAt <= now
    BY <1>0 DEF RegFits
  <2>1. CASE Enable(c)
    <3>1. /\ reg'[c].state = "enabled" /\ reg'[c].started = stamp[c] /\ reg'[c].enabledAt = now
          /\ reg'[c].boundary = reg[c].boundary /\ reg'[c].pausedAt = reg[c].pausedAt
          /\ reg[c].state # "paused" => reg'[c].resumed = FALSE
          /\ stamp[c] # 0 /\ stamp'[c] = 0
      BY <1>0, <2>1, EnableDoes
    <3>. QED BY <1>2, <2>0, <3>1 DEF Admitted, Enabled
  <2>2. CASE Pause(c)
    <3>1. stamp[c] = 0
      BY <1>0, <2>0, <2>2, PauseDoes
    <3>. QED BY <1>0, <1>2, <2>0, <2>2, <3>1, PauseDoes, RegTyped DEF Admitted, Enabled
  <2>3. CASE Refuse(c)
    BY <1>0, <1>2, <2>0, <2>3, RefuseDoes, RegTyped DEF Admitted, Enabled
  <2>4. CASE Resolve(c)
    <3>1. stamp[c] = 0
      BY <1>0, <2>0, <2>4, ResolveDoes
    <3>. QED BY <1>0, <1>1, <1>2, <2>0, <2>4, <3>1, ResolveDoes, RegTyped DEF Admitted, Enabled
  <2>5. CASE Seed(c)
    <3>1. stamp[c] = 0
      BY <1>0, <2>0, <2>5, SeedDoes
    <3>. QED BY <1>0, <1>1, <1>2, <2>0, <2>5, <3>1, SeedDoes, RegTyped DEF Admitted, Enabled
  <2>. QED BY <2>1, <2>2, <2>3, <2>4, <2>5
<1>. QED BY <1>3, <1>4 DEF RegFits

LEMMA RegistryStep ==
    ASSUME IngestionInv, NEW c \in Chats, Enable(c) \/ Pause(c) \/ Refuse(c) \/ Resolve(c) \/ Seed(c)
    PROVE  Fits'
<1>0. RegMoves(c)
  BY RegistryMoves
<1>1. UNCHANGED <<now, log, records, bodies, barred, page, work, up>>
  BY <1>0 DEF RegMoves
(* Where the checkpoint is a new row, nothing of the stream was read.       *)
<1>13. \A s \in Streams : ck'[s] = ck[s] \/
           /\ s = c /\ c \in Channels /\ ck'[s] = Len(log[s]) /\ work = NoWork
           /\ ~Admitted(c) /\ ~Admitted(c)' /\ page[s] = {}
  <2>1. \A s \in Streams : s \in Channels /\ ~Admitted(s) => page[s] = {}
    BY DEF IngestionInv, PageShape
  <2>. QED BY <1>0, <2>1 DEF RegMoves, Admitted
<1>14. \A s \in Streams : page[s] # {} => ck'[s] = ck[s]
  BY <1>13
<1>15. \A d \in Chats : (Admitted(d) \/ Admitted(d)') => ck'[Stream(d)] = ck[Stream(d)]
  <2>1. \A d \in Chats : Stream(d) \in Channels => d = Stream(d)
    BY IngestionAssumption DEF Stream, Chats
  <2>. QED BY <1>13, <2>1, StreamTyped
<1>16. ck'[Account] = ck[Account]
  <2>1. Account \notin Channels /\ Account \in Streams
    BY IngestionAssumption DEF Chats, Streams
  <2>. QED BY <1>13, <2>1
<1>2. LogFits' /\ CkFits' /\ WorkFits' /\ RegFits'
  <2>1. now' \in Nat /\ now <= now'
    BY <1>1 DEF IngestionInv, TypeOK
  <2>2. CkFits'
    <3>1. \A s \in Streams : Len(log[s]) \in Nat
      BY LogTyped DEF IngestionInv
    <3>. QED BY <1>1, <1>13, <3>1 DEF IngestionInv, CkFits
  <2>. QED BY <1>1, <2>1, <2>2, LogFrame, WorkFrame, RegistryFits DEF IngestionInv
<1>3. \A s : Indices(s)' = Indices(s)
  BY <1>1 DEF Indices
<1>4. \A d \in Chats : Admitted(d) => Admitted(d)'
  BY <1>0 DEF RegMoves, Admitted
<1>5. \A d \in Chats : reg'[d].state = "paused" =>
          reg'[d].pausedAt = now \/ reg'[d] = reg[d]
  BY <1>0 DEF RegMoves
<1>6. RecordFits'
  <2>1. \A r \in records : r.chat \in Chats /\ r.at \in Nat
    BY DEF IngestionInv, TypeOK, LogEvents
  <2>. QED BY <1>1, <1>4, <1>5, <2>1 DEF IngestionInv, RecordFits
<1>7. PageShape'
  <2>. SUFFICES ASSUME NEW s \in Streams, NEW p \in page[s], p.chat # NoChat, ~p.pending
                PROVE  /\ Admitted(p.chat)'
                       /\ ~Enabled(p.chat)' => log[s][p.index].at <= reg'[p.chat].pausedAt
    <3>1. \A s \in Channels : Admitted(s) => Admitted(s)'
      BY <1>4 DEF Chats
    <3>2. \A s \in Streams : \A p \in page[s] : ck'[s] = ck[s]
      BY <1>14
    <3>. QED BY <1>1, <3>1, <3>2 DEF IngestionInv, PageShape
  <2>1. /\ p.index \in DOMAIN log[s] /\ Admitted(p.chat)
        /\ ~Enabled(p.chat) => log[s][p.index].at <= reg[p.chat].pausedAt
    BY DEF IngestionInv, PageShape
  <2>2. p.chat \in Chats
    BY DEF IngestionInv, TypeOK, Results
  <2>3. log[s][p.index].at <= now
    BY <2>1 DEF IngestionInv, LogFits
  <2>4. Admitted(p.chat)'
    BY <1>4, <2>1, <2>2
  <2>. QED BY <1>5, <2>1, <2>2, <2>3, <2>4 DEF Admitted, Enabled
<1>8. PageClosed'
  BY <1>1, <1>3, <1>14 DEF IngestionInv, PageClosed
<1>9. PageHandled'
  <2>. SUFFICES ASSUME NEW s \in Streams, NEW p \in page[s],
                       NEW i \in DOMAIN log[s] \ Indices(s),
                       log[s][i].chat = p.chat /\ ck[s] < i /\ i < p.index /\ ~p.pending
                       /\ Text(log[s][i])
                PROVE  Settled(p.chat, i)' \/ Unheard(p.chat, i)'
    BY <1>1, <1>3, <1>14 DEF PageHandled, Text
  <2>1. Settled(p.chat, i) \/ Unheard(p.chat, i)
    BY DEF IngestionInv, PageHandled
  <2>2. log[s][i].chat \in Chats /\ Stream(p.chat) = s
    BY LogTyped DEF IngestionInv, LogFits, LogEvents
  <2>3. Admitted(p.chat)
    BY <2>2, StreamTyped DEF IngestionInv, PageShape
  <2>4. Unheard(p.chat, i) => Unheard(p.chat, i)'
    BY <1>0, <1>16, <2>2, <2>3 DEF RegMoves, Unheard, Of
  <2>. QED BY <1>0, <2>1, <2>2, <2>4, SettledStays
<1>10. HistoryFits'
  <2>. SUFFICES ASSUME work.op = "history"
                PROVE  /\ Admitted(work.event.chat)'
                       /\ Enabled(work.event.chat)' /\ ~reg'[work.event.chat].resumed
                          => work.event.at <= reg'[work.event.chat].started
    <3>. SUFFICES ASSUME work.op = "history",
                         /\ Admitted(work.event.chat)'
                         /\ Enabled(work.event.chat)' /\ ~reg'[work.event.chat].resumed
                            => work.event.at <= reg'[work.event.chat].started
                  PROVE  HistoryFits'
      BY <1>1 DEF HistoryFits
    <3>1. work # NoWork
      BY DEF NoWork
    <3>2. work.event.chat \in Chats
      BY DEF IngestionInv, WorkFits
    <3>3. ck'[Stream(work.event.chat)] = ck[Stream(work.event.chat)]
      BY <1>13, <3>1, <3>2, StreamTyped
    <3>. QED BY <1>1, <3>3 DEF IngestionInv, HistoryFits, Of, Seen
  <2>1. work.event.chat \in Chats /\ Admitted(work.event.chat)
    BY DEF IngestionInv, WorkFits, HistoryFits
  <2>2. CASE work.event.chat = c
    BY <1>0, <2>1, <2>2 DEF RegMoves
  <2>3. CASE work.event.chat # c
    BY <1>0, <2>1, <2>3 DEF RegMoves, IngestionInv, HistoryFits, Admitted, Enabled
  <2>. QED BY <2>2, <2>3
<1>11. PassedKept'
  <2>. SUFFICES ASSUME NEW d \in Chats, Enabled(d)', NEW i \in DOMAIN log[Stream(d)],
                       Passed(Stream(d), i), log[Stream(d)][i].chat = d,
                       log[Stream(d)][i].at > reg'[d].enabledAt
                PROVE  Kept(d, log[Stream(d)][i])'
    <3>1. \A d \in Chats : Enabled(d)' => ck'[Stream(d)] = ck[Stream(d)]
      BY <1>15 DEF Admitted, Enabled
    <3>. QED BY <1>1, <1>3, <3>1 DEF PassedKept, Passed
  <2>1. log[Stream(d)][i].at <= now /\ now \in Nat /\ log[Stream(d)][i].at \in Nat
    BY StreamTyped, LogTyped DEF IngestionInv, LogFits, TypeOK, LogEvents
  <2>2. d # c
    BY <1>0, <2>1 DEF RegMoves
  <2>3. Kept(d, log[Stream(d)][i])
    BY <1>0, <2>2 DEF RegMoves, IngestionInv, PassedKept, Enabled
  <2>. QED BY <1>1, <2>3 DEF Kept, Of, Barred, Key
<1>12. DeletedSettled'
  <2>. SUFFICES ASSUME NEW r \in records, ~Text(r), NEW i \in DOMAIN log[Stream(r.chat)],
                       ck[Stream(r.chat)] < i, Same(log[Stream(r.chat)][i], r),
                       Text(log[Stream(r.chat)][i])
                PROVE  Settled(r.chat, i)'
    <3>1. \A r \in records : r.chat \in Chats /\ Admitted(r.chat)
      BY DEF IngestionInv, TypeOK, LogEvents, RecordFits
    <3>. QED BY <1>1, <1>15, <3>1 DEF DeletedSettled, Text
  <2>1. Settled(r.chat, i) /\ r.chat \in Chats
    BY DEF IngestionInv, DeletedSettled, TypeOK, LogEvents
  <2>. QED BY <1>0, <2>1, SettledStays
<1>. QED BY <1>2, <1>6, <1>7, <1>8, <1>9, <1>10, <1>11, <1>12 DEF Fits
-----------------------------------------------------------------------------
(* Something happens at Telegram.                                          *)
Grows(c, m, k) ==
    /\ now' = now + 1
    /\ UNCHANGED <<reg, stamp, ck, records, bodies, barred, page, work, up>>
    /\ \A t \in Streams : \A i \in DOMAIN log[t] :
           i \in DOMAIN log'[t] /\ log'[t][i] = log[t][i]
    /\ \A t \in Streams : Len(log[t]) <= Len(log'[t])
    /\ \A t \in Streams : \A i \in DOMAIN log'[t] :
           i \in Nat /\ (i \in DOMAIN log[t] \/ (t = Stream(c) /\ i = Len(log[t]) + 1))
    /\ LET s == Stream(c)
           n == Len(log[s])
       IN  log'[s][n + 1] = [chat |-> c, msg |-> m, kind |-> k, at |-> now + 1]
    /\ LET Mine(i) == log[Stream(c)][i].chat = c /\ log[Stream(c)][i].msg = m
       IN  IF k = "create" THEN \A i \in DOMAIN log[Stream(c)] : ~Mine(i)
           ELSE /\ \E i \in DOMAIN log[Stream(c)] : Mine(i) /\ log[Stream(c)][i].kind = "create"
                /\ \A i \in DOMAIN log[Stream(c)] : Mine(i) => Text(log[Stream(c)][i])

LEMMA HappenGrows ==
    ASSUME IngestionInv, NEW c \in Chats, NEW m \in Messages, NEW k \in Kinds, Happen(c, m, k)
    PROVE  Grows(c, m, k)
<1>. DEFINE s == Stream(c)
            n == Len(log[s])
            e == [chat |-> c, msg |-> m, kind |-> k, at |-> now + 1]
<1>0. TypeOK /\ LogFits
  BY DEF IngestionInv
<1>1. s \in Streams /\ n \in Nat /\ DOMAIN log[s] = 1..n /\ log \in [Streams -> Seq(LogEvents)]
  BY <1>0, StreamTyped, LogTyped DEF TypeOK
<1>2. log' = [log EXCEPT ![s] = Append(@, e)] /\ now' = now + 1
  BY DEF Happen
<1>3. log'[s] = Append(log[s], e) /\ \A t \in Streams : t # s => log'[t] = log[t]
  <2>. HIDE DEF e, s
  <2>. QED BY <1>1, <1>2
<1>4. e \in LogEvents /\ log[s] \in Seq(LogEvents)
  <2>1. now \in Nat
    BY <1>0 DEF TypeOK
  <2>2. e \in LogEvents
    BY <2>1 DEF LogEvents
  <2>3. log[s] \in Seq(LogEvents)
    BY <1>1
  <2>. QED BY <2>2, <2>3
<1>5. /\ Len(log'[s]) = n + 1 /\ DOMAIN log'[s] = 1..n + 1 /\ log'[s][n + 1] = e
      /\ \A i \in 1..n : log'[s][i] = log[s][i]
  <2>. HIDE DEF e, s
  <2>. QED BY <1>1, <1>3, <1>4
<1>6. UNCHANGED <<reg, stamp, ck, records, bodies, barred, page, work, up>>
  BY DEF Happen, registry, durable, process
<1>7. \A t \in Streams : Len(log[t]) \in Nat /\ DOMAIN log[t] = 1..Len(log[t])
  BY <1>0, LogTyped
<1>8. \A t \in Streams : \A i \in DOMAIN log[t] :
          i \in DOMAIN log'[t] /\ log'[t][i] = log[t][i]
  <2>. HIDE DEF e, s, n
  <2>. QED BY <1>1, <1>3, <1>5
<1>9. \A t \in Streams : Len(log[t]) <= Len(log'[t])
  <2>. SUFFICES ASSUME NEW t \in Streams PROVE Len(log[t]) <= Len(log'[t])
    OBVIOUS
  <2>1. CASE t = s
    BY <1>1, <1>5, <2>1
  <2>2. CASE t # s
    BY <1>3, <1>7, <2>2
  <2>. QED BY <2>1, <2>2
<1>10. \A t \in Streams : \A i \in DOMAIN log'[t] :
          i \in Nat /\ (i \in DOMAIN log[t] \/ (t = s /\ i = Len(log[t]) + 1))
  <2>. SUFFICES ASSUME NEW t \in Streams, NEW i \in DOMAIN log'[t]
                PROVE  i \in Nat /\ (i \in DOMAIN log[t] \/ (t = s /\ i = Len(log[t]) + 1))
    OBVIOUS
  <2>1. CASE t = s
    BY <1>1, <1>5, <2>1
  <2>2. CASE t # s
    BY <1>3, <1>7, <2>2
  <2>. QED BY <2>1, <2>2
<1>11. \A i \in DOMAIN log[s] : log[s][i].chat = c => log[s][i] \in Events(c)
  BY DEF Events, ToSet
<1>12. \A x \in Events(c) : \E i \in DOMAIN log[s] : log[s][i] = x /\ x.chat = c
  BY DEF Events, ToSet
<1>13. IF k = "create" THEN ~Created(c, m) ELSE Visible(c, m)
  BY DEF Happen
<1>14. LET Mine(i) == log[s][i].chat = c /\ log[s][i].msg = m
       IN  IF k = "create" THEN \A i \in DOMAIN log[s] : ~Mine(i)
           ELSE /\ \E i \in DOMAIN log[s] : Mine(i) /\ log[s][i].kind = "create"
                /\ \A i \in DOMAIN log[s] : Mine(i) => Text(log[s][i])
  <2>. DEFINE Mine(i) == log[s][i].chat = c /\ log[s][i].msg = m
  <2>1. CASE k = "create"
    <3>1. SUFFICES ASSUME NEW i \in DOMAIN log[s], Mine(i) PROVE FALSE
      BY <2>1
    <3>2. PICK j \in DOMAIN log[s] : log[s][j].chat = c /\ log[s][j].msg = m
                                     /\ log[s][j].kind = "create"
      <4>1. CASE log[s][i].kind = "create"
        BY <3>1, <4>1
      <4>2. CASE log[s][i].kind # "create"
        BY <1>0, <1>1, <3>1, <4>2 DEF LogFits, Same
      <4>. QED BY <4>1, <4>2
    <3>3. Created(c, m)
      BY <1>11, <3>2 DEF Created
    <3>. QED BY <1>13, <2>1, <3>3
  <2>2. CASE k # "create"
    <3>1. Visible(c, m)
      BY <1>13, <2>2
    <3>2. \E i \in DOMAIN log[s] : Mine(i) /\ log[s][i].kind = "create"
      BY <1>12, <3>1 DEF Visible, Created
    <3>3. \A i \in DOMAIN log[s] : Mine(i) => Text(log[s][i])
      BY <1>11, <3>1 DEF Visible, Text
    <3>. QED BY <2>2, <3>2, <3>3
  <2>. QED BY <2>1, <2>2
<1>. HIDE DEF e
<1>. QED BY <1>2, <1>5, <1>6, <1>8, <1>9, <1>10, <1>14 DEF Grows, e
LEMMA GrowsLog ==
    ASSUME IngestionInv, NEW c \in Chats, NEW m \in Messages, NEW k \in Kinds, Grows(c, m, k)
    PROVE  LogFits'
<1>. DEFINE s == Stream(c)
            n == Len(log[s])
            e == [chat |-> c, msg |-> m, kind |-> k, at |-> now + 1]
<1>0. LogFits /\ now \in Nat /\ now' = now + 1 /\ s \in Streams /\ n \in Nat
      /\ DOMAIN log[s] = 1..n
  BY StreamTyped, LogTyped DEF IngestionInv, Grows, TypeOK
<1>1. /\ \A t \in Streams : \A i \in DOMAIN log[t] :
             i \in DOMAIN log'[t] /\ log'[t][i] = log[t][i]
      /\ \A t \in Streams : \A i \in DOMAIN log'[t] :
             i \in Nat /\ (i \in DOMAIN log[t] \/ (t = s /\ i = n + 1))
      /\ log'[s][n + 1] = e
  BY DEF Grows
<1>2. \A t \in Streams : \A i \in DOMAIN log[t] :
          log[t][i] \in LogEvents /\ log[t][i].at \in Nat /\ log[t][i].at <= now /\ i \in Nat
  BY <1>0, LogTyped DEF LogFits, IngestionInv, LogEvents
<1>3. e.chat = c /\ e.msg = m /\ e.kind = k /\ e.at = now + 1
  OBVIOUS
<1>. HIDE DEF e
<1>4. ASSUME NEW t \in Streams, NEW i \in DOMAIN log[t]
      PROVE  /\ Stream(log'[t][i].chat) = t
             /\ log'[t][i].at <= now'
             /\ log'[t][i].kind # "create" =>
                    \E j \in DOMAIN log'[t] :
                        j < i /\ Same(log'[t][j], log'[t][i]) /\ log'[t][j].kind = "create"
             /\ \A j \in DOMAIN log'[t] : i < j =>
                    /\ log'[t][i].at < log'[t][j].at
                    /\ Same(log'[t][i], log'[t][j]) =>
                           log'[t][i].kind # "delete" /\ log'[t][j].kind # "create"
  <2>1. log'[t][i] = log[t][i]
    BY <1>1
  <2>2. Stream(log[t][i].chat) = t /\ log[t][i].at <= now /\ log[t][i].at \in Nat
    BY <1>0, <1>2 DEF LogFits
  <2>3. log[t][i].kind # "create" =>
            \E j \in DOMAIN log[t] :
                j < i /\ Same(log[t][j], log[t][i]) /\ log[t][j].kind = "create"
    BY <1>0 DEF LogFits
  <2>4. ASSUME NEW j \in DOMAIN log'[t], i < j
        PROVE  /\ log'[t][i].at < log'[t][j].at
               /\ Same(log'[t][i], log'[t][j]) =>
                      log'[t][i].kind # "delete" /\ log'[t][j].kind # "create"
    <3>1. CASE j \in DOMAIN log[t]
      BY <1>0, <1>1, <2>1, <2>4, <3>1 DEF LogFits
    <3>2. CASE t = s /\ j = n + 1
      <4>1. log'[t][j] = e
        BY <1>1, <3>2
      <4>2. log[t][i].at < e.at
        BY <1>0, <1>3, <2>2
      <4>3. Same(log[t][i], e) => log[t][i].kind # "delete" /\ e.kind # "create"
        <5>. SUFFICES ASSUME Same(log[t][i], e)
                      PROVE  log[t][i].kind # "delete" /\ e.kind # "create"
          OBVIOUS
        <5>1. log[s][i].chat = c /\ log[s][i].msg = m /\ i \in DOMAIN log[s]
          BY <1>3, <3>2 DEF Same
        <5>2. k # "create" /\ Text(log[s][i])
          BY <5>1 DEF Grows
        <5>. QED BY <1>3, <3>2, <5>2 DEF Text
      <4>. QED BY <2>1, <4>1, <4>2, <4>3
    <3>. QED BY <1>1, <3>1, <3>2
  <2>5. log'[t][i].kind # "create" =>
            \E j \in DOMAIN log'[t] :
                j < i /\ Same(log'[t][j], log'[t][i]) /\ log'[t][j].kind = "create"
    BY <1>1, <2>1, <2>3
  <2>. QED BY <1>0, <2>1, <2>2, <2>4, <2>5
<1>5. /\ Stream(e.chat) = s
      /\ e.at <= now'
      /\ e.kind # "create" =>
             \E j \in DOMAIN log'[s] :
                 j < n + 1 /\ Same(log'[s][j], e) /\ log'[s][j].kind = "create"
      /\ \A j \in DOMAIN log'[s] : j <= n + 1
  <2>1. e.kind # "create" =>
             \E j \in DOMAIN log[s] : Same(log[s][j], e) /\ log[s][j].kind = "create"
    BY <1>3 DEF Grows, Same
  <2>2. \A j \in DOMAIN log[s] : j < n + 1
    BY <1>0
  <2>3. \A j \in DOMAIN log'[s] : j <= n + 1
    BY <1>0, <1>1, <2>2
  <2>. QED BY <1>0, <1>1, <1>3, <2>1, <2>2, <2>3
<1>6. \A t \in Streams : \A i \in DOMAIN log'[t] :
          i \in DOMAIN log[t] \/ (t = s /\ i = n + 1 /\ log'[t][i] = e)
  BY <1>1
<1>7. \A j \in DOMAIN log'[s] : ~(n + 1 < j)
  BY <1>0, <1>1, <1>5
<1>. HIDE DEF s, n
<1>. QED BY <1>4, <1>5, <1>6, <1>7 DEF LogFits

LEMMA HappenStep ==
    ASSUME IngestionInv, NEW c \in Chats, NEW m \in Messages, NEW k \in Kinds, Happen(c, m, k)
    PROVE  Fits'
<1>. DEFINE s == Stream(c)
            n == Len(log[s])
<1>0. Grows(c, m, k)
  BY HappenGrows
<1>1. UNCHANGED <<reg, stamp, ck, records, bodies, barred, page, work, up>>
  BY <1>0 DEF Grows
<1>2. /\ \A t \in Streams : \A i \in DOMAIN log[t] :
             i \in DOMAIN log'[t] /\ log'[t][i] = log[t][i]
      /\ \A t \in Streams : Len(log[t]) <= Len(log'[t])
      /\ \A t \in Streams : \A i \in DOMAIN log'[t] :
             i \in DOMAIN log[t] \/ (t = s /\ i = n + 1)
  BY <1>0 DEF Grows
<1>3. /\ \A t \in Streams : Len(log[t]) \in Nat /\ DOMAIN log[t] = 1..Len(log[t])
      /\ \A t \in Streams : Len(log'[t]) \in Nat
      /\ now \in Nat /\ now' = now + 1 /\ s \in Streams /\ n \in Nat
  <2>1. log' \in [Streams -> Seq(LogEvents)]
    BY ApplicationTypes DEF TypeOK
  <2>. QED BY <1>0, <2>1, StreamTyped, LogTyped DEF IngestionInv, Grows, TypeOK
<1>4. \A t : Indices(t)' = Indices(t)
  BY <1>1 DEF Indices
<1>5. LogFits'
  BY <1>0, GrowsLog
<1>6. RegFits'
  <2>1. ASSUME NEW d \in Chats
        PROVE  /\ reg'[d].state # "unknown" => reg'[d].boundary <= Len(log'[Stream(d)])
               /\ stamp'[d] <= now'
               /\ stamp'[d] # 0 =>
                      /\ reg'[d].state \in {"resolved", "paused"}
                      /\ \A i \in 1..reg'[d].boundary : log'[Stream(d)][i].at < stamp'[d]
                      /\ reg'[d].state = "paused" => reg'[d].pausedAt < stamp'[d]
               /\ Admitted(d)' =>
                      /\ \A i \in 1..reg'[d].boundary : log'[Stream(d)][i].at < reg'[d].started
                      /\ reg'[d].started <= reg'[d].enabledAt /\ reg'[d].enabledAt <= now'
               /\ reg'[d].state = "paused" =>
                      reg'[d].enabledAt <= reg'[d].pausedAt /\ reg'[d].pausedAt <= now'
               /\ Enabled(d)' /\ reg'[d].resumed => reg'[d].pausedAt < reg'[d].started
    <3>1. /\ reg[d].state # "unknown" => reg[d].boundary <= Len(log[Stream(d)])
          /\ stamp[d] <= now
          /\ stamp[d] # 0 =>
                 /\ reg[d].state \in {"resolved", "paused"}
                 /\ \A i \in 1..reg[d].boundary : log[Stream(d)][i].at < stamp[d]
                 /\ reg[d].state = "paused" => reg[d].pausedAt < stamp[d]
          /\ Admitted(d) =>
                 /\ \A i \in 1..reg[d].boundary : log[Stream(d)][i].at < reg[d].started
                 /\ reg[d].started <= reg[d].enabledAt /\ reg[d].enabledAt <= now
          /\ reg[d].state = "paused" =>
                 reg[d].enabledAt <= reg[d].pausedAt /\ reg[d].pausedAt <= now
          /\ Enabled(d) /\ reg[d].resumed => reg[d].pausedAt < reg[d].started
      BY DEF IngestionInv, RegFits
    <3>2. Stream(d) \in Streams /\ reg[d].boundary \in Nat /\ stamp[d] \in Nat
          /\ reg[d].enabledAt \in Nat /\ reg[d].pausedAt \in Nat
      BY StreamTyped, RegTyped DEF IngestionInv
    <3>3. reg[d].state # "unknown" =>
              \A i \in 1..reg[d].boundary : log'[Stream(d)][i] = log[Stream(d)][i]
      BY <1>2, <1>3, <3>1, <3>2
    <3>4. (Admitted(d)' <=> Admitted(d)) /\ (Enabled(d)' <=> Enabled(d))
          /\ (Admitted(d) => reg[d].state # "unknown")
      BY <1>1 DEF Admitted, Enabled
    <3>5. reg[d].state # "unknown" => reg[d].boundary <= Len(log'[Stream(d)])
      BY <1>2, <1>3, <3>1, <3>2
    <3>6. /\ stamp[d] <= now' /\ (Admitted(d) => reg[d].enabledAt <= now')
          /\ (reg[d].state = "paused" => reg[d].pausedAt <= now')
      BY <1>3, <3>1, <3>2
    <3>. QED BY <1>1, <3>1, <3>3, <3>4, <3>5, <3>6
  <2>. QED BY <2>1 DEF RegFits
<1>7. CkFits'
  <2>. SUFFICES ASSUME NEW t \in Streams PROVE ck[t] <= Len(log'[t])
    BY <1>1 DEF CkFits
  <2>1. ck[t] \in Nat \cup {Unset} /\ ck[t] <= Len(log[t])
    BY DEF IngestionInv, CkFits, TypeOK
  <2>. QED BY <1>2, <1>3, <2>1 DEF Unset
<1>8. RecordFits'
  <2>. SUFFICES ASSUME NEW r \in records
                PROVE  /\ Text(r) => r.at <= now'
                       /\ ~Text(r) => \E i \in DOMAIN log'[Stream(r.chat)] :
                                          /\ Same(log'[Stream(r.chat)][i], r)
                                          /\ ~Text(log'[Stream(r.chat)][i])
    BY <1>1 DEF IngestionInv, RecordFits, Admitted
  <2>1. r.chat \in Chats /\ r.at \in Nat
    BY DEF IngestionInv, TypeOK, LogEvents
  <2>2. Stream(r.chat) \in Streams
    BY <2>1, StreamTyped
  <2>. QED BY <1>2, <1>3, <2>1, <2>2 DEF IngestionInv, RecordFits
<1>9. \A t \in Streams : \A p \in page[t] :
          p.to \in Nat /\ p.index \in Nat /\ p.to <= Len(log[t]) /\ p.index <= Len(log[t])
  <2>. SUFFICES ASSUME NEW t \in Streams, NEW p \in page[t]
                PROVE  p.to \in Nat /\ p.index \in Nat /\ p.to <= Len(log[t])
                       /\ p.index <= Len(log[t])
    OBVIOUS
  <2>1. p.to \in Nat /\ p.index \in Nat
    BY DEF IngestionInv, TypeOK, Results
  <2>2. p.to <= Len(log[t]) /\ (p.index = 0 \/ p.index \in DOMAIN log[t])
    BY DEF IngestionInv, PageShape
  <2>. QED BY <1>3, <2>1, <2>2
<1>10. PageShape'
  <2>. SUFFICES ASSUME NEW t \in Streams, NEW p \in page[t]
                PROVE  /\ p.to <= Len(log'[t])
                       /\ p.chat # NoChat => p.index \in DOMAIN log'[t]
                                             /\ log'[t][p.index] = log[t][p.index]
    <3>1. \A x, y, z, w : x = y => (Same(x, z) <=> Same(y, z)) /\ (x.kind = w <=> y.kind = w)
      OBVIOUS
    <3>. QED BY <1>1 DEF IngestionInv, PageShape, Admitted, Enabled
  <2>1. p.to <= Len(log[t]) /\ (p.chat # NoChat => p.index \in DOMAIN log[t])
    BY DEF IngestionInv, PageShape
  <2>. QED BY <1>2, <1>3, <1>9, <2>1
<1>11. PageClosed'
  <2>. SUFFICES ASSUME NEW t \in Streams, NEW p \in page[t],
                       NEW i \in DOMAIN log'[t] \ Indices(t),
                       log'[t][i].chat = p.chat /\ p.index < i
                PROVE  \A q \in page[t] : q.to < i /\ q.index < i
    BY <1>1, <1>4 DEF PageClosed
  <2>1. CASE i \in DOMAIN log[t]
    BY <1>2, <2>1 DEF IngestionInv, PageClosed
  <2>2. CASE i = Len(log[t]) + 1
    BY <1>3, <1>9, <2>2
  <2>. QED BY <1>2, <2>1, <2>2
<1>12. \A d \in Chats : \A i \in DOMAIN log[Stream(d)] : Settled(d, i) => Settled(d, i)'
  <2>. SUFFICES ASSUME NEW d \in Chats, NEW i \in DOMAIN log[Stream(d)]
                PROVE  Settled(d, i) => Settled(d, i)'
    OBVIOUS
  <2>1. log'[Stream(d)][i] = log[Stream(d)][i]
    BY <1>2, StreamTyped
  <2>. QED BY <1>1, <2>1 DEF Settled, Rejected, Horizon, Admitted, Enabled, Key
<1>13. PageHandled'
  <2>. SUFFICES ASSUME NEW t \in Streams, NEW p \in page[t],
                       NEW i \in DOMAIN log'[t] \ Indices(t),
                       log'[t][i].chat = p.chat /\ ck[t] < i /\ i < p.index /\ ~p.pending
                       /\ Text(log'[t][i])
                PROVE  Settled(p.chat, i)' \/ Unheard(p.chat, i)'
    BY <1>1, <1>4 DEF PageHandled, Text
  <2>1. i \in DOMAIN log[t]
    BY <1>2, <1>3, <1>9
  <2>2. log'[t][i] = log[t][i]
    BY <1>2, <2>1
  <2>3. Settled(p.chat, i) \/ Unheard(p.chat, i)
    BY <2>1, <2>2 DEF IngestionInv, PageHandled
  <2>4. log[t][i].chat \in Chats /\ Stream(p.chat) = t
    BY <2>1, <2>2, LogTyped DEF IngestionInv, LogFits, LogEvents
  <2>5. Unheard(p.chat, i) => Unheard(p.chat, i)'
    BY <1>1, <2>2, <2>4 DEF Unheard, Of
  <2>. QED BY <1>12, <2>1, <2>2, <2>3, <2>4, <2>5
<1>14. WorkFits'
  BY <1>1, WorkFrame DEF IngestionInv
<1>15. \A t \in Streams : ~Seen(t, Len(log[t]) + 1) /\ ~Passed(t, Len(log[t]) + 1)
  <2>. SUFFICES ASSUME NEW t \in Streams
                PROVE  ~Seen(t, Len(log[t]) + 1) /\ ~Passed(t, Len(log[t]) + 1)
    OBVIOUS
  <2>1. ck[t] \in Nat \cup {Unset} /\ ck[t] <= Len(log[t])
    BY DEF IngestionInv, CkFits, TypeOK
  <2>2. ~(Len(log[t]) + 1 <= ck[t])
    BY <1>3, <2>1 DEF Unset
  <2>3. \A p \in page[t] : ~(Len(log[t]) + 1 <= p.to) /\ ~(Len(log[t]) + 1 <= p.index)
    BY <1>3, <1>9
  <2>. QED BY <2>2, <2>3 DEF Seen, Passed
<1>16. HistoryFits'
  <2>. SUFFICES ASSUME work.op = "history",
                       NEW i \in DOMAIN log'[Stream(work.event.chat)],
                       Same(log'[Stream(work.event.chat)][i], work.event),
                       Seen(Stream(work.event.chat), i)
                PROVE  LET x == log'[Stream(work.event.chat)][i]
                       IN  Text(x) /\ (x.kind = "edit" => x.at <= work.event.at)
    BY <1>1 DEF IngestionInv, HistoryFits, Admitted, Enabled, Of, Seen
  <2>1. Stream(work.event.chat) \in Streams
    BY StreamTyped DEF IngestionInv, WorkFits
  <2>2. i \in DOMAIN log[Stream(work.event.chat)]
    BY <1>2, <1>15, <2>1
  <2>3. log'[Stream(work.event.chat)][i] = log[Stream(work.event.chat)][i]
    BY <1>2, <2>1, <2>2
  <2>. QED BY <2>2, <2>3 DEF IngestionInv, HistoryFits
<1>17. PassedKept'
  <2>. SUFFICES ASSUME NEW d \in Chats, Enabled(d), NEW i \in DOMAIN log'[Stream(d)],
                       Passed(Stream(d), i), log'[Stream(d)][i].chat = d,
                       log'[Stream(d)][i].at > reg[d].enabledAt
                PROVE  KeptAt(d, i)'
    BY <1>1, <1>4 DEF PassedKept, Passed, Enabled, KeptAt
  <2>1. i \in DOMAIN log[Stream(d)]
    BY <1>2, <1>15, StreamTyped
  <2>2. log'[Stream(d)][i] = log[Stream(d)][i]
    BY <1>2, <2>1, StreamTyped
  <2>3. Kept(d, log[Stream(d)][i])
    BY <2>1, <2>2 DEF IngestionInv, PassedKept
  <2>. QED BY <1>1, <2>2, <2>3 DEF KeptAt, Kept, Of, Barred, Key
<1>18. DeletedSettled'
  <2>. SUFFICES ASSUME NEW r \in records, ~Text(r), NEW i \in DOMAIN log'[Stream(r.chat)],
                       ck[Stream(r.chat)] < i, Same(log'[Stream(r.chat)][i], r),
                       Text(log'[Stream(r.chat)][i])
                PROVE  Settled(r.chat, i)'
    BY <1>1 DEF DeletedSettled, Text
  <2>1. r.chat \in Chats /\ Stream(r.chat) \in Streams
    BY StreamTyped DEF IngestionInv, TypeOK, LogEvents
  <2>2. i \in DOMAIN log[Stream(r.chat)]
    <3>. SUFFICES ASSUME Stream(r.chat) = s, i = n + 1 PROVE FALSE
      BY <1>2, <2>1
    <3>1. log'[s][n + 1] = [chat |-> c, msg |-> m, kind |-> k, at |-> now + 1]
      BY <1>0 DEF Grows
    <3>2. r.chat = c /\ r.msg = m
      BY <3>1 DEF Same
    <3>3. PICK j \in DOMAIN log[s] : Same(log[s][j], r) /\ ~Text(log[s][j])
      BY DEF IngestionInv, RecordFits
    <3>4. log[s][j].chat = c /\ log[s][j].msg = m
      BY <3>2, <3>3 DEF Same
    <3>. QED BY <1>0, <3>3, <3>4 DEF Grows
  <2>3. Settled(r.chat, i)
    BY <1>2, <2>1, <2>2 DEF IngestionInv, DeletedSettled
  <2>. QED BY <1>12, <2>1, <2>2, <2>3
<1>. QED BY <1>5, <1>6, <1>7, <1>8, <1>10, <1>11, <1>13, <1>14, <1>16, <1>17, <1>18 DEF Fits
-----------------------------------------------------------------------------
LEMMA ReadClockStep ==
    ASSUME IngestionInv, NEW c \in Chats, ReadClock(c)
    PROVE  Fits'
<1>1. /\ UNCHANGED <<log, reg, ck, records, bodies, barred, page, work, up>>
      /\ now' = now + 1 /\ stamp' = [stamp EXCEPT ![c] = now + 1]
      /\ reg[c].state \in {"resolved", "paused"}
  BY DEF ReadClock, durable, process
<1>2. now \in Nat /\ now' \in Nat /\ now <= now' /\ TypeOK /\ RegFits /\ LogFits
  BY <1>1 DEF IngestionInv, TypeOK
<1>3. /\ LogFits' /\ CkFits' /\ WorkFits' /\ HistoryFits' /\ DeletedSettled'
      /\ PassedKept' /\ PageShape' /\ PageClosed' /\ PageHandled'
  BY <1>1, <1>2, LogFrame, CkFrame, WorkFrame, HistoryFrame, DeletedFrame, PassedFrame,
     PageFrame DEF IngestionInv
<1>4. RecordFits'
  <2>1. \A r \in records : r.at \in Nat
    BY DEF IngestionInv, TypeOK, LogEvents
  <2>. QED BY <1>1, <1>2, <2>1 DEF IngestionInv, RecordFits, Admitted
<1>5. RegFits'
  <2>1. ASSUME NEW d \in Chats
        PROVE  /\ reg'[d].state # "unknown" => reg'[d].boundary <= Len(log'[Stream(d)])
               /\ stamp'[d] <= now'
               /\ stamp'[d] # 0 =>
                      /\ reg'[d].state \in {"resolved", "paused"}
                      /\ \A i \in 1..reg'[d].boundary : log'[Stream(d)][i].at < stamp'[d]
                      /\ reg'[d].state = "paused" => reg'[d].pausedAt < stamp'[d]
               /\ Admitted(d)' =>
                      /\ \A i \in 1..reg'[d].boundary : log'[Stream(d)][i].at < reg'[d].started
                      /\ reg'[d].started <= reg'[d].enabledAt /\ reg'[d].enabledAt <= now'
               /\ reg'[d].state = "paused" =>
                      reg'[d].enabledAt <= reg'[d].pausedAt /\ reg'[d].pausedAt <= now'
               /\ Enabled(d)' /\ reg'[d].resumed => reg'[d].pausedAt < reg'[d].started
    <3>1. /\ reg[d].state # "unknown" => reg[d].boundary <= Len(log[Stream(d)])
          /\ stamp[d] <= now
          /\ stamp[d] # 0 =>
                 /\ reg[d].state \in {"resolved", "paused"}
                 /\ \A i \in 1..reg[d].boundary : log[Stream(d)][i].at < stamp[d]
                 /\ reg[d].state = "paused" => reg[d].pausedAt < stamp[d]
          /\ Admitted(d) =>
                 /\ \A i \in 1..reg[d].boundary : log[Stream(d)][i].at < reg[d].started
                 /\ reg[d].started <= reg[d].enabledAt /\ reg[d].enabledAt <= now
          /\ reg[d].state = "paused" =>
                 reg[d].enabledAt <= reg[d].pausedAt /\ reg[d].pausedAt <= now
          /\ Enabled(d) /\ reg[d].resumed => reg[d].pausedAt < reg[d].started
      BY <1>2 DEF RegFits
    <3>2. Stream(d) \in Streams /\ reg[d].boundary \in Nat /\ stamp[d] \in Nat
          /\ reg[d].enabledAt \in Nat /\ reg[d].pausedAt \in Nat
      BY <1>2, StreamTyped, RegTyped
    <3>3. Len(log[Stream(d)]) \in Nat /\ DOMAIN log[Stream(d)] = 1..Len(log[Stream(d)])
          /\ \A i \in DOMAIN log[Stream(d)] : log[Stream(d)][i].at \in Nat
                                              /\ log[Stream(d)][i].at <= now
      BY <1>2, <3>2, LogTyped DEF LogEvents, LogFits
    <3>4. (Admitted(d)' <=> Admitted(d)) /\ (Enabled(d)' <=> Enabled(d))
      BY <1>1 DEF Admitted, Enabled
    <3>5. stamp'[d] = IF d = c THEN now + 1 ELSE stamp[d]
      BY <1>1, <1>2 DEF TypeOK
    <3>6. reg[d].state # "unknown" => \A i \in 1..reg[d].boundary : log[Stream(d)][i].at < now + 1
      <4>. SUFFICES ASSUME reg[d].state # "unknown", NEW i \in 1..reg[d].boundary
                    PROVE  log[Stream(d)][i].at < now + 1
        OBVIOUS
      <4>1. i \in DOMAIN log[Stream(d)]
        BY <3>1, <3>2, <3>3
      <4>2. log[Stream(d)][i].at \in Nat /\ log[Stream(d)][i].at <= now
        BY Zenon, <3>3, <4>1
      <4>3. now \in Nat
        BY <1>2 DEF TypeOK
      <4>. QED BY <4>2, <4>3
    <3>7. /\ Admitted(d) => reg[d].enabledAt <= now'
          /\ reg[d].state = "paused" => reg[d].pausedAt <= now' /\ reg[d].pausedAt < now + 1
      BY <1>1, <1>2, <3>1, <3>2
    <3>8. stamp'[d] <= now'
      BY <1>1, <1>2, <3>1, <3>2, <3>5
    <3>9. CASE d = c
      BY <1>1, <3>1, <3>4, <3>5, <3>6, <3>7, <3>8, <3>9
    <3>10. CASE d # c
      BY <1>1, <3>1, <3>4, <3>5, <3>7, <3>8, <3>10
    <3>. QED BY <3>9, <3>10
  <2>. QED BY <2>1 DEF RegFits
<1>. QED BY <1>3, <1>4, <1>5 DEF Fits

(* The administrator's bootstrap: what is below a boundary is older than   *)
(* the chat's start.                                                       *)
LEMMA BootstrapStep ==
    ASSUME IngestionInv, Bootstrap
    PROVE  Fits'
<1>1. /\ UNCHANGED <<now, log, reg, stamp, records, bodies, barred, page, work, up>>
      /\ ck' = [s \in Streams |-> IF ck[s] = Unset THEN reg[s].boundary ELSE ck[s]]
      /\ ~up /\ \A c \in Channels : Enabled(c)
  BY DEF Bootstrap, WholeScope, telegram, registry, process, Chats
<1>2. work = NoWork /\ (\A s \in Streams : page[s] = {}) /\ TypeOK
  BY <1>1 DEF IngestionInv, TypeOK
<1>3. \A s \in Streams : ck[s] = Unset =>
          /\ s \in Channels /\ s \in Chats /\ Stream(s) = s /\ Enabled(s)
          /\ reg[s].boundary \in Nat /\ reg[s].boundary <= Len(log[s])
          /\ \A i \in 1..reg[s].boundary : log[s][i].at < reg[s].started
          /\ reg[s].started <= reg[s].enabledAt
  <2>. SUFFICES ASSUME NEW s \in Streams, ck[s] = Unset
                PROVE  /\ s \in Channels /\ s \in Chats /\ Stream(s) = s /\ Enabled(s)
                       /\ reg[s].boundary \in Nat /\ reg[s].boundary <= Len(log[s])
                       /\ \A i \in 1..reg[s].boundary : log[s][i].at < reg[s].started
                       /\ reg[s].started <= reg[s].enabledAt
    OBVIOUS
  <2>1. s \in Channels /\ s \in Chats /\ Stream(s) = s
    BY <1>2 DEF TypeOK, Streams, Chats, Stream
  <2>2. Enabled(s) /\ Admitted(s) /\ reg[s].state # "unknown"
    BY <1>1, <2>1 DEF Enabled, Admitted
  <2>. QED BY <1>2, <2>1, <2>2, RegTyped DEF IngestionInv, RegFits
<1>4. /\ LogFits' /\ RegFits' /\ RecordFits'
      /\ PageShape' /\ PageClosed' /\ PageHandled' /\ WorkFits' /\ HistoryFits'
  <2>1. now' \in Nat /\ now <= now'
    BY <1>1, <1>2 DEF TypeOK
  <2>. QED BY <1>1, <1>2, <2>1, LogFrame, RegFrame, RecordFrame, NoPage, NoWorkFits
           DEF IngestionInv
<1>5. \A s \in Streams : ck'[s] = IF ck[s] = Unset THEN reg[s].boundary ELSE ck[s]
  BY <1>1
<1>6. CkFits'
  BY <1>1, <1>3, <1>5 DEF IngestionInv, CkFits
<1>7. PassedKept'
  <2>. SUFFICES ASSUME NEW d \in Chats, Enabled(d), NEW i \in DOMAIN log[Stream(d)],
                       i <= ck'[Stream(d)], log[Stream(d)][i].chat = d,
                       log[Stream(d)][i].at > reg[d].enabledAt
                PROVE  KeptAt(d, i)'
    <3>1. \A s \in Streams : \A i : Passed(s, i)' => i <= ck'[s]
      BY <1>1, <1>2 DEF Passed
    <3>2. \A d \in Chats : Stream(d) \in Streams
      BY StreamTyped
    <3>. QED BY <1>1, <3>1, <3>2 DEF PassedKept, Enabled, KeptAt
  <2>1. Stream(d) \in Streams
    BY StreamTyped
  <2>2. ck[Stream(d)] # Unset
    <3>. SUFFICES ASSUME ck[Stream(d)] = Unset PROVE FALSE
      OBVIOUS
    <3>1. Stream(d) = d
      BY <1>3, <2>1, StreamTyped, IngestionAssumption DEF Stream, Chats
    <3>2. i \in 1..reg[d].boundary
      BY <1>2, <1>3, <1>5, <2>1, <3>1, LogTyped
    <3>3. log[d][i].at \in Nat /\ reg[d].started \in Nat /\ reg[d].enabledAt \in Nat
      BY <1>2, <2>1, <3>1, LogTyped, RegTyped DEF LogEvents
    <3>. QED BY <1>3, <2>1, <3>1, <3>2, <3>3
  <2>3. Passed(Stream(d), i)
    BY <1>5, <2>1, <2>2 DEF Passed
  <2>4. KeptAt(d, i)
    BY <2>3 DEF IngestionInv, PassedKept, KeptAt
  <2>. QED BY <1>1, <2>4 DEF KeptAt, Kept, Of, Barred, Key
<1>8. DeletedSettled'
  <2>. SUFFICES ASSUME NEW r \in records, ~Text(r), NEW i \in DOMAIN log[Stream(r.chat)],
                       ck'[Stream(r.chat)] < i, Same(log[Stream(r.chat)][i], r),
                       Text(log[Stream(r.chat)][i])
                PROVE  Settled(r.chat, i)'
    BY <1>1 DEF DeletedSettled, Text
  <2>1. Stream(r.chat) \in Streams
    BY StreamTyped DEF IngestionInv, TypeOK, LogEvents
  <2>2. ck[Stream(r.chat)] < i
    BY <1>2, <1>3, <1>5, <2>1, LogTyped DEF Unset
  <2>3. Settled(r.chat, i)
    BY <2>2 DEF IngestionInv, DeletedSettled
  <2>. QED BY <1>1, <2>3 DEF Settled, Rejected, Horizon, Admitted, Enabled, Key
<1>. QED BY <1>4, <1>6, <1>7, <1>8 DEF Fits
-----------------------------------------------------------------------------
(* A page that is read anew: it has every event of an enabled chat up to   *)
(* its end.                                                                *)
LEMMA FetchedShape ==
    ASSUME IngestionInv, NEW s \in Streams, up, ck[s] # Unset,
           s \in Channels => Enabled(s), NEW p \in Fetched(s)
    PROVE  /\ p.stream = s /\ p.from = ck[s] /\ ck[s] <= p.to
           /\ p.to <= PageEnd(s) /\ p.index <= PageEnd(s)
           /\ p.chat = NoChat => p.index = 0 /\ ~p.pending /\ Fetched(s) = {p}
           /\ p.chat # NoChat =>
                  /\ p.index \in InScope(s) /\ p.index \in DOMAIN log[s] /\ ck[s] < p.index
                  /\ Same(log[s][p.index], p) /\ log[s][p.index].kind = p.kind
                  /\ IF Text(p) THEN p.at = log[s][p.index].at
                     ELSE p.at > log[s][p.index].at
                  /\ IF p.pending THEN s = Account ELSE Enabled(p.chat)
           /\ p.to = ck[s] \/ \A q \in Fetched(s) : q.index <= p.index /\ p.index <= p.to
           /\ \A q \in Fetched(s) : q.index = p.index => q = p
<1>0. TypeOK /\ CkFits /\ LogFits
  BY DEF IngestionInv
<1>1. PageEnd(s) \in Nat /\ ck[s] \in Nat /\ ck[s] <= PageEnd(s) /\ PageEnd(s) <= Len(log[s])
  BY <1>0, PageEndTyped
<1>2. CASE InScope(s) = {}
  <2>1. p = Advancing(s) /\ Fetched(s) = {p}
    BY <1>2 DEF Fetched
  <2>2. /\ p.stream = s /\ p.from = ck[s] /\ p.to = PageEnd(s) /\ p.index = 0
        /\ p.chat = NoChat /\ p.pending = FALSE
    BY <2>1 DEF Advancing, NoEvent
  <2>. QED BY <1>1, <2>1, <2>2
<1>3. CASE InScope(s) # {}
  <2>0. \A q \in Fetched(s) : \E j \in InScope(s) : q = Result(s, j)
    BY <1>3 DEF Fetched
  <2>1. PICK i \in InScope(s) : p = Result(s, i)
    BY <2>0
  <2>2. /\ i \in DOMAIN log[s] /\ i \in Nat /\ ck[s] < i /\ i <= PageEnd(s)
        /\ log[s][i] \in LogEvents /\ log[s][i].at \in Nat /\ log[s][i].at < now + 1
        /\ log[s][i].chat \in Chats /\ Stream(log[s][i].chat) = s
    <3>1. i \in ck[s] + 1 .. PageEnd(s)
      BY DEF InScope
    <3>2. i \in DOMAIN log[s]
      BY <1>0, <1>1, <3>1, LogTyped
    <3>3. log[s][i] \in LogEvents /\ log[s][i].at <= now /\ Stream(log[s][i].chat) = s
      BY <1>0, <3>2, LogTyped DEF LogFits
    <3>4. i \in Nat /\ ck[s] < i /\ i <= PageEnd(s)
      BY <1>1, <3>1
    <3>5. log[s][i].at \in Nat /\ log[s][i].chat \in Chats
      BY <3>3 DEF LogEvents
    <3>6. log[s][i].at < now + 1
      BY <1>0, <3>3, <3>5 DEF TypeOK
    <3>. QED BY Zenon, <3>2, <3>3, <3>4, <3>5, <3>6
  <2>3. /\ p.stream = s /\ p.chat = log[s][i].chat /\ p.msg = log[s][i].msg
        /\ p.kind = log[s][i].kind
        /\ p.at = IF log[s][i].kind = "delete" THEN now + 1 ELSE log[s][i].at
        /\ p.index = i /\ p.from = ck[s]
        /\ p.to = IF \A j \in InScope(s) : j <= i THEN PageEnd(s) ELSE ck[s]
        /\ p.pending = (s = Account /\ ~Enabled(log[s][i].chat))
    BY <2>1 DEF Result
  <2>4. p.chat # NoChat
    BY <2>2, <2>3, StreamTyped
  <2>5. s # Account => log[s][i].chat = s /\ s \in Channels
    BY <2>2, StreamTyped, IngestionAssumption DEF Stream
  <2>6. IF p.pending THEN s = Account ELSE Enabled(p.chat)
    BY <2>3, <2>5
  <2>7. \A q \in Fetched(s) : q.index \in InScope(s) /\ q = Result(s, q.index)
    BY <2>0 DEF Result
  <2>8. p.to = ck[s] \/ \A q \in Fetched(s) : q.index <= p.index /\ p.index <= p.to
    BY <1>1, <2>2, <2>3, <2>7
  <2>9. \A q \in Fetched(s) : q.index = p.index => q = p
    BY <2>1, <2>3, <2>7
  <2>10. IF Text(p) THEN p.at = log[s][p.index].at ELSE p.at > log[s][p.index].at
    BY <1>0, <2>2, <2>3 DEF Text, TypeOK
  <2>11. p.to <= PageEnd(s) /\ ck[s] <= p.to
    BY <1>1, <2>3
  <2>. QED BY <2>1, <2>2, <2>3, <2>4, <2>6, <2>8, <2>9, <2>10, <2>11 DEF Same
<1>. QED BY <1>2, <1>3

LEMMA FetchedWhole ==
    ASSUME IngestionInv, NEW s \in Streams, up, ck[s] # Unset, s \in Channels => Enabled(s),
           NEW i \in DOMAIN log[s], ck[s] < i, i <= PageEnd(s)
    PROVE  /\ Enabled(log[s][i].chat) => i \in InScope(s)
           /\ \A j \in InScope(s) : log[s][j].chat = log[s][i].chat => i \in InScope(s)
           /\ i \in InScope(s) => \E p \in Fetched(s) : p.index = i
<1>1. PageEnd(s) \in Nat /\ ck[s] \in Nat /\ i \in ck[s] + 1 .. PageEnd(s)
  BY PageEndTyped, LogTyped DEF IngestionInv
<1>2. i \in InScope(s) => Result(s, i) \in Fetched(s) /\ Result(s, i).index = i
  BY <1>1 DEF Fetched, Result
<1>. QED BY <1>1, <1>2 DEF InScope

LEMMA DifferenceStep ==
    ASSUME IngestionInv, NEW s \in Streams, Difference(s)
    PROVE  Fits'
<1>. DEFINE C == Current(s)
<1>0. TypeOK /\ CkFits /\ LogFits
  BY DEF IngestionInv
<1>1. /\ UNCHANGED <<now, log, reg, stamp, ck, records, bodies, barred, up>>
      /\ up /\ work = NoWork /\ ck[s] # Unset /\ C # {} /\ (s \in Channels => Enabled(s))
      /\ page' = [page EXCEPT ![s] = C]
      /\ work' = IF Decide(First(C)) = "none" THEN NoWork
                 ELSE [op |-> Decide(First(C)), event |-> First(C)]
  BY DEF Difference, Idle, telegram, registry, durable
<1>2. /\ C \in SUBSET Results /\ First(C) \in C /\ First(C) \in Results
      /\ \A q \in C : First(C).index <= q.index
  BY <1>0, <1>1, CurrentTyped
<1>3. page'[s] = C /\ \A t \in Streams : t # s => page'[t] = page[t]
  BY <1>0, <1>1 DEF TypeOK
<1>4. C = page[s] \/ C = Fetched(s)
  BY DEF Current
<1>5. LogFits' /\ RegFits' /\ CkFits' /\ RecordFits' /\ DeletedSettled'
  <2>1. now' \in Nat /\ now <= now'
    BY <1>0, <1>1 DEF TypeOK
  <2>. QED BY <1>1, <2>1, LogFrame, RegFrame, CkFrame, RecordFrame, DeletedFrame
           DEF IngestionInv
<1>6. WorkFits' /\ HistoryFits'
  <2>1. First(C).stream = s
    BY <1>1, <1>2, <1>4, FetchedShape DEF IngestionInv, PageShape
  <2>2. Decide(First(C)) \in {"none", "commit", "discard", "advance"}
        /\ (Decide(First(C)) # "none" => ~First(C).pending
                /\ (Decide(First(C)) = "advance" <=> First(C).chat = NoChat))
    BY DEF Decide
  <2>3. CASE Decide(First(C)) = "none"
    BY <1>1, <2>3, NoWorkFits
  <2>4. CASE Decide(First(C)) # "none"
    <3>1. work'.op = Decide(First(C)) /\ work'.event = First(C) /\ up'
      BY <1>1, <2>4
    <3>. HIDE DEF C
    <3>. QED BY <1>2, <1>3, <2>1, <2>2, <2>4, <3>1 DEF WorkFits, HistoryFits
  <2>. QED BY <2>3, <2>4
<1>7. \A t \in Streams : page'[t] = page[t] => Indices(t)' = Indices(t)
  BY DEF Indices
<1>8. CASE C = page[s]
  <2>1. UNCHANGED page
    BY <1>0, <1>1, <1>8 DEF TypeOK
  <2>. QED BY <1>1, <1>5, <1>6, <2>1, PageFrame, PassedFrame DEF IngestionInv, Fits
<1>9. CASE C = Fetched(s)
  <2>0. /\ PageEnd(s) \in Nat /\ ck[s] \in Nat /\ ck[s] <= PageEnd(s)
        /\ PageEnd(s) <= Len(log[s]) /\ Len(log[s]) \in Nat
        /\ DOMAIN log[s] = 1..Len(log[s])
        /\ \A i \in DOMAIN log[s] : i \in Nat /\ log[s][i].chat \in Chats
    BY <1>0, <1>1, PageEndTyped, LogTyped DEF LogEvents
  <2>1. \A p \in C : p.index \in Nat /\ p.to \in Nat /\ p.to <= PageEnd(s) /\ p.index <= PageEnd(s)
    BY <1>1, <1>2, <1>9, FetchedShape DEF Results
  <2>2. ASSUME NEW i \in DOMAIN log[s], i \notin Indices(s)', ck[s] < i, i <= PageEnd(s)
        PROVE  /\ ~Enabled(log[s][i].chat)
               /\ \A p \in C : p.chat # log[s][i].chat
    <3>1. i \notin InScope(s)
      <4>1. \A p \in C : p.index # i
        BY <1>3, <2>2 DEF Indices
      <4>. QED BY <1>1, <1>9, <2>2, <4>1, FetchedWhole
    <3>2. ~Enabled(log[s][i].chat) /\ \A j \in InScope(s) : log[s][j].chat # log[s][i].chat
      BY <1>1, <2>2, <3>1, FetchedWhole
    <3>3. \A p \in C : p.chat # NoChat => p.index \in InScope(s) /\ log[s][p.index].chat = p.chat
      BY <1>1, <1>9, FetchedShape DEF Same
    <3>4. log[s][i].chat # NoChat
      BY <2>0, StreamTyped
    <3>. QED BY <3>2, <3>3, <3>4
  <2>3. PageShape'
    <3>1. ASSUME NEW t \in Streams, NEW p \in page'[t]
          PROVE  /\ up' /\ p.stream = t /\ p.from = ck'[t] /\ ck'[t] <= p.to
                 /\ p.to <= Len(log'[t])
                 /\ t \in Channels => Admitted(t)'
                 /\ p.chat = NoChat => p.index = 0 /\ ~p.pending /\ page'[t] = {p}
                 /\ p.chat # NoChat =>
                        /\ p.index \in DOMAIN log'[t] /\ ck'[t] < p.index
                        /\ Same(log'[t][p.index], p) /\ log'[t][p.index].kind = p.kind
                        /\ IF Text(p) THEN p.at = log'[t][p.index].at
                           ELSE p.at > log'[t][p.index].at
                        /\ IF p.pending THEN t = Account
                           ELSE /\ Admitted(p.chat)'
                                /\ ~Enabled(p.chat)' =>
                                       log'[t][p.index].at <= reg'[p.chat].pausedAt
                 /\ p.to = ck'[t] \/ \A q \in page'[t] : q.index <= p.index /\ p.index <= p.to
                 /\ \A q \in page'[t] : q.index = p.index => q = p
      <4>0. /\ Enabled(p.chat)' <=> Enabled(p.chat)
            /\ \A d \in {p.chat, t} : Admitted(d)' <=> Admitted(d)
        BY <1>1 DEF Enabled, Admitted
      <4>1. CASE t # s
        <5>1. p \in page[t] /\ page'[t] = page[t]
          BY <1>3, <4>1
        <5>2. /\ up /\ p.stream = t /\ p.from = ck[t] /\ ck[t] <= p.to /\ p.to <= Len(log[t])
              /\ t \in Channels => Admitted(t)
              /\ p.chat = NoChat => p.index = 0 /\ ~p.pending /\ page[t] = {p}
              /\ p.chat # NoChat =>
                     /\ p.index \in DOMAIN log[t] /\ ck[t] < p.index
                     /\ Same(log[t][p.index], p) /\ log[t][p.index].kind = p.kind
                     /\ IF Text(p) THEN p.at = log[t][p.index].at
                        ELSE p.at > log[t][p.index].at
                     /\ IF p.pending THEN t = Account
                        ELSE /\ Admitted(p.chat)
                             /\ ~Enabled(p.chat) => log[t][p.index].at <= reg[p.chat].pausedAt
              /\ p.to = ck[t] \/ \A q \in page[t] : q.index <= p.index /\ p.index <= p.to
              /\ \A q \in page[t] : q.index = p.index => q = p
          BY <5>1 DEF IngestionInv, PageShape
        <5>. QED BY <1>1, <4>0, <5>1, <5>2
      <4>2. CASE t = s
        <5>1. p \in Fetched(s) /\ page'[s] = Fetched(s)
          BY <1>3, <1>9, <4>2
        <5>2. /\ p.stream = s /\ p.from = ck[s] /\ ck[s] <= p.to
              /\ p.to <= PageEnd(s) /\ p.to \in Nat
              /\ p.chat = NoChat => p.index = 0 /\ ~p.pending /\ Fetched(s) = {p}
              /\ p.chat # NoChat =>
                     /\ p.index \in DOMAIN log[s] /\ ck[s] < p.index
                     /\ Same(log[s][p.index], p) /\ log[s][p.index].kind = p.kind
                     /\ IF Text(p) THEN p.at = log[s][p.index].at
                        ELSE p.at > log[s][p.index].at
                     /\ IF p.pending THEN s = Account ELSE Enabled(p.chat)
              /\ p.to = ck[s] \/ \A q \in Fetched(s) : q.index <= p.index /\ p.index <= p.to
              /\ \A q \in Fetched(s) : q.index = p.index => q = p
          BY <1>1, <1>9, <2>1, <5>1, FetchedShape
        <5>3. Enabled(p.chat) => Admitted(p.chat)
          BY DEF Enabled, Admitted
        <5>4. p.to <= Len(log[s])
          BY <2>0, <5>2
        <5>5. s \in Channels => Admitted(s)
          BY <1>1 DEF Enabled, Admitted
        <5>. HIDE DEF C
        <5>. QED BY <1>1, <4>0, <4>2, <5>1, <5>2, <5>3, <5>4, <5>5
      <4>. QED BY <4>1, <4>2
    <3>. QED BY <3>1 DEF PageShape
  <2>4. PageClosed'
    <3>. SUFFICES ASSUME NEW t \in Streams, NEW p \in page'[t], NEW q \in page'[t],
                         NEW i \in DOMAIN log[t] \ Indices(t)',
                         log[t][i].chat = p.chat, p.index < i
                  PROVE  q.to < i /\ q.index < i
      BY <1>1 DEF PageClosed
    <3>1. CASE t # s
      BY <1>3, <1>7, <3>1 DEF IngestionInv, PageClosed
    <3>2. CASE t = s
      <4>1. p \in C /\ q \in C /\ i \in DOMAIN log[s] /\ i \notin Indices(s)'
        BY <1>3, <3>2
      <4>2. ck[s] < i
        <5>1. p.chat # NoChat
          BY <2>0, <3>2, <4>1, StreamTyped
        <5>2. ck[s] < p.index
          BY <1>1, <1>9, <4>1, <5>1, FetchedShape
        <5>. QED BY <2>0, <2>1, <4>1, <5>2
      <4>3. ~(i <= PageEnd(s))
        BY <2>2, <3>2, <4>1, <4>2
      <4>. QED BY <2>0, <2>1, <4>1, <4>3
    <3>. QED BY <3>1, <3>2
  <2>5. PageHandled'
    <3>. SUFFICES ASSUME NEW t \in Streams, NEW p \in page'[t],
                         NEW i \in DOMAIN log[t] \ Indices(t)',
                         log[t][i].chat = p.chat, ck[t] < i, i < p.index, ~p.pending,
                         Text(log[t][i])
                  PROVE  Settled(p.chat, i)' \/ Unheard(p.chat, i)'
      BY <1>1 DEF PageHandled, Text
    <3>1. CASE t # s
      <4>1. Settled(p.chat, i) \/ Unheard(p.chat, i)
        BY <1>3, <1>7, <3>1 DEF IngestionInv, PageHandled
      <4>. QED BY <1>1, <4>1
               DEF Settled, Unheard, Rejected, Horizon, Admitted, Enabled, Of, Key
    <3>2. CASE t = s
      <4>1. i <= PageEnd(s)
        BY <1>3, <2>0, <2>1, <3>2
      <4>. QED BY <1>3, <2>2, <3>2, <4>1
    <3>. QED BY <3>1, <3>2
  <2>6. PassedKept'
    <3>. SUFFICES ASSUME NEW d \in Chats, Enabled(d), NEW i \in DOMAIN log[Stream(d)],
                         Passed(Stream(d), i)', log[Stream(d)][i].chat = d,
                         log[Stream(d)][i].at > reg[d].enabledAt
                  PROVE  KeptAt(d, i)'
      BY <1>1 DEF PassedKept, Enabled, KeptAt
    <3>0. Stream(d) \in Streams
      BY StreamTyped
    <3>1. CASE Stream(d) # s
      <4>1. Passed(Stream(d), i)
        BY <1>1, <1>3, <1>7, <3>0, <3>1 DEF Passed
      <4>2. KeptAt(d, i)
        BY <4>1 DEF IngestionInv, PassedKept, KeptAt
      <4>. QED BY <1>1, <4>2 DEF KeptAt, Kept, Of, Barred, Key
    <3>2. CASE Stream(d) = s
      <4>1. i <= ck[s] \/ (i \notin Indices(s)' /\ \E p \in C : i <= p.to)
        BY <1>1, <1>3, <3>2 DEF Passed
      <4>2. i <= ck[s] \/ (i \notin Indices(s)' /\ i <= PageEnd(s) /\ ck[s] < i)
        BY <2>0, <2>1, <3>2, <4>1
      <4>3. i <= ck[s]
        BY <2>2, <3>2, <4>2
      <4>4. KeptAt(d, i)
        BY <3>2, <4>3 DEF IngestionInv, PassedKept, KeptAt, Passed
      <4>. QED BY <1>1, <4>4 DEF KeptAt, Kept, Of, Barred, Key
    <3>. QED BY <3>1, <3>2
  <2>. QED BY <1>5, <1>6, <2>3, <2>4, <2>5, <2>6 DEF Fits
<1>. QED BY <1>4, <1>8, <1>9
-----------------------------------------------------------------------------
LEMMA HistoryStep ==
    ASSUME IngestionInv, NEW c \in Chats, History(c)
    PROVE  Fits'
<1>. DEFINE h == HistoryResult(c, Min(Window(c)))
            s == Stream(c)
<1>0. TypeOK /\ LogFits /\ s \in Streams
  BY StreamTyped DEF IngestionInv
<1>1. /\ UNCHANGED <<now, log, reg, stamp, ck, records, bodies, barred, up, page>>
      /\ up /\ Enabled(c) /\ ~reg[c].resumed
      /\ work' = IF Window(c) = {}
                 THEN [op |-> "complete", event |-> [NoEvent EXCEPT !.chat = c]]
                 ELSE [op |-> IF h.at > reg[c].started THEN "skip" ELSE "history",
                       event |-> h]
  BY DEF History, HistoryOpen, Idle, telegram, registry
<1>2. /\ LogFits' /\ RegFits' /\ CkFits' /\ RecordFits' /\ DeletedSettled'
      /\ PageShape' /\ PageClosed' /\ PageHandled' /\ PassedKept'
  <2>1. now' \in Nat /\ now <= now'
    BY <1>0, <1>1 DEF TypeOK
  <2>. QED BY <1>0, <1>1, <2>1, LogFrame, RegFrame, CkFrame, RecordFrame, DeletedFrame,
              PageFrame, PassedFrame DEF IngestionInv
<1>3. WorkFits' /\ HistoryFits'
  <2>1. CASE Window(c) = {}
    <3>1. work'.op = "complete" /\ work'.event.chat = c
      BY <1>1, <2>1 DEF NoEvent
    <3>. QED BY <1>1, <3>1 DEF WorkFits, HistoryFits
  <2>2. CASE Window(c) # {}
    <3>1. /\ h.chat = c /\ h.msg \in Messages /\ h.kind \in {"create", "edit"} /\ h.at \in Nat
          /\ \A i \in DOMAIN log[s] :
                 Same(log[s][i], h) =>
                     /\ Text(log[s][i])
                     /\ log[s][i].kind = "edit" => log[s][i].at <= h.at
      BY <1>0, <2>2, HistoryTyped
    <3>2. /\ work'.op \in {"skip", "history"} /\ work'.event = h
          /\ work'.op = "history" => ~(h.at > reg[c].started)
      BY <1>1, <2>2
    <3>. HIDE DEF h
    <3>3. WorkFits'
      BY <1>1, <3>1, <3>2 DEF WorkFits
    <3>4. h.at <= reg[c].started \/ h.at > reg[c].started
      BY <1>0, <3>1, RegTyped
    <3>5. \A r \in Of(c, h.msg) : Text(r)
      <4>. SUFFICES ASSUME NEW r \in records, r.chat = c, r.msg = h.msg, ~Text(r) PROVE FALSE
        BY DEF Of
      <4>1. PICK i \in DOMAIN log[s] : Same(log[s][i], r) /\ ~Text(log[s][i])
        BY DEF IngestionInv, RecordFits
      <4>. QED BY <3>1, <4>1 DEF Same
    <3>6. Text(h) /\ Admitted(c)
      BY <1>1, <3>1 DEF Text, Admitted, Enabled
    <3>7. HistoryFits'
      <4>. SUFFICES ASSUME work'.op = "history"
                    PROVE  /\ Text(h) /\ Admitted(c) /\ h.at <= reg[c].started
                           /\ \A r \in Of(c, h.msg) : Text(r)
                           /\ \A i \in DOMAIN log[s] :
                                  Same(log[s][i], h) =>
                                      /\ Text(log[s][i])
                                      /\ log[s][i].kind = "edit" => log[s][i].at <= h.at
        BY <1>1, <3>1, <3>2 DEF HistoryFits, Admitted, Enabled, Of
      <4>. QED BY <3>1, <3>2, <3>4, <3>5, <3>6
    <3>. QED BY <3>3, <3>7
  <2>. QED BY <2>1, <2>2
<1>. QED BY <1>2, <1>3 DEF Fits
-----------------------------------------------------------------------------
(* The transaction of the first event of a page.                           *)
Passing == work.op \in {"commit", "discard", "advance"}

LEMMA FirstFacts ==
    ASSUME IngestionInv, Passing
    PROVE  LET d == work.event
               s == d.stream
           IN  /\ d \in Results /\ s \in Streams /\ d \in page[s] /\ ~d.pending
               /\ d.from = ck[s] /\ ck[s] \in Nat /\ d.to \in Nat /\ d.index \in Nat
               /\ ck[s] <= d.to /\ d.to <= Len(log[s])
               /\ \A q \in page[s] : d.index <= q.index /\ q.index \in Nat /\ q.to \in Nat
               /\ \A q \in page[s] : q.index = d.index => q = d
               /\ d.to # ck[s] => page[s] = {d}
               /\ work.op = "advance" <=> d.chat = NoChat
               /\ d.chat = NoChat => d.index = 0 /\ page[s] = {d}
<1>. DEFINE d == work.event
            s == d.stream
<1>1. d \in Results /\ s \in Streams /\ d \in page[s] /\ ~d.pending
      /\ (\A q \in page[s] : d.index <= q.index) /\ (work.op = "advance" <=> d.chat = NoChat)
  BY DEF IngestionInv, TypeOK, Works, Results, WorkFits, Passing
<1>2. \A q \in page[s] : q.index \in Nat /\ q.to \in Nat /\ q.from \in Nat
  BY <1>1 DEF IngestionInv, TypeOK, Results
<1>3. /\ d.from = ck[s] /\ ck[s] <= d.to /\ d.to <= Len(log[s])
      /\ d.chat = NoChat => d.index = 0 /\ page[s] = {d}
      /\ d.to = ck[s] \/ \A q \in page[s] : q.index <= d.index
      /\ \A q \in page[s] : q.index = d.index => q = d
  BY <1>1 DEF IngestionInv, PageShape
<1>4. d.to # ck[s] => page[s] = {d}
  <2>. SUFFICES ASSUME d.to # ck[s], NEW q \in page[s] PROVE q = d
    BY <1>1
  <2>1. q.index <= d.index /\ d.index <= q.index /\ q.index \in Nat /\ d.index \in Nat
    BY <1>1, <1>2, <1>3
  <2>. QED BY <1>3, <2>1
<1>. QED BY <1>1, <1>2, <1>3, <1>4

LEMMA FirstOfChat ==
    ASSUME IngestionInv, Passing, work.event.chat # NoChat
    PROVE  LET d == work.event
               s == d.stream
               x == log[s][d.index]
           IN  /\ d.chat \in Chats /\ Stream(d.chat) = s /\ d.msg \in Messages
               /\ d.index \in DOMAIN log[s] /\ ck[s] < d.index
               /\ x \in LogEvents /\ x.at \in Nat /\ x.at <= now
               /\ x.chat = d.chat /\ x.msg = d.msg /\ x.kind = d.kind
               /\ Text(d) => d.at = x.at
               /\ d.at \in Nat /\ x.at <= d.at
               /\ Key(x) = Key(d)
               /\ Admitted(d.chat)
               /\ ~Enabled(d.chat) => x.at <= reg[d.chat].pausedAt
<1>. DEFINE d == work.event
            s == d.stream
            x == log[s][d.index]
<1>1. d \in page[s] /\ d \in Results /\ s \in Streams /\ ~d.pending
  BY FirstFacts
<1>2. /\ d.index \in DOMAIN log[s] /\ ck[s] < d.index
      /\ Same(x, d) /\ x.kind = d.kind
      /\ IF Text(d) THEN d.at = x.at ELSE d.at > x.at
      /\ Admitted(d.chat) /\ (~Enabled(d.chat) => x.at <= reg[d.chat].pausedAt)
  BY <1>1 DEF IngestionInv, PageShape
<1>3. x \in LogEvents /\ x.at <= now /\ Stream(x.chat) = s
  BY <1>1, <1>2, LogTyped DEF IngestionInv, LogFits
<1>4. x.at \in Nat /\ d.at \in Nat /\ d.chat \in Chats /\ x.msg \in Messages
  BY <1>1, <1>3 DEF LogEvents, Results
<1>5. x.chat = d.chat /\ x.msg = d.msg
  BY <1>2 DEF Same
<1>6. Key(x) = Key(d)
  <2>1. x.kind = d.kind /\ (d.kind # "delete" => x.at = d.at)
    BY <1>2 DEF Text
  <2>. QED BY Zenon, <1>5, <2>1 DEF Key
<1>. QED BY <1>1, <1>2, <1>3, <1>4, <1>5, <1>6

(* What is not accepted is settled, or nothing of its message is known.    *)
LEMMA DroppedIsSettled ==
    ASSUME IngestionInv, work.op \in {"commit", "discard"}, Text(work.event),
           ~Enabled(work.event.chat) \/ ~Accept(work.event)
    PROVE  Settled(work.event.chat, work.event.index) \/ Unheard(work.event.chat, work.event.index)
<1>. DEFINE d == work.event
            s == d.stream
            c == d.chat
            x == log[s][d.index]
            r == reg[c]
<1>0. Passing /\ d.chat # NoChat
  BY FirstFacts DEF Passing
<1>1. /\ c \in Chats /\ Stream(c) = s
      /\ d.index \in DOMAIN log[s] /\ d.index \in Nat
      /\ x.at \in Nat /\ x.chat = c /\ x.msg = d.msg /\ x.kind = d.kind
      /\ d.at = x.at /\ Admitted(c) /\ (~Enabled(c) => x.at <= r.pausedAt)
      /\ d.from = ck[s] /\ ck[s] \in Nat
  BY <1>0, FirstFacts, FirstOfChat
<1>2. r.boundary \in Nat /\ r.started \in Nat /\ r.resumed \in BOOLEAN
  BY <1>1, RegTyped DEF IngestionInv
<1>3. c \in Groups => Stream(c) = Account /\ c \notin Channels
  BY <1>1, StreamTyped, IngestionAssumption
<1>4. CASE ~Enabled(c)
  BY <1>1, <1>4 DEF Settled, Rejected, Horizon
<1>5. CASE Enabled(c) /\ ~Processable(d)
  <2>1. x.at <= r.started /\ ~ProvenEdit(d)
    BY <1>1, <1>2, <1>5 DEF Processable
  <2>2. c \in Channels /\ x.kind = "edit" /\ ~r.resumed => d.index <= r.boundary
    BY <1>1, <1>2, <1>3, <2>1 DEF ProvenEdit, AfterBoundary
  <2>. QED BY <1>1, <1>5, <2>1, <2>2 DEF Settled, Rejected, Horizon
<1>6. CASE Enabled(c) /\ Processable(d) /\ ~Known(d)
  <2>1. ~AfterBoundary(d) /\ Of(c, d.msg) = {} /\ ~(d.kind = "create" /\ c \in Channels)
    BY <1>6 DEF Known
  <2>2. d.at > r.started
    BY <1>6, <2>1 DEF Processable, ProvenEdit
  <2>3. c \in Groups
    <3>. SUFFICES ASSUME c \notin Groups PROVE FALSE
      OBVIOUS
    <3>1. d.index <= r.boundary
      BY <1>1, <1>2, <2>1, <2>2, StreamTyped DEF AfterBoundary, Chats
    <3>2. d.index \in 1..r.boundary
      BY <1>1, <1>2, <3>1, LogTyped, StreamTyped DEF IngestionInv
    <3>3. log[Stream(c)][d.index].at < r.started
      BY <1>1, <3>2 DEF IngestionInv, RegFits
    <3>. QED BY <1>1, <1>2, <2>2, <3>3
  <2>4. d.kind # "create" /\ ck[Account] < r.boundary
    BY <1>1, <1>2, <1>3, <2>1, <2>2, <2>3 DEF AfterBoundary
  <2>. QED BY <1>1, <2>1, <2>3, <2>4 DEF Unheard
<1>7. CASE Barred(d)
  BY <1>1, <1>7 DEF Settled, Barred
<1>. QED BY <1>4, <1>5, <1>6, <1>7 DEF Accept

(* What is kept stays so while the records stay.                           *)
LEMMA KeptGoesOn ==
    ASSUME NEW c, NEW i, KeptAt(c, i), UNCHANGED <<log, records, barred>>
    PROVE  KeptAt(c, i)'
<1>. PICK x : x = log[Stream(c)][i]
  OBVIOUS
<1>1. Kept(c, x) /\ x = log'[Stream(c)][i]
  BY DEF KeptAt
<1>2. Kept(c, x)'
  BY <1>1 DEF Kept, Of, Barred
<1>. QED BY Zenon, <1>1, <1>2 DEF KeptAt

(* And if it happened since the chat was enabled, it may be dropped.       *)
LEMMA DroppedIsKept ==
    ASSUME IngestionInv, work.op = "commit", Enabled(work.event.chat), ~Accept(work.event),
           log[work.event.stream][work.event.index].at > reg[work.event.chat].enabledAt
    PROVE  KeptAt(work.event.chat, work.event.index)
<1>. DEFINE d == work.event
            s == d.stream
            c == d.chat
            x == log[s][d.index]
            r == reg[c]
<1>0. Passing /\ d.chat # NoChat
  BY FirstFacts DEF Passing
<1>1. /\ c \in Chats /\ Stream(c) = s /\ x.at \in Nat /\ d.at \in Nat /\ x.at <= d.at
      /\ x.chat = c /\ x.msg = d.msg /\ x.kind = d.kind /\ Admitted(c)
  BY <1>0, FirstOfChat
<1>2. r.started <= r.enabledAt /\ r.started \in Nat /\ r.enabledAt \in Nat
  BY <1>1, RegTyped DEF IngestionInv, RegFits
<1>3. d.at > r.started
  BY <1>1, <1>2
<1>4. ~Known(d) \/ Barred(d)
  BY <1>3 DEF Accept, Processable
<1>5. CASE ~Known(d)
  <2>1. Of(c, d.msg) = {} /\ d.kind # "create"
    BY <1>1, <1>3, <1>5 DEF Known, AfterBoundary, Chats
  <2>. QED BY <1>1, <2>1 DEF KeptAt, Kept
<1>6. CASE Barred(d)
  <2>1. x.kind # "delete" /\ <<x.chat, x.msg>> \in barred
    BY Zenon, <1>1, <1>6 DEF Barred
  <2>. QED BY Zenon, <1>1, <2>1 DEF KeptAt, Kept, Barred
<1>. QED BY <1>4, <1>5, <1>6

(* Once one event of a message is accepted, none before it was unheard.    *)
LEMMA AcceptedIsHeard ==
    ASSUME IngestionInv, work.op = "commit", Accept(work.event),
           NEW i \in DOMAIN log[work.event.stream], i < work.event.index,
           Same(log[work.event.stream][i], work.event)
    PROVE  ~Unheard(work.event.chat, i)
<1>. DEFINE d == work.event
            s == d.stream
            c == d.chat
<1>. SUFFICES ASSUME Unheard(c, i) PROVE FALSE
  OBVIOUS
<1>0. Passing /\ d.chat # NoChat
  BY FirstFacts DEF Passing
<1>1. /\ c \in Chats /\ Stream(c) = s /\ d.from = ck[s] /\ ck[s] \in Nat /\ s \in Streams
      /\ d.index \in DOMAIN log[s] /\ Same(log[s][d.index], d) /\ log[s][d.index].kind = d.kind
  BY <1>0, FirstFacts, FirstOfChat DEF Same
<1>2. c \in Groups /\ Of(c, d.msg) = {} /\ ck[Account] < reg[c].boundary
  BY <1>1 DEF Unheard, Same
<1>3. s = Account /\ c \notin Channels /\ reg[c].boundary \in Nat
  BY <1>1, <1>2, StreamTyped, RegTyped, IngestionAssumption DEF IngestionInv
<1>4. d.kind # "create"
  <2>1. Same(log[s][i], log[s][d.index])
    BY <1>1 DEF Same
  <2>. QED BY <1>1, <2>1 DEF IngestionInv, LogFits
<1>5. ~AfterBoundary(d)
  BY <1>1, <1>2, <1>3, <1>4 DEF AfterBoundary
<1>. QED BY <1>2, <1>3, <1>5 DEF Accept, Known
-----------------------------------------------------------------------------
(* The checkpoint moves, the page loses its first event, and the event is  *)
(* perhaps recorded.                                                       *)
Moves ==
    LET d == work.event IN
    /\ Passing
    /\ Move(d) /\ Acknowledge(d)
    /\ UNCHANGED <<now, log, reg, stamp, barred>>
    /\ \/ records' = records
       \/ work.op = "commit" /\ Accept(d) /\ records' = records \cup {Key(d)}

LEMMA MovesPage ==
    ASSUME IngestionInv, Moves
    PROVE  LET d == work.event
               s == d.stream
           IN  /\ page'[s] = page[s] \ {d} /\ ck'[s] = d.to
               /\ \A t \in Streams : t # s => page'[t] = page[t] /\ ck'[t] = ck[t]
               /\ \A t \in Streams : \A q \in page'[t] : q \in page[t] /\ ck'[t] = ck[t]
               /\ \A t \in Streams : ck'[t] = ck[t] \/ (t = s /\ page[s] = {d})
               /\ \A t \in Streams : \A i \in DOMAIN log[t] :
                      /\ t # s \/ i # d.index => (i \in Indices(t)' <=> i \in Indices(t))
                      /\ t = s /\ i = d.index => i \notin Indices(t)'
<1>. DEFINE d == work.event
            s == d.stream
<1>1. page' = [page EXCEPT ![s] = @ \ {d}] /\ ck' = [ck EXCEPT ![s] = d.to]
  BY DEF Moves, Move, Acknowledge
<1>2. page'[s] = page[s] \ {d} /\ ck'[s] = d.to
      /\ \A t \in Streams : t # s => page'[t] = page[t] /\ ck'[t] = ck[t]
  BY <1>1, FirstFacts DEF Moves, IngestionInv, TypeOK
<1>3. d.to # ck[s] => page[s] = {d}
  BY FirstFacts DEF Moves
<1>4. \A t \in Streams : \A q \in page'[t] : q \in page[t] /\ ck'[t] = ck[t]
  BY <1>2, <1>3
<1>5. \A t \in Streams : ck'[t] = ck[t] \/ (t = s /\ page[s] = {d})
  BY <1>2, <1>3
<1>6. \A t \in Streams : t # s => Indices(t)' = Indices(t)
  BY <1>2 DEF Indices
<1>7. ASSUME NEW t \in Streams, t = s
      PROVE  /\ \A i : i # d.index => (i \in Indices(t)' <=> i \in Indices(t))
             /\ d.index \notin Indices(t)'
  <2>1. page'[t] = page[t] \ {d} /\ \A q \in page[t] : q.index = d.index => q = d
    BY <1>2, <1>7, FirstFacts DEF Moves
  <2>. HIDE DEF d
  <2>. QED BY <2>1 DEF Indices
<1>. QED BY <1>2, <1>4, <1>5, <1>6, <1>7

LEMMA MovesSettled ==
    ASSUME IngestionInv, Moves, NEW c \in Chats, NEW i \in DOMAIN log[Stream(c)]
    PROVE  Settled(c, i) => Settled(c, i)'
BY DEF Moves, Settled, Rejected, Horizon, Admitted, Enabled, Key

(* What the page had passed of a message before it is passed by an event   *)
(* that comes earlier.                                                     *)
LEMMA PassedBefore ==
    ASSUME IngestionInv, Passing, NEW i \in DOMAIN log[work.event.stream],
           log[work.event.stream][i].chat = work.event.chat,
           Passed(work.event.stream, i) \/ \E q \in page[work.event.stream] : i < q.index,
           i \notin Indices(work.event.stream)
    PROVE  i < work.event.index
<1>. DEFINE d == work.event
            s == d.stream
<1>1. /\ s \in Streams /\ d \in page[s] /\ d.index \in Nat /\ ck[s] \in Nat
      /\ \A q \in page[s] : q.index \in Nat /\ q.to \in Nat
  BY FirstFacts
<1>2. d.chat # NoChat /\ i \in Nat
  BY <1>1, LogTyped, StreamTyped DEF IngestionInv, LogEvents
<1>3. ck[s] < d.index
  BY <1>2, FirstOfChat
<1>4. i # d.index
  BY <1>1 DEF Indices
<1>5. CASE d.index < i
  <2>1. \A q \in page[s] : q.to < i /\ q.index < i
    BY <1>1, <1>5 DEF IngestionInv, PageClosed
  <2>. QED BY <1>1, <1>2, <1>3, <1>5, <2>1 DEF Passed
<1>. QED BY <1>1, <1>2, <1>4, <1>5

LEMMA MovesPages ==
    ASSUME IngestionInv, Moves,
           LET d == work.event
           IN  d.chat # NoChat /\ Text(d) =>
                   \/ Key(d) \in records' \/ Settled(d.chat, d.index)
                   \/ Unheard(d.chat, d.index) /\ records' = records
    PROVE  PageShape' /\ PageClosed' /\ PageHandled'
<1>. DEFINE d == work.event
            s == d.stream
<1>0. /\ Passing /\ UNCHANGED <<log, reg, barred, up>>
      /\ records' = records \/ (Accept(d) /\ work.op = "commit" /\ records' = records \cup {Key(d)})
  BY DEF Moves, Acknowledge
<1>1. /\ s \in Streams /\ d \in page[s] /\ d.index \in Nat
      /\ \A q \in page[s] : d.index <= q.index /\ q.index \in Nat
      /\ \A q \in page[s] : q.index = d.index => q = d
      /\ (work.op = "commit" => d.chat # NoChat)
  BY <1>0, FirstFacts
<1>2. /\ page'[s] = page[s] \ {d}
      /\ \A t \in Streams : t # s => page'[t] = page[t]
      /\ \A t \in Streams : \A q \in page'[t] : q \in page[t] /\ ck'[t] = ck[t]
      /\ \A t \in Streams : \A i \in DOMAIN log[t] :
             t # s \/ i # d.index => (i \in Indices(t)' <=> i \in Indices(t))
  BY MovesPage
<1>3. PageShape'
  <2>. SUFFICES ASSUME NEW t \in Streams, NEW p \in page'[t], p.chat = NoChat
                PROVE  page'[t] = {p}
    BY <1>0, <1>2 DEF IngestionInv, PageShape, Admitted, Enabled
  <2>1. page[t] = {p}
    BY <1>2 DEF IngestionInv, PageShape
  <2>. QED BY <1>2, <2>1
<1>4. PageClosed'
  <2>. SUFFICES ASSUME NEW t \in Streams, NEW p \in page'[t], NEW q \in page'[t],
                       NEW i \in DOMAIN log[t], i \notin Indices(t)',
                       log[t][i].chat = p.chat, p.index < i
                PROVE  q.to < i /\ q.index < i
    BY <1>0 DEF PageClosed
  <2>1. p \in page[t] /\ q \in page[t]
    BY <1>2
  <2>2. ~(t = s /\ i = d.index)
    BY <1>1, <2>1
  <2>3. i \notin Indices(t)
    BY <1>2, <2>2
  <2>. QED BY <2>1, <2>3 DEF IngestionInv, PageClosed
<1>5. PageHandled'
  <2>. SUFFICES ASSUME NEW t \in Streams, NEW p \in page'[t],
                       NEW i \in DOMAIN log[t], i \notin Indices(t)',
                       log[t][i].chat = p.chat, ck[t] < i, i < p.index, ~p.pending,
                       Text(log[t][i])
                PROVE  Settled(p.chat, i)' \/ Unheard(p.chat, i)'
    BY <1>0, <1>2 DEF PageHandled, Text
  <2>1. p \in page[t] /\ \A u \in Streams : \A q \in page'[u] : ck'[u] = ck[u]
    BY <1>2
  <2>2. p.chat \in Chats /\ Stream(p.chat) = t
    BY LogTyped DEF IngestionInv, LogFits, LogEvents
  <2>3. ASSUME Unheard(p.chat, i), records' = records \/ ~Same(log[t][i], d)
        PROVE  Unheard(p.chat, i)'
    <3>1. ck'[Account] = ck[Account]
      <4>1. t = Account
        BY <2>2, <2>3, StreamTyped DEF Unheard
      <4>. QED BY <2>1, <4>1
    <3>2. Of(p.chat, log[t][i].msg)' = {}
      <4>1. Of(p.chat, log[t][i].msg) = {}
        BY <2>2, <2>3 DEF Unheard
      <4>2. \A r \in records' : r \in records \/ r = Key(d)
        BY <1>0
      <4>3. Key(d).chat = d.chat /\ Key(d).msg = d.msg
        BY DEF Key
      <4>4. \A r \in records' : ~(r.chat = p.chat /\ r.msg = log[t][i].msg)
        BY <1>0, <2>3, <4>1, <4>2, <4>3 DEF Of, Same
      <4>. QED BY <1>0, <4>4 DEF Of
    <3>. QED BY <1>0, <2>2, <2>3, <3>1, <3>2 DEF Unheard
  <2>4. CASE t = s /\ i = d.index
    <3>1. d.chat # NoChat
      BY <1>1, <2>4 DEF IngestionInv, PageShape
    <3>2. /\ log[s][d.index].chat = d.chat /\ log[s][d.index].msg = d.msg
          /\ log[s][d.index].kind = d.kind /\ Key(log[s][d.index]) = Key(d)
      BY <1>0, <3>1, FirstOfChat
    <3>3. d.chat = p.chat /\ Text(d)
      BY <2>4, <3>2 DEF Text
    <3>4. CASE Key(d) \in records'
      <4>1. Key(log'[Stream(p.chat)][i]) \in records'
        BY Zenon, <1>0, <2>2, <2>4, <3>2, <3>4
      <4>. QED BY Zenon, <4>1 DEF Settled
    <3>5. CASE Settled(d.chat, d.index)
      BY <2>2, <2>4, <3>3, <3>5, MovesSettled
    <3>6. CASE Unheard(d.chat, d.index) /\ records' = records
      BY <2>3, <2>4, <3>3, <3>6
    <3>. QED BY <3>1, <3>3, <3>4, <3>5, <3>6
  <2>5. CASE ~(t = s /\ i = d.index)
    <3>1. i \notin Indices(t)
      BY <1>2, <2>5
    <3>2. Settled(p.chat, i) \/ Unheard(p.chat, i)
      BY <2>1, <3>1 DEF IngestionInv, PageHandled
    <3>3. ASSUME Unheard(p.chat, i), records' # records, Same(log[t][i], d) PROVE FALSE
      <4>1. work.op = "commit" /\ Accept(d) /\ p.chat = d.chat /\ t = s
        <5>1. work.op = "commit" /\ Accept(d) /\ p.chat = d.chat
          BY <1>0, <3>3 DEF Same
        <5>. QED BY <1>0, <1>1, <2>2, <5>1, FirstOfChat
      <4>2. i < d.index
        BY <1>0, <2>1, <3>1, <4>1, PassedBefore
      <4>. QED BY <3>3, <4>1, <4>2, AcceptedIsHeard
    <3>. QED BY <2>2, <2>3, <3>2, <3>3, MovesSettled
  <2>. QED BY <2>4, <2>5
<1>. QED BY <1>3, <1>4, <1>5

LEMMA MovesRecords ==
    ASSUME IngestionInv, Moves
    PROVE  RecordFits'
<1>. DEFINE d == work.event
            s == d.stream
<1>0. /\ Passing /\ UNCHANGED <<now, log, reg>>
      /\ records' = records \/ (work.op = "commit" /\ Accept(d) /\ records' = records \cup {Key(d)})
  BY DEF Moves
<1>1. \A e : (Admitted(e)' <=> Admitted(e))
  BY <1>0 DEF Admitted
<1>2. CASE records' = records
  BY <1>0, <1>2, RecordFrame DEF IngestionInv
<1>3. CASE work.op = "commit" /\ Accept(d) /\ records' = records \cup {Key(d)}
  <2>1. d.chat # NoChat
    BY <1>0, <1>3, FirstFacts
  <2>2. /\ d.chat \in Chats /\ Stream(d.chat) = s /\ d.index \in DOMAIN log[s]
        /\ log[s][d.index].chat = d.chat /\ log[s][d.index].msg = d.msg
        /\ log[s][d.index].kind = d.kind /\ log[s][d.index].at <= now
        /\ (Text(d) => d.at = log[s][d.index].at)
    BY <1>0, <2>1, FirstOfChat
  <2>3. /\ Key(d).chat = d.chat /\ Key(d).msg = d.msg /\ Key(d).kind = d.kind
        /\ (Text(d) => Key(d).at = d.at) /\ (Text(Key(d)) <=> Text(d))
    BY DEF Key, Text
  <2>4. Enabled(d.chat) /\ Admitted(d.chat) /\ reg[d.chat].state # "paused"
    BY <1>3 DEF Accept, Enabled, Admitted
  <2>5. ASSUME NEW r \in records'
        PROVE  /\ Admitted(r.chat)'
               /\ Text(r) => /\ r.at <= now'
                             /\ reg'[r.chat].state = "paused" => r.at <= reg'[r.chat].pausedAt
               /\ ~Text(r) => \E i \in DOMAIN log'[Stream(r.chat)] :
                                  /\ Same(log'[Stream(r.chat)][i], r)
                                  /\ ~Text(log'[Stream(r.chat)][i])
    <3>1. CASE r \in records
      BY <1>0, <1>1, <3>1 DEF IngestionInv, RecordFits
    <3>2. CASE r = Key(d)
      <4>1. Admitted(r.chat)' /\ r.chat = d.chat /\ r.msg = d.msg /\ r.kind = d.kind
        BY <1>1, <2>3, <2>4, <3>2
      <4>2. Text(r) => r.at <= now
        BY <2>2, <2>3, <3>2
      <4>3. Same(log[s][d.index], r) /\ (~Text(r) => ~Text(log[s][d.index]))
        BY <2>2, <4>1 DEF Same, Text
      <4>. HIDE DEF d
      <4>. QED BY <1>0, <2>2, <2>4, <4>1, <4>2, <4>3
    <3>. QED BY <1>3, <3>1, <3>2
  <2>. QED BY <2>5 DEF RecordFits
<1>. QED BY <1>0, <1>2, <1>3

LEMMA MovesPassed ==
    ASSUME IngestionInv, Moves,
           LET d == work.event
           IN  /\ d.chat # NoChat /\ Enabled(d.chat)
               /\ log[d.stream][d.index].at > reg[d.chat].enabledAt
               => Key(d) \in records' \/ (KeptAt(d.chat, d.index) /\ records' = records)
    PROVE  PassedKept'
<1>. DEFINE d == work.event
            s == d.stream
<1>0. /\ Passing /\ UNCHANGED <<log, reg, barred>>
      /\ records' = records \/ (work.op = "commit" /\ Accept(d) /\ records' = records \cup {Key(d)})
  BY DEF Moves
<1>1. /\ s \in Streams /\ d \in page[s] /\ d.index \in Nat
      /\ ck[s] \in Nat /\ d.to \in Nat /\ ck[s] <= d.to
      /\ (work.op = "commit" => d.chat # NoChat)
      /\ (d.chat = NoChat => d.index = 0)
  BY <1>0, FirstFacts
<1>2. /\ page'[s] = page[s] \ {d} /\ ck'[s] = d.to
      /\ \A t \in Streams : t # s => page'[t] = page[t] /\ ck'[t] = ck[t]
      /\ \A t \in Streams : ck'[t] = ck[t] \/ (t = s /\ page[s] = {d})
      /\ \A t \in Streams : \A i \in DOMAIN log[t] :
             t # s \/ i # d.index => (i \in Indices(t)' <=> i \in Indices(t))
  BY MovesPage
<1>3. ASSUME NEW t \in Streams, NEW i \in DOMAIN log[t], Passed(t, i)'
      PROVE  Passed(t, i) \/ (t = s /\ i = d.index)
  <2>1. i <= ck'[t] \/ (i \notin Indices(t)' /\ \E p \in page'[t] : i <= p.to)
    BY <1>3 DEF Passed
  <2>2. CASE i \notin Indices(t)' /\ \E p \in page'[t] : i <= p.to
    <3>1. \E p \in page[t] : i <= p.to
      BY <1>2, <2>2
    <3>. QED BY <1>2, <2>2, <3>1 DEF Passed
  <2>3. CASE i <= ck[t]
    BY <2>3 DEF Passed
  <2>4. CASE i <= ck'[t] /\ ck'[t] # ck[t]
    <3>1. t = s /\ page[s] = {d} /\ i <= d.to
      BY <1>2, <2>4
    <3>2. i \in Indices(s) => i = d.index
      BY <3>1 DEF Indices
    <3>. QED BY <3>1, <3>2 DEF Passed
  <2>. QED BY <2>1, <2>2, <2>3, <2>4
<1>. SUFFICES ASSUME NEW c \in Chats, Enabled(c), NEW i \in DOMAIN log[Stream(c)],
                     Passed(Stream(c), i)', log[Stream(c)][i].chat = c,
                     log[Stream(c)][i].at > reg[c].enabledAt
              PROVE  KeptAt(c, i)'
  BY <1>0 DEF PassedKept, Enabled, KeptAt
<1>4. Stream(c) \in Streams /\ log[Stream(c)][i].at \in Nat
  BY StreamTyped, LogTyped DEF IngestionInv, LogEvents
<1>5. CASE Passed(Stream(c), i) /\ ~(Stream(c) = s /\ i = d.index)
  <2>1. KeptAt(c, i)
    BY <1>5 DEF IngestionInv, PassedKept, KeptAt
  <2>2. CASE records' = records
    BY Zenon, <1>0, <2>1, <2>2, KeptGoesOn
  <2>3. CASE Accept(d) /\ work.op = "commit" /\ records' = records \cup {Key(d)}
    <3>1. ASSUME Same(log[Stream(c)][i], d), d.kind # "delete" PROVE Key(d).at > log[Stream(c)][i].at
      <4>1. d.chat = c /\ Stream(c) = s /\ d.chat # NoChat
        BY <1>0, <1>1, <2>3, <3>1, FirstOfChat DEF Same
      <4>2. i \in Nat /\ ~(i \in Indices(s) /\ i < d.index)
        <5>1. \A q \in page[s] : d.index <= q.index /\ q.index \in Nat
          BY <1>0, FirstFacts
        <5>2. i \in Nat
          BY <4>1, <1>1, LogTyped DEF IngestionInv
        <5>. QED BY <1>1, <5>1, <5>2 DEF Indices
      <4>3. i < d.index
        <5>1. ck[s] < d.index
          BY <1>0, <4>1, FirstOfChat
        <5>2. CASE i <= ck[s]
          BY <1>1, <4>2, <5>1, <5>2
        <5>3. CASE i \notin Indices(s)
          BY <1>0, <1>5, <4>1, <5>3, PassedBefore
        <5>. QED BY <1>5, <4>1, <5>2, <5>3 DEF Passed
      <4>4. /\ d.index \in DOMAIN log[s] /\ d.at \in Nat /\ log[s][d.index].at \in Nat
            /\ log[s][d.index].at <= d.at
        BY <1>0, <4>1, FirstOfChat
      <4>5. log[s][i].at < log[s][d.index].at
        BY <1>1, <4>1, <4>3, <4>4 DEF IngestionInv, LogFits
      <4>6. Key(d).at = d.at
        BY <3>1 DEF Key
      <4>. QED BY <1>4, <4>1, <4>4, <4>5, <4>6
    <3>2. Key(d).chat = d.chat /\ Key(d).msg = d.msg /\ Key(d).kind = d.kind
      BY DEF Key
    <3>3. ASSUME \A r \in Of(c, log[Stream(c)][i].msg) : r.kind = "delete" \/ r.at > log[Stream(c)][i].at,
                 NEW r \in records', r.chat = c, r.msg = log[Stream(c)][i].msg
          PROVE  r.kind = "delete" \/ r.at > log[Stream(c)][i].at
      <4>1. CASE r \in records
        BY <3>3, <4>1 DEF Of
      <4>2. CASE r = Key(d)
        BY <3>1, <3>2, <3>3, <4>2 DEF Same
      <4>. QED BY <2>3, <4>1, <4>2
    <3>4. CASE Key(log[Stream(c)][i]) \in records \/ Barred(log[Stream(c)][i])
      BY <1>0, <2>3, <3>4 DEF KeptAt, Kept, Barred, Key
    <3>5. CASE /\ log[Stream(c)][i].kind # "create"
               /\ \A r \in Of(c, log[Stream(c)][i].msg) :
                      r.kind = "delete" \/ r.at > log[Stream(c)][i].at
      BY <1>0, <3>3, <3>5 DEF KeptAt, Kept, Of
    <3>. QED BY <2>1, <3>4, <3>5 DEF KeptAt, Kept
  <2>. QED BY <1>0, <2>2, <2>3
<1>6. CASE Stream(c) = s /\ i = d.index
  <2>1. d.chat # NoChat
    BY <1>1, <1>4, <1>6, LogTyped DEF IngestionInv
  <2>2. d.chat = c /\ Key(log[Stream(c)][i]) = Key(d)
    BY <1>0, <1>6, <2>1, FirstOfChat
  <2>3. CASE Key(d) \in records'
    BY <1>0, <2>2, <2>3 DEF KeptAt, Kept, Key
  <2>4. CASE KeptAt(d.chat, d.index) /\ records' = records
    <3>1. KeptAt(c, i)
      BY Zenon, <1>6, <2>2, <2>4
    <3>. QED BY Zenon, <1>0, <2>4, <3>1, KeptGoesOn
  <2>. QED BY <1>6, <2>1, <2>2, <2>3, <2>4
<1>. QED BY <1>3, <1>4, <1>5, <1>6

LEMMA MovesDeleted ==
    ASSUME IngestionInv, Moves
    PROVE  DeletedSettled'
<1>. DEFINE d == work.event
            s == d.stream
<1>0. /\ Passing /\ UNCHANGED <<log, reg, barred>>
      /\ records' = records \/ (work.op = "commit" /\ Accept(d) /\ records' = records \cup {Key(d)})
  BY DEF Moves
<1>1. /\ s \in Streams /\ d \in page[s] /\ d.index \in Nat /\ ~d.pending
      /\ ck[s] \in Nat /\ d.to \in Nat /\ ck[s] <= d.to
      /\ (work.op = "commit" => d.chat # NoChat)
      /\ \A q \in page[s] : d.index <= q.index /\ q.index \in Nat
  BY <1>0, FirstFacts
<1>2. ck'[s] = d.to /\ \A t \in Streams : t # s => ck'[t] = ck[t]
  BY MovesPage
<1>. SUFFICES ASSUME NEW r \in records', ~Text(r), NEW i \in DOMAIN log[Stream(r.chat)],
                     ck'[Stream(r.chat)] < i, Same(log[Stream(r.chat)][i], r),
                     Text(log[Stream(r.chat)][i])
              PROVE  Settled(r.chat, i)'
  BY <1>0 DEF DeletedSettled, Text
<1>3. CASE r \in records
  <2>1. r.chat \in Chats
    BY <1>3 DEF IngestionInv, TypeOK, LogEvents
  <2>2. Stream(r.chat) \in Streams /\ i \in Nat /\ ck[Stream(r.chat)] \in Nat \cup {Unset}
    BY <2>1, StreamTyped, LogTyped DEF IngestionInv, TypeOK
  <2>3. ck[Stream(r.chat)] < i
    BY <1>1, <1>2, <2>2
  <2>4. Settled(r.chat, i)
    BY <1>3, <2>3 DEF IngestionInv, DeletedSettled
  <2>. QED BY <2>1, <2>4, MovesSettled
<1>4. CASE work.op = "commit" /\ Accept(d) /\ r = Key(d)
  <2>1. /\ d.chat \in Chats /\ Stream(d.chat) = s /\ d.index \in DOMAIN log[s]
        /\ log[s][d.index].chat = d.chat /\ log[s][d.index].msg = d.msg
        /\ log[s][d.index].kind = d.kind
    BY <1>0, <1>1, <1>4, FirstOfChat
  <2>2. r.chat = d.chat /\ r.msg = d.msg /\ ~Text(d)
    BY <1>4 DEF Key, Text
  <2>3. Same(log[s][d.index], log[s][i]) /\ Same(log[s][i], d) /\ ~Text(log[s][d.index])
    BY <2>1, <2>2 DEF Same, Text
  <2>4. i \in DOMAIN log[s] /\ i \in Nat /\ d.index # i /\ Text(log[s][i]) /\ log[s][i].chat = d.chat
    BY <1>1, <2>1, <2>2, <2>3, LogTyped DEF IngestionInv, Same
  <2>5. ~(d.index < i)
    BY <1>1, <2>1, <2>3, <2>4 DEF IngestionInv, LogFits, Text
  <2>6. i < d.index /\ ck[s] < i
    BY <1>1, <1>2, <2>1, <2>2, <2>4, <2>5
  <2>7. i \notin Indices(s)
    BY <1>1, <2>4, <2>6 DEF Indices
  <2>8. Settled(d.chat, i) \/ Unheard(d.chat, i)
    BY <1>1, <2>4, <2>6, <2>7 DEF IngestionInv, PageHandled
  <2>9. ~Unheard(d.chat, i)
    BY <1>4, <2>3, <2>4, <2>6, AcceptedIsHeard
  <2>10. Settled(r.chat, i) /\ r.chat \in Chats
    BY <2>1, <2>2, <2>8, <2>9
  <2>. QED BY <2>10, MovesSettled
<1>. QED BY <1>0, <1>3, <1>4

LEMMA MovesStep ==
    ASSUME IngestionInv, Moves,
           LET d == work.event
           IN  /\ d.chat # NoChat /\ Text(d) =>
                      \/ Key(d) \in records' \/ Settled(d.chat, d.index)
                      \/ Unheard(d.chat, d.index) /\ records' = records
               /\ d.chat # NoChat /\ Enabled(d.chat)
                  /\ log[d.stream][d.index].at > reg[d.chat].enabledAt
                  => Key(d) \in records' \/ (KeptAt(d.chat, d.index) /\ records' = records)
    PROVE  Fits'
<1>1. /\ UNCHANGED <<now, log, reg, stamp>> /\ work' = NoWork
      /\ now' \in Nat /\ now <= now'
  BY DEF Moves, Acknowledge, IngestionInv, TypeOK
<1>2. LogFits' /\ RegFits' /\ WorkFits' /\ HistoryFits'
  BY <1>1, LogFrame, RegFrame, NoWorkFits DEF IngestionInv
<1>3. CkFits'
  <2>1. ck'[work.event.stream] = work.event.to
        /\ \A t \in Streams : t # work.event.stream => ck'[t] = ck[t]
    BY MovesPage
  <2>2. work.event.to <= Len(log[work.event.stream])
    BY FirstFacts DEF Moves
  <2>. QED BY <1>1, <2>1, <2>2 DEF IngestionInv, CkFits
<1>4. PageShape' /\ PageClosed' /\ PageHandled'
  BY MovesPages
<1>5. RecordFits' /\ PassedKept' /\ DeletedSettled'
  BY MovesRecords, MovesPassed, MovesDeleted
<1>. QED BY <1>2, <1>3, <1>4, <1>5 DEF Fits
-----------------------------------------------------------------------------
(* Transactions that leave the checkpoints and the records.                *)
LEMMA LeaveStep ==
    ASSUME IngestionInv, Leave \/ Down, UNCHANGED <<now, log, reg, stamp, ck, records, barred>>
    PROVE  Fits'
<1>1. work' = NoWork
  BY DEF Leave, Down
<1>2. LogFits' /\ RegFits' /\ CkFits' /\ RecordFits' /\ DeletedSettled'
      /\ WorkFits' /\ HistoryFits'
  <2>1. now' \in Nat /\ now <= now'
    BY DEF IngestionInv, TypeOK
  <2>. QED BY <1>1, <2>1, LogFrame, RegFrame, CkFrame, RecordFrame, DeletedFrame, NoWorkFits
           DEF IngestionInv
<1>3. CASE Leave
  BY <1>2, <1>3, PageFrame, PassedFrame DEF IngestionInv, Fits, Leave
<1>4. CASE Down
  <2>1. \A s \in Streams : page'[s] = {}
    BY <1>4 DEF Down
  <2>. QED BY <1>2, <2>1, NoPage, PassedFewer DEF IngestionInv, Fits
<1>. QED BY <1>3, <1>4

LEMMA CommitStep ==
    ASSUME IngestionInv, Commit
    PROVE  Fits'
<1>. DEFINE d == work.event
<1>0. /\ work.op = "commit" /\ Passing /\ d.chat # NoChat
      /\ UNCHANGED <<now, log, reg, stamp, barred>>
  BY FirstFacts DEF Commit, Passing, telegram, registry
<1>1. CASE Refused(d)
  BY <1>0, <1>1, LeaveStep DEF Commit
<1>2. CASE ~Refused(d) /\ ~Accept(d)
  <2>1. Moves /\ records' = records
    BY <1>0, <1>2 DEF Commit, Moves
  <2>. QED BY <1>0, <1>2, <2>1, MovesStep, DroppedIsSettled, DroppedIsKept
<1>3. CASE ~Refused(d) /\ Accept(d) /\ Conflict(d)
  BY <1>0, <1>3, LeaveStep DEF Commit
<1>4. CASE ~Refused(d) /\ Accept(d) /\ ~Conflict(d)
  <2>1. Move(d) /\ Acknowledge(d) /\ Record(d)
    BY <1>4 DEF Commit
  <2>2. records' = records \cup {Key(d)}
    BY <2>1 DEF Record
  <2>3. Moves /\ Key(d) \in records'
    BY <1>0, <1>4, <2>1, <2>2 DEF Moves
  <2>. QED BY <2>3, MovesStep
<1>. QED BY <1>1, <1>2, <1>3, <1>4

LEMMA PassStep ==
    ASSUME IngestionInv, Pass
    PROVE  Fits'
<1>. DEFINE d == work.event
<1>0. /\ work.op \in {"discard", "advance"} /\ Passing
      /\ UNCHANGED <<now, log, reg, stamp, records, barred>>
  BY DEF Pass, Passing, telegram, registry
<1>1. CASE ~MayPass(d)
  BY <1>0, <1>1, LeaveStep DEF Pass
<1>2. CASE MayPass(d)
  <2>1. Moves
    BY <1>0, <1>2 DEF Pass, Moves
  <2>2. d.chat # NoChat => work.op = "discard"
    BY <1>0, FirstFacts
  <2>3. d.chat # NoChat => ~Enabled(d.chat)
    BY <1>2, <2>2 DEF MayPass
  <2>4. d.chat # NoChat /\ Text(d) => Settled(d.chat, d.index) \/ Unheard(d.chat, d.index)
    BY <2>2, <2>3, DroppedIsSettled
  <2>. QED BY <1>0, <2>1, <2>3, <2>4, MovesStep
<1>. QED BY <1>1, <1>2
-----------------------------------------------------------------------------
(* A message of the history is recorded: no later change of it has been    *)
(* passed, and an earlier one is as old as the start.                      *)
LEMMA HistoryRecorded ==
    ASSUME IngestionInv, work.op = "history", Enabled(work.event.chat),
           ~reg[work.event.chat].resumed, records' = records \cup {Key(work.event)},
           work' = NoWork, UNCHANGED <<now, log, reg, stamp, ck, barred, page, up>>
    PROVE  Fits'
<1>. DEFINE e == work.event
            c == e.chat
            s == Stream(c)
            k == Key(e)
<1>1. /\ c \in Chats /\ s \in Streams /\ Admitted(c) /\ Text(e)
      /\ e.at <= reg[c].started /\ e.at \in Nat
      /\ \A i \in DOMAIN log[s] :
             Same(log[s][i], e) /\ Seen(s, i) =>
                 /\ Text(log[s][i])
                 /\ log[s][i].kind = "edit" => log[s][i].at <= e.at
  <2>1. c \in Chats
    BY DEF IngestionInv, WorkFits
  <2>2. e.at \in Nat
    BY DEF IngestionInv, TypeOK, Works, Results
  <2>. QED BY <2>1, <2>2, StreamTyped DEF IngestionInv, HistoryFits
<1>2. k.chat = c /\ k.msg = e.msg /\ k.kind = e.kind /\ k.at = e.at /\ Text(k)
  BY <1>1 DEF Key, Text
<1>3. /\ reg[c].started \in Nat /\ reg[c].enabledAt \in Nat /\ now \in Nat
      /\ reg[c].started <= reg[c].enabledAt /\ reg[c].enabledAt <= now
      /\ reg[c].state = "enabled"
  BY <1>1, RegTyped DEF IngestionInv, RegFits, Enabled
<1>. HIDE DEF k
<1>4. /\ \A s2 : Indices(s2)' = Indices(s2)
      /\ \A d : (Admitted(d)' <=> Admitted(d)) /\ (Enabled(d)' <=> Enabled(d))
      /\ records' = records \cup {k}
  BY DEF Indices, Admitted, Enabled, k
<1>5. ASSUME NEW d \in Chats, NEW i \in DOMAIN log[Stream(d)]
      PROVE  Settled(d, i) => Settled(d, i)'
  BY <1>4 DEF Settled, Rejected, Horizon, Key
<1>6. LogFits' /\ RegFits' /\ CkFits' /\ WorkFits' /\ HistoryFits'
  <2>1. now' \in Nat /\ now <= now'
    BY <1>3
  <2>. QED BY <2>1, LogFrame, RegFrame, CkFrame, NoWorkFits DEF IngestionInv
<1>7. RecordFits'
  <2>1. e.at <= now
    BY <1>1, <1>3
  <2>2. ASSUME NEW r \in records'
        PROVE  /\ Admitted(r.chat)'
               /\ Text(r) => /\ r.at <= now'
                             /\ reg'[r.chat].state = "paused" => r.at <= reg'[r.chat].pausedAt
               /\ ~Text(r) => \E i \in DOMAIN log'[Stream(r.chat)] :
                                  /\ Same(log'[Stream(r.chat)][i], r)
                                  /\ ~Text(log'[Stream(r.chat)][i])
    <3>1. CASE r \in records
      BY <1>4, <3>1 DEF IngestionInv, RecordFits
    <3>2. CASE r = k
      BY <1>1, <1>2, <1>3, <1>4, <2>1, <3>2
    <3>. QED BY <1>4, <3>1, <3>2
  <2>. QED BY <2>2 DEF RecordFits
<1>8. PageShape'
  BY <1>4 DEF IngestionInv, PageShape
<1>9. PageClosed'
  BY <1>4 DEF IngestionInv, PageClosed
<1>10. PageHandled'
  <2>. SUFFICES ASSUME NEW t \in Streams, NEW p \in page[t],
                       NEW i \in DOMAIN log[t], i \notin Indices(t),
                       log[t][i].chat = p.chat, ck[t] < i, i < p.index, ~p.pending,
                       Text(log[t][i])
                PROVE  Settled(p.chat, i)' \/ Unheard(p.chat, i)'
    BY <1>4 DEF PageHandled, Text
  <2>1. /\ p.chat \in Chats /\ Stream(p.chat) = t /\ i \in Nat /\ p.index \in Nat
        /\ log[t][i] \in LogEvents
    <3>1. log[t][i] \in LogEvents /\ i \in Nat /\ Stream(log[t][i].chat) = t
      BY LogTyped DEF IngestionInv, LogFits
    <3>2. p.index \in Nat
      BY DEF IngestionInv, TypeOK, Results
    <3>. QED BY <3>1, <3>2 DEF LogEvents
  <2>2. Settled(p.chat, i) \/ Unheard(p.chat, i)
    BY DEF IngestionInv, PageHandled
  <2>3. CASE Settled(p.chat, i)
    BY <1>5, <2>1, <2>3
  <2>4. CASE Unheard(p.chat, i) /\ ~Same(log[t][i], e)
    <3>1. Of(p.chat, log[t][i].msg) = {}
      BY <2>1, <2>4 DEF Unheard
    <3>2. \A r \in records' : ~(r.chat = p.chat /\ r.msg = log[t][i].msg)
      BY <1>2, <1>4, <2>4, <3>1 DEF Of, Same
    <3>3. Of(p.chat, log[t][i].msg)' = {}
      BY <3>2 DEF Of
    <3>. QED BY <2>1, <2>4, <3>3 DEF Unheard
  <2>5. CASE Unheard(p.chat, i) /\ Same(log[t][i], e)
    <3>1. c = p.chat /\ s = t /\ log[t][i].kind # "create" /\ c \in Groups
      BY <2>1, <2>5 DEF Same, Unheard
    <3>2. Seen(s, i)
      BY <2>1, <3>1 DEF Seen
    <3>3. log[t][i].kind = "edit" /\ log[t][i].at \in Nat
      BY <2>1, <3>1 DEF Text, LogEvents, Kinds
    <3>4. log[t][i].at <= reg[c].started
      BY <1>1, <1>3, <2>5, <3>1, <3>2, <3>3
    <3>5. c \notin Channels
      BY <3>1, IngestionAssumption
    <3>6. Rejected(p.chat, i)
      BY <1>1, <3>1, <3>4, <3>5 DEF Rejected, Horizon
    <3>. QED BY <1>5, <2>1, <3>6 DEF Settled
  <2>. QED BY <2>2, <2>3, <2>4, <2>5
<1>11. PassedKept'
  <2>. SUFFICES ASSUME NEW d \in Chats, Enabled(d), NEW i \in DOMAIN log[Stream(d)],
                       Passed(Stream(d), i), log[Stream(d)][i].chat = d,
                       log[Stream(d)][i].at > reg[d].enabledAt
                PROVE  KeptAt(d, i)'
    BY <1>4 DEF PassedKept, KeptAt, Passed
  <2>1. KeptAt(d, i)
    BY DEF IngestionInv, PassedKept, KeptAt
  <2>2. Stream(d) \in Streams /\ log[Stream(d)][i] \in LogEvents
    BY StreamTyped, LogTyped DEF IngestionInv
  <2>3. CASE Key(log[Stream(d)][i]) \in records \/ Barred(log[Stream(d)][i])
    BY <1>4, <2>3 DEF KeptAt, Kept, Barred, Key
  <2>4. CASE /\ log[Stream(d)][i].kind # "create"
             /\ \A r \in Of(d, log[Stream(d)][i].msg) :
                    r.kind = "delete" \/ r.at > log[Stream(d)][i].at
    <3>1. ~Same(log[Stream(d)][i], e)
      <4>. SUFFICES ASSUME Same(log[Stream(d)][i], e) PROVE FALSE
        OBVIOUS
      <4>1. d = c
        BY DEF Same
      <4>2. Seen(s, i)
        BY <4>1 DEF Passed, Seen
      <4>3. log[s][i].kind = "edit" /\ log[s][i].at \in Nat /\ log[s][i].at <= e.at
        <5>1. PICK x : x = log[s][i]
          OBVIOUS
        <5>2. x.kind # "delete"
          BY <1>1, <4>1, <4>2, <5>1 DEF Text
        <5>3. x \in LogEvents /\ x.kind # "create"
          BY <2>2, <2>4, <4>1, <5>1
        <5>4. x.kind = "edit" /\ x.at \in Nat
          BY <5>2, <5>3 DEF LogEvents, Kinds
        <5>5. x.at <= e.at
          BY <1>1, <4>1, <4>2, <5>1, <5>4
        <5>. QED BY Zenon, <5>1, <5>4, <5>5
      <4>. QED BY <1>1, <1>3, <4>1, <4>3
    <3>2. ASSUME NEW r \in records', r.chat = d, r.msg = log[Stream(d)][i].msg
          PROVE  r.kind = "delete" \/ r.at > log[Stream(d)][i].at
      BY <1>2, <1>4, <2>4, <3>1, <3>2 DEF Of, Same
    <3>. QED BY <2>4, <3>2 DEF KeptAt, Kept, Of
  <2>. QED BY <2>1, <2>3, <2>4 DEF KeptAt, Kept
<1>12. DeletedSettled'
  <2>. SUFFICES ASSUME NEW r \in records', ~Text(r), NEW i \in DOMAIN log[Stream(r.chat)],
                       ck[Stream(r.chat)] < i, Same(log[Stream(r.chat)][i], r),
                       Text(log[Stream(r.chat)][i])
                PROVE  Settled(r.chat, i)'
    BY DEF DeletedSettled, Text
  <2>1. r \in records
    BY <1>2, <1>4
  <2>2. Settled(r.chat, i) /\ r.chat \in Chats
    BY <2>1 DEF IngestionInv, DeletedSettled, TypeOK, LogEvents
  <2>. QED BY <1>5, <2>2
<1>. QED BY <1>6, <1>7, <1>8, <1>9, <1>10, <1>11, <1>12 DEF Fits

LEMMA HistoryCommitStep ==
    ASSUME IngestionInv, CommitHistory \/ CompleteHistory
    PROVE  Fits'
<1>. DEFINE e == work.event
<1>0. UNCHANGED <<now, log, reg, stamp, ck, barred>>
  BY DEF CommitHistory, CompleteHistory, telegram, registry
<1>1. CASE records' = records /\ (Leave \/ Down)
  BY <1>0, <1>1, LeaveStep
<1>2. CASE /\ work.op = "history" /\ Enabled(e.chat) /\ ~reg[e.chat].resumed
           /\ Record(e) /\ Leave
  <2>1. records' = records \cup {Key(e)} /\ work' = NoWork /\ UNCHANGED <<page, up>>
    BY <1>2 DEF Record, Leave
  <2>. QED BY <1>0, <1>2, <2>1, HistoryRecorded
<1>. QED BY <1>1, <1>2 DEF CommitHistory, CompleteHistory
-----------------------------------------------------------------------------
LEMMA InitFits ==
    ASSUME Init
    PROVE  IngestionInv
<1>1. Account \in Streams /\ NoWork \in Works /\ Unknown \in Entries
  BY DEF Streams, NoWork, NoEvent, Works, Results, Kinds, Unknown, Entries, NoChat
<1>2. \A s \in Streams : log[s] = <<>> /\ page[s] = {} /\ DOMAIN log[s] = {}
  BY DEF Init
<1>3. TypeOK
  BY <1>1 DEF Init, TypeOK, Unset
<1>4. \A c \in Chats : reg[c].state = "unknown" /\ stamp[c] = 0 /\ ~Enabled(c) /\ ~Admitted(c)
                       /\ Stream(c) \in Streams
  BY StreamTyped DEF Init, Unknown, Enabled, Admitted
<1>5. \A s \in Streams : Len(log[s]) = 0
  BY <1>2
<1>6. now = 0 /\ records = {} /\ work = NoWork /\ \A s \in Streams : ck[s] <= 0
  BY DEF Init, Unset
<1>7. LogFits /\ CkFits
  BY <1>2, <1>5, <1>6 DEF LogFits, CkFits
<1>8. RegFits
  BY <1>4, <1>6 DEF RegFits
<1>9. RecordFits /\ DeletedSettled /\ HistoryFits /\ WorkFits
  BY <1>6 DEF RecordFits, DeletedSettled, HistoryFits, WorkFits, NoWork
<1>10. PageShape /\ PageClosed /\ PageHandled
  BY <1>2 DEF PageShape, PageClosed, PageHandled
<1>11. PassedKept
  BY <1>4 DEF PassedKept
<1>. QED BY <1>3, <1>7, <1>8, <1>9, <1>10, <1>11 DEF IngestionInv

LEMMA StepFits ==
    ASSUME IngestionInv, [Next]_vars
    PROVE  IngestionInv'
<1>0. IngestionInv' <=> TypeOK' /\ Fits'
  BY DEF IngestionInv, Fits
<1>1. CASE Environment
  <2>1. ASSUME NEW c \in Chats, NEW m \in Messages, NEW k \in Kinds, Happen(c, m, k)
        PROVE  IngestionInv'
    BY <1>0, <2>1, ApplicationTypes, HappenStep
  <2>2. ASSUME NEW c \in Chats, Pause(c) \/ Refuse(c) \/ ReadClock(c) \/ Seed(c)
        PROVE  IngestionInv'
    BY <1>0, <2>2, ApplicationTypes, RegistryStep, ReadClockStep
  <2>3. ASSUME NEW x \in Chats \cup {Account, Role}, ProviderFails(x)
        PROVE  IngestionInv'
    BY <1>0, <2>3, StopTypes, QuietStep
  <2>4. CASE End \/ Bootstrap \/ Recover
    BY <1>0, <2>4, StopTypes, QuietStep, BootstrapStep
  <2>. QED BY <1>1, <2>1, <2>2, <2>3, <2>4 DEF Environment
<1>2. CASE System
  <2>1. ASSUME NEW c \in Chats, Enable(c) \/ Resolve(c) \/ Activate(c) \/ StopUnavailable(c)
                                \/ StopUnapproved(c)
        PROVE  IngestionInv'
    <3>1. CASE Enable(c) \/ Resolve(c)
      BY <1>0, <3>1, ApplicationTypes, RegistryStep
    <3>2. CASE Activate(c)
      BY <1>0, <3>2, ApplicationTypes, QuietStep
    <3>3. CASE StopUnavailable(c) \/ StopUnapproved(c)
      BY <1>0, <3>3, StopTypes, QuietStep
    <3>. QED BY <2>1, <3>1, <3>2, <3>3
  <2>2. ASSUME NEW c \in Chats, History(c) PROVE IngestionInv'
    BY <1>0, <2>2, ReadTypes, HistoryStep
  <2>3. ASSUME NEW c \in Chats, NEW m \in Messages, Tombstone(c, m) PROVE IngestionInv'
    BY <1>0, <2>3, ApplicationTypes, TombstoneStep
  <2>4. ASSUME NEW s \in Streams, Difference(s) PROVE IngestionInv'
    BY <1>0, <2>4, ReadTypes, DifferenceStep
  <2>5. CASE Transaction
    BY <1>0, <2>5, TransactionTypes, CommitStep, PassStep, HistoryCommitStep DEF Transaction
  <2>6. CASE Start
    BY <1>0, <2>6, StopTypes, QuietStep
  <2>. QED BY <1>2, <2>1, <2>2, <2>3, <2>4, <2>5, <2>6 DEF System
<1>3. CASE UNCHANGED vars
  <2>1. /\ UNCHANGED <<now, log, reg, stamp, activating, ck, progress, records, bodies, barred>>
        /\ UNCHANGED <<stopped, unavailable, up, approved, admitting, page, work>>
    BY <1>3 DEF vars, telegram, registry, durable, failed, process
  <2>2. TypeOK'
    BY <2>1 DEF IngestionInv, TypeOK
  <2>3. now' \in Nat /\ now <= now'
    BY <2>1 DEF IngestionInv, TypeOK
  <2>4. Fits'
    BY <2>1, <2>3, LogFrame, RegFrame, CkFrame, RecordFrame, PageFrame, WorkFrame,
       HistoryFrame, PassedFrame, DeletedFrame DEF IngestionInv, Fits
  <2>. QED BY <1>0, <2>2, <2>4
<1>. QED BY <1>1, <1>2, <1>3 DEF Next

(* IngestionInv is inductive.                                              *)
LEMMA SpecFits == Spec => []IngestionInv
BY InitFits, StepFits, PTL DEF Spec

(* Every state of the specification is well-typed, whatever order the      *)
(* registry, the pumps, the history and the ends of the process come in.   *)
THEOREM IngestionTyped == Spec => []TypeOK
<1>1. IngestionInv => TypeOK
  BY DEF IngestionInv
<1>. QED BY <1>1, SpecFits, PTL

(* No checkpoint passes an event of a chat that has been enabled since     *)
(* before it happened, unless it is recorded, tombstoned, or a change of a *)
(* message of which nothing earlier is recorded: across pages, restarts,   *)
(* pauses and bootstraps (commit_source_event and the pumps).              *)
THEOREM NoEventIsPassed == Spec => []NothingPassed
<1>1. IngestionInv => NothingPassed
  <2>. SUFFICES ASSUME IngestionInv, NEW c \in Chats, Enabled(c), NEW i \in 1..ck[Stream(c)],
                       log[Stream(c)][i].chat = c, log[Stream(c)][i].at > reg[c].enabledAt
                PROVE  Kept(c, log[Stream(c)][i])
    BY DEF NothingPassed
  <2>1. Stream(c) \in Streams
    BY StreamTyped
  <2>2. i \in DOMAIN log[Stream(c)]
    <3>1. ck[Stream(c)] \in Nat \cup {Unset} /\ ck[Stream(c)] <= Len(log[Stream(c)])
      BY <2>1 DEF IngestionInv, TypeOK, CkFits
    <3>. QED BY <2>1, <3>1, LogTyped DEF IngestionInv, Unset
  <2>. QED BY <2>2 DEF IngestionInv, PassedKept, Passed
<1>. QED BY <1>1, SpecFits, PTL
-----------------------------------------------------------------------------
(* What is recorded of a message, and whether it keeps its text.           *)
LEMMA RecordSteps ==
    ASSUME IngestionInv, Next
    PROVE  \/ UNCHANGED <<records, bodies>>
           \/ /\ \/ work.op = "commit" /\ Accept(work.event)
                 \/ /\ work.op = "history" /\ Enabled(work.event.chat)
                    /\ ~reg[work.event.chat].resumed
              /\ Record(work.event) /\ ~Conflict(work.event)
              /\ UNCHANGED <<now, log, reg, barred>>
<1>1. CASE Environment
  BY <1>1 DEF Environment, Happen, Pause, Refuse, ReadClock, Seed, ProviderFails, End, Bootstrap,
              Recover, durable
<1>2. CASE Transaction
  BY <1>2 DEF Transaction, Commit, Pass, CommitHistory, CompleteHistory, telegram, registry
<1>3. CASE System /\ ~Transaction
  BY <1>3 DEF System, Enable, Resolve, Activate, StopUnavailable, StopUnapproved, History,
              Tombstone, Difference, Start, durable
<1>. QED BY <1>1, <1>2, <1>3 DEF Next, System

(* A text that comes when a deletion of its message is recorded is settled,*)
(* hence recorded or not accepted.                                         *)
LEMMA DeletedIsRefused ==
    ASSUME IngestionInv, Text(work.event), NEW r \in records, ~Text(r),
           Same(work.event, r), Key(work.event) \notin records
    PROVE  /\ ~(work.op = "commit" /\ Accept(work.event))
           /\ work.op # "history"
<1>. DEFINE d == work.event
            s == d.stream
            c == d.chat
            x == log[s][d.index]
<1>1. work.op # "history"
  BY DEF IngestionInv, HistoryFits, Of, Same
<1>2. ASSUME work.op = "commit", Accept(d) PROVE FALSE
  <2>0. Passing /\ d.chat # NoChat
    BY <1>2, FirstFacts DEF Passing
  <2>1. /\ c \in Chats /\ Stream(c) = s /\ d.index \in DOMAIN log[s] /\ d.index \in Nat
        /\ ck[s] < d.index /\ x.at \in Nat /\ x.chat = c /\ x.msg = d.msg /\ x.kind = d.kind
        /\ d.at = x.at /\ Key(x) = Key(d) /\ d.from = ck[s] /\ ck[s] \in Nat
    BY <2>0, FirstFacts, FirstOfChat
  <2>2. Settled(c, d.index)
    <3>1. Same(x, r) /\ Text(x) /\ r.chat = c
      BY <2>1 DEF Same, Text
    <3>. QED BY <2>1, <3>1 DEF IngestionInv, DeletedSettled
  <2>3. Rejected(c, d.index)
    BY <1>2, <2>1, <2>2 DEF Settled, Accept, Barred, Text
  <2>4. /\ Enabled(c) /\ d.at <= reg[c].started
        /\ reg[c].started \in Nat /\ reg[c].boundary \in Nat /\ reg[c].resumed \in BOOLEAN
    BY <1>2, <2>1, <2>3, RegTyped DEF IngestionInv, Rejected, Horizon, Accept
  <2>5. ProvenEdit(d)
    BY <1>2, <2>1, <2>4 DEF Accept, Processable
  <2>6. c \in Channels /\ d.kind = "edit" /\ ~reg[c].resumed
    BY <2>4, <2>5, IngestionAssumption DEF ProvenEdit, AfterBoundary
  <2>7. d.index <= reg[c].boundary
    BY <2>1, <2>3, <2>4, <2>6 DEF Rejected
  <2>8. d.from > reg[c].boundary \/ d.index > reg[c].boundary
    BY <2>5, <2>6, IngestionAssumption DEF ProvenEdit, AfterBoundary
  <2>. QED BY <2>1, <2>4, <2>7, <2>8
<1>. QED BY <1>1, <1>2

(* Once a deletion is recorded, no text of the message is held, whichever  *)
(* route, replay or restart brings it again (the INSERT of                 *)
(* commit_source_event and the scrubbing with it).                         *)
THEOREM ScrubbedForGood == Spec => []ScrubbedStays
<1>1. Init => ScrubbedStays
  BY DEF Init, ScrubbedStays
<1>2. IngestionInv /\ ScrubbedStays /\ [Next]_vars => ScrubbedStays'
  <2>. SUFFICES ASSUME IngestionInv, ScrubbedStays, [Next]_vars PROVE ScrubbedStays'
    OBVIOUS
  <2>. DEFINE d == work.event
              k == Key(d)
  <2>1. CASE UNCHANGED <<records, bodies>>
    BY <2>1 DEF ScrubbedStays, Of
  <2>2. CASE /\ \/ work.op = "commit" /\ Accept(d)
                \/ work.op = "history"
             /\ Record(d) /\ k \notin records
    <3>0. k.chat = d.chat /\ k.msg = d.msg /\ k.kind = d.kind
      BY DEF Key
    <3>1. records' = records \cup {k}
          /\ bodies' = IF d.kind = "delete" THEN bodies \ Of(d.chat, d.msg) ELSE bodies \cup {k}
      BY <2>2 DEF Record
    <3>2. bodies \subseteq records
      BY DEF IngestionInv, TypeOK
    <3>. HIDE DEF k
    <3>. SUFFICES ASSUME NEW r \in records', r.kind = "delete", NEW b \in bodies',
                         b.chat = r.chat, b.msg = r.msg
                  PROVE  FALSE
      BY DEF ScrubbedStays, Of
    <3>3. CASE b \in bodies /\ r \in records
      BY <3>2, <3>3 DEF ScrubbedStays, Of
    <3>4. CASE r = k /\ b \in bodies
      BY <3>0, <3>1, <3>2, <3>4 DEF Of
    <3>5. CASE b = k /\ d.kind # "delete" /\ r \in records
      BY <2>2, <3>0, <3>5, DeletedIsRefused DEF Same, Text, k
    <3>. QED BY <3>0, <3>1, <3>3, <3>4, <3>5
  <2>3. CASE Next
    <3>1. Record(d) /\ k \in records => UNCHANGED <<records, bodies>>
      BY DEF Record
    <3>. HIDE DEF d, k
    <3>. QED BY <2>1, <2>2, <2>3, <3>1, RecordSteps DEF d, k
  <2>. QED BY <2>1, <2>3 DEF vars, durable
<1>. QED BY <1>1, <1>2, SpecFits, PTL DEF Spec
-----------------------------------------------------------------------------
(* Nothing of a pause is recorded by the step that ends it, nor later.      *)
LEMMA GapSteps ==
    ASSUME IngestionInv, GapNotBackfilled, Next
    PROVE  GapNotBackfilled'
<1>. DEFINE d == work.event
            k == Key(d)
<1>0. \A r \in records : r.chat \in Chats /\ r.at \in Nat /\ Admitted(r.chat)
  BY DEF IngestionInv, TypeOK, LogEvents, RecordFits
<1>1. CASE UNCHANGED <<records, reg>>
  BY <1>1 DEF GapNotBackfilled
<1>2. ASSUME NEW c \in Chats, Enable(c) \/ Pause(c) \/ Refuse(c) \/ Resolve(c) \/ Seed(c)
      PROVE  GapNotBackfilled'
  <2>1. UNCHANGED records /\ \A e \in Chats : e # c => reg'[e] = reg[e]
    BY <1>2, RegistryMoves DEF RegMoves
  <2>. SUFFICES ASSUME NEW r \in records, r.chat = c, reg'[c].resumed, r.kind # "delete",
                       reg'[c].pausedAt < r.at, r.at <= reg'[c].started
                PROVE  FALSE
    BY <1>0, <2>1 DEF GapNotBackfilled
  <2>2. /\ TypeOK /\ r.at <= now /\ now \in Nat /\ r.at \in Nat /\ Admitted(c)
        /\ reg[c].state = "paused" => r.at <= reg[c].pausedAt
        /\ reg[c].pausedAt \in Nat
    BY <1>0, RegTyped DEF IngestionInv, RecordFits, Text
  <2>3. CASE Enable(c)
    <3>1. reg'[c].pausedAt = reg[c].pausedAt
          /\ (IF reg[c].state = "paused" THEN reg'[c].resumed = TRUE ELSE reg'[c].resumed = FALSE)
      BY <2>2, <2>3, EnableDoes
    <3>. QED BY <2>2, <3>1
  <2>4. CASE Pause(c)
    <3>1. reg'[c].pausedAt = now
      BY <2>2, <2>4, PauseDoes
    <3>. QED BY <2>2, <3>1
  <2>5. CASE Refuse(c)
    BY <2>2, <2>5, RefuseDoes DEF Admitted
  <2>6. CASE Resolve(c)
    BY <2>2, <2>6, ResolveDoes DEF Admitted
  <2>7. CASE Seed(c)
    BY <2>2, <2>7, SeedDoes DEF Admitted
  <2>. QED BY <1>2, <2>3, <2>4, <2>5, <2>6, <2>7
<1>3. CASE /\ \/ work.op = "commit" /\ Accept(d)
              \/ work.op = "history" /\ Enabled(d.chat) /\ ~reg[d.chat].resumed
           /\ Record(d) /\ UNCHANGED reg
  <2>1. records' = records \/ records' = records \cup {k}
    BY <1>3 DEF Record
  <2>2. k.chat = d.chat /\ k.kind = d.kind /\ (d.kind # "delete" => k.at = d.at)
    BY DEF Key
  <2>3. d.kind # "delete" /\ reg[d.chat].resumed => ~(d.at <= reg[d.chat].started)
    <3>. SUFFICES ASSUME d.kind # "delete", reg[d.chat].resumed PROVE ~(d.at <= reg[d.chat].started)
      OBVIOUS
    <3>1. work.op = "commit" /\ Accept(d)
      BY <1>3
    <3>2. d.chat \in Chats /\ d.at \in Nat
      BY <3>1, FirstFacts, FirstOfChat DEF Passing
    <3>3. reg[d.chat].started \in Nat
      BY <3>2, RegTyped DEF IngestionInv
    <3>4. d.at > reg[d.chat].started
      <4>1. d.at > reg[d.chat].started \/ ProvenEdit(d)
        BY <3>1 DEF Accept, Processable
      <4>2. ProvenEdit(d) => ~(d.at <= reg[d.chat].started)
        <5>1. d.chat \in Channels => d.chat \notin Groups
          BY IngestionAssumption
        <5>. QED BY <5>1 DEF ProvenEdit, AfterBoundary
      <4>. QED BY <3>2, <3>3, <4>1, <4>2
    <3>. QED BY <3>2, <3>3, <3>4
  <2>. HIDE DEF k
  <2>. QED BY <1>3, <2>1, <2>2, <2>3 DEF GapNotBackfilled
<1>4. UNCHANGED <<records, bodies>> =>
          \/ UNCHANGED reg
          \/ \E c \in Chats : Enable(c) \/ Pause(c) \/ Refuse(c) \/ Resolve(c) \/ Seed(c)
  <2>1. CASE Environment
    BY <2>1 DEF Environment, Happen, ReadClock, ProviderFails, End, Bootstrap, Recover, registry
  <2>2. CASE Transaction
    BY <2>2 DEF Transaction, Commit, Pass, CommitHistory, CompleteHistory, registry
  <2>3. CASE System /\ ~Transaction
    BY <2>3 DEF System, Activate, StopUnavailable, StopUnapproved, History, Tombstone,
                Difference, Start, registry
  <2>. QED BY <2>1, <2>2, <2>3 DEF Next, System
<1>5. \/ UNCHANGED <<records, bodies>>
      \/ /\ \/ work.op = "commit" /\ Accept(d)
            \/ work.op = "history" /\ Enabled(d.chat) /\ ~reg[d.chat].resumed
         /\ Record(d) /\ UNCHANGED reg
  BY RecordSteps
<1>. QED BY <1>1, <1>2, <1>3, <1>4, <1>5

(* What happened while a chat was paused is not recorded after it is       *)
(* enabled again, by the history, by a page held or by an edit that its    *)
(* pts proves (the checks of commit_source_event).                         *)
THEOREM PausesStayGaps == Spec => []GapNotBackfilled
<1>1. Init => GapNotBackfilled
  BY DEF Init, GapNotBackfilled
<1>2. IngestionInv /\ GapNotBackfilled /\ [Next]_vars => GapNotBackfilled'
  <2>1. GapNotBackfilled /\ UNCHANGED vars => GapNotBackfilled'
    BY DEF GapNotBackfilled, vars, durable, registry
  <2>. QED BY <2>1, GapSteps
<1>. QED BY <1>1, <1>2, SpecFits, PTL DEF Spec
=============================================================================
