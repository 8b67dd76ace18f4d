-------------------- MODULE SourceChatAdministrationProofs --------------------
(***************************************************************************)
(* Proofs about SourceChatAdministration.  The queues are read through     *)
(* InFlight only: a handler takes one contract out of it and adds at most  *)
(* two, a lease changes nothing.  LiveIsNewest is inductive with the types *)
(* and carries the other three invariants.                                 *)
(*                                                                         *)
(* Then those about SourceDataDeletion, which the same administrator       *)
(* confirms and which crosses every other role: D, below.                  *)
(***************************************************************************)
EXTENDS SourceChatAdministration, FiniteSetTheorems, SequenceTheorems,
        WellFoundedInduction, TLAPS

Entries == [contract : Contracts, leased : BOOLEAN]
Queues  == [Roles -> Seq(Entries)]
Row     == [state : States, started : {0} \cup Requests]
-----------------------------------------------------------------------------
(* The queues.                                                             *)
LEMMA RemoveTyped ==
    ASSUME NEW S, NEW q \in Seq(S), NEW i \in 1..Len(q)
    PROVE  RemoveAt(q, i) \in Seq(S)
  BY DEF RemoveAt

LEMMA Removed ==
    ASSUME NEW S, NEW q \in Seq(S), NEW i \in 1..Len(q)
    PROVE  /\ Len(RemoveAt(q, i)) = Len(q) - 1
           /\ \A j \in 1..Len(q) : j < i => RemoveAt(q, i)[j] = q[j]
           /\ \A j \in 1..Len(q) : j > i => RemoveAt(q, i)[j - 1] = q[j]
<1> DEFINE a == SubSeq(q, 1, i - 1)
           b == SubSeq(q, i + 1, Len(q))
<1>1. /\ a \in Seq(S) /\ Len(a) = i - 1
      /\ \A j \in 1..(i - 1) : a[j] = q[j]
  OBVIOUS
<1>2. /\ b \in Seq(S) /\ Len(b) = Len(q) - i
      /\ \A j \in 1..(Len(q) - i) : b[j] = q[i + j]
  OBVIOUS
<1> HIDE DEF a, b
<1>3. /\ Len(a \o b) = Len(a) + Len(b)
      /\ \A j \in 1..(Len(a) + Len(b)) :
             (a \o b)[j] = IF j <= Len(a) THEN a[j] ELSE b[j - Len(a)]
  BY <1>1, <1>2, ConcatProperties
<1>4. RemoveAt(q, i) = a \o b
  BY DEF RemoveAt, a, b
<1>5. ASSUME NEW j \in 1..Len(q), j < i
      PROVE  RemoveAt(q, i)[j] = q[j]
  BY <1>1, <1>2, <1>3, <1>4, <1>5
<1>6. ASSUME NEW j \in 1..Len(q), j > i
      PROVE  RemoveAt(q, i)[j - 1] = q[j]
  <2>1. (a \o b)[j - 1] = b[j - i]
    BY <1>1, <1>2, <1>3, <1>6
  <2>2. b[j - i] = q[i + (j - i)]
    BY <1>2, <1>6
  <2>3. i + (j - i) = j
    BY <1>6
  <2> QED
    BY <1>4, <2>1, <2>2, <2>3
<1>7. Len(RemoveAt(q, i)) = Len(q) - 1
  <2>1. Len(a \o b) = (i - 1) + (Len(q) - i)
    BY <1>1, <1>2, <1>3
  <2>2. Len(q) \in Nat /\ i \in Int
    OBVIOUS
  <2> QED
    BY <1>4, <2>1, <2>2
<1> QED
  BY <1>5, <1>6, <1>7

LEMMA Taken ==
    ASSUME queue \in Queues, NEW r \in Roles, NEW i \in 1..Len(queue[r])
    PROVE  /\ queue[r][i] \in Entries
           /\ queue[r][i].contract \in Contracts
<1>1. queue[r] \in Seq(Entries)
  BY DEF Queues
<1>2. queue[r][i] \in Entries
  BY <1>1
<1> QED
  BY <1>2 DEF Entries

LEMMA ConsumedTyped ==
    ASSUME queue \in Queues, NEW r \in Roles, NEW i \in 1..Len(queue[r])
    PROVE  Consumed(r, i) \in Queues
<1>1. queue[r] \in Seq(Entries)
  BY DEF Queues
<1>2. RemoveAt(queue[r], i) \in Seq(Entries)
  BY <1>1, RemoveTyped
<1> QED
  BY <1>2 DEF Consumed, Queues

LEMMA ConsumerTyped == ASSUME NEW k \in Contracts PROVE Consumer(k) \in Roles
  BY DEF Consumer, Contracts, Types, Roles

LEMMA SentTyped ==
    ASSUME NEW q \in Queues, NEW k \in Contracts
    PROVE  Sent(q, k) \in Queues
<1>1. Consumer(k) \in Roles
  BY ConsumerTyped
<1>2. q[Consumer(k)] \in Seq(Entries)
  BY <1>1 DEF Queues
<1>3. Entry(k) \in Entries
  BY DEF Entry, Entries
<1>4. Append(q[Consumer(k)], Entry(k)) \in Seq(Entries)
  BY <1>2, <1>3
<1> QED
  BY <1>4 DEF Sent, Queues

LEMMA AnswerTyped ==
    ASSUME queue \in Queues, NEW r \in Roles, NEW i \in 1..Len(queue[r]), NEW k \in Contracts
    PROVE  Answer(r, i, k) \in Queues
  BY ConsumedTyped, SentTyped DEF Answer

LEMMA LeaseTyped ==
    ASSUME queue \in Queues, NEW r \in Roles, NEW i \in 1..Len(queue[r])
    PROVE  Held(r, i) \in Queues /\ Freed(r, i) \in Queues
<1>1. queue[r] \in Seq(Entries)
  BY DEF Queues
<1>2. queue[r][i] \in Entries
  BY Taken
<1>3. \A b \in BOOLEAN : [queue[r][i] EXCEPT !.leased = b]
                             \in Entries
  BY <1>2 DEF Entries
<1>4. \A b \in BOOLEAN : [queue[r] EXCEPT ![i] = [queue[r][i] EXCEPT !.leased = b]]
                             \in Seq(Entries)
  BY <1>1, <1>3
<1> QED
  BY <1>4 DEF Held, Freed, Queues

(* What is in flight, without a union.                                     *)
LEMMA Carried ==
    ASSUME NEW q, NEW k
    PROVE  k \in InFlight(q) <=>
               \E r \in Roles : \E i \in 1..Len(q[r]) : q[r][i].contract = k
<1>1. ASSUME k \in InFlight(q)
      PROVE  \E r \in Roles : \E i \in 1..Len(q[r]) : q[r][i].contract = k
  <2>1. PICK r \in Roles : k \in {q[r][i].contract : i \in 1..Len(q[r])}
    BY <1>1 DEF InFlight
  <2> QED
    BY <2>1
<1>2. ASSUME NEW r \in Roles, NEW i \in 1..Len(q[r]), q[r][i].contract = k
      PROVE  k \in InFlight(q)
  <2>1. k \in {q[r][j].contract : j \in 1..Len(q[r])}
    BY <1>2
  <2> QED
    BY <2>1 DEF InFlight
<1> QED
  BY <1>1, <1>2

LEMMA SentCarries ==
    ASSUME NEW q \in Queues, NEW k \in Contracts
    PROVE  InFlight(q) \cup {k} \subseteq InFlight(Sent(q, k))
<1> DEFINE c == Consumer(k)
           p == Sent(q, k)
<1>1. /\ c \in Roles
      /\ q[c] \in Seq(Entries)
  BY ConsumerTyped DEF Queues
<1>2. p[c] = Append(q[c], Entry(k)) /\ \A r \in Roles \ {c} : p[r] = q[r]
  BY <1>1 DEF Sent, Queues
<1>3. Len(p[c]) = Len(q[c]) + 1 /\ p[c][Len(q[c]) + 1] = Entry(k)
  BY <1>1, <1>2
<1>4. \A i \in 1..Len(q[c]) : p[c][i] = q[c][i] /\ i \in 1..Len(p[c])
  BY <1>1, <1>2
<1>5. k \in InFlight(p)
  <2>1. Len(q[c]) + 1 \in 1..Len(p[c]) /\ p[c][Len(q[c]) + 1].contract = k
    BY <1>1, <1>3 DEF Entry
  <2> QED
    BY <1>1, <2>1, Carried
<1>6. ASSUME NEW d \in InFlight(q)
      PROVE  d \in InFlight(p)
  <2>1. PICK r \in Roles : \E i \in 1..Len(q[r]) : q[r][i].contract = d
    BY <1>6, Carried
  <2>3. PICK i \in 1..Len(q[r]) : q[r][i].contract = d
    BY <2>1
  <2>2. i \in 1..Len(p[r]) /\ p[r][i].contract = d
    BY <1>2, <1>4, <2>3
  <2> QED
    BY <2>2, Carried
<1> QED
  BY <1>5, <1>6

LEMMA ConsumedCarries ==
    ASSUME queue \in Queues, NEW r \in Roles, NEW i \in 1..Len(queue[r])
    PROVE  InFlight(queue) \ {queue[r][i].contract} \subseteq InFlight(Consumed(r, i))
<1> DEFINE p == Consumed(r, i)
<1>1. queue[r] \in Seq(Entries)
  BY DEF Queues
<1>2. p[r] = RemoveAt(queue[r], i) /\ \A s \in Roles \ {r} : p[s] = queue[s]
  BY DEF Consumed, Queues
<1>3. /\ Len(p[r]) = Len(queue[r]) - 1
      /\ \A j \in 1..Len(queue[r]) : j < i => p[r][j] = queue[r][j]
      /\ \A j \in 1..Len(queue[r]) : j > i => p[r][j - 1] = queue[r][j]
  <2>1. LET t == RemoveAt(queue[r], i) IN
        /\ Len(t) = Len(queue[r]) - 1
        /\ \A j \in 1..Len(queue[r]) : j < i => t[j] = queue[r][j]
        /\ \A j \in 1..Len(queue[r]) : j > i => t[j - 1] = queue[r][j]
    <3> DEFINE q == queue[r]
    <3>1. q \in Seq(Entries) /\ i \in 1..Len(q)
      BY <1>1
    <3> HIDE DEF q
    <3>2. /\ Len(RemoveAt(q, i)) = Len(q) - 1
          /\ \A j \in 1..Len(q) : j < i => RemoveAt(q, i)[j] = q[j]
          /\ \A j \in 1..Len(q) : j > i => RemoveAt(q, i)[j - 1] = q[j]
      BY <3>1, Removed
    <3> QED
      BY Zenon, <3>2 DEF q
  <2> HIDE DEF p
  <2> QED
    BY Zenon, <1>2, <2>1
<1>4. SUFFICES ASSUME NEW d \in InFlight(queue), d # queue[r][i].contract
               PROVE  d \in InFlight(p)
  OBVIOUS
<1>5. PICK s \in Roles : \E j \in 1..Len(queue[s]) : queue[s][j].contract = d
  BY <1>4, Carried
<1>10. PICK j \in 1..Len(queue[s]) : queue[s][j].contract = d
  BY <1>5
<1>6. CASE s # r
  BY <1>2, <1>10, <1>6, Carried
<1>7. CASE s = r /\ j < i
  <2>1. j \in 1..Len(p[r]) /\ p[r][j] = queue[r][j]
    BY <1>1, <1>2, <1>3, <1>7
  <2> QED
    BY <1>10, <1>7, <2>1, Carried
<1>8. CASE s = r /\ j > i
  <2>1. (j - 1) \in 1..Len(p[r]) /\ p[r][j - 1] = queue[r][j]
    BY <1>1, <1>2, <1>3, <1>8
  <2> QED
    BY <1>10, <1>8, <2>1, Carried
<1>9. ~(s = r /\ j = i)
  BY <1>4, <1>10
<1> QED
  BY <1>1, <1>6, <1>7, <1>8, <1>9

LEMMA LeaseCarries ==
    ASSUME queue \in Queues, NEW r \in Roles, NEW i \in 1..Len(queue[r]),
           NEW q, q = Held(r, i) \/ q = Freed(r, i)
    PROVE  InFlight(queue) \subseteq InFlight(q)
<1>1. queue[r] \in Seq(Entries)
  BY DEF Queues
<1>2. PICK b \in BOOLEAN : q = [queue EXCEPT ![r][i].leased = b]
  BY DEF Held, Freed
<1>3. \A s \in Roles : Len(q[s]) = Len(queue[s])
  BY <1>1, <1>2 DEF Queues
<1>4. \A s \in Roles : \A j \in 1..Len(queue[s]) : q[s][j].contract = queue[s][j].contract
  <2>1. q[r] = [queue[r] EXCEPT ![i] = [queue[r][i] EXCEPT !.leased = b]]
    BY <1>2 DEF Queues
  <2>2. \A s \in Roles \ {r} : q[s] = queue[s]
    BY <1>2 DEF Queues
  <2>3. queue[r][i] \in Entries
    BY Taken
  <2>4. \A j \in 1..Len(queue[r]) : q[r][j].contract = queue[r][j].contract
    BY <1>1, <2>1, <2>3
  <2> QED
    BY <2>2, <2>4
<1> QED
  BY <1>3, <1>4, Carried
-----------------------------------------------------------------------------
(* What a contract becomes: another of the same request.                   *)
LEMMA AsTyped ==
    ASSUME NEW k \in Contracts, NEW t \in Types
    PROVE  /\ As(k, t) \in Contracts
           /\ As(k, t).type = t /\ As(k, t).action = k.action
           /\ As(k, t).chat = k.chat /\ As(k, t).generation = k.generation
           /\ As(k, t).id = k.id
  BY DEF As, Contracts

LEMMA ContractTyped ==
    ASSUME NEW k \in Contracts
    PROVE  /\ k.type \in Types /\ k.action \in Actions \cup {"register", "seed"}
           /\ k.id \in {0} \cup Requests /\ k.chat \in Chats /\ k.generation \in Generations
  BY DEF Contracts

LEMMA Named ==
    /\ {"change", "admission", "resolved", "admission_failed", "changed", "failed",
        "activated"} = Types
    /\ "bot" \in Roles /\ "application" \in Roles /\ "ingestion" \in Roles
    /\ "register" \notin Actions /\ "seed" \notin Actions
  BY DEF Types, Roles, Actions

LEMMA AnswerCarries ==
    ASSUME queue \in Queues, NEW r \in Roles, NEW i \in 1..Len(queue[r]), NEW k \in Contracts
    PROVE  (InFlight(queue) \ {queue[r][i].contract}) \cup {k} \subseteq InFlight(Answer(r, i, k))
  BY ConsumedTyped, ConsumedCarries, SentCarries DEF Answer

LEMMA RowTyped ==
    ASSUME TypeOK, NEW c \in Chats, NEW g \in Generations
    PROVE  registry[c][g] \in Row /\ registry[c] \in [Generations -> Row]
  BY DEF TypeOK, Row

LEMMA AfterTyped ==
    ASSUME NEW k \in Contracts, NEW row \in Row
    PROVE  /\ After(k, row) \in Row
           /\ (After(k, row).state = "none") <=> (row.state = "none")
           /\ row.state = "removed" => After(k, row).state = "removed"
           /\ After(k, row).state \in {"enabled", "paused"} =>
                  row.state \in {"enabled", "paused"}
           /\ After(k, row).state = "enabled" =>
                  \/ After(k, row) = row
                  \/ Activates(k, row) /\ After(k, row).started = k.id
           /\ k.action \notin Actions => After(k, row) = row
  BY ContractTyped DEF After, Resumable, Activates, Row, States, Actions

(* The result that names the row that was there; a chat's rows when a new  *)
(* one comes, and the new one.                                             *)
MovedTo(k, g) == [As(k, "changed") EXCEPT !.generation = g]
Closed(k)     == [g \in Generations |->
                     IF Exists(k.chat, g) THEN [registry[k.chat][g] EXCEPT !.state = "removed"]
                     ELSE NoRow]
Opened(k)     == [state |-> "enabled", started |-> k.id]

(* What each handler of the application does with the contract it takes.   *)
LEMMA Requesting ==
    ASSUME NEW i, NEW k, k = queue["application"][i].contract, RequestAdmission(i)
    PROVE  /\ k.type = "change" /\ k.action = "register"
           /\ \/ queue' = Answer("application", i, As(k, "admission"))
              \/ queue' = Answer("application", i, As(k, "failed"))
           /\ UNCHANGED <<registry, sent, screen, admin, process, crashes>>
  BY Zenon DEF RequestAdmission, Handles

LEMMA Rejecting ==
    ASSUME NEW i, NEW k, k = queue["application"][i].contract, RejectRegistration(i)
    PROVE  /\ k.type = "admission_failed"
           /\ queue' = Answer("application", i, As(k, "failed"))
           /\ UNCHANGED <<registry, sent, screen, admin, process, crashes>>
  BY Zenon DEF RejectRegistration, Handles

LEMMA Refusing ==
    ASSUME NEW i, NEW k, k = queue["application"][i].contract, RefuseRegistration(i)
    PROVE  /\ k.type = "resolved" /\ queue' = Refusal(i, k)
           /\ UNCHANGED <<registry, sent, screen, admin, process, crashes>>
  BY Zenon DEF RefuseRegistration, Handles

LEMMA Moving ==
    ASSUME NEW i, NEW k, k = queue["application"][i].contract, ChangeAddress(i)
    PROVE  /\ k.type = "resolved" /\ k.action = "register"
           /\ \E g \in Latest(k.chat) : queue' = Answer("application", i, MovedTo(k, g))
           /\ UNCHANGED <<registry, sent, screen, admin, process, crashes>>
  BY Zenon DEF ChangeAddress, Handles, MovedTo

LEMMA Registering ==
    ASSUME NEW i, NEW k, k = queue["application"][i].contract, RegisterSourceChat(i)
    PROVE  /\ k.type = "resolved" /\ ~Stale(k)
           /\ \A g \in Latest(k.chat) : ~Live(k.chat, g)
           /\ registry' = [registry EXCEPT ![k.chat] =
                               [Closed(k) EXCEPT ![k.generation] = Opened(k)]]
           /\ \/ k.action = "seed"
                 /\ queue' = Sent(Consumed("application", i), As(k, "activated"))
              \/ queue' = Sent(Sent(Consumed("application", i), As(k, "activated")),
                               As(k, "changed"))
           /\ UNCHANGED <<sent, screen, admin, process, crashes>>
  BY Zenon DEF RegisterSourceChat, Handles, Refused, Closed, Opened

LEMMA Controlling ==
    ASSUME NEW i, NEW k, k = queue["application"][i].contract, ChangeLifecycle(i)
    PROVE  /\ k.type = "change" /\ k.action \in Actions
           /\ \/ queue' = Consumed("application", i) /\ UNCHANGED registry
              \/ /\ admin.application
                 /\ registry' = [registry EXCEPT ![k.chat][k.generation] =
                                     After(k, registry[k.chat][k.generation])]
                 /\ IF Activates(k, registry[k.chat][k.generation])
                      THEN queue' = Sent(Answer("application", i, As(k, "changed")),
                                         As(k, "activated"))
                      ELSE queue' = Answer("application", i, As(k, "changed"))
           /\ UNCHANGED <<sent, screen, admin, process, crashes>>
  BY Zenon DEF ChangeLifecycle, Handles

(* A result names the row that was there.                                  *)
LEMMA MovedTyped ==
    ASSUME NEW k \in Contracts, NEW g \in Generations
    PROVE  /\ MovedTo(k, g) \in Contracts
           /\ MovedTo(k, g).type = "changed" /\ MovedTo(k, g).action = k.action
<1>1. As(k, "changed") \in Contracts
  BY AsTyped, Named
<1> QED
  BY <1>1, AsTyped, Named DEF Contracts, MovedTo

LEMMA Applied ==
    ASSUME NEW i,
           \/ RequestAdmission(i) \/ RejectRegistration(i) \/ ChangeLifecycle(i)
           \/ RefuseRegistration(i) \/ ChangeAddress(i) \/ RegisterSourceChat(i)
    PROVE  /\ UNCHANGED <<sent, screen, admin, process, crashes>>
           /\ UNCHANGED registry \/ RegisterSourceChat(i) \/ ChangeLifecycle(i)
           /\ queue["application"][i].contract.type \in {"change", "admission_failed",
                                                         "resolved"}
<1>1. PICK k : k = queue["application"][i].contract
  OBVIOUS
<1> QED
  BY Zenon, <1>1, Requesting, Rejecting, Refusing, Moving, Registering, Controlling

LEMMA ApplicationKeeps ==
    ASSUME Application
    PROVE  UNCHANGED <<sent, screen, admin, process, crashes>>
  BY Zenon, Applied DEF Application

(* A result settled, and what becomes of the screen.                       *)
LEMMA Accepting ==
    ASSUME NEW i, AcceptRegistration(i) \/ AcceptFailure(i) \/ AcceptLifecycle(i)
    PROVE  /\ queue' = Consumed("bot", i)
           /\ UNCHANGED <<registry, sent, admin, process, crashes>>
           /\ UNCHANGED screen \/ ShowList \/ Show("address") \/ Show("elsewhere")
           /\ queue["bot"][i].contract.type \in {"changed", "failed"}
<1>1. CASE AcceptRegistration(i)
  BY Zenon, <1>1 DEF AcceptRegistration, Handles, ShowFailure, Unshown
<1>2. CASE AcceptFailure(i)
  BY Zenon, <1>2 DEF AcceptFailure, Handles, ShowFailure, Unshown
<1>3. CASE AcceptLifecycle(i)
  BY Zenon, <1>3 DEF AcceptLifecycle, Handles, RenewList, Unshown
<1> QED
  BY Zenon, <1>1, <1>2, <1>3

LEMMA BotKeeps ==
    ASSUME Bot
    PROVE  /\ UNCHANGED <<registry, sent, admin, process, crashes>>
           /\ UNCHANGED screen \/ ShowList \/ Show("address") \/ Show("elsewhere")
           /\ \E i \in 1..Len(queue["bot"]) : queue' = Consumed("bot", i)
  BY Zenon, Accepting DEF Bot

(* Only two handlers write the registry.                                   *)
LEMMA OtherwiseKept ==
    ASSUME [Next]_vars
    PROVE  \/ UNCHANGED registry
           \/ \E i \in 1..Len(queue["application"]) : RegisterSourceChat(i) \/ ChangeLifecycle(i)
<1>1. CASE Application
  BY Zenon, <1>1, Applied DEF Application
<1>2. CASE UNCHANGED vars
  BY <1>2 DEF vars
<1>3. CASE Bot
  BY Zenon, <1>3, BotKeeps
<1>4. CASE Ingestion
  BY <1>4 DEF Ingestion, Start, Serve, PublishSeed, Admit, Activate
<1>5. CASE Administrator
  BY <1>5 DEF Administrator, ShowSourceChats, Leave, ShowAddressInput, SubmitLifecycle,
     SubmitAddress, AskConfirmation
<1>6. CASE Leases
  BY <1>6 DEF Leases, LeaseLapse
<1>7. CASE Trouble
  BY <1>7 DEF Trouble, Revoke, Crash, IngestionEnds, Ends
<1> QED
  BY Zenon, <1>1, <1>2, <1>3, <1>4, <1>5, <1>6, <1>7 DEF Next

(* The registry after a handler.                                           *)
LEMMA RegistryTyped ==
    ASSUME TypeOK, [Next]_vars
    PROVE  registry' \in [Chats -> [Generations -> Row]]
<1>0. registry \in [Chats -> [Generations -> Row]] /\ queue \in Queues
  BY DEF TypeOK, Row, Queues, Entries
<1>1. CASE \E i \in 1..Len(queue["application"]) : RegisterSourceChat(i)
  <2>1. PICK i \in 1..Len(queue["application"]) : RegisterSourceChat(i)
    BY <1>1
  <2>5. PICK k : k = queue["application"][i].contract
    OBVIOUS
  <2>2. k \in Contracts
    BY <1>0, <2>5, Taken, Named
  <2>3. [state |-> "enabled", started |-> k.id] \in Row /\ NoRow \in Row
    BY <2>2, ContractTyped DEF Row, States, NoRow
  <2>4. \A g \in Generations : [registry[k.chat][g] EXCEPT !.state = "removed"] \in Row
    <3>1. \A row \in Row : [row EXCEPT !.state = "removed"] \in Row
      BY DEF Row, States
    <3> QED
      BY <1>0, <2>2, <3>1, ContractTyped
  <2>6. k.chat \in Chats /\ k.generation \in Generations
    BY <2>2, ContractTyped
  <2>7. registry' = [registry EXCEPT ![k.chat] =
                        [Closed(k) EXCEPT ![k.generation] = Opened(k)]]
    BY Zenon, <2>1, <2>5, Registering
  <2>8. Closed(k) \in [Generations -> Row]
    BY <2>3, <2>4 DEF Closed
  <2>9. Opened(k) \in Row
    BY <2>3 DEF Opened
  <2> QED
    BY <1>0, <2>6, <2>7, <2>8, <2>9
<1>2. CASE \E i \in 1..Len(queue["application"]) : ChangeLifecycle(i)
  <2>1. PICK i \in 1..Len(queue["application"]) : ChangeLifecycle(i)
    BY <1>2
  <2>4. PICK k : k = queue["application"][i].contract
    OBVIOUS
  <2>2. k \in Contracts
    BY <1>0, <2>4, Taken, Named
  <2>5. k.chat \in Chats /\ k.generation \in Generations
    BY <2>2, ContractTyped
  <2>3. After(k, registry[k.chat][k.generation]) \in Row
    BY <1>0, <2>2, <2>5, AfterTyped
  <2>6. \/ UNCHANGED registry
        \/ registry' = [registry EXCEPT ![k.chat][k.generation] =
                            After(k, registry[k.chat][k.generation])]
    BY Zenon, <2>1, <2>4, Controlling
  <2> QED
    BY <1>0, <2>3, <2>5, <2>6
<1>3. CASE UNCHANGED registry
  BY <1>0, <1>3
<1> QED
  BY <1>1, <1>2, <1>3, OtherwiseKept
-----------------------------------------------------------------------------
(* The queues after a step.                                                *)
LEMMA QueuesTyped ==
    ASSUME TypeOK, [Next]_vars
    PROVE  queue' \in Queues
<1>0. queue \in Queues
  BY DEF TypeOK, Queues, Entries
<1> USE <1>0
<1>1. CASE Application
  <2>1. PICK i \in 1..Len(queue["application"]) :
            \/ RequestAdmission(i) \/ RejectRegistration(i) \/ ChangeLifecycle(i)
            \/ RefuseRegistration(i) \/ ChangeAddress(i) \/ RegisterSourceChat(i)
    BY <1>1 DEF Application
  <2>10. PICK k : k = queue["application"][i].contract
    OBVIOUS
  <2>2. k \in Contracts
    BY <2>10, Taken, Named
  <2>3. Consumed("application", i) \in Queues
    BY ConsumedTyped, Named
  <2>4. \A t \in Types : As(k, t) \in Contracts
    BY <2>2, AsTyped
  <2>5. \A t \in Types : Answer("application", i, As(k, t)) \in Queues
    BY <2>4, AnswerTyped, Named
  <2>6. CASE ChangeAddress(i)
    <3>9. \E g \in Latest(k.chat) : queue' = Answer("application", i, MovedTo(k, g))
      BY <2>6, <2>10, Moving
    <3>1. PICK g \in Latest(k.chat) : queue' = Answer("application", i, MovedTo(k, g))
      BY Zenon, <3>9
    <3>2. MovedTo(k, g) \in Contracts
      BY <2>2, MovedTyped DEF Latest
    <3> QED
      BY <3>1, <3>2, AnswerTyped, Named
  <2>7. CASE RegisterSourceChat(i)
    <3>1. Sent(Consumed("application", i), As(k, "activated")) \in Queues
      BY <2>3, <2>4, SentTyped, Named
    <3>2. \/ queue' = Sent(Consumed("application", i), As(k, "activated"))
          \/ queue' = Sent(Sent(Consumed("application", i), As(k, "activated")),
                           As(k, "changed"))
      BY Zenon, <2>7, <2>10, Registering
    <3> QED
      BY <2>4, <3>1, <3>2, SentTyped, Named
  <2>8. CASE ChangeLifecycle(i)
    <3>1. Sent(Answer("application", i, As(k, "changed")), As(k, "activated")) \in Queues
      BY <2>4, <2>5, SentTyped, Named
    <3>2. \/ queue' = Consumed("application", i)
          \/ queue' = Answer("application", i, As(k, "changed"))
          \/ queue' = Sent(Answer("application", i, As(k, "changed")), As(k, "activated"))
      BY Zenon, <2>8, <2>10, Controlling
    <3> QED
      BY <2>3, <2>5, <3>1, <3>2, Named
  <2>9. CASE RequestAdmission(i) \/ RejectRegistration(i) \/ RefuseRegistration(i)
    <3>2. {"admission", "failed"} \subseteq Types
      BY Named
    <3>3. \/ queue' = Consumed("application", i)
          \/ queue' = Answer("application", i, As(k, "admission"))
          \/ queue' = Answer("application", i, As(k, "failed"))
      BY Zenon, <2>9, <2>10, Requesting, Rejecting, Refusing DEF Refusal
    <3>1. \/ queue' = Consumed("application", i)
          \/ \E t \in Types : queue' = Answer("application", i, As(k, t))
      BY Zenon, <3>2, <3>3
    <3> QED
      BY <2>3, <2>5, <3>1
  <2> QED
    BY <2>1, <2>6, <2>7, <2>8, <2>9
<1>2. CASE Bot
  BY Zenon, <1>2, BotKeeps, ConsumedTyped, Named
<1>3. CASE Ingestion
  <2>1. CASE Start \/ Serve
    BY <2>1 DEF Start, Serve
  <2>2. CASE \E c \in Seeds : PublishSeed(c)
    <3>1. PICK c \in Seeds : PublishSeed(c)
      BY <2>2
    <3>2. [type |-> "resolved", action |-> "seed", id |-> 0, chat |-> c, generation |-> 1]
              \in Contracts
      BY AdministrationAssumption DEF Contracts, Types, Generations
    <3> QED
      BY <3>1, <3>2, SentTyped DEF PublishSeed
  <2>3. CASE \E i \in 1..Len(queue["ingestion"]) : Activate(i)
    BY <2>3, ConsumedTyped, Named DEF Activate
  <2>4. CASE \E i \in 1..Len(queue["ingestion"]), t \in Types : Admit(i, t)
    <3>1. PICK i \in 1..Len(queue["ingestion"]), t \in Types : Admit(i, t)
      BY <2>4
    <3>2. As(queue["ingestion"][i].contract, t) \in Contracts
      BY Taken, AsTyped, Named
    <3> QED
      BY <3>1, <3>2, AnswerTyped, Named DEF Admit
  <2> QED
    BY <1>3, <2>1, <2>2, <2>3, <2>4 DEF Ingestion
<1>4. CASE Administrator
  <2>1. CASE SubmitLifecycle
    <3>1. PICK a \in asked : queue' = Sent(queue, Request(a.action, a.chat, a.generation))
      BY <2>1 DEF SubmitLifecycle
    <3>2. a \in [action : Actions, chat : Chats, generation : Generations]
      BY DEF TypeOK
    <3>3. requests + 1 \in Requests
      BY <2>1, AdministrationAssumption DEF SubmitLifecycle, TypeOK, Requests
    <3>4. Request(a.action, a.chat, a.generation) \in Contracts
      BY <3>2, <3>3 DEF Request, Contracts, Types
    <3> QED
      BY <3>1, <3>4, SentTyped
  <2>2. CASE \E c \in Chats : SubmitAddress(c)
    <3>1. PICK c \in Chats : SubmitAddress(c)
      BY <2>2
    <3>2. requests + 1 \in Requests /\ registrations + 1 \in Generations
      BY <3>1, AdministrationAssumption DEF SubmitAddress, TypeOK, Requests, Generations
    <3>3. Request("register", c, registrations + 1) \in Contracts
      BY <3>2 DEF Request, Contracts, Types
    <3> QED
      BY <3>1, <3>3, SentTyped DEF SubmitAddress
  <2>3. CASE ~SubmitLifecycle /\ ~\E c \in Chats : SubmitAddress(c)
    BY <1>4, <2>3 DEF Administrator, ShowSourceChats, Leave, ShowAddressInput, AskConfirmation
  <2> QED
    BY <2>1, <2>2, <2>3
<1>5. CASE Leases
  BY <1>5, LeaseTyped DEF Leases, LeaseLapse
<1>6. CASE Trouble
  BY <1>6, LeaseTyped DEF Trouble, Revoke, Crash, IngestionEnds
<1>7. CASE UNCHANGED vars
  BY <1>7 DEF vars
<1> QED
  BY Zenon, <1>1, <1>2, <1>3, <1>4, <1>5, <1>6, <1>7 DEF Next

LEMMA ListingTyped ==
    ASSUME TypeOK
    PROVE  /\ Listing \in [Chats -> [Generations -> States]]
           /\ Nothing \in [Chats -> [Generations -> States]]
<1>1. \A c \in Chats, g \in Generations : registry[c][g].state \in States
  BY RowTyped DEF Row
<1>2. "none" \in States
  BY DEF States
<1> QED
  BY <1>1, <1>2 DEF Listing, Nothing

(* Every step leaves the screen, draws the list, or asks something.        *)
LEMMA ScreenSteps ==
    ASSUME TypeOK, [Next]_vars
    PROVE  \/ UNCHANGED screen
           \/ ShowList
           \/ \E next \in Stages : Show(next)
           \/ \E c \in Chats, g \in Generations, a \in Actions : AskConfirmation(c, g, a)
<1>0. {"elsewhere", "address", "pending"} \subseteq Stages
  BY DEF Stages
<1>1. CASE Application
  BY Zenon, <1>1, ApplicationKeeps
<1>2. CASE UNCHANGED vars
  BY <1>2 DEF vars, screen
<1>3. CASE Bot
  <2>1. UNCHANGED screen \/ ShowList \/ Show("address") \/ Show("elsewhere")
    BY Zenon, <1>3, BotKeeps
  <2>2. "address" \in Stages /\ "elsewhere" \in Stages
    BY <1>0
  <2> QED
    BY Zenon, <2>1, <2>2
<1>4. CASE Ingestion
  BY <1>4 DEF Ingestion, Start, Serve, PublishSeed, Admit, Activate
<1>5. CASE Administrator
  BY <1>0, <1>5 DEF Administrator, ShowSourceChats, Leave, ShowAddressInput, SubmitLifecycle,
     SubmitAddress
<1>6. CASE Leases
  BY <1>6 DEF Leases, LeaseLapse
<1>7. CASE Trouble
  BY <1>7 DEF Trouble, Revoke, Crash, IngestionEnds, Ends
<1> QED
  BY Zenon, <1>1, <1>2, <1>3, <1>4, <1>5, <1>6, <1>7 DEF Next

(* What the administrator has sent, and the processes, after a step.       *)
LEMMA CountersStep ==
    ASSUME [Next]_vars
    PROVE  \/ UNCHANGED sent
           \/ /\ requests < MaxRequests /\ requests' = requests + 1
              /\ registrations' \in {registrations, registrations + 1}
<1>1. CASE Application
  BY Zenon, <1>1, ApplicationKeeps
<1>2. CASE UNCHANGED vars
  BY <1>2 DEF vars, sent
<1>3. CASE Bot
  BY Zenon, <1>3, BotKeeps
<1>4. CASE Ingestion
  BY <1>4 DEF Ingestion, Start, Serve, PublishSeed, Admit, Activate
<1>5. CASE Administrator
  BY <1>5 DEF Administrator, ShowSourceChats, Leave, ShowAddressInput, SubmitLifecycle,
     SubmitAddress, AskConfirmation
<1>6. CASE Leases
  BY <1>6 DEF Leases, LeaseLapse
<1>7. CASE Trouble
  BY <1>7 DEF Trouble, Revoke, Crash, IngestionEnds, Ends
<1> QED
  BY Zenon, <1>1, <1>2, <1>3, <1>4, <1>5, <1>6, <1>7 DEF Next

LEMMA ProcessTyped ==
    ASSUME TypeOK, [Next]_vars
    PROVE  /\ admin' \in [{"bot", "application"} -> BOOLEAN]
           /\ ingestion' \in {"down", "starting", "serving"}
           /\ crashes' \in 0..MaxCrashes
           /\ scope' \subseteq Chats /\ published' \subseteq Seeds
<1>0. EnabledChats \subseteq Chats
  BY DEF EnabledChats
<1>1. CASE UNCHANGED <<admin, process, crashes>>
  BY <1>1 DEF TypeOK, process
<1>2. CASE Ingestion
  <2>1. CASE \E i \in 1..Len(queue["ingestion"]) : Activate(i)
    <3>1. PICK i \in 1..Len(queue["ingestion"]) : Activate(i)
      BY <2>1
    <3>2. queue["ingestion"][i].contract.chat \in Chats
      BY Taken, ContractTyped, Named DEF TypeOK, Queues, Entries
    <3> QED
      BY <3>1, <3>2 DEF Activate, TypeOK
  <2>2. CASE ~\E i \in 1..Len(queue["ingestion"]) : Activate(i)
    BY <1>0, <1>2, <2>2 DEF Ingestion, Start, Serve, PublishSeed, Admit, TypeOK, process
  <2> QED
    BY <2>1, <2>2
<1>3. CASE Trouble
  <2>1. crashes < MaxCrashes => crashes + 1 \in 0..MaxCrashes
    BY AdministrationAssumption DEF TypeOK
  <2> QED
    BY <1>3, <2>1 DEF Trouble, Revoke, Crash, IngestionEnds, Ends, TypeOK, process
<1>4. CASE Application
  BY Zenon, <1>1, <1>4, ApplicationKeeps
<1>5. CASE Bot
  BY Zenon, <1>1, <1>5, BotKeeps
<1>6. CASE Administrator
  BY <1>1, <1>6 DEF Administrator, ShowSourceChats, Leave, ShowAddressInput, SubmitLifecycle,
     SubmitAddress, AskConfirmation
<1>7. CASE Leases
  BY <1>1, <1>7 DEF Leases, LeaseLapse
<1>8. CASE UNCHANGED vars
  BY <1>1, <1>8 DEF vars
<1> QED
  BY Zenon, <1>2, <1>3, <1>4, <1>5, <1>6, <1>7, <1>8 DEF Next

(* The screen after a step.                                                *)
LEMMA ScreenTyped ==
    ASSUME TypeOK, [Next]_vars
    PROVE  /\ stage' \in Stages
           /\ listed' \in [Chats -> [Generations -> States]]
           /\ asked' \subseteq [action : Actions, chat : Chats, generation : Generations]
<1> DEFINE Good == /\ stage' \in Stages
                   /\ listed' \in [Chats -> [Generations -> States]]
                   /\ asked' \subseteq [action : Actions, chat : Chats, generation : Generations]
<1>1. CASE UNCHANGED screen
  BY <1>1 DEF screen, TypeOK
<1>2. CASE ShowList
  BY <1>2, ListingTyped DEF ShowList, Stages
<1>3. CASE \E next \in Stages : Show(next)
  BY <1>3, ListingTyped DEF Show
<1>4. CASE \E c \in Chats, g \in Generations, a \in Actions : AskConfirmation(c, g, a)
  BY <1>4, ListingTyped DEF AskConfirmation, Stages
<1> QED
  BY <1>1, <1>2, <1>3, <1>4, ScreenSteps

(* Types, for any chats, seeds, requests and crashes.                      *)
THEOREM AdministrationTyped == Spec => []TypeOK
<1>1. Init => TypeOK
  <2>1. Init => queue \in [Roles -> Seq([contract : Contracts, leased : BOOLEAN])]
    BY DEF Init
  <2>2. Init => /\ registry \in [Chats -> [Generations -> [state : States, started : {0} \cup Requests]]]
                /\ listed \in [Chats -> [Generations -> States]]
    BY DEF Init, NoRow, Nothing, States
  <2>3. Init => /\ admin \in [{"bot", "application"} -> BOOLEAN]
                /\ asked \subseteq [action : Actions, chat : Chats, generation : Generations]
                /\ scope \subseteq Chats /\ published \subseteq Seeds /\ stage \in Stages
                /\ ingestion \in {"down", "starting", "serving"}
    BY DEF Init, Stages
  <2>4. Init => requests \in 0..MaxRequests /\ registrations \in 0..requests /\ crashes \in 0..MaxCrashes
    BY AdministrationAssumption DEF Init
  <2> QED
    BY <2>1, <2>2, <2>3, <2>4 DEF TypeOK
<1>2. ASSUME TypeOK, [Next]_vars
      PROVE  TypeOK'
  <2>1. requests' \in 0..MaxRequests /\ registrations' \in 0..requests'
    <3>1. CASE UNCHANGED sent
      BY <1>2, <3>1 DEF sent, TypeOK
    <3>2. CASE /\ requests < MaxRequests /\ requests' = requests + 1
               /\ registrations' \in {registrations, registrations + 1}
      BY <1>2, <3>2, AdministrationAssumption DEF TypeOK
    <3> QED
      BY <1>2, <3>1, <3>2, CountersStep
  <2>2. /\ admin' \in [{"bot", "application"} -> BOOLEAN]
        /\ ingestion' \in {"down", "starting", "serving"}
        /\ crashes' \in 0..MaxCrashes
        /\ scope' \subseteq Chats /\ published' \subseteq Seeds
    BY Zenon, <1>2, ProcessTyped
  <2> QED
    BY <1>2, <2>1, <2>2, RegistryTyped, QueuesTyped, ScreenTyped
    DEF TypeOK, Row, Queues, Entries
<1> QED
  BY <1>1, <1>2, PTL DEF Spec
-----------------------------------------------------------------------------
(* What the two handlers that write the registry make of it.               *)
LEMMA RegisteredNewest ==
    ASSUME TypeOK, NEW i \in 1..Len(queue["application"]), RegisterSourceChat(i),
           NEW k, k = queue["application"][i].contract, NEW g \in Generations
    PROVE  Exists(k.chat, g) => g < k.generation
<1>1. k.generation \in Generations
  BY Taken, Named, ContractTyped DEF TypeOK, Queues, Entries
<1>2. ~Stale(k)
  BY Zenon, Registering
<1> QED
  BY <1>1, <1>2 DEF Stale, Generations

LEMMA Registered ==
    ASSUME TypeOK, NEW i \in 1..Len(queue["application"]), RegisterSourceChat(i),
           NEW k, k = queue["application"][i].contract
    PROVE  /\ k \in Contracts
           /\ registry'[k.chat][k.generation] = [state |-> "enabled", started |-> k.id]
           /\ \A g \in Generations :
                  g # k.generation => registry'[k.chat][g].state =
                                          IF Exists(k.chat, g) THEN "removed" ELSE "none"
           /\ \A c \in Chats : c # k.chat => registry'[c] = registry[c]
<1>1. k \in Contracts /\ k.chat \in Chats /\ k.generation \in Generations
  BY Taken, Named, ContractTyped DEF TypeOK, Queues, Entries
<1>3. registry' = [registry EXCEPT ![k.chat] =
                      [Closed(k) EXCEPT ![k.generation] = Opened(k)]]
  BY Zenon, Registering
<1>4. registry \in [Chats -> [Generations -> Row]]
  BY DEF TypeOK, Row
<1>5. \A row \in Row : [row EXCEPT !.state = "removed"].state = "removed"
  BY DEF Row
<1>6. /\ registry'[k.chat] = [Closed(k) EXCEPT ![k.generation] = Opened(k)]
      /\ \A c \in Chats : c # k.chat => registry'[c] = registry[c]
  BY <1>1, <1>3, <1>4
<1>10. DOMAIN Closed(k) = Generations
  BY DEF Closed
<1>7. registry'[k.chat][k.generation] = [state |-> "enabled", started |-> k.id]
  BY <1>1, <1>6, <1>10 DEF Opened
<1>8. ASSUME NEW g \in Generations, g # k.generation
      PROVE  registry'[k.chat][g].state = IF Exists(k.chat, g) THEN "removed" ELSE "none"
  <2>1. registry'[k.chat][g] = Closed(k)[g]
    BY <1>1, <1>6, <1>8, <1>10
  <2>2. Closed(k)[g] = IF Exists(k.chat, g)
                         THEN [registry[k.chat][g] EXCEPT !.state = "removed"] ELSE NoRow
    BY Zenon DEF Closed
  <2>3. registry[k.chat][g] \in Row
    BY <1>1, <1>4
  <2>4. [registry[k.chat][g] EXCEPT !.state = "removed"].state = "removed"
    BY Zenon, <1>5, <2>3
  <2>5. Closed(k)[g].state = IF Exists(k.chat, g) THEN "removed" ELSE "none"
    <3>1. CASE Exists(k.chat, g)
      BY Zenon, <2>2, <2>4, <3>1
    <3>2. CASE ~Exists(k.chat, g)
      BY <2>2, <3>2 DEF NoRow
    <3> QED
      BY Zenon, <3>1, <3>2
  <2> QED
    BY Zenon, <2>1, <2>5
<1> QED
  BY Zenon, <1>1, <1>6, <1>7, <1>8

LEMMA RegisteredElsewhere ==
    ASSUME TypeOK, NEW i \in 1..Len(queue["application"]), RegisterSourceChat(i),
           NEW k, k = queue["application"][i].contract, NEW c \in Chats, c # k.chat
    PROVE  registry'[c] = registry[c]
  BY Zenon, Registered

LEMMA Changed ==
    ASSUME TypeOK, NEW i \in 1..Len(queue["application"]), ChangeLifecycle(i),
           NEW k, k = queue["application"][i].contract
    PROVE  /\ k \in Contracts /\ k.type = "change" /\ k.action \in Actions
           /\ \/ UNCHANGED registry
              \/ /\ registry'[k.chat][k.generation] = After(k, registry[k.chat][k.generation])
                 /\ admin.application
                 /\ \A c \in Chats, g \in Generations :
                        ~(c = k.chat /\ g = k.generation) => registry'[c][g] = registry[c][g]
<1>1. k \in Contracts /\ k.chat \in Chats /\ k.generation \in Generations
  BY Taken, Named, ContractTyped DEF TypeOK, Queues, Entries
<1>2. registry \in [Chats -> [Generations -> Row]]
  BY DEF TypeOK, Row
<1>3. k.type = "change" /\ k.action \in Actions
  BY Zenon, Controlling
<1>4. \/ UNCHANGED registry
      \/ /\ admin.application
         /\ registry' = [registry EXCEPT ![k.chat][k.generation] =
                             After(k, registry[k.chat][k.generation])]
  BY Zenon, Controlling
<1> DEFINE row == After(k, registry[k.chat][k.generation])
<1> HIDE DEF row
<1>5. ASSUME registry' = [registry EXCEPT ![k.chat][k.generation] = row]
      PROVE  /\ registry'[k.chat][k.generation] = row
             /\ \A c \in Chats, g \in Generations :
                    ~(c = k.chat /\ g = k.generation) => registry'[c][g] = registry[c][g]
  BY <1>1, <1>2, <1>5
<1> QED
  BY Zenon, <1>1, <1>3, <1>4, <1>5 DEF row

(* Every step makes of a row what a control may make of it, or gives its   *)
(* chat a newer one.                                                       *)
LEMMA RowStep ==
    ASSUME TypeOK, [Next]_vars, NEW c \in Chats
    PROVE  \/ \A g \in Generations :
                 \/ registry'[c][g] = registry[c][g]
                 \/ \E k \in Contracts : k.action \in Actions /\ registry'[c][g] = After(k, registry[c][g])
           \/ \E n \in Generations :
                 /\ \A g \in Generations : Exists(c, g) => g < n
                 /\ registry'[c][n].state = "enabled"
                 /\ \A g \in Generations \ {n} :
                        registry'[c][g].state = IF Exists(c, g) THEN "removed" ELSE "none"
<1>1. CASE UNCHANGED registry
  BY <1>1
<1>2. CASE \E i \in 1..Len(queue["application"]) : RegisterSourceChat(i)
  <2>1. PICK i \in 1..Len(queue["application"]) : RegisterSourceChat(i)
    BY <1>2
  <2>4. PICK k : k = queue["application"][i].contract
    OBVIOUS
  <2>2. CASE c = k.chat
    <3>1. k.generation \in Generations
      BY <2>1, <2>4, Registered, ContractTyped
    <3>3. \A g \in Generations : Exists(k.chat, g) => g < k.generation
      BY Zenon, <2>1, <2>4, RegisteredNewest
    <3>2. /\ registry'[k.chat][k.generation] = [state |-> "enabled", started |-> k.id]
          /\ \A g \in Generations \ {k.generation} :
                 registry'[k.chat][g].state = IF Exists(k.chat, g) THEN "removed" ELSE "none"
      BY <2>1, <2>4, Registered
    <3> QED
      BY <2>2, <3>1, <3>2, <3>3
  <2>3. CASE c # k.chat
    <3>1. registry'[c] = registry[c]
      BY Zenon, <2>1, <2>3, <2>4, RegisteredElsewhere
    <3> QED
      BY <3>1
  <2> QED
    BY <2>2, <2>3
<1>3. CASE \E i \in 1..Len(queue["application"]) : ChangeLifecycle(i)
  <2>1. PICK i \in 1..Len(queue["application"]) : ChangeLifecycle(i)
    BY <1>3
  <2>4. PICK k : k = queue["application"][i].contract
    OBVIOUS
  <2>2. k \in Contracts /\ k.action \in Actions
    BY <2>1, <2>4, Changed
  <2>3. ASSUME NEW g \in Generations, registry'[c][g] # registry[c][g]
        PROVE  registry'[c][g] = After(k, registry[c][g])
    BY <2>1, <2>3, <2>4, Changed
  <2> QED
    BY <2>2, <2>3
<1> QED
  BY <1>1, <1>2, <1>3, OtherwiseKept

(* Whatever overtakes what, an enabled or paused row is its chat's newest  *)
(* (register_source_chat, apply_source_chat_lifecycle).                    *)
THEOREM LiveRowIsNewest == Spec => []LiveIsNewest
<1>1. Init => LiveIsNewest
  BY DEF Init, LiveIsNewest, Live, NoRow
<1>2. ASSUME TypeOK, LiveIsNewest, [Next]_vars
      PROVE  LiveIsNewest'
  <2>1. SUFFICES ASSUME NEW c \in Chats, NEW g \in Generations, Live(c, g)'
                 PROVE  (g \in Latest(c))'
    BY DEF LiveIsNewest
  <2>2. CASE \A h \in Generations :
                 \/ registry'[c][h] = registry[c][h]
                 \/ \E k \in Contracts : k.action \in Actions /\ registry'[c][h] = After(k, registry[c][h])
    <3>1. \A h \in Generations : Exists(c, h)' <=> Exists(c, h)
      BY <1>2, <2>2, RowTyped, AfterTyped DEF Exists
    <3>2. Live(c, g)
      BY <1>2, <2>1, <2>2, RowTyped, AfterTyped DEF Live
    <3> QED
      BY <1>2, <3>1, <3>2 DEF LiveIsNewest, Latest
  <2>3. ASSUME NEW n \in Generations,
               \A h \in Generations : Exists(c, h) => h < n,
               registry'[c][n].state = "enabled",
               \A h \in Generations \ {n} :
                   registry'[c][h].state = IF Exists(c, h) THEN "removed" ELSE "none"
        PROVE  (g \in Latest(c))'
    <3>1. g = n
      BY <2>1, <2>3 DEF Live
    <3>2. \A h \in Generations : Exists(c, h)' => h <= n
      BY <2>3 DEF Exists, Generations
    <3> QED
      BY <2>3, <3>1, <3>2 DEF Latest, Exists
  <2> QED
    BY <1>2, <2>2, <2>3, RowStep
<1> QED
  BY <1>1, <1>2, AdministrationTyped, PTL DEF Spec

(* What was removed stays removed in that generation.                      *)
THEOREM RemovalIsForGood == Spec => RemovedForGood
<1> DEFINE Stays == \A c \in Chats, g \in Generations :
                        registry[c][g].state = "removed" => registry'[c][g].state = "removed"
<1>1. ASSUME TypeOK, [Next]_vars
      PROVE  Stays
  <2>1. SUFFICES ASSUME NEW c \in Chats, NEW g \in Generations, registry[c][g].state = "removed"
                 PROVE  registry'[c][g].state = "removed"
    OBVIOUS
  <2>2. Exists(c, g)
    BY <2>1 DEF Exists
  <2>3. CASE \E n \in Generations :
                 /\ \A h \in Generations : Exists(c, h) => h < n
                 /\ \A h \in Generations \ {n} :
                        registry'[c][h].state = IF Exists(c, h) THEN "removed" ELSE "none"
    BY <2>2, <2>3 DEF Generations
  <2> QED
    BY <1>1, <2>1, <2>3, RowStep, RowTyped, AfterTyped
<1>2. TypeOK /\ [Next]_vars => [Stays]_vars
  BY <1>1
<1> QED
  BY <1>2, AdministrationTyped, PTL DEF Spec, RemovedForGood
-----------------------------------------------------------------------------
LEMMA RegistrationSent ==
    ASSUME TypeOK, NEW c \in Chats, SubmitAddress(c)
    PROVE  \E k \in Contracts : /\ k.type = "change" /\ k.action = "register"
                                /\ InFlight(queue) \cup {k} \subseteq InFlight(queue')
<1> DEFINE k == Request("register", c, registrations + 1)
<1>1. requests + 1 \in Requests /\ registrations + 1 \in Generations
  BY AdministrationAssumption DEF SubmitAddress, TypeOK, Requests, Generations
<1>2. k \in Contracts /\ k.type = "change" /\ k.action = "register"
  BY <1>1 DEF Request, Contracts, Types
<1>3. queue \in Queues /\ queue' = Sent(queue, k)
  BY DEF TypeOK, Queues, Entries, SubmitAddress
<1> HIDE DEF k
<1> QED
  BY <1>2, <1>3, SentCarries

(* A contract leaves the queues only when a handler takes it.              *)
LEMMA Kept ==
    ASSUME TypeOK, [Next]_vars, NEW d \in InFlight(queue), d \notin InFlight(queue')
    PROVE  \/ \E i \in 1..Len(queue["bot"]) :
                 /\ queue["bot"][i].contract = d
                 /\ AcceptRegistration(i) \/ AcceptFailure(i) \/ AcceptLifecycle(i)
           \/ \E i \in 1..Len(queue["application"]) :
                 /\ queue["application"][i].contract = d
                 /\ \/ RequestAdmission(i) \/ RejectRegistration(i) \/ ChangeLifecycle(i)
                    \/ RefuseRegistration(i) \/ ChangeAddress(i) \/ RegisterSourceChat(i)
           \/ \E i \in 1..Len(queue["ingestion"]) :
                 /\ queue["ingestion"][i].contract = d
                 /\ Activate(i) \/ \E t \in Types : Admit(i, t)
<1>0. queue \in Queues
  BY DEF TypeOK, Queues, Entries
<1> USE <1>0
<1>1. CASE Application
  <2>1. PICK i \in 1..Len(queue["application"]) :
            \/ RequestAdmission(i) \/ RejectRegistration(i) \/ ChangeLifecycle(i)
            \/ RefuseRegistration(i) \/ ChangeAddress(i) \/ RegisterSourceChat(i)
    BY <1>1 DEF Application
  <2>11. PICK k : k = queue["application"][i].contract
    OBVIOUS
  <2>2. SUFFICES ASSUME d # k PROVE FALSE
    BY <2>1, <2>11
  <2>3. d \in InFlight(Consumed("application", i)) /\ Consumed("application", i) \in Queues
    BY <2>2, <2>11, ConsumedCarries, ConsumedTyped, Named
  <2>4. \A m \in Contracts : /\ Answer("application", i, m) \in Queues
                              /\ d \in InFlight(Answer("application", i, m))
    BY <2>2, <2>11, AnswerTyped, AnswerCarries, Named
  <2>5. \A q \in Queues, m \in Contracts : d \in InFlight(q) =>
                              Sent(q, m) \in Queues /\ d \in InFlight(Sent(q, m))
    BY SentCarries, SentTyped
  <2>6. k \in Contracts /\ \A t \in Types : As(k, t) \in Contracts
    BY <2>11, Taken, AsTyped, Named
  <2>7. CASE ChangeAddress(i)
    <3>9. \E g \in Latest(k.chat) : queue' = Answer("application", i, MovedTo(k, g))
      BY <2>7, <2>11, Moving
    <3>1. PICK g \in Latest(k.chat) : queue' = Answer("application", i, MovedTo(k, g))
      BY Zenon, <3>9
    <3>2. MovedTo(k, g) \in Contracts
      BY <2>6, MovedTyped DEF Latest
    <3> QED
      BY <2>4, <3>1, <3>2
  <2>8. CASE RegisterSourceChat(i)
    <3>1. \/ queue' = Sent(Consumed("application", i), As(k, "activated"))
          \/ queue' = Sent(Sent(Consumed("application", i), As(k, "activated")),
                           As(k, "changed"))
      BY Zenon, <2>8, <2>11, Registering
    <3> QED
      BY <2>3, <2>5, <2>6, <3>1, Named
  <2>9. CASE ChangeLifecycle(i)
    <3>1. \/ queue' = Consumed("application", i)
          \/ queue' = Answer("application", i, As(k, "changed"))
          \/ queue' = Sent(Answer("application", i, As(k, "changed")), As(k, "activated"))
      BY Zenon, <2>9, <2>11, Controlling
    <3> QED
      BY <2>3, <2>4, <2>5, <2>6, <3>1, Named
  <2>10. CASE RequestAdmission(i) \/ RejectRegistration(i) \/ RefuseRegistration(i)
    <3>2. {"admission", "failed"} \subseteq Types
      BY Named
    <3>3. \/ queue' = Consumed("application", i)
          \/ queue' = Answer("application", i, As(k, "admission"))
          \/ queue' = Answer("application", i, As(k, "failed"))
      BY Zenon, <2>10, <2>11, Requesting, Rejecting, Refusing DEF Refusal
    <3>1. \/ queue' = Consumed("application", i)
          \/ \E t \in Types : queue' = Answer("application", i, As(k, t))
      BY Zenon, <3>2, <3>3
    <3> QED
      BY <2>3, <2>4, <2>6, <3>1
  <2> QED
    BY <2>1, <2>7, <2>8, <2>9, <2>10
<1>2. CASE Bot
  <2>1. PICK i \in 1..Len(queue["bot"]) :
            AcceptRegistration(i) \/ AcceptFailure(i) \/ AcceptLifecycle(i)
    BY Zenon, <1>2 DEF Bot
  <2>2. queue' = Consumed("bot", i)
    BY Zenon, <2>1, Accepting
  <2>3. queue["bot"][i].contract = d
    BY <2>2, ConsumedCarries, Named
  <2> QED
    BY <2>1, <2>3
<1>3. CASE Ingestion
  <2>1. CASE \E i \in 1..Len(queue["ingestion"]) : Activate(i)
    <3>1. PICK i \in 1..Len(queue["ingestion"]) : Activate(i)
      BY <2>1
    <3>2. queue["ingestion"][i].contract = d
      BY <3>1, ConsumedCarries, Named DEF Activate
    <3> QED
      BY <3>1, <3>2
  <2>2. CASE \E i \in 1..Len(queue["ingestion"]), t \in Types : Admit(i, t)
    <3>1. PICK i \in 1..Len(queue["ingestion"]), t \in Types : Admit(i, t)
      BY <2>2
    <3>2. As(queue["ingestion"][i].contract, t) \in Contracts
      BY Taken, AsTyped, Named
    <3>3. queue["ingestion"][i].contract = d
      BY <3>1, <3>2, AnswerCarries, Named DEF Admit
    <3> QED
      BY <3>1, <3>3
  <2>3. CASE Start \/ Serve
    BY <2>3 DEF Start, Serve
  <2>4. CASE \E c \in Seeds : PublishSeed(c)
    <3>1. PICK c \in Seeds : PublishSeed(c)
      BY <2>4
    <3>2. [type |-> "resolved", action |-> "seed", id |-> 0, chat |-> c, generation |-> 1]
              \in Contracts
      BY AdministrationAssumption DEF Contracts, Types, Generations
    <3> QED
      BY <3>1, <3>2, SentCarries DEF PublishSeed
  <2> QED
    BY <1>3, <2>1, <2>2, <2>3, <2>4 DEF Ingestion
<1>4. CASE Administrator
  <2>1. CASE SubmitLifecycle
    <3>1. PICK a \in asked : queue' = Sent(queue, Request(a.action, a.chat, a.generation))
      BY <2>1 DEF SubmitLifecycle
    <3>2. Request(a.action, a.chat, a.generation) \in Contracts
      <4>1. a \in [action : Actions, chat : Chats, generation : Generations]
        BY DEF TypeOK
      <4>2. requests + 1 \in Requests
        BY <2>1, AdministrationAssumption DEF SubmitLifecycle, TypeOK, Requests
      <4> QED
        BY <4>1, <4>2 DEF Request, Contracts, Types
    <3> QED
      BY <3>1, <3>2, SentCarries
  <2>2. CASE \E c \in Chats : SubmitAddress(c)
    <3>1. PICK c \in Chats : SubmitAddress(c)
      BY <2>2
    <3> QED
      BY <3>1, RegistrationSent
  <2>3. CASE ~SubmitLifecycle /\ ~\E c \in Chats : SubmitAddress(c)
    BY <1>4, <2>3 DEF Administrator, ShowSourceChats, Leave, ShowAddressInput, AskConfirmation
  <2> QED
    BY <2>1, <2>2, <2>3
<1>5. CASE Leases
  BY <1>5, LeaseCarries DEF Leases, LeaseLapse
<1>6. CASE Trouble
  BY <1>6, LeaseCarries DEF Trouble, Revoke, Crash, IngestionEnds
<1>7. CASE UNCHANGED vars
  BY <1>7 DEF vars
<1> QED
  BY Zenon, <1>1, <1>2, <1>3, <1>4, <1>5, <1>6, <1>7 DEF Next

(* A registration that the application takes goes on under another type.   *)
LEMMA RegistrationGoesOn ==
    ASSUME TypeOK, NEW i \in 1..Len(queue["application"]),
           queue["application"][i].contract.action = "register",
           \/ RequestAdmission(i) \/ RejectRegistration(i) \/ ChangeLifecycle(i)
           \/ RefuseRegistration(i) \/ ChangeAddress(i) \/ RegisterSourceChat(i)
    PROVE  \E k \in InFlight(queue') : k.action = "register" /\ k.type # "activated"
<1>10. PICK k : k = queue["application"][i].contract
  OBVIOUS
<1>0. queue \in Queues
  BY DEF TypeOK, Queues, Entries
<1>1. k \in Contracts /\ k.action = "register"
  BY <1>0, <1>10, Taken, Named
<1>2. \A t \in Types : /\ As(k, t) \in Contracts /\ As(k, t).type = t
                        /\ As(k, t).action = "register"
  BY <1>1, AsTyped
<1>3. \A m \in Contracts : m \in InFlight(Answer("application", i, m))
  BY <1>0, AnswerCarries, Named
<1>4. ~ChangeLifecycle(i)
  <2>1. ChangeLifecycle(i) => k.action \in Actions
    BY Zenon, <1>10, Controlling
  <2> QED
    BY <1>1, <2>1, Named
<1>5. CASE RequestAdmission(i)
  <2>1. \/ queue' = Answer("application", i, As(k, "admission"))
        \/ queue' = Answer("application", i, As(k, "failed"))
    BY Zenon, <1>5, <1>10, Requesting
  <2> QED
    BY <1>2, <1>3, <2>1, Named
<1>6. CASE RejectRegistration(i)
  <2>1. queue' = Answer("application", i, As(k, "failed"))
    BY Zenon, <1>6, <1>10, Rejecting
  <2> QED
    BY <1>2, <1>3, <2>1, Named
<1>7. CASE RefuseRegistration(i)
  <2>2. queue' = Refusal(i, k)
    BY Zenon, <1>7, <1>10, Refusing
  <2>1. queue' = Answer("application", i, As(k, "failed"))
    BY <1>1, <2>2 DEF Refusal
  <2> QED
    BY <1>2, <1>3, <2>1, Named
<1>8. CASE ChangeAddress(i)
  <2>9. \E g \in Latest(k.chat) : queue' = Answer("application", i, MovedTo(k, g))
    BY <1>8, <1>10, Moving
  <2>1. PICK g \in Latest(k.chat) : queue' = Answer("application", i, MovedTo(k, g))
    BY Zenon, <2>9
  <2>2. /\ MovedTo(k, g) \in Contracts /\ MovedTo(k, g).type = "changed"
        /\ MovedTo(k, g).action = "register"
    BY <1>1, MovedTyped DEF Latest
  <2>3. MovedTo(k, g) \in InFlight(queue')
    BY <1>3, <2>1, <2>2
  <2> QED
    BY <2>2, <2>3
<1>9. CASE RegisterSourceChat(i)
  <2> DEFINE quiet == Sent(Consumed("application", i), As(k, "activated"))
  <2>1. quiet \in Queues
    BY <1>0, <1>2, ConsumedTyped, SentTyped, Named
  <2>4. \/ k.action = "seed"
        \/ queue' = Sent(quiet, As(k, "changed"))
    BY Zenon, <1>9, <1>10, Registering
  <2>2. queue' = Sent(quiet, As(k, "changed"))
    BY <1>1, <2>4
  <2> HIDE DEF quiet
  <2>3. As(k, "changed") \in InFlight(queue')
    BY <1>2, <2>1, <2>2, SentCarries, Named
  <2> QED
    BY <1>2, <2>3, Named
<1> QED
  BY <1>4, <1>5, <1>6, <1>7, <1>8, <1>9

(* The screen begins to wait when an address is submitted.                 *)
LEMMA WaitBegins ==
    ASSUME TypeOK, [Next]_vars, ~Waiting, Waiting'
    PROVE  \E c \in Chats : SubmitAddress(c)
<1>1. CASE Application
  BY Zenon, <1>1, ApplicationKeeps DEF screen, Waiting
<1>2. CASE UNCHANGED vars
  BY <1>2 DEF vars, screen, Waiting
<1>3. CASE Bot
  <2>1. UNCHANGED screen \/ ShowList \/ Show("address") \/ Show("elsewhere")
    BY Zenon, <1>3, BotKeeps
  <2> QED
    BY <2>1 DEF ShowList, Show, Waiting, screen
<1>4. CASE Ingestion
  BY <1>4 DEF Ingestion, Start, Serve, PublishSeed, Admit, Activate, Waiting, screen
<1>5. CASE Administrator
  BY <1>5 DEF Administrator, ShowSourceChats, Leave, ShowAddressInput, SubmitLifecycle,
     AskConfirmation, Waiting, ShowList, Show, screen
<1>6. CASE Leases
  BY <1>6 DEF Leases, LeaseLapse, Waiting, screen
<1>7. CASE Trouble
  BY <1>7 DEF Trouble, Revoke, Crash, IngestionEnds, Ends, Waiting, screen
<1> QED
  BY Zenon, <1>1, <1>2, <1>3, <1>4, <1>5, <1>6, <1>7 DEF Next

(* The screen that waits for a registration waits for one on its way.      *)
THEOREM PendingIsAnswered == Spec => []PendingAnswered
<1>1. Init => PendingAnswered
  BY DEF Init, PendingAnswered, Waiting
<1>2. ASSUME TypeOK, PendingAnswered, [Next]_vars
      PROVE  PendingAnswered'
  <2>1. SUFFICES ASSUME Waiting'
                 PROVE  \E k \in InFlight(queue') : k.action = "register" /\ k.type # "activated"
    BY DEF PendingAnswered
  <2>2. CASE ~Waiting
    BY <1>2, <2>1, <2>2, WaitBegins, RegistrationSent
  <2>3. CASE Waiting
    <3>1. PICK d \in InFlight(queue) : d.action = "register" /\ d.type # "activated"
      BY <1>2, <2>3 DEF PendingAnswered
    <3>2. SUFFICES ASSUME d \notin InFlight(queue')
                   PROVE  \E k \in InFlight(queue') : k.action = "register" /\ k.type # "activated"
      BY <3>1
    <3>3. CASE \E i \in 1..Len(queue["application"]) :
                   /\ queue["application"][i].contract = d
                   /\ \/ RequestAdmission(i) \/ RejectRegistration(i) \/ ChangeLifecycle(i)
                      \/ RefuseRegistration(i) \/ ChangeAddress(i) \/ RegisterSourceChat(i)
      BY <1>2, <3>1, <3>3, RegistrationGoesOn
    <3>4. CASE \E i \in 1..Len(queue["bot"]) :
                   /\ queue["bot"][i].contract = d
                   /\ AcceptRegistration(i) \/ AcceptFailure(i) \/ AcceptLifecycle(i)
      <4>1. stage' # "pending"
        BY <2>3, <3>1, <3>4, Named DEF AcceptRegistration, AcceptFailure, AcceptLifecycle, ShowFailure,
           Waiting, Show, ShowList
      <4> QED
        BY <2>1, <4>1 DEF Waiting
    <3>5. CASE \E i \in 1..Len(queue["ingestion"]) :
                   /\ queue["ingestion"][i].contract = d
                   /\ Activate(i) \/ \E t \in Types : Admit(i, t)
      <4>1. PICK i \in 1..Len(queue["ingestion"]), t \in {"resolved", "admission_failed"} :
                queue["ingestion"][i].contract = d /\ Admit(i, t)
        BY <3>1, <3>5 DEF Activate, Handles, Admit
      <4>2. queue \in Queues /\ d \in Contracts
        BY <1>2, <4>1, Taken, Named DEF TypeOK, Queues, Entries
      <4>3. /\ As(d, t) \in Contracts /\ As(d, t).type = t /\ As(d, t).action = "register"
        BY <3>1, <4>2, AsTyped, Named
      <4>4. As(d, t) \in InFlight(queue')
        BY <4>1, <4>2, <4>3, AnswerCarries, Named DEF Admit
      <4> QED
        BY <4>1, <4>3, <4>4
    <3> QED
      BY <1>2, <3>2, <3>3, <3>4, <3>5, Kept
  <2> QED
    BY <2>2, <2>3
<1> QED
  BY <1>1, <1>2, AdministrationTyped, PTL DEF Spec
-----------------------------------------------------------------------------
(* Ingestion goes on serving, or has just read its scope.                  *)
LEMMA ServingStep ==
    ASSUME [Next]_vars, ingestion' = "serving"
    PROVE  \/ ingestion = "serving" /\ scope \subseteq scope'
           \/ scope' = EnabledChats /\ UNCHANGED registry
<1>1. CASE Application
  BY Zenon, <1>1, ApplicationKeeps DEF process
<1>2. CASE UNCHANGED vars
  BY <1>2 DEF vars, process
<1>3. CASE Bot
  BY Zenon, <1>3, BotKeeps DEF process
<1>4. CASE Ingestion
  BY <1>4 DEF Ingestion, Start, Serve, PublishSeed, Admit, Activate, process
<1>5. CASE Administrator
  BY <1>5 DEF Administrator, ShowSourceChats, Leave, ShowAddressInput, SubmitLifecycle,
     SubmitAddress, AskConfirmation, process
<1>6. CASE Leases
  BY <1>6 DEF Leases, LeaseLapse, process
<1>7. CASE Trouble
  BY <1>7 DEF Trouble, Revoke, Crash, IngestionEnds, Ends, process
<1> QED
  BY Zenon, <1>1, <1>2, <1>3, <1>4, <1>5, <1>6, <1>7 DEF Next

(* Whoever enables a row sends its activation.                             *)
LEMMA EnablingActivates ==
    ASSUME TypeOK, [Next]_vars, NEW c \in Chats, NEW g \in Generations,
           registry'[c][g].state = "enabled", registry'[c][g] # registry[c][g]
    PROVE  \E k \in InFlight(queue') :
               /\ k.type = "activated" /\ k.chat = c
               /\ k.generation = g /\ k.id = registry'[c][g].started
<1>0. queue \in Queues
  BY DEF TypeOK, Queues, Entries
<1>1. PICK i \in 1..Len(queue["application"]) : RegisterSourceChat(i) \/ ChangeLifecycle(i)
  BY OtherwiseKept
<1>5. PICK k : k = queue["application"][i].contract
  OBVIOUS
<1> DEFINE a == As(k, "activated")
<1>2. /\ k \in Contracts /\ a \in Contracts /\ a.type = "activated"
      /\ a.chat = k.chat /\ a.generation = k.generation /\ a.id = k.id
      /\ As(k, "changed") \in Contracts
  BY <1>0, <1>5, Taken, AsTyped, Named
<1>3. CASE RegisterSourceChat(i)
  <2>1. c = k.chat /\ g = k.generation /\ registry'[c][g].started = k.id
    <3>1. c = k.chat
      <4>1. ASSUME c # k.chat PROVE registry'[c] = registry[c]
        BY Zenon, <1>3, <1>5, <4>1, RegisteredElsewhere
      <4> QED
        BY <4>1
    <3>2. \A h \in Generations \ {k.generation} : registry'[k.chat][h].state # "enabled"
      BY <1>3, <1>5, Registered
    <3>3. g = k.generation
      BY <3>1, <3>2
    <3>4. registry'[k.chat][k.generation] = [state |-> "enabled", started |-> k.id]
      BY <1>3, <1>5, Registered
    <3> QED
      BY <3>1, <3>3, <3>4
  <2> DEFINE quiet == Sent(Consumed("application", i), a)
  <2>2. quiet \in Queues /\ a \in InFlight(quiet)
    BY <1>0, <1>2, ConsumedTyped, SentTyped, SentCarries, Named
  <2>3. queue' = quiet \/ queue' = Sent(quiet, As(k, "changed"))
    BY Zenon, <1>3, <1>5, Registering
  <2> HIDE DEF quiet, a
  <2>4. a \in InFlight(queue')
    BY <1>2, <2>2, <2>3, SentCarries
  <2> QED
    BY <1>2, <2>1, <2>4
<1>4. CASE ChangeLifecycle(i)
  <2>1. /\ c = k.chat /\ g = k.generation
        /\ registry'[c][g] = After(k, registry[c][g]) /\ admin.application
    BY <1>4, <1>5, Changed
  <2>2. Activates(k, registry[c][g]) /\ registry'[c][g].started = k.id
    BY <1>2, <2>1, AfterTyped, RowTyped
  <2>6. \/ UNCHANGED registry
        \/ Activates(k, registry[k.chat][k.generation]) =>
               queue' = Sent(Answer("application", i, As(k, "changed")), a)
    BY Zenon, <1>4, <1>5, Controlling
  <2>3. queue' = Sent(Answer("application", i, As(k, "changed")), a)
    BY <2>1, <2>2, <2>6
  <2>4. Answer("application", i, As(k, "changed")) \in Queues
    BY <1>0, <1>2, AnswerTyped, Named
  <2> HIDE DEF a
  <2>5. a \in InFlight(queue')
    BY <1>2, <2>3, <2>4, SentCarries
  <2> QED
    BY <1>2, <2>1, <2>2, <2>5
<1> QED
  BY <1>1, <1>3, <1>4

(* An enabled chat that is not collected has an activation that counts.    *)
THEOREM ActivationIsComing == Spec => []ActivationComing
<1>1. Init => ActivationComing
  BY DEF Init, ActivationComing
<1>2. ASSUME TypeOK, LiveIsNewest, ActivationComing, [Next]_vars
      PROVE  ActivationComing'
  <2>1. SUFFICES ASSUME ingestion' = "serving", NEW c \in Chats, c \notin scope',
                        NEW g \in Generations, registry'[c][g].state = "enabled"
                 PROVE  \E k \in InFlight(queue') :
                            /\ k.type = "activated" /\ k.chat = c
                            /\ k.generation = g /\ k.id = registry'[c][g].started
    BY DEF ActivationComing
  <2>2. ingestion = "serving" /\ c \notin scope
    <3>1. ~(scope' = EnabledChats /\ UNCHANGED registry)
      BY <2>1 DEF EnabledChats, Enabled
    <3> QED
      BY <1>2, <2>1, <3>1, ServingStep
  <2>3. CASE registry'[c][g] # registry[c][g]
    BY <1>2, <2>1, <2>3, EnablingActivates
  <2>4. CASE registry'[c][g] = registry[c][g]
    <3>1. PICK d \in InFlight(queue) : /\ d.type = "activated" /\ d.chat = c
                                       /\ d.generation = g /\ d.id = registry[c][g].started
      BY <1>2, <2>1, <2>2, <2>4 DEF ActivationComing
    <3>2. SUFFICES d \in InFlight(queue')
      BY <2>4, <3>1
    <3>3. ~\E i \in 1..Len(queue["bot"]) :
               /\ queue["bot"][i].contract = d
               /\ AcceptRegistration(i) \/ AcceptFailure(i) \/ AcceptLifecycle(i)
      BY ZenonT(60), <3>1 DEF AcceptRegistration, AcceptFailure, AcceptLifecycle, Handles
    <3>4. ~\E i \in 1..Len(queue["application"]) :
               /\ queue["application"][i].contract = d
               /\ \/ RequestAdmission(i) \/ RejectRegistration(i) \/ ChangeLifecycle(i)
                  \/ RefuseRegistration(i) \/ ChangeAddress(i) \/ RegisterSourceChat(i)
      BY <3>1, Applied
    <3>5. ~\E i \in 1..Len(queue["ingestion"]) :
               /\ queue["ingestion"][i].contract = d
               /\ Activate(i) \/ \E t \in Types : Admit(i, t)
      <4>1. SUFFICES ASSUME NEW i \in 1..Len(queue["ingestion"]),
                            queue["ingestion"][i].contract = d, Activate(i)
                     PROVE  FALSE
        BY <3>1 DEF Admit, Handles
      <4>2. registry[c][g].state = "enabled"
        BY <2>1, <2>4
      <4>3. \A n \in Generations : registry[c][n].state = "enabled" => n <= g
        BY <1>2, <4>2 DEF LiveIsNewest, Live, Latest, Exists
      <4>4. [generation |-> g, started |-> registry[c][g].started] \in Boundary(c)
        BY <4>2, <4>3 DEF Boundary
      <4>5. c \in scope'
        BY <3>1, <4>1, <4>4 DEF Activate
      <4> QED
        BY <2>1, <4>5
    <3> QED
      BY <1>2, <3>3, <3>4, <3>5, Kept
  <2> QED
    BY <2>3, <2>4
<1> QED
  BY <1>1, <1>2, AdministrationTyped, LiveRowIsNewest, PTL DEF Spec
-----------------------------------------------------------------------------
(* What is listed was there: rows stay, whatever becomes of them.          *)
ListedExists == \A c \in Chats, g \in Generations : listed[c][g] # "none" => Exists(c, g)

(* The list is drawn as the registry is, which that step leaves alone.     *)
LEMMA ListDrawn ==
    ASSUME [Next]_vars, ~UNCHANGED screen
    PROVE  /\ UNCHANGED registry
           /\ listed' \in {Listing, Nothing}
           /\ stage' = "chats" /\ asked' = {} => listed' = Listing
<1>1. CASE Bot
  <2>1. /\ UNCHANGED registry
        /\ UNCHANGED screen \/ ShowList \/ Show("address") \/ Show("elsewhere")
    BY Zenon, <1>1, BotKeeps
  <2> QED
    BY <2>1 DEF Show, ShowList
<1>2. CASE Administrator
  BY <1>2 DEF Administrator, ShowSourceChats, Leave, ShowAddressInput, SubmitLifecycle,
     SubmitAddress, AskConfirmation, Show, ShowList
<1>3. CASE Application
  BY Zenon, <1>3, ApplicationKeeps
<1>4. CASE UNCHANGED vars
  BY <1>4 DEF vars, screen
<1>5. CASE Ingestion
  BY <1>5 DEF Ingestion, Start, Serve, PublishSeed, Admit, Activate
<1>6. CASE Leases
  BY <1>6 DEF Leases, LeaseLapse
<1>7. CASE Trouble
  BY <1>7 DEF Trouble, Revoke, Crash, IngestionEnds, Ends
<1> QED
  BY Zenon, <1>1, <1>2, <1>3, <1>4, <1>5, <1>6, <1>7 DEF Next

LEMMA ListedIsThere == Spec => []ListedExists
<1>1. Init => ListedExists
  BY DEF Init, ListedExists, Nothing
<1>2. ASSUME TypeOK, ListedExists, [Next]_vars
      PROVE  ListedExists'
  <2>1. ASSUME NEW c \in Chats, NEW g \in Generations, Exists(c, g)
        PROVE  Exists(c, g)'
    <3>1. CASE registry'[c][g] = registry[c][g]
      BY <2>1, <3>1 DEF Exists
    <3>2. CASE registry'[c][g] # registry[c][g]
      BY <1>2, <2>1, <3>2, RowStep, RowTyped, AfterTyped DEF Exists
    <3> QED
      BY <3>1, <3>2
  <2>2. CASE UNCHANGED screen
    BY <1>2, <2>1, <2>2 DEF screen, ListedExists
  <2>3. CASE ~UNCHANGED screen
    <3>1. listed' \in {Listing, Nothing}
      BY <1>2, <2>3, ListDrawn
    <3>2. \A c \in Chats, g \in Generations : listed'[c][g] # "none" => Exists(c, g)
      BY <3>1 DEF Listing, Nothing, Exists
    <3> QED
      BY <2>1, <3>2 DEF ListedExists
  <2> QED
    BY <2>2, <2>3
<1> QED
  BY <1>1, <1>2, AdministrationTyped, PTL DEF Spec

(* The result of the control that changed a listed row is on its way.      *)
LEMMA ChangeIsTold ==
    ASSUME TypeOK, LiveIsNewest, [Next]_vars, NEW c \in Chats, NEW g \in Generations,
           Exists(c, g), registry'[c][g].state # registry[c][g].state
    PROVE  \E k \in InFlight(queue') : /\ k.type = "changed" /\ k.action \in Actions
                                       /\ k.chat = c /\ k.generation = g
<1>0. queue \in Queues
  BY DEF TypeOK, Queues, Entries
<1>1. PICK i \in 1..Len(queue["application"]) : RegisterSourceChat(i) \/ ChangeLifecycle(i)
  BY OtherwiseKept
<1>6. PICK k : k = queue["application"][i].contract
  OBVIOUS
<1> DEFINE r == As(k, "changed")
<1>2. /\ k \in Contracts /\ r \in Contracts /\ r.type = "changed" /\ r.action = k.action
      /\ r.chat = k.chat /\ r.generation = k.generation
      /\ As(k, "activated") \in Contracts
  BY <1>0, <1>6, Taken, AsTyped, Named
<1>3. ~RegisterSourceChat(i)
  <2>1. SUFFICES ASSUME RegisterSourceChat(i) PROVE FALSE
    OBVIOUS
  <2>2. c = k.chat /\ g # k.generation
    <3>1. c = k.chat
      <4>1. ASSUME c # k.chat PROVE registry'[c] = registry[c]
        BY Zenon, <1>6, <2>1, <4>1, RegisteredElsewhere
      <4> QED
        BY <4>1
    <3>2. ~(g < g)
      BY DEF Generations
    <3> QED
      <4>1. \A h \in Generations : Exists(k.chat, h) => h < k.generation
        BY Zenon, <1>6, <2>1, RegisteredNewest
      <4> QED
        BY <3>1, <3>2, <4>1
  <2>3. registry'[c][g].state = "removed"
    <3>1. registry'[k.chat][g].state = IF Exists(k.chat, g) THEN "removed" ELSE "none"
      BY Zenon, <1>6, <2>1, <2>2, Registered
    <3> QED
      BY <2>2, <3>1
  <2>4. Live(c, g)
    BY <2>3, RowTyped DEF Live, Exists, Row, States
  <2>5. g \in Latest(c)
    BY <2>4 DEF LiveIsNewest
  <2>6. \A h \in Latest(k.chat) : ~Live(k.chat, h)
    BY Zenon, <1>6, <2>1, Registering
  <2> QED
    BY <2>2, <2>4, <2>5, <2>6
<1>4. c = k.chat /\ g = k.generation /\ k.action \in Actions
  BY <1>1, <1>3, <1>6, Changed
<1>5. r \in InFlight(queue')
  <2>1. Answer("application", i, r) \in Queues /\ r \in InFlight(Answer("application", i, r))
    BY <1>0, <1>2, AnswerTyped, AnswerCarries, Named
  <2>3. \/ queue' = Answer("application", i, r)
        \/ queue' = Sent(Answer("application", i, r), As(k, "activated"))
    BY Zenon, <1>1, <1>3, <1>6, Controlling
  <2> HIDE DEF r
  <2> QED
    BY <1>2, <2>1, <2>3, SentCarries
<1> QED
  BY <1>2, <1>4, <1>5

(* A chat is listed as it is, or the result of a control is on its way.    *)
THEOREM ListIsTrue == Spec => []ListedTrue
<1>1. Init => ListedTrue
  BY DEF Init, ListedTrue
<1>2. ASSUME TypeOK, LiveIsNewest, ListedExists, ListedTrue, [Next]_vars
      PROVE  ListedTrue'
  <2>1. SUFFICES ASSUME stage' = "chats", asked' = {}, NEW c \in Chats, NEW g \in Generations,
                        listed'[c][g] \notin {"none", registry'[c][g].state}
                 PROVE  \E k \in InFlight(queue') : /\ k.type = "changed" /\ k.action \in Actions
                                                    /\ k.chat = c /\ k.generation = g
    BY DEF ListedTrue
  <2>2. UNCHANGED screen
    <3>1. SUFFICES ASSUME ~UNCHANGED screen PROVE FALSE
      OBVIOUS
    <3>2. listed' = Listing /\ registry' = registry
      BY <1>2, <2>1, <3>1, ListDrawn
    <3> QED
      BY <2>1, <3>2 DEF Listing
  <2>3. stage = "chats" /\ asked = {} /\ listed' = listed /\ Exists(c, g)
    BY <1>2, <2>1, <2>2 DEF screen, ListedExists
  <2>4. CASE registry'[c][g].state # registry[c][g].state
    BY <1>2, <2>3, <2>4, ChangeIsTold
  <2>5. CASE registry'[c][g].state = registry[c][g].state
    <3>1. PICK d \in InFlight(queue) : /\ d.type = "changed" /\ d.action \in Actions
                                       /\ d.chat = c /\ d.generation = g
      BY <1>2, <2>1, <2>3, <2>5 DEF ListedTrue
    <3>2. SUFFICES ASSUME d \notin InFlight(queue') PROVE FALSE
      BY <3>1
    <3>3. PICK i \in 1..Len(queue["bot"]) : AcceptLifecycle(i)
      <4>1. ~\E i \in 1..Len(queue["application"]) :
                 /\ queue["application"][i].contract = d
                 /\ \/ RequestAdmission(i) \/ RejectRegistration(i) \/ ChangeLifecycle(i)
                    \/ RefuseRegistration(i) \/ ChangeAddress(i) \/ RegisterSourceChat(i)
        BY <3>1, Applied
      <4>2. ~\E i \in 1..Len(queue["ingestion"]) :
                 /\ queue["ingestion"][i].contract = d
                 /\ Activate(i) \/ \E t \in Types : Admit(i, t)
        BY <3>1 DEF Activate, Admit, Handles
      <4>3. \A i \in 1..Len(queue["bot"]) :
                queue["bot"][i].contract = d => ~AcceptRegistration(i) /\ ~AcceptFailure(i)
        BY <3>1, Named DEF AcceptRegistration, AcceptFailure, Handles
      <4> QED
        BY <1>2, <3>2, <4>1, <4>2, <4>3, Kept
    <3>4. listed' = Listing /\ registry' = registry
      BY <2>3, <3>3 DEF AcceptLifecycle, RenewList, ShowList
    <3> QED
      BY <2>1, <3>4 DEF Listing
  <2> QED
    BY <2>4, <2>5
<1> QED
  BY <1>1, <1>2, AdministrationTyped, LiveRowIsNewest, ListedIsThere, PTL DEF Spec
-----------------------------------------------------------------------------
(* What an administrator decides is executed beside the pipeline.  The     *)
(* deletion of a Source Author's data is the case with five owners: D is   *)
(* SourceDataDeletion, with its commands and events in `orders`, and what  *)
(* follows holds for every number of revisions, attempts and failures and  *)
(* every set of searches.                                                  *)
CONSTANTS MaxRevision, Searches, MaxAttempts, MaxTrouble, MaxWaiting, MaxLeft
VARIABLES posted, fetched, request, confirmed, targets, acks, orders, records, accepted,
          attempts, opportunity, projection, searches, contracts, hand, failures, raced,
          overtaken

D == INSTANCE SourceDataDeletion WITH scope <- orders

Values     == 0..MaxRevision
RowType    == [state : {"none", "pending", "settled"}, facts : Values, whole : BOOLEAN]
ViewType   == [facts : Values, active : BOOLEAN]
HandType   == [what : {"idle", "calling", "search", "read"} \cup D!Publications,
               id : Values \cup Searches, facts : Values, cards : SUBSET Values]
SearchType == [stage : {"none", "completed", "answered"}, results : SUBSET Values,
               inputs : SUBSET Values, count : Nat, shown : SUBSET Values]
Answers    == {"suppressed", "deleted", "suppression_failed", "deletion_failed"}
OrderType  == [name : D!Asks \cup Answers, owner : D!Owners, attempt : Nat,
               searches : SUBSET Searches]
Statuses   == {"pending_decision", "approved_awaiting_execution", "rejected", "suppressing",
               "executing", "execution_error", "awaiting_completion", "completed"}
Phases     == {"pending", "completed", "failed"}
AckType    == [suppression : Phases, deletion : Phases]
Workers    == D!Owners \ {"ingestion", "application"}
Keys       == D!Kinds \X D!Revisions

(* The types of the protocol, and of what the owners hold.                 *)
ProtocolTyped ==
    /\ posted \in Values /\ fetched \in 0..posted
    /\ request \in [status : Statuses, attempt : Nat, boundary : 0..posted, notified : BOOLEAN]
    /\ confirmed \in -1..posted
    /\ targets \in [revisions : SUBSET (1..request.boundary), opportunity : BOOLEAN,
                    searches : SUBSET Searches]
    /\ acks \in [D!Owners -> AckType]
    /\ orders \subseteq OrderType
    /\ raced \subseteq Searches /\ overtaken \in BOOLEAN

OwnedTyped ==
    /\ records \subseteq 1..fetched /\ accepted \subseteq 1..fetched
    /\ attempts \subseteq D!Revisions
    /\ opportunity \in [rev : 0..fetched, facts : Values, active : BOOLEAN]
    /\ projection \in [D!Revisions -> ViewType]
    /\ searches \in [Searches -> SearchType]
    /\ contracts \in [Keys -> RowType]
    /\ hand \in [Workers -> HandType]

Typed == ProtocolTyped /\ OwnedTyped

cls == hand["classification"]
rec == hand["recommendation"]
bot == hand["bot_assistant"]

Asked    == request.attempt > 0
Targeted == targets.revisions

(* What contracts and processes hold: the revision they are about.         *)
CarriesOwn ==
    /\ \A k \in D!Kinds, r \in D!Revisions :
           k # "supersession" => contracts[<<k, r>>].facts \in {D!Nothing, r}
    /\ \A r \in D!Revisions : r > fetched => contracts[<<"event", r>>].state = "none"
    /\ cls # D!Idle => cls.what = "calling" /\ cls.id \in D!Revisions /\ cls.facts = cls.id
    /\ rec # D!Idle => rec.what \in D!Publications \cup {"search"}
    /\ rec.what = "publication" => rec.facts = rec.id
    /\ rec.what \in D!Publications => rec.id \in D!Revisions
    /\ rec.what = "search" => rec.id \in Searches /\ searches[rec.id].stage = "none"
    /\ bot # D!Idle => bot.what = "read" /\ bot.id \in Searches
                       /\ searches[bot.id].stage = "completed"

(* Events are accepted in order, and the Opportunity is at the last one.   *)
InOrder ==
    /\ \A a \in accepted, r \in D!Revisions :
           r <= a => contracts[<<"event", r>>].state # "pending"
    /\ opportunity.rev # D!Nothing =>
           opportunity.rev \in accepted /\ \A a \in accepted : a <= opportunity.rev

-----------------------------------------------------------------------------
Executes == \E c \in orders : D!Execute(c)
Fails    == \E c \in orders : D!Fail(c)
Answered == \E c \in orders : D!OwnerEvent(c)
Events   == \E r \in D!Revisions : D!AcceptEvent(r)
Admits   == \E r \in D!Revisions : D!Admit(r)
Decides  == \E r \in D!Revisions, found \in BOOLEAN : D!AcceptProposal(r, found)
Claims   == \E k \in D!Publications, r \in D!Revisions : D!Claim(k, r)
Refuses  == \E k \in D!Kinds, r \in D!Revisions : D!Refuse(k, r)
Reads    == \E s \in Searches : D!ReadResults(s)
Finds    == \E s \in Searches : D!Search(s)
Rules    == \E d \in {"approved_awaiting_execution", "rejected"} : D!Decide(d)

(* The actions, one by one.                                                *)
LEMMA Steps ==
    ASSUME [D!Next]_(D!vars)
    PROVE  \/ UNCHANGED D!vars \/ D!Post \/ D!Record \/ D!Propose \/ D!Project \/ D!CompleteSearch
           \/ D!AcceptResults \/ Events \/ Admits \/ Decides \/ Claims \/ Refuses \/ Reads
           \/ Finds \/ Rules \/ D!Notify \/ D!Complete \/ D!Confirm \/ D!Begin \/ Executes \/ Fails
           \/ Answered
  BY Zenon DEF D!Next, D!Pipeline, Events, Admits, Decides, Claims, Refuses, Reads, Finds, Rules,
               Executes, Fails, Answered

(* Who moves what.                                                         *)
Moved ==
    /\ UNCHANGED posted \/ D!Post
    /\ UNCHANGED fetched \/ D!Record
    /\ UNCHANGED request \/ Rules \/ D!Notify \/ D!Complete \/ D!Begin \/ Answered
    /\ UNCHANGED confirmed \/ D!Confirm \/ D!Begin
    /\ UNCHANGED <<targets, acks>> \/ D!Begin \/ Answered
    /\ UNCHANGED orders \/ D!Begin \/ Executes \/ Fails \/ Answered
    /\ UNCHANGED records \/ D!Record \/ Executes
    /\ UNCHANGED accepted \/ Events \/ Executes
    /\ UNCHANGED attempts \/ Admits \/ Executes
    /\ UNCHANGED opportunity \/ Events \/ Decides \/ Executes
    /\ UNCHANGED projection \/ D!Project \/ Executes
    /\ UNCHANGED searches \/ D!CompleteSearch \/ Reads \/ D!AcceptResults \/ Executes
    /\ \/ UNCHANGED contracts \/ D!Record \/ Refuses \/ Events \/ Admits \/ D!Propose \/ Decides
       \/ D!Project \/ D!Begin \/ Executes
    /\ \/ UNCHANGED hand \/ Admits \/ D!Propose \/ Claims \/ D!Project \/ Finds \/ D!CompleteSearch
       \/ Reads \/ D!AcceptResults
    /\ UNCHANGED raced \/ D!Begin
    /\ UNCHANGED overtaken \/ Events

(* Each variable moves in the actions that name it.                        *)
LEMMA Moves == ASSUME [D!Next]_(D!vars) PROVE Moved
<1> USE DEF Moved, D!vars, D!telegram, D!protocol, D!owned, D!history
<1>1. CASE UNCHANGED D!vars
  BY <1>1
<1>2. CASE D!Post
  BY <1>2 DEF D!Post
<1>3. CASE D!Record
  BY <1>3 DEF D!Record
<1>4. CASE D!Propose
  BY <1>4 DEF D!Propose
<1>5. CASE D!Project
  BY <1>5 DEF D!Project
<1>6. CASE D!CompleteSearch
  BY <1>6 DEF D!CompleteSearch
<1>7. CASE D!AcceptResults
  BY <1>7 DEF D!AcceptResults
<1>8. CASE Events
  <2>1. UNCHANGED <<D!telegram, D!protocol, records, attempts, projection, searches, hand, raced>>
    BY <1>8 DEF Events, D!AcceptEvent
  <2> QED
    BY <1>8, <2>1
<1>9. CASE Admits
  <2>1. UNCHANGED <<D!telegram, D!protocol, records, accepted, opportunity, projection, searches,
                    D!history>>
    BY <1>9 DEF Admits, D!Admit
  <2> QED
    BY <1>9, <2>1
<1>10. CASE Decides
  <2>1. UNCHANGED <<D!telegram, D!protocol, records, accepted, attempts, projection, searches,
                    hand, D!history>>
    BY <1>10 DEF Decides, D!AcceptProposal
  <2> QED
    BY <1>10, <2>1
<1>11. CASE Claims
  BY <1>11 DEF Claims, D!Claim
<1>12. CASE Refuses
  BY <1>12 DEF Refuses, D!Refuse
<1>13. CASE Reads
  <2>1. UNCHANGED <<D!telegram, D!protocol, D!owned, contracts, D!history>>
    BY <1>13 DEF Reads, D!ReadResults
  <2> QED
    BY <1>13, <2>1
<1>14. CASE Finds
  <2>1. UNCHANGED <<D!telegram, D!protocol, D!owned, searches, contracts, D!history>>
    BY <1>14 DEF Finds, D!Search
  <2> QED
    BY <1>14, <2>1
<1>15. CASE Rules
  BY <1>15 DEF Rules, D!Decide
<1>16. CASE D!Notify
  BY <1>16 DEF D!Notify
<1>17. CASE D!Complete
  BY <1>17 DEF D!Complete
<1>18. CASE D!Confirm
  BY <1>18 DEF D!Confirm
<1>19. CASE D!Begin
  <2>1. UNCHANGED <<D!telegram, failures, D!owned, searches, hand, overtaken>>
    BY <1>19 DEF D!Begin
  <2> QED
    BY <1>19, <2>1
<1>20. CASE Executes
  <2>1. UNCHANGED <<D!telegram, request, confirmed, targets, acks, failures, hand, D!history>>
    BY <1>20 DEF Executes, D!Execute
  <2> QED
    BY <1>20, <2>1
<1>21. CASE Fails
  <2>1. UNCHANGED <<D!telegram, request, confirmed, targets, acks, D!owned, searches, contracts,
                    hand, D!history>>
    BY <1>21 DEF Fails, D!Fail
  <2> QED
    BY <1>21, <2>1
<1>22. CASE Answered
  <2>1. UNCHANGED <<D!telegram, confirmed, failures, D!owned, searches, contracts, hand, D!history>>
    BY <1>22 DEF Answered, D!OwnerEvent
  <2> QED
    BY <1>22, <2>1
<1> QED
  BY <1>1, <1>2, <1>3, <1>4, <1>5, <1>6, <1>7, <1>8, <1>9, <1>10, <1>11, <1>12, <1>13, <1>14,
     <1>15, <1>16, <1>17, <1>18, <1>19, <1>20, <1>21, <1>22, Steps
-----------------------------------------------------------------------------
(* Rows of the outbox: one is put, one is settled, some are scrubbed.      *)
IsPut(rows, old, k, facts) ==
    /\ rows \in [Keys -> RowType] /\ rows[k].facts = facts /\ rows[k].state = "pending"
    /\ \A j \in Keys : j # k => rows[j] = old[j]

IsSettled(rows, old, k) ==
    /\ rows \in [Keys -> RowType] /\ rows[k].state = "settled"
    /\ \A j \in Keys : rows[j].facts = old[j].facts /\ rows[j].whole = old[j].whole
    /\ \A j \in Keys : j # k => rows[j] = old[j]

(* A row that is put.                                                      *)
LEMMA PutRow ==
    ASSUME NEW rows \in [Keys -> RowType], NEW kind \in D!Kinds, NEW r \in D!Revisions,
           NEW facts \in Values
    PROVE  IsPut(D!Put(kind, r, facts, rows), rows, <<kind, r>>, facts)
  BY DEF D!Put, Keys, RowType, IsPut

(* A row that is settled.                                                  *)
LEMMA SettledRow ==
    ASSUME NEW rows \in [Keys -> RowType], NEW kind \in D!Kinds, NEW r \in D!Revisions
    PROVE  IsSettled(D!Settle(kind, r, rows), rows, <<kind, r>>)
  BY DEF D!Settle, Keys, RowType, IsSettled

IsWithout(rows, old, kinds, revs, opp) ==
    /\ rows \in [Keys -> RowType]
    /\ \A k \in Keys :
           /\ rows[k].state = old[k].state
           /\ rows[k].facts = IF D!Hit(k, kinds, revs, opp) /\ k[1] \notin D!Publications
                              THEN D!Nothing ELSE old[k].facts
           /\ rows[k].whole = IF D!Hit(k, kinds, revs, opp) THEN FALSE ELSE old[k].whole

(* What a scrub leaves of a row.                                           *)
LEMMA ScrubbedRow ==
    ASSUME D!DeletionAssumption, NEW k, NEW row \in RowType
    PROVE  /\ D!Scrub(k, row) \in RowType
           /\ D!Scrub(k, row).state = row.state /\ D!Scrub(k, row).whole = FALSE
           /\ D!Scrub(k, row).facts = IF k[1] \in D!Publications THEN row.facts ELSE D!Nothing
<1>1. D!Nothing \in Values
  BY DEF D!DeletionAssumption, D!Nothing, Values
<1> QED
  BY <1>1 DEF D!Scrub, RowType

(* The rows that a scrub leaves, with their states.                        *)
LEMMA ScrubbedRows ==
    ASSUME D!DeletionAssumption, NEW rows \in [Keys -> RowType], NEW kinds, NEW revs, NEW opp
    PROVE  IsWithout(D!Without(rows, kinds, revs, opp), rows, kinds, revs, opp)
<1> DEFINE w == D!Without(rows, kinds, revs, opp)
<1>1. w = [k \in Keys |-> IF D!Hit(k, kinds, revs, opp) THEN D!Scrub(k, rows[k]) ELSE rows[k]]
  BY DEF D!Without
<1>2. ASSUME NEW k \in Keys
      PROVE  /\ w[k] \in RowType /\ w[k].state = rows[k].state
             /\ w[k].facts = IF D!Hit(k, kinds, revs, opp) /\ k[1] \notin D!Publications
                             THEN D!Nothing ELSE rows[k].facts
             /\ w[k].whole = IF D!Hit(k, kinds, revs, opp) THEN FALSE ELSE rows[k].whole
  <2>1. w[k] = IF D!Hit(k, kinds, revs, opp) THEN D!Scrub(k, rows[k]) ELSE rows[k]
    BY <1>1
  <2>2. rows[k] \in RowType
    OBVIOUS
  <2> HIDE DEF w
  <2>3. CASE D!Hit(k, kinds, revs, opp)
    <3>1. PICK row \in RowType : row = rows[k]
      BY <2>2
    <3>2. w[k] = D!Scrub(k, row)
      BY <2>1, <2>3, <3>1
    <3>3. /\ D!Scrub(k, row) \in RowType
          /\ D!Scrub(k, row).state = row.state /\ D!Scrub(k, row).whole = FALSE
          /\ D!Scrub(k, row).facts = IF k[1] \in D!Publications THEN row.facts ELSE D!Nothing
      BY <3>1, ScrubbedRow
    <3> QED
      BY <2>3, <3>1, <3>2, <3>3
  <2>4. CASE ~D!Hit(k, kinds, revs, opp)
    BY <2>1, <2>2, <2>4
  <2> QED
    BY <2>3, <2>4
<1>3. w \in [Keys -> RowType]
  <2> HIDE DEF RowType
  <2>1. w = [k \in Keys |-> w[k]]
    BY <1>1
  <2> HIDE DEF w
  <2> QED
    BY <1>2, <2>1
<1> HIDE DEF w
<1>4. IsWithout(w, rows, kinds, revs, opp)
  BY <1>2, <1>3 DEF IsWithout
<1> QED
  BY <1>4 DEF w

(* The rows are those of the five kinds, by revision.                      *)
LEMMA KeyFacts ==
    ASSUME D!DeletionAssumption
    PROVE
    /\ \A k \in D!Kinds, r \in D!Revisions : <<k, r>> \in Keys
    /\ \A k \in Keys : k[1] \in D!Kinds /\ k[2] \in D!Revisions /\ k = <<k[1], k[2]>>
    /\ {"event", "classify", "proposal", "publication", "supersession"} = D!Kinds
    /\ MaxRevision \in Nat /\ D!Nothing \in Values /\ D!Revisions \subseteq Values
    /\ {"classification", "recommendation", "bot_assistant"} = Workers
    /\ \A r \in D!Revisions : r # D!Nothing
  BY DEF D!DeletionAssumption, Keys, D!Kinds, D!Publications, D!Nothing, Values, D!Revisions,
         Workers, D!Owners

-----------------------------------------------------------------------------
(* An event is settled, barred or accepted.                                *)
AcceptedHere(r) ==
    /\ ~D!EventBarred(r)
    /\ contracts[<<"event", r>>].facts # D!Nothing => ~D!AuthorBarred(r)
    /\ accepted' = accepted \cup {r}
    /\ IF opportunity.rev = D!Nothing THEN UNCHANGED opportunity
       ELSE opportunity' = [opportunity EXCEPT !.rev = r, !.active = FALSE]
    /\ contracts'[<<"classify", r>>].facts = r
    /\ IF opportunity.rev = D!Nothing
       THEN contracts'[<<"supersession", r>>] = contracts[<<"supersession", r>>]
       ELSE contracts'[<<"supersession", r>>].facts = opportunity.facts
    /\ overtaken \/ (r > request.boundary /\ opportunity.rev # D!Nothing
                     /\ \/ Asked /\ opportunity.rev <= request.boundary
                        \/ confirmed >= 0 /\ opportunity.rev <= confirmed /\ r > confirmed)
       => overtaken'
    /\ overtaken => overtaken'

(* What an event does: nothing when it is barred, or it is accepted.       *)
LEMMA EventEffect ==
    ASSUME D!DeletionAssumption, Typed, NEW r \in D!Revisions, D!AcceptEvent(r)
    PROVE  /\ contracts[<<"event", r>>].state = "pending"
           /\ \A p \in 1..(r - 1) : contracts[<<"event", p>>].state # "pending"
           /\ contracts' \in [Keys -> RowType]
           /\ contracts'[<<"event", r>>].state = "settled"
           /\ contracts'[<<"event", r>>].facts = contracts[<<"event", r>>].facts
           /\ contracts'[<<"event", r>>].whole = contracts[<<"event", r>>].whole
           /\ \A k \in Keys \ {<<"event", r>>, <<"classify", r>>, <<"supersession", r>>} :
                  contracts'[k] = contracts[k]
           /\ \/ /\ UNCHANGED <<accepted, opportunity, overtaken>>
                 /\ \A k \in Keys : /\ contracts'[k].facts = contracts[k].facts
                                    /\ contracts'[k].whole = contracts[k].whole
                 /\ D!EventBarred(r) \/ D!AuthorBarred(r)
              \/ AcceptedHere(r)
<1> DEFINE content == contracts[<<"event", r>>].facts # D!Nothing
           late == r > request.boundary /\ opportunity.rev # D!Nothing
                   /\ \/ request.attempt > 0 /\ opportunity.rev <= request.boundary
                      \/ confirmed >= 0 /\ opportunity.rev <= confirmed /\ r > confirmed
<1>1. /\ contracts \in [Keys -> RowType] /\ opportunity.facts \in Values
      /\ overtaken \in BOOLEAN
  BY DEF Typed, OwnedTyped, ProtocolTyped
<1>2. /\ contracts[<<"event", r>>].state = "pending"
      /\ \A p \in 1..(r - 1) : contracts[<<"event", p>>].state # "pending"
      /\ IF D!EventBarred(r) \/ (content /\ D!AuthorBarred(r))
         THEN /\ contracts' = D!Settle("event", r, contracts)
              /\ UNCHANGED <<accepted, opportunity, overtaken>>
         ELSE /\ accepted' = accepted \cup {r}
              /\ opportunity' = IF opportunity.rev = D!Nothing THEN opportunity
                                ELSE [opportunity EXCEPT !.rev = r, !.active = FALSE]
              /\ contracts' = D!Settle("event", r, D!Put("classify", r, r,
                     IF opportunity.rev = D!Nothing THEN contracts
                     ELSE D!Put("supersession", r, opportunity.facts, contracts)))
              /\ overtaken' = (overtaken \/ late)
  BY DEF D!AcceptEvent
<1>3. /\ "event" \in D!Kinds /\ "classify" \in D!Kinds /\ "supersession" \in D!Kinds /\ r \in Values
      /\ <<"event", r>> \in Keys /\ <<"classify", r>> \in Keys /\ <<"supersession", r>> \in Keys
      /\ <<"event", r>> # <<"classify", r>> /\ <<"event", r>> # <<"supersession", r>>
      /\ <<"classify", r>> # <<"supersession", r>>
  BY KeyFacts
<1>4. CASE D!EventBarred(r) \/ (content /\ D!AuthorBarred(r))
  <2>1. /\ contracts' = D!Settle("event", r, contracts)
        /\ UNCHANGED <<accepted, opportunity, overtaken>>
    BY <1>2, <1>4
  <2>2. /\ contracts' \in [Keys -> RowType]
        /\ contracts'[<<"event", r>>].state = "settled"
        /\ \A k \in Keys : /\ contracts'[k].facts = contracts[k].facts
                           /\ contracts'[k].whole = contracts[k].whole
        /\ \A k \in Keys : k # <<"event", r>> => contracts'[k] = contracts[k]
    <3>1. IsSettled(contracts', contracts, <<"event", r>>)
      BY <1>1, <1>3, <2>1, SettledRow
    <3> QED
      BY <3>1 DEF IsSettled
  <2> QED
    BY <1>2, <1>3, <1>4, <2>1, <2>2
<1>5. CASE ~(D!EventBarred(r) \/ (content /\ D!AuthorBarred(r)))
  <2> DEFINE a == IF opportunity.rev = D!Nothing THEN contracts
                  ELSE D!Put("supersession", r, opportunity.facts, contracts)
             b == D!Put("classify", r, r, a)
  <2>1. /\ accepted' = accepted \cup {r}
        /\ opportunity' = IF opportunity.rev = D!Nothing THEN opportunity
                          ELSE [opportunity EXCEPT !.rev = r, !.active = FALSE]
        /\ contracts' = D!Settle("event", r, b)
        /\ overtaken' = (overtaken \/ late)
    BY <1>2, <1>5
  <2>2. /\ a \in [Keys -> RowType]
        /\ IF opportunity.rev = D!Nothing
           THEN a[<<"supersession", r>>] = contracts[<<"supersession", r>>]
           ELSE a[<<"supersession", r>>].facts = opportunity.facts
        /\ \A k \in Keys : k # <<"supersession", r>> => a[k] = contracts[k]
    <3>1. CASE opportunity.rev = D!Nothing
      BY <1>1, <3>1
    <3>2. CASE opportunity.rev # D!Nothing
      <4>1. PICK p : p = D!Put("supersession", r, opportunity.facts, contracts)
        OBVIOUS
      <4>2. /\ p \in [Keys -> RowType] /\ p[<<"supersession", r>>].facts = opportunity.facts
            /\ \A k \in Keys : k # <<"supersession", r>> => p[k] = contracts[k]
        <5>1. contracts \in [Keys -> RowType] /\ opportunity.facts \in Values
              /\ "supersession" \in D!Kinds
          BY <1>1, <1>3
        <5>2. IsPut(p, contracts, <<"supersession", r>>, opportunity.facts)
          BY <4>1, <5>1, PutRow
        <5> QED
          BY <5>2 DEF IsPut
      <4> QED
        BY <3>2, <4>1, <4>2, Zenon
    <3> QED
      BY <3>1, <3>2
  <2> HIDE DEF a
  <2>3. /\ b \in [Keys -> RowType] /\ b[<<"classify", r>>].facts = r
        /\ \A k \in Keys : k # <<"classify", r>> => b[k] = a[k]
    <3>1. PICK p : p = D!Put("classify", r, r, a)
      OBVIOUS
    <3>2. /\ p \in [Keys -> RowType] /\ p[<<"classify", r>>].facts = r
          /\ \A k \in Keys : k # <<"classify", r>> => p[k] = a[k]
      <4>1. a \in [Keys -> RowType] /\ r \in Values /\ "classify" \in D!Kinds
        BY <1>3, <2>2
      <4>2. IsPut(p, a, <<"classify", r>>, r)
        BY <3>1, <4>1, PutRow
      <4> QED
        BY <4>2 DEF IsPut
    <3> QED
      BY <3>1, <3>2, Zenon
  <2> HIDE DEF b
  <2>4. /\ contracts' \in [Keys -> RowType]
        /\ contracts'[<<"event", r>>].state = "settled"
        /\ \A k \in Keys : contracts'[k].facts = b[k].facts /\ contracts'[k].whole = b[k].whole
        /\ \A k \in Keys : k # <<"event", r>> => contracts'[k] = b[k]
    <3>1. IsSettled(contracts', b, <<"event", r>>)
      BY <1>3, <2>1, <2>3, SettledRow
    <3> QED
      BY <3>1 DEF IsSettled
  <2>5. /\ contracts'[<<"event", r>>].facts = contracts[<<"event", r>>].facts
        /\ contracts'[<<"event", r>>].whole = contracts[<<"event", r>>].whole
        /\ contracts'[<<"classify", r>>].facts = r
        /\ contracts'[<<"supersession", r>>] = a[<<"supersession", r>>]
        /\ \A k \in Keys \ {<<"event", r>>, <<"classify", r>>, <<"supersession", r>>} :
               contracts'[k] = contracts[k]
    BY <1>3, <2>2, <2>3, <2>4
  <2>6. AcceptedHere(r)
    <3> HIDE DEF late
    <3>1. (overtaken \/ late) => overtaken'
      BY <2>1
    <3> USE DEF late
    <3> QED
      BY <1>5, <2>1, <2>2, <2>5, <3>1 DEF AcceptedHere, Asked
  <2> QED
    BY <1>2, <2>4, <2>5, <2>6
<1> QED
  BY <1>4, <1>5
-----------------------------------------------------------------------------
(* The latest of some revisions, or nothing.                               *)
LEMMA MaxNat == ASSUME NEW n \in Nat, NEW S \in SUBSET (0..n), S # {}
                PROVE  D!Max(S) \in S /\ \A x \in S : x <= D!Max(S)
<1> DEFINE R == {pair \in Nat \X Nat : pair[1] < pair[2]}
           T == {n - x : x \in S}
<1>1. IsWellFoundedOn(R, Nat)
  BY NatLessThanWellFounded DEF OpToRel
<1>2. \A x \in S : n - x \in Nat
  OBVIOUS
<1>3. T \in SUBSET Nat /\ T # {}
  BY <1>2, Zenon
<1>4. PICK m \in T : \A y \in T : ~(<<y, m>> \in R)
  <2> HIDE DEF R, T
  <2> QED
    BY <1>1, <1>3, WFMin
<1>5. PICK x \in S : m = n - x
  BY <1>4
<1>6. ASSUME NEW y \in S
      PROVE  x >= y
  <2>1. n - y \in T /\ n - y \in Nat /\ m \in Nat /\ <<n - y, m>> \notin R
    BY <1>2, <1>4, <1>5
  <2>2. ~(n - y < m)
    BY <2>1
  <2> QED
    BY <1>5, <2>1, <2>2
<1>7. \E z \in S : \A y \in S : z >= y
  BY <1>6
<1> QED
  BY <1>7 DEF D!Max

(* The current revision is the last one accepted.                          *)
LEMMA CurrentIsLast ==
    ASSUME D!DeletionAssumption, Typed
    PROVE  /\ D!Current \in accepted \cup {D!Nothing}
           /\ \A a \in accepted : a <= D!Current
<1>1. /\ accepted \cup {D!Nothing} \in SUBSET (0..fetched) /\ fetched \in Nat
      /\ accepted \cup {D!Nothing} # {}
  BY KeyFacts DEF Typed, ProtocolTyped, OwnedTyped, Values, D!Nothing
<1> QED
  BY <1>1, MaxNat DEF D!Current

(* The latest projection is one that is there.                             *)
LEMMA LatestIsRow ==
    ASSUME D!DeletionAssumption, D!Latest # D!Nothing
    PROVE  D!Latest \in D!Revisions /\ projection[D!Latest].facts # D!Nothing
<1> DEFINE S == {r \in D!Revisions : projection[r].facts # D!Nothing} \cup {D!Nothing}
<1>1. S \in SUBSET (0..MaxRevision) /\ MaxRevision \in Nat /\ S # {}
  BY KeyFacts DEF D!Revisions, D!Nothing
<1>2. D!Max(S) \in S
  <2> HIDE DEF S
  <2> QED
    BY <1>1, MaxNat
<1> QED
  BY <1>2 DEF D!Latest

-----------------------------------------------------------------------------
(* A proposal is published.                                                *)
Proposed(r) ==
    /\ ~D!Barred(r) /\ r \in accepted /\ \A a \in accepted : a <= r
    /\ opportunity' = [rev |-> r, facts |-> r, active |-> TRUE]

(* What comes to stand in a row of the outbox.                             *)
Enters(k) ==
    \/ contracts'[k].facts = contracts[k].facts /\ (contracts'[k].whole => contracts[k].whole)
    \/ contracts'[k].facts = D!Nothing
    \/ /\ D!Record /\ ~D!AuthorBarred(fetched + 1)
       /\ k = <<"event", fetched + 1>> /\ contracts'[k].facts = fetched + 1
    \/ \E r \in D!Revisions :
           /\ D!AcceptEvent(r) /\ AcceptedHere(r)
           /\ \/ k = <<"classify", r>>
              \/ k = <<"supersession", r>> /\ opportunity.rev # D!Nothing
    \/ /\ D!Propose /\ cls.id \in D!Revisions /\ ~D!Barred(cls.id)
       /\ k = <<"proposal", cls.id>> /\ contracts'[k].facts = cls.id
    \/ \E r \in D!Revisions :
           /\ Proposed(r) /\ UNCHANGED accepted
           /\ k = <<"publication", r>> /\ contracts'[k].facts = r

(* How the row of an event moves.                                          *)
EventMoves(r) ==
    LET k == <<"event", r>> IN
    \/ contracts'[k].state = contracts[k].state
    \/ /\ D!Record /\ r = fetched + 1 /\ ~D!AuthorBarred(r)
       /\ contracts'[k].state = "pending"
    \/ D!AcceptEvent(r) /\ contracts'[k].state = "settled"

RowsMove ==
    /\ contracts' \in [Keys -> RowType]
    /\ \A k \in Keys : Enters(k)
    /\ \A r \in D!Revisions : EventMoves(r)

(* Other rows than those of events are settled by the way.                 *)
LEMMA SettledMoves ==
    ASSUME D!DeletionAssumption, Typed, NEW kind \in D!Kinds \ {"event"}, NEW r \in D!Revisions,
           contracts' = D!Settle(kind, r, contracts)
    PROVE  RowsMove
<1>1. contracts \in [Keys -> RowType] /\ kind \in D!Kinds
  BY DEF Typed, OwnedTyped
<1>2. PICK p : p = D!Settle(kind, r, contracts)
  OBVIOUS
<1>3. /\ p \in [Keys -> RowType]
      /\ \A k \in Keys : p[k].facts = contracts[k].facts /\ p[k].whole = contracts[k].whole
      /\ \A k \in Keys : k # <<kind, r>> => p[k] = contracts[k]
  <2>1. IsSettled(p, contracts, <<kind, r>>)
    BY <1>1, <1>2, SettledRow
  <2> QED
    BY <2>1 DEF IsSettled
<1>4. \A x \in D!Revisions : <<"event", x>> \in Keys /\ <<"event", x>> # <<kind, r>>
  BY KeyFacts
<1>5. contracts' = p
  BY <1>2, Zenon
<1>6. \A k \in Keys : Enters(k)
  BY <1>3, <1>5 DEF Enters
<1>7. \A x \in D!Revisions : EventMoves(x)
  BY <1>3, <1>4, <1>5 DEF EventMoves
<1> QED
  BY <1>3, <1>5, <1>6, <1>7 DEF RowsMove

(* One is put, and another settled.                                        *)
LEMMA PutMoves ==
    ASSUME D!DeletionAssumption,
           Typed, NEW kind \in D!Kinds \ {"event"}, NEW other \in D!Kinds \ {"event"},
           NEW r \in D!Revisions, NEW facts \in Values,
           contracts' = D!Settle(kind, r, D!Put(other, r, facts, contracts)),
           contracts'[<<other, r>>].facts = facts => Enters(<<other, r>>)
    PROVE  RowsMove
<1>1. contracts \in [Keys -> RowType] /\ kind \in D!Kinds /\ other \in D!Kinds
  BY DEF Typed, OwnedTyped
<1>2. PICK p : p = D!Put(other, r, facts, contracts)
  OBVIOUS
<1>3. /\ p \in [Keys -> RowType] /\ p[<<other, r>>].facts = facts
      /\ \A k \in Keys : k # <<other, r>> => p[k] = contracts[k]
  <2>1. IsPut(p, contracts, <<other, r>>, facts)
    BY <1>1, <1>2, PutRow
  <2> QED
    BY <2>1 DEF IsPut
<1>4. PICK q : q = D!Settle(kind, r, p)
  OBVIOUS
<1>5. /\ q \in [Keys -> RowType]
      /\ \A k \in Keys : q[k].facts = p[k].facts /\ q[k].whole = p[k].whole
      /\ \A k \in Keys : k # <<kind, r>> => q[k] = p[k]
  <2>1. IsSettled(q, p, <<kind, r>>)
    BY <1>1, <1>3, <1>4, SettledRow
  <2> QED
    BY <2>1 DEF IsSettled
<1>6. contracts' = q
  BY <1>2, <1>4, Zenon
<1>7. \A x \in D!Revisions : /\ <<"event", x>> \in Keys
                             /\ <<"event", x>> # <<kind, r>> /\ <<"event", x>> # <<other, r>>
  BY KeyFacts
<1>8. <<other, r>> \in Keys
  BY KeyFacts
<1>9. \A k \in Keys : k # <<other, r>> => Enters(k)
  BY <1>3, <1>5, <1>6 DEF Enters
<1>10. Enters(<<other, r>>)
  BY <1>3, <1>5, <1>6, <1>8
<1>11. \A x \in D!Revisions : EventMoves(x)
  BY <1>3, <1>5, <1>6, <1>7 DEF EventMoves
<1> QED
  BY <1>5, <1>6, <1>9, <1>10, <1>11 DEF RowsMove

(* Scrubbing moves rows.                                                   *)
LEMMA WithoutMoves ==
    ASSUME D!DeletionAssumption, Typed, NEW kinds, NEW revs, NEW opp,
           contracts' = D!Without(contracts, kinds, revs, opp)
    PROVE  RowsMove
<1>1. contracts \in [Keys -> RowType]
  BY DEF Typed, OwnedTyped
<1>2. IsWithout(contracts', contracts, kinds, revs, opp)
  BY <1>1, ScrubbedRows
<1>3. \A r \in D!Revisions : <<"event", r>> \in Keys
  BY KeyFacts
<1>4. \A k \in Keys : Enters(k)
  BY <1>2 DEF IsWithout, Enters
<1>5. \A r \in D!Revisions : EventMoves(r)
  BY <1>2, <1>3 DEF IsWithout, EventMoves
<1> QED
  BY <1>2, <1>4, <1>5 DEF RowsMove, IsWithout

(* Rows that stay as they are.                                             *)
LEMMA SameRows ==
    ASSUME Typed, UNCHANGED contracts
    PROVE  RowsMove
<1>1. contracts' \in [Keys -> RowType]
  BY DEF Typed, OwnedTyped
<1>2. \A k \in Keys : Enters(k)
  BY DEF Enters
<1>3. \A r \in D!Revisions : EventMoves(r)
  BY DEF EventMoves
<1> QED
  BY <1>1, <1>2, <1>3 DEF RowsMove

(* The row of a message that is recorded.                                  *)
LEMMA RecordMoves ==
    ASSUME D!DeletionAssumption, Typed, D!Record
    PROVE  RowsMove
<1> DEFINE r == fetched + 1
<1>1. /\ r \in D!Revisions /\ r \in Values /\ "event" \in D!Kinds
      /\ contracts \in [Keys -> RowType]
  BY KeyFacts DEF Typed, ProtocolTyped, OwnedTyped, D!Record, D!Revisions, Values
<1>2. CASE D!AuthorBarred(r)
  BY <1>2, SameRows DEF D!Record
<1>3. CASE ~D!AuthorBarred(r)
  <2>1. contracts' = D!Put("event", r, r, contracts)
    BY <1>3 DEF D!Record
  <2> HIDE DEF r
  <2>2. IsPut(contracts', contracts, <<"event", r>>, r)
    BY <1>1, <2>1, PutRow
  <2>3. \A x \in D!Revisions : <<"event", x>> \in Keys /\ (x # r => <<"event", x>> # <<"event", r>>)
    BY KeyFacts
  <2>4. \A k \in Keys : Enters(k)
    BY <1>3, <2>2 DEF IsPut, Enters, r
  <2>5. \A x \in D!Revisions : EventMoves(x)
    <3>1. contracts'[<<"event", r>>].state = "pending"
      BY <2>2 DEF IsPut
    <3>2. \A x \in D!Revisions \ {r} : contracts'[<<"event", x>>] = contracts[<<"event", x>>]
      BY <2>2, <2>3 DEF IsPut
    <3> QED
      BY <1>3, <3>1, <3>2 DEF EventMoves, r
  <2> QED
    BY <2>2, <2>4, <2>5 DEF RowsMove, IsPut
<1> QED
  BY <1>2, <1>3

(* The rows of an event that is accepted.                                  *)
LEMMA AcceptMoves ==
    ASSUME D!DeletionAssumption, Typed, NEW r \in D!Revisions, D!AcceptEvent(r)
    PROVE  RowsMove
<1>1. /\ contracts' \in [Keys -> RowType]
      /\ contracts'[<<"event", r>>].state = "settled"
      /\ contracts'[<<"event", r>>].facts = contracts[<<"event", r>>].facts
      /\ contracts'[<<"event", r>>].whole = contracts[<<"event", r>>].whole
      /\ \A k \in Keys \ {<<"event", r>>, <<"classify", r>>, <<"supersession", r>>} :
             contracts'[k] = contracts[k]
      /\ \/ \A k \in Keys : /\ contracts'[k].facts = contracts[k].facts
                            /\ contracts'[k].whole = contracts[k].whole
         \/ AcceptedHere(r)
  BY EventEffect
<1>2. \A x \in D!Revisions : /\ <<"event", x>> \in Keys
                             /\ <<"event", x>> # <<"classify", r>>
                             /\ <<"event", x>> # <<"supersession", r>>
                             /\ x # r => <<"event", x>> # <<"event", r>>
  BY KeyFacts
<1>3. \A x \in D!Revisions : EventMoves(x)
  BY <1>1, <1>2 DEF EventMoves
<1>4. ASSUME NEW k \in Keys
      PROVE  Enters(k)
  <2> DEFINE Same == /\ contracts'[k].facts = contracts[k].facts
                     /\ contracts'[k].whole = contracts[k].whole
  <2>1. CASE Same
    BY <2>1 DEF Enters
  <2>2. CASE AcceptedHere(r) /\ ~Same
    <3>1. k = <<"classify", r>> \/ k = <<"supersession", r>>
      BY <1>1, <2>2
    <3>2. k = <<"supersession", r>> => opportunity.rev # D!Nothing
      BY <2>2 DEF AcceptedHere
    <3> QED
      BY <2>2, <3>1, <3>2 DEF Enters
  <2> QED
    BY <1>1, <2>1, <2>2
<1> QED
  BY <1>1, <1>3, <1>4 DEF RowsMove

(* Every step moves rows in these ways.                                    *)
LEMMA RowSteps ==
    ASSUME D!DeletionAssumption, Typed, CarriesOwn, [D!Next]_(D!vars)
    PROVE  RowsMove
<1>1. CASE Events
  BY <1>1, AcceptMoves DEF Events
<1>2. CASE Refuses
  <2>1. PICK k \in D!Kinds, r \in D!Revisions : D!Refuse(k, r)
    BY <1>2 DEF Refuses
  <2>2. k # "event" /\ contracts' = D!Settle(k, r, contracts)
    BY <2>1 DEF D!Refuse
  <2> QED
    BY <2>2, SettledMoves
<1>3. CASE Admits
  <2>1. PICK r \in D!Revisions : D!Admit(r)
    BY <1>3 DEF Admits
  <2>2. UNCHANGED contracts \/ contracts' = D!Settle("classify", r, contracts)
    BY <2>1 DEF D!Admit
  <2>3. "classify" \in D!Kinds \ {"event"}
    BY KeyFacts
  <2> QED
    BY <2>2, <2>3, SameRows, SettledMoves
<1>4. CASE D!Propose
  <2> DEFINE r == cls.id
  <2>1. /\ r \in D!Revisions /\ cls.facts = r /\ r \in Values
        /\ "classify" \in D!Kinds \ {"event"} /\ "proposal" \in D!Kinds \ {"event"}
    <3>1. cls # D!Idle
      BY <1>4 DEF D!Propose, D!Idle, cls
    <3> QED
      BY <3>1, KeyFacts DEF CarriesOwn
  <2>2. contracts' = D!Settle("classify", r,
             IF D!Barred(r) THEN contracts ELSE D!Put("proposal", r, r, contracts))
    BY <1>4, <2>1 DEF D!Propose, cls
  <2>3. CASE D!Barred(r)
    <3>1. contracts' = D!Settle("classify", r, contracts)
      BY <2>2, <2>3
    <3> QED
      BY <2>1, <3>1, SettledMoves
  <2>4. CASE ~D!Barred(r)
    <3>1. contracts' = D!Settle("classify", r, D!Put("proposal", r, r, contracts))
      BY <2>2, <2>4
    <3>2. contracts'[<<"proposal", r>>].facts = r => Enters(<<"proposal", r>>)
      BY <1>4, <2>1, <2>4 DEF Enters
    <3> HIDE DEF r
    <3> QED
      BY <2>1, <3>1, <3>2, PutMoves
  <2> QED
    BY <2>3, <2>4
<1>5. CASE Decides
  <2>1. PICK r \in D!Revisions, found \in BOOLEAN : D!AcceptProposal(r, found)
    BY <1>5 DEF Decides
  <2>2. /\ "proposal" \in D!Kinds \ {"event"} /\ "publication" \in D!Kinds \ {"event"}
        /\ r \in Values
    BY KeyFacts
  <2>3. CASE D!Barred(r) \/ r # D!Current \/ ~found
    <3>1. contracts' = D!Settle("proposal", r, contracts)
      BY <2>1, <2>3 DEF D!AcceptProposal
    <3> QED
      BY <2>2, <3>1, SettledMoves
  <2>4. CASE ~(D!Barred(r) \/ r # D!Current \/ ~found)
    <3>1. /\ UNCHANGED accepted
          /\ contracts' = D!Settle("proposal", r, D!Put("publication", r, r, contracts))
          /\ opportunity' = [rev |-> r, facts |-> r, active |-> TRUE]
      BY <2>1, <2>4 DEF D!AcceptProposal
    <3>2. Proposed(r)
      BY <2>4, <3>1, CurrentIsLast, KeyFacts DEF Proposed
    <3>3. contracts'[<<"publication", r>>].facts = r => Enters(<<"publication", r>>)
      BY <3>1, <3>2 DEF Enters
    <3> QED
      BY <2>2, <3>1, <3>3, PutMoves
  <2> QED
    BY <2>3, <2>4
<1>6. CASE D!Project
  <2>1. contracts' = D!Settle(rec.what, rec.id, contracts) /\ rec.what \in D!Publications
    BY <1>6 DEF D!Project, rec
  <2>2. rec.id \in D!Revisions /\ rec.what \in D!Kinds \ {"event"}
    BY <2>1 DEF CarriesOwn, D!Kinds, D!Publications
  <2> QED
    BY <2>1, <2>2, SettledMoves
<1>7. CASE D!Begin
  <2>1. \/ UNCHANGED contracts
        \/ \E revs : contracts' = D!Without(contracts, {"event"}, revs, FALSE)
    BY <1>7 DEF D!Begin
  <2> QED
    BY <2>1, SameRows, WithoutMoves
<1>8. CASE Executes
  <2>1. PICK c \in orders : contracts' = D!Scrubbed(c.owner)
    BY <1>8 DEF Executes, D!Execute, D!Suppressed, D!Deleted
  <2> QED
    BY <2>1, WithoutMoves DEF D!Scrubbed
<1>9. CASE D!Record
  BY <1>9, RecordMoves
<1> QED
  BY <1>1, <1>2, <1>3, <1>4, <1>5, <1>6, <1>7, <1>8, <1>9, Moves, SameRows DEF Moved
-----------------------------------------------------------------------------
(* Types are kept: first the protocol's.                                   *)
LEMMA OrdersTyped ==
    ASSUME ProtocolTyped, [D!Next]_(D!vars)
    PROVE  orders' \subseteq OrderType
<1>1. /\ request.attempt \in Nat /\ orders \subseteq OrderType
      /\ targets.searches \subseteq Searches
  BY DEF ProtocolTyped
<1>2. CASE D!Begin
  <2>1. PICK list : /\ list = IF request.attempt = 0 THEN D!SearchesOf(opportunity.rev \in
                                  (records \cup accepted) \cap (1..confirmed))
                              ELSE targets.searches
                    /\ orders' = orders \cup {D!Command("suppress", o, request.attempt + 1, list) :
                                                    o \in D!Owners}
    BY <1>2 DEF D!Begin
  <2>2. list \subseteq Searches
    BY <1>1, <2>1 DEF D!SearchesOf
  <2> QED
    BY <1>1, <2>1, <2>2 DEF OrderType, D!Command, D!Asks
<1>3. CASE Executes
  <2>1. PICK c \in orders : D!Execute(c)
    BY <1>3 DEF Executes
  <2>2. PICK list : /\ list = IF c.owner = "bot_assistant" /\ c.name = "suppress"
                                   /\ c.searches = {}
                              THEN D!SearchesOf(targets.opportunity) ELSE c.searches
                    /\ orders' = (orders \ {c}) \cup
                            {D!Command(IF c.name = "suppress" THEN "suppressed" ELSE "deleted",
                                       c.owner, c.attempt, list)}
    BY <2>1 DEF D!Execute
  <2>3. list \subseteq Searches /\ c \in OrderType
    BY <1>1, <2>2 DEF D!SearchesOf, OrderType
  <2> QED
    BY <1>1, <2>2, <2>3 DEF OrderType, D!Command, Answers
<1>4. CASE Fails
  <2>1. PICK c \in orders : orders' = (orders \ {c}) \cup D!Failure(c)
    BY <1>4 DEF Fails, D!Fail
  <2> QED
    BY <1>1, <2>1 DEF OrderType, D!Command, D!Failure, Answers
<1>5. CASE Answered
  <2>1. PICK e \in orders : D!OwnerEvent(e)
    BY <1>5 DEF Answered
  <2>2. \/ orders' = orders \ {e}
        \/ \E list \in {e.searches, targets.searches} :
               orders' \subseteq (orders \ {e}) \cup
                                 {D!Command("delete", o, e.attempt, list) : o \in D!Owners}
    BY <2>1 DEF D!OwnerEvent
  <2>3. e \in OrderType
    BY <1>1, <2>1
  <2> QED
    BY <1>1, <2>2, <2>3 DEF OrderType, D!Command, D!Asks
<1> QED
  BY <1>1, <1>2, <1>3, <1>4, <1>5, Moves DEF Moved

(* An accepted revision was recorded.                                      *)
LEMMA EventEffectTyped ==
    ASSUME ProtocolTyped, Events
    PROVE  overtaken' \in BOOLEAN
<1>1. PICK r \in D!Revisions : D!AcceptEvent(r)
  BY DEF Events
<1>2. overtaken' = overtaken \/ \E late \in BOOLEAN : overtaken' = (overtaken \/ late)
  BY <1>1 DEF D!AcceptEvent
<1> QED
  BY <1>2 DEF ProtocolTyped

(* The protocol keeps its types.                                           *)
LEMMA ProtocolTypes ==
    ASSUME D!DeletionAssumption, Typed, CarriesOwn, [D!Next]_(D!vars)
    PROVE  ProtocolTyped'
<1>1. ProtocolTyped
  BY DEF Typed
<1>2. posted' \in Values /\ posted <= posted' /\ fetched' \in 0..posted'
  <2>1. CASE D!Post
    <3>1. posted < MaxRevision /\ posted' = posted + 1 /\ fetched' = fetched
      BY <2>1 DEF D!Post
    <3> QED
      BY <1>1, <3>1, KeyFacts DEF ProtocolTyped, Values
  <2>2. CASE D!Record
    <3>1. fetched < posted /\ fetched' = fetched + 1 /\ posted' = posted
      BY <2>2 DEF D!Record
    <3> QED
      BY <1>1, <3>1, KeyFacts DEF ProtocolTyped, Values
  <2>3. CASE UNCHANGED posted /\ UNCHANGED fetched
    BY <1>1, <2>3, KeyFacts DEF ProtocolTyped, Values
  <2>4. /\ D!Post => ~D!Record /\ UNCHANGED fetched
        /\ D!Record => UNCHANGED posted
    BY <1>1, KeyFacts DEF D!Post, D!Record, ProtocolTyped, Values
  <2> QED
    BY <2>1, <2>2, <2>3, Moves DEF Moved
<1>3. /\ posted \in Nat /\ posted' \in Nat
      /\ 0..posted \subseteq 0..posted' /\ -1..posted \subseteq -1..posted'
  BY <1>1, <1>2, KeyFacts DEF ProtocolTyped, Values
<1>4. CASE D!Begin
  <2>1. PICK edge, revs, opp, list :
            /\ edge = IF request.attempt = 0 THEN confirmed ELSE request.boundary
            /\ revs = IF request.attempt = 0 THEN (records \cup accepted) \cap (1..edge)
                      ELSE targets.revisions
            /\ opp = IF request.attempt = 0 THEN opportunity.rev \in revs
                     ELSE targets.opportunity
            /\ list = IF request.attempt = 0 THEN D!SearchesOf(opp) ELSE targets.searches
            /\ targets' = [revisions |-> revs, opportunity |-> opp, searches |-> list]
            /\ request' = [status |-> "suppressing", attempt |-> request.attempt + 1,
                           boundary |-> edge, notified |-> FALSE]
    BY <1>4 DEF D!Begin
  <2>2. /\ confirmed >= 0 /\ confirmed' = -1 /\ posted' = posted /\ overtaken' = overtaken
        /\ acks' = [o \in D!Owners |-> D!Pending]
        /\ raced' = IF rec.what = "search" THEN raced \cup {rec.id} ELSE raced
    BY <1>4 DEF D!Begin, D!telegram, rec
  <2>3. /\ edge \in 0..posted' /\ request.attempt + 1 \in Nat
        /\ revs \subseteq 1..edge /\ opp \in BOOLEAN /\ list \subseteq Searches
    <3>1. /\ confirmed \in -1..posted /\ request.boundary \in 0..posted
          /\ request.attempt \in Nat /\ targets.opportunity \in BOOLEAN
          /\ targets.revisions \subseteq 1..request.boundary
          /\ targets.searches \subseteq Searches
      BY <1>1 DEF ProtocolTyped
    <3>2. CASE request.attempt = 0
      BY <1>3, <2>1, <2>2, <3>1, <3>2 DEF D!SearchesOf
    <3>3. CASE request.attempt # 0
      BY <1>3, <2>1, <2>2, <3>1, <3>3
    <3> QED
      BY <3>2, <3>3
  <2>4. /\ request' \in [status : Statuses, attempt : Nat, boundary : 0..posted',
                         notified : BOOLEAN]
        /\ request'.boundary = edge
    BY <2>1, <2>3 DEF Statuses
  <2>5. targets' \in [revisions : SUBSET (1..request'.boundary), opportunity : BOOLEAN,
                      searches : SUBSET Searches]
    BY <2>1, <2>3, <2>4
  <2>6. acks' \in [D!Owners -> AckType]
    BY <2>2 DEF AckType, D!Pending, Phases
  <2>7. raced' \subseteq Searches /\ overtaken' \in BOOLEAN
    BY <1>1, <2>2 DEF ProtocolTyped, CarriesOwn
  <2> QED
    BY <1>1, <1>2, <1>3, <2>2, <2>4, <2>5, <2>6, <2>7, OrdersTyped DEF ProtocolTyped
<1>5. CASE Answered
  <2>1. PICK e \in orders : D!OwnerEvent(e)
    BY <1>5 DEF Answered
  <2>2. PICK acks1, next :
            \/ UNCHANGED <<request, targets, acks>>
            \/ /\ acks1 = CASE e.name = "suppressed" ->
                          [acks EXCEPT ![e.owner].suppression = "completed"]
                   [] e.name = "deleted" -> [acks EXCEPT ![e.owner].deletion = "completed"]
                   [] e.name = "suppression_failed" ->
                          [acks EXCEPT ![e.owner].suppression = "failed"]
                   [] OTHER -> [acks EXCEPT ![e.owner].deletion = "failed"]
               /\ acks' = acks1
               /\ \E list \in {e.searches, targets.searches} :
                      targets' = [targets EXCEPT !.searches = list]
               /\ \E status \in {"execution_error", "executing", "awaiting_completion",
                                 request.status} :
                      request' = [request EXCEPT !.status = status]
    BY <2>1 DEF D!OwnerEvent
  <2>3. e \in OrderType
    BY <1>1, <2>1 DEF ProtocolTyped
  <2>4. UNCHANGED <<posted, confirmed, raced, overtaken>>
    BY <2>1 DEF D!OwnerEvent, D!telegram, D!history
  <2>5. acks' \in [D!Owners -> AckType]
    <3>1. /\ acks \in [D!Owners -> AckType] /\ e.owner \in D!Owners
          /\ {"completed", "failed"} \subseteq Phases
      BY <1>1, <2>3 DEF ProtocolTyped, OrderType, Phases
    <3>2. \A p \in {"completed", "failed"} :
              /\ [acks EXCEPT ![e.owner].suppression = p] \in [D!Owners -> AckType]
              /\ [acks EXCEPT ![e.owner].deletion = p] \in [D!Owners -> AckType]
      BY <3>1 DEF AckType
    <3> QED
      BY <2>2, <3>1, <3>2
  <2>6. /\ request' \in [status : Statuses, attempt : Nat, boundary : 0..posted,
                         notified : BOOLEAN]
        /\ request'.boundary = request.boundary
    BY <1>1, <2>2 DEF ProtocolTyped, Statuses
  <2>7. targets' \in [revisions : SUBSET (1..request'.boundary), opportunity : BOOLEAN,
                      searches : SUBSET Searches]
    <3>1. e.searches \subseteq Searches
      BY <2>3 DEF OrderType
    <3>2. targets \in [revisions : SUBSET (1..request'.boundary), opportunity : BOOLEAN,
                       searches : SUBSET Searches]
      BY <1>1, <2>6 DEF ProtocolTyped
    <3> QED
      BY <2>2, <3>1, <3>2
  <2> QED
    BY <1>1, <1>2, <1>3, <2>4, <2>5, <2>6, <2>7, OrdersTyped DEF ProtocolTyped
<1>6. CASE Rules \/ D!Notify \/ D!Complete
  <2>1. UNCHANGED <<posted, confirmed, targets, acks, raced, overtaken>>
    BY <1>6 DEF Rules, D!Decide, D!Notify, D!Complete, D!telegram, D!history
  <2>2. \/ \E s \in Statuses : request' = [request EXCEPT !.status = s]
        \/ request' = [request EXCEPT !.notified = TRUE]
    BY <1>6 DEF Rules, D!Decide, D!Notify, D!Complete, Statuses
  <2>3. /\ request' \in [status : Statuses, attempt : Nat, boundary : 0..posted,
                         notified : BOOLEAN]
        /\ request'.boundary = request.boundary
    BY <1>1, <2>2 DEF ProtocolTyped
  <2> QED
    BY <1>1, <1>2, <2>1, <2>3, OrdersTyped DEF ProtocolTyped
<1>7. CASE UNCHANGED <<request, targets, acks, raced>>
  <2>1. confirmed' \in -1..posted'
    <3>1. CASE D!Confirm
      BY <1>3, <3>1 DEF D!Confirm, D!telegram
    <3>2. CASE D!Begin
      BY <1>3, <3>2 DEF D!Begin
    <3> QED
      BY <1>1, <1>3, <3>1, <3>2, Moves DEF Moved, ProtocolTyped
  <2>2. overtaken' \in BOOLEAN
    BY <1>1, EventEffectTyped, Moves DEF Moved, ProtocolTyped
  <2>3. request' \in [status : Statuses, attempt : Nat, boundary : 0..posted',
                      notified : BOOLEAN]
    BY <1>1, <1>3, <1>7 DEF ProtocolTyped
  <2> QED
    BY <1>1, <1>2, <1>7, <2>1, <2>2, <2>3, OrdersTyped DEF ProtocolTyped
<1> QED
  BY <1>4, <1>5, <1>6, <1>7, Moves DEF Moved
-----------------------------------------------------------------------------
(* How the Opportunity moves: its revision and its facts.                  *)
OpportunityMoves ==
    \/ opportunity'.rev = opportunity.rev /\ opportunity'.facts = opportunity.facts
    \/ /\ opportunity'.rev = D!Nothing /\ opportunity'.facts = D!Nothing
       /\ \E c \in orders : c.name = "delete"
    \/ \E r \in D!Revisions :
           /\ D!AcceptEvent(r) /\ AcceptedHere(r) /\ opportunity.rev # D!Nothing
           /\ opportunity'.rev = r /\ opportunity'.facts = opportunity.facts
    \/ \E r \in D!Revisions :
           /\ Proposed(r) /\ UNCHANGED accepted
           /\ opportunity'.rev = r /\ opportunity'.facts = r

(* The Opportunity keeps its type, and moves with an edit or a proposal.   *)
LEMMA OpportunitySteps ==
    ASSUME D!DeletionAssumption, Typed, CarriesOwn, [D!Next]_(D!vars)
    PROVE  /\ opportunity' \in [rev : 0..fetched', facts : Values, active : BOOLEAN]
           /\ OpportunityMoves
<1> DEFINE T == [rev : 0..fetched', facts : Values, active : BOOLEAN]
<1>1. /\ fetched \in Nat /\ fetched' \in Nat /\ fetched <= fetched'
      /\ accepted \subseteq 1..fetched
  <2>1. fetched \in Nat
    BY KeyFacts DEF Typed, ProtocolTyped, Values
  <2>2. D!Record => fetched' = fetched + 1
    BY DEF D!Record
  <2> QED
    BY <2>1, <2>2, Moves DEF Moved, Typed, OwnedTyped
<1>2. opportunity \in T
  BY <1>1 DEF Typed, OwnedTyped
<1>3. D!NoOpp \in T /\ D!NoOpp.rev = D!Nothing /\ D!NoOpp.facts = D!Nothing
  BY <1>1, KeyFacts DEF D!NoOpp, D!Nothing, Values
<1>4. CASE Events
  <2>1. PICK r \in D!Revisions : D!AcceptEvent(r)
    BY <1>4 DEF Events
  <2>2. \/ UNCHANGED opportunity
        \/ /\ AcceptedHere(r) /\ opportunity.rev # D!Nothing
           /\ opportunity' = [opportunity EXCEPT !.rev = r, !.active = FALSE]
    BY <2>1, EventEffect DEF AcceptedHere
  <2>3. r \in 1..fetched /\ r \in 1..fetched'
    <3>1. contracts[<<"event", r>>].state = "pending"
      BY <2>1, EventEffect
    <3>2. r \in 1..MaxRevision /\ ~(r > fetched) /\ MaxRevision \in Nat
      BY <3>1, KeyFacts DEF CarriesOwn, D!Revisions
    <3> QED
      BY <1>1, <3>2
  <2>4. CASE UNCHANGED opportunity
    BY <1>2, <2>4 DEF OpportunityMoves
  <2>5. CASE opportunity' = [opportunity EXCEPT !.rev = r, !.active = FALSE]
    <3>1. opportunity' \in T /\ opportunity'.rev = r /\ opportunity'.facts = opportunity.facts
      <4>1. r \in 0..fetched' /\ FALSE \in BOOLEAN
        BY <1>1, <2>3
      <4> QED
        BY <1>2, <2>5, <4>1
    <3> QED
      BY <2>1, <2>2, <2>4, <3>1 DEF OpportunityMoves
  <2> QED
    BY <2>2, <2>4, <2>5
<1>5. CASE Decides
  <2>1. PICK r \in D!Revisions, found \in BOOLEAN : D!AcceptProposal(r, found)
    BY <1>5 DEF Decides
  <2>2. CASE D!Barred(r) \/ r # D!Current \/ ~found
    BY <1>2, <2>1, <2>2 DEF D!AcceptProposal, OpportunityMoves
  <2>3. CASE ~(D!Barred(r) \/ r # D!Current \/ ~found)
    <3>1. opportunity' = [rev |-> r, facts |-> r, active |-> TRUE] /\ UNCHANGED accepted
      BY <2>1, <2>3 DEF D!AcceptProposal
    <3>2. Proposed(r)
      BY <2>3, <3>1, CurrentIsLast, KeyFacts DEF Proposed
    <3>3. r \in 0..fetched' /\ r \in Values /\ TRUE \in BOOLEAN
      <4>1. r \in accepted /\ r \in Values
        BY <3>2, KeyFacts DEF Proposed
      <4> QED
        BY <1>1, <4>1
    <3>4. opportunity' \in T /\ opportunity'.rev = r /\ opportunity'.facts = r
      BY <3>1, <3>3
    <3> QED
      BY <3>1, <3>2, <3>4 DEF OpportunityMoves
  <2> QED
    BY <2>2, <2>3
<1>6. CASE Executes
  <2>1. PICK c \in orders : D!Execute(c)
    BY <1>6 DEF Executes
  <2>2. c.name \in D!Asks /\ \E list : IF c.name = "suppress" THEN D!Suppressed(c.owner, list)
                                        ELSE D!Deleted(c.owner, list)
    BY <2>1 DEF D!Execute
  <2>3. \/ UNCHANGED opportunity
        \/ opportunity' = [opportunity EXCEPT !.active = FALSE]
        \/ opportunity' = D!NoOpp /\ c.name = "delete"
    BY <2>2 DEF D!Suppressed, D!Deleted, D!Asks
  <2> QED
    BY <1>2, <1>3, <2>3 DEF OpportunityMoves
<1>7. CASE UNCHANGED opportunity
  BY <1>2, <1>7 DEF OpportunityMoves
<1> QED
  BY <1>4, <1>5, <1>6, <1>7, Moves DEF Moved

(* How the rows of revisions move.                                         *)
Deletes == \E c \in orders : c.name = "delete"

SetsMove ==
    /\ \A f \in records' : \/ f \in records
                           \/ D!Record /\ ~D!AuthorBarred(f) /\ f = fetched + 1
    /\ \A f \in records : f \in records' \/ (f \in Targeted /\ Deletes)
    /\ \A f \in accepted' : \/ f \in accepted
                            \/ f \in D!Revisions /\ D!AcceptEvent(f) /\ AcceptedHere(f)
    /\ \A f \in accepted : f \in accepted' \/ (f \in Targeted /\ Deletes)
    /\ \A f \in attempts' : \/ f \in attempts
                            \/ /\ f \in D!Revisions /\ ~D!Barred(f)
                               /\ contracts[<<"classify", f>>].facts = f

(* Records, revisions and attempts come from what is not barred, and go by *)
(* a deletion.                                                             *)
LEMMA SetSteps ==
    ASSUME D!DeletionAssumption, Typed, CarriesOwn, [D!Next]_(D!vars)
    PROVE  SetsMove
<1>1. CASE Executes
  <2>1. PICK c \in orders : D!Execute(c)
    BY <1>1 DEF Executes
  <2>2. c.name \in D!Asks /\ \E list : IF c.name = "suppress" THEN D!Suppressed(c.owner, list)
                                        ELSE D!Deleted(c.owner, list)
    BY <2>1 DEF D!Execute
  <2>3. \/ UNCHANGED <<records, accepted, attempts>>
        \/ /\ c.name = "delete"
           /\ records' \in {records, records \ Targeted}
           /\ accepted' \in {accepted, accepted \ Targeted}
           /\ attempts' \in {attempts, attempts \ Targeted}
    BY <2>2 DEF D!Suppressed, D!Deleted, D!Asks, Targeted
  <2> QED
    BY <2>1, <2>3 DEF SetsMove, Deletes
<1>2. CASE Events
  <2>1. PICK r \in D!Revisions : D!AcceptEvent(r)
    BY <1>2 DEF Events
  <2>2. UNCHANGED <<records, attempts>>
    BY <2>1 DEF D!AcceptEvent
  <2>3. UNCHANGED accepted \/ AcceptedHere(r)
    BY <2>1, EventEffect
  <2> QED
    BY <2>1, <2>2, <2>3 DEF SetsMove, AcceptedHere
<1>3. CASE Admits
  <2>1. PICK r \in D!Revisions : D!Admit(r)
    BY <1>3 DEF Admits
  <2>2. /\ UNCHANGED <<records, accepted>> /\ contracts[<<"classify", r>>].facts = r
        /\ UNCHANGED attempts \/ (~D!Barred(r) /\ attempts' = attempts \cup {r})
    BY <2>1 DEF D!Admit, D!Holds
  <2> QED
    BY <2>1, <2>2 DEF SetsMove
<1>4. CASE D!Record
  <2>1. /\ UNCHANGED <<accepted, attempts>>
        /\ UNCHANGED records \/ (~D!AuthorBarred(fetched + 1) /\ records' = records \cup {fetched + 1})
    BY <1>4 DEF D!Record
  <2> QED
    BY <1>4, <2>1 DEF SetsMove
<1>5. CASE UNCHANGED <<records, accepted, attempts>>
  BY <1>5 DEF SetsMove
<1> QED
  BY <1>1, <1>2, <1>3, <1>4, <1>5, Moves DEF Moved

(* How a row of Recommendation's moves.                                    *)
ViewMoves(r) ==
    \/ /\ projection'[r].facts = projection[r].facts
       /\ projection'[r].active => projection[r].active
    \/ projection'[r].facts = D!Nothing
    \/ /\ rec.what \in D!Publications /\ r = rec.id /\ projection'[r].facts = rec.facts
       /\ projection'[r].active => rec.what = "publication" /\ ~D!Barred(r)

(* A projection takes what Recommendation holds, or fades.                 *)
LEMMA ProjectionSteps ==
    ASSUME D!DeletionAssumption, Typed, CarriesOwn, [D!Next]_(D!vars)
    PROVE  /\ projection' \in [D!Revisions -> ViewType]
           /\ \A r \in D!Revisions : ViewMoves(r)
<1>1. projection \in [D!Revisions -> ViewType] /\ rec \in HandType
  BY KeyFacts DEF Typed, OwnedTyped, rec
<1>2. CASE D!Project
  <2> DEFINE row == [facts |-> rec.facts, active |-> rec.what = "publication" /\ ~D!Barred(rec.id)]
  <2>1. /\ rec.what \in D!Publications
        /\ projection' = [projection EXCEPT ![rec.id] =
                              IF rec.what = "supersession" /\ @.active THEN @ ELSE row]
    BY <1>2 DEF D!Project, rec
  <2>2. row \in ViewType /\ rec.id \in D!Revisions
    <3>1. rec.facts \in Values /\ (rec.what = "publication" /\ ~D!Barred(rec.id)) \in BOOLEAN
      BY <1>1 DEF HandType
    <3> QED
      BY <2>1, <3>1 DEF ViewType, CarriesOwn
  <2>3. /\ row.facts = rec.facts
        /\ row.active => rec.what = "publication" /\ ~D!Barred(rec.id)
    OBVIOUS
  <2> HIDE DEF row
  <2>4. /\ projection' \in [D!Revisions -> ViewType]
        /\ \A r \in D!Revisions : \/ projection'[r] = projection[r]
                                  \/ r = rec.id /\ projection'[r] = row
    BY <1>1, <2>1, <2>2
  <2> QED
    BY <2>1, <2>3, <2>4 DEF ViewMoves
<1>3. CASE Executes
  <2>1. PICK c \in orders : D!Execute(c)
    BY <1>3 DEF Executes
  <2>2. c.name \in D!Asks /\ \E list : IF c.name = "suppress" THEN D!Suppressed(c.owner, list)
                                        ELSE D!Deleted(c.owner, list)
    BY <2>1 DEF D!Execute
  <2>3. \/ UNCHANGED projection
        \/ projection' = [r \in D!Revisions |-> [projection[r] EXCEPT !.active = FALSE]]
        \/ projection' = [r \in D!Revisions |-> D!NoRow]
    BY <2>2 DEF D!Suppressed, D!Deleted, D!Asks
  <2>4. CASE projection' = [r \in D!Revisions |-> [projection[r] EXCEPT !.active = FALSE]]
    BY <1>1, <2>4 DEF ViewMoves, ViewType
  <2>5. CASE projection' = [r \in D!Revisions |-> D!NoRow]
    BY <2>5, KeyFacts DEF ViewMoves, ViewType, D!NoRow
  <2> QED
    BY <1>1, <2>3, <2>4, <2>5 DEF ViewMoves
<1>4. CASE UNCHANGED projection
  BY <1>1, <1>4 DEF ViewMoves
<1> QED
  BY <1>2, <1>3, <1>4, Moves DEF Moved

(* How the processes' memories move.                                       *)
ClsMoves ==
    \/ cls' \in {cls, D!Idle}
    \/ \E r \in D!Revisions :
           /\ contracts[<<"classify", r>>].facts = r
           /\ cls' = [what |-> "calling", id |-> r, facts |-> r, cards |-> {}]

Takes(k, r) ==
    /\ rec = D!Idle /\ k \in D!Publications /\ r \in D!Revisions /\ UNCHANGED searches
    /\ contracts[<<k, r>>].facts # D!Nothing /\ contracts[<<k, r>>].whole
    /\ rec' = [what |-> k, id |-> r, facts |-> contracts[<<k, r>>].facts, cards |-> {}]

Evaluates(s) ==
    /\ rec = D!Idle /\ s \in Searches /\ searches[s].stage = "none" /\ UNCHANGED searches
    /\ D!Visible
    /\ rec' = [what |-> "search", id |-> s, facts |-> projection[D!Latest].facts,
               cards |-> IF D!Found THEN {projection[D!Latest].facts} ELSE {}]

RecMoves ==
    \/ rec' \in {rec, D!Idle}
    \/ \E k \in D!Publications, r \in D!Revisions : Takes(k, r)
    \/ \E s \in Searches : Evaluates(s)

BotMoves ==
    \/ bot' \in {bot, D!Idle}
    \/ \E s \in Searches :
           /\ searches[s].stage = "completed" /\ s \notin targets.searches /\ UNCHANGED searches
           /\ bot' = [what |-> "read", id |-> s, facts |-> D!Nothing,
                      cards |-> searches[s].results]

(* A process takes up one thing at a time.                                 *)
LEMMA HandSteps ==
    ASSUME D!DeletionAssumption, Typed, [D!Next]_(D!vars)
    PROVE  ClsMoves /\ RecMoves /\ BotMoves
<1> DEFINE Dom == {"classification", "recommendation", "bot_assistant"}
<1>1. /\ hand \in [Dom -> HandType]
      /\ Workers = Dom
  BY KeyFacts DEF Typed, OwnedTyped
<1>2. \A o \in Dom : \A h : /\ [hand EXCEPT ![o] = h][o] = h
                             /\ \A p \in Dom : p # o => [hand EXCEPT ![o] = h][p] = hand[p]
  BY <1>1
<1>3. \A o \in Dom : D!Free(o) => hand[o] = D!Idle
  BY <1>1 DEF D!Free
<1>4. \A o \in Dom : D!Finished(o) =>
          /\ hand'[o] = D!Idle
          /\ \A p \in Dom : p # o => hand'[p] = hand[p]
  BY <1>2 DEF D!Finished
<1>5. UNCHANGED cls => ClsMoves
  BY DEF ClsMoves
<1>6. UNCHANGED rec => RecMoves
  BY DEF RecMoves
<1>7. UNCHANGED bot => BotMoves
  BY DEF BotMoves
<1>8. CASE UNCHANGED hand
  BY <1>5, <1>6, <1>7, <1>8 DEF cls, rec, bot
<1>9. CASE D!Propose \/ D!Project \/ D!CompleteSearch \/ D!AcceptResults
  <2>1. \E o \in Dom : D!Finished(o)
    BY <1>9 DEF D!Propose, D!Project, D!CompleteSearch, D!AcceptResults
  <2> QED
    BY <1>4, <2>1 DEF cls, rec, bot, ClsMoves, RecMoves, BotMoves
<1>10. CASE Admits
  <2>1. PICK r \in D!Revisions : D!Admit(r)
    BY <1>10 DEF Admits
  <2> DEFINE h == [what |-> "calling", id |-> r, facts |-> r, cards |-> {}]
  <2>2. /\ contracts[<<"classify", r>>].facts = r
        /\ UNCHANGED hand \/ hand' = [hand EXCEPT !["classification"] = h]
    BY <2>1 DEF D!Admit, D!Holds
  <2>3. CASE hand' = [hand EXCEPT !["classification"] = h]
    <3>1. cls' = h /\ UNCHANGED <<rec, bot>>
      <4> HIDE DEF h
      <4> QED
        BY <1>2, <2>3 DEF cls, rec, bot
    <3> QED
      BY <1>6, <1>7, <2>2, <3>1 DEF ClsMoves
  <2> QED
    BY <1>8, <2>2, <2>3
<1>11. CASE Claims
  <2>1. PICK k \in D!Publications, r \in D!Revisions : D!Claim(k, r)
    BY <1>11 DEF Claims
  <2>2. PICK facts \in D!Revisions :
            /\ D!Holds(k, r, facts) /\ D!Free("recommendation")
            /\ hand' = [hand EXCEPT !["recommendation"] =
                            [what |-> k, id |-> r, facts |-> facts, cards |-> {}]]
    BY <2>1 DEF D!Claim
  <2> DEFINE h == [what |-> k, id |-> r, facts |-> facts, cards |-> {}]
  <2>3. /\ contracts[<<k, r>>].facts = facts /\ contracts[<<k, r>>].whole
        /\ facts # D!Nothing /\ UNCHANGED searches
    BY <2>1, <2>2, KeyFacts DEF D!Holds, D!Claim
  <2>4. rec' = h /\ UNCHANGED <<cls, bot>> /\ rec = D!Idle
    <3> HIDE DEF h
    <3> QED
      BY <1>2, <1>3, <2>2 DEF cls, rec, bot, h
  <2>5. Takes(k, r)
    BY <2>3, <2>4 DEF Takes
  <2> QED
    BY <1>5, <1>7, <2>4, <2>5 DEF RecMoves
<1>12. CASE Finds
  <2>1. PICK s \in Searches : D!Search(s)
    BY <1>12 DEF Finds
  <2> DEFINE h == [what |-> "search", id |-> s, facts |-> projection[D!Latest].facts,
                   cards |-> IF D!Found THEN {projection[D!Latest].facts} ELSE {}]
  <2>2. /\ D!Free("recommendation") /\ D!Visible /\ searches[s].stage = "none" /\ UNCHANGED searches
        /\ hand' = [hand EXCEPT !["recommendation"] = h]
    BY <2>1 DEF D!Search
  <2>3. rec' = h /\ UNCHANGED <<cls, bot>> /\ rec = D!Idle
    <3> HIDE DEF h
    <3> QED
      BY <1>2, <1>3, <2>2 DEF cls, rec, bot
  <2>4. Evaluates(s)
    BY <2>2, <2>3 DEF Evaluates
  <2> QED
    BY <1>5, <1>7, <2>3, <2>4 DEF RecMoves
<1>13. CASE Reads
  <2>1. PICK s \in Searches : D!ReadResults(s)
    BY <1>13 DEF Reads
  <2> DEFINE h == [what |-> "read", id |-> s, facts |-> D!Nothing, cards |-> searches[s].results]
  <2>2. /\ searches[s].stage = "completed" /\ s \notin targets.searches
        /\ \/ UNCHANGED hand
           \/ UNCHANGED searches /\ hand' = [hand EXCEPT !["bot_assistant"] = h]
    BY <2>1 DEF D!ReadResults
  <2>3. CASE UNCHANGED searches /\ hand' = [hand EXCEPT !["bot_assistant"] = h]
    <3>1. bot' = h /\ UNCHANGED <<cls, rec>>
      <4> HIDE DEF h
      <4> QED
        BY <1>2, <2>3 DEF cls, rec, bot
    <3> QED
      BY <1>5, <1>6, <2>2, <2>3, <3>1 DEF BotMoves
  <2> QED
    BY <1>8, <2>2, <2>3
<1> QED
  BY <1>8, <1>9, <1>10, <1>11, <1>12, <1>13, Moves DEF Moved

(* How a search moves: an owner removes what is shown of it or was found   *)
(* for it; it is completed, disposed of, or answered.                      *)
Lessens(s) ==
    /\ searches'[s] # searches[s] => orders # {}
    /\ searches'[s].stage = searches[s].stage
    /\ searches'[s].results \in {searches[s].results, {}}
    /\ searches'[s].inputs \in {searches[s].inputs, {}}
    /\ searches'[s].shown \in {searches[s].shown, {}}

Completes(s) ==
    /\ rec.what = "search" /\ s = rec.id /\ rec' = D!Idle /\ UNCHANGED bot
    /\ searches'[s].stage = "completed" /\ searches'[s].results = rec.cards
    /\ searches'[s].inputs \subseteq {rec.facts} /\ searches'[s].shown = {}

Disposes(s) ==
    /\ searches[s].stage = "completed" /\ bot = D!Idle /\ UNCHANGED hand
    /\ searches'[s].stage = "answered" /\ searches'[s].results = searches[s].results
    /\ searches'[s].inputs = searches[s].inputs /\ searches'[s].shown = searches[s].shown

Replies(s) ==
    /\ bot.what = "read" /\ s = bot.id /\ bot' = D!Idle /\ UNCHANGED rec
    /\ searches'[s].stage = "answered" /\ searches'[s].results = searches[s].results
    /\ searches'[s].inputs = searches[s].inputs
    /\ searches'[s].shown = IF s \in targets.searches THEN {} ELSE bot.cards

SearchMoves(s) == Lessens(s) \/ Completes(s) \/ Disposes(s) \/ Replies(s)

(* What is found of a bounded number of facts can be counted.              *)
LEMMA CardsCounted ==
    ASSUME D!DeletionAssumption, NEW S \in SUBSET Values
    PROVE  D!Cardinality(S) \in Nat
<1>1. IsFiniteSet(0..MaxRevision)
  <2>1. MaxRevision \in Int /\ 0 \in Int
    BY KeyFacts
  <2> QED
    BY <2>1, FS_Interval
<1>2. IsFiniteSet(S)
  BY <1>1, FS_Subset DEF Values
<1>3. D!Cardinality(S) = Cardinality(S)
  BY DEF D!Cardinality, Cardinality
<1> QED
  BY <1>2, <1>3, FS_CardinalityType

(* A search completes, is answered, or loses something.                    *)
LEMMA SearchSteps ==
    ASSUME D!DeletionAssumption, Typed, CarriesOwn, [D!Next]_(D!vars)
    PROVE  /\ searches' \in [Searches -> SearchType]
           /\ \A s \in Searches : SearchMoves(s)
<1>1. /\ searches \in [Searches -> SearchType] /\ rec \in HandType /\ bot \in HandType
      /\ hand \in [{"classification", "recommendation", "bot_assistant"} -> HandType]
  BY KeyFacts DEF Typed, OwnedTyped, rec, bot
<1>2. \A s \in Searches : UNCHANGED searches => Lessens(s)
  BY DEF Lessens
<1>3. CASE UNCHANGED searches
  BY <1>1, <1>2, <1>3 DEF SearchMoves
<1>4. CASE D!CompleteSearch
  <2> DEFINE row == [stage |-> "completed", results |-> rec.cards,
                     inputs |-> {rec.facts} \ {D!Nothing}, count |-> D!Cardinality(rec.cards),
                     shown |-> {}]
  <2>1. /\ rec.what = "search" /\ searches' = [searches EXCEPT ![rec.id] = row]
        /\ hand' = [hand EXCEPT !["recommendation"] = D!Idle]
    BY <1>4 DEF D!CompleteSearch, rec, D!Finished
  <2>2. rec.id \in Searches /\ row \in SearchType
    <3>1. /\ rec.cards \subseteq Values /\ rec.facts \in Values
          /\ D!Cardinality(rec.cards) \in Nat
      BY <1>1, CardsCounted DEF HandType
    <3> QED
      BY <2>1, <3>1 DEF SearchType, CarriesOwn
  <2>3. rec' = D!Idle /\ UNCHANGED bot
    BY <1>1, <2>1 DEF rec, bot
  <2>4. /\ row.stage = "completed" /\ row.results = rec.cards
        /\ row.inputs \subseteq {rec.facts} /\ row.shown = {}
    OBVIOUS
  <2> HIDE DEF row
  <2>5. /\ searches' \in [Searches -> SearchType] /\ searches'[rec.id] = row
        /\ \A s \in Searches : s # rec.id => searches'[s] = searches[s]
    BY <1>1, <2>1, <2>2
  <2>6. Completes(rec.id)
    BY <2>1, <2>3, <2>4, <2>5 DEF Completes
  <2>7. \A s \in Searches : s # rec.id => Lessens(s)
    BY <2>5 DEF Lessens
  <2> QED
    BY <2>5, <2>6, <2>7 DEF SearchMoves
<1>5. CASE Reads
  <2>1. PICK s \in Searches : D!ReadResults(s)
    BY <1>5 DEF Reads
  <2>2. /\ searches[s].stage = "completed" /\ D!Free("bot_assistant")
        /\ \/ UNCHANGED searches
           \/ UNCHANGED hand /\ searches' = [searches EXCEPT ![s].stage = "answered"]
    BY <2>1 DEF D!ReadResults
  <2>3. CASE UNCHANGED hand /\ searches' = [searches EXCEPT ![s].stage = "answered"]
    <3>1. /\ searches' \in [Searches -> SearchType]
          /\ \A x \in Searches : x # s => searches'[x] = searches[x]
          /\ searches'[s] = [searches[s] EXCEPT !.stage = "answered"]
      BY <1>1, <2>3 DEF SearchType
    <3>2. bot = D!Idle
      BY <1>1, <2>2 DEF D!Free, bot
    <3>3. Disposes(s)
      BY <1>1, <2>2, <2>3, <3>1, <3>2 DEF Disposes, SearchType
    <3>4. \A x \in Searches : x # s => Lessens(x)
      BY <3>1 DEF Lessens
    <3> QED
      BY <3>1, <3>3, <3>4 DEF SearchMoves
  <2> QED
    BY <1>3, <2>2, <2>3
<1>6. CASE D!AcceptResults
  <2> DEFINE shown == IF bot.id \in targets.searches THEN {} ELSE bot.cards
             s == bot.id
  <2>1. /\ bot.what = "read"
        /\ searches' = [searches EXCEPT ![s].stage = "answered", ![s].shown = shown]
        /\ hand' = [hand EXCEPT !["bot_assistant"] = D!Idle]
    BY <1>6 DEF D!AcceptResults, bot, D!Finished
  <2>2. bot' = D!Idle /\ UNCHANGED rec
    BY <1>1, <2>1 DEF bot, rec
  <2>3. s \in Searches /\ shown \subseteq Values
    <3>1. bot # D!Idle
      BY <2>1 DEF D!Idle
    <3> QED
      BY <1>1, <3>1 DEF CarriesOwn, HandType
  <2> HIDE DEF shown
  <2>4. /\ searches' \in [Searches -> SearchType]
        /\ searches'[s].stage = "answered" /\ searches'[s].shown = shown
        /\ searches'[s].results = searches[s].results
        /\ searches'[s].inputs = searches[s].inputs
        /\ \A x \in Searches : x # s => searches'[x] = searches[x]
    BY <1>1, <2>1, <2>3 DEF SearchType
  <2>5. Replies(s)
    BY <2>1, <2>2, <2>4 DEF Replies, shown
  <2>6. \A x \in Searches : x # s => Lessens(x)
    BY <2>4 DEF Lessens
  <2> QED
    BY <2>4, <2>5, <2>6 DEF SearchMoves
<1>7. CASE Executes
  <2>1. PICK c \in orders : D!Execute(c)
    BY <1>7 DEF Executes
  <2>2. \E list : IF c.name = "suppress" THEN D!Suppressed(c.owner, list)
                  ELSE D!Deleted(c.owner, list)
    BY <2>1 DEF D!Execute
  <2>3. \/ UNCHANGED searches
        \/ \E list : searches' = D!Cleaned(list)
        \/ searches' = [s \in Searches |-> [searches[s] EXCEPT !.results = {}, !.inputs = {}]]
    BY <2>2 DEF D!Suppressed, D!Deleted
  <2>4. ASSUME NEW list, searches' = D!Cleaned(list)
        PROVE  searches' \in [Searches -> SearchType] /\ \A s \in Searches : Lessens(s)
    <3> DEFINE row(s) == IF s \in list THEN [searches[s] EXCEPT !.shown = {}] ELSE searches[s]
    <3>1. ASSUME NEW s \in Searches
          PROVE  /\ row(s) \in SearchType /\ row(s).shown \in {searches[s].shown, {}}
                 /\ row(s).stage = searches[s].stage
                 /\ row(s).results = searches[s].results
                 /\ row(s).inputs = searches[s].inputs
      BY <1>1 DEF SearchType
    <3>2. searches' = [s \in Searches |-> row(s)]
      BY <2>4 DEF D!Cleaned
    <3> HIDE DEF row
    <3> QED
      BY <2>1, <3>1, <3>2 DEF Lessens
  <2>5. CASE searches' = [s \in Searches |-> [searches[s] EXCEPT !.results = {}, !.inputs = {}]]
    BY <1>1, <2>5 DEF SearchType, Lessens, SearchMoves
  <2> QED
    BY <1>3, <2>3, <2>4, <2>5 DEF SearchMoves
<1> QED
  BY <1>3, <1>4, <1>5, <1>6, <1>7, Moves DEF Moved
-----------------------------------------------------------------------------
(* What the Application drops of its revisions it drops of the Opportunity.*)
LEMMA DroppedTogether ==
    ASSUME D!DeletionAssumption,
           Typed, [D!Next]_(D!vars), opportunity.rev \in accepted, opportunity.rev \notin accepted'
    PROVE  opportunity'.rev = D!Nothing
<1>1. CASE Events
  <2>1. PICK r \in D!Revisions : D!AcceptEvent(r)
    BY <1>1 DEF Events
  <2>2. UNCHANGED accepted \/ accepted' = accepted \cup {r}
    BY <2>1, EventEffect DEF AcceptedHere
  <2> QED
    BY <2>2
<1>2. CASE Executes
  <2>1. PICK c \in orders : D!Execute(c)
    BY <1>2 DEF Executes
  <2>2. c.name \in D!Asks /\ \E list : IF c.name = "suppress" THEN D!Suppressed(c.owner, list)
                                        ELSE D!Deleted(c.owner, list)
    BY <2>1 DEF D!Execute
  <2>3. CASE \E list : D!Suppressed(c.owner, list)
    BY <2>3 DEF D!Suppressed
  <2>4. CASE \E list : D!Deleted(c.owner, list)
    <3>1. /\ accepted' = IF c.owner = "application" THEN accepted \ targets.revisions
                         ELSE accepted
          /\ opportunity' = IF c.owner = "application"
                               /\ (targets.opportunity \/ opportunity.rev \in targets.revisions)
                            THEN D!NoOpp ELSE opportunity
      BY <2>4 DEF D!Deleted
    <3> QED
      BY <3>1 DEF D!NoOpp
  <2> QED
    BY <2>2, <2>3, <2>4
<1> QED
  BY <1>1, <1>2, Moves DEF Moved

(* The memories are a function of the processes.                           *)
LEMMA HandTyped ==
    ASSUME D!DeletionAssumption, Typed, CarriesOwn, [D!Next]_(D!vars)
    PROVE  hand' \in [Workers -> HandType]
<1>1. /\ hand \in [Workers -> HandType] /\ "bot_assistant" \in Workers
      /\ Workers = {"classification", "recommendation", "bot_assistant"}
      /\ cls \in HandType /\ rec \in HandType /\ bot \in HandType
      /\ searches \in [Searches -> SearchType] /\ contracts \in [Keys -> RowType]
      /\ projection \in [D!Revisions -> ViewType]
  BY KeyFacts DEF Typed, OwnedTyped, cls, rec, bot
<1>2. \E o, h : hand' = [hand EXCEPT ![o] = h]
  <2>1. CASE UNCHANGED hand
    <3>1. hand = [hand EXCEPT !["bot_assistant"] = bot]
      BY <1>1 DEF bot
    <3> QED
      BY <2>1, <3>1
  <2>2. CASE D!Propose \/ D!Project \/ D!CompleteSearch \/ D!AcceptResults
    BY <2>2 DEF D!Propose, D!Project, D!CompleteSearch, D!AcceptResults, D!Finished
  <2>3. CASE Admits \/ Claims \/ Finds \/ Reads
    <3>1. UNCHANGED hand \/ \E o, h : hand' = [hand EXCEPT ![o] = h]
      BY <2>3, Zenon DEF Admits, D!Admit, Claims, D!Claim, Finds, D!Search, Reads, D!ReadResults
    <3> QED
      BY <2>1, <3>1
  <2> QED
    BY <2>1, <2>2, <2>3, Moves DEF Moved
<1>3. hand' = [o \in Workers |-> hand'[o]]
  BY <1>1, <1>2
<1>4. D!Idle \in HandType
  BY KeyFacts DEF D!Idle, HandType, D!Nothing
<1>5. cls' \in HandType
  <2>1. ASSUME NEW r \in D!Revisions
        PROVE  [what |-> "calling", id |-> r, facts |-> r, cards |-> {}] \in HandType
    BY KeyFacts DEF HandType
  <2> QED
    BY <1>1, <1>4, <2>1, HandSteps DEF ClsMoves
<1>6. rec' \in HandType
  <2>1. ASSUME NEW k \in D!Publications, NEW r \in D!Revisions, Takes(k, r)
        PROVE  rec' \in HandType
    <3>1. contracts[<<k, r>>].facts \in Values /\ r \in Values
      BY <1>1, KeyFacts DEF RowType, Keys, D!Kinds
    <3> QED
      BY <2>1, <3>1 DEF Takes, HandType
  <2>2. ASSUME NEW s \in Searches, Evaluates(s)
        PROVE  rec' \in HandType
    <3>1. projection[D!Latest].facts \in Values
      BY <1>1, <2>2, LatestIsRow DEF Evaluates, D!Visible, ViewType
    <3> QED
      BY <2>2, <3>1 DEF Evaluates, HandType
  <2> QED
    BY <1>1, <1>4, <2>1, <2>2, HandSteps DEF RecMoves
<1>7. bot' \in HandType
  <2>1. ASSUME NEW s \in Searches
        PROVE  [what |-> "read", id |-> s, facts |-> D!Nothing,
                cards |-> searches[s].results] \in HandType
    BY <1>1, KeyFacts DEF HandType, SearchType
  <2> QED
    BY <1>1, <1>4, <2>1, HandSteps DEF BotMoves
<1> QED
  BY <1>1, <1>3, <1>5, <1>6, <1>7 DEF cls, rec, bot

(* Every step keeps the types.                                             *)
LEMMA TypesKept ==
    ASSUME D!DeletionAssumption, Typed, CarriesOwn, [D!Next]_(D!vars)
    PROVE  Typed'
<1>1. /\ fetched \in Nat /\ fetched' \in Nat /\ fetched <= fetched'
      /\ D!Record => fetched' = fetched + 1
      /\ accepted \subseteq 1..fetched /\ records \subseteq 1..fetched
      /\ attempts \subseteq D!Revisions /\ MaxRevision \in Nat
  <2>1. fetched \in Nat /\ MaxRevision \in Nat
    BY KeyFacts DEF Typed, ProtocolTyped, Values
  <2>2. D!Record => fetched' = fetched + 1
    BY DEF D!Record
  <2> QED
    BY <2>1, <2>2, Moves DEF Moved, Typed, OwnedTyped
<1>2. SetsMove
  BY SetSteps
<1>3. /\ 1..fetched \subseteq 1..fetched'
      /\ D!Record => fetched + 1 \in 1..fetched'
  <2>1. fetched \in Nat /\ fetched' \in Nat /\ fetched <= fetched'
    BY <1>1
  <2>2. CASE D!Record
    <3>1. fetched' = fetched + 1
      BY <1>1, <2>2
    <3> QED
      BY <2>1, <3>1
  <2> QED
    BY <2>1, <2>2
<1>7. records' \subseteq 1..fetched'
  <2>1. ASSUME NEW f \in records'
        PROVE  f \in 1..fetched'
    <3>1. f \in records \/ (D!Record /\ f = fetched + 1)
      BY <1>2 DEF SetsMove
    <3>2. f \in records => f \in 1..fetched
      BY <1>1, Zenon
    <3> QED
      BY <1>3, <3>1, <3>2, Zenon
  <2> QED
    BY <2>1, Zenon
<1>4. accepted' \subseteq 1..fetched'
  <2>1. ASSUME NEW r \in D!Revisions, D!AcceptEvent(r)
        PROVE  r \in 1..fetched
    <3>1. contracts[<<"event", r>>].state = "pending"
      BY <2>1, EventEffect
    <3>2. r \in 1..MaxRevision /\ ~(r > fetched)
      BY <3>1 DEF CarriesOwn, D!Revisions
    <3> QED
      BY <1>1, <3>2
  <2>2. ASSUME NEW f \in accepted'
        PROVE  f \in 1..fetched'
    <3>1. f \in accepted \/ (f \in D!Revisions /\ D!AcceptEvent(f))
      BY <1>2 DEF SetsMove
    <3>2. f \in accepted => f \in 1..fetched
      BY <1>1, Zenon
    <3> QED
      BY <1>3, <2>1, <3>1, <3>2, Zenon
  <2> QED
    BY <2>2, Zenon
<1>5. attempts' \subseteq D!Revisions
  BY <1>1, <1>2 DEF SetsMove
<1>6. ProtocolTyped' /\ contracts' \in [Keys -> RowType]
  BY ProtocolTypes, RowSteps DEF RowsMove
<1> QED
  BY <1>4, <1>5, <1>6, <1>7, OpportunitySteps, ProjectionSteps, SearchSteps, HandTyped
     DEF Typed, OwnedTyped

(* And what the rows and the processes carry.                              *)
LEMMA CarriesKept ==
    ASSUME D!DeletionAssumption, Typed, CarriesOwn, [D!Next]_(D!vars)
    PROVE  CarriesOwn'
<1>1. /\ fetched \in Nat /\ MaxRevision \in Nat
      /\ D!Record => fetched' = fetched + 1
      /\ UNCHANGED fetched \/ D!Record
  <2>1. fetched \in Nat /\ MaxRevision \in Nat
    BY KeyFacts DEF Typed, ProtocolTyped, Values
  <2>2. D!Record => fetched' = fetched + 1
    BY DEF D!Record
  <2> QED
    BY <2>1, <2>2, Moves DEF Moved
<1>2. ASSUME NEW k \in D!Kinds, NEW r \in D!Revisions, k # "supersession"
      PROVE  contracts'[<<k, r>>].facts \in {D!Nothing, r}
  <2>1. contracts[<<k, r>>].facts \in {D!Nothing, r} /\ Enters(<<k, r>>)
    BY <1>2, RowSteps, KeyFacts DEF CarriesOwn, RowsMove
  <2> QED
    BY <1>2, <2>1 DEF Enters, AcceptedHere
<1>3. ASSUME NEW r \in D!Revisions, r > fetched'
      PROVE  contracts'[<<"event", r>>].state = "none"
  <2>1. EventMoves(r)
    BY RowSteps DEF RowsMove
  <2>2. r > fetched /\ (D!Record => r # fetched + 1)
    <3>1. r \in Nat
      BY <1>1 DEF D!Revisions
    <3>2. CASE D!Record
      <4>1. fetched' = fetched + 1
        BY <3>2 DEF D!Record
      <4>2. fetched \in Nat
        BY <1>1
      <4> QED
        BY <1>3, <3>1, <4>1, <4>2
    <3>3. CASE ~D!Record
      <4>1. fetched' = fetched
        BY <1>1, <3>3
      <4> QED
        BY <1>3, <3>3, <4>1
    <3> QED
      BY <3>2, <3>3
  <2>3. contracts[<<"event", r>>].state = "none"
    BY <2>2 DEF CarriesOwn
  <2>4. ~D!AcceptEvent(r)
    BY <2>3 DEF D!AcceptEvent
  <2> QED
    BY <2>1, <2>2, <2>3, <2>4 DEF EventMoves
<1>4. cls' # D!Idle => cls'.what = "calling" /\ cls'.id \in D!Revisions /\ cls'.facts = cls'.id
  <2>1. CASE cls' = D!Idle
    BY <2>1
  <2>2. CASE cls' = cls
    BY <2>2 DEF CarriesOwn
  <2>3. ASSUME NEW r \in D!Revisions,
               cls' = [what |-> "calling", id |-> r, facts |-> r, cards |-> {}]
        PROVE  cls'.what = "calling" /\ cls'.id \in D!Revisions /\ cls'.facts = cls'.id
    BY <2>3
  <2> QED
    BY <2>1, <2>2, <2>3, HandSteps DEF ClsMoves
<1>5. /\ rec' # D!Idle => rec'.what \in D!Publications \cup {"search"}
      /\ rec'.what = "publication" => rec'.facts = rec'.id
      /\ rec'.what \in D!Publications => rec'.id \in D!Revisions
      /\ rec'.what = "search" => rec'.id \in Searches /\ searches'[rec'.id].stage = "none"
  <2>1. CASE rec' = D!Idle
    BY <2>1 DEF D!Idle, D!Publications
  <2>2. CASE UNCHANGED rec /\ rec # D!Idle
    <3>1. ASSUME rec.what = "search"
          PROVE  searches'[rec.id].stage = "none"
      <4>1. rec.id \in Searches /\ searches[rec.id].stage = "none" /\ SearchMoves(rec.id)
        BY <3>1, SearchSteps DEF CarriesOwn
      <4>2. bot.what = "read" => searches[bot.id].stage = "completed"
        BY DEF CarriesOwn, D!Idle
      <4> QED
        BY <2>2, <4>1, <4>2 DEF SearchMoves, Lessens, Completes, Disposes, Replies
    <3> QED
      BY <2>2, <3>1 DEF CarriesOwn
  <2>3. ASSUME NEW k \in D!Publications, NEW r \in D!Revisions, Takes(k, r)
        PROVE  /\ rec'.what = k /\ rec'.id = r
               /\ k = "publication" => rec'.facts = r
    <3>1. k \in D!Kinds /\ (k = "publication" => k # "supersession")
      BY DEF D!Kinds
    <3> QED
      BY <2>3, <3>1 DEF Takes, CarriesOwn
  <2>4. "search" \notin D!Publications /\ "publication" # "search"
    BY DEF D!Publications
  <2>5. ASSUME NEW s \in Searches, Evaluates(s)
        PROVE  rec'.what = "search" /\ rec'.id = s /\ searches'[s].stage = "none"
    BY <2>5 DEF Evaluates
  <2> QED
    BY <2>1, <2>2, <2>3, <2>4, <2>5, HandSteps DEF RecMoves
<1>6. bot' # D!Idle => bot'.what = "read" /\ bot'.id \in Searches
                       /\ searches'[bot'.id].stage = "completed"
  <2>1. CASE UNCHANGED bot /\ bot # D!Idle
    <3>1. bot.what = "read" /\ bot.id \in Searches /\ searches[bot.id].stage = "completed"
          /\ SearchMoves(bot.id)
      BY <2>1, SearchSteps DEF CarriesOwn
    <3>2. rec.what = "search" => searches[rec.id].stage = "none"
      BY DEF CarriesOwn
    <3> QED
      BY <2>1, <3>1, <3>2 DEF SearchMoves, Lessens, Completes, Disposes, Replies
  <2>2. ASSUME NEW s \in Searches, searches[s].stage = "completed", UNCHANGED searches,
               bot' = [what |-> "read", id |-> s, facts |-> D!Nothing,
                       cards |-> searches[s].results]
        PROVE  bot'.what = "read" /\ bot'.id \in Searches /\ searches'[bot'.id].stage = "completed"
    BY <2>2
  <2> QED
    BY <2>1, <2>2, HandSteps DEF BotMoves
<1> QED
  BY <1>2, <1>3, <1>4, <1>5, <1>6 DEF CarriesOwn

(* An event is accepted when none before it waits.                         *)
LEMMA OrderKept ==
    ASSUME D!DeletionAssumption, Typed, CarriesOwn, InOrder, [D!Next]_(D!vars)
    PROVE  InOrder'
<1>1. /\ fetched \in Nat /\ accepted \subseteq 1..fetched /\ MaxRevision \in Nat
      /\ accepted' \subseteq Nat /\ D!Nothing = 0
  BY KeyFacts, TypesKept DEF Typed, ProtocolTyped, OwnedTyped, Values, D!Nothing
<1>2. \A f \in accepted' : f \in accepted \/ (f \in D!Revisions /\ D!AcceptEvent(f) /\ AcceptedHere(f))
  BY SetSteps DEF SetsMove
<1>3. \A f \in D!Revisions : D!AcceptEvent(f) =>
          /\ contracts[<<"event", f>>].state = "pending"
          /\ \A p \in 1..(f - 1) : contracts[<<"event", p>>].state # "pending"
          /\ contracts'[<<"event", f>>].state = "settled"
          /\ f <= fetched
  <2>1. ASSUME NEW f \in D!Revisions, D!AcceptEvent(f)
        PROVE  /\ contracts[<<"event", f>>].state = "pending"
               /\ \A p \in 1..(f - 1) : contracts[<<"event", p>>].state # "pending"
               /\ contracts'[<<"event", f>>].state = "settled"
    BY <2>1, EventEffect
  <2>2. ASSUME NEW f \in D!Revisions, contracts[<<"event", f>>].state = "pending"
        PROVE  f <= fetched
    <3>1. ~(f > fetched)
      BY <2>2 DEF CarriesOwn
    <3> QED
      BY <1>1, <3>1 DEF D!Revisions
  <2> QED
    BY <2>1, <2>2
<1>4. ASSUME NEW a \in accepted', NEW r \in D!Revisions, r <= a
      PROVE  contracts'[<<"event", r>>].state # "pending"
  <2>1. EventMoves(r)
    BY RowSteps DEF RowsMove
  <2>2. a <= fetched
    <3>1. \A f \in D!Revisions : D!AcceptEvent(f) => f <= fetched
      BY <1>3
    <3>2. a \in accepted \/ (a \in D!Revisions /\ D!AcceptEvent(a))
      BY <1>2
    <3> QED
      BY <1>1, <3>1, <3>2
  <2>3. r <= fetched /\ r # fetched + 1
    BY <1>1, <1>4, <2>2 DEF D!Revisions
  <2>4. contracts[<<"event", r>>].state # "pending" \/ contracts'[<<"event", r>>].state = "settled"
    <3>1. CASE a \in accepted
      BY <1>4, <3>1 DEF InOrder
    <3>2. CASE a \in D!Revisions /\ D!AcceptEvent(a)
      <4>1. r = a \/ r \in 1..(a - 1)
        BY <1>4, <3>2 DEF D!Revisions
      <4> QED
        BY <1>3, <3>2, <4>1
    <3> QED
      BY <1>2, <3>1, <3>2
  <2> QED
    BY <2>1, <2>3, <2>4 DEF EventMoves
<1>5. ASSUME opportunity'.rev # D!Nothing
      PROVE  opportunity'.rev \in accepted' /\ \A a \in accepted' : a <= opportunity'.rev
  <2>1. ASSUME NEW r \in D!Revisions, D!AcceptEvent(r), AcceptedHere(r), opportunity.rev # D!Nothing
        PROVE  r \in accepted' /\ \A a \in accepted' : a <= r
    <3>1. accepted' = accepted \cup {r}
      BY <2>1 DEF AcceptedHere
    <3>2. \A a \in accepted : ~(r <= a)
      BY <1>3, <2>1 DEF InOrder
    <3> QED
      BY <1>1, <3>1, <3>2 DEF D!Revisions
  <2>2. CASE opportunity'.rev = opportunity.rev
                /\ \A f \in D!Revisions : ~(D!AcceptEvent(f) /\ AcceptedHere(f))
    <3>1. accepted' \subseteq accepted
      BY <1>2, <2>2
    <3>2. opportunity.rev \in accepted'
      BY <1>5, <2>2, DroppedTogether DEF InOrder
    <3> QED
      BY <1>5, <2>2, <3>1, <3>2 DEF InOrder
  <2>3. ASSUME NEW r \in D!Revisions, D!AcceptEvent(r), AcceptedHere(r)
        PROVE  /\ opportunity.rev # D!Nothing /\ opportunity'.rev = r
    <3>1. opportunity \in [rev : 0..fetched, facts : Values, active : BOOLEAN]
      BY DEF Typed, OwnedTyped
    <3>2. opportunity.rev = D!Nothing => opportunity'.rev = D!Nothing
      BY <2>3 DEF AcceptedHere
    <3> QED
      BY <1>5, <2>3, <3>1, <3>2 DEF AcceptedHere
  <2>4. ASSUME NEW r \in D!Revisions, Proposed(r), UNCHANGED accepted, opportunity'.rev = r
        PROVE  opportunity'.rev \in accepted' /\ \A a \in accepted' : a <= opportunity'.rev
    BY <2>4 DEF Proposed
  <2> QED
    BY <1>5, <2>1, <2>2, <2>3, <2>4, OpportunitySteps DEF OpportunityMoves
<1> QED
  BY <1>4, <1>5 DEF InOrder
-----------------------------------------------------------------------------
(* Who has a fact: as something published, or at all.                      *)
Shows(f) ==
    \/ opportunity.facts = f
    \/ \E r \in D!Revisions : projection[r].facts = f
    \/ \E k \in D!Publications, r \in D!Revisions : contracts[<<k, r>>].facts = f
    \/ rec.facts = f \/ f \in rec.cards \/ f \in bot.cards
    \/ \E s \in Searches :
           f \in searches[s].results \/ f \in searches[s].inputs \/ f \in searches[s].shown

Has(f) == \/ f \in records \/ f \in accepted \/ f \in attempts
          \/ \E k \in Keys : contracts[k].facts = f
          \/ cls.facts = f
          \/ Shows(f)

(* What is published comes from what was, or from a proposal.              *)
LEMMA ShowsFlow ==
    ASSUME D!DeletionAssumption,
           Typed, CarriesOwn, [D!Next]_(D!vars), NEW f, f # D!Nothing, Shows(f)'
    PROVE  Shows(f) \/ (f \in D!Revisions /\ Proposed(f) /\ UNCHANGED accepted)
<1> DEFINE New == f \in D!Revisions /\ Proposed(f) /\ UNCHANGED accepted
<1>1. ASSUME opportunity'.facts = f
      PROVE  Shows(f) \/ New
  BY <1>1, OpportunitySteps DEF OpportunityMoves, Shows
<1>2. ASSUME NEW r \in D!Revisions, projection'[r].facts = f
      PROVE  Shows(f)
  <2>1. ViewMoves(r)
    BY ProjectionSteps
  <2> QED
    BY <1>2, <2>1 DEF ViewMoves, Shows
<1>3. ASSUME NEW k \in D!Publications, NEW r \in D!Revisions, contracts'[<<k, r>>].facts = f
      PROVE  Shows(f) \/ New
  <2>1. /\ <<k, r>> \in Keys
        /\ k \notin {"event", "classify", "proposal"}
    BY KeyFacts DEF D!Publications, D!Kinds
  <2>2. Enters(<<k, r>>)
    BY <2>1, RowSteps DEF RowsMove
  <2>3. ASSUME NEW x \in D!Revisions, AcceptedHere(x), opportunity.rev # D!Nothing,
               <<k, r>> = <<"supersession", x>>
        PROVE  Shows(f)
    <3>1. contracts'[<<k, r>>].facts = opportunity.facts
      BY <2>3 DEF AcceptedHere
    <3> QED
      BY <1>3, <3>1 DEF Shows
  <2>4. ASSUME NEW x \in D!Revisions, Proposed(x), UNCHANGED accepted, contracts'[<<k,
               r>>].facts = x
        PROVE  New
    BY <1>3, <2>4
  <2>5. contracts'[<<k, r>>].facts = contracts[<<k, r>>].facts => Shows(f)
    BY <1>3 DEF Shows
  <2> QED
    BY <1>3, <2>1, <2>2, <2>3, <2>4, <2>5 DEF Enters
<1>4. ASSUME \/ rec'.facts = f \/ f \in rec'.cards
      PROVE  Shows(f)
  <2>1. CASE rec' = rec
    BY <1>4, <2>1 DEF Shows
  <2>2. rec' # D!Idle
    BY <1>4 DEF D!Idle
  <2>3. ASSUME NEW k \in D!Publications, NEW r \in D!Revisions, Takes(k, r)
        PROVE  Shows(f)
    BY <1>4, <2>3 DEF Takes, Shows
  <2>4. ASSUME NEW s \in Searches, Evaluates(s)
        PROVE  Shows(f)
    <3>1. D!Latest \in D!Revisions /\ f = projection[D!Latest].facts
      BY <1>4, <2>4, LatestIsRow DEF Evaluates, D!Visible
    <3> QED
      BY <3>1 DEF Shows
  <2> QED
    BY <2>1, <2>2, <2>3, <2>4, HandSteps DEF RecMoves
<1>5. ASSUME f \in bot'.cards
      PROVE  Shows(f)
  <2>1. bot' # D!Idle
    BY <1>5 DEF D!Idle
  <2>2. bot' = bot \/ \E s \in Searches : bot'.cards = searches[s].results
    BY <2>1, HandSteps DEF BotMoves
  <2> QED
    BY <1>5, <2>2 DEF Shows
<1>6. ASSUME NEW s \in Searches,
             \/ f \in searches'[s].results \/ f \in searches'[s].inputs
             \/ f \in searches'[s].shown
      PROVE  Shows(f)
  <2>1. SearchMoves(s)
    BY SearchSteps
  <2>2. CASE Lessens(s)
    BY <1>6, <2>2 DEF Lessens, Shows
  <2>3. CASE Completes(s)
    BY <1>6, <2>3 DEF Completes, Shows
  <2>4. CASE Disposes(s)
    BY <1>6, <2>4 DEF Disposes, Shows
  <2>5. CASE Replies(s)
    BY <1>6, <2>5 DEF Replies, Shows
  <2> QED
    BY <2>1, <2>2, <2>3, <2>4, <2>5 DEF SearchMoves
<1> QED
  BY <1>1, <1>2, <1>3, <1>4, <1>5, <1>6 DEF Shows

(* What anybody has comes from what was there, from a message that was     *)
(* recorded, or from an event that was accepted.                           *)
LEMMA HasFlow ==
    ASSUME D!DeletionAssumption,
           Typed, CarriesOwn, [D!Next]_(D!vars), NEW f, f # D!Nothing, Has(f)'
    PROVE  \/ Has(f)
           \/ D!Record /\ ~D!AuthorBarred(f) /\ f = fetched + 1
           \/ f \in D!Revisions /\ D!AcceptEvent(f) /\ AcceptedHere(f)
<1> DEFINE New == \/ D!Record /\ ~D!AuthorBarred(f) /\ f = fetched + 1
                  \/ f \in D!Revisions /\ D!AcceptEvent(f) /\ AcceptedHere(f)
<1>1. SetsMove
  BY SetSteps
<1>2. f \in records' => Has(f) \/ New
  BY <1>1 DEF SetsMove, Has
<1>3. f \in accepted' => Has(f) \/ New
  BY <1>1 DEF SetsMove, Has
<1>4. f \in attempts' => Has(f)
  <2>1. \/ f \notin attempts' \/ f \in attempts
        \/ f \in D!Revisions /\ contracts[<<"classify", f>>].facts = f
    BY <1>1 DEF SetsMove
  <2> QED
    BY <2>1, KeyFacts DEF Has
<1>5. ASSUME NEW k \in Keys, contracts'[k].facts = f
      PROVE  Has(f) \/ New
  <2>1. Enters(k)
    BY RowSteps DEF RowsMove
  <2>2. contracts'[k].facts = contracts[k].facts => Has(f)
    BY <1>5 DEF Has
  <2>3. ASSUME NEW x \in D!Revisions, D!AcceptEvent(x), AcceptedHere(x),
               \/ k = <<"classify", x>>
               \/ k = <<"supersession", x>> /\ opportunity.rev # D!Nothing
        PROVE  Has(f) \/ New
    <3>1. contracts'[k].facts \in {x, opportunity.facts}
      BY <2>3 DEF AcceptedHere
    <3> QED
      BY <1>5, <2>3, <3>1 DEF Has, Shows
  <2>4. ASSUME D!Propose, contracts'[k].facts = cls.id
        PROVE  Has(f)
    <3>1. cls # D!Idle
      BY <2>4 DEF D!Propose, cls, D!Idle
    <3>2. cls.facts = cls.id
      BY <3>1 DEF CarriesOwn
    <3> QED
      BY <1>5, <2>4, <3>2 DEF Has
  <2>5. ASSUME NEW x \in D!Revisions, Proposed(x), contracts'[k].facts = x
        PROVE  Has(f)
    BY <1>5, <2>5 DEF Proposed, Has
  <2> QED
    BY <1>5, <2>1, <2>2, <2>3, <2>4, <2>5 DEF Enters
<1>6. cls'.facts = f => Has(f)
  <2>1. ASSUME NEW r \in D!Revisions, contracts[<<"classify", r>>].facts = r, f = r
        PROVE  Has(f)
    BY <2>1, KeyFacts DEF Has
  <2>2. cls'.facts = f => cls' # D!Idle
    BY DEF D!Idle
  <2>3. cls' = cls \/ cls' = D!Idle \/ \E r \in D!Revisions :
            contracts[<<"classify", r>>].facts = r /\ cls'.facts = r
    BY HandSteps DEF ClsMoves
  <2> QED
    BY <2>1, <2>2, <2>3 DEF Has
<1>7. Shows(f)' => Has(f)
  BY ShowsFlow DEF Has, Proposed
<1> HIDE DEF New
<1>8. Has(f) \/ New
  BY <1>2, <1>3, <1>4, <1>5, <1>6, <1>7 DEF Has
<1> QED
  BY <1>8 DEF New

(* Nobody has a fact of a message that was not read.                       *)
Known == \A f \in Values : Has(f) => f <= fetched

(* Nothing comes from a message that was not read.                         *)
LEMMA KnownKept ==
    ASSUME D!DeletionAssumption, Typed, CarriesOwn, Known, [D!Next]_(D!vars)
    PROVE  Known'
<1>1. /\ fetched \in Nat /\ fetched' \in Nat /\ fetched <= fetched'
      /\ D!Record => fetched' = fetched + 1
  <2>1. fetched \in Nat
    BY KeyFacts DEF Typed, ProtocolTyped, Values
  <2>2. D!Record => fetched' = fetched + 1
    BY DEF D!Record
  <2> QED
    BY <2>1, <2>2, Moves DEF Moved
<1>2. ASSUME NEW f \in Values, Has(f)'
      PROVE  f <= fetched'
  <2>1. f \in Nat /\ D!Nothing = 0
    BY DEF Values, D!Nothing
  <2>2. CASE Has(f)
    BY <1>1, <2>1, <2>2 DEF Known
  <2>3. CASE D!Record /\ f = fetched + 1
    <3>1. fetched' = fetched + 1
      BY <1>1, <2>3
    <3> QED
      BY <1>1, <2>1, <2>3, <3>1
  <2>4. CASE f \in D!Revisions /\ D!AcceptEvent(f)
    <3>1. contracts[<<"event", f>>].state = "pending"
      BY <2>4, EventEffect
    <3>2. ~(f > fetched)
      BY <2>4, <3>1 DEF CarriesOwn
    <3> QED
      BY <1>1, <2>1, <3>2
  <2>5. CASE f = D!Nothing
    BY <1>1, <2>1, <2>5
  <2> QED
    BY <1>2, <2>2, <2>3, <2>4, <2>5, HasFlow
<1> QED
  BY <1>2 DEF Known
-----------------------------------------------------------------------------
(* What the beginning of an execution does, and what it leaves.            *)
LEMMA BeginEffect ==
    ASSUME D!DeletionAssumption, Typed, CarriesOwn, D!Begin, [D!Next]_(D!vars)
    PROVE  /\ request'.attempt = request.attempt + 1 /\ Asked'
           /\ confirmed \in 0..posted /\ confirmed' = -1
           /\ UNCHANGED <<D!telegram, D!owned, searches, hand, overtaken>>
           /\ \A r \in D!Revisions :
                  contracts'[<<"event", r>>].state = contracts[<<"event", r>>].state
           /\ \A k \in Keys : contracts'[k].facts \in {contracts[k].facts, D!Nothing}
           /\ \A f : f # D!Nothing => (Shows(f)' => Shows(f)) /\ (Has(f)' => Has(f))
<1>1. /\ request'.attempt = request.attempt + 1 /\ confirmed >= 0 /\ confirmed' = -1
      /\ UNCHANGED <<D!telegram, D!owned, searches, hand, overtaken>>
      /\ \/ UNCHANGED contracts
         \/ \E revs : contracts' = D!Without(contracts, {"event"}, revs, FALSE)
  BY DEF D!Begin
<1>2. request.attempt \in Nat /\ confirmed \in -1..posted /\ posted \in Nat
      /\ contracts \in [Keys -> RowType]
  BY KeyFacts DEF Typed, ProtocolTyped, OwnedTyped, Values
<1>3. Asked' /\ confirmed \in 0..posted
  BY <1>1, <1>2 DEF Asked
<1>4. \A k \in Keys : /\ contracts'[k].facts \in {contracts[k].facts, D!Nothing}
                      /\ contracts'[k].state = contracts[k].state
  <2>1. ASSUME NEW revs, contracts' = D!Without(contracts, {"event"}, revs, FALSE)
        PROVE  \A k \in Keys : /\ contracts'[k].facts \in {contracts[k].facts, D!Nothing}
                               /\ contracts'[k].state = contracts[k].state
    <3>1. IsWithout(contracts', contracts, {"event"}, revs, FALSE)
      BY <1>2, <2>1, ScrubbedRows
    <3> QED
      BY <3>1 DEF IsWithout
  <2> QED
    BY <1>1, <2>1
<1>5. ASSUME NEW f, f # D!Nothing
      PROVE  (Shows(f)' => Shows(f)) /\ (Has(f)' => Has(f))
  <2>1. \A k \in Keys : contracts'[k].facts = f => contracts[k].facts = f
    BY <1>4, <1>5
  <2>2. \A k \in D!Publications, r \in D!Revisions : <<k, r>> \in Keys
    BY KeyFacts DEF D!Kinds
  <2>3. UNCHANGED <<opportunity, projection, rec, bot, cls, searches, records, accepted, attempts>>
    BY <1>1 DEF D!owned, rec, bot, cls
  <2>4. Shows(f)' => Shows(f)
    BY <2>1, <2>2, <2>3 DEF Shows
  <2> QED
    BY <2>1, <2>3, <2>4 DEF Has
<1> QED
  BY <1>1, <1>3, <1>4, <1>5, KeyFacts

(* The first time it captures its targets.                                 *)
LEMMA BeginFirst ==
    ASSUME D!Begin, request.attempt = 0
    PROVE  /\ request'.boundary = confirmed
           /\ Targeted' = (records \cup accepted) \cap (1..confirmed)
           /\ targets'.opportunity <=> opportunity.rev \in Targeted'
           /\ targets'.searches = D!SearchesOf(targets'.opportunity)
  BY DEF D!Begin, Targeted

(* A retry keeps them.                                                     *)
LEMMA BeginAgain ==
    ASSUME D!Begin, request.attempt # 0
    PROVE  /\ request'.boundary = request.boundary /\ Targeted' = Targeted
           /\ targets'.opportunity = targets.opportunity
           /\ targets'.searches = targets.searches
  BY DEF D!Begin, Targeted

(* Nothing else changes them, but for the searches of an owner's answer.   *)
LEMMA Standing ==
    ASSUME Typed, [D!Next]_(D!vars), ~D!Begin
    PROVE  /\ request'.boundary = request.boundary /\ request'.attempt = request.attempt
           /\ Targeted' = Targeted /\ targets'.opportunity = targets.opportunity
           /\ UNCHANGED <<targets, acks>> \/ Answered
<1>1. /\ request \in [status : Statuses, attempt : Nat, boundary : 0..posted, notified : BOOLEAN]
      /\ targets \in [revisions : SUBSET (1..request.boundary), opportunity : BOOLEAN,
                      searches : SUBSET Searches]
  BY DEF Typed, ProtocolTyped
<1>2. CASE Answered
  <2>1. PICK e \in orders : D!OwnerEvent(e)
    BY <1>2 DEF Answered
  <2>2. \/ UNCHANGED <<request, targets>>
        \/ /\ \E list : targets' = [targets EXCEPT !.searches = list]
           /\ \E status : request' = [request EXCEPT !.status = status]
    BY <2>1 DEF D!OwnerEvent
  <2> QED
    BY <1>1, <1>2, <2>2 DEF Targeted
<1>3. CASE Rules \/ D!Notify \/ D!Complete
  <2>1. /\ UNCHANGED <<targets, acks>>
        /\ \/ \E s : request' = [request EXCEPT !.status = s]
           \/ request' = [request EXCEPT !.notified = TRUE]
    BY <1>3 DEF Rules, D!Decide, D!Notify, D!Complete
  <2> QED
    BY <1>1, <2>1 DEF Targeted
<1>4. CASE UNCHANGED <<request, targets, acks>>
  BY <1>4 DEF Targeted
<1> QED
  BY <1>2, <1>3, <1>4, Moves DEF Moved

(* History is not forgotten.                                               *)
LEMMA OvertakenStays ==
    ASSUME D!DeletionAssumption, Typed, [D!Next]_(D!vars), overtaken
    PROVE  overtaken'
<1>1. CASE Events
  <2>1. PICK r \in D!Revisions : D!AcceptEvent(r)
    BY <1>1 DEF Events
  <2> QED
    BY <2>1, EventEffect DEF AcceptedHere
<1> QED
  BY <1>1, Moves DEF Moved

(* The numbers of a state and of the next are numbers.                     *)
LEMMA Numbers ==
    ASSUME D!DeletionAssumption, Typed, [D!Next]_(D!vars)
    PROVE  /\ fetched \in Nat /\ posted \in Nat /\ fetched <= posted
           /\ request.boundary \in Nat /\ request.attempt \in Nat /\ confirmed \in Int
           /\ opportunity.rev \in Nat /\ opportunity.rev <= fetched
           /\ Targeted \subseteq 1..request.boundary
           /\ UNCHANGED fetched \/ (D!Record /\ fetched' = fetched + 1)
           /\ D!Nothing = 0 /\ D!Revisions \subseteq Nat /\ Values \subseteq Nat
           /\ MaxRevision \in Nat
<1>1. /\ posted \in 0..MaxRevision /\ MaxRevision \in Nat /\ fetched \in 0..posted
      /\ request.boundary \in 0..posted /\ request.attempt \in Nat /\ confirmed \in -1..posted
      /\ opportunity.rev \in 0..fetched
      /\ Targeted \subseteq 1..request.boundary
  BY KeyFacts DEF Typed, ProtocolTyped, OwnedTyped, Values, Targeted
<1>2. UNCHANGED fetched \/ (D!Record /\ fetched' = fetched + 1)
  BY Moves DEF Moved, D!Record
<1> QED
  BY <1>1, <1>2 DEF D!Nothing, D!Revisions, Values
-----------------------------------------------------------------------------
(* Before execution begins nothing is missing; what is published has an    *)
(* Opportunity, which an edit from after the confirmed time takes over     *)
(* only if history says so.                                                *)
Untouched ==
    ~Asked =>
        /\ request.boundary = 0 /\ Targeted = {} /\ orders = {}
        /\ 1..fetched \subseteq records
        /\ \A s \in Searches : searches[s].shown \subseteq searches[s].results
        /\ bot # D!Idle => bot.cards \subseteq searches[bot.id].results
        /\ opportunity.rev = D!Nothing => \A f \in Values : Shows(f) => f = D!Nothing
        /\ confirmed >= 0 /\ ~overtaken =>
               \A f \in Values : Shows(f) /\ f # D!Nothing /\ f <= confirmed =>
                                     opportunity.rev <= confirmed

(* Before execution begins no step takes anything.                         *)
LEMMA UntouchedKept ==
    ASSUME D!DeletionAssumption,
           Typed, CarriesOwn, InOrder, Untouched, [D!Next]_(D!vars), Typed'
    PROVE  Untouched'
<1> SUFFICES ASSUME ~Asked'
             PROVE  Untouched'
  BY DEF Untouched
<1>1. ~D!Begin
  BY BeginEffect
<1>2. /\ ~Asked /\ request.attempt = 0 /\ request'.boundary = request.boundary
      /\ Targeted' = Targeted
  BY <1>1, Standing, Numbers DEF Asked
<1>3. /\ request.boundary = 0 /\ Targeted = {} /\ orders = {}
      /\ 1..fetched \subseteq records
      /\ \A s \in Searches : searches[s].shown \subseteq searches[s].results
      /\ bot # D!Idle => bot.cards \subseteq searches[bot.id].results
      /\ opportunity.rev = D!Nothing => \A f \in Values : Shows(f) => f = D!Nothing
      /\ confirmed >= 0 /\ ~overtaken =>
             \A f \in Values : Shows(f) /\ f # D!Nothing /\ f <= confirmed =>
                                   opportunity.rev <= confirmed
  BY <1>2 DEF Untouched
<1>4. ~Executes /\ ~Fails /\ ~Answered /\ ~Deletes
  BY <1>3 DEF Executes, Fails, Answered, Deletes
<1>5. orders' = {}
  BY <1>1, <1>3, <1>4, Moves DEF Moved
<1>6. 1..fetched' \subseteq records'
  <2>1. \A f \in 1..fetched : f \in records'
    BY <1>3, <1>4, SetSteps DEF SetsMove
  <2>2. ASSUME D!Record
        PROVE  fetched + 1 \in records'
    BY <1>2, <2>2 DEF D!Record, D!AuthorBarred
  <2> QED
    BY <2>1, <2>2, Numbers
<1>7. ASSUME NEW s \in Searches
      PROVE  searches'[s].shown \subseteq searches'[s].results
  <2>1. SearchMoves(s)
    BY SearchSteps
  <2>2. CASE Lessens(s)
    BY <1>3, <2>2 DEF Lessens
  <2>3. CASE Completes(s)
    BY <2>3 DEF Completes
  <2>4. CASE Disposes(s)
    BY <1>3, <2>4 DEF Disposes
  <2>5. CASE Replies(s)
    <3>1. bot # D!Idle
      BY <2>5 DEF Replies, D!Idle
    <3> QED
      BY <1>3, <2>5, <3>1 DEF Replies
  <2> QED
    BY <2>1, <2>2, <2>3, <2>4, <2>5 DEF SearchMoves
<1>8. bot' # D!Idle => bot'.cards \subseteq searches'[bot'.id].results
  <2>1. CASE UNCHANGED bot /\ bot # D!Idle
    <3>1. bot.id \in Searches /\ searches[bot.id].stage = "completed" /\ SearchMoves(bot.id)
      BY <2>1, SearchSteps DEF CarriesOwn
    <3>2. rec.what = "search" => searches[rec.id].stage = "none"
      BY DEF CarriesOwn
    <3> QED
      BY <1>3, <2>1, <3>1, <3>2 DEF SearchMoves, Lessens, Completes, Disposes, Replies
  <2>2. ASSUME NEW s \in Searches, UNCHANGED searches,
               bot' = [what |-> "read", id |-> s, facts |-> D!Nothing,
                       cards |-> searches[s].results]
        PROVE  bot'.cards \subseteq searches'[bot'.id].results
    BY <2>2
  <2> QED
    BY <2>1, <2>2, HandSteps DEF BotMoves
<1>9. ASSUME opportunity'.rev = D!Nothing, NEW f \in Values, Shows(f)'
      PROVE  f = D!Nothing
  <2>1. opportunity.rev = D!Nothing /\ \A r \in D!Revisions : ~(Proposed(r))
    <3>1. ASSUME NEW r \in D!Revisions, Proposed(r)
          PROVE  opportunity'.rev = r
      BY <3>1 DEF Proposed
    <3> QED
      BY <1>4, <1>9, <3>1, OpportunitySteps, KeyFacts DEF OpportunityMoves, Deletes
  <2> QED
    BY <1>3, <1>9, <2>1, ShowsFlow
<1>10. ASSUME confirmed' >= 0, ~overtaken', NEW f \in Values, Shows(f)', f # D!Nothing,
              f <= confirmed'
       PROVE  opportunity'.rev <= confirmed'
  <2>1. CASE D!Confirm
    <3>1. confirmed' = posted /\ UNCHANGED <<posted, fetched, opportunity>>
      BY <2>1 DEF D!Confirm, D!telegram, D!owned
    <3> QED
      BY <3>1, Numbers
  <2>2. CASE UNCHANGED confirmed
    <3>1. ~overtaken /\ confirmed >= 0 /\ f <= confirmed
      BY <1>10, <2>2, OvertakenStays
    <3>2. CASE Proposed(f)
      <4>1. opportunity'.rev = f
        BY <3>2 DEF Proposed
      <4> QED
        BY <2>2, <3>1, <4>1
    <3>3. CASE Shows(f)
      <4>1. opportunity.rev <= confirmed /\ opportunity.rev # D!Nothing
        BY <1>3, <1>10, <3>1, <3>3
      <4>2. CASE opportunity'.rev = opportunity.rev
        BY <2>2, <4>1, <4>2
      <4>3. ASSUME NEW r \in D!Revisions, AcceptedHere(r), opportunity'.rev = r
            PROVE  r <= confirmed
        <5>1. ~(r > request.boundary /\ r > confirmed)
          BY <1>10, <3>1, <4>1, <4>3 DEF AcceptedHere
        <5>2. r \in Nat /\ r # 0 /\ confirmed \in Int
          BY Numbers, KeyFacts
        <5> QED
          BY <1>3, <5>1, <5>2
      <4>4. ASSUME NEW r \in D!Revisions, Proposed(r), opportunity'.rev = r
            PROVE  r = opportunity.rev
        <5>1. r <= opportunity.rev /\ opportunity.rev <= r
          BY <4>1, <4>4 DEF InOrder, Proposed
        <5> QED
          BY <5>1, Numbers
      <4> QED
        BY <1>4, <2>2, <4>1, <4>2, <4>3, <4>4, OpportunitySteps DEF OpportunityMoves, Deletes
    <3> QED
      BY <1>10, <3>2, <3>3, ShowsFlow
  <2> QED
    BY <1>1, <2>1, <2>2, Moves DEF Moved
<1> QED
  BY <1>2, <1>3, <1>5, <1>6, <1>7, <1>8, <1>9, <1>10 DEF Untouched
-----------------------------------------------------------------------------
(* From then on what anybody has from before the boundary is targeted; and *)
(* unless history says so, the Opportunity is a target when anything that  *)
(* is published is, and has not moved on with it.                          *)
Bounded ==
    Asked =>
        /\ \A f \in Values : Has(f) /\ f \in D!Before => f \in Targeted
        /\ \A r \in D!Before \cap D!Revisions :
               contracts[<<"event", r>>].state # "none" => Targeted # {}
        /\ ~overtaken =>
            /\ \A f \in Targeted : Shows(f) => targets.opportunity
            /\ opportunity.facts \in Targeted => opportunity.rev \in D!Before

(* Nothing of a barred revision enters.                                    *)
LEMMA BarredOut ==
    ASSUME D!DeletionAssumption, Typed, Bounded, Asked, [D!Next]_(D!vars)
    PROVE  /\ \A f \in D!Revisions : D!AcceptEvent(f) /\ AcceptedHere(f) => f > request.boundary
           /\ \A f \in D!Revisions : Proposed(f) => f \notin Targeted
           /\ D!Record /\ ~D!AuthorBarred(fetched + 1) => fetched + 1 > request.boundary
<1>1. ASSUME NEW f \in D!Revisions, D!AcceptEvent(f), AcceptedHere(f)
      PROVE  f > request.boundary
  <2>1. f \in Nat /\ f # 0 /\ request.boundary \in Nat
    BY Numbers, KeyFacts
  <2>2. contracts[<<"event", f>>].state = "pending"
    BY <1>1, EventEffect
  <2>3. f <= request.boundary => f \in D!Before \cap D!Revisions
    BY <2>1 DEF D!Before
  <2>4. f <= request.boundary => Targeted # {}
    BY <2>2, <2>3 DEF Bounded
  <2> QED
    BY <1>1, <2>1, <2>4 DEF AcceptedHere, D!EventBarred, Targeted
<1>2. ASSUME NEW f \in D!Revisions, Proposed(f)
      PROVE  f \notin Targeted
  BY <1>2, Numbers DEF Proposed, D!Barred, Targeted
<1>3. ASSUME D!Record, ~D!AuthorBarred(fetched + 1)
      PROVE  fetched + 1 > request.boundary
  <2>1. ~(fetched + 1 <= request.boundary)
    BY <1>3 DEF D!AuthorBarred, Asked
  <2>2. fetched \in Nat /\ request.boundary \in Nat
    BY Numbers
  <2> QED
    BY <2>1, <2>2
<1> QED
  BY <1>1, <1>2, <1>3

(* An edit from after the boundary of an Opportunity from before it.       *)
LEMMA Overtakes ==
    ASSUME D!DeletionAssumption,
           Typed, Bounded, Asked, [D!Next]_(D!vars), NEW r \in D!Revisions, D!AcceptEvent(r),
           AcceptedHere(r), opportunity.rev # D!Nothing, opportunity.rev \in D!Before
    PROVE  overtaken'
<1>1. r > request.boundary
  BY BarredOut
<1>2. opportunity.rev <= request.boundary
  BY Numbers DEF D!Before
<1> QED
  BY <1>1, <1>2 DEF AcceptedHere

(* No step brings back what is from before the boundary.                   *)
LEMMA BoundedKept ==
    ASSUME D!DeletionAssumption,
           Typed, CarriesOwn, InOrder, Known, Untouched, Bounded, [D!Next]_(D!vars)
    PROVE  Bounded'
<1> SUFFICES ASSUME Asked'
             PROVE  Bounded'
  BY DEF Bounded
<1> DEFINE A == \A f \in Values : Has(f)' /\ f \in D!Before' => f \in Targeted'
           B == \A r \in D!Before' \cap D!Revisions :
                    contracts'[<<"event", r>>].state # "none" => Targeted' # {}
           C == \A f \in Targeted' : Shows(f)' => targets'.opportunity
           M == opportunity'.facts \in Targeted' => opportunity'.rev \in D!Before'
<1>1. CASE D!Begin /\ ~Asked
  <2>1. /\ confirmed \in 0..posted
        /\ UNCHANGED <<D!telegram, D!owned, searches, hand, overtaken>>
        /\ \A r \in D!Revisions :
               contracts'[<<"event", r>>].state = contracts[<<"event", r>>].state
        /\ \A f : f # D!Nothing => (Shows(f)' => Shows(f)) /\ (Has(f)' => Has(f))
    BY <1>1, BeginEffect
  <2>2. request.attempt = 0
    BY <1>1, Numbers DEF Asked
  <2>3. /\ D!Before' = 1..confirmed
        /\ Targeted' = (records \cup accepted) \cap (1..confirmed)
        /\ targets'.opportunity <=> opportunity.rev \in Targeted'
    BY <1>1, <2>2, BeginFirst DEF D!Before
  <2>4. /\ 1..fetched \subseteq records
        /\ opportunity.rev = D!Nothing => \A f \in Values : Shows(f) => f = D!Nothing
        /\ confirmed >= 0 /\ ~overtaken =>
               \A f \in Values : Shows(f) /\ f # D!Nothing /\ f <= confirmed =>
                                     opportunity.rev <= confirmed
    BY <1>1 DEF Untouched
  <2>5. /\ confirmed \in Nat /\ fetched \in Nat /\ D!Nothing = 0 /\ Values \subseteq Nat
        /\ opportunity.rev \in Nat /\ D!Revisions \subseteq Nat /\ MaxRevision \in Nat
    BY <2>1, Numbers
  <2>6. ASSUME NEW f \in Values, Has(f), f \in 1..confirmed
        PROVE  f \in Targeted'
    <3>1. f <= fetched
      BY <2>6 DEF Known
    <3>2. f \in 1..fetched
      BY <2>5, <2>6, <3>1
    <3> QED
      BY <2>3, <2>4, <2>6, <3>2
  <2>7. A
    <3>1. \A f \in 1..confirmed : f # D!Nothing
      BY <2>5
    <3> QED
      BY <2>1, <2>3, <2>6, <3>1
  <2>8. B
    <3> SUFFICES ASSUME NEW r \in D!Before' \cap D!Revisions,
                        contracts'[<<"event", r>>].state # "none"
                 PROVE  Targeted' # {}
      OBVIOUS
    <3>1. r \in 1..confirmed /\ r \in D!Revisions
      BY <2>3
    <3>2. ~(r > fetched)
      BY <2>1, <3>1 DEF CarriesOwn
    <3>3. r \in 1..fetched
      BY <2>5, <3>1, <3>2
    <3> QED
      BY <2>3, <2>4, <3>1, <3>3
  <2>9. ASSUME ~overtaken, NEW f \in 1..confirmed, f \in Values, Shows(f)
        PROVE  /\ opportunity.rev \in 1..confirmed /\ opportunity.rev \in Targeted'
    <3>1. f # D!Nothing /\ f <= confirmed
      BY <2>5
    <3>2. opportunity.rev <= confirmed /\ opportunity.rev # D!Nothing
      BY <2>4, <2>5, <2>9, <3>1
    <3>3. opportunity.rev \in 1..confirmed
      BY <2>5, <3>2
    <3> QED
      BY <2>3, <3>2, <3>3 DEF InOrder
  <2>10. Targeted' \subseteq 1..confirmed /\ Targeted' \subseteq Values
    <3>1. records \cup accepted \subseteq 1..fetched /\ fetched \in 0..posted
          /\ posted \in 0..MaxRevision /\ MaxRevision \in Nat
      BY KeyFacts DEF Typed, ProtocolTyped, OwnedTyped, Values
    <3>2. 1..fetched \subseteq 0..MaxRevision
      BY <3>1
    <3> QED
      BY <2>3, <3>1, <3>2 DEF Values
  <2>11. ~overtaken' => C
    <3>1. \A f \in Targeted' : f # D!Nothing
      BY <2>5, <2>10
    <3> QED
      BY <2>1, <2>3, <2>9, <2>10, <3>1
  <2>12. ~overtaken' => M
    <3>1. Shows(opportunity.facts)
      BY DEF Shows
    <3>2. UNCHANGED opportunity
      BY <2>1 DEF D!owned
    <3> QED
      BY <2>1, <2>3, <2>9, <2>10, <3>1, <3>2
  <2> QED
    BY <2>7, <2>8, <2>11, <2>12 DEF Bounded
<1>2. CASE D!Begin /\ Asked
  <2>1. /\ UNCHANGED <<D!telegram, D!owned, searches, hand, overtaken>>
        /\ \A r \in D!Revisions :
               contracts'[<<"event", r>>].state = contracts[<<"event", r>>].state
        /\ \A f : f # D!Nothing => (Shows(f)' => Shows(f)) /\ (Has(f)' => Has(f))
    BY <1>2, BeginEffect
  <2>2. /\ D!Before' = D!Before /\ Targeted' = Targeted
        /\ targets'.opportunity = targets.opportunity /\ UNCHANGED opportunity
    BY <1>2, <2>1, BeginAgain DEF D!Before, Asked, D!owned
  <2>3. (\A f \in D!Before : f # D!Nothing) /\ (\A f \in Targeted : f # D!Nothing)
    BY Numbers DEF D!Before
  <2> QED
    BY <1>2, <2>1, <2>2, <2>3 DEF Bounded
<1>3. CASE ~D!Begin
  <2>1. /\ Asked /\ D!Before' = D!Before /\ Targeted' = Targeted
        /\ targets'.opportunity = targets.opportunity
    BY <1>3, Standing DEF Asked, D!Before
  <2>2. (\A f \in D!Before : f # D!Nothing /\ ~(f > request.boundary))
        /\ (\A f \in Targeted : f # D!Nothing /\ ~(f > request.boundary))
    BY Numbers DEF D!Before
  <2>3. A
    <3> SUFFICES ASSUME NEW f \in Values, Has(f)', f \in D!Before
                 PROVE  f \in Targeted
      BY <2>1
    <3>1. CASE Has(f)
      BY <2>1, <3>1 DEF Bounded
    <3>2. CASE D!Record /\ ~D!AuthorBarred(f) /\ f = fetched + 1
      BY <2>1, <2>2, <3>2, BarredOut
    <3>3. CASE f \in D!Revisions /\ D!AcceptEvent(f) /\ AcceptedHere(f)
      BY <2>1, <2>2, <3>3, BarredOut
    <3> QED
      BY <2>2, <3>1, <3>2, <3>3, HasFlow
  <2>4. B
    <3> SUFFICES ASSUME NEW r \in D!Before \cap D!Revisions,
                        contracts'[<<"event", r>>].state # "none"
                 PROVE  Targeted # {}
      BY <2>1
    <3>1. EventMoves(r)
      BY RowSteps DEF RowsMove
    <3>2. ~(D!Record /\ r = fetched + 1 /\ ~D!AuthorBarred(r))
      BY <2>1, <2>2, BarredOut
    <3>3. D!AcceptEvent(r) => contracts[<<"event", r>>].state = "pending"
      BY EventEffect
    <3>4. contracts[<<"event", r>>].state # "none"
      BY <3>1, <3>2, <3>3 DEF EventMoves
    <3> QED
      BY <2>1, <3>4 DEF Bounded
  <2>5. ~overtaken' => ~overtaken
    BY OvertakenStays
  <2>6. ASSUME ~overtaken'
        PROVE  C
    <3> SUFFICES ASSUME NEW f \in Targeted, Shows(f)'
                 PROVE  targets.opportunity
      BY <2>1
    <3>1. ~(f \in D!Revisions /\ Proposed(f))
      BY <2>1, BarredOut
    <3>2. Shows(f)
      BY <2>2, <3>1, ShowsFlow
    <3> QED
      BY <2>1, <2>5, <2>6, <3>2 DEF Bounded
  <2>7. ASSUME ~overtaken', opportunity'.facts \in Targeted
        PROVE  opportunity'.rev \in D!Before
    <3>1. opportunity.facts \in Targeted => opportunity.rev \in D!Before
      BY <2>1, <2>5, <2>7 DEF Bounded
    <3>2. ASSUME NEW r \in D!Revisions, D!AcceptEvent(r), AcceptedHere(r),
                 opportunity.rev # D!Nothing
          PROVE  opportunity.rev \notin D!Before
      BY <2>1, <2>7, <3>2, Overtakes
    <3>3. opportunity'.facts # D!Nothing
      BY <2>2, <2>7
    <3>4. \A r \in D!Revisions : Proposed(r) => r \notin Targeted
      BY <2>1, BarredOut
    <3> QED
      BY <2>7, <3>1, <3>2, <3>3, <3>4, OpportunitySteps DEF OpportunityMoves
  <2> QED
    BY <2>1, <2>3, <2>4, <2>6, <2>7 DEF Bounded
<1> QED
  BY <1>1, <1>2, <1>3
-----------------------------------------------------------------------------
(* What is from after the boundary is not taken.                           *)
LEMMA LaterStep ==
    ASSUME D!DeletionAssumption, Typed, CarriesOwn, Untouched, D!LaterKept, [D!Next]_(D!vars)
    PROVE  D!LaterKept'
<1>1. CASE D!Begin
  <2>1. /\ UNCHANGED <<D!telegram, D!owned>> /\ confirmed \in 0..posted
        /\ \A r \in D!Revisions :
               contracts'[<<"event", r>>].state = contracts[<<"event", r>>].state
    BY <1>1, BeginEffect
  <2>2. request.boundary <= request'.boundary
    <3>1. CASE request.attempt = 0
      <4>1. request'.boundary = confirmed /\ request.boundary = 0
        BY <1>1, <3>1, BeginFirst DEF Untouched, Asked
      <4> QED
        BY <2>1, <4>1, Numbers
    <3>2. CASE request.attempt # 0
      BY <1>1, <3>2, BeginAgain, Numbers
    <3> QED
      BY <3>1, <3>2
  <2>3. request'.boundary \in Nat /\ request.boundary \in Nat
    <3>1. \/ request'.boundary = confirmed
          \/ request'.boundary = request.boundary
      BY <1>1, BeginFirst, BeginAgain
    <3> QED
      BY <2>1, <3>1, Numbers
  <2>4. \A r \in D!Revisions : r > request'.boundary => r > request.boundary
    BY <2>2, <2>3, Numbers
  <2> QED
    BY <2>1, <2>4 DEF D!LaterKept, D!telegram, D!owned
<1>2. CASE ~D!Begin
  <2>1. /\ request'.boundary = request.boundary
        /\ \A r \in Targeted : ~(r > request.boundary)
    BY <1>2, Standing, Numbers
  <2> SUFFICES ASSUME NEW r \in D!Revisions, r > request.boundary
               PROVE  /\ r <= fetched' => r \in records'
                      /\ contracts'[<<"event", r>>].state = "settled" => r \in accepted'
    BY <2>1 DEF D!LaterKept
  <2>2. r \notin Targeted /\ ~(r <= request.boundary)
    BY <2>1, Numbers
  <2>3. /\ r \in records => r \in records'
        /\ r \in accepted => r \in accepted'
    BY <2>2, SetSteps DEF SetsMove
  <2>4. ASSUME r <= fetched'
        PROVE  r \in records'
    <3>1. CASE r <= fetched
      BY <2>3, <3>1 DEF D!LaterKept
    <3>2. CASE D!Record /\ r = fetched + 1
      BY <2>2, <3>2 DEF D!Record, D!AuthorBarred
    <3> QED
      BY <2>4, <3>1, <3>2, Numbers
  <2>5. ASSUME contracts'[<<"event", r>>].state = "settled"
        PROVE  r \in accepted'
    <3>1. CASE D!AcceptEvent(r)
      <4>1. ~D!EventBarred(r) /\ ~D!AuthorBarred(r)
        BY <2>2 DEF D!EventBarred, D!AuthorBarred
      <4>2. AcceptedHere(r)
        BY <3>1, <4>1, EventEffect
      <4> QED
        BY <4>2 DEF AcceptedHere
    <3>2. CASE contracts[<<"event", r>>].state = "settled"
      BY <2>3, <3>2 DEF D!LaterKept
    <3>3. EventMoves(r)
      BY RowSteps DEF RowsMove
    <3> QED
      BY <2>5, <3>1, <3>2, <3>3 DEF EventMoves
  <2> QED
    BY <2>4, <2>5
<1> QED
  BY <1>1, <1>2
-----------------------------------------------------------------------------
(* A publication that nobody can parse any more.                           *)
Torn(k) == k[1] \in D!Publications /\ ~contracts[k].whole

(* An owner has suppressed what is targeted, or deleted it.                *)
Hidden(o) ==
    /\ \A k \in D!Outbox(o), r \in D!Revisions :
           contracts[<<k, r>>].facts \in Targeted => Torn(<<k, r>>)
    /\ o = "recommendation" =>
           \A r \in D!Revisions : projection[r].facts \in Targeted => ~projection[r].active

Cleared(o) ==
    /\ o = "ingestion" => records \cap Targeted = {}
    /\ o = "application" => accepted \cap Targeted = {} /\ opportunity.facts \notin Targeted
    /\ o = "classification" => attempts \cap Targeted = {}
    /\ o = "recommendation" =>
           /\ \A r \in D!Revisions : projection[r].facts \notin Targeted
           /\ rec.facts \notin Targeted /\ rec.cards \cap Targeted = {}
           /\ \A s \in Searches : /\ searches[s].results \cap Targeted = {}
                                  /\ searches[s].inputs \cap Targeted = {}

(* What the commands, the events and the acks say.                         *)
Over == \/ \E e \in orders : e.name \in {"delete", "deleted"}
        \/ \E p \in D!Owners : acks[p].deletion = "completed"
SaysHidden(o) == \/ acks[o].suppression = "completed"
                 \/ \E e \in orders : e.name = "suppressed" /\ e.owner = o
                 \/ Over
SaysCleared(o) == \/ acks[o].deletion = "completed"
                  \/ \E e \in orders : e.name = "deleted" /\ e.owner = o

(* It is so, unless history says otherwise; and Recommendation shows       *)
(* nothing targeted of an Opportunity that is not from before the boundary.*)
Promised ==
    Asked /\ ~overtaken =>
        /\ \A o \in D!Owners : SaysHidden(o) => Hidden(o)
        /\ \A o \in D!Owners : SaysCleared(o) => Cleared(o)
        /\ opportunity.rev \notin D!Before => Hidden("recommendation")

(* Nothing targeted comes into a row of the outbox, or back into one.      *)
LEMMA RowsStayClean ==
    ASSUME D!DeletionAssumption,
           Typed, CarriesOwn, Bounded, Asked, [D!Next]_(D!vars), ~overtaken', NEW k \in Keys,
           contracts'[k].facts \in Targeted
    PROVE  contracts[k].facts \in Targeted /\ (Torn(k) => Torn(k)')
<1>1. Enters(k)
  BY RowSteps DEF RowsMove
<1>2. \A f \in Targeted : f # D!Nothing /\ ~(f > request.boundary)
  BY Numbers
<1>3. ASSUME NEW r \in D!Revisions, D!AcceptEvent(r), AcceptedHere(r),
             \/ k = <<"classify", r>>
             \/ k = <<"supersession", r>> /\ opportunity.rev # D!Nothing
      PROVE  FALSE
  <2>1. r \notin Targeted
    BY <1>2, <1>3, BarredOut
  <2>2. k = <<"supersession", r>> /\ opportunity.facts \in Targeted
    BY <1>3, <2>1 DEF AcceptedHere
  <2>3. ~overtaken
    BY OvertakenStays
  <2>4. opportunity.rev \in D!Before
    BY <2>2, <2>3 DEF Bounded
  <2> QED
    BY <1>3, <2>2, <2>4, Overtakes
<1>4. ASSUME ~D!Barred(cls.id), contracts'[k].facts = cls.id
      PROVE  FALSE
  BY <1>4, <1>2, Numbers DEF D!Barred, Targeted
<1>5. ASSUME NEW r \in D!Revisions, Proposed(r), contracts'[k].facts = r
      PROVE  FALSE
  BY <1>5, BarredOut
<1>6. ASSUME D!Record, ~D!AuthorBarred(fetched + 1), contracts'[k].facts = fetched + 1
      PROVE  FALSE
  BY <1>2, <1>6, BarredOut
<1> QED
  BY <1>1, <1>2, <1>3, <1>4, <1>5, <1>6 DEF Enters, Torn

(* After the first beginning the targets stand.                            *)
LEMMA TargetsStand ==
    ASSUME D!DeletionAssumption, Typed, CarriesOwn, Asked, [D!Next]_(D!vars)
    PROVE  /\ Targeted' = Targeted /\ D!Before' = D!Before /\ Asked'
           /\ targets'.opportunity = targets.opportunity
  BY Standing, BeginAgain, BeginEffect DEF Asked, D!Before

(* What is suppressed stays so.                                            *)
LEMMA HiddenKept ==
    ASSUME D!DeletionAssumption,
           Typed, CarriesOwn, Bounded, Asked, [D!Next]_(D!vars), ~overtaken', NEW o \in D!Owners,
           Hidden(o)
    PROVE  Hidden(o)'
<1>1. Targeted' = Targeted
  BY TargetsStand
<1>2. ASSUME NEW k \in D!Outbox(o), NEW r \in D!Revisions
      PROVE  contracts'[<<k, r>>].facts \in Targeted => Torn(<<k, r>>)'
  <2>1. <<k, r>> \in Keys
    BY <1>2, KeyFacts DEF D!Outbox, D!Publications
  <2> QED
    BY <2>1, RowsStayClean DEF Hidden
<1>3. ASSUME o = "recommendation", NEW r \in D!Revisions, projection'[r].facts \in Targeted
      PROVE  ~projection'[r].active
  <2>1. ViewMoves(r)
    BY ProjectionSteps
  <2>2. projection'[r].facts # D!Nothing
    BY <1>3, Numbers
  <2>3. CASE rec.what = "publication" /\ r = rec.id /\ projection'[r].facts = rec.facts
    <3>1. r \in Targeted
      BY <1>3, <2>3 DEF CarriesOwn
    <3>2. D!Barred(r)
      BY <3>1, Numbers DEF D!Barred, Targeted
    <3> QED
      BY <1>3, <2>1, <2>2, <3>2 DEF ViewMoves, Hidden
  <2> QED
    BY <1>3, <2>1, <2>2, <2>3 DEF ViewMoves, Hidden
<1> QED
  BY <1>1, <1>2, <1>3 DEF Hidden

(* And what is deleted, when the Application has nothing to publish.       *)
LEMMA ClearedKept ==
    ASSUME D!DeletionAssumption,
           Typed, CarriesOwn, Bounded, Asked, [D!Next]_(D!vars), ~overtaken', NEW o \in D!Owners,
           Cleared(o), Hidden("application")
    PROVE  Cleared(o)'
<1>1. Targeted' = Targeted
  BY TargetsStand
<1>2. \A f \in Targeted : f # D!Nothing /\ ~(f > request.boundary)
  BY Numbers
<1>3. SetsMove
  BY SetSteps
<1>4. CASE o = "ingestion"
  <2>1. ASSUME NEW f \in records', f \in Targeted
        PROVE  f \in records
    BY <1>2, <1>3, <2>1, BarredOut DEF SetsMove
  <2> QED
    BY <1>1, <1>4, <2>1 DEF Cleared
<1>5. CASE o = "application"
  <2>1. ASSUME NEW f \in accepted', f \in Targeted
        PROVE  f \in accepted
    BY <1>2, <1>3, <2>1, BarredOut DEF SetsMove
  <2>2. opportunity'.facts \notin Targeted
    <3>1. \A r \in D!Revisions : Proposed(r) => r \notin Targeted
      BY BarredOut
    <3> QED
      BY <1>2, <1>5, <3>1, OpportunitySteps DEF OpportunityMoves, Cleared
  <2> QED
    BY <1>1, <1>5, <2>1, <2>2 DEF Cleared
<1>6. CASE o = "classification"
  <2>1. ASSUME NEW f \in attempts', f \in Targeted
        PROVE  f \in attempts
    <3>1. D!Barred(f)
      BY <2>1, Numbers DEF D!Barred, Targeted
    <3> QED
      BY <1>3, <2>1, <3>1 DEF SetsMove
  <2> QED
    BY <1>1, <1>6, <2>1 DEF Cleared
<1>7. CASE o = "recommendation"
  <2>1. /\ \A r \in D!Revisions : projection[r].facts \notin Targeted
        /\ rec.facts \notin Targeted /\ rec.cards \cap Targeted = {}
        /\ \A s \in Searches : /\ searches[s].results \cap Targeted = {}
                               /\ searches[s].inputs \cap Targeted = {}
    BY <1>7 DEF Cleared
  <2>2. ASSUME NEW r \in D!Revisions
        PROVE  projection'[r].facts \notin Targeted
    <3>1. ViewMoves(r)
      BY ProjectionSteps
    <3> QED
      BY <1>2, <2>1, <3>1 DEF ViewMoves
  <2>3. rec'.facts \notin Targeted /\ rec'.cards \cap Targeted = {}
    <3>1. CASE rec' \in {rec, D!Idle}
      BY <1>2, <2>1, <3>1 DEF D!Idle
    <3>2. ASSUME NEW k \in D!Publications, NEW r \in D!Revisions, Takes(k, r)
          PROVE  rec'.facts \notin Targeted /\ rec'.cards \cap Targeted = {}
      <4>1. contracts[<<k, r>>].facts \notin Targeted
        BY <3>2 DEF Hidden, D!Outbox, Takes, Torn
      <4> QED
        BY <3>2, <4>1 DEF Takes
    <3>3. ASSUME NEW s \in Searches, Evaluates(s)
          PROVE  rec'.facts \notin Targeted /\ rec'.cards \cap Targeted = {}
      <4>1. projection[D!Latest].facts \notin Targeted
        BY <2>1, <3>3, LatestIsRow DEF Evaluates, D!Visible
      <4> QED
        BY <3>3, <4>1 DEF Evaluates
    <3> QED
      BY <3>1, <3>2, <3>3, HandSteps DEF RecMoves
  <2>4. ASSUME NEW s \in Searches
        PROVE  /\ searches'[s].results \cap Targeted = {}
               /\ searches'[s].inputs \cap Targeted = {}
    <3>1. SearchMoves(s)
      BY SearchSteps
    <3> QED
      BY <2>1, <3>1 DEF SearchMoves, Lessens, Completes, Disposes, Replies
  <2> QED
    BY <1>1, <1>7, <2>2, <2>3, <2>4 DEF Cleared
<1> QED
  BY <1>4, <1>5, <1>6, <1>7 DEF D!Owners, Cleared

(* What a suppression does, and a deletion.                                *)
LEMMA SuppressEffect ==
    ASSUME D!DeletionAssumption,
           Typed, CarriesOwn, Bounded, Asked, ~overtaken, [D!Next]_(D!vars),
           NEW c \in orders, D!Execute(c), c.name = "suppress"
    PROVE  Hidden(c.owner)'
<1>1. /\ contracts' = D!Scrubbed(c.owner) /\ UNCHANGED targets
      /\ projection' = IF c.owner = "recommendation" /\ targets.opportunity
                       THEN [r \in D!Revisions |-> [projection[r] EXCEPT !.active = FALSE]]
                       ELSE projection
  BY DEF D!Execute, D!Suppressed
<1>2. /\ contracts \in [Keys -> RowType] /\ projection \in [D!Revisions -> ViewType]
      /\ \A f \in Targeted : f # D!Nothing
  BY Numbers DEF Typed, OwnedTyped
<1>3. IsWithout(contracts', contracts, D!Outbox(c.owner), targets.revisions,
                c.owner = "application" /\ targets.opportunity)
  BY <1>1, <1>2, ScrubbedRows DEF D!Scrubbed
<1>4. \A f \in Targeted : Shows(f) => targets.opportunity
  BY DEF Bounded
<1>5. ASSUME NEW k \in D!Outbox(c.owner), NEW r \in D!Revisions,
             contracts'[<<k, r>>].facts \in Targeted, ~Torn(<<k, r>>)'
      PROVE  FALSE
  <2>1. <<k, r>> \in Keys /\ k \in D!Kinds
    BY KeyFacts DEF D!Outbox, D!Publications
  <2>2. /\ ~D!Hit(<<k, r>>, D!Outbox(c.owner), targets.revisions,
                  c.owner = "application" /\ targets.opportunity)
        /\ contracts[<<k, r>>].facts \in Targeted
    BY <1>2, <1>3, <1>5, <2>1 DEF IsWithout, Torn
  <2>3. /\ r \notin Targeted
        /\ ~(c.owner = "application" /\ targets.opportunity /\ k \in D!Publications)
    BY <2>2 DEF D!Hit, Targeted
  <2>4. k = "supersession"
    BY <1>2, <2>1, <2>2, <2>3 DEF CarriesOwn
  <2>5. c.owner = "application" /\ k \in D!Publications
    BY <2>4 DEF D!Outbox, D!Publications
  <2>6. Shows(contracts[<<k, r>>].facts)
    BY <2>5 DEF Shows
  <2> QED
    BY <1>4, <2>2, <2>3, <2>5, <2>6
<1>6. ASSUME c.owner = "recommendation", NEW r \in D!Revisions, projection'[r].facts \in Targeted
      PROVE  ~projection'[r].active
  <2>1. CASE targets.opportunity
    <3>1. projection' = [x \in D!Revisions |-> [projection[x] EXCEPT !.active = FALSE]]
      BY <1>1, <1>6, <2>1
    <3> QED
      BY <1>2, <3>1 DEF ViewType
  <2>2. CASE ~targets.opportunity
    <3>1. Shows(projection'[r].facts)
      BY <1>1, <2>2 DEF Shows
    <3> QED
      BY <1>4, <1>6, <2>2, <3>1
  <2> QED
    BY <2>1, <2>2
<1>7. Targeted' = Targeted
  BY <1>1 DEF Targeted
<1> QED
  BY <1>5, <1>6, <1>7 DEF Hidden

(* A deletion leaves its owner nothing targeted.                           *)
LEMMA DeleteEffect ==
    ASSUME D!DeletionAssumption,
           Typed, CarriesOwn, Bounded, Asked, ~overtaken, [D!Next]_(D!vars),
           NEW c \in orders, D!Execute(c), c.name = "delete"
    PROVE  Cleared(c.owner)'
<1>1. PICK list :
          /\ D!Free(c.owner) /\ UNCHANGED <<targets, hand>>
          /\ records'  = IF c.owner = "ingestion" THEN records \ targets.revisions ELSE records
          /\ attempts' = IF c.owner = "classification" THEN attempts \ targets.revisions
                         ELSE attempts
          /\ accepted' = IF c.owner = "application" THEN accepted \ targets.revisions
                         ELSE accepted
          /\ opportunity' = IF c.owner = "application"
                               /\ (targets.opportunity \/ opportunity.rev \in targets.revisions)
                            THEN D!NoOpp ELSE opportunity
          /\ projection' = IF c.owner = "recommendation" /\ targets.opportunity
                           THEN [r \in D!Revisions |-> D!NoRow] ELSE projection
          /\ searches' = CASE c.owner = "recommendation" /\ targets.opportunity ->
                                  [s \in Searches |-> [searches[s] EXCEPT !.results = {},
                                                                          !.inputs = {}]]
                           [] c.owner = "bot_assistant" -> D!Cleaned(list)
                           [] OTHER -> searches
  BY DEF D!Execute, D!Deleted
<1>2. /\ \A f \in Targeted : f # D!Nothing
      /\ \A f \in Targeted : Shows(f) => targets.opportunity
  BY Numbers DEF Bounded
<1>3. Targeted' = Targeted
  BY <1>1 DEF Targeted
<1>4. CASE c.owner = "ingestion" \/ c.owner = "classification"
  BY <1>1, <1>3, <1>4 DEF Cleared, Targeted
<1>5. CASE c.owner = "application"
  <2>1. Shows(opportunity.facts)
    BY DEF Shows
  <2>2. opportunity'.facts \notin Targeted
    BY <1>1, <1>2, <1>5, <2>1 DEF D!NoOpp
  <2> QED
    BY <1>1, <1>3, <1>5, <2>2 DEF Cleared, Targeted
<1>6. CASE c.owner = "recommendation"
  <2>1. rec' = D!Idle
    <3>1. /\ hand \in [Workers -> HandType] /\ c.owner \in Workers
      BY <1>6, KeyFacts DEF Typed, OwnedTyped
    <3> QED
      BY <1>1, <1>6, <3>1 DEF D!Free, rec
  <2>2. rec'.facts \notin Targeted /\ rec'.cards \cap Targeted = {}
    BY <1>2, <2>1 DEF D!Idle
  <2>3. CASE targets.opportunity
    <3>1. /\ projection' = [r \in D!Revisions |-> D!NoRow]
          /\ searches' = [s \in Searches |-> [searches[s] EXCEPT !.results = {}, !.inputs = {}]]
          /\ searches \in [Searches -> SearchType]
      BY <1>1, <1>6, <2>3 DEF Typed, OwnedTyped
    <3>2. \A r \in D!Revisions : projection'[r].facts \notin Targeted
      BY <1>2, <3>1 DEF D!NoRow
    <3>3. \A s \in Searches : searches'[s].results = {} /\ searches'[s].inputs = {}
      BY <3>1 DEF SearchType
    <3> QED
      BY <1>3, <1>6, <2>2, <3>2, <3>3 DEF Cleared
  <2>4. CASE ~targets.opportunity
    <3>1. projection' = projection /\ searches' = searches
      BY <1>1, <1>6, <2>4
    <3>2. \A r \in D!Revisions : projection'[r].facts \notin Targeted
      BY <1>2, <2>4, <3>1 DEF Shows
    <3>3. \A s \in Searches : /\ searches'[s].results \cap Targeted = {}
                              /\ searches'[s].inputs \cap Targeted = {}
      BY <1>2, <2>4, <3>1 DEF Shows
    <3> QED
      BY <1>3, <1>6, <2>2, <3>2, <3>3 DEF Cleared
  <2> QED
    BY <2>3, <2>4
<1>7. CASE c.owner = "bot_assistant"
  BY <1>7 DEF Cleared
<1>8. c.owner \in D!Owners
  BY DEF Typed, ProtocolTyped, OrderType
<1> QED
  BY <1>4, <1>5, <1>6, <1>7, <1>8 DEF D!Owners
-----------------------------------------------------------------------------
Does(name, o) == \E c \in orders : D!Execute(c) /\ c.name = name /\ c.owner = o

(* What an execution says.                                                 *)
LEMMA ExecutionSays ==
    ASSUME Typed, NEW c \in orders, D!Execute(c)
    PROVE  /\ UNCHANGED acks
           /\ \A e \in orders' : e \in orders \/
                  /\ e.owner = c.owner
                  /\ \/ c.name = "suppress" /\ e.name = "suppressed"
                     \/ c.name = "delete" /\ e.name = "deleted"
<1>1. UNCHANGED acks /\ c.name \in D!Asks
      /\ \E list : orders' = (orders \ {c}) \cup
             {D!Command(IF c.name = "suppress" THEN "suppressed" ELSE "deleted",
                        c.owner, c.attempt, list)}
  BY DEF D!Execute
<1> QED
  BY <1>1 DEF D!Command, D!Asks

(* What an owner's answer says: a step ends with what its phase has said   *)
(* before, or with the answer.                                             *)
LEMMA AnswerSays ==
    ASSUME Typed, NEW e \in orders, D!OwnerEvent(e)
    PROVE  /\ \A o \in D!Owners :
                  /\ acks'[o].suppression = "completed" =>
                         \/ acks[o].suppression = "completed"
                         \/ e.name = "suppressed" /\ e.owner = o /\ e.attempt = request.attempt
                  /\ acks'[o].deletion = "completed" =>
                         \/ acks[o].deletion = "completed"
                         \/ e.name = "deleted" /\ e.owner = o /\ e.attempt = request.attempt
           /\ \A d \in orders' : d \in orders \/
                  /\ d.name = "delete" /\ e.attempt = request.attempt
                  /\ \A o \in D!Owners : \/ acks[o].suppression = "completed"
                                         \/ e.name = "suppressed" /\ e.owner = o
<1> DEFINE acks1 == CASE e.name = "suppressed" ->
                             [acks EXCEPT ![e.owner].suppression = "completed"]
                      [] e.name = "deleted" -> [acks EXCEPT ![e.owner].deletion = "completed"]
                      [] e.name = "suppression_failed" ->
                             [acks EXCEPT ![e.owner].suppression = "failed"]
                      [] OTHER -> [acks EXCEPT ![e.owner].deletion = "failed"]
           list  == IF e.name = "suppressed" /\ e.owner = "bot_assistant"
                    THEN e.searches ELSE targets.searches
           next  == IF e.name = "suppressed" /\ D!AllSuppressed(acks1)
                    THEN {D!Command("delete", o, e.attempt, list) : o \in D!Owners} ELSE {}
<1>1. /\ D!Stale(e) => orders' = orders \ {e} /\ UNCHANGED acks
      /\ ~D!Stale(e) => orders' = (orders \ {e}) \cup next /\ acks' = acks1
  BY Zenon DEF D!OwnerEvent
<1>2. acks \in [D!Owners -> AckType] /\ e.owner \in D!Owners
  BY DEF Typed, ProtocolTyped, OrderType
<1>3. \A o \in D!Owners :
          /\ acks1[o].suppression = "completed" =>
                 \/ acks[o].suppression = "completed"
                 \/ e.name = "suppressed" /\ e.owner = o
          /\ acks1[o].deletion = "completed" =>
                 \/ acks[o].deletion = "completed"
                 \/ e.name = "deleted" /\ e.owner = o
  <2>1. \A p : \A o \in D!Owners :
            /\ o # e.owner => /\ [acks EXCEPT ![e.owner].suppression = p][o] = acks[o]
                              /\ [acks EXCEPT ![e.owner].deletion = p][o] = acks[o]
            /\ [acks EXCEPT ![e.owner].suppression = p][o].deletion = acks[o].deletion
            /\ [acks EXCEPT ![e.owner].deletion = p][o].suppression = acks[o].suppression
            /\ [acks EXCEPT ![e.owner].suppression = p][e.owner].suppression = p
            /\ [acks EXCEPT ![e.owner].deletion = p][e.owner].deletion = p
    <3>1. \A p : \A o \in D!Owners :
              /\ [acks EXCEPT ![e.owner].suppression = p][o] =
                     IF o = e.owner THEN [acks[e.owner] EXCEPT !.suppression = p] ELSE acks[o]
              /\ [acks EXCEPT ![e.owner].deletion = p][o] =
                     IF o = e.owner THEN [acks[e.owner] EXCEPT !.deletion = p] ELSE acks[o]
      BY <1>2
    <3>2. \A p : /\ [acks[e.owner] EXCEPT !.suppression = p].suppression = p
                 /\ [acks[e.owner] EXCEPT !.suppression = p].deletion = acks[e.owner].deletion
                 /\ [acks[e.owner] EXCEPT !.deletion = p].deletion = p
                 /\ [acks[e.owner] EXCEPT !.deletion = p].suppression
                        = acks[e.owner].suppression
      BY <1>2 DEF AckType
    <3> QED
      BY <1>2, <3>1, <3>2
  <2>2. CASE e.name = "suppressed"
    <3>1. acks1 = [acks EXCEPT ![e.owner].suppression = "completed"]
      BY <2>2
    <3> HIDE DEF acks1
    <3> QED
      BY <2>1, <2>2, <3>1
  <2>3. CASE e.name = "deleted"
    <3>1. acks1 = [acks EXCEPT ![e.owner].deletion = "completed"]
      BY <2>3
    <3> HIDE DEF acks1
    <3> QED
      BY <2>1, <2>3, <3>1
  <2>4. CASE e.name \notin {"suppressed", "deleted"}
    <3>1. \/ acks1 = [acks EXCEPT ![e.owner].suppression = "failed"]
          \/ acks1 = [acks EXCEPT ![e.owner].deletion = "failed"]
      BY <2>4
    <3>2. CASE acks1 = [acks EXCEPT ![e.owner].suppression = "failed"]
      <4> HIDE DEF acks1
      <4> QED
        BY <2>1, <3>2
    <3>3. CASE acks1 = [acks EXCEPT ![e.owner].deletion = "failed"]
      <4> HIDE DEF acks1
      <4> QED
        BY <2>1, <3>3
    <3> QED
      BY <3>1, <3>2, <3>3
  <2> QED
    BY <2>2, <2>3, <2>4
<1>4. \A d \in next : d.name = "delete" /\ D!AllSuppressed(acks1)
  BY DEF D!Command
<1> HIDE DEF acks1, next
<1>5. D!Stale(e) <=> e.attempt # request.attempt
  BY DEF D!Stale
<1>6. CASE D!Stale(e)
  BY <1>1, <1>6
<1>7. CASE ~D!Stale(e)
  <2>1. orders' = (orders \ {e}) \cup next /\ acks' = acks1
    BY <1>1, <1>7
  <2> QED
    BY <1>3, <1>4, <1>5, <1>7, <2>1 DEF D!AllSuppressed
<1> QED
  BY <1>6, <1>7

(* What a beginning says: nothing.                                         *)
LEMMA BeginningSays ==
    ASSUME D!Begin
    PROVE  /\ acks' = [o \in D!Owners |-> D!Pending]
           /\ \A e \in orders' : e \in orders \/ e.name = "suppress"
  BY DEF D!Begin, D!Command

(* Nor does a failure.                                                     *)
LEMMA FailureSays ==
    ASSUME NEW c \in orders, D!Fail(c)
    PROVE  /\ UNCHANGED acks
           /\ \A e \in orders' : e \in orders \/ e.name \in {"suppression_failed", "deletion_failed"}
  BY DEF D!Fail, D!Failure, D!Command

(* What is said was said before, or is being done; or everything has been  *)
(* suppressed.                                                             *)
LEMMA Sayings ==
    ASSUME Typed, [D!Next]_(D!vars)
    PROVE  /\ \/ Over' => Over
              \/ \A o \in D!Owners : SaysHidden(o)
           /\ \A o \in D!Owners :
                  /\ SaysHidden(o)' => \/ SaysHidden(o) \/ Does("suppress", o)
                                       \/ Over' /\ \A p \in D!Owners : SaysHidden(p)
                  /\ SaysCleared(o)' => SaysCleared(o) \/ Does("delete", o)
<1>1. CASE D!Begin
  <2>1. /\ \A o \in D!Owners : /\ acks'[o].suppression # "completed"
                               /\ acks'[o].deletion # "completed"
        /\ \A e \in orders' : e \in orders \/ e.name = "suppress"
    BY <1>1, BeginningSays DEF D!Pending
  <2> QED
    BY <2>1 DEF Over, SaysHidden, SaysCleared
<1>2. CASE Executes
  <2>1. PICK c \in orders : D!Execute(c)
    BY <1>2 DEF Executes
  <2>2. /\ UNCHANGED acks
        /\ \A e \in orders' : e \in orders \/
               /\ e.owner = c.owner
               /\ \/ c.name = "suppress" /\ e.name = "suppressed"
                  \/ c.name = "delete" /\ e.name = "deleted"
    BY <2>1, ExecutionSays
  <2>3. Over' => Over
    BY <2>1, <2>2 DEF Over
  <2>4. ASSUME NEW o \in D!Owners
        PROVE  /\ SaysHidden(o)' => SaysHidden(o) \/ Does("suppress", o)
               /\ SaysCleared(o)' => SaysCleared(o) \/ Does("delete", o)
    BY <2>1, <2>2, <2>3 DEF SaysHidden, SaysCleared, Does
  <2> QED
    BY <2>3, <2>4
<1>3. CASE Fails
  <2>1. /\ UNCHANGED acks
        /\ \A e \in orders' : e \in orders \/ e.name \in {"suppression_failed", "deletion_failed"}
    BY <1>3, FailureSays DEF Fails
  <2> QED
    BY <2>1 DEF Over, SaysHidden, SaysCleared
<1>4. CASE Answered
  <2>1. PICK e \in orders : D!OwnerEvent(e)
    BY <1>4 DEF Answered
  <2>2. /\ \A o \in D!Owners :
               /\ acks'[o].suppression = "completed" =>
                      \/ acks[o].suppression = "completed"
                      \/ e.name = "suppressed" /\ e.owner = o
               /\ acks'[o].deletion = "completed" =>
                      \/ acks[o].deletion = "completed"
                      \/ e.name = "deleted" /\ e.owner = o
        /\ \A d \in orders' : d \in orders \/
               /\ d.name = "delete"
               /\ \A o \in D!Owners : \/ acks[o].suppression = "completed"
                                      \/ e.name = "suppressed" /\ e.owner = o
    BY <2>1, AnswerSays
  <2>3. CASE \A o \in D!Owners : SaysHidden(o)
    BY <2>1, <2>2, <2>3 DEF SaysCleared, SaysHidden, Over
  <2>4. CASE ~\A o \in D!Owners : SaysHidden(o)
    <3>1. \A d \in orders' : d \in orders
      BY <2>1, <2>2, <2>4 DEF SaysHidden
    <3>2. Over' => Over
      BY <2>1, <2>2, <3>1 DEF Over
    <3> QED
      BY <2>1, <2>2, <3>1, <3>2 DEF SaysCleared, SaysHidden
  <2> QED
    BY <2>3, <2>4
<1>5. CASE UNCHANGED <<orders, acks>>
  BY <1>5 DEF Over, SaysHidden, SaysCleared
<1> QED
  BY <1>1, <1>2, <1>3, <1>4, <1>5, Moves DEF Moved

(* Nothing is said of the targets when they are captured.                  *)
LEMMA NothingSaid ==
    ASSUME Typed, Untouched, ~Asked, D!Begin, [D!Next]_(D!vars), NEW o \in D!Owners
    PROVE  ~SaysHidden(o)' /\ ~SaysCleared(o)'
<1>1. /\ \A p \in D!Owners : acks'[p].suppression # "completed" /\ acks'[p].deletion # "completed"
      /\ \A e \in orders' : e \in orders \/ e.name = "suppress"
  BY BeginningSays DEF D!Pending
<1>2. orders = {}
  BY DEF Untouched
<1> QED
  BY <1>1, <1>2 DEF SaysHidden, SaysCleared, Over

(* What is said to be done is done, and stays so.                          *)
LEMMA PromisedKept ==
    ASSUME D!DeletionAssumption,
           Typed, CarriesOwn, InOrder, Untouched, Bounded, Promised, [D!Next]_(D!vars), Bounded',
           Typed'
    PROVE  Promised'
<1> SUFFICES ASSUME Asked', ~overtaken'
             PROVE  Promised'
  BY DEF Promised
<1>1. ~overtaken
  BY OvertakenStays
<1>2. CASE ~Asked
  <2>1. D!Begin
    BY <1>2, Standing DEF Asked
  <2>2. ASSUME opportunity'.rev \notin D!Before'
        PROVE  Hidden("recommendation")'
    <3>1. Targeted' \subseteq D!Before' /\ \A f \in Targeted' : Shows(f)' => targets'.opportunity
      BY DEF Bounded, D!Before, Targeted, Typed, ProtocolTyped
    <3>2. targets'.opportunity <=> opportunity.rev \in Targeted'
      BY <1>2, <2>1, BeginFirst, Numbers DEF Asked
    <3>3. opportunity' = opportunity
      BY <2>1, BeginEffect DEF D!owned
    <3>4. \A f \in Targeted' : ~Shows(f)'
      BY <2>2, <3>1, <3>2, <3>3
    <3> QED
      BY <3>4 DEF Hidden, Shows, D!Outbox
  <2> QED
    BY <1>2, <2>1, <2>2, NothingSaid DEF Promised
<1>3. CASE Asked
  <2>1. /\ \A o \in D!Owners : SaysHidden(o) => Hidden(o)
        /\ \A o \in D!Owners : SaysCleared(o) => Cleared(o)
        /\ opportunity.rev \notin D!Before => Hidden("recommendation")
    BY <1>1, <1>3 DEF Promised
  <2>2. ASSUME NEW o \in D!Owners, SaysHidden(o)'
        PROVE  Hidden(o)'
    <3>1. CASE Does("suppress", o)
      BY <1>1, <1>3, <3>1, SuppressEffect DEF Does
    <3>2. CASE SaysHidden(o)
      BY <1>3, <2>1, <3>2, HiddenKept
    <3> QED
      BY <2>2, <3>1, <3>2, Sayings
  <2>3. ASSUME NEW o \in D!Owners, SaysCleared(o)'
        PROVE  Cleared(o)'
    <3>1. CASE Does("delete", o)
      BY <1>1, <1>3, <3>1, DeleteEffect DEF Does
    <3>2. CASE SaysCleared(o)
      <4>1. "application" \in D!Owners
        BY DEF D!Owners
      <4>2. Hidden("application")
        BY <2>1, <3>2, <4>1 DEF SaysCleared, SaysHidden, Over
      <4> QED
        BY <1>3, <2>1, <3>2, <4>2, ClearedKept
    <3> QED
      BY <2>3, <3>1, <3>2, Sayings
  <2>4. ASSUME opportunity'.rev \notin D!Before'
        PROVE  Hidden("recommendation")'
    <3>1. "recommendation" \in D!Owners /\ D!Before' = D!Before
      BY <1>3, TargetsStand DEF D!Owners
    <3>2. Deletes => Hidden("recommendation")
      BY <2>1, <3>1 DEF Deletes, SaysHidden, Over
    <3>3. ASSUME NEW r \in D!Revisions, D!AcceptEvent(r), AcceptedHere(r),
                 opportunity.rev # D!Nothing
          PROVE  opportunity.rev \notin D!Before
      BY <1>3, <3>3, Overtakes
    <3>4. ASSUME NEW r \in D!Revisions, Proposed(r), opportunity'.rev = r
          PROVE  opportunity.rev \notin D!Before
      <4>1. CASE opportunity.rev = D!Nothing
        BY <4>1, Numbers DEF D!Before
      <4>2. CASE opportunity.rev # D!Nothing
        <5>1. r <= opportunity.rev /\ opportunity.rev <= r
          BY <3>4, <4>2 DEF InOrder, Proposed
        <5>2. r = opportunity.rev
          BY <5>1, Numbers
        <5> QED
          BY <2>4, <3>1, <3>4, <5>2
      <4> QED
        BY <4>1, <4>2
    <3>5. Hidden("recommendation")
      BY <2>1, <2>4, <3>1, <3>2, <3>3, <3>4, OpportunitySteps DEF OpportunityMoves, Deletes
    <3> QED
      BY <1>3, <3>1, <3>5, HiddenKept
  <2> QED
    BY <2>2, <2>3, <2>4 DEF Promised
<1> QED
  BY <1>2, <1>3

(* From the moment execution begins nothing targeted is found.             *)
LEMMA FindsNothing ==
    ASSUME D!DeletionAssumption,
           Typed, Bounded, Promised, Asked, ~overtaken, NEW s \in Searches, Evaluates(s)
    PROVE  rec'.cards \cap D!Before = {}
<1> SUFFICES ASSUME NEW f \in rec'.cards, f \in D!Before
             PROVE  FALSE
  OBVIOUS
<1>1. D!Found /\ f = projection[D!Latest].facts /\ D!Latest \in D!Revisions
  BY LatestIsRow DEF Evaluates, D!Visible
<1>2. projection[D!Latest].active /\ ~D!Barred(opportunity.rev)
  BY <1>1 DEF D!Found, D!FoundByState
<1>3. f \in Values
  BY <1>1 DEF Typed, OwnedTyped, ViewType
<1>4. f \in Targeted
  BY <1>1, <1>3 DEF Bounded, Has, Shows
<1>5. opportunity.rev \notin D!Before
  BY <1>2, <1>4 DEF D!Barred, Targeted, D!Before
<1>6. Hidden("recommendation")
  BY <1>5 DEF Promised
<1> QED
  BY <1>1, <1>2, <1>4, <1>6 DEF Hidden
-----------------------------------------------------------------------------
(* A command to Bot Assistant, or its answer, of the current attempt.      *)
OfBot(e, names) == /\ e.attempt = request.attempt /\ e.owner = "bot_assistant"
                   /\ e.name \in names
Screening == {"suppress", "suppressed"}

(* It was told of all the searches, and once.                              *)
OrdersInv ==
    /\ \A e \in orders : e.attempt <= request.attempt
    /\ \A e \in orders : OfBot(e, Screening) => targets.searches \subseteq e.searches
    /\ \A e, d \in orders : OfBot(e, Screening) /\ OfBot(d, Screening) => e = d

(* What is said of the screens.                                            *)
SaysClean == \/ acks["bot_assistant"].suppression = "completed"
             \/ acks["bot_assistant"].deletion = "completed"
             \/ \E e \in orders : OfBot(e, {"suppressed", "delete", "deleted"})
ShownClean == \A s \in Searches : searches[s].shown \cap Targeted # {} => s \in raced

(* A search that holds something targeted is raced or listed; so is what   *)
(* is on its way to one.                                                   *)
ScreenInv ==
    Asked /\ ~overtaken =>
        /\ \A s \in Searches :
               \/ searches[s].results \cap Targeted # {}
               \/ searches[s].shown \cap Targeted # {}
               => s \in raced \/ s \in targets.searches
        /\ rec.what = "search" /\ rec.cards \cap Targeted # {} => rec.id \in raced
        /\ bot.what = "read" /\ bot.cards \cap Targeted # {} =>
               bot.id \in raced \/ bot.id \in targets.searches
        /\ SaysClean => ShownClean

(* An owner's answer replaces what is listed by no less.                   *)
LEMMA AnswerLists ==
    ASSUME Typed, OrdersInv, NEW e \in orders, D!OwnerEvent(e)
    PROVE  /\ targets.searches \subseteq targets'.searches
           /\ \/ targets'.searches = targets.searches
              \/ OfBot(e, Screening) /\ e \notin orders'
<1>1. targets \in [revisions : SUBSET (1..request.boundary), opportunity : BOOLEAN,
                   searches : SUBSET Searches]
  BY DEF Typed, ProtocolTyped
<1>2. CASE e.attempt # request.attempt
  BY <1>2 DEF D!OwnerEvent, D!Stale
<1>3. CASE e.attempt = request.attempt /\ e.name = "suppressed" /\ e.owner = "bot_assistant"
  <2>1. targets' = [targets EXCEPT !.searches = e.searches]
    BY <1>3 DEF D!OwnerEvent, D!Stale
  <2>2. OfBot(e, Screening)
    BY <1>3 DEF OfBot, Screening
  <2>3. e \notin orders'
    <3>1. PICK list : \A d \in orders' : d \in orders \ {e} \/
              d \in {D!Command("delete", o, e.attempt, list) : o \in D!Owners}
      BY <1>3 DEF D!OwnerEvent, D!Stale
    <3> QED
      BY <1>3, <3>1 DEF D!Command
  <2> QED
    BY <1>1, <2>1, <2>2, <2>3 DEF OrdersInv
<1>4. CASE e.attempt = request.attempt /\ ~(e.name = "suppressed" /\ e.owner = "bot_assistant")
  <2>1. targets' = [targets EXCEPT !.searches = targets.searches]
    BY <1>4 DEF D!OwnerEvent, D!Stale
  <2> QED
    BY <1>1, <2>1
<1> QED
  BY <1>2, <1>3, <1>4

(* Bot Assistant is told once, and of all.                                 *)
LEMMA OrdersKept ==
    ASSUME D!DeletionAssumption, Typed, OrdersInv, [D!Next]_(D!vars)
    PROVE  OrdersInv'
<1>1. request.attempt \in Nat /\ \A e \in orders : e.attempt \in Nat
  BY Numbers DEF Typed, ProtocolTyped, OrderType
<1>2. CASE D!Begin
  <2>1. PICK list :
            /\ targets'.searches = list /\ request'.attempt = request.attempt + 1
            /\ orders' = orders \cup {D!Command("suppress", o, request.attempt + 1, list) :
                                            o \in D!Owners}
    BY <1>2 DEF D!Begin
  <2>2. \A e \in orders' : \/ e \in orders /\ e.attempt # request'.attempt
                           \/ \E o \in D!Owners : e = D!Command("suppress", o, request'.attempt, list)
    BY <1>1, <2>1 DEF OrdersInv
  <2>3. \A o \in D!Owners :
            LET c == D!Command("suppress", o, request'.attempt, list)
            IN  c.attempt = request'.attempt /\ c.owner = o /\ c.searches = list
    BY DEF D!Command
  <2>4. \A e \in orders' : OfBot(e, Screening)' =>
            e = D!Command("suppress", "bot_assistant", request'.attempt, list)
    BY <2>2, <2>3 DEF OfBot
  <2>5. \A e \in orders' : e.attempt <= request'.attempt
    BY <1>1, <2>1, <2>2, <2>3 DEF OrdersInv
  <2>6. "bot_assistant" \in D!Owners
    BY DEF D!Owners
  <2> QED
    BY <2>1, <2>3, <2>4, <2>5, <2>6 DEF OrdersInv
<1>3. CASE Executes
  <2>1. PICK c \in orders : D!Execute(c)
    BY <1>3 DEF Executes
  <2>2. PICK list, name :
            /\ list = c.searches \/ c.searches = {}
            /\ name = IF c.name = "suppress" THEN "suppressed" ELSE "deleted"
            /\ c.name \in D!Asks
            /\ orders' = (orders \ {c}) \cup {D!Command(name, c.owner, c.attempt, list)}
            /\ UNCHANGED <<request, targets>>
    BY <2>1 DEF D!Execute
  <2>3. PICK e : e = D!Command(name, c.owner, c.attempt, list)
    OBVIOUS
  <2>4. /\ e.attempt = c.attempt /\ e.owner = c.owner /\ e.searches = list
        /\ OfBot(e, Screening) => OfBot(c, Screening)
    BY <2>2, <2>3 DEF D!Command, OfBot, Screening, D!Asks
  <2>5. \A d : OfBot(d, Screening)' <=> OfBot(d, Screening)
    BY <2>2 DEF OfBot
  <2>6. \A d \in orders' : d \in orders \ {c} \/ d = e
    BY <2>2, <2>3
  <2>7. /\ \A d \in orders' : d.attempt <= request'.attempt
        /\ \A d \in orders' : OfBot(d, Screening)' => targets'.searches \subseteq d.searches
    BY <2>2, <2>4, <2>5, <2>6 DEF OrdersInv
  <2>8. \A d, f \in orders' : OfBot(d, Screening)' /\ OfBot(f, Screening)' => d = f
    BY <2>4, <2>5, <2>6 DEF OrdersInv
  <2> QED
    BY <2>7, <2>8 DEF OrdersInv
<1>4. CASE Fails
  <2>1. PICK c \in orders : D!Fail(c)
    BY <1>4 DEF Fails
  <2>2. PICK e : /\ e \in D!Failure(c)
                 /\ orders' = (orders \ {c}) \cup {e} /\ UNCHANGED <<request, targets>>
    BY <2>1 DEF D!Fail, D!Failure
  <2>3. e.attempt = c.attempt /\ ~OfBot(e, Screening)
    BY <2>2 DEF D!Failure, D!Command, OfBot, Screening
  <2>4. \A d : OfBot(d, Screening)' <=> OfBot(d, Screening)
    BY <2>2 DEF OfBot
  <2> QED
    BY <2>2, <2>3, <2>4 DEF OrdersInv
<1>5. CASE Answered /\ ~D!Begin
  <2>1. PICK e \in orders : D!OwnerEvent(e)
    BY <1>5 DEF Answered
  <2>2. PICK list : \A d \in orders' : d \in orders \/
            d \in {D!Command("delete", o, e.attempt, list) : o \in D!Owners}
    BY <2>1 DEF D!OwnerEvent
  <2>3. \A d \in orders' : d \in orders \/ (d.attempt = e.attempt /\ d.name = "delete")
    BY <2>2 DEF D!Command
  <2>4. request'.attempt = request.attempt
    BY <1>5, Standing
  <2>5. \A d : OfBot(d, Screening)' <=> OfBot(d, Screening)
    BY <2>4 DEF OfBot
  <2>6. \A d \in orders' : OfBot(d, Screening) => d \in orders
    BY <2>3 DEF OfBot, Screening
  <2>7. \/ targets'.searches = targets.searches
        \/ OfBot(e, Screening) /\ e \notin orders'
    BY <2>1, AnswerLists
  <2> QED
    BY <2>1, <2>3, <2>4, <2>5, <2>6, <2>7 DEF OrdersInv
<1>6. CASE UNCHANGED orders /\ ~D!Begin
  <2>1. request'.attempt = request.attempt
    BY <1>6, Standing
  <2>2. \A d : OfBot(d, Screening)' <=> OfBot(d, Screening)
    BY <2>1 DEF OfBot
  <2>3. CASE UNCHANGED targets
    BY <1>6, <2>1, <2>2, <2>3 DEF OrdersInv
  <2>4. CASE Answered
    BY <1>5, <1>6, <2>4
  <2> QED
    BY <1>6, <2>3, <2>4, Moves DEF Moved
<1> QED
  BY <1>2, <1>3, <1>4, <1>5, <1>6, Moves DEF Moved

(* What is listed or raced stays so.                                       *)
LEMMA ListGrows ==
    ASSUME Typed, OrdersInv, Asked, [D!Next]_(D!vars)
    PROVE  targets.searches \subseteq targets'.searches /\ raced \subseteq raced'
<1>1. raced \subseteq raced'
  BY Moves DEF Moved, D!Begin
<1>2. targets.searches \subseteq targets'.searches
  <2>1. CASE D!Begin
    BY <2>1, BeginAgain DEF Asked
  <2>2. CASE Answered
    BY <2>2, AnswerLists DEF Answered
  <2>3. CASE UNCHANGED targets
    BY <2>3
  <2> QED
    BY <2>1, <2>2, <2>3, Moves DEF Moved
<1> QED
  BY <1>1, <1>2

(* The screens are cleaned of what was listed.                             *)
LEMMA ScreenEffect ==
    ASSUME Typed, OrdersInv, ScreenInv, Asked, ~overtaken, NEW c \in orders, D!Execute(c),
           OfBot(c, {"suppress"})
    PROVE  ShownClean'
<1>1. PICK list :
          /\ \/ list = c.searches \/ c.searches = {}
          /\ searches' = D!Cleaned(list) /\ UNCHANGED <<targets, raced>>
  BY DEF D!Execute, D!Suppressed, OfBot, D!history
<1>2. OfBot(c, Screening)
  BY DEF OfBot, Screening
<1>3. targets.searches \subseteq list
  BY <1>1, <1>2 DEF OrdersInv
<1>4. ASSUME NEW s \in Searches, searches'[s].shown \cap Targeted # {}
      PROVE  s \in raced
  <2>1. searches[s] \in SearchType
    BY DEF Typed, OwnedTyped
  <2>2. s \notin list /\ searches'[s] = searches[s]
    BY <1>1, <1>4, <2>1 DEF D!Cleaned, SearchType
  <2> QED
    BY <1>3, <1>4, <2>2 DEF ScreenInv
<1> QED
  BY <1>1, <1>4 DEF ShownClean, Targeted

(* Screens that are clean stay clean.                                      *)
LEMMA ShownKept ==
    ASSUME D!DeletionAssumption,
           Typed, CarriesOwn, OrdersInv, ScreenInv, Asked, ~overtaken, [D!Next]_(D!vars), ShownClean
    PROVE  ShownClean'
<1>1. Targeted' = Targeted /\ raced \subseteq raced'
  BY TargetsStand, ListGrows
<1>2. ASSUME NEW s \in Searches, searches'[s].shown \cap Targeted # {}
      PROVE  s \in raced
  <2>1. SearchMoves(s)
    BY SearchSteps
  <2>2. CASE Replies(s)
    <3>1. s = bot.id /\ bot.what = "read" /\ bot.cards \cap Targeted # {} /\ s \notin targets.searches
      BY <1>2, <2>2 DEF Replies
    <3> QED
      BY <3>1 DEF ScreenInv
  <2>3. CASE Lessens(s) \/ Completes(s) \/ Disposes(s)
    BY <1>2, <2>3 DEF Lessens, Completes, Disposes, ShownClean
  <2> QED
    BY <2>1, <2>2, <2>3 DEF SearchMoves
<1> QED
  BY <1>1, <1>2 DEF ShownClean

(* What is said of the screens was said before, or is being done.          *)
LEMMA ScreenSayings ==
    ASSUME D!DeletionAssumption, Typed, OrdersInv, [D!Next]_(D!vars), SaysClean'
    PROVE  \/ SaysClean
           \/ \E c \in orders : D!Execute(c) /\ OfBot(c, {"suppress"})
<1>0. "bot_assistant" \in D!Owners
  BY DEF D!Owners
<1>1. CASE D!Begin
  <2>1. /\ acks'["bot_assistant"].suppression # "completed"
        /\ acks'["bot_assistant"].deletion # "completed"
        /\ \A e \in orders' : e \in orders \/ e.name = "suppress"
    BY <1>0, <1>1, BeginningSays DEF D!Pending
  <2>2. request'.attempt = request.attempt + 1 /\ \A e \in orders : e.attempt <= request.attempt
    BY <1>1 DEF D!Begin, OrdersInv
  <2>3. \A e \in orders : e.attempt # request'.attempt
    <3>1. request.attempt \in Nat /\ \A e \in orders : e.attempt \in Nat
      BY Numbers DEF Typed, ProtocolTyped, OrderType
    <3> QED
      BY <2>2, <3>1
  <2> QED
    BY <2>1, <2>3 DEF SaysClean, OfBot
<1>2. CASE ~D!Begin
  <2>0. request'.attempt = request.attempt
    BY <1>2, Standing
  <2>1. \A d, names : OfBot(d, names)' <=> OfBot(d, names)
    BY <2>0 DEF OfBot
  <2>2. CASE Executes
    <3>1. PICK c \in orders : D!Execute(c)
      BY <2>2 DEF Executes
    <3>2. UNCHANGED acks
      BY <3>1, ExecutionSays
    <3>3. \A e \in orders' : e \in orders \/
              /\ e.owner = c.owner /\ e.attempt = c.attempt
              /\ \/ c.name = "suppress" /\ e.name = "suppressed"
                 \/ c.name = "delete" /\ e.name = "deleted"
      <4>1. c.name \in D!Asks /\ \E list : orders' = (orders \ {c}) \cup
               {D!Command(IF c.name = "suppress" THEN "suppressed" ELSE "deleted",
                          c.owner, c.attempt, list)}
        BY <3>1 DEF D!Execute
      <4> QED
        BY <4>1 DEF D!Command, D!Asks
    <3>4. ASSUME NEW e \in orders', OfBot(e, {"suppressed", "delete", "deleted"})
          PROVE  \/ e \in orders \/ OfBot(c, {"suppress"})
                 \/ OfBot(c, {"suppressed", "delete", "deleted"})
      BY <3>3, <3>4 DEF OfBot
    <3> QED
      BY <2>1, <3>1, <3>2, <3>4 DEF SaysClean
  <2>3. CASE Fails
    <3>1. /\ UNCHANGED acks
          /\ \A e \in orders' : e \in orders \/ e.name \in {"suppression_failed", "deletion_failed"}
      BY <2>3, FailureSays DEF Fails
    <3> QED
      BY <2>0, <3>1 DEF SaysClean, OfBot
  <2>4. CASE Answered
    <3>1. PICK e \in orders : D!OwnerEvent(e)
      BY <2>4 DEF Answered
    <3>2. /\ acks'["bot_assistant"].suppression = "completed" =>
                 \/ acks["bot_assistant"].suppression = "completed"
                 \/ /\ e.name = "suppressed" /\ e.owner = "bot_assistant"
                    /\ e.attempt = request.attempt
          /\ acks'["bot_assistant"].deletion = "completed" =>
                 \/ acks["bot_assistant"].deletion = "completed"
                 \/ /\ e.name = "deleted" /\ e.owner = "bot_assistant"
                    /\ e.attempt = request.attempt
          /\ \A d \in orders' : d \in orders \/
                 /\ e.attempt = request.attempt
                 /\ \/ acks["bot_assistant"].suppression = "completed"
                    \/ e.name = "suppressed" /\ e.owner = "bot_assistant"
      BY <1>0, <3>1, AnswerSays
    <3>3. /\ e.name \in {"suppressed", "deleted"} /\ e.owner = "bot_assistant"
             /\ e.attempt = request.attempt
          => SaysClean
      BY <3>1 DEF SaysClean, OfBot
    <3>4. CASE orders' \subseteq orders
      BY <2>0, <3>2, <3>3, <3>4 DEF SaysClean, OfBot
    <3>5. CASE ~(orders' \subseteq orders)
      BY <3>2, <3>3, <3>5 DEF SaysClean
    <3> QED
      BY <3>4, <3>5
  <2>5. CASE UNCHANGED <<orders, acks>>
    BY <2>0, <2>5 DEF SaysClean, OfBot
  <2> QED
    BY <1>2, <2>2, <2>3, <2>4, <2>5, Moves DEF Moved
<1> QED
  BY <1>1, <1>2

(* No step shows something targeted that is neither raced nor listed.      *)
LEMMA ScreenKept ==
    ASSUME D!DeletionAssumption,
           Typed, CarriesOwn, Untouched, Bounded, Promised, OrdersInv, ScreenInv, [D!Next]_(D!vars),
           Bounded', Typed'
    PROVE  ScreenInv'
<1> SUFFICES ASSUME Asked', ~overtaken'
             PROVE  ScreenInv'
  BY DEF ScreenInv
<1>1. ~overtaken
  BY OvertakenStays
<1>2. CASE ~Asked
  <2>1. D!Begin /\ request.attempt = 0
    BY <1>2, Standing, Numbers DEF Asked
  <2>2. /\ UNCHANGED <<searches, rec, bot>>
        /\ rec.what = "search" => rec.id \in raced'
    BY <2>1, BeginEffect DEF rec, bot, D!Begin
  <2>3. targets'.searches = D!SearchesOf(targets'.opportunity)
    BY <2>1, BeginFirst
  <2>4. /\ \A s \in Searches : searches[s].shown \subseteq searches[s].results
        /\ bot # D!Idle => bot.cards \subseteq searches[bot.id].results
        /\ orders = {}
    BY <1>2 DEF Untouched
  <2>5. ASSUME NEW s \in Searches, searches[s].results \cap Targeted' # {}
        PROVE  s \in targets'.searches
    <3>1. \E f \in Targeted' : Shows(f)'
      BY <2>2, <2>5 DEF Shows
    <3>2. targets'.opportunity
      BY <3>1 DEF Bounded
    <3>3. targets'.searches = {x \in Searches : searches[x].results \cup searches[x].inputs # {}}
      BY <2>3, <3>2 DEF D!SearchesOf
    <3> QED
      BY <2>5, <3>3
  <2>6. bot.what = "read" => bot # D!Idle /\ bot.id \in Searches
    BY DEF CarriesOwn, D!Idle
  <2>7. ~SaysClean'
    <3>1. ~SaysHidden("bot_assistant")' /\ ~SaysCleared("bot_assistant")'
      BY <1>2, <2>1, NothingSaid DEF D!Owners
    <3>2. \A e \in orders' : e.name = "suppress"
      BY <2>1, <2>4, BeginningSays
    <3> QED
      BY <3>1, <3>2 DEF SaysClean, SaysHidden, SaysCleared, OfBot
  <2> QED
    BY <2>2, <2>4, <2>5, <2>6, <2>7 DEF ScreenInv
<1>3. CASE Asked
  <2>1. /\ Targeted' = Targeted /\ raced \subseteq raced'
        /\ targets.searches \subseteq targets'.searches
    BY <1>3, TargetsStand, ListGrows
  <2>2. /\ \A s \in Searches :
               \/ searches[s].results \cap Targeted # {}
               \/ searches[s].shown \cap Targeted # {}
               => s \in raced \/ s \in targets.searches
        /\ rec.what = "search" /\ rec.cards \cap Targeted # {} => rec.id \in raced
        /\ bot.what = "read" /\ bot.cards \cap Targeted # {} =>
               bot.id \in raced \/ bot.id \in targets.searches
        /\ SaysClean => ShownClean
    BY <1>1, <1>3 DEF ScreenInv
  <2>3. ASSUME NEW s \in Searches,
               \/ searches'[s].results \cap Targeted # {}
               \/ searches'[s].shown \cap Targeted # {}
        PROVE  s \in raced \/ s \in targets.searches
    <3>1. SearchMoves(s)
      BY SearchSteps
    <3>2. CASE Lessens(s)
      BY <2>2, <2>3, <3>2 DEF Lessens
    <3>3. CASE Completes(s)
      BY <2>2, <2>3, <3>3 DEF Completes
    <3>4. CASE Disposes(s)
      BY <2>2, <2>3, <3>4 DEF Disposes
    <3>5. CASE Replies(s)
      BY <2>2, <2>3, <3>5 DEF Replies
    <3> QED
      BY <3>1, <3>2, <3>3, <3>4, <3>5 DEF SearchMoves
  <2>4. ASSUME rec'.what = "search", rec'.cards \cap Targeted # {}
        PROVE  rec'.id \in raced
    <3>1. CASE rec' = rec
      BY <2>2, <2>4, <3>1
    <3>2. rec' # D!Idle /\ \A k \in D!Publications, r \in D!Revisions : ~Takes(k, r)
      BY <2>4 DEF D!Idle, Takes, D!Publications
    <3>3. ASSUME NEW s \in Searches, Evaluates(s)
          PROVE  FALSE
      <4>1. rec'.cards \cap D!Before = {}
        BY <1>1, <1>3, <3>3, FindsNothing
      <4>2. Targeted \subseteq D!Before
        BY Numbers DEF D!Before
      <4> QED
        BY <2>4, <4>1, <4>2
    <3> QED
      BY <3>1, <3>2, <3>3, HandSteps DEF RecMoves
  <2>5. ASSUME bot'.what = "read", bot'.cards \cap Targeted # {}
        PROVE  bot'.id \in raced \/ bot'.id \in targets.searches
    <3>1. CASE bot' = bot
      BY <2>2, <2>5, <3>1
    <3>2. bot' # D!Idle
      BY <2>5 DEF D!Idle
    <3> QED
      BY <2>2, <2>5, <3>1, <3>2, HandSteps DEF BotMoves
  <2>6. ASSUME SaysClean'
        PROVE  ShownClean'
    <3>1. CASE SaysClean
      BY <1>1, <1>3, <2>2, <3>1, ShownKept
    <3>2. CASE \E c \in orders : D!Execute(c) /\ OfBot(c, {"suppress"})
      BY <1>1, <1>3, <3>2, ScreenEffect
    <3> QED
      BY <2>6, <3>1, <3>2, ScreenSayings
  <2> QED
    BY <2>1, <2>3, <2>4, <2>5, <2>6 DEF ScreenInv
<1> QED
  BY <1>2, <1>3
-----------------------------------------------------------------------------
(* Completion is awaited when everything is deleted.                       *)
GoneInv == D!Gone => D!AllDeleted(acks)

(* What is awaited stays true: an answer that would undo it ends it.       *)
LEMMA GoneKept ==
    ASSUME Typed, GoneInv, [D!Next]_(D!vars)
    PROVE  GoneInv'
<1>1. /\ acks \in [D!Owners -> AckType]
      /\ request \in [status : Statuses, attempt : Nat, boundary : 0..posted, notified : BOOLEAN]
  BY DEF Typed, ProtocolTyped
<1>2. CASE D!Begin
  BY <1>2 DEF D!Begin, GoneInv, D!Gone
<1>3. CASE Answered
  <2>1. PICK e \in orders : D!OwnerEvent(e)
    BY <1>3 DEF Answered
  <2>2. CASE D!Stale(e)
    BY <2>1, <2>2 DEF D!OwnerEvent, GoneInv, D!Gone, D!AllDeleted
  <2>3. ASSUME ~D!Stale(e), request'.status \in {"awaiting_completion", "completed"}
        PROVE  D!AllDeleted(acks')
    <3> DEFINE acks1 == CASE e.name = "suppressed" ->
                                 [acks EXCEPT ![e.owner].suppression = "completed"]
                          [] e.name = "deleted" -> [acks EXCEPT ![e.owner].deletion = "completed"]
                          [] e.name = "suppression_failed" ->
                                 [acks EXCEPT ![e.owner].suppression = "failed"]
                          [] OTHER -> [acks EXCEPT ![e.owner].deletion = "failed"]
    <3>1. /\ acks' = acks1 /\ e.name \notin D!Asks
          /\ \E status, next :
                 /\ request' = [request EXCEPT !.status = status]
                 /\ status = CASE e.name \in {"suppression_failed", "deletion_failed"} ->
                                      "execution_error"
                               [] next # {} /\ request.status = "suppressing" -> "executing"
                               [] e.name = "deleted" /\ D!AllDeleted(acks1)
                                    /\ request.status = "executing" -> "awaiting_completion"
                               [] OTHER -> request.status
      BY Zenon, <2>1, <2>3 DEF D!OwnerEvent
    <3>2. e.name \in D!Asks \cup Answers /\ e.owner \in D!Owners
      BY DEF Typed, ProtocolTyped, OrderType
    <3>3. /\ e.name \notin {"suppression_failed", "deletion_failed"}
          /\ D!AllDeleted(acks1) \/ request.status \in {"awaiting_completion", "completed"}
      <4> HIDE DEF acks1
      <4> QED
        BY <1>1, <2>3, <3>1
    <3>4. e.name \in {"suppressed", "deleted"}
      BY <3>1, <3>2, <3>3 DEF Answers
    <3>5. D!AllDeleted(acks) => D!AllDeleted(acks1)
      BY <1>1, <3>2, <3>4 DEF D!AllDeleted, AckType
    <3> QED
      BY <3>1, <3>3, <3>5 DEF GoneInv, D!Gone
  <2> QED
    BY <2>1, <2>2, <2>3 DEF GoneInv, D!Gone
<1>4. CASE UNCHANGED acks
  <2>1. ASSUME D!Complete
        PROVE  D!AllDeleted(acks)
    BY <2>1 DEF D!Complete
  <2>2. ASSUME Rules \/ D!Notify
        PROVE  request'.status \in {"awaiting_completion", "completed"} =>
               request.status \in {"awaiting_completion", "completed"}
    <3>1. \/ \E d \in {"approved_awaiting_execution", "rejected"} :
                 request' = [request EXCEPT !.status = d]
          \/ request' = [request EXCEPT !.notified = TRUE]
      BY <2>2 DEF Rules, D!Decide, D!Notify
    <3> QED
      BY <1>1, <3>1
  <2>3. \/ UNCHANGED request \/ Rules \/ D!Notify \/ D!Complete \/ D!Begin \/ Answered
    BY Moves DEF Moved
  <2> QED
    BY <1>2, <1>3, <1>4, <2>1, <2>2, <2>3 DEF GoneInv, D!Gone, D!AllDeleted
<1> QED
  BY <1>2, <1>3, <1>4, Moves DEF Moved
-----------------------------------------------------------------------------
DeletionInv == /\ Typed /\ CarriesOwn /\ InOrder /\ Known /\ Untouched
               /\ Bounded /\ D!LaterKept /\ Promised /\ OrdersInv /\ ScreenInv /\ GoneInv

(* At the start nothing is there.                                          *)
LEMMA DeletionStarts ==
    ASSUME D!DeletionAssumption, D!Init
    PROVE  DeletionInv
<1> USE DEF D!Init
<1>1. /\ {"none", "pending", "settled"} # {} /\ MaxRevision \in Nat /\ 0 \in Values
      /\ D!Nothing = 0 /\ \A r \in D!Revisions : r \in Nat /\ r >= 1
      /\ "bot_assistant" \in Workers /\ "classification" \in Workers
      /\ "recommendation" \in Workers
  BY KeyFacts DEF D!Nothing, D!Revisions
<1>2. /\ D!Absent \in RowType /\ D!NoRow \in ViewType /\ D!Idle \in HandType
      /\ D!NoSearch \in SearchType /\ D!Pending \in AckType
  BY <1>1 DEF D!Absent, RowType, D!NoRow, ViewType, D!Idle, HandType, D!NoSearch, SearchType,
              D!Pending,
              AckType, Phases
<1>3. ProtocolTyped
  <2>1. /\ posted \in Values /\ fetched \in 0..posted /\ confirmed \in -1..posted
        /\ orders \subseteq OrderType /\ raced \subseteq Searches /\ overtaken \in BOOLEAN
    <3>1. posted \in Values /\ fetched \in 0..posted
      BY <1>1
    <3>2. confirmed \in -1..posted
      OBVIOUS
    <3> QED
      BY <3>1, <3>2
  <2>2. request \in [status : Statuses, attempt : Nat, boundary : 0..posted, notified : BOOLEAN]
    <3>1. 0 \in 0..posted
      BY <1>1
    <3> QED
      BY <3>1 DEF Statuses
  <2>3. targets \in [revisions : SUBSET (1..request.boundary), opportunity : BOOLEAN,
                     searches : SUBSET Searches]
    BY <1>1
  <2>4. acks \in [D!Owners -> AckType]
    BY <1>2
  <2> QED
    BY <2>1, <2>2, <2>3, <2>4 DEF ProtocolTyped
<1>4. OwnedTyped
  <2>1. opportunity \in [rev : 0..fetched, facts : Values, active : BOOLEAN]
    BY <1>1 DEF D!NoOpp
  <2>2. /\ contracts \in [Keys -> RowType] /\ hand \in [Workers -> HandType]
        /\ projection \in [D!Revisions -> ViewType] /\ searches \in [Searches -> SearchType]
    BY <1>2 DEF Keys, Workers
  <2> QED
    BY <2>1, <2>2 DEF OwnedTyped
<1>5. /\ cls = D!Idle /\ rec = D!Idle /\ bot = D!Idle /\ ~Asked /\ ~D!Gone /\ fetched = 0
  BY <1>1 DEF cls, rec, bot, Asked, D!Gone, Workers
<1>6. /\ \A k \in Keys : contracts[k].facts = D!Nothing /\ contracts[k].state = "none"
      /\ \A r \in D!Revisions : projection[r].facts = D!Nothing
      /\ \A s \in Searches : searches[s] = D!NoSearch
  BY DEF Keys, D!Absent, D!NoRow
<1>7. ASSUME NEW f, Has(f)
      PROVE  f = D!Nothing
  <2>1. D!NoSearch.results = {} /\ D!NoSearch.inputs = {} /\ D!NoSearch.shown = {}
        /\ D!Idle.facts = D!Nothing /\ D!Idle.cards = {} /\ D!NoOpp.facts = D!Nothing
    BY DEF D!NoSearch, D!Idle, D!NoOpp
  <2> QED
    BY <1>5, <1>6, <1>7, <2>1, KeyFacts DEF Has, Shows, D!Kinds
<1>8. CarriesOwn /\ InOrder
  BY <1>5, <1>6, KeyFacts DEF CarriesOwn, InOrder, D!Idle, D!Publications, D!NoOpp
<1>9. Known
  BY <1>1, <1>5, <1>7 DEF Known
<1>10. Untouched
  <2>1. \A f : Shows(f) => f = D!Nothing
    BY <1>7 DEF Has
  <2> QED
    BY <1>5, <1>6, <2>1 DEF Untouched, Targeted, D!NoSearch
<1>11. Bounded /\ Promised /\ ScreenInv /\ GoneInv /\ OrdersInv
  BY <1>5 DEF Bounded, Promised, ScreenInv, GoneInv, OrdersInv
<1>12. D!LaterKept
  BY <1>1, <1>5, <1>6, KeyFacts DEF D!LaterKept
<1> QED
  BY <1>3, <1>4, <1>8, <1>9, <1>10, <1>11, <1>12 DEF DeletionInv, Typed

(* Every step keeps it.                                                    *)
LEMMA DeletionKept ==
    ASSUME D!DeletionAssumption, DeletionInv, [D!Next]_(D!vars)
    PROVE  DeletionInv'
<1>1. Typed /\ CarriesOwn /\ InOrder /\ Known /\ Untouched /\ Bounded /\ D!LaterKept
      /\ Promised /\ OrdersInv /\ ScreenInv /\ GoneInv
  BY DEF DeletionInv
<1>2. Typed' /\ CarriesOwn' /\ InOrder' /\ Known' /\ Untouched'
  BY <1>1, TypesKept, CarriesKept, OrderKept, KnownKept, UntouchedKept
<1>3. Bounded' /\ D!LaterKept'
  BY <1>1, BoundedKept, LaterStep
<1>4. Promised' /\ OrdersInv' /\ ScreenInv' /\ GoneInv'
  BY <1>1, <1>2, <1>3, PromisedKept, OrdersKept, ScreenKept, GoneKept
<1> QED
  BY <1>2, <1>3, <1>4 DEF DeletionInv

(* What holds of a deletion in every state: before execution begins        *)
(* nothing is missing; afterwards what anybody has from before the         *)
(* boundary is targeted, what commands, events and acknowledgements say is *)
(* done is done and stays so (what a suppression leaves in a publication   *)
(* cannot be parsed), and each search that holds something targeted is     *)
(* raced or listed.                                                        *)
THEOREM DeletionInvariant ==
    ASSUME D!DeletionAssumption PROVE D!Spec => []DeletionInv
<1>1. DeletionInv /\ [D!Next]_(D!vars) => DeletionInv'
  BY DeletionKept
<1> QED
  BY <1>1, DeletionStarts, PTL DEF D!Spec

(* When all is deleted nothing is left.                                    *)
LEMMA NothingLeft ==
    ASSUME D!DeletionAssumption, DeletionInv
    PROVE  D!NothingKept
<1> SUFFICES ASSUME D!Gone, ~overtaken
             PROVE  /\ (records \cup accepted \cup attempts) \cap D!Before = {}
                    /\ opportunity.facts \notin D!Before
                    /\ \A r \in D!Revisions : projection[r].facts \notin D!Before
                    /\ \A k \in DOMAIN contracts :
                           contracts[k].facts \in D!Before
                           => k[1] \in D!Publications /\ ~contracts[k].whole
                    /\ \A s \in Searches :
                           /\ (searches[s].results \cup searches[s].inputs) \cap D!Before = {}
                           /\ searches[s].shown \cap D!Before = {} \/ s \in raced
  BY DEF D!NothingKept
<1>0. Typed /\ Untouched /\ Bounded /\ Promised /\ ScreenInv /\ GoneInv
  BY DEF DeletionInv
<1>1. CASE ~Asked
  <2>1. request.boundary = 0
    BY <1>0, <1>1 DEF Untouched
  <2>2. D!Before = {}
    BY <2>1 DEF D!Before
  <2> QED
    BY <2>2
<1>2. CASE Asked
  <2>1. /\ D!AllDeleted(acks)
        /\ {"ingestion", "application", "classification", "recommendation", "bot_assistant"}
               = D!Owners
    BY <1>0 DEF GoneInv, D!Owners
  <2>2. \A o \in D!Owners : SaysHidden(o) /\ SaysCleared(o)
    BY <2>1 DEF D!AllDeleted, SaysHidden, SaysCleared, Over
  <2>3. \A o \in D!Owners : Hidden(o) /\ Cleared(o)
    BY <1>0, <1>2, <2>2 DEF Promised
  <2>4. /\ posted \in 0..MaxRevision /\ request.boundary \in 0..posted /\ MaxRevision \in Nat
        /\ D!Before \subseteq Values /\ D!Nothing \notin D!Before
    <3>1. posted \in 0..MaxRevision /\ request.boundary \in 0..posted /\ MaxRevision \in Nat
      BY <1>0, KeyFacts DEF Typed, ProtocolTyped, Values
    <3>2. ASSUME NEW f \in D!Before
          PROVE  f \in Values /\ f # D!Nothing
      BY <3>1, <3>2 DEF D!Before, Values, D!Nothing
    <3> QED
      BY <3>1, <3>2
  <2>5. ASSUME NEW f \in D!Before, Has(f)
        PROVE  f \in Targeted
    BY <1>0, <1>2, <2>4, <2>5 DEF Bounded
  <2>6. ASSUME NEW f \in D!Before
        PROVE  f \notin records /\ f \notin accepted /\ f \notin attempts
    BY <2>1, <2>3, <2>5 DEF Has, Cleared
  <2>7. opportunity.facts \notin D!Before
    BY <2>1, <2>3, <2>5 DEF Has, Shows, Cleared
  <2>8. ASSUME NEW r \in D!Revisions, projection[r].facts \in D!Before
        PROVE  FALSE
    BY <2>1, <2>3, <2>5, <2>8 DEF Has, Shows, Cleared
  <2>9. ASSUME NEW k \in DOMAIN contracts, contracts[k].facts \in D!Before
        PROVE  k[1] \in D!Publications /\ ~contracts[k].whole
    <3>1. k \in Keys
      BY <1>0 DEF Typed, OwnedTyped
    <3>2. contracts[k].facts \in Targeted
      BY <2>5, <2>9, <3>1 DEF Has
    <3>3. /\ k = <<k[1], k[2]>> /\ k[2] \in D!Revisions
          /\ \E o \in D!Owners : k[1] \in D!Outbox(o)
      <4>1. /\ k = <<k[1], k[2]>> /\ k[2] \in D!Revisions
            /\ k[1] \in {"event", "classify", "proposal", "publication", "supersession"}
        BY <3>1, KeyFacts
      <4>2. /\ D!Outbox("ingestion") = {"event"} /\ D!Outbox("classification") = {"proposal"}
            /\ D!Outbox("application") = {"classify", "publication", "supersession"}
        BY DEF D!Outbox, D!Publications
      <4> QED
        BY <2>1, <4>1, <4>2
    <3>4. Torn(k)
      BY <2>3, <3>2, <3>3 DEF Hidden
    <3> QED
      BY <3>4 DEF Torn
  <2>10. ASSUME NEW s \in Searches, NEW f \in D!Before
         PROVE  f \notin searches[s].results /\ f \notin searches[s].inputs
    BY <2>1, <2>3, <2>5 DEF Has, Shows, Cleared
  <2>11. ASSUME NEW s \in Searches, s \notin raced
         PROVE  searches[s].shown \cap D!Before = {}
    <3>1. ShownClean
      BY <1>0, <1>2, <2>1 DEF ScreenInv, SaysClean, D!AllDeleted
    <3>2. searches[s].shown \cap Targeted = {}
      BY <2>11, <3>1 DEF ShownClean
    <3> QED
      BY <2>5, <3>2 DEF Has, Shows
  <2> QED
    BY <2>6, <2>7, <2>8, <2>9, <2>10, <2>11
<1> QED
  BY <1>1, <1>2

(* When every owner has acknowledged its deletion, none of the five holds  *)
(* anything of the author from before the effective time, and none of it   *)
(* comes back from a contract, a process or a search, apart from the       *)
(* exceptions that NothingKept names (accepted facts in publications       *)
(* nobody can parse among them): for any number of revisions, searches,    *)
(* attempts and failures.                                                  *)
THEOREM NothingKeptHolds ==
    ASSUME D!DeletionAssumption PROVE D!Spec => []D!NothingKept
<1>1. DeletionInv => D!NothingKept
  BY NothingLeft
<1> QED
  BY <1>1, DeletionInvariant, PTL

(* Whatever the attempts, what the author writes after the boundary is     *)
(* recorded and accepted.                                                  *)
THEOREM LaterKeptHolds ==
    ASSUME D!DeletionAssumption PROVE D!Spec => []D!LaterKept
<1>1. DeletionInv => D!LaterKept
  BY DEF DeletionInv
<1> QED
  BY <1>1, DeletionInvariant, PTL

(* A search that begins finds nothing from before the boundary.            *)
LEMMA SearchFindsNothing ==
    ASSUME D!DeletionAssumption, DeletionInv, [D!Next]_(D!vars)
    PROVE  [\A s \in Searches :
                hand'["recommendation"].what = "search" /\ hand["recommendation"] = D!Idle
                /\ request.attempt > 0 /\ ~overtaken
                => hand'["recommendation"].cards \cap D!Before = {}]_(D!vars)
<1> SUFFICES ASSUME rec'.what = "search", rec = D!Idle, Asked, ~overtaken
             PROVE  rec'.cards \cap D!Before = {}
  BY DEF rec, Asked
<1>1. Typed /\ CarriesOwn /\ Bounded /\ Promised
  BY DEF DeletionInv
<1>2. \E s \in Searches : Evaluates(s)
  <2>1. D!Idle.what = "idle" /\ rec' # D!Idle /\ rec' # rec
    BY DEF D!Idle
  <2>2. ASSUME NEW k \in D!Publications, NEW r \in D!Revisions, Takes(k, r)
        PROVE  FALSE
    BY <2>2 DEF Takes, D!Publications
  <2> QED
    BY <1>1, <2>1, <2>2, HandSteps DEF RecMoves
<1> QED
  BY <1>1, <1>2, FindsNothing

(* From the moment execution begins a search finds nothing from before the *)
(* boundary, though no owner has suppressed anything yet.                  *)
THEOREM FoundNoMoreHolds ==
    ASSUME D!DeletionAssumption PROVE D!Spec => D!FoundNoMore
<1>1. DeletionInv /\ [D!Next]_(D!vars) =>
          [\A s \in Searches :
               hand'["recommendation"].what = "search" /\ hand["recommendation"] = D!Idle
               /\ request.attempt > 0 /\ ~overtaken
               => hand'["recommendation"].cards \cap D!Before = {}]_(D!vars)
  BY SearchFindsNothing
<1> QED
  BY <1>1, DeletionInvariant, PTL DEF D!Spec, D!FoundNoMore
=============================================================================
