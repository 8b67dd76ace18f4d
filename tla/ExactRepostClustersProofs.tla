----------------------- MODULE ExactRepostClustersProofs -----------------------
(***************************************************************************)
(* Proofs about ExactRepostClusters, for any messages, texts and dates:    *)
(* a cluster never shows two reposts, nor any while it is withheld, and it *)
(* shows the newest; no repost lifts a suppression by moderation; and      *)
(* searches find what the application holds active.                        *)
(***************************************************************************)
EXTENDS ExactRepostClusters, TLAPS

Rows        == [state : States, reason : Reasons]
Memberships == [key : Keys \cup {None}, rep : BOOLEAN, shows : Rows]
Clusters    == [moderation : {"absent", "none", "approved", "held_for_review",
                              "suppressed"},
                rep : Messages \cup {None}, state : States, n : Nat]
Tellings    == [opp : Messages, now : Rows, n : Nat]

(* What the steps of a transaction pass along.                             *)
Databases == [row : [Messages -> Rows], member : [Messages -> Memberships],
              cluster : [Keys -> Clusters], stale : SUBSET Messages,
              deleted : SUBSET Messages, newer : SUBSET (Messages \X Messages),
              out : SUBSET Tellings]

Withheld == {"held_for_review", "suppressed"}
Hidden   == {"moderation_suppressed", "review_timeout"}

(* Of two messages at most one is the newer.                               *)
Strict(newerThan) ==
    \A m, p \in Messages : <<m, p>> \in newerThan => <<p, m>> \notin newerThan

(* What an active Opportunity, one hidden by moderation and a deleted      *)
(* message's look like.                                                    *)
RowsFit(db) ==
    \A m \in Messages :
        /\ db.row[m].state = "active" => db.row[m].reason = "none" /\ m \notin db.deleted
        /\ db.row[m].reason \in Hidden => db.row[m].state = "suppressed"

(* One member of a cluster is active at most, and none of a withheld one;  *)
(* a member hidden by moderation is in a suppressed cluster.               *)
ClusterFits(db, k) ==
    /\ \A m, p \in Members(db, k) :
           db.row[m].state = "active" /\ db.row[p].state = "active" => m = p
    /\ \A m \in Members(db, k) :
           /\ db.row[m].state = "active" => db.cluster[k].moderation \notin Withheld
           /\ db.row[m].reason \in Hidden => db.cluster[k].moderation = "suppressed"

Fits(db) == RowsFit(db) /\ Strict(db.newer) /\ \A k \in Keys : ClusterFits(db, k)

(* What is shown represents the cluster; and as long as the representative *)
(* stands, the newest candidate is shown.                                  *)
Elects(db, k) ==
    /\ \A m \in Members(db, k) : db.row[m].state = "active" => db.member[m].rep
    /\ (/\ db.cluster[k].moderation \in {"none", "approved"}
        /\ \A m \in Members(db, k) :
               db.member[m].rep => db.row[m].state = "active" /\ m \notin db.stale)
       => \A m \in Newest(db, Candidates(db, k)) : db.row[m].state = "active"

Elected(db) == \A k \in Keys : Elects(db, k)

(* The messages the application has heard of, and their order in time.     *)
Known == {m \in Messages : text[m] # None \/ m \in deleted}

Orders(pairs, known) ==
    /\ \A a, b \in Messages : <<a, b>> \in pairs => a \in known /\ b \in known
    /\ \A a, b \in known : a = b \/ <<a, b>> \in pairs \/ <<b, a>> \in pairs
    /\ \A a, b, c \in known : <<a, b>> \in pairs /\ <<b, c>> \in pairs => <<a, c>> \in pairs

Placed == /\ Orders(newer, Known)
          /\ \A m \in Messages : member[m].key # None => m \in Known
-----------------------------------------------------------------------------
LEMMA NoneIsNoKey == None \notin Keys /\ None \notin Messages
BY RepostAssumption DEF RepostAssumption

LEMMA DbFields ==
    ASSUME NEW db \in Databases
    PROVE  /\ db.row \in [Messages -> Rows] /\ db.member \in [Messages -> Memberships]
           /\ db.cluster \in [Keys -> Clusters] /\ db.stale \in SUBSET Messages
           /\ db.deleted \in SUBSET Messages /\ db.newer \in SUBSET (Messages \X Messages)
           /\ db.out \in SUBSET Tellings
           /\ \A m \in Messages : /\ db.row[m] \in Rows /\ db.member[m] \in Memberships
                                  /\ db.member[m].key \in Keys \cup {None}
           /\ \A k \in Keys : db.cluster[k] \in Clusters
BY DEF Databases, Memberships

LEMMA DesiredTyped ==
    ASSUME NEW db \in Databases, NEW k \in Keys, NEW m \in Messages, NEW forced \in Reasons
    PROVE  Desired(db, k, m, forced) \in Rows
<1>1. db.row[m] \in Rows /\ db.row[m].reason \in Reasons
  BY DbFields DEF Rows
<1>2. db.cluster[k].moderation \in {"absent", "none", "approved", "held_for_review",
                                    "suppressed"}
  BY DbFields DEF Clusters
<1>3. \A s \in States, r \in Reasons : Is(s, r) \in Rows
  BY DEF Is, Rows
<1>4. /\ {"active", "suppressed", "held_for_review", "expired"} \subseteq States
      /\ {"none", "source_deleted", "moderation_held", "moderation_suppressed",
          "exact_repost_superseded"} \subseteq Reasons
  BY DEF States, Reasons
<1>. QED BY <1>1, <1>2, <1>3, <1>4 DEF Desired

LEMMA ClusterStateTyped ==
    ASSUME NEW db, NEW k PROVE ClusterState(db, k) \in States
BY DEF ClusterState, States

(* Who becomes active: the one that represents the cluster.                *)
LEMMA DesiredActive ==
    ASSUME NEW db \in Databases, RowsFit(db), Strict(db.newer),
           NEW k \in Keys, NEW m \in Messages, NEW forced \in Reasons,
           Desired(db, k, m, forced).state = "active"
    PROVE  /\ m \in Selected(db, k) /\ m \notin db.deleted
           /\ db.cluster[k].moderation \notin Withheld
           /\ Desired(db, k, m, forced) = Is("active", "none")
<1>1. db.row[m].state = "active" => db.row[m].reason = "none"
  BY DEF RowsFit
<1>2. db.row[m].state = "active" => InTurn(db.row[m])
  BY <1>1 DEF InTurn
<1>3. \A s, r : Is(s, r).state = s
  BY DEF Is
<1>. QED BY <1>1, <1>2, <1>3 DEF Desired, Withheld

LEMMA DesiredHidden ==
    ASSUME NEW db \in Databases, RowsFit(db),
           NEW k \in Keys, NEW m \in Messages, NEW forced \in Reasons,
           forced = "review_timeout" => db.cluster[k].moderation = "suppressed",
           forced # "moderation_suppressed",
           Desired(db, k, m, forced).reason \in Hidden
    PROVE  /\ db.cluster[k].moderation = "suppressed"
           /\ Desired(db, k, m, forced).state = "suppressed"
<1>1. db.row[m].reason \in Hidden => db.row[m].state = "suppressed"
  BY DEF RowsFit
<1>2. db.row[m].reason \in Hidden => InTurn(db.row[m])
  BY <1>1 DEF InTurn, Hidden
<1>3. \A s, r : Is(s, r).state = s /\ Is(s, r).reason = r
  BY DEF Is
<1>. QED BY <1>1, <1>2, <1>3 DEF Desired, Hidden

LEMMA SelectedOnce ==
    ASSUME NEW db \in Databases, Strict(db.newer), NEW k \in Keys,
           NEW m \in Selected(db, k), NEW p \in Selected(db, k)
    PROVE  m = p /\ m \in Members(db, k)
<1>1. {m, p} \subseteq Newest(db, Candidates(db, k))
  BY DEF Selected
<1>2. {m, p} \subseteq Candidates(db, k) /\ {m, p} \subseteq Messages
  BY <1>1 DEF Newest, Candidates, Members
<1>3. m # p => <<m, p>> \in db.newer /\ <<p, m>> \in db.newer
  BY <1>1, <1>2 DEF Newest
<1>. QED BY <1>2, <1>3 DEF Strict, Candidates

LEMMA SelectedMember ==
    ASSUME NEW db, NEW k, NEW m \in Selected(db, k)
    PROVE  /\ m \in Messages /\ db.member[m].key = k /\ InTurn(db.row[m])
           /\ m \notin db.stale /\ m \notin db.deleted
           /\ db.cluster[k].moderation \notin Withheld
BY DEF Selected, Newest, Candidates, Members, Withheld
-----------------------------------------------------------------------------
(* What a reconciliation does to each row, member and cluster, and what it *)
(* tells: every member whose row changed, or that was touched, as it is.   *)
Reconciles(db, keys, forced, touched, r) ==
    /\ r.stale = db.stale /\ r.deleted = db.deleted /\ r.newer = db.newer
    /\ \A k \in Keys : r.cluster[k].moderation = db.cluster[k].moderation
    /\ \A m \in Messages :
          /\ r.member[m].key = db.member[m].key
          /\ db.member[m].key \in keys =>
                /\ r.row[m] = Desired(db, db.member[m].key, m, forced)
                /\ r.member[m].rep = (m \in Selected(db, db.member[m].key))
          /\ db.member[m].key \notin keys =>
                r.row[m] = db.row[m] /\ r.member[m] = db.member[m]
    /\ db.out \subseteq r.out
    /\ \A p \in r.out : p \in db.out \/ /\ db.member[p.opp].key \in keys
                                        /\ p.now = r.row[p.opp]
    /\ \A m \in Messages :
          (\/ r.row[m] # db.row[m]
           \/ m \in touched /\ db.member[m].key \in keys)
          => \E p \in r.out : p.opp = m /\ p.now = r.row[m]

LEMMA Reconciled ==
    ASSUME NEW db \in Databases, NEW keys \in SUBSET Keys, NEW forced \in Reasons,
           NEW touched \in SUBSET Messages
    PROVE  /\ Reconcile(db, keys, forced, touched) \in Databases
           /\ Reconciles(db, keys, forced, touched, Reconcile(db, keys, forced, touched))
<1>. DEFINE key(m) == db.member[m].key
            members == {m \in Messages : key(m) \in keys}
            after(m) == Desired(db, key(m), m, forced)
            leads(m) == m \in Selected(db, key(m))
            changed(k) == {m \in Members(db, k) : \/ db.row[m] # after(m)
                                             \/ db.member[m].shows # after(m)
                                             \/ db.member[m].rep # leads(m)
                                             \/ m \in touched}
            rep(k) == IF Selected(db, k) = {} THEN None
                      ELSE CHOOSE m \in Selected(db, k) : TRUE
            n(k) == IF \/ changed(k) # {}
                       \/ db.cluster[k].rep # rep(k)
                       \/ db.cluster[k].state # ClusterState(db, k)
                    THEN db.cluster[k].n + 1 ELSE db.cluster[k].n
            rows == [m \in Messages |-> IF m \in members THEN after(m) ELSE db.row[m]]
            mems == [m \in Messages |->
              IF m \in members
              THEN [key |-> key(m), rep |-> leads(m), shows |-> after(m)] ELSE db.member[m]]
            clus == [k \in Keys |->
              IF k \in keys
              THEN [moderation |-> db.cluster[k].moderation, rep |-> rep(k),
                    state |-> ClusterState(db, k), n |-> n(k)] ELSE db.cluster[k]]
            outs == db.out \cup {Telling(m, after(m), n(key(m))) :
                              m \in UNION {changed(k) : k \in keys}}
            r == Reconcile(db, keys, forced, touched)
<1>1. r = [db EXCEPT !.row = rows, !.member = mems, !.cluster = clus, !.out = outs]
  BY DEF Reconcile
<1>2. \A m \in members : after(m) \in Rows
  BY DesiredTyped
<1>3. rows \in [Messages -> Rows]
  BY <1>2, DbFields
<1>4. mems \in [Messages -> Memberships]
  <2>. HIDE DEF after
  <2>1. \A m \in members : [key |-> key(m), rep |-> leads(m), shows |-> after(m)]
                               \in Memberships
    BY <1>2 DEF Memberships
  <2>. QED BY <2>1, DbFields
<1>5. \A k \in Keys : rep(k) \in Messages \cup {None}
  BY SelectedMember
<1>6. \A k \in Keys : n(k) \in Nat
  BY DbFields DEF Clusters
<1>7. clus \in [Keys -> Clusters]
  <2>. HIDE DEF rep, n
  <2>1. \A k \in Keys : [moderation |-> db.cluster[k].moderation, rep |-> rep(k),
                        state |-> ClusterState(db, k), n |-> n(k)] \in Clusters
    BY <1>5, <1>6, ClusterStateTyped, DbFields DEF Clusters
  <2>. QED BY <2>1, DbFields
<1>8. \A k \in keys : changed(k) \subseteq members /\ \A m \in changed(k) : key(m) = k
  BY DEF Members
<1>9. outs \in SUBSET Tellings
  <2>. HIDE DEF after, n, changed, members
  <2>1. ASSUME NEW k \in keys, NEW m \in changed(k)
        PROVE  Telling(m, after(m), n(key(m))) \in Tellings
    <3>1. m \in members /\ key(m) = k /\ m \in Messages
      BY <1>8 DEF members
    <3>. QED BY <1>2, <1>6, <3>1 DEF Telling, Tellings
  <2>. QED BY <2>1, DbFields
<1>. HIDE DEF r
<1>10. /\ r \in Databases /\ r.row = rows /\ r.member = mems /\ r.cluster = clus
       /\ r.out = outs /\ r.stale = db.stale /\ r.deleted = db.deleted
       /\ r.newer = db.newer
  <2>. HIDE DEF rows, mems, clus, outs
  <2>. QED BY <1>1, <1>3, <1>4, <1>7, <1>9 DEF Databases
<1>11. \A k \in Keys : r.cluster[k].moderation = db.cluster[k].moderation
  <2>. HIDE DEF rows, mems, outs, n, rep
  <2>1. r.cluster = clus
    BY <1>10
  <2>. QED BY <2>1
<1>12. \A m \in Messages :
          /\ r.member[m].key = db.member[m].key
          /\ db.member[m].key \in keys =>
                /\ r.row[m] = after(m) /\ r.member[m].rep = leads(m)
          /\ db.member[m].key \notin keys =>
                r.row[m] = db.row[m] /\ r.member[m] = db.member[m]
  <2>. HIDE DEF after, leads, clus, outs
  <2>1. r.row = rows /\ r.member = mems
    BY <1>10
  <2>. QED BY <2>1
<1>13. ASSUME NEW p \in outs, p \notin db.out
       PROVE  db.member[p.opp].key \in keys /\ p.now = rows[p.opp]
  <2>. HIDE DEF after, n, changed
  <2>1. PICK k \in keys : \E m \in changed(k) : p = Telling(m, after(m), n(key(m)))
    BY <1>13
  <2>2. PICK m \in changed(k) : p = Telling(m, after(m), n(key(m)))
    BY <2>1
  <2>3. m \in members /\ p.opp = m /\ p.now = after(m)
    BY <1>8, <2>2 DEF Telling
  <2>. QED BY <2>3
<1>14. ASSUME NEW m \in Messages,
              rows[m] # db.row[m] \/ (m \in touched /\ db.member[m].key \in keys)
       PROVE  \E p \in outs : p.opp = m /\ p.now = rows[m]
  <2>1. key(m) \in keys /\ m \in changed(key(m))
    BY <1>14 DEF Members
  <2>. HIDE DEF after, n, changed
  <2>2. Telling(m, after(m), n(key(m))) \in outs
    BY <2>1
  <2>3. Telling(m, after(m), n(key(m))).opp = m
        /\ Telling(m, after(m), n(key(m))).now = rows[m]
    BY <2>1 DEF Telling
  <2>. QED BY <2>2, <2>3
<1>. HIDE DEF rows, mems, clus, outs, after, leads
<1>15. db.out \subseteq r.out
  BY <1>10 DEF outs
<1>16. \A p \in r.out : p \in db.out \/ /\ db.member[p.opp].key \in keys
                                        /\ p.now = r.row[p.opp]
  BY <1>10, <1>13
<1>17. \A m \in Messages :
          (\/ r.row[m] # db.row[m]
           \/ m \in touched /\ db.member[m].key \in keys)
          => \E p \in r.out : p.opp = m /\ p.now = r.row[m]
  BY <1>10, <1>14
<1>18. Reconciles(db, keys, forced, touched, r)
  BY <1>10, <1>11, <1>12, <1>15, <1>16, <1>17 DEF Reconciles, after, leads
<1>. QED BY <1>10, <1>18 DEF r
-----------------------------------------------------------------------------
LEMMA ReconcileFits ==
    ASSUME NEW db \in Databases, NEW keys \in SUBSET Keys,
           NEW forced \in {"none", "opportunity_expired", "review_timeout"},
           NEW touched \in SUBSET Messages,
           RowsFit(db), Strict(db.newer), \A k \in Keys \ keys : ClusterFits(db, k),
           forced = "review_timeout" =>
               \A k \in keys : db.cluster[k].moderation = "suppressed"
    PROVE  Fits(Reconcile(db, keys, forced, touched))
<1>. DEFINE r == Reconcile(db, keys, forced, touched)
<1>1. forced \in Reasons /\ forced # "moderation_suppressed"
  BY DEF Reasons
<1>2. Reconciles(db, keys, forced, touched, r)
  BY <1>1, Reconciled
<1>. HIDE DEF r
<1>3. /\ r.deleted = db.deleted /\ r.newer = db.newer
      /\ \A k \in Keys : r.cluster[k].moderation = db.cluster[k].moderation
      /\ \A m \in Messages :
            /\ r.member[m].key = db.member[m].key
            /\ db.member[m].key \in keys =>
                  r.row[m] = Desired(db, db.member[m].key, m, forced)
            /\ db.member[m].key \notin keys => r.row[m] = db.row[m]
  BY <1>2 DEF Reconciles
<1>4. ASSUME NEW m \in Messages, db.member[m].key \in keys, r.row[m].state = "active"
      PROVE  /\ m \in Selected(db, db.member[m].key) /\ m \notin db.deleted
             /\ db.cluster[db.member[m].key].moderation \notin Withheld
             /\ r.row[m].reason = "none"
  BY <1>1, <1>3, <1>4, DesiredActive DEF Is
<1>5. ASSUME NEW m \in Messages, db.member[m].key \in keys, r.row[m].reason \in Hidden
      PROVE  /\ db.cluster[db.member[m].key].moderation = "suppressed"
             /\ r.row[m].state = "suppressed"
  BY <1>1, <1>3, <1>5, DesiredHidden
<1>6. RowsFit(r)
  BY <1>3, <1>4, <1>5 DEF RowsFit
<1>7. ASSUME NEW k \in keys PROVE ClusterFits(r, k)
  <2>1. ASSUME NEW m \in Members(r, k) PROVE m \in Messages /\ db.member[m].key = k
    BY <1>3 DEF Members
  <2>2. ASSUME NEW m \in Members(r, k), NEW p \in Members(r, k),
               r.row[m].state = "active", r.row[p].state = "active"
        PROVE  m = p
    <3>1. m \in Selected(db, k) /\ p \in Selected(db, k)
      BY <1>4, <2>1, <2>2
    <3>. QED BY <3>1, SelectedOnce
  <2>3. ASSUME NEW m \in Members(r, k)
        PROVE  /\ r.row[m].state = "active" => r.cluster[k].moderation \notin Withheld
               /\ r.row[m].reason \in Hidden => r.cluster[k].moderation = "suppressed"
    BY <1>3, <1>4, <1>5, <2>1
  <2>. QED BY <2>2, <2>3 DEF ClusterFits
<1>8. ASSUME NEW k \in Keys \ keys PROVE ClusterFits(r, k)
  <2>1. Members(r, k) = Members(db, k) /\ \A m \in Members(r, k) : r.row[m] = db.row[m]
    BY <1>3 DEF Members
  <2>2. ClusterFits(db, k)
    OBVIOUS
  <2>. QED BY <1>3, <2>1, <2>2 DEF ClusterFits
<1>. QED BY <1>3, <1>6, <1>7, <1>8 DEF Fits, r

(* A cluster is as it was if its members are.                              *)
LEMMA ElectsSame ==
    ASSUME NEW d, NEW e, NEW k, Elects(d, k),
           e.cluster[k].moderation = d.cluster[k].moderation,
           Members(e, k) = Members(d, k),
           \A m \in Members(d, k) :
               /\ e.row[m] = d.row[m] /\ e.member[m].rep = d.member[m].rep
               /\ m \in e.stale <=> m \in d.stale
               /\ m \in e.deleted <=> m \in d.deleted,
           \A m, p \in Members(d, k) : <<m, p>> \in e.newer <=> <<m, p>> \in d.newer
    PROVE  Elects(e, k)
<1>1. Candidates(e, k) = Candidates(d, k)
  BY DEF Candidates
<1>2. Candidates(d, k) \subseteq Members(d, k)
  BY DEF Candidates
<1>3. Newest(e, Candidates(e, k)) = Newest(d, Candidates(d, k))
  BY <1>1, <1>2 DEF Newest
<1>4. Newest(d, Candidates(d, k)) \subseteq Members(d, k)
  BY <1>2 DEF Newest
<1>. QED BY <1>3, <1>4 DEF Elects

(* The reconciliation keeps the candidates, and shows the newest.          *)
LEMMA ReconcileElects ==
    ASSUME NEW db \in Databases, NEW keys \in SUBSET Keys, NEW forced \in Reasons,
           NEW touched \in SUBSET Messages,
           RowsFit(db), Strict(db.newer), \A k \in Keys \ keys : Elects(db, k)
    PROVE  Elected(Reconcile(db, keys, forced, touched))
<1>. DEFINE r == Reconcile(db, keys, forced, touched)
<1>1. Reconciles(db, keys, forced, touched, r)
  BY Reconciled
<1>. HIDE DEF r
<1>2. ASSUME NEW k \in keys PROVE Elects(r, k)
  <2>1. Members(r, k) = Members(db, k)
    BY <1>1 DEF Reconciles, Members
  <2>2. ASSUME NEW m \in Members(db, k)
        PROVE  /\ m \in Messages /\ db.member[m].key = k
               /\ r.row[m] = Desired(db, k, m, forced)
               /\ r.member[m].rep = (m \in Selected(db, k))
    BY <1>1 DEF Reconciles, Members
  <2>3. ASSUME NEW m \in Members(r, k), r.row[m].state = "active"
        PROVE  r.member[m].rep
    <3>1. m \in Members(db, k)
      BY <2>1
    <3>2. m \in Messages /\ Desired(db, k, m, forced).state = "active"
      BY <2>2, <2>3, <3>1
    <3>3. m \in Selected(db, k)
      BY Zenon, <3>2, DesiredActive
    <3>. QED BY <2>2, <3>1, <3>3
  <2>4. ASSUME db.cluster[k].moderation \in {"none", "approved"},
               NEW m \in Newest(r, Candidates(r, k))
        PROVE  r.row[m].state = "active"
    <3>1. db.cluster[k].moderation \notin Withheld
      BY <2>4 DEF Withheld
    <3>2. ASSUME NEW p \in Members(db, k), p \notin db.stale, p \notin db.deleted
          PROVE  InTurn(r.row[p]) <=> InTurn(db.row[p])
      <4>1. Is("active", "none").state = "active" /\ InTurn(Is("active", "none"))
            /\ InTurn(Is("suppressed", "exact_repost_superseded"))
            /\ ~InTurn(Is("suppressed", "source_chat_paused"))
        BY DEF Is, InTurn
      <4>2. db.row[p].reason = "source_chat_paused" => ~InTurn(db.row[p])
        BY DEF InTurn
      <4>3. p \in Selected(db, k) => InTurn(db.row[p])
        BY SelectedMember
      <4>. QED BY <2>2, <2>4, <3>2, <4>1, <4>2, <4>3 DEF Desired
    <3>3. Candidates(r, k) = Candidates(db, k)
      BY <1>1, <2>1, <3>2 DEF Candidates, Reconciles
    <3>4. Newest(r, Candidates(r, k)) = Selected(db, k)
      BY <1>1, <3>1, <3>3 DEF Newest, Selected, Withheld, Reconciles
    <3>5. /\ m \in Members(db, k) /\ m \notin db.deleted /\ m \in Selected(db, k)
          /\ db.row[m].reason # "source_chat_paused"
      BY <3>4, SelectedMember DEF Members, InTurn
    <3>6. r.row[m] = Desired(db, k, m, forced)
      BY <2>2, <3>5
    <3>7. Desired(db, k, m, forced) = Is("active", "none")
      BY <2>4, <3>5 DEF Desired
    <3>. QED BY <3>6, <3>7 DEF Is
  <2>5. r.cluster[k].moderation = db.cluster[k].moderation
    BY <1>1 DEF Reconciles
  <2>. QED BY <2>3, <2>4, <2>5 DEF Elects
<1>3. ASSUME NEW k \in Keys \ keys PROVE Elects(r, k)
  <2>1. Elects(db, k)
    OBVIOUS
  <2>2. Members(r, k) = Members(db, k)
        /\ \A m \in Members(db, k) : r.row[m] = db.row[m] /\ r.member[m] = db.member[m]
    BY <1>1 DEF Reconciles, Members
  <2>3. /\ r.stale = db.stale /\ r.deleted = db.deleted /\ r.newer = db.newer
        /\ r.cluster[k].moderation = db.cluster[k].moderation
    BY <1>1 DEF Reconciles
  <2>. QED BY <2>1, <2>2, <2>3, ElectsSame
<1>. QED BY <1>2, <1>3 DEF Elected, r

(* What moderation hid stays hidden when its cluster is reconciled.        *)
LEMMA HiddenStays ==
    ASSUME NEW db \in Databases, NEW keys \in SUBSET Keys,
           NEW forced \in Reasons, NEW touched \in SUBSET Messages,
           RowsFit(db), Strict(db.newer),
           NEW m \in Messages, db.row[m].state # "active",
           \/ db.member[m].key \notin keys
           \/ db.cluster[db.member[m].key].moderation \in Withheld
           \/ ~InTurn(db.row[m])
    PROVE  Reconcile(db, keys, forced, touched).row[m].state # "active"
<1>. DEFINE r == Reconcile(db, keys, forced, touched)
<1>1. Reconciles(db, keys, forced, touched, r)
  BY Reconciled
<1>. HIDE DEF r
<1>2. CASE db.member[m].key \notin keys
  <2>1. r.row[m].state # "active"
    BY <1>1, <1>2 DEF Reconciles
  <2>. QED BY <2>1 DEF r
<1>3. CASE db.member[m].key \in keys
  <2>1. r.row[m] = Desired(db, db.member[m].key, m, forced)
    BY <1>1, <1>3 DEF Reconciles
  <2>2. Desired(db, db.member[m].key, m, forced).state = "active" =>
            /\ m \in Selected(db, db.member[m].key)
            /\ db.cluster[db.member[m].key].moderation \notin Withheld
    BY <1>3, DesiredActive
  <2>3. r.row[m].state # "active"
    BY <1>3, <2>1, <2>2, SelectedMember
  <2>. QED BY <2>3 DEF r
<1>. QED BY <1>2, <1>3

(* Rows that are hidden and members that leave harm no cluster.            *)
LEMMA FewerFit ==
    ASSUME NEW d, NEW e, NEW k \in Keys, ClusterFits(d, k),
           e.cluster[k].moderation = d.cluster[k].moderation,
           \A m \in Messages :
               /\ e.member[m].key = k => d.member[m].key = k
               /\ e.row[m].state = "active" => d.row[m].state = "active"
               /\ e.row[m].reason \in Hidden => d.row[m].reason \in Hidden
    PROVE  ClusterFits(e, k)
<1>1. \A m \in Members(e, k) : m \in Members(d, k) /\ m \in Messages
  BY DEF Members
<1>. QED BY <1>1 DEF ClusterFits

LEMMA FitsSame ==
    ASSUME NEW d, NEW e, Fits(d), e.row = d.row, e.member = d.member,
           e.cluster = d.cluster, e.deleted = d.deleted, e.newer = d.newer
    PROVE  Fits(e)
BY DEF Fits, RowsFit, ClusterFits, Members

(* A revision takes its place in the order.                                *)
LEMMA PlacingOrders ==
    ASSUME newer \in SUBSET (Messages \X Messages), Strict(newer), Orders(newer, Known),
           NEW m \in Messages, NEW placing \in Placings(m)
    PROVE  /\ placing \in SUBSET (Messages \X Messages) /\ Strict(placing)
           /\ Orders(placing, Known \cup {m})
           /\ \A p, q \in Messages \ {m} : <<p, q>> \in placing <=> <<p, q>> \in newer
<1>. DEFINE known == {p \in Messages \ {m} : text[p] # None \/ p \in deleted}
            rest  == {pair \in newer : m \notin {pair[1], pair[2]}}
<1>1. PICK later \in SUBSET known :
          /\ \A pair \in rest : pair[2] \in later => pair[1] \in later
          /\ placing = rest \cup (later \X {m}) \cup ({m} \X (known \ later))
  BY DEF Placings
<1>2. \A a, b \in Messages :
          <<a, b>> \in placing <=> \/ <<a, b>> \in newer /\ a # m /\ b # m
                                   \/ a \in later /\ b = m
                                   \/ a = m /\ b \in known \ later
  BY <1>1
<1>3. placing \in SUBSET (Messages \X Messages)
  BY <1>1
<1>4. m \notin known /\ known \subseteq Messages /\ known = Known \ {m}
  BY DEF Known
<1>5. \A a, b \in Messages : <<a, b>> \in newer /\ a # m /\ b # m
          => a \in known /\ b \in known /\ (b \in later => a \in later)
  <2>1. \A a, b \in Messages : <<a, b>> \in newer /\ a # m /\ b # m => <<a, b>> \in rest
    OBVIOUS
  <2>. HIDE DEF rest, known
  <2>. QED BY <1>1, <1>4, <2>1 DEF Orders
<1>. HIDE DEF known, rest
<1>6. Strict(placing)
  BY <1>1, <1>2, <1>4 DEF Strict
<1>7. \A a, b \in Messages : <<a, b>> \in placing => a \in known \cup {m} /\ b \in known \cup {m}
  BY <1>1, <1>2, <1>5
<1>8. \A a, b \in known \cup {m} : a = b \/ <<a, b>> \in placing \/ <<b, a>> \in placing
  <2>1. \A a, b \in known : a = b \/ <<a, b>> \in newer \/ <<b, a>> \in newer
    BY <1>4 DEF Orders
  <2>. QED BY <1>2, <1>4, <2>1
<1>9. ASSUME NEW a \in known \cup {m}, NEW b \in known \cup {m}, NEW c \in known \cup {m},
             <<a, b>> \in placing, <<b, c>> \in placing
      PROVE  <<a, c>> \in placing
  <2>1. {a, b, c} \subseteq Messages /\ later \subseteq known
    BY <1>1, <1>4
  <2>2. CASE a # m /\ b # m /\ c # m
    <3>1. <<a, b>> \in newer /\ <<b, c>> \in newer /\ {a, b, c} \subseteq Known
      BY <1>2, <1>4, <1>9, <2>1, <2>2
    <3>2. <<a, c>> \in newer
      BY <3>1 DEF Orders
    <3>. QED BY <1>2, <2>1, <2>2, <3>2
  <2>3. CASE b = m
    <3>1. a \in later /\ c \in known \ later /\ a # c /\ a # m /\ c # m
      BY <1>2, <1>4, <1>9, <2>1, <2>3
    <3>2. <<a, c>> \in newer \/ <<c, a>> \in newer
      BY <1>4, <2>1, <3>1 DEF Orders
    <3>3. <<c, a>> \notin newer
      BY <1>5, <2>1, <3>1
    <3>. QED BY <1>2, <2>1, <3>1, <3>2, <3>3
  <2>4. CASE b # m /\ c = m
    BY <1>2, <1>4, <1>5, <1>9, <2>1, <2>4
  <2>5. CASE b # m /\ a = m
    BY <1>2, <1>4, <1>5, <1>9, <2>1, <2>5
  <2>. QED BY <2>2, <2>3, <2>4, <2>5
<1>10. Orders(placing, Known \cup {m})
  <2>1. known \cup {m} = Known \cup {m}
    BY <1>4
  <2>. QED BY <1>7, <1>8, <1>9, <2>1 DEF Orders
<1>. QED BY <1>2, <1>3, <1>6, <1>10
-----------------------------------------------------------------------------
(* The transactions' rows.                                                 *)
SourceFits == \A m \in Messages : /\ m \in pending => text[m] # None
                                  /\ text[m] # None => m \notin deleted

RepostInv == /\ TypeOK /\ decisions \in Nat /\ SourceFits /\ Placed
             /\ Fits(Db) /\ Elected(Db)

LEMMA DbTyped ==
    ASSUME TypeOK
    PROVE  /\ Db \in Databases /\ Db.row = row /\ Db.member = member
           /\ Db.cluster = cluster /\ Db.stale = stale /\ Db.deleted = deleted
           /\ Db.newer = newer /\ Db.out = {}
BY DEF TypeOK, Db, Databases, Rows, Memberships, Clusters

LEMMA ClusterOfKeys ==
    ASSUME TypeOK, NEW m \in Messages
    PROVE  ClusterOf(m) \in SUBSET Keys /\ \A k \in Keys : member[m].key = k => k \in ClusterOf(m)
BY NoneIsNoKey DEF TypeOK, ClusterOf

(* What Recommendation is told is how the rows end up.                     *)
OutAgrees(db) == \A p \in db.out : p.now = db.row[p.opp]

Speaks(db, m) == \E p \in db.out : p.opp = m

LEMMA ReconcileSpeaks ==
    ASSUME NEW db \in Databases, NEW keys \in SUBSET Keys, NEW forced \in Reasons,
           NEW touched \in SUBSET Messages, OutAgrees(db),
           \A p \in db.out : db.member[p.opp].key \in keys =>
               p.now = Desired(db, db.member[p.opp].key, p.opp, forced)
    PROVE  LET r == Reconcile(db, keys, forced, touched)
           IN /\ OutAgrees(r)
              /\ \A m \in Messages :
                    (r.row[m] = db.row[m] /\ ~Speaks(db, m)) \/ Speaks(r, m)
<1>. DEFINE r == Reconcile(db, keys, forced, touched)
<1>1. Reconciles(db, keys, forced, touched, r)
  BY Reconciled
<1>. HIDE DEF r
<1>2. /\ db.out \subseteq r.out
      /\ \A p \in r.out : p \in db.out \/ /\ db.member[p.opp].key \in keys
                                          /\ p.now = r.row[p.opp]
      /\ \A m \in Messages :
            r.row[m] # db.row[m] => \E p \in r.out : p.opp = m /\ p.now = r.row[m]
      /\ \A m \in Messages :
            /\ db.member[m].key \in keys =>
                  r.row[m] = Desired(db, db.member[m].key, m, forced)
            /\ db.member[m].key \notin keys => r.row[m] = db.row[m]
  BY <1>1 DEF Reconciles
<1>3. \A p \in db.out : p.opp \in Messages
  BY DbFields DEF Tellings
<1>4. OutAgrees(r)
  BY <1>2, <1>3 DEF OutAgrees
<1>5. \A m \in Messages : (r.row[m] = db.row[m] /\ ~Speaks(db, m)) \/ Speaks(r, m)
  BY <1>2 DEF Speaks
<1>. QED BY <1>4, <1>5 DEF r
-----------------------------------------------------------------------------
(* What a transaction tells is enough: of every Opportunity it says how    *)
(* the row ends up, or the row is as it was, or it is hidden and was       *)
(* withdrawn before.                                                       *)
Accounted(db, before) ==
    /\ OutAgrees(db)
    /\ \A m \in Messages :
          \/ Speaks(db, m)
          \/ m \notin before /\ db.row[m].state # "active"
          \/ db.row[m] = row[m] /\ (m \in before <=> m \in told)

TablesTyped ==
    /\ row \in [Messages -> Rows] /\ member \in [Messages -> Memberships]
    /\ cluster \in [Keys -> Clusters]
    /\ stale \subseteq Messages /\ deleted \subseteq Messages
    /\ newer \subseteq Messages \X Messages
    /\ sent \in [Messages -> SUBSET (States \X Nat)]
    /\ told \subseteq Messages

LEMMA TypedTables ==
    TypeOK <=> /\ TablesTyped
               /\ text \in [Messages -> Texts \cup {None}]
               /\ pending \subseteq Messages /\ unroutable \subseteq Messages
               /\ triggered \subseteq Messages /\ barred \subseteq Messages
               /\ chat \in {"enabled", "paused"}
BY DEF TypeOK, TablesTyped, Rows, Memberships, Clusters

LEMMA CommitTyped ==
    ASSUME NEW db \in Databases, NEW keys \in [Messages -> SUBSET (States \X Nat)],
           NEW before \in SUBSET Messages, Commit(db, keys, before)
    PROVE  TablesTyped'
<1>1. \A p \in db.out : p.opp \in Messages /\ p.now.state \in States /\ p.n \in Nat
  BY DbFields DEF Tellings, Rows
<1>2. \A m \in Messages : KeysOf(db.out, m) \in SUBSET (States \X Nat)
  BY <1>1 DEF KeysOf
<1>3. \A m \in Messages : keys[m] \cup KeysOf(db.out, m) \in SUBSET (States \X Nat)
  BY <1>2
<1>4. sent' \in [Messages -> SUBSET (States \X Nat)]
  BY <1>3 DEF Commit
<1>5. told' \subseteq Messages
  BY <1>1 DEF Commit, Heard
<1>6. /\ row' = db.row /\ member' = db.member /\ cluster' = db.cluster
      /\ stale' = db.stale /\ deleted' = db.deleted /\ newer' = db.newer
  BY DEF Commit
<1>. QED BY <1>4, <1>5, <1>6, DbFields DEF TablesTyped

LEMMA FitsNext ==
    ASSUME NEW db, Fits(db), row' = db.row, member' = db.member, cluster' = db.cluster,
           deleted' = db.deleted, newer' = db.newer
    PROVE  Fits(Db)'
<1>. DEFINE after == Db'
<1>1. /\ after.row = db.row /\ after.member = db.member /\ after.cluster = db.cluster
      /\ after.deleted = db.deleted /\ after.newer = db.newer
  BY DEF Db
<1>2. PICK e : e = after
  OBVIOUS
<1>3. Fits(e)
  BY <1>1, <1>2, FitsSame
<1>. QED BY <1>2, <1>3 DEF Fits, RowsFit, Strict, ClusterFits, Members

LEMMA ElectedNext ==
    ASSUME NEW db, Elected(db), row' = db.row, member' = db.member, cluster' = db.cluster,
           stale' = db.stale, deleted' = db.deleted, newer' = db.newer
    PROVE  Elected(Db)'
<1>. DEFINE after == Db'
<1>1. /\ after.row = db.row /\ after.member = db.member /\ after.cluster = db.cluster
      /\ after.stale = db.stale /\ after.deleted = db.deleted /\ after.newer = db.newer
  BY DEF Db
<1>2. PICK e : e = after
  OBVIOUS
<1>3. ASSUME NEW k \in Keys PROVE Elects(e, k)
  <2>1. Elects(db, k)
    BY DEF Elected
  <2>2. Members(e, k) = Members(db, k)
    BY <1>1, <1>2 DEF Members
  <2>. QED BY <1>1, <1>2, <2>1, <2>2, ElectsSame
<1>4. Elected(e)
  BY <1>3 DEF Elected
<1>. QED BY <1>2, <1>4 DEF Elected, Elects, Members, Newest, Candidates

(* Messages only become known, and members are known ones.                 *)
LEMMA PlacedSame ==
    ASSUME Placed, newer' = newer,
           \A m \in Messages : text'[m] # None \/ m \in deleted' <=> m \in Known,
           \A m \in Messages : member'[m].key # None => member[m].key # None \/ m \in Known
    PROVE  Placed'
<1>1. Known' = Known
  BY DEF Known
<1>. QED BY <1>1 DEF Placed, Orders

(* Recommendation and the application agree again after the transaction.   *)
LEMMA CommitTold ==
    ASSUME ToldAsIs, NEW db \in Databases, NEW keys, NEW before,
           Commit(db, keys, before), Accounted(db, before), barred' = barred
    PROVE  ToldAsIs'
<1>1. row' = db.row /\ told' = Heard(db.out, before)
  BY DEF Commit
<1>2. ASSUME NEW m \in Messages
      PROVE  /\ m \in told' => db.row[m].state = "active" \/ Guarded(db.row[m])
             /\ db.row[m].state = "active" => m \in told' \cup barred
  <2>1. CASE Speaks(db, m)
    <3>1. m \in told' <=> \E q \in db.out : q.opp = m /\ Shown(q, before)
      BY <1>1, <2>1 DEF Heard, Speaks
    <3>2. \A q \in db.out : q.opp = m => q.now = db.row[m]
      BY DEF Accounted, OutAgrees
    <3>. QED BY <2>1, <3>1, <3>2 DEF Speaks, Shown
  <2>2. CASE ~Speaks(db, m)
    <3>1. m \in told' <=> m \in before
      BY <1>1, <2>2 DEF Heard, Speaks
    <3>2. \/ m \notin before /\ db.row[m].state # "active"
          \/ db.row[m] = row[m] /\ (m \in before <=> m \in told)
      BY <2>2 DEF Accounted
    <3>. QED BY <3>1, <3>2 DEF ToldAsIs
  <2>. QED BY <2>1, <2>2
<1>. QED BY <1>1, <1>2 DEF ToldAsIs, Guarded
-----------------------------------------------------------------------------
(* Each action keeps the invariant, what searches find, and what           *)
(* moderation hid.                                                         *)
NothingLifted ==
    \A m \in Messages :
        row[m].reason \in Hidden /\ row'[m].state = "active"
        => decisions' # decisions \/ m \in pending \ pending'

Keeps == RepostInv' /\ ToldAsIs' /\ NothingLifted

LEMMA HiddenWhere ==
    ASSUME RepostInv, NEW m \in Messages, row[m].reason \in Hidden
    PROVE  /\ row[m].state = "suppressed" /\ row[m].state # "active"
           /\ member[m].key \in Keys => cluster[member[m].key].moderation = "suppressed"
BY DEF RepostInv, Fits, RowsFit, ClusterFits, Members, Db

LEMMA Committed ==
    ASSUME NEW db, NEW keys, NEW before, Commit(db, keys, before)
    PROVE  /\ row' = db.row /\ member' = db.member /\ cluster' = db.cluster
           /\ stale' = db.stale /\ deleted' = db.deleted /\ newer' = db.newer
BY Zenon DEF Commit

(* No source event: the messages are those there were.                     *)
LEMMA SourceKept ==
    ASSUME RepostInv, text' = text, deleted' = deleted, pending' \subseteq pending
    PROVE  SourceFits'
BY DEF RepostInv, SourceFits

LEMMA PlacesKept ==
    ASSUME RepostInv, text' = text, deleted' = deleted, newer' = newer,
           \A m \in Messages : member'[m].key # None => member[m].key # None \/ m \in Known
    PROVE  Placed'
BY PlacedSame DEF RepostInv, Known

(* The last part of every transaction.                                     *)
LEMMA CommitKeeps ==
    ASSUME RepostInv, ToldAsIs,
           NEW db \in Databases, Fits(db), Elected(db),
           NEW keys \in [Messages -> SUBSET (States \X Nat)],
           NEW before \in SUBSET Messages, Commit(db, keys, before),
           Accounted(db, before),
           text' \in [Messages -> Texts \cup {None}], pending' \subseteq Messages,
           unroutable' \subseteq Messages, triggered' \subseteq Messages,
           UNCHANGED <<barred, chat>>, decisions' \in {decisions, decisions + 1},
           SourceFits', Placed',
           \A m \in Messages : row[m].reason \in Hidden /\ db.row[m].state = "active"
                               => decisions' # decisions \/ m \in pending \ pending'
    PROVE  Keeps
<1>1. TypeOK'
  <2>1. TablesTyped'
    BY CommitTyped
  <2>2. barred' \subseteq Messages /\ chat' \in {"enabled", "paused"}
    BY DEF RepostInv, TypeOK
  <2>. QED BY <2>1, <2>2 DEF TypeOK, TablesTyped, Rows, Memberships, Clusters
<1>2. Fits(Db)'
  BY FitsNext DEF Commit
<1>3. ToldAsIs'
  BY CommitTold
<1>4. NothingLifted
  BY DEF NothingLifted, Commit
<1>5. decisions' \in Nat
  BY DEF RepostInv
<1>6. Elected(Db)'
  BY ElectedNext DEF Commit
<1>. QED BY <1>1, <1>2, <1>3, <1>4, <1>5, <1>6 DEF Keeps, RepostInv

LEMMA KeysTyped ==
    ASSUME RepostInv, NEW m
    PROVE  /\ sent \in [Messages -> SUBSET (States \X Nat)]
           /\ [sent EXCEPT ![m] = {}] \in [Messages -> SUBSET (States \X Nat)]
           /\ told \in SUBSET Messages /\ told \ {m} \in SUBSET Messages
BY DEF RepostInv, TypeOK
-----------------------------------------------------------------------------
LEMMA CreateKeeps ==
    ASSUME RepostInv, ToldAsIs, NEW m \in Messages, NEW t \in Texts, AcceptCreate(m, t)
    PROVE  Keeps
<1>1. PICK placing \in Placings(m) : newer' = placing
  BY DEF AcceptCreate
<1>2. /\ placing \in SUBSET (Messages \X Messages) /\ Strict(placing)
      /\ Orders(placing, Known \cup {m})
      /\ \A p, q \in Messages \ {m} : <<p, q>> \in placing <=> <<p, q>> \in newer
  BY PlacingOrders DEF RepostInv, TypeOK, Fits, Placed, Db
<1>3. TypeOK'
  BY <1>1, <1>2 DEF RepostInv, TypeOK, AcceptCreate, Happens, tables
<1>4. SourceFits'
  BY NoneIsNoKey, RepostAssumption
  DEF RepostInv, SourceFits, TypeOK, AcceptCreate, RepostAssumption
<1>5. Fits(Db)'
  <2>. DEFINE db == [Db EXCEPT !.newer = placing]
  <2>1. /\ db.row = row /\ db.member = member /\ db.cluster = cluster
        /\ db.deleted = deleted /\ db.newer = placing
    BY DEF Db
  <2>2. RowsFit(db) /\ \A k \in Keys : ClusterFits(db, k)
    BY DEF RepostInv, Fits, RowsFit, ClusterFits, Members, Db
  <2>3. Fits(db)
    BY <1>2, <2>1, <2>2 DEF Fits
  <2>. HIDE DEF db
  <2>. QED BY <1>1, <2>1, <2>3, FitsNext DEF AcceptCreate, tables
<1>6. ToldAsIs' /\ NothingLifted
  BY HiddenWhere DEF ToldAsIs, Guarded, NothingLifted, AcceptCreate, Happens, tables
<1>7. decisions' = decisions
  BY DEF AcceptCreate, Happens
<1>8. Placed'
  <2>1. Known' = Known \cup {m}
    BY NoneIsNoKey, RepostAssumption
    DEF Known, AcceptCreate, RepostInv, TypeOK, RepostAssumption
  <2>2. member' = member
    BY DEF AcceptCreate, tables
  <2>. QED BY <1>1, <1>2, <2>1, <2>2 DEF RepostInv, Placed, Orders
<1>9. Elected(Db)'
  <2>. DEFINE db == [Db EXCEPT !.newer = placing]
  <2>1. /\ db.row = row /\ db.member = member /\ db.cluster = cluster /\ db.stale = stale
        /\ db.deleted = deleted /\ db.newer = placing
    BY DEF Db
  <2>. HIDE DEF db
  <2>2. m \notin Known
    BY DEF AcceptCreate, Known
  <2>3. ASSUME NEW k \in Keys PROVE Elects(db, k)
    <3>1. Elects(Db, k)
      BY DEF RepostInv, Elected
    <3>2. Members(db, k) = Members(Db, k) /\ Members(Db, k) \subseteq Messages \ {m}
      BY <2>1, <2>2, NoneIsNoKey DEF Members, Db, RepostInv, Placed
    <3>3. /\ Db.row = row /\ Db.member = member /\ Db.cluster = cluster /\ Db.stale = stale
          /\ Db.deleted = deleted /\ Db.newer = newer
      BY DEF Db
    <3>. QED BY <1>2, <2>1, <3>1, <3>2, <3>3, ElectsSame
  <2>4. Elected(db)
    BY <2>3 DEF Elected
  <2>5. UNCHANGED <<row, member, cluster, stale, deleted>>
    BY DEF AcceptCreate, tables
  <2>. QED BY <1>1, <2>1, <2>4, <2>5, ElectedNext
<1>. QED BY <1>3, <1>4, <1>5, <1>6, <1>7, <1>8, <1>9 DEF Keeps, RepostInv

(* The rows of m's message, taken out of the publication.                  *)
LEMMA OvertakenFits ==
    ASSUME RepostInv, NEW m \in Messages,
           NEW reason \in {"source_revision_superseded", "source_deleted"},
           NEW db \in Databases, db.row = Overtaken(m, reason), Strict(db.newer),
           db.cluster = cluster, db.stale = stale,
           \A p \in Messages \ {m} : p \in db.deleted <=> p \in deleted,
           db.member[m] \in {member[m], NoMember},
           \A p \in Messages \ {m} : db.member[p] = member[p],
           \A p, q \in Messages \ {m} : <<p, q>> \in db.newer <=> <<p, q>> \in newer
    PROVE  /\ RowsFit(db) /\ \A k \in Keys : ClusterFits(db, k)
           /\ db.row[m].state # "active" /\ ~InTurn(db.row[m])
           /\ \A p \in Messages \ {m} : db.row[p] = row[p]
           /\ \A k \in Keys \ ClusterOf(m) : Elects(db, k)
<1>1. /\ \A p \in Messages \ {m} : db.row[p] = row[p]
      /\ db.row[m] = IF row[m] = NoRow THEN NoRow ELSE Is("suppressed", reason)
  BY DEF Overtaken, RepostInv, TypeOK
<1>2. /\ db.row[m].state # "active" /\ ~InTurn(db.row[m])
      /\ db.row[m].reason \notin Hidden
  BY <1>1 DEF NoRow, Is, InTurn, Hidden
<1>3. RowsFit(db)
  BY <1>1, <1>2 DEF RepostInv, Fits, RowsFit, Db
<1>4. ASSUME NEW k \in Keys PROVE ClusterFits(db, k)
  <2>1. ClusterFits(Db, k) /\ Db.row = row /\ Db.member = member /\ Db.cluster = cluster
    BY DbTyped DEF RepostInv, Fits
  <2>2. \A p \in Messages : /\ db.member[p].key = k => Db.member[p].key = k
                            /\ db.row[p].state = "active" => Db.row[p].state = "active"
                            /\ db.row[p].reason \in Hidden => Db.row[p].reason \in Hidden
    BY <1>1, <1>2, <2>1, NoneIsNoKey DEF NoMember
  <2>. QED BY <2>1, <2>2, FewerFit
<1>5. ASSUME NEW k \in Keys \ ClusterOf(m) PROVE Elects(db, k)
  <2>1. Elects(Db, k)
    BY DEF RepostInv, Elected
  <2>2. /\ Db.row = row /\ Db.member = member /\ Db.cluster = cluster /\ Db.stale = stale
        /\ Db.deleted = deleted /\ Db.newer = newer
    BY DEF Db
  <2>3. member[m].key # k /\ NoMember.key = None
    BY ClusterOfKeys DEF RepostInv, NoMember
  <2>4. Members(db, k) = Members(Db, k) /\ Members(Db, k) \subseteq Messages \ {m}
    BY <2>2, <2>3, NoneIsNoKey DEF Members
  <2>. QED BY <1>1, <2>1, <2>2, <2>4, ElectsSame
<1>. QED BY <1>1, <1>2, <1>3, <1>4, <1>5

(* What is left of a revision's clusters when it is overtaken.             *)
LEMMA OvertakenKeeps ==
    ASSUME RepostInv, NEW m \in Messages,
           NEW reason \in {"source_revision_superseded", "source_deleted"},
           NEW db \in Databases, db.row = Overtaken(m, reason), Strict(db.newer),
           db.cluster = cluster, db.stale = stale,
           \A p \in Messages \ {m} : p \in db.deleted <=> p \in deleted,
           db.member[m] \in {member[m], NoMember},
           \A p \in Messages \ {m} : db.member[p] = member[p],
           \A p, q \in Messages \ {m} : <<p, q>> \in db.newer <=> <<p, q>> \in newer,
           db.out = {}
    PROVE  LET r == Reconcile(db, ClusterOf(m), "none", {m})
           IN /\ r \in Databases /\ Fits(r) /\ Elected(r)
              /\ r.deleted = db.deleted /\ r.newer = db.newer
              /\ \A p \in Messages : r.member[p].key = db.member[p].key
              /\ Accounted(r, told \ {m})
              /\ \A p \in Messages :
                     row[p].reason \in Hidden => r.row[p].state # "active"
<1>. DEFINE r == Reconcile(db, ClusterOf(m), "none", {m})
<1>1. /\ RowsFit(db) /\ \A k \in Keys : ClusterFits(db, k)
      /\ db.row[m].state # "active" /\ ~InTurn(db.row[m])
      /\ \A p \in Messages \ {m} : db.row[p] = row[p]
      /\ \A k \in Keys \ ClusterOf(m) : Elects(db, k)
  BY OvertakenFits
<1>2. ClusterOf(m) \in SUBSET Keys /\ {m} \in SUBSET Messages /\ "none" \in Reasons
  BY ClusterOfKeys DEF RepostInv, Reasons
<1>3. r \in Databases /\ Reconciles(db, ClusterOf(m), "none", {m}, r)
  BY <1>2, Reconciled
<1>4. Fits(r)
  BY <1>1, <1>2, ReconcileFits
<1>5. /\ OutAgrees(r)
      /\ \A p \in Messages : (r.row[p] = db.row[p] /\ ~Speaks(db, p)) \/ Speaks(r, p)
  BY <1>2, ReconcileSpeaks DEF OutAgrees
<1>6. r.row[m].state # "active"
  BY <1>1, <1>2, HiddenStays
<1>7. ASSUME NEW p \in Messages \ {m}, row[p].reason \in Hidden
      PROVE  r.row[p].state # "active"
  <2>1. db.row[p].state # "active"
    BY <1>1, <1>7, HiddenWhere
  <2>2. \/ db.member[p].key \notin ClusterOf(m)
        \/ db.cluster[db.member[p].key].moderation \in Withheld
    <3>1. CASE db.member[p] = NoMember
      BY <1>2, <3>1, NoneIsNoKey DEF NoMember
    <3>2. CASE db.member[p] = member[p]
      BY <1>2, <1>7, <3>2, HiddenWhere DEF Withheld
    <3>. QED BY <3>1, <3>2
  <2>. QED BY <1>1, <1>2, <2>1, <2>2, HiddenStays
<1>8. /\ r.deleted = db.deleted /\ r.newer = db.newer
      /\ \A p \in Messages : r.member[p].key = db.member[p].key
  BY <1>3 DEF Reconciles
<1>9. Elected(r)
  BY <1>1, <1>2, ReconcileElects
<1>. HIDE DEF r
<1>10. Accounted(r, told \ {m})
  BY <1>1, <1>5, <1>6 DEF Accounted
<1>. QED BY <1>3, <1>4, <1>6, <1>7, <1>8, <1>10, <1>9 DEF r

LEMMA EditKeeps ==
    ASSUME RepostInv, ToldAsIs, NEW m \in Messages, NEW t \in Texts, AcceptEdit(m, t)
    PROVE  Keeps
<1>. PICK placing \in Placings(m) :
          CommitRevision(m, WithoutReworded(
              [Db EXCEPT !.newer = placing,
                         !.row = Overtaken(m, "source_revision_superseded")], m, t))
  BY DEF AcceptEdit
<1>. DEFINE d == [Db EXCEPT !.newer = placing,
                            !.row = Overtaken(m, "source_revision_superseded")]
            db == WithoutReworded(d, m, t)
            r == Reconcile(db, ClusterOf(m), "none", {m})
<1>1. /\ placing \in SUBSET (Messages \X Messages) /\ Strict(placing)
      /\ Orders(placing, Known \cup {m})
      /\ \A p, q \in Messages \ {m} : <<p, q>> \in placing <=> <<p, q>> \in newer
  BY PlacingOrders DEF RepostInv, TypeOK, Fits, Placed, Db
<1>2. Overtaken(m, "source_revision_superseded") \in [Messages -> Rows]
  BY DEF Overtaken, RepostInv, TypeOK, Rows, Is, States, Reasons
<1>3. NoMember \in Memberships
  BY DEF NoMember, Memberships, NoRow, Is, Rows, States, Reasons
<1>4. /\ d \in Databases /\ d.row = Overtaken(m, "source_revision_superseded")
      /\ d.newer = placing /\ d.cluster = cluster /\ d.deleted = deleted /\ d.out = {}
      /\ d.member = member /\ d.stale = stale
  BY <1>1, <1>2, DbTyped DEF RepostInv, Databases
<1>. HIDE DEF d
<1>5. /\ db \in Databases /\ db.row = d.row /\ db.newer = d.newer
      /\ db.cluster = cluster /\ db.deleted = deleted /\ db.out = {} /\ db.stale = stale
      /\ db.member[m] \in {member[m], NoMember}
      /\ \A p \in Messages \ {m} : db.member[p] = member[p]
  BY <1>3, <1>4 DEF WithoutReworded, Databases
<1>. HIDE DEF db
<1>6. /\ r \in Databases /\ Fits(r) /\ Elected(r) /\ Accounted(r, told \ {m})
      /\ r.deleted = db.deleted /\ r.newer = db.newer
      /\ \A p \in Messages : r.member[p].key = db.member[p].key
      /\ \A p \in Messages : row[p].reason \in Hidden => r.row[p].state # "active"
  <2>1. /\ \A p \in Messages \ {m} : p \in db.deleted <=> p \in deleted
        /\ \A p, q \in Messages \ {m} : <<p, q>> \in db.newer <=> <<p, q>> \in newer
        /\ db.row = Overtaken(m, "source_revision_superseded") /\ Strict(db.newer)
    BY <1>1, <1>4, <1>5
  <2>. QED BY <1>5, <2>1, OvertakenKeeps
<1>. HIDE DEF r
<1>7. Commit(r, [sent EXCEPT ![m] = {}], told \ {m})
  BY DEF CommitRevision, r, db, d
<1>8. SourceFits'
  <2>1. deleted' = deleted
    BY <1>5, <1>6, <1>7 DEF Commit
  <2>. QED BY <2>1, NoneIsNoKey, RepostAssumption
          DEF RepostInv, SourceFits, TypeOK, AcceptEdit, RepostAssumption
<1>9. /\ text' \in [Messages -> Texts \cup {None}] /\ pending' \subseteq Messages
      /\ unroutable' \subseteq Messages /\ triggered' \subseteq Messages
      /\ UNCHANGED <<barred, chat, decisions>>
  BY DEF RepostInv, TypeOK, AcceptEdit, Happens
<1>10. Placed'
  <2>1. newer' = placing /\ deleted' = deleted /\ member' = r.member
    BY <1>4, <1>5, <1>6, <1>7 DEF Commit
  <2>2. text' = [text EXCEPT ![m] = t] /\ text[m] # None
    BY DEF AcceptEdit
  <2>3. Known' = Known /\ m \in Known
    BY <2>1, <2>2, NoneIsNoKey, RepostAssumption
    DEF Known, RepostInv, TypeOK, RepostAssumption
  <2>4. \A p \in Messages : member'[p].key # None => p \in Known
    BY <1>5, <1>6, <2>1, <2>3 DEF RepostInv, Placed
  <2>5. Orders(placing, Known)
    BY <1>1, <2>3 DEF Orders
  <2>. QED BY <2>1, <2>3, <2>4, <2>5 DEF Placed
<1>. QED BY <1>6, <1>7, <1>8, <1>9, <1>10, CommitKeeps, KeysTyped

(* A cluster that is dissolved has nobody.                                 *)
LEMMA DissolvedFits ==
    ASSUME NEW db \in Databases, Fits(db), Elected(db), NEW keys \in SUBSET Keys
    PROVE  LET d == Dissolved(db, keys)
           IN /\ d \in Databases /\ Fits(d) /\ Elected(d) /\ d.newer = db.newer
              /\ d.row = db.row /\ d.deleted = db.deleted /\ d.out = db.out
              /\ \A m \in Messages : d.member[m].key \in {db.member[m].key, None}
<1>. DEFINE empty == {k \in keys : Members(db, k) \subseteq db.deleted}
            clus == [k \in Keys |-> IF k \in empty THEN NoCluster ELSE db.cluster[k]]
            mems == [m \in Messages |-> IF db.member[m].key \in empty THEN NoMember
                                        ELSE db.member[m]]
            d == Dissolved(db, keys)
<1>1. d = [db EXCEPT !.cluster = clus, !.member = mems]
  BY DEF Dissolved
<1>2. NoMember \in Memberships /\ NoCluster \in Clusters
  BY DEF NoMember, Memberships, NoCluster, Clusters, NoRow, Is, Rows, States, Reasons
<1>. HIDE DEF empty, d
<1>3. clus \in [Keys -> Clusters] /\ mems \in [Messages -> Memberships]
  BY <1>2, DbFields
<1>4. /\ d \in Databases /\ d.row = db.row /\ d.cluster = clus /\ d.member = mems
      /\ d.deleted = db.deleted /\ d.newer = db.newer /\ d.out = db.out
      /\ d.stale = db.stale
  <2>. HIDE DEF clus, mems
  <2>. QED BY <1>1, <1>3 DEF Databases
<1>5. ASSUME NEW k \in Keys PROVE ClusterFits(d, k)
  <2>1. CASE k \in empty
    <3>1. \A m \in Messages : d.member[m].key # k
      BY <1>4, <2>1, NoneIsNoKey DEF NoMember
    <3>. QED BY <3>1 DEF ClusterFits, Members
  <2>2. CASE k \notin empty
    <3>1. ClusterFits(db, k)
      BY DEF Fits
    <3>2. /\ d.cluster[k].moderation = db.cluster[k].moderation
          /\ \A m \in Messages :
                /\ d.member[m].key = k => db.member[m].key = k
                /\ d.row[m].state = "active" => db.row[m].state = "active"
                /\ d.row[m].reason \in Hidden => db.row[m].reason \in Hidden
      BY <1>4, <2>2, NoneIsNoKey DEF NoMember
    <3>. QED BY <3>1, <3>2, FewerFit
  <2>. QED BY <2>1, <2>2
<1>6. RowsFit(d) /\ Strict(d.newer)
  BY <1>4 DEF Fits, RowsFit
<1>7. ASSUME NEW k \in Keys PROVE Elects(d, k)
  <2>1. CASE k \in empty
    <3>1. \A m \in Messages : d.member[m].key # k
      BY <1>4, <2>1, NoneIsNoKey DEF NoMember
    <3>. QED BY <3>1 DEF Elects, Members, Newest, Candidates
  <2>2. CASE k \notin empty
    <3>1. Elects(db, k)
      BY DEF Elected
    <3>2. Members(d, k) = Members(db, k)
          /\ \A m \in Members(db, k) : d.member[m] = db.member[m]
      BY <1>4, <2>2, NoneIsNoKey DEF NoMember, Members
    <3>3. d.cluster[k] = db.cluster[k]
      BY <1>4, <2>2
    <3>. QED BY <1>4, <3>1, <3>2, <3>3, ElectsSame
  <2>. QED BY <2>1, <2>2
<1>8. \A m \in Messages : d.member[m].key \in {db.member[m].key, None}
  BY <1>4 DEF NoMember
<1>. QED BY <1>4, <1>5, <1>6, <1>7, <1>8 DEF Fits, Elected, d

LEMMA DeleteKeeps ==
    ASSUME RepostInv, ToldAsIs, NEW m \in Messages, AcceptDelete(m)
    PROVE  Keeps
<1>. DEFINE gone == [Db EXCEPT !.deleted = @ \cup {m},
                               !.row = Overtaken(m, "source_deleted")]
            r == Reconcile(gone, ClusterOf(m), "none", {m})
            db == Dissolved(r, ClusterOf(m))
<1>1. Overtaken(m, "source_deleted") \in [Messages -> Rows]
  BY DEF Overtaken, RepostInv, TypeOK, Rows, Is, States, Reasons
<1>2. /\ gone \in Databases /\ gone.row = Overtaken(m, "source_deleted")
      /\ gone.newer = newer /\ gone.cluster = cluster /\ gone.deleted = deleted \cup {m}
      /\ gone.out = {} /\ gone.member = member /\ gone.stale = stale
  BY <1>1, DbTyped DEF RepostInv, Databases
<1>3. Strict(newer)
  BY DEF RepostInv, Fits, Db
<1>. HIDE DEF gone
<1>4. /\ r \in Databases /\ Fits(r) /\ Elected(r) /\ Accounted(r, told \ {m})
      /\ r.deleted = deleted \cup {m} /\ r.newer = newer
      /\ \A p \in Messages : r.member[p].key = member[p].key
      /\ \A p \in Messages : row[p].reason \in Hidden => r.row[p].state # "active"
  BY <1>2, <1>3, OvertakenKeeps
<1>. HIDE DEF r
<1>5. /\ db \in Databases /\ Fits(db) /\ Elected(db) /\ db.row = r.row
      /\ db.deleted = r.deleted /\ db.out = r.out /\ db.newer = r.newer
      /\ \A p \in Messages : db.member[p].key \in {r.member[p].key, None}
  BY <1>4, DissolvedFits, ClusterOfKeys DEF RepostInv
<1>. HIDE DEF db
<1>6. Commit(db, [sent EXCEPT ![m] = {}], told \ {m})
  BY DEF AcceptDelete, db, r, gone
<1>7. Accounted(db, told \ {m})
  BY <1>4, <1>5 DEF Accounted, OutAgrees, Speaks
<1>8. SourceFits'
  BY <1>4, <1>5, <1>6 DEF Commit, RepostInv, SourceFits, TypeOK, AcceptDelete
<1>9. /\ text' \in [Messages -> Texts \cup {None}] /\ pending' \subseteq Messages
      /\ unroutable' \subseteq Messages /\ triggered' \subseteq Messages
      /\ UNCHANGED <<barred, chat, decisions>>
  BY DEF RepostInv, TypeOK, AcceptDelete, Happens
<1>10. Placed'
  <2>1. newer' = newer /\ deleted' = deleted \cup {m} /\ member' = db.member
    BY <1>4, <1>5, <1>6 DEF Commit
  <2>2. text' = [text EXCEPT ![m] = None] /\ text[m] # None
    BY DEF AcceptDelete
  <2>3. \A p \in Messages : text'[p] # None \/ p \in deleted' <=> p \in Known
    BY <2>1, <2>2 DEF Known, RepostInv, TypeOK
  <2>. QED BY <1>4, <1>5, <2>1, <2>3, PlacedSame DEF RepostInv
<1>. QED BY <1>4, <1>5, <1>6, <1>7, <1>8, <1>9, <1>10, CommitKeeps, KeysTyped
-----------------------------------------------------------------------------
(* An Opportunity leaves the cluster it was in, and the next one in turn   *)
(* there is told.                                                          *)
LEMMA LeaveFits ==
    ASSUME NEW d \in Databases, RowsFit(d), Strict(d.newer), d.out = {},
           NEW m \in Messages, NEW k \in Keys,
           \A j \in Keys : j # d.member[m].key => ClusterFits(d, j) /\ Elects(d, j)
    PROVE  LET l == Leave(d, m, k)
           IN /\ l \in Databases /\ RowsFit(l) /\ Strict(l.newer)
              /\ \A j \in Keys \ {k} : ClusterFits(l, j) /\ Elects(l, j)
              /\ l.deleted = d.deleted /\ l.stale = d.stale /\ l.newer = d.newer
              /\ l.member[m].key \in {k, None}
              /\ \A p \in Messages \ {m} : l.member[p].key = d.member[p].key
              /\ \A j \in Keys : l.cluster[j].moderation = d.cluster[j].moderation
              /\ OutAgrees(l)
              /\ \A p \in l.out : p.opp \in Messages \ {m} /\ l.member[p.opp].key # k
              /\ \A p \in Messages : l.row[p] = d.row[p] \/ Speaks(l, p)
              /\ \A p \in Messages : /\ d.row[p].state # "active"
                                     /\ \/ d.member[p].key \notin Keys
                                        \/ d.cluster[d.member[p].key].moderation \in Withheld
                                     /\ p # m
                                     => l.row[p].state # "active"
<1>. DEFINE old == d.member[m].key
            l == Leave(d, m, k)
<1>1. None \notin Keys /\ old \in Keys \cup {None}
  BY NoneIsNoKey, DbFields
<1>2. CASE old \in {k, None}
  <2>1. l = d
    BY <1>2 DEF Leave
  <2>2. \A j \in Keys \ {k} : ClusterFits(d, j) /\ Elects(d, j)
    BY <1>1, <1>2
  <2>. HIDE DEF l
  <2>3. OutAgrees(l) /\ \A p \in l.out : p.opp \in Messages \ {m} /\ l.member[p.opp].key # k
    BY <2>1 DEF OutAgrees
  <2>4. l.member[m].key \in {k, None}
    BY <1>2, <2>1
  <2>. QED BY <2>1, <2>2, <2>3, <2>4 DEF l
<1>3. CASE old \notin {k, None}
  <2>. DEFINE e == [d EXCEPT !.member[m] = NoMember]
  <2>1. NoMember \in Memberships /\ NoMember.key = None
    BY DEF NoMember, Memberships, NoRow, Is, Rows, States, Reasons
  <2>2. /\ e \in Databases /\ e.row = d.row /\ e.cluster = d.cluster /\ e.stale = d.stale
        /\ e.deleted = d.deleted /\ e.newer = d.newer /\ e.out = {}
        /\ e.member[m].key = None /\ \A p \in Messages \ {m} : e.member[p] = d.member[p]
    BY <2>1 DEF Databases
  <2>3. l = Reconcile(e, {old}, "none", {})
    BY <1>3 DEF Leave
  <2>. HIDE DEF e, l
  <2>4. {old} \in SUBSET Keys /\ {} \in SUBSET Messages /\ "none" \in Reasons
    BY <1>1, <1>3 DEF Reasons
  <2>5. RowsFit(e)
    BY <2>2 DEF RowsFit
  <2>6. ASSUME NEW j \in Keys \ {old} PROVE ClusterFits(e, j)
    <3>1. ClusterFits(d, j)
      OBVIOUS
    <3>2. \A p \in Messages : e.member[p].key = j => d.member[p].key = j
      BY <1>1, <2>2
    <3>. QED BY <2>2, <3>1, <3>2, FewerFit
  <2>7. ASSUME NEW j \in Keys \ {old} PROVE Elects(e, j)
    <3>1. Elects(d, j)
      OBVIOUS
    <3>2. Members(e, j) = Members(d, j) /\ Members(d, j) \subseteq Messages \ {m}
      BY <1>1, <2>2 DEF Members
    <3>. QED BY <2>2, <3>1, <3>2, ElectsSame
  <2>8. Elected(l)
    BY <2>2, <2>3, <2>4, <2>5, <2>7, ReconcileElects
  <2>9. l \in Databases /\ Reconciles(e, {old}, "none", {}, l)
    BY <2>2, <2>3, <2>4, Reconciled
  <2>10. Fits(l)
    BY <2>2, <2>3, <2>4, <2>5, <2>6, ReconcileFits
  <2>11. OutAgrees(l) /\ \A p \in Messages : l.row[p] = d.row[p] \/ Speaks(l, p)
    <3>1. /\ OutAgrees(e)
          /\ \A p \in e.out : e.member[p.opp].key \in {old}
                 => p.now = Desired(e, e.member[p.opp].key, p.opp, "none")
      BY <2>2 DEF OutAgrees
    <3>2. /\ OutAgrees(Reconcile(e, {old}, "none", {}))
          /\ \A p \in Messages : \/ /\ Reconcile(e, {old}, "none", {}).row[p] = e.row[p]
                                    /\ ~Speaks(e, p)
                                 \/ Speaks(Reconcile(e, {old}, "none", {}), p)
      BY <2>2, <2>4, <3>1, ReconcileSpeaks
    <3>. QED BY <2>2, <2>3, <3>2
  <2>12. /\ l.deleted = d.deleted /\ l.stale = d.stale /\ l.newer = d.newer
         /\ l.member[m].key = None
         /\ \A p \in Messages \ {m} : l.member[p].key = d.member[p].key
         /\ \A j \in Keys : l.cluster[j].moderation = d.cluster[j].moderation
    BY <2>2, <2>9 DEF Reconciles
  <2>13. ASSUME NEW p \in l.out
         PROVE  p.opp \in Messages \ {m} /\ l.member[p.opp].key # k
    <3>1. p.opp \in Messages
      BY <2>9, DbFields DEF Tellings
    <3>2. e.member[p.opp].key = old
      <4>1. p \in e.out \/ e.member[p.opp].key \in {old}
        BY Zenon, <2>9 DEF Reconciles
      <4>. QED BY <2>2, <4>1
    <3>. QED BY <1>1, <1>3, <2>2, <2>12, <3>1, <3>2
  <2>14. ASSUME NEW p \in Messages \ {m}, d.row[p].state # "active",
                \/ d.member[p].key \notin Keys
                \/ d.cluster[d.member[p].key].moderation \in Withheld
         PROVE  l.row[p].state # "active"
    <3>1. \/ e.member[p].key \notin {old}
          \/ e.cluster[e.member[p].key].moderation \in Withheld
      BY <1>1, <2>2, <2>4, <2>14
    <3>2. e.row[p].state # "active" /\ Strict(e.newer)
      BY <2>2, <2>14
    <3>3. Reconcile(e, {old}, "none", {}).row[p].state # "active"
      BY <2>2, <2>4, <2>5, <3>1, <3>2, HiddenStays
    <3>. QED BY Zenon, <2>3, <3>3
  <2>. QED BY <2>9, <2>10, <2>11, <2>12, <2>13, <2>14, <2>8 DEF Fits, Elected, l
<1>. QED BY <1>2, <1>3

LEMMA JoinTyped ==
    ASSUME NEW l \in Databases, NEW m \in Messages, NEW k \in Keys, NEW flagged \in BOOLEAN
    PROVE  LET j == Join(l, m, k, flagged)
           IN /\ j \in Databases /\ j.row = l.row /\ j.out = l.out
              /\ j.stale = l.stale /\ j.deleted = l.deleted /\ j.newer = l.newer
              /\ j.member[m].key = k
              /\ \A p \in Messages \ {m} : j.member[p] = l.member[p]
              /\ \A i \in Keys \ {k} : j.cluster[i] = l.cluster[i]
              /\ l.cluster[k].moderation \in Withheld => j.cluster[k].moderation \in Withheld
<1>. DEFINE c == [moderation |-> ReviewJoined(l.cluster[k].moderation, flagged),
                  rep |-> l.cluster[k].rep, n |-> l.cluster[k].n,
                  state |-> IF l.cluster[k] = NoCluster THEN "active"
                            ELSE l.cluster[k].state]
            b == [key |-> k, rep |-> l.member[m].key = k /\ l.member[m].rep,
                  shows |-> l.row[m]]
            j == Join(l, m, k, flagged)
<1>1. j = [l EXCEPT !.cluster[k] = c, !.member[m] = b]
  BY DEF Join
<1>2. l.cluster[k] \in Clusters /\ l.row[m] \in Rows
  BY DbFields
<1>3. ReviewJoined(l.cluster[k].moderation, flagged)
          \in {"absent", "none", "approved", "held_for_review", "suppressed"}
  BY <1>2 DEF ReviewJoined, Clusters
<1>4. c \in Clusters
  BY <1>2, <1>3 DEF Clusters, States
<1>5. b \in Memberships
  <2>1. (l.member[m].key = k /\ l.member[m].rep) \in BOOLEAN
    OBVIOUS
  <2>. QED BY <1>2, <2>1 DEF Memberships
<1>6. l.cluster[k].moderation \in Withheld => c.moderation \in Withheld
  BY DEF ReviewJoined, Withheld
<1>7. b.key = k
  OBVIOUS
<1>. HIDE DEF c, b, j
<1>8. /\ j.cluster = [l.cluster EXCEPT ![k] = c] /\ j.member = [l.member EXCEPT ![m] = b]
      /\ j.row = l.row /\ j.out = l.out
      /\ j.stale = l.stale /\ j.deleted = l.deleted /\ j.newer = l.newer
  BY <1>1 DEF Databases
<1>9. j \in Databases
  BY <1>1, <1>4, <1>5 DEF Databases
<1>10. /\ j.member[m].key = k
       /\ \A p \in Messages \ {m} : j.member[p] = l.member[p]
       /\ \A i \in Keys \ {k} : j.cluster[i] = l.cluster[i]
       /\ l.cluster[k].moderation \in Withheld => j.cluster[k].moderation \in Withheld
  BY <1>6, <1>7, <1>8, DbFields
<1>. QED BY <1>8, <1>9, <1>10 DEF j

LEMMA ArbitrateFits ==
    ASSUME NEW d \in Databases, RowsFit(d), Strict(d.newer), d.out = {},
           NEW m \in Messages, NEW k \in Keys, NEW flagged \in BOOLEAN,
           \A j \in Keys : j # d.member[m].key => ClusterFits(d, j) /\ Elects(d, j)
    PROVE  LET r == Arbitrate(d, m, k, flagged)
           IN /\ r \in Databases /\ Fits(r) /\ Elected(r) /\ OutAgrees(r)
              /\ r.deleted = d.deleted /\ r.newer = d.newer
              /\ \A p \in Messages \ {m} : r.member[p].key = d.member[p].key
              /\ \A p \in Messages : r.row[p] = d.row[p] \/ Speaks(r, p)
              /\ \A p \in Messages : /\ d.row[p].state # "active"
                                     /\ \/ d.member[p].key \notin Keys
                                        \/ d.cluster[d.member[p].key].moderation \in Withheld
                                     /\ p # m
                                     => r.row[p].state # "active"
<1>. DEFINE l == Leave(d, m, k)
            j == Join(l, m, k, flagged)
            r == Arbitrate(d, m, k, flagged)
<1>1. /\ l \in Databases /\ RowsFit(l) /\ Strict(l.newer)
      /\ \A i \in Keys \ {k} : ClusterFits(l, i) /\ Elects(l, i)
      /\ l.deleted = d.deleted /\ l.newer = d.newer /\ l.member[m].key \in {k, None}
      /\ \A p \in Messages \ {m} : l.member[p].key = d.member[p].key
      /\ \A i \in Keys : l.cluster[i].moderation = d.cluster[i].moderation
      /\ OutAgrees(l)
      /\ \A p \in l.out : p.opp \in Messages \ {m} /\ l.member[p.opp].key # k
      /\ \A p \in Messages : l.row[p] = d.row[p] \/ Speaks(l, p)
      /\ \A p \in Messages : /\ d.row[p].state # "active"
                             /\ \/ d.member[p].key \notin Keys
                                \/ d.cluster[d.member[p].key].moderation \in Withheld
                             /\ p # m
                             => l.row[p].state # "active"
  BY LeaveFits
<1>. HIDE DEF l
<1>2. /\ j \in Databases /\ j.row = l.row /\ j.out = l.out
      /\ j.stale = l.stale /\ j.deleted = l.deleted /\ j.newer = l.newer
      /\ j.member[m].key = k
      /\ \A p \in Messages \ {m} : j.member[p] = l.member[p]
      /\ \A i \in Keys \ {k} : j.cluster[i] = l.cluster[i]
      /\ l.cluster[k].moderation \in Withheld => j.cluster[k].moderation \in Withheld
  BY <1>1, JoinTyped
<1>3. r = Reconcile(j, {k}, "none", {})
  BY DEF Arbitrate, l
<1>. HIDE DEF j, r
<1>4. {k} \in SUBSET Keys /\ {} \in SUBSET Messages /\ "none" \in Reasons
  BY DEF Reasons
<1>5. RowsFit(j)
  BY <1>1, <1>2 DEF RowsFit
<1>6. ASSUME NEW i \in Keys \ {k} PROVE ClusterFits(j, i)
  <2>1. ClusterFits(l, i)
    BY <1>1
  <2>2. \A p \in Messages : j.member[p].key = i => l.member[p].key = i
    BY <1>2
  <2>. QED BY <1>2, <2>1, <2>2, FewerFit
<1>7. ASSUME NEW i \in Keys \ {k} PROVE Elects(j, i)
  <2>1. Elects(l, i)
    BY <1>1
  <2>2. Members(j, i) = Members(l, i) /\ Members(l, i) \subseteq Messages \ {m}
    BY <1>1, <1>2, NoneIsNoKey DEF Members
  <2>. QED BY <1>2, <2>1, <2>2, ElectsSame
<1>8. Elected(r)
  BY <1>1, <1>2, <1>3, <1>4, <1>5, <1>7, ReconcileElects
<1>9. r \in Databases /\ Reconciles(j, {k}, "none", {}, r)
  BY <1>2, <1>3, <1>4, Reconciled
<1>10. Fits(r)
  BY <1>1, <1>2, <1>3, <1>4, <1>5, <1>6, ReconcileFits
<1>11. OutAgrees(r) /\ \A p \in Messages : r.row[p] = d.row[p] \/ Speaks(r, p)
  <2>1. OutAgrees(j)
    BY <1>1, <1>2 DEF OutAgrees
  <2>2. \A p \in j.out : j.member[p.opp].key # k
    BY <1>1, <1>2
  <2>3. \A p \in j.out : j.member[p.opp].key \in {k}
            => p.now = Desired(j, j.member[p.opp].key, p.opp, "none")
    BY <2>2
  <2>4. /\ OutAgrees(Reconcile(j, {k}, "none", {}))
        /\ \A p \in Messages : \/ /\ Reconcile(j, {k}, "none", {}).row[p] = j.row[p]
                                  /\ ~Speaks(j, p)
                               \/ Speaks(Reconcile(j, {k}, "none", {}), p)
    BY <1>2, <1>4, <2>1, <2>3, ReconcileSpeaks
  <2>5. \A p \in Messages : Speaks(l, p) => Speaks(j, p)
    BY <1>2 DEF Speaks
  <2>6. /\ OutAgrees(r)
        /\ \A p \in Messages : (r.row[p] = j.row[p] /\ ~Speaks(j, p)) \/ Speaks(r, p)
    BY <1>3, <2>4
  <2>. QED BY <1>1, <1>2, <2>5, <2>6
<1>12. ASSUME NEW p \in Messages \ {m}, d.row[p].state # "active",
              \/ d.member[p].key \notin Keys
              \/ d.cluster[d.member[p].key].moderation \in Withheld
       PROVE  r.row[p].state # "active"
  <2>1. j.row[p].state # "active" /\ j.member[p].key = d.member[p].key
    BY <1>1, <1>2, <1>12
  <2>2. \/ j.member[p].key \notin {k}
        \/ j.cluster[j.member[p].key].moderation \in Withheld
    BY <1>1, <1>2, <1>12, <2>1
  <2>. QED BY <1>1, <1>2, <1>3, <1>4, <1>5, <2>1, <2>2, HiddenStays
<1>13. /\ r.deleted = d.deleted /\ r.newer = d.newer
       /\ \A p \in Messages \ {m} : r.member[p].key = d.member[p].key
  BY <1>1, <1>2, <1>9 DEF Reconciles
<1>. QED BY <1>9, <1>10, <1>11, <1>12, <1>13, <1>8 DEF r

LEMMA PublishKeeps ==
    ASSUME RepostInv, ToldAsIs, NEW m \in Messages, NEW date \in Dates,
           NEW flagged \in BOOLEAN, NEW outdated \in BOOLEAN,
           PublishOpportunity(m, date, flagged, outdated)
    PROVE  Keeps
<1>. DEFINE k == <<text[m], date>>
            accepted == IF flagged THEN Is("held_for_review", "moderation_held")
                        ELSE Is("active", "none")
            kept == [Db EXCEPT !.row[m] = accepted,
                               !.stale = IF outdated THEN @ \cup {m} ELSE @ \ {m}]
            r == Arbitrate(kept, m, k, flagged)
            own == Telling(m, r.row[m],
                           IF r.row[m] = accepted THEN 0 ELSE r.cluster[k].n)
            db == [r EXCEPT !.out = {p \in @ : p.opp # m} \cup {own}]
<1>1. m \in pending /\ text[m] # None /\ m \notin deleted /\ k \in Keys
  BY DEF PublishOpportunity, Taken, RepostInv, SourceFits, TypeOK, Keys
<1>2. /\ accepted \in Rows /\ accepted.reason \notin Hidden
      /\ accepted.state = "active" => accepted.reason = "none"
  BY DEF Is, Rows, States, Reasons, Hidden
<1>3. /\ kept \in Databases /\ kept.row = [row EXCEPT ![m] = accepted]
      /\ kept.member = member /\ kept.cluster = cluster /\ kept.deleted = deleted
      /\ kept.newer = newer /\ kept.out = {}
      /\ \A p \in Messages \ {m} : p \in kept.stale <=> p \in stale
  BY <1>2, DbTyped DEF RepostInv, Databases
<1>4. Commit(db, sent, told)
  BY DEF PublishOpportunity
<1>. HIDE DEF kept, accepted, k
<1>5. kept.row[m] = accepted /\ \A p \in Messages \ {m} : kept.row[p] = row[p]
  BY <1>3, DbTyped DEF RepostInv, TypeOK
<1>6. RowsFit(kept) /\ Strict(kept.newer)
  BY <1>1, <1>2, <1>3, <1>5 DEF RepostInv, Fits, RowsFit, Db
<1>7. ASSUME NEW j \in Keys, j # kept.member[m].key
      PROVE  ClusterFits(kept, j) /\ Elects(kept, j)
  <2>1. /\ ClusterFits(Db, j) /\ Elects(Db, j)
        /\ Db.row = row /\ Db.member = member /\ Db.cluster = cluster
        /\ Db.stale = stale /\ Db.deleted = deleted /\ Db.newer = newer
    BY DbTyped DEF RepostInv, Fits, Elected
  <2>2. \A p \in Members(kept, j) : p \in Members(Db, j) /\ kept.row[p] = Db.row[p]
    BY <1>3, <1>5, <1>7, <2>1 DEF Members
  <2>3. ClusterFits(kept, j)
    BY <1>3, <2>1, <2>2 DEF ClusterFits
  <2>4. Members(kept, j) = Members(Db, j) /\ Members(Db, j) \subseteq Messages \ {m}
    BY <1>3, <1>7, <2>1 DEF Members
  <2>5. Elects(kept, j)
    <3>1. \A p \in Members(Db, j) :
             /\ kept.row[p] = Db.row[p] /\ kept.member[p].rep = Db.member[p].rep
             /\ p \in kept.stale <=> p \in Db.stale
             /\ p \in kept.deleted <=> p \in Db.deleted
      BY <1>3, <1>5, <2>1, <2>4
    <3>2. \A p, q \in Members(Db, j) : <<p, q>> \in kept.newer <=> <<p, q>> \in Db.newer
      BY <1>3, <2>1
    <3>3. kept.cluster[j].moderation = Db.cluster[j].moderation
      BY <1>3, <2>1
    <3>. QED BY <2>1, <2>4, <3>1, <3>2, <3>3, ElectsSame
  <2>. QED BY <2>3, <2>5
<1>8. /\ r \in Databases /\ Fits(r) /\ Elected(r) /\ OutAgrees(r)
      /\ r.deleted = deleted /\ r.newer = kept.newer
      /\ \A p \in Messages \ {m} : r.member[p].key = kept.member[p].key
      /\ \A p \in Messages : r.row[p] = kept.row[p] \/ Speaks(r, p)
      /\ \A p \in Messages : /\ kept.row[p].state # "active"
                             /\ \/ kept.member[p].key \notin Keys
                                \/ kept.cluster[kept.member[p].key].moderation \in Withheld
                             /\ p # m
                             => r.row[p].state # "active"
  <2>1. \A j \in Keys : j # kept.member[m].key => ClusterFits(kept, j) /\ Elects(kept, j)
    BY <1>7
  <2>2. kept.deleted = deleted /\ kept \in Databases /\ kept.out = {} /\ k \in Keys
    BY <1>1, <1>3
  <2>. QED BY <1>6, <2>1, <2>2, ArbitrateFits
<1>. HIDE DEF r
<1>9. own \in Tellings /\ own.opp = m /\ own.now = r.row[m]
  BY <1>1, <1>8, DbFields DEF Telling, Tellings, Clusters
<1>. HIDE DEF own
<1>10. /\ db \in Databases /\ db.row = r.row /\ db.member = r.member
       /\ db.cluster = r.cluster /\ db.deleted = r.deleted /\ db.newer = r.newer
       /\ db.stale = r.stale /\ db.out = {p \in r.out : p.opp # m} \cup {own}
  BY <1>8, <1>9 DEF Databases
<1>. HIDE DEF db
<1>11. Fits(db)
  BY <1>8, <1>10, FitsSame
<1>12. Accounted(db, told)
  <2>1. OutAgrees(db)
    BY <1>8, <1>9, <1>10 DEF OutAgrees
  <2>2. Speaks(db, m)
    BY <1>9, <1>10 DEF Speaks
  <2>3. ASSUME NEW p \in Messages \ {m} PROVE db.row[p] = row[p] \/ Speaks(db, p)
    BY <1>5, <1>8, <1>10 DEF Speaks
  <2>. QED BY <2>1, <2>2, <2>3 DEF Accounted
<1>13. ASSUME NEW p \in Messages, row[p].reason \in Hidden, db.row[p].state = "active"
       PROVE  p \in pending \ pending'
  <2>1. CASE p = m
    BY <1>1, <2>1 DEF PublishOpportunity, Taken
  <2>2. CASE p # m
    <3>1. /\ kept.row[p] = row[p] /\ kept.row[p].state # "active"
          /\ kept.member[p] = member[p] /\ kept.cluster = cluster
      BY <1>3, <1>5, <1>13, <2>2, HiddenWhere
    <3>2. \/ member[p].key \notin Keys
          \/ cluster[member[p].key].moderation \in Withheld
      BY <1>13, HiddenWhere DEF Withheld
    <3>3. r.row[p].state # "active"
      BY <1>8, <2>2, <3>1, <3>2
    <3>. QED BY <1>10, <1>13, <3>3
  <2>. QED BY <2>1, <2>2
<1>18. /\ text' = text /\ pending' \subseteq pending
       /\ newer' = newer /\ deleted' = deleted /\ member' = r.member
  <2>1. text' = text /\ pending' = pending \ {m}
    BY Zenon DEF PublishOpportunity, Taken
  <2>2. newer' = db.newer /\ deleted' = db.deleted /\ member' = db.member
    BY Zenon, <1>4, Committed
  <2>. QED BY <1>3, <1>8, <1>10, <2>1, <2>2
<1>14. SourceFits'
  BY <1>18, SourceKept
<1>15. /\ text' \in [Messages -> Texts \cup {None}] /\ pending' \subseteq Messages
       /\ unroutable' \subseteq Messages /\ triggered' \subseteq Messages
       /\ UNCHANGED <<barred, chat, decisions>>
  BY DEF RepostInv, TypeOK, PublishOpportunity, Taken
<1>16. Elected(db)
  <2>1. ASSUME NEW j \in Keys PROVE Elects(db, j)
    <3>1. Elects(r, j) /\ Members(db, j) = Members(r, j)
      BY <1>8, <1>10 DEF Elected, Members
    <3>. QED BY <1>10, <3>1, ElectsSame
  <2>. QED BY <2>1 DEF Elected
<1>17. Placed'
  <2>1. \A p \in Messages : member'[p].key # None => member[p].key # None \/ p \in Known
    BY <1>1, <1>3, <1>8, <1>18 DEF Known
  <2>. QED BY <1>18, <2>1, PlacesKept
<1>. QED BY <1>4, <1>10, <1>11, <1>12, <1>13, <1>14, <1>15, <1>16, <1>17, CommitKeeps, KeysTyped
-----------------------------------------------------------------------------
(* A row that changes outside every cluster, or stops being shown.         *)
LEMMA RowKeeps ==
    ASSUME RepostInv, ToldAsIs, NEW m \in Messages, NEW now \in Rows,
           Commit([Db EXCEPT !.row[m] = now, !.out = {Telling(m, now, 0)}], sent, told),
           now.state = "active" => now.reason = "none" /\ m \notin deleted,
           now.reason \in Hidden => now.state = "suppressed",
           \/ member[m].key = None
           \/ /\ now.state # "active" /\ now.reason \notin Hidden /\ ~InTurn(now)
              /\ row[m].state = "active" \/ ~InTurn(row[m]),
           text' \in [Messages -> Texts \cup {None}], pending' \subseteq Messages,
           unroutable' \subseteq Messages, triggered' \subseteq Messages,
           UNCHANGED <<text, barred, chat>>, pending' \subseteq pending,
           decisions' \in {decisions, decisions + 1},
           now.state = "active" => decisions' = decisions + 1
    PROVE  Keeps
<1>. DEFINE db == [Db EXCEPT !.row[m] = now, !.out = {Telling(m, now, 0)}]
<1>1. Telling(m, now, 0) \in Tellings /\ Telling(m, now, 0).opp = m
      /\ Telling(m, now, 0).now = now
  BY DEF Telling, Tellings
<1>2. /\ db \in Databases /\ db.row = [row EXCEPT ![m] = now] /\ db.member = member
      /\ db.cluster = cluster /\ db.deleted = deleted /\ db.newer = newer
      /\ db.stale = stale /\ db.out = {Telling(m, now, 0)}
  BY <1>1, DbTyped DEF RepostInv, Databases
<1>. HIDE DEF db
<1>3. db.row[m] = now /\ \A p \in Messages \ {m} : db.row[p] = row[p]
  BY <1>2, DbTyped DEF RepostInv, TypeOK
<1>4. RowsFit(db) /\ Strict(db.newer)
  BY <1>2, <1>3 DEF RepostInv, Fits, RowsFit, Db
<1>5. ASSUME NEW k \in Keys PROVE ClusterFits(db, k)
  <2>1. ClusterFits(Db, k) /\ Db.row = row /\ Db.member = member /\ Db.cluster = cluster
    BY DbTyped DEF RepostInv, Fits
  <2>2. ASSUME NEW p \in Members(db, k)
        PROVE  /\ p \in Members(Db, k)
               /\ \/ db.row[p] = Db.row[p]
                  \/ db.row[p].state # "active" /\ db.row[p].reason \notin Hidden
    BY <1>2, <1>3, <2>1, NoneIsNoKey DEF Members
  <2>. QED BY <1>2, <2>1, <2>2 DEF ClusterFits
<1>6. Fits(db)
  BY <1>4, <1>5 DEF Fits
<1>7. Accounted(db, told)
  BY <1>1, <1>2, <1>3 DEF Accounted, OutAgrees, Speaks
<1>8. \A p \in Messages : row[p].reason \in Hidden /\ db.row[p].state = "active"
                          => decisions' # decisions
  BY <1>3, HiddenWhere DEF RepostInv
<1>9. Commit(db, sent, told)
  BY DEF db
<1>10. SourceFits'
  BY <1>2, <1>9 DEF Commit, RepostInv, SourceFits
<1>11. Placed'
  <2>1. newer' = newer /\ deleted' = deleted /\ member' = member /\ text' = text
    BY <1>2, <1>9 DEF Commit
  <2>. QED BY <2>1, PlacedSame DEF RepostInv, Known
<1>12. ASSUME NEW k \in Keys PROVE Elects(db, k)
  <2>1. /\ Elects(Db, k) /\ Db.row = row /\ Db.member = member /\ Db.cluster = cluster
        /\ Db.stale = stale /\ Db.deleted = deleted /\ Db.newer = newer
    BY DbTyped DEF RepostInv, Elected
  <2>2. Members(db, k) = Members(Db, k) /\ Members(db, k) \subseteq Messages
    BY <1>2, <2>1 DEF Members
  <2>3. CASE member[m].key # k
    <3>1. Members(Db, k) \subseteq Messages \ {m}
      BY <2>1, <2>3 DEF Members
    <3>2. \A p \in Members(Db, k) :
             /\ db.row[p] = Db.row[p] /\ db.member[p].rep = Db.member[p].rep
             /\ p \in db.stale <=> p \in Db.stale
             /\ p \in db.deleted <=> p \in Db.deleted
      BY <1>2, <1>3, <2>1, <3>1
    <3>3. \A p, q \in Members(Db, k) : <<p, q>> \in db.newer <=> <<p, q>> \in Db.newer
      BY <1>2, <2>1
    <3>4. db.cluster[k].moderation = Db.cluster[k].moderation
      BY <1>2, <2>1
    <3>. QED BY <2>1, <2>2, <3>2, <3>3, <3>4, ElectsSame
  <2>4. CASE member[m].key = k
    <3>1. /\ m \in Members(Db, k) /\ now.state # "active" /\ ~InTurn(now)
          /\ row[m].state = "active" \/ ~InTurn(row[m])
      BY <2>1, <2>4, NoneIsNoKey DEF Members
    <3>2. \A p \in Members(db, k) : db.row[p].state = "active" => db.member[p].rep
      BY <1>2, <1>3, <2>1, <2>2, <3>1 DEF Elects
    <3>3. ASSUME db.cluster[k].moderation \in {"none", "approved"},
                 \A p \in Members(db, k) :
                     db.member[p].rep => db.row[p].state = "active" /\ p \notin db.stale
          PROVE  \A p \in Newest(db, Candidates(db, k)) : db.row[p].state = "active"
      <4>1. ~member[m].rep
        BY <1>2, <1>3, <2>2, <3>1, <3>3
      <4>2. row[m].state # "active" /\ ~InTurn(row[m])
        BY <2>1, <3>1, <4>1 DEF Elects
      <4>3. Candidates(db, k) = Candidates(Db, k)
        BY <1>2, <1>3, <2>1, <2>2, <3>1, <4>2 DEF Candidates
      <4>4. Newest(db, Candidates(db, k)) = Newest(Db, Candidates(Db, k))
        BY <1>2, <2>1, <4>3 DEF Newest
      <4>5. \A p \in Newest(Db, Candidates(Db, k)) : row[p].state = "active"
        BY <1>2, <1>3, <2>1, <2>2, <3>3, <4>1 DEF Elects
      <4>6. \A p \in Newest(db, Candidates(db, k)) : p \in Members(db, k)
        BY DEF Newest, Candidates
      <4>. QED BY <1>3, <2>2, <4>2, <4>4, <4>5, <4>6
    <3>. QED BY <3>2, <3>3 DEF Elects
  <2>. QED BY <2>3, <2>4
<1>13. Elected(db)
  BY <1>12 DEF Elected
<1>. QED BY <1>2, <1>6, <1>7, <1>8, <1>9, <1>10, <1>11, <1>13, CommitKeeps, KeysTyped

LEMMA RoutingKeeps ==
    ASSUME RepostInv, ToldAsIs, NEW m \in Messages,
           NEW reason \in {"source_revision_superseded", "response_route_unavailable"},
           RecordRoutingOutcome(m, reason)
    PROVE  Keeps
<1>. DEFINE rejected == \/ row[m].state = "active"
                        \/ /\ reason = "response_route_unavailable"
                           /\ row[m].reason = "source_revision_superseded"
            now == Is("suppressed", reason)
<1>1. /\ text' \in [Messages -> Texts \cup {None}] /\ pending' \subseteq Messages
      /\ unroutable' \subseteq Messages /\ triggered' \subseteq Messages
      /\ UNCHANGED <<text, barred, chat, decisions>> /\ pending' \subseteq pending
  BY DEF RepostInv, TypeOK, RecordRoutingOutcome, Taken
<1>2. CASE rejected
  <2>1. Commit([Db EXCEPT !.row[m] = now, !.out = {Telling(m, now, 0)}], sent, told)
    BY <1>2 DEF RecordRoutingOutcome
  <2>2. /\ now \in Rows /\ now.state = "suppressed" /\ now.reason \notin Hidden
        /\ ~InTurn(now)
    BY DEF Is, Rows, States, Reasons, Hidden, InTurn
  <2>3. row[m].state = "active" \/ ~InTurn(row[m])
    BY <1>2 DEF InTurn
  <2>. HIDE DEF now
  <2>. QED BY <1>1, <2>1, <2>2, <2>3, RowKeeps
<1>3. CASE ~rejected
  <2>1. Commit(Db, sent, told)
    BY <1>3 DEF RecordRoutingOutcome
  <2>2. Accounted(Db, told)
    BY DbTyped DEF Accounted, OutAgrees, RepostInv
  <2>3. \A p \in Messages : row[p].reason \in Hidden => Db.row[p].state # "active"
    BY HiddenWhere, DbTyped DEF RepostInv
  <2>4. SourceFits'
    BY <1>1, <2>1, DbTyped DEF Commit, RepostInv, SourceFits
  <2>5. Placed'
    <3>1. newer' = newer /\ deleted' = deleted /\ member' = member /\ text' = text
      BY <1>1, <2>1, DbTyped DEF Commit, RepostInv
    <3>. QED BY <3>1, PlacedSame DEF RepostInv, Known
  <2>. QED BY <1>1, <2>1, <2>2, <2>3, <2>4, <2>5, CommitKeeps, KeysTyped, DbTyped
          DEF RepostInv
<1>. QED BY <1>2, <1>3

LEMMA ModerateOpportunityKeeps ==
    ASSUME RepostInv, ToldAsIs, NEW m \in Messages, NEW decision \in Decisions,
           ModerateOpportunity(m, decision)
    PROVE  Keeps
<1>. DEFINE now == IF decision = "approve" THEN Is("active", "none")
                   ELSE Is("suppressed", "moderation_suppressed")
<1>1. /\ text' \in [Messages -> Texts \cup {None}] /\ pending' \subseteq Messages
      /\ unroutable' \subseteq Messages /\ triggered' \subseteq Messages
      /\ UNCHANGED <<text, barred, chat>> /\ pending' \subseteq pending
  BY DEF RepostInv, TypeOK, ModerateOpportunity
<1>2. Commit([Db EXCEPT !.row[m] = now, !.out = {Telling(m, now, 0)}], sent, told)
  BY DEF ModerateOpportunity
<1>3. /\ now \in Rows
      /\ now.state = "active" => now.reason = "none" /\ decision = "approve"
      /\ now.reason \in Hidden => now.state = "suppressed"
  BY DEF Is, Rows, States, Reasons, Hidden
<1>4. member[m].key = None /\ m \notin deleted /\ decisions' = decisions + 1
  BY DEF ModerateOpportunity, Decides
<1>. HIDE DEF now
<1>5. /\ now.state = "active" => (now.reason = "none" /\ m \notin deleted)
      /\ member[m].key = None
      /\ decisions' \in {decisions, decisions + 1}
      /\ now.state = "active" => decisions' = decisions + 1
  BY <1>3, <1>4
<1>6. now \in Rows /\ (now.reason \in Hidden => now.state = "suppressed")
  BY <1>3
<1>. QED BY <1>1, <1>2, <1>5, <1>6, RowKeeps
-----------------------------------------------------------------------------
(* The moderation of a whole cluster.                                      *)
LEMMA SettleKeeps ==
    ASSUME RepostInv, ToldAsIs, NEW k \in Keys,
           NEW moderation \in {"approved", "suppressed"},
           NEW forced \in {"none", "review_timeout"},
           forced = "review_timeout" => moderation = "suppressed",
           Settle(k, moderation, forced),
           decisions' \in {decisions, decisions + 1},
           moderation = "approved" => decisions' = decisions + 1
    PROVE  Keeps
<1>. DEFINE d == [Db EXCEPT !.cluster[k].moderation = moderation]
            r == Reconcile(d, {k}, forced, {})
<1>1. PICK c : c = [cluster EXCEPT ![k].moderation = moderation]
  OBVIOUS
<1>0. /\ c \in [Keys -> Clusters]
      /\ c[k].moderation = moderation
      /\ \A j \in Keys \ {k} : c[j] = cluster[j]
  <2>1. cluster \in [Keys -> Clusters]
    BY DEF RepostInv, TypeOK, Clusters
  <2>2. PICK e : e = [cluster[k] EXCEPT !.moderation = moderation]
    OBVIOUS
  <2>3. e \in Clusters /\ e.moderation = moderation
    BY <2>1, <2>2 DEF Clusters
  <2>4. c = [cluster EXCEPT ![k] = e]
    BY Zenon, <1>1, <2>2
  <2>. QED BY <2>1, <2>3, <2>4
<1>2. /\ d \in Databases /\ d.row = row /\ d.member = member /\ d.cluster = c
      /\ d.stale = stale /\ d.deleted = deleted /\ d.newer = newer /\ d.out = {}
  BY <1>0, <1>1, DbTyped DEF RepostInv, Databases
<1>3. /\ d.cluster[k].moderation = moderation
      /\ \A j \in Keys \ {k} : d.cluster[j] = cluster[j]
  BY <1>0, <1>2
<1>4. Commit(r, sent, told)
  BY DEF Settle
<1>. HIDE DEF d
<1>5. RowsFit(d) /\ Strict(d.newer)
  BY <1>2 DEF RepostInv, Fits, RowsFit, Db
<1>6. ASSUME NEW j \in Keys \ {k} PROVE ClusterFits(d, j)
  BY <1>2, <1>3 DEF RepostInv, Fits, ClusterFits, Members, Db
<1>7. {k} \in SUBSET Keys /\ {} \in SUBSET Messages /\ forced \in Reasons
      /\ forced \in {"none", "opportunity_expired", "review_timeout"}
  BY DEF Reasons
<1>8. r \in Databases /\ Reconciles(d, {k}, forced, {}, r)
  BY <1>2, <1>7, Reconciled
<1>9. Fits(r)
  BY <1>2, <1>3, <1>5, <1>6, <1>7, ReconcileFits
<1>10. /\ OutAgrees(r)
       /\ \A p \in Messages : (r.row[p] = d.row[p] /\ ~Speaks(d, p)) \/ Speaks(r, p)
  <2>1. /\ OutAgrees(d)
        /\ \A p \in d.out : d.member[p.opp].key \in {k}
               => p.now = Desired(d, d.member[p.opp].key, p.opp, forced)
    BY <1>2 DEF OutAgrees
  <2>. QED BY <1>2, <1>7, <2>1, ReconcileSpeaks
<1>11. ASSUME NEW p \in Messages, row[p].reason \in Hidden, moderation # "approved"
       PROVE  r.row[p].state # "active"
  <2>1. d.row[p].state # "active"
    BY <1>2, <1>11, HiddenWhere
  <2>2. \/ d.member[p].key \notin {k}
        \/ d.cluster[d.member[p].key].moderation \in Withheld
    BY <1>3, <1>11 DEF Withheld
  <2>3. d \in Databases
    BY <1>2
  <2>. QED BY <1>5, <1>7, <2>1, <2>2, <2>3, HiddenStays
<1>12. /\ r.deleted = deleted /\ r.newer = newer
       /\ \A p \in Messages : r.member[p].key = member[p].key
  BY <1>2, <1>8 DEF Reconciles
<1>13. Elected(r)
  <2>1. ASSUME NEW j \in Keys \ {k} PROVE Elects(d, j)
    <3>1. /\ Elects(Db, j) /\ Db.row = row /\ Db.member = member /\ Db.cluster = cluster
          /\ Db.stale = stale /\ Db.deleted = deleted /\ Db.newer = newer
      BY DbTyped DEF RepostInv, Elected
    <3>2. Members(d, j) = Members(Db, j)
      BY <1>2, <3>1 DEF Members
    <3>3. d.cluster[j].moderation = Db.cluster[j].moderation
      BY <1>3, <3>1
    <3>. QED BY <1>2, <3>1, <3>2, <3>3, ElectsSame
  <2>2. d \in Databases
    BY <1>2
  <2>. QED BY <1>5, <1>7, <2>1, <2>2, ReconcileElects
<1>. HIDE DEF r
<1>14. Accounted(r, told)
  BY <1>2, <1>10 DEF Accounted
<1>15. SourceFits'
  BY <1>4, <1>12 DEF Commit, RepostInv, SourceFits, Settle
<1>16. /\ text' \in [Messages -> Texts \cup {None}] /\ pending' \subseteq Messages
       /\ unroutable' \subseteq Messages /\ triggered' \subseteq Messages
       /\ UNCHANGED <<barred, chat>>
  BY DEF RepostInv, TypeOK, Settle
<1>17. \A p \in Messages : row[p].reason \in Hidden /\ r.row[p].state = "active"
                           => decisions' # decisions \/ p \in pending \ pending'
  BY <1>11 DEF RepostInv
<1>18. Placed'
  <2>1. newer' = newer /\ deleted' = deleted /\ member' = r.member /\ text' = text
    BY <1>4, <1>12 DEF Commit, Settle
  <2>. QED BY <1>12, <2>1, PlacedSame DEF RepostInv, Known
<1>. QED BY <1>4, <1>8, <1>9, <1>14, <1>15, <1>16, <1>17, <1>13, <1>18, CommitKeeps, KeysTyped

LEMMA ModerateClusterKeeps ==
    ASSUME RepostInv, ToldAsIs, NEW m \in Messages, NEW decision \in Decisions,
           ModerateCluster(m, decision)
    PROVE  Keeps
<1>1. member[m].key \in Keys
  BY DEF ModerateCluster, RepostInv, TypeOK
<1>2. ModerationOf[decision] \in {"approved", "suppressed"}
  BY DEF Decisions, ModerationOf
<1>3. Settle(member[m].key, ModerationOf[decision], "none") /\ decisions' = decisions + 1
  BY DEF ModerateCluster, Decides
<1>. QED BY <1>1, <1>2, <1>3, SettleKeeps

LEMMA ExpireReviewKeeps ==
    ASSUME RepostInv, ToldAsIs, NEW m \in Messages, ExpireReview(m)
    PROVE  Keeps
<1>1. member[m].key \in Keys
  BY DEF ExpireReview, RepostInv, TypeOK
<1>2. Settle(member[m].key, "suppressed", "review_timeout") /\ decisions' = decisions
  BY DEF ExpireReview
<1>. QED BY <1>1, <1>2, SettleKeeps

(* The clusters of several messages.                                       *)
LEMMA ClustersOf ==
    ASSUME RepostInv, NEW of \in SUBSET Messages
    PROVE  UNION {ClusterOf(m) : m \in of} \in SUBSET Keys
BY ClusterOfKeys DEF RepostInv

LEMMA CleanupKeeps ==
    ASSUME RepostInv, ToldAsIs, CleanupExpired
    PROVE  Keeps
<1>. DEFINE overdue == {m \in stale : row[m].state = "active"}
            ended == Is("expired", "opportunity_expired")
            before == {m \in Messages : row[m] \in {ended, Is("expired", "none")}}
            d == [Db EXCEPT
                    !.row = [m \in Messages |-> IF m \in overdue THEN ended ELSE @[m]],
                    !.out = {Telling(m, ended, 0) : m \in overdue}]
            keys == UNION {ClusterOf(m) : m \in overdue \cup before}
            r == Reconcile(d, keys, "opportunity_expired", {})
<1>1. ended \in Rows /\ ended.state = "expired" /\ ended.reason = "opportunity_expired"
  BY DEF Is, Rows, States, Reasons
<1>2. overdue \subseteq Messages /\ before \subseteq Messages
  BY DEF RepostInv, TypeOK
<1>3. keys \in SUBSET Keys
  BY <1>2, ClustersOf
<1>4. Commit(r, sent, told)
  BY <1>1 DEF CleanupExpired
<1>. HIDE DEF ended
<1>5. {Telling(m, ended, 0) : m \in overdue} \in SUBSET Tellings
  BY <1>1, <1>2 DEF Telling, Tellings
<1>6. [m \in Messages |-> IF m \in overdue THEN ended ELSE row[m]] \in [Messages -> Rows]
  BY <1>1, DbTyped DEF RepostInv, TypeOK, Rows
<1>7. /\ d \in Databases
      /\ d.row = [m \in Messages |-> IF m \in overdue THEN ended ELSE row[m]]
      /\ d.member = member /\ d.cluster = cluster /\ d.deleted = deleted
      /\ d.newer = newer /\ d.stale = stale
      /\ d.out = {Telling(m, ended, 0) : m \in overdue}
  BY <1>5, <1>6, DbTyped DEF RepostInv, Databases
<1>. HIDE DEF d
<1>8. \A m \in Messages : d.row[m] = IF m \in overdue THEN ended ELSE row[m]
  BY <1>7
<1>9. RowsFit(d) /\ Strict(d.newer)
  BY <1>1, <1>7, <1>8 DEF RepostInv, Fits, RowsFit, Db, Hidden
<1>10. ASSUME NEW k \in Keys PROVE ClusterFits(d, k)
  <2>1. ClusterFits(Db, k) /\ Db.row = row /\ Db.member = member /\ Db.cluster = cluster
    BY DbTyped DEF RepostInv, Fits
  <2>2. \A m \in Messages :
           /\ d.row[m].state = "active" => Db.row[m].state = "active"
           /\ d.row[m].reason \in Hidden => Db.row[m].reason \in Hidden
    BY <1>1, <1>8, <2>1 DEF Hidden
  <2>. QED BY <1>7, <2>1, <2>2, FewerFit
<1>11. {} \in SUBSET Messages /\ "opportunity_expired" \in Reasons
  BY DEF Reasons
<1>. HIDE DEF keys
<1>12. r \in Databases /\ Reconciles(d, keys, "opportunity_expired", {}, r)
  BY <1>3, <1>7, <1>11, Reconciled
<1>13. Fits(r)
  BY <1>3, <1>7, <1>9, <1>10, <1>11, ReconcileFits
<1>14. /\ OutAgrees(r)
       /\ \A p \in Messages :
             (r.row[p] = d.row[p] /\ ~Speaks(d, p)) \/ Speaks(r, p)
  <2>1. ASSUME NEW p \in d.out
        PROVE  /\ p.opp \in overdue /\ p.opp \in Messages /\ p.now = ended
               /\ d.row[p.opp] = ended
    BY <1>2, <1>7, <1>8 DEF Telling
  <2>2. OutAgrees(d)
    BY <2>1 DEF OutAgrees
  <2>3. ASSUME NEW m \in overdue, member[m].key \in keys
        PROVE  Desired(d, member[m].key, m, "opportunity_expired") = ended
    <3>1. m \in Messages /\ m \in stale /\ row[m].state = "active" /\ member[m].key \in Keys
      BY <1>2, <1>3, <2>3
    <3>2. m \notin deleted /\ cluster[member[m].key].moderation \notin Withheld
      BY <3>1 DEF RepostInv, Fits, RowsFit, ClusterFits, Members, Db
    <3>3. m \notin Selected(d, member[m].key)
      BY <1>7, <3>1, SelectedMember
    <3>4. d.row[m] = ended /\ d.row[m].reason = "opportunity_expired"
      BY <1>1, <1>8, <2>3, <3>1
    <3>. QED BY <1>1, <1>7, <3>1, <3>2, <3>3, <3>4 DEF Desired, Withheld, ended
  <2>4. \A p \in d.out : d.member[p.opp].key \in keys =>
            p.now = Desired(d, d.member[p.opp].key, p.opp, "opportunity_expired")
    BY <1>7, <2>1, <2>3
  <2>. QED BY <1>3, <1>7, <1>11, <2>2, <2>4, ReconcileSpeaks
<1>15. ASSUME NEW p \in Messages, row[p].reason \in Hidden
       PROVE  r.row[p].state # "active"
  <2>1. d.row[p].state # "active"
    BY <1>1, <1>8, <1>15, HiddenWhere
  <2>2. \/ d.member[p].key \notin keys
        \/ d.cluster[d.member[p].key].moderation \in Withheld
    BY <1>3, <1>7, <1>15, HiddenWhere DEF Withheld
  <2>3. d \in Databases
    BY <1>7
  <2>. QED BY <1>3, <1>9, <1>11, <2>1, <2>2, <2>3, HiddenStays
<1>16. /\ r.deleted = deleted /\ r.newer = newer
       /\ \A p \in Messages : r.member[p].key = member[p].key
  BY <1>7, <1>12 DEF Reconciles
<1>17. Elected(r)
  <2>1. ASSUME NEW k \in Keys \ keys PROVE Elects(d, k)
    <3>1. /\ Elects(Db, k) /\ Db.row = row /\ Db.member = member /\ Db.cluster = cluster
          /\ Db.stale = stale /\ Db.deleted = deleted /\ Db.newer = newer
      BY DbTyped DEF RepostInv, Elected
    <3>2. Members(d, k) = Members(Db, k) /\ Members(Db, k) \subseteq Messages
      BY <1>7, <3>1 DEF Members
    <3>3. \A p \in Members(Db, k) : p \notin overdue
      BY <3>1, ClusterOfKeys DEF Members, keys, RepostInv
    <3>. QED BY <1>7, <1>8, <3>1, <3>2, <3>3, ElectsSame
  <2>2. d \in Databases
    BY <1>7
  <2>. QED BY <1>3, <1>9, <1>11, <2>1, <2>2, ReconcileElects
<1>. HIDE DEF r
<1>18. Accounted(r, told)
  <2>1. ASSUME NEW p \in overdue PROVE Speaks(d, p)
    <3>1. Telling(p, ended, 0) \in d.out
      BY <1>7
    <3>2. Telling(p, ended, 0).opp = p
      BY SMTT(60) DEF Telling
    <3>. QED BY <3>1, <3>2 DEF Speaks
  <2>. QED BY <1>8, <1>14, <2>1 DEF Accounted
<1>22. /\ text' = text /\ pending' = pending
       /\ newer' = newer /\ deleted' = deleted /\ member' = r.member
  <2>1. text' = text /\ pending' = pending
    BY Zenon DEF CleanupExpired
  <2>2. newer' = r.newer /\ deleted' = r.deleted /\ member' = r.member
    BY Zenon, <1>4, Committed
  <2>. QED BY <1>16, <2>1, <2>2
<1>19. SourceFits'
  BY <1>22, SourceKept
<1>20. /\ text' \in [Messages -> Texts \cup {None}] /\ pending' \subseteq Messages
       /\ unroutable' \subseteq Messages /\ triggered' \subseteq Messages
       /\ UNCHANGED <<barred, chat, decisions>>
  BY DEF RepostInv, TypeOK, CleanupExpired
<1>21. Placed'
  <2>1. \A p \in Messages : member'[p].key = member[p].key
    BY <1>16, <1>22
  <2>. QED BY <1>22, <2>1, PlacesKept
<1>. QED BY <1>4, <1>12, <1>13, <1>15, <1>18, <1>19, <1>20, <1>17, <1>21, CommitKeeps, KeysTyped
-----------------------------------------------------------------------------
LEMMA PauseKeeps ==
    ASSUME RepostInv, ToldAsIs, PauseChat
    PROVE  Keeps
<1>. DEFINE rows == {m \in Messages : row[m] # NoRow}
            gone(m) == Is("suppressed", IF m \in deleted THEN "source_deleted"
                                        ELSE "source_chat_paused")
            hidden == [m \in Messages |-> IF m \in rows THEN gone(m) ELSE row[m]]
            mems == [m \in Messages |->
                        IF member[m].key = None THEN member[m]
                        ELSE [key |-> member[m].key, rep |-> FALSE, shows |-> gone(m)]]
            d == [Db EXCEPT
                    !.row = [m \in Messages |-> IF m \in rows THEN gone(m) ELSE @[m]],
                    !.member = [m \in Messages |->
                        IF @[m].key = None THEN @[m]
                        ELSE [key |-> @[m].key, rep |-> FALSE, shows |-> gone(m)]]]
            keys == UNION {ClusterOf(m) : m \in rows}
            r == Reconcile(d, keys, "none", {})
<1>1. \A m \in Messages : gone(m) \in Rows /\ gone(m).state = "suppressed"
                          /\ gone(m).reason \in {"source_deleted", "source_chat_paused"}
  BY DEF Is, Rows, States, Reasons
<1>2. keys \in SUBSET Keys
  BY ClustersOf
<1>3. /\ row' = r.row /\ member' = r.member /\ cluster' = r.cluster /\ told' = {}
      /\ pending' = {} /\ UNCHANGED <<text, deleted, newer, stale, triggered, sent, decisions>>
      /\ unroutable' = unroutable \cup rows /\ chat' = "paused"
      /\ barred' = barred \cup (rows \ deleted)
  BY DEF PauseChat
<1>4. hidden \in [Messages -> Rows]
  <2>. HIDE DEF gone
  <2>. QED BY <1>1, DbTyped DEF RepostInv, TypeOK, Rows
<1>5. mems \in [Messages -> Memberships]
  <2>1. member \in [Messages -> Memberships]
    BY DEF RepostInv, TypeOK, Memberships, Rows
  <2>2. \A m \in Messages : [key |-> member[m].key, rep |-> FALSE, shows |-> gone(m)]
                                \in Memberships
    BY <1>1, <2>1 DEF Memberships
  <2>. HIDE DEF gone
  <2>. QED BY <2>1, <2>2
<1>6. d = [Db EXCEPT !.row = hidden, !.member = mems]
  BY DbTyped DEF RepostInv
<1>7. /\ d \in Databases /\ d.row = hidden /\ d.member = mems /\ d.cluster = cluster
      /\ d.deleted = deleted /\ d.newer = newer /\ d.stale = stale
  <2>. HIDE DEF hidden, mems, d
  <2>. QED BY <1>4, <1>5, <1>6, DbTyped DEF RepostInv, Databases
<1>. HIDE DEF d, keys, gone
<1>8. ASSUME NEW m \in Messages
      PROVE  /\ d.row[m].state # "active" /\ d.row[m].reason \notin Hidden
             /\ ~InTurn(d.row[m])
  <2>1. CASE m \in rows
    BY <1>1, <1>7, <2>1 DEF InTurn, Hidden
  <2>2. CASE m \notin rows
    BY <1>7, <2>2 DEF NoRow, Is, InTurn, Hidden
  <2>. QED BY <2>1, <2>2
<1>9. RowsFit(d) /\ Strict(d.newer) /\ \A k \in Keys : ClusterFits(d, k)
  <2>1. RowsFit(d)
    BY <1>8 DEF RowsFit
  <2>2. Strict(d.newer)
    BY <1>7 DEF RepostInv, Fits, Db
  <2>3. \A k \in Keys : ClusterFits(d, k)
    BY <1>8 DEF ClusterFits, Members
  <2>. QED BY <2>1, <2>2, <2>3
<1>10. "none" \in Reasons /\ {} \in SUBSET Messages /\ d \in Databases
  BY <1>7 DEF Reasons
<1>11. r \in Databases /\ Reconciles(d, keys, "none", {}, r)
  BY <1>2, <1>10, Reconciled
<1>12. Fits(r)
  BY <1>2, <1>9, <1>10, ReconcileFits
<1>13. \A m \in Messages : r.row[m].state # "active"
  BY <1>2, <1>8, <1>9, <1>10, HiddenStays
<1>14. /\ r.deleted = deleted /\ r.newer = newer /\ r.stale = stale
       /\ \A m \in Messages : r.member[m].key = d.member[m].key
  BY <1>7, <1>11 DEF Reconciles
<1>15. Elected(r)
  <2>1. ASSUME NEW k \in Keys \ keys PROVE Elects(d, k)
    <3>1. Candidates(d, k) = {} /\ Members(d, k) \subseteq Messages
      BY <1>8 DEF Candidates, Members
    <3>. QED BY <1>8, <3>1 DEF Elects, Newest
  <2>. QED BY <1>2, <1>9, <1>10, <2>1, ReconcileElects
<1>16. \A m \in Messages : r.member[m].key = member[m].key
  BY <1>7, <1>14
<1>. HIDE DEF r, rows
<1>17. TypeOK'
  <2>1. r.row \in [Messages -> Rows] /\ r.member \in [Messages -> Memberships]
        /\ r.cluster \in [Keys -> Clusters]
    BY <1>11, DbFields
  <2>. QED BY <1>3, <2>1 DEF RepostInv, TypeOK, Rows, Memberships, Clusters, rows
<1>18. Fits(Db)'
  BY <1>3, <1>12, <1>14, FitsNext
<1>19. SourceFits' /\ decisions' \in Nat
  BY <1>3 DEF RepostInv, SourceFits
<1>20. ToldAsIs' /\ NothingLifted
  BY <1>3, <1>13 DEF ToldAsIs, NothingLifted
<1>21. Placed'
  BY <1>3, <1>16, PlacedSame DEF RepostInv, Known
<1>22. Elected(Db)'
  BY <1>3, <1>14, <1>15, ElectedNext
<1>. QED BY <1>17, <1>18, <1>19, <1>20, <1>21, <1>22 DEF Keeps, RepostInv

(* Of a cluster whose newest candidate outdates unseen there is another    *)
(* that was newer.                                                         *)
LEMMA OutdatesElects ==
    ASSUME RepostInv, NEW m \in Messages, NEW k \in Keys
    PROVE  Elects([Db EXCEPT !.stale = stale \cup {m}], k)
<1>. DEFINE db == [Db EXCEPT !.stale = stale \cup {m}]
<1>1. /\ Elects(Db, k) /\ Db.row = row /\ Db.member = member /\ Db.cluster = cluster
      /\ Db.stale = stale /\ Db.deleted = deleted /\ Db.newer = newer
  BY DbTyped DEF RepostInv, Elected
<1>2. /\ db.row = row /\ db.member = member /\ db.cluster = cluster
      /\ db.stale = stale \cup {m} /\ db.deleted = deleted /\ db.newer = newer
  BY DEF Db
<1>. HIDE DEF db
<1>3. Members(db, k) = Members(Db, k) /\ Members(db, k) \subseteq Known
  BY <1>1, <1>2, NoneIsNoKey DEF Members, RepostInv, Placed
<1>4. ASSUME cluster[k].moderation \in {"none", "approved"},
             \A p \in Members(db, k) :
                 member[p].rep => row[p].state = "active" /\ p \notin stale \cup {m},
             NEW n \in Newest(db, Candidates(db, k))
      PROVE  row[n].state = "active"
  <2>1. \A p \in Newest(Db, Candidates(Db, k)) : row[p].state = "active" /\ member[p].rep
    <3>1. \A p \in Newest(Db, Candidates(Db, k)) : row[p].state = "active"
      BY <1>1, <1>3, <1>4 DEF Elects
    <3>2. \A p \in Newest(Db, Candidates(Db, k)) : p \in Members(Db, k)
      BY DEF Newest, Candidates
    <3>. QED BY <1>1, <3>1, <3>2 DEF Elects
  <2>2. Candidates(db, k) = Candidates(Db, k) \ {m}
    BY <1>1, <1>2, <1>3 DEF Candidates
  <2>3. Candidates(Db, k) \subseteq Members(Db, k)
    BY DEF Candidates
  <2>4. n \in Candidates(Db, k) /\ n # m
        /\ \A p \in Candidates(Db, k) \ {m, n} : <<n, p>> \in newer
    BY <1>2, <2>2 DEF Newest
  <2>5. CASE n \in Newest(Db, Candidates(Db, k))
    BY <2>1, <2>5
  <2>6. CASE n \notin Newest(Db, Candidates(Db, k))
    <3>1. m \in Candidates(Db, k) /\ <<n, m>> \notin newer
      BY <1>1, <2>4, <2>6 DEF Newest
    <3>2. <<m, n>> \in newer
      BY <1>3, <2>3, <2>4, <3>1 DEF RepostInv, Placed, Orders
    <3>3. ASSUME NEW p \in Candidates(Db, k) \ {m} PROVE <<m, p>> \in newer
      <4>1. {m, n, p} \subseteq Known
        BY <1>3, <2>3, <2>4, <3>1
      <4>2. p = n \/ <<n, p>> \in newer
        BY <2>4
      <4>. QED BY <3>2, <4>1, <4>2 DEF RepostInv, Placed, Orders
    <3>4. m \in Newest(Db, Candidates(Db, k))
      BY <1>1, <3>1, <3>3 DEF Newest
    <3>5. m \in Members(db, k) /\ member[m].rep
      BY <1>3, <2>1, <2>3, <3>1, <3>4
    <3>. QED BY <1>4, <3>5
  <2>. QED BY <2>5, <2>6
<1>5. \A p \in Members(db, k) : row[p].state = "active" => member[p].rep
  BY <1>1, <1>3 DEF Elects
<1>6. Elects(db, k)
  BY <1>2, <1>4, <1>5 DEF Elects
<1>. QED BY <1>6 DEF db

(* What leaves the rows and the clusters alone.                            *)
LEMMA OtherKeeps ==
    ASSUME RepostInv, ToldAsIs,
           \/ \E m \in Messages : Outdates(m)
           \/ ReEnableChat
           \/ UNCHANGED vars
    PROVE  Keeps
<1>1. UNCHANGED <<source, row, unroutable, member, cluster, triggered, heard, decisions>>
      /\ stale' \subseteq Messages /\ chat' \in {"enabled", "paused"}
  BY DEF Outdates, ReEnableChat, vars, tables, RepostInv, TypeOK
<1>2. TypeOK' /\ SourceFits' /\ decisions' \in Nat
  BY <1>1 DEF RepostInv, TypeOK, SourceFits, source, heard
<1>3. Fits(Db)'
  <2>1. Fits(Db) /\ Db.row = row /\ Db.member = member /\ Db.cluster = cluster
        /\ Db.deleted = deleted /\ Db.newer = newer
    BY DbTyped DEF RepostInv
  <2>. QED BY <1>1, <2>1, FitsNext DEF source
<1>4. ToldAsIs' /\ NothingLifted
  BY <1>1, HiddenWhere DEF ToldAsIs, Guarded, NothingLifted, heard
<1>5. Placed'
  BY <1>1, PlacedSame DEF RepostInv, Known, source
<1>6. Elected(Db)'
  <2>1. stale' = stale \/ \E m \in Messages : stale' = stale \cup {m}
    BY DEF Outdates, ReEnableChat, vars, tables
  <2>2. CASE stale' = stale
    <3>1. /\ Elected(Db) /\ Db.row = row /\ Db.member = member /\ Db.cluster = cluster
          /\ Db.stale = stale /\ Db.deleted = deleted /\ Db.newer = newer
      BY DbTyped DEF RepostInv
    <3>. QED BY <1>1, <2>2, <3>1, ElectedNext DEF source
  <2>3. CASE \E m \in Messages : stale' = stale \cup {m}
    <3>1. PICK m \in Messages : stale' = stale \cup {m}
      BY <2>3
    <3>. DEFINE db == [Db EXCEPT !.stale = stale \cup {m}]
    <3>2. Elected(db)
      BY OutdatesElects DEF Elected
    <3>3. /\ db.row = row /\ db.member = member /\ db.cluster = cluster
          /\ db.stale = stale \cup {m} /\ db.deleted = deleted /\ db.newer = newer
      BY DEF Db
    <3>. HIDE DEF db
    <3>. QED BY <1>1, <3>1, <3>2, <3>3, ElectedNext DEF source
  <2>. QED BY <2>1, <2>2, <2>3
<1>. QED BY <1>2, <1>3, <1>4, <1>5, <1>6 DEF Keeps, RepostInv
-----------------------------------------------------------------------------
LEMMA InitFits == Init => RepostInv /\ ToldAsIs
<1>. SUFFICES ASSUME Init PROVE RepostInv /\ ToldAsIs
  OBVIOUS
<1>1. TypeOK
  BY DEF Init, TypeOK, NoRow, NoMember, NoCluster, Is, States, Reasons
<1>2. SourceFits /\ ToldAsIs /\ decisions \in Nat
  BY DEF Init, SourceFits, ToldAsIs, NoRow, Is
<1>3. Fits(Db)
  BY NoneIsNoKey
  DEF Init, Db, Fits, RowsFit, Strict, ClusterFits, Members, NoRow, Is, NoMember, Hidden
<1>4. Placed /\ Elected(Db)
  <2>1. Known = {} /\ newer = {} /\ \A m \in Messages : member[m].key = None
    BY DEF Init, Known, NoMember
  <2>2. \A k \in Keys : Members(Db, k) = {}
    BY <2>1, NoneIsNoKey DEF Members, Db
  <2>3. \A k \in Keys : Elects(Db, k)
    BY <2>2 DEF Elects, Newest, Candidates
  <2>. QED BY <2>1, <2>3 DEF Placed, Orders, Elected
<1>. QED BY <1>1, <1>2, <1>3, <1>4 DEF RepostInv

LEMMA StepKeeps == RepostInv /\ ToldAsIs /\ [Next]_vars => Keeps
<1>. SUFFICES ASSUME RepostInv, ToldAsIs, [Next]_vars PROVE Keeps
  OBVIOUS
<1>1. CASE Source
  BY <1>1, CreateKeeps, EditKeeps, DeleteKeeps DEF Source
<1>2. CASE Proposal
  BY <1>2, RoutingKeeps, PublishKeeps DEF Proposal
<1>3. CASE Moderation
  BY <1>3, ModerateClusterKeeps, ModerateOpportunityKeeps DEF Moderation
<1>4. CASE \E m \in Messages : ExpireReview(m)
  BY <1>4, ExpireReviewKeeps
<1>5. CASE CleanupExpired
  BY <1>5, CleanupKeeps
<1>6. CASE PauseChat
  BY <1>6, PauseKeeps
<1>7. CASE ReEnableChat \/ UNCHANGED vars \/ \E m \in Messages : Outdates(m)
  BY <1>7, OtherKeeps
<1>. QED BY <1>1, <1>2, <1>3, <1>4, <1>5, <1>6, <1>7 DEF Next

LEMMA AlwaysFits == Spec => [](RepostInv /\ ToldAsIs)
<1>1. RepostInv /\ ToldAsIs /\ [Next]_vars => (RepostInv /\ ToldAsIs)'
  BY StepKeeps DEF Keeps
<1>. QED BY InitFits, <1>1, PTL DEF Spec

(* Every variable stays within its type.                                   *)
THEOREM RepostsTyped == Spec => []TypeOK
<1>1. RepostInv => TypeOK
  BY DEF RepostInv
<1>. QED BY AlwaysFits, <1>1, PTL

(* A cluster shows one Opportunity at most and none while it is under      *)
(* review or suppressed, whatever is edited, deleted, moderated or paused. *)
THEOREM OneIsShown == Spec => []OneShown
<1>1. RepostInv => OneShown
  BY DEF RepostInv, Fits, ClusterFits, OneShown, Members, Db, Withheld
<1>. QED BY AlwaysFits, <1>1, PTL

(* The newest fresh repost of a cluster is the one it shows, as long as    *)
(* the representative has not outdated or been rejected.                   *)
THEOREM TheNewestIsShown == Spec => []NewestShown
<1>1. RepostInv => NewestShown
  <2>. SUFFICES ASSUME RepostInv, NEW k \in Keys,
                       cluster[k].moderation \in {"none", "approved"},
                       \A m \in Members(Db, k) :
                          member[m].rep => row[m].state = "active" /\ m \notin stale
                PROVE  \A m \in Newest(Db, Candidates(Db, k)) : row[m].state = "active"
    BY DEF NewestShown
  <2>1. /\ Elects(Db, k) /\ Db.row = row /\ Db.member = member /\ Db.cluster = cluster
        /\ Db.stale = stale
    BY DbTyped DEF RepostInv, Elected
  <2>. QED BY <2>1 DEF Elects
<1>. QED BY AlwaysFits, <1>1, PTL

(* Searches find what the application holds active, but for what is paused *)
(* and for the publication that a later rejection of it leaves.            *)
THEOREM SearchesFindTheActive == Spec => []ToldAsIs
BY AlwaysFits, PTL

(* Only an operator's decision or a proposal of its own message shows      *)
(* again what moderation suppressed.                                       *)
THEOREM ModerationIsFinal == Spec => SuppressionLifted
<1>1. RepostInv /\ ToldAsIs /\ [Next]_vars =>
        [\A m \in Messages :
            (/\ row[m].reason \in {"moderation_suppressed", "review_timeout"}
             /\ row'[m].state = "active")
            => decisions' # decisions \/ m \in pending \ pending']_vars
  BY StepKeeps DEF Keeps, NothingLifted, Hidden
<1>. QED BY AlwaysFits, <1>1, PTL DEF SuppressionLifted, Spec
================================================================================
