-------------------- MODULE ConversationOnboardingProofs --------------------
(***************************************************************************)
(* What ConversationOnboarding guarantees for every choice of intents and  *)
(* cities and every number of searches.                                    *)
(*                                                                         *)
(* Nearly every handler ends in Commit, with a draft, or in Show, without. *)
(* CommitGood and ShowGood say what a handler owes them: a draft that      *)
(* agrees with itself, and a screen that fits it.  The lemmas after them   *)
(* go through the handlers.                                                *)
(***************************************************************************)
EXTENDS ConversationSchedule, TLAPS

Quiet == {"unknown", "language_selection", "language_input"}

(* What a draft's confirmed values owe each other, at any stage.           *)
Agrees(d) == /\ d.city # Nowhere => Country(d.city) = d.country
             /\ d.area # Nowhere => d.area = d.city
             /\ d.date # Nowhere => d.date = d.city /\ d.intent \in Dated
             /\ d.stage = "required_date" => d.intent \in Dated
             /\ d.stage \notin {"direction_menu", "intent_branch"} => d.intent # Unset

(* A draft a handler may leave, the submitted one apart.                   *)
Editable(d) == d \in Drafts /\ d.stage \in DraftStages \ {"submitting"} /\ Agrees(d)

(* A draft at "submitting" has its search, the latest submission.          *)
Submitted(d) == d.stage = "submitting" =>
    d.search \in Ids /\ searches[d.search].parent = 0 /\ Latest(d.search)

Held(d) == d \in Drafts /\ d.stage \in DraftStages /\ Agrees(d) /\ Submitted(d)

(* Which presentations may wait.                                           *)
Presentable(p) == \/ p = context
                  \/ p \in Ids /\ searches[p].parent = context /\ context # 0
                  \/ p \in Ids /\ searches[p].parent = 0 /\ Latest(p)

(* Only a user with a language has a draft or leaves the language screens. *)
Explicit == user.explicit \/ (user.stage \in Quiet /\ ~HasDraft)

ConversationInv == /\ TypeOK
                   /\ Explicit
                   /\ HasDraft => Held(draft)
                   /\ InStep /\ LeftAtDirections /\ PresentationHasState
                   /\ pending # 0 => Presentable(pending)
                   /\ SearchesAgree
-----------------------------------------------------------------------------
(* A draft is present exactly when it has a stage of its own.              *)
LEMMA DraftHasStage ==
  /\ NoDraft \in Drafts /\ NoDraft.stage \notin DraftStages
  /\ FreshDraft \in Drafts /\ FreshDraft.stage = "direction_menu"
  /\ Editable(FreshDraft) /\ FreshDraft # NoDraft
  /\ FreshDraft.search = 0
<1>1. FreshDraft \in Drafts /\ NoDraft \in Drafts
  BY DEF FreshDraft, NoDraft, Drafts, Places, DraftStages, Unset
<1>2. FreshDraft.stage = "direction_menu" /\ NoDraft.stage = "none" /\ FreshDraft.search = 0
  BY DEF FreshDraft, NoDraft, Unset
<1>3. Agrees(FreshDraft)
  BY DEF Agrees, FreshDraft
<1>. QED BY <1>1, <1>2, <1>3 DEF Editable, DraftStages

(* Present keeps types.                                                    *)
LEMMA PresentTyped ==
  ASSUME TypeOK, NEW p \in 0..Len(searches), Present(p)
  PROVE  pending' \in 0..Len(searches) /\ lost' \subseteq Nat
<1>1. Len(searches) \in Nat
  BY DEF TypeOK
<1>2. pending \in Nat /\ lost \subseteq Nat
  BY <1>1 DEF TypeOK
<1>. QED BY <1>2 DEF Present

(* A handler that shows a screen of the draft, or keeps one paused.        *)
LEMMA CommitGood ==
  ASSUME ConversationInv, NEW s \in Stages, NEW d, Commit(s, d),
         Held(d), d # NoDraft, user.explicit,
         s = d.stage \/ d.stage = "direction_menu"
  PROVE  ConversationInv'
<1>1. user \in [stage : Stages, explicit : BOOLEAN] /\ d \in Drafts
  BY DEF ConversationInv, TypeOK, Held
<1>2. /\ user' = [user EXCEPT !.stage = s] /\ draft' = d
      /\ inStep' = TRUE /\ drawn' = TRUE /\ usable' = TRUE
      /\ Present(0) /\ UNCHANGED <<context, searches>>
  BY DEF Commit
<1>3. /\ user' \in [stage : Stages, explicit : BOOLEAN]
      /\ user'.stage = s /\ user'.explicit = user.explicit
  BY <1>1, <1>2
<1>4. 0 \in 0..Len(searches)
  BY DEF ConversationInv, TypeOK
<1>5. pending' \in 0..Len(searches) /\ lost' \subseteq Nat /\ pending' = 0
  BY <1>2, <1>4, PresentTyped DEF ConversationInv, Present
<1>6. TypeOK'
  BY <1>1, <1>2, <1>3, <1>5 DEF ConversationInv, TypeOK
<1>7. Explicit' /\ InStep' /\ LeftAtDirections' /\ PresentationHasState'
  BY <1>2, <1>3, <1>5 DEF Explicit, InStep, LeftAtDirections, PresentationHasState, HasDraft
<1>8. Held(draft)'
  BY <1>2 DEF Held, Submitted, Latest, Ids
<1>9. SearchesAgree'
  BY <1>2 DEF ConversationInv, SearchesAgree, Ids
<1>. QED BY <1>5, <1>6, <1>7, <1>8, <1>9 DEF ConversationInv

(* A handler that shows a screen beside the draft.                         *)
LEMMA ShowGood ==
  ASSUME ConversationInv, NEW s \in Stages \ DraftStages, NEW p,
         Show(s), Present(p),
         user.explicit \/ (s \in Quiet /\ ~HasDraft),
         HasDraft => draft.stage = "direction_menu",
         p = 0 \/ (p = context /\ s = "results")
  PROVE  ConversationInv'
<1>1. user \in [stage : Stages, explicit : BOOLEAN]
  BY DEF ConversationInv, TypeOK
<1>2. /\ user' = [user EXCEPT !.stage = s] /\ inStep' = FALSE
      /\ drawn' = TRUE /\ usable' = TRUE
      /\ UNCHANGED <<draft, context, searches>>
  BY DEF Show
<1>3. /\ user' \in [stage : Stages, explicit : BOOLEAN]
      /\ user'.stage = s /\ user'.explicit = user.explicit
  BY <1>1, <1>2
<1>4. p \in 0..Len(searches)
  BY DEF ConversationInv, TypeOK
<1>5. pending' \in 0..Len(searches) /\ lost' \subseteq Nat /\ pending' = p
  BY <1>4, PresentTyped DEF ConversationInv, Present
<1>6. TypeOK'
  BY <1>2, <1>3, <1>5 DEF ConversationInv, TypeOK
<1>7. Explicit' /\ InStep' /\ LeftAtDirections' /\ PresentationHasState'
  BY <1>2, <1>3, <1>5 DEF Explicit, InStep, LeftAtDirections, PresentationHasState,
     HasDraft, DraftStages, Quiet
<1>8. (HasDraft => Held(draft))'
  BY <1>2 DEF ConversationInv, Held, Submitted, Latest, Ids, HasDraft
<1>9. SearchesAgree' /\ (pending # 0 => Presentable(pending))'
  BY <1>2, <1>5 DEF ConversationInv, SearchesAgree, Ids, Presentable, Latest
<1>. QED BY <1>6, <1>7, <1>8, <1>9 DEF ConversationInv
-----------------------------------------------------------------------------
(* The beginning.                                                          *)
LEMMA InitGood == Init => ConversationInv
<1>. SUFFICES ASSUME Init PROVE ConversationInv
  OBVIOUS
<1>1. searches = <<>> /\ Len(searches) = 0 /\ Ids = {}
  BY DEF Init, Ids
<1>2. TypeOK
  <2>1. user \in [stage : Stages, explicit : BOOLEAN]
    BY DEF Init, Stages
  <2>2. searches \in Seq(Commands)
    BY <1>1
  <2>3. draft \in Drafts
    BY DraftHasStage DEF Init
  <2>4. context = 0 /\ pending = 0 /\ lost \subseteq Nat
    BY DEF Init
  <2>5. inStep \in BOOLEAN /\ drawn \in BOOLEAN /\ usable \in BOOLEAN
    BY DEF Init
  <2>6. 0 \in 0..Len(searches)
    BY <1>1
  <2>. QED BY <2>1, <2>2, <2>3, <2>4, <2>5, <2>6 DEF TypeOK
<1>3. ~HasDraft
  BY DEF Init, HasDraft
<1>4. user.stage = "unknown" /\ pending = 0
  BY DEF Init
<1>5. Explicit /\ InStep /\ LeftAtDirections /\ PresentationHasState
  BY <1>3, <1>4 DEF Explicit, Quiet, InStep, LeftAtDirections, PresentationHasState
<1>6. SearchesAgree
  BY <1>1 DEF SearchesAgree
<1>. QED BY <1>2, <1>3, <1>4, <1>5, <1>6 DEF ConversationInv

(* At a stage of the draft there is a language and a draft to go on with.  *)
LEMMA AtGood ==
  ASSUME ConversationInv, NEW s \in DraftStages, At(s)
  PROVE  user.explicit /\ Held(draft) /\ draft # NoDraft /\ draft.stage = s /\ user.stage = s
BY DEF ConversationInv, At, HasDraft, Explicit, Quiet, DraftStages

(* A draft at one of the editable stages with a value changed is held.     *)
LEMMA EditedIsHeld ==
  ASSUME NEW d, Editable(d)
  PROVE  Held(d) /\ d # NoDraft /\ d.stage \in Stages
BY DraftHasStage DEF Editable, Held, Submitted, Stages

LEMMA OpenIntentBranchGood == ASSUME ConversationInv, OpenIntentBranch PROVE ConversationInv'
<1>. PICK b \in {Branch[i] : i \in Intents} \ {Unset} :
        /\ At("direction_menu")
        /\ Commit("intent_branch", [draft EXCEPT !.stage = "intent_branch", !.branch = b])
  BY DEF OpenIntentBranch
<1>. DEFINE d == [draft EXCEPT !.stage = "intent_branch", !.branch = b]
<1>1. user.explicit /\ Held(draft)
  BY AtGood DEF DraftStages
<1>2. Editable(d) /\ d.stage = "intent_branch"
  BY <1>1 DEF Editable, Held, Drafts, DraftStages, Agrees
<1>. QED BY <1>1, <1>2, EditedIsHeld, CommitGood

LEMMA ConfirmUserIntentGood == ASSUME ConversationInv, ConfirmUserIntent PROVE ConversationInv'
<1>. PICK i \in Intents :
        /\ \/ At("direction_menu") /\ Branch[i] = Unset
           \/ At("intent_branch") /\ Branch[i] = draft.branch
        /\ Commit("country", Confirmed(draft, i))
  BY DEF ConfirmUserIntent
<1>1. user.explicit /\ Held(draft) /\ i # Unset
  BY AtGood, ConversationAssumption DEF DraftStages, Branch, Unset
<1>2. Editable(Confirmed(draft, i)) /\ Confirmed(draft, i).stage = "country"
  BY <1>1 DEF Editable, Held, Drafts, DraftStages, Agrees, Confirmed, Places
<1>. QED BY <1>1, <1>2, EditedIsHeld, CommitGood

LEMMA ConfirmCountryGood == ASSUME ConversationInv, ConfirmCountry PROVE ConversationInv'
<1>. PICK c \in Countries :
        /\ At("country")
        /\ Commit("city", [InCountry(draft, c) EXCEPT !.stage = "city"])
  BY DEF ConfirmCountry
<1>. DEFINE e == InCountry(draft, c)
            d == [e EXCEPT !.stage = "city"]
<1>1. user.explicit /\ Held(draft) /\ draft.stage = "country"
  BY AtGood DEF DraftStages
<1>2. e \in Drafts /\ Agrees(e) /\ e.intent # Unset
  <2>1. draft \in Drafts /\ Agrees(draft) /\ draft.intent # Unset
    BY <1>1 DEF Held, Agrees
  <2>2. CASE draft.country = c
    BY <2>1, <2>2 DEF InCountry
  <2>3. CASE draft.country # c
    <3>1. e = [draft EXCEPT !.country = c, !.city = Nowhere, !.area = Nowhere, !.date = Nowhere]
      BY <2>3 DEF InCountry
    <3>2. e \in Drafts
      BY <2>1, <3>1 DEF Drafts, Places
    <3>3. /\ e.intent = draft.intent /\ e.stage = draft.stage
          /\ e.city = Nowhere /\ e.area = Nowhere /\ e.date = Nowhere
      BY <2>1, <3>1 DEF Drafts
    <3>. HIDE DEF e
    <3>. QED BY <2>1, <3>2, <3>3 DEF Agrees
  <2>. QED BY <2>2, <2>3
<1>3. Editable(d) /\ d.stage = "city"
  <2>. HIDE DEF e
  <2>1. d \in Drafts
    BY <1>2 DEF Drafts, DraftStages
  <2>2. /\ d.stage = "city" /\ d.intent = e.intent /\ d.country = e.country
        /\ d.city = e.city /\ d.area = e.area /\ d.date = e.date
    BY <1>2 DEF Drafts
  <2>. HIDE DEF d
  <2>3. Agrees(d)
    BY <1>2, <2>2 DEF Agrees
  <2>. QED BY <2>1, <2>2, <2>3 DEF Editable, DraftStages
<1>. QED BY <1>1, <1>3, EditedIsHeld, CommitGood

LEMMA ConfirmCityGood == ASSUME ConversationInv, ConfirmCity PROVE ConversationInv'
<1>. PICK t \in Cities :
        /\ At("city") /\ Country(t) = draft.country
        /\ Commit("search_area", [InCity(draft, t) EXCEPT !.stage = "search_area"])
  BY DEF ConfirmCity
<1>. DEFINE e == InCity(draft, t)
            d == [e EXCEPT !.stage = "search_area"]
<1>1. user.explicit /\ Held(draft) /\ draft.stage = "city"
  BY AtGood DEF DraftStages
<1>2. e \in Drafts /\ Agrees(e) /\ e.intent # Unset
  BY <1>1 DEF Held, Drafts, Agrees, InCity, Places
<1>3. Editable(d) /\ d.stage = "search_area"
  <2>. HIDE DEF e
  <2>. QED BY <1>2 DEF Editable, Drafts, DraftStages, Agrees
<1>. QED BY <1>1, <1>3, EditedIsHeld, CommitGood

LEMMA ConfirmSearchAreaGood == ASSUME ConversationInv, ConfirmSearchArea PROVE ConversationInv'
<1>. DEFINE next == IF draft.intent \in Dated THEN "required_date" ELSE "post_core"
            d    == [draft EXCEPT !.stage = next, !.area = draft.city]
<1>0. At("search_area") /\ Commit(next, d)
  BY DEF ConfirmSearchArea
<1>1. user.explicit /\ Held(draft) /\ draft.stage = "search_area"
  BY <1>0, AtGood DEF DraftStages
<1>2. next \in {"required_date", "post_core"} /\ (next = "required_date" => draft.intent \in Dated)
  OBVIOUS
<1>3. Editable(d) /\ d.stage = next
  <2>. HIDE DEF next
  <2>. QED BY <1>1, <1>2 DEF Editable, Held, Drafts, DraftStages, Agrees
<1>. QED BY <1>0, <1>1, <1>3, EditedIsHeld, CommitGood

LEMMA ConfirmRequiredDateGood == ASSUME ConversationInv, ConfirmRequiredDate PROVE ConversationInv'
<1>. DEFINE d == [draft EXCEPT !.stage = "post_core", !.date = draft.city]
<1>0. At("required_date") /\ Commit("post_core", d)
  BY DEF ConfirmRequiredDate
<1>1. user.explicit /\ Held(draft) /\ draft.stage = "required_date"
  BY <1>0, AtGood DEF DraftStages
<1>2. Editable(d) /\ d.stage = "post_core"
  BY <1>1 DEF Editable, Held, Drafts, DraftStages, Agrees
<1>. QED BY <1>0, <1>1, <1>2, EditedIsHeld, CommitGood

LEMMA NumberGood == ASSUME ConversationInv, AskNumber \/ SettleNumber PROVE ConversationInv'
<1>0. PICK a \in BOOLEAN, n \in BOOLEAN :
        At("post_core") /\ Commit("post_core", [draft EXCEPT !.asking = a, !.number = n])
  <2>1. At("post_core")
    BY DEF AskNumber, SettleNumber
  <2>2. draft \in Drafts
    BY <2>1, AtGood DEF DraftStages, Held
  <2>3. CASE AskNumber
    <3>1. [draft EXCEPT !.asking = TRUE] = [draft EXCEPT !.asking = TRUE, !.number = draft.number]
      BY <2>2 DEF Drafts
    <3>. QED BY <2>1, <2>2, <2>3, <3>1 DEF AskNumber, Drafts
  <2>4. CASE SettleNumber
    BY <2>1, <2>2, <2>4 DEF SettleNumber, Drafts
  <2>. QED BY <2>3, <2>4
<1>. DEFINE d == [draft EXCEPT !.asking = a, !.number = n]
<1>1. user.explicit /\ Held(draft) /\ draft.stage = "post_core"
  BY <1>0, AtGood DEF DraftStages
<1>2. Editable(d) /\ d.stage = "post_core"
  BY <1>1 DEF Editable, Held, Drafts, DraftStages, Agrees
<1>. QED BY <1>0, <1>1, <1>2, EditedIsHeld, CommitGood

LEMMA BackFromStageGood == ASSUME ConversationInv, BackFromStage PROVE ConversationInv'
<1>. DEFINE s == Previous(draft)
            b == CASE s = "intent_branch" -> Branch[draft.intent]
                   [] s = "direction_menu" -> Unset
                   [] OTHER -> draft.branch
            d == [draft EXCEPT !.stage = s, !.branch = b]
<1>0. /\ HasDraft /\ At(draft.stage) /\ draft.stage \notin {"direction_menu", "submitting"}
      /\ Commit(s, [draft EXCEPT !.stage = s,
                        !.branch = CASE s = "intent_branch" -> Branch[draft.intent]
                                     [] s = "direction_menu" -> Unset
                                     [] OTHER -> @])
  BY DEF BackFromStage
<1>1. user.explicit /\ Held(draft) /\ draft.stage \in DraftStages
  BY <1>0, AtGood DEF DraftStages, Held, ConversationInv
<1>2. /\ s \in {"required_date", "search_area", "city", "country", "direction_menu", "intent_branch"}
      /\ s = "required_date" => draft.intent \in Dated
      /\ s \notin {"direction_menu", "intent_branch"} => draft.intent # Unset
      /\ s = "intent_branch" => draft.intent # Unset
  BY <1>0, <1>1 DEF Previous, DraftStages, Held, Agrees
<1>3. b \in {Branch[i] : i \in Intents} \cup {Unset}
  BY <1>1, <1>2 DEF Held, Drafts
<1>4. d = [draft EXCEPT !.stage = s,
                        !.branch = CASE s = "intent_branch" -> Branch[draft.intent]
                                     [] s = "direction_menu" -> Unset
                                     [] OTHER -> @]
  OBVIOUS
<1>5. Commit(s, d)
  BY <1>0, <1>4
<1>. HIDE DEF s, b
<1>6. Editable(d) /\ d.stage = s
  <2>1. draft \in Drafts /\ Agrees(draft)
    BY <1>1 DEF Held
  <2>2. s \in DraftStages \ {"submitting"}
    BY <1>2 DEF DraftStages
  <2>3. d \in Drafts
    BY <2>1, <2>2, <1>3 DEF Drafts
  <2>4. /\ d.stage = s /\ d.intent = draft.intent /\ d.country = draft.country
        /\ d.city = draft.city /\ d.area = draft.area /\ d.date = draft.date
    BY <2>1 DEF Drafts
  <2>. HIDE DEF d
  <2>5. Agrees(d)
    BY <2>1, <2>4, <1>2 DEF Agrees
  <2>. QED BY <2>2, <2>3, <2>4, <2>5 DEF Editable
<1>. QED BY <1>1, <1>5, <1>6, EditedIsHeld, CommitGood
-----------------------------------------------------------------------------
(* /start, the menus and the language.                                     *)
LEMMA StartGood == ASSUME ConversationInv, Start PROVE ConversationInv'
<1>. PICK d \in {draft, NoDraft} : StartWith(d)
  BY DEF Start
<1>. DEFINE kept == IF d = NoDraft THEN FreshDraft ELSE d
<1>1. CASE /\ draft' = d
           /\ UNCHANGED <<user, inStep, drawn, usable, context, pending, lost, searches>>
  <2>1. TypeOK'
    BY <1>1, DraftHasStage DEF ConversationInv, TypeOK
  <2>2. HasDraft' => draft' = draft /\ HasDraft
    BY <1>1 DEF HasDraft
  <2>3. (HasDraft => Held(draft))' /\ Explicit'
    BY <1>1, <2>2 DEF ConversationInv, Held, Submitted, Latest, Ids, Explicit
  <2>4. InStep' /\ LeftAtDirections' /\ PresentationHasState'
    BY <1>1, <2>2 DEF ConversationInv, InStep, LeftAtDirections, PresentationHasState
  <2>5. SearchesAgree' /\ (pending # 0 => Presentable(pending))'
    BY <1>1 DEF ConversationInv, SearchesAgree, Ids, Presentable, Latest
  <2>. QED BY <2>1, <2>3, <2>4, <2>5 DEF ConversationInv
<1>2. CASE user.explicit /\ Commit(kept.stage, kept)
  <2>1. Held(kept) /\ kept # NoDraft
    BY DraftHasStage, EditedIsHeld DEF ConversationInv, HasDraft
  <2>2. kept.stage \in Stages
    BY <2>1 DEF Held, Stages
  <2>. QED BY <1>2, <2>1, <2>2, CommitGood
<1>3. CASE ~user.explicit /\ Show("language_selection") /\ Present(0)
  BY <1>3, ShowGood DEF Stages, DraftStages, ConversationInv, Explicit, Quiet
<1>. QED BY <1>1, <1>2, <1>3 DEF StartWith

LEMMA OpenMainMenuGood == ASSUME ConversationInv, OpenMainMenu PROVE ConversationInv'
<1>1. user.explicit /\ (HasDraft => draft.stage = "direction_menu")
  BY DEF ConversationInv, OpenMainMenu, Explicit, Quiet, LeftAtDirections
<1>. QED BY <1>1, ShowGood DEF OpenMainMenu, Stages, DraftStages, Menus

LEMMA SettingsGood == ASSUME ConversationInv, Settings PROVE ConversationInv'
<1>. PICK s \in Menus : <<user.stage, s>> \in SettingsMoves /\ Show(s) /\ Present(0)
  BY DEF Settings
<1>1. user.stage \in Menus
  BY DEF SettingsMoves, Menus
<1>2. user.stage \notin DraftStages /\ user.stage \notin Quiet
  BY <1>1 DEF Menus, DraftStages, Quiet
<1>3. user.explicit /\ (HasDraft => draft.stage = "direction_menu")
  BY <1>2 DEF ConversationInv, Explicit, LeftAtDirections, Held
<1>4. s \in Stages \ DraftStages
  BY DEF Stages, DraftStages, Menus
<1>. QED BY <1>3, <1>4, ShowGood

LEMMA ShowSearchResultsGood == ASSUME ConversationInv, ShowSearchResults PROVE ConversationInv'
<1>. DEFINE p == IF WithResults(context) THEN context ELSE 0
<1>1. user.stage = "main_menu" /\ Show("results") /\ Present(p)
  BY DEF ShowSearchResults
<1>2. user.explicit /\ (HasDraft => draft.stage = "direction_menu")
  BY <1>1 DEF ConversationInv, Explicit, LeftAtDirections, Held, DraftStages, Quiet
<1>3. p = 0 \/ p = context
  OBVIOUS
<1>4. "results" \in Stages \ DraftStages
  BY DEF Stages, DraftStages
<1>. HIDE DEF p
<1>. QED BY <1>1, <1>2, <1>3, <1>4, ShowGood

LEMMA StartNewSearchGood == ASSUME ConversationInv, StartNewSearch PROVE ConversationInv'
<1>1. user.explicit /\ Commit("direction_menu", FreshDraft)
  BY DEF ConversationInv, StartNewSearch, Explicit, Quiet
<1>. QED BY <1>1, DraftHasStage, EditedIsHeld, CommitGood DEF Stages, DraftStages

LEMMA OpenLanguageInputGood == ASSUME ConversationInv, OpenLanguageInput PROVE ConversationInv'
<1>0. user.stage = "language_selection" /\ "language_input" \in Stages \ DraftStages
  BY DEF OpenLanguageInput, Stages, DraftStages
<1>1. CASE HasDraft
  <2>1. user.explicit /\ Held(draft) /\ draft # NoDraft
    BY <1>1 DEF ConversationInv, Explicit, HasDraft
  <2>2. draft.stage = "direction_menu"
    BY <1>0, <1>1, <2>1 DEF ConversationInv, LeftAtDirections, Held, DraftStages
  <2>. QED BY <1>0, <1>1, <2>1, <2>2, CommitGood DEF OpenLanguageInput
<1>2. CASE ~HasDraft
  BY <1>0, <1>2, ShowGood DEF OpenLanguageInput, Quiet
<1>. QED BY <1>1, <1>2

LEMMA BackFromDirectionsGood == ASSUME ConversationInv, BackFromDirections PROVE ConversationInv'
<1>1. At("direction_menu")
  BY DEF BackFromDirections
<1>2. user.explicit /\ Held(draft) /\ draft # NoDraft /\ draft.stage = "direction_menu"
  BY <1>1, AtGood DEF DraftStages
<1>3. CASE Show("main_menu") /\ Present(0)
  BY <1>2, <1>3, ShowGood DEF Stages, DraftStages, Menus
<1>4. CASE Commit("language_selection", draft)
  BY <1>2, <1>4, CommitGood DEF Stages
<1>. QED BY <1>3, <1>4 DEF BackFromDirections

LEMMA ConfirmLanguageGood == ASSUME ConversationInv, ConfirmLanguage PROVE ConversationInv'
<1>. DEFINE d == IF HasDraft THEN [draft EXCEPT !.stage = "direction_menu", !.branch = Unset]
                             ELSE FreshDraft
<1>1. /\ user' = [stage |-> "direction_menu", explicit |-> TRUE] /\ draft' = d
      /\ inStep' = TRUE /\ drawn' = TRUE /\ usable' = TRUE
      /\ Present(0) /\ UNCHANGED <<context, searches>>
  BY DEF ConfirmLanguage
<1>2. Editable(d) /\ d.stage = "direction_menu"
  <2>1. CASE HasDraft
    BY <2>1 DEF ConversationInv, Editable, Held, Drafts, DraftStages, Agrees
  <2>2. CASE ~HasDraft
    BY <2>2, DraftHasStage
  <2>. QED BY <2>1, <2>2
<1>. HIDE DEF d
<1>3. Held(d) /\ d \in Drafts
  BY <1>2, EditedIsHeld DEF Held
<1>4. 0 \in 0..Len(searches)
  BY DEF ConversationInv, TypeOK
<1>5. pending' = 0 /\ pending' \in 0..Len(searches) /\ lost' \subseteq Nat
  BY <1>1, <1>4, PresentTyped DEF ConversationInv, Present
<1>6. user' \in [stage : Stages, explicit : BOOLEAN]
  BY <1>1 DEF Stages, DraftStages
<1>7. TypeOK'
  BY <1>1, <1>3, <1>5, <1>6 DEF ConversationInv, TypeOK
<1>8. Held(draft)'
  BY <1>1, <1>3 DEF Held, Submitted, Latest, Ids
<1>9. SearchesAgree'
  BY <1>1 DEF ConversationInv, SearchesAgree, Ids
<1>10. Explicit' /\ InStep' /\ LeftAtDirections' /\ PresentationHasState'
  BY <1>1, <1>2, <1>5 DEF Explicit, InStep, LeftAtDirections, PresentationHasState
<1>. QED BY <1>5, <1>7, <1>8, <1>9, <1>10 DEF ConversationInv
-----------------------------------------------------------------------------
(* Screens drawn again, and searches.                                      *)
LEMMA RedrawGood == ASSUME ConversationInv, Redraw PROVE ConversationInv'
<1>0. PICK p : /\ Present(p) /\ usable' \in BOOLEAN
               /\ p = 0 \/ (p = context /\ user.stage = "results")
  <2>1. WithResults(context) \in BOOLEAN
    BY Zenon DEF WithResults
  <2>2. CASE user.stage = "results"
    BY <2>1, <2>2 DEF Redraw
  <2>3. CASE user.stage # "results"
    BY <2>3 DEF Redraw, ConversationInv, TypeOK
  <2>. QED BY <2>2, <2>3
<1>1. UNCHANGED <<user, draft, inStep, drawn, context, searches>>
  BY DEF Redraw
<1>2. p \in 0..Len(searches)
  BY <1>0 DEF ConversationInv, TypeOK
<1>3. pending' = p /\ pending' \in 0..Len(searches) /\ lost' \subseteq Nat
  BY <1>0, <1>2, PresentTyped DEF ConversationInv, Present
<1>4. TypeOK'
  BY <1>0, <1>1, <1>3 DEF ConversationInv, TypeOK
<1>5. (HasDraft => Held(draft))' /\ Explicit'
  BY <1>1 DEF ConversationInv, Held, Submitted, Latest, Ids, Explicit, HasDraft
<1>6. InStep' /\ LeftAtDirections'
  BY <1>1 DEF ConversationInv, InStep, LeftAtDirections, HasDraft
<1>7. PresentationHasState'
  BY <1>0, <1>1, <1>3 DEF ConversationInv, PresentationHasState, LeftAtDirections, HasDraft
<1>8. SearchesAgree' /\ (pending # 0 => Presentable(pending))'
  BY <1>0, <1>1, <1>3 DEF ConversationInv, SearchesAgree, Ids, Presentable, Latest
<1>. QED BY <1>4, <1>5, <1>6, <1>7, <1>8 DEF ConversationInv

(* What a new command leaves as it was.                                    *)
LEMMA SentIsLast ==
  ASSUME TypeOK, NEW c \in Commands, searches' = Append(searches, c)
  PROVE  /\ searches' \in Seq(Commands) /\ Len(searches') = Len(searches) + 1
         /\ Len(searches) \in Nat /\ searches'[Len(searches) + 1] = c
         /\ \A j \in Ids : searches'[j] = searches[j]
         /\ Ids' = Ids \cup {Len(searches) + 1}
BY DEF TypeOK, Ids

LEMMA SubmitGood == ASSUME ConversationInv, Submit PROVE ConversationInv'
<1>. DEFINE n == Len(searches) + 1
            c == Command(draft, 0)
            d == [draft EXCEPT !.stage = "submitting", !.search = n]
<1>0. /\ At("post_core") /\ Complete(draft)
      /\ user' = [user EXCEPT !.stage = "submitting"] /\ draft' = d
      /\ searches' = Append(searches, c)
      /\ inStep' = TRUE /\ drawn' = FALSE
      /\ UNCHANGED <<usable, context, pending, lost>>
  BY DEF Submit
<1>1. /\ user.explicit /\ Held(draft) /\ draft # NoDraft
      /\ draft.stage = "post_core" /\ user.stage = "post_core"
  BY <1>0, AtGood DEF DraftStages
<1>2. pending = 0
  BY <1>1 DEF ConversationInv, PresentationHasState
<1>3. c \in Commands /\ c.parent = 0 /\ c.core = Core(draft) /\ c.state = "run"
  <2>1. Core(draft) \in Cores
    BY <1>1 DEF Held, Drafts, Core, Cores
  <2>. QED BY <2>1 DEF Command, Commands
<1>. HIDE DEF c
<1>4. /\ searches' \in Seq(Commands) /\ Len(searches') = n
      /\ Len(searches) \in Nat /\ searches'[n] = c
      /\ \A j \in Ids : searches'[j] = searches[j]
      /\ Ids' = Ids \cup {n}
  BY <1>0, <1>3, SentIsLast DEF ConversationInv
<1>5. /\ d \in Drafts /\ d.stage = "submitting" /\ d.search = n /\ d # NoDraft
      /\ Agrees(d)
  <2>0. n \in Nat
    BY <1>4
  <2>. HIDE DEF n
  <2>1. d \in Drafts /\ d.stage = "submitting" /\ d.search = n
    BY <1>1, <2>0 DEF Held, Drafts, DraftStages
  <2>2. Agrees(d)
    BY <1>1 DEF Held, Drafts, Agrees
  <2>. QED BY <2>1, <2>2, DraftHasStage DEF DraftStages
<1>. HIDE DEF d
<1>6. /\ user' \in [stage : Stages, explicit : BOOLEAN]
      /\ user'.stage = "submitting" /\ user'.explicit = user.explicit
  BY <1>0 DEF ConversationInv, TypeOK, Stages, DraftStages
<1>7. TypeOK'
  <2>1. context' \in 0..Len(searches') /\ pending' \in 0..Len(searches')
    BY <1>0, <1>4 DEF ConversationInv, TypeOK
  <2>. QED BY <1>0, <1>4, <1>5, <1>6, <2>1 DEF ConversationInv, TypeOK
<1>8. Held(draft)'
  <2>1. \A j \in Ids' : j <= n
    BY <1>4 DEF Ids
  <2>2. Submitted(draft)'
    BY <1>0, <1>3, <1>4, <1>5, <2>1 DEF Submitted, Latest
  <2>. QED BY <1>0, <1>5, <2>2 DEF Held, DraftStages
<1>9. SearchesAgree'
  <2>. SUFFICES ASSUME NEW i \in Ids', searches'[i].state = "run", searches'[i].parent = 0
                PROVE  LET core == searches'[i].core
                       IN /\ Country(core.city) = core.country
                          /\ core.area = core.city
                          /\ core.date = IF core.intent \in Dated THEN core.city ELSE Nowhere
    BY DEF SearchesAgree
  <2>1. CASE i \in Ids
    BY <1>4, <2>1 DEF ConversationInv, SearchesAgree
  <2>2. CASE i = n
    BY <1>0, <1>1, <1>3, <1>4, <2>2 DEF Complete, Held, Agrees, Core
  <2>. QED BY <1>4, <2>1, <2>2
<1>10. Explicit' /\ InStep' /\ LeftAtDirections' /\ PresentationHasState'
  BY <1>0, <1>1, <1>2, <1>5, <1>6 DEF Explicit, InStep, LeftAtDirections, PresentationHasState
<1>. QED BY <1>0, <1>2, <1>7, <1>8, <1>9, <1>10 DEF ConversationInv

LEMMA AnswerResultMessageGood ==
  ASSUME ConversationInv, AnswerResultMessage
  PROVE  ConversationInv'
<1>. DEFINE c == Command(FreshDraft, context)
<1>0. /\ user.stage = "results" /\ ~HasDraft /\ context # 0
      /\ searches' = Append(searches, c) \/ searches' = searches
      /\ Present(0)
      /\ UNCHANGED <<user, draft, inStep, drawn, usable, context>>
  BY DEF AnswerResultMessage
<1>1. 0 \in 0..Len(searches)
  BY DEF ConversationInv, TypeOK
<1>2. pending' = 0 /\ lost' \subseteq Nat
  BY <1>0, <1>1, PresentTyped DEF ConversationInv, Present
<1>3. c \in Commands /\ c.parent = context
  <2>1. Core(FreshDraft) \in Cores
    BY DraftHasStage DEF Drafts, Core, Cores
  <2>2. context \in Nat
    BY DEF ConversationInv, TypeOK
  <2>. QED BY <2>1, <2>2 DEF Command, Commands
<1>. HIDE DEF c
<1>4. TypeOK' /\ SearchesAgree'
  <2>1. CASE searches' = searches
    <3>1. TypeOK'
      BY <1>0, <1>1, <1>2, <2>1 DEF ConversationInv, TypeOK
    <3>2. SearchesAgree'
      BY <2>1 DEF ConversationInv, SearchesAgree, Ids
    <3>. QED BY <3>1, <3>2
  <2>2. CASE searches' = Append(searches, c)
    <3>1. /\ searches' \in Seq(Commands) /\ Len(searches') = Len(searches) + 1
          /\ Len(searches) \in Nat /\ searches'[Len(searches) + 1] = c
          /\ \A j \in Ids : searches'[j] = searches[j]
          /\ Ids' = Ids \cup {Len(searches) + 1}
      BY <1>3, <2>2, SentIsLast DEF ConversationInv
    <3>2. context' \in 0..Len(searches') /\ pending' \in 0..Len(searches')
      BY <1>0, <1>2, <3>1 DEF ConversationInv, TypeOK
    <3>3. TypeOK'
      BY <1>0, <1>2, <3>1, <3>2 DEF ConversationInv, TypeOK
    <3>4. SearchesAgree'
      BY <1>0, <1>3, <3>1 DEF ConversationInv, SearchesAgree
    <3>. QED BY <3>3, <3>4
  <2>. QED BY <1>0, <2>1, <2>2
<1>5. ~HasDraft' /\ Explicit' /\ InStep' /\ LeftAtDirections' /\ PresentationHasState'
  BY <1>0, <1>2 DEF ConversationInv, Explicit, InStep, LeftAtDirections,
     PresentationHasState, HasDraft
<1>. QED BY <1>2, <1>4, <1>5 DEF ConversationInv
-----------------------------------------------------------------------------
(* Outcomes: a command changes its state and keeps its parent.             *)
Outcome(i) == /\ searches' \in Seq(Commands) /\ Len(searches') = Len(searches)
              /\ \A j \in Ids : /\ searches'[j].parent = searches[j].parent
                                /\ searches'[j].state = "run" => searches'[j] = searches[j]

LEMMA ReplacedIsOutcome ==
  ASSUME searches \in Seq(Commands), NEW i \in Ids, NEW e \in Commands,
         e.parent = searches[i].parent, e.state # "run",
         searches' = [searches EXCEPT ![i] = e]
  PROVE  Outcome(i)
<1>1. searches' \in Seq(Commands) /\ Len(searches') = Len(searches)
  BY DEF Ids
<1>2. \A j \in Ids : searches'[j] = IF j = i THEN e ELSE searches[j]
  BY DEF Ids
<1>. QED BY <1>1, <1>2 DEF Outcome

LEMMA AnswerIsOutcome == ASSUME ConversationInv, NEW i \in Ids, Answer(i) PROVE Outcome(i)
<1>. PICK s \in {"completed", "failed"}, r \in BOOLEAN :
        searches' = [searches EXCEPT ![i].state = s, ![i].some = r, ![i].core = NoCore]
  BY DEF Answer
<1>1. searches \in Seq(Commands) /\ searches[i] \in Commands
  BY DEF ConversationInv, TypeOK, Ids
<1>2. NoCore \in Cores
  BY DraftHasStage DEF NoCore, Core, Drafts, Cores
<1>. DEFINE e == [searches[i] EXCEPT !.state = s, !.some = r, !.core = NoCore]
<1>3. e \in Commands /\ e.parent = searches[i].parent /\ e.state # "run"
  BY <1>1, <1>2 DEF Commands
<1>4. searches' = [searches EXCEPT ![i] = e]
  BY <1>1 DEF Ids
<1>. HIDE DEF e
<1>. QED BY <1>1, <1>3, <1>4, ReplacedIsOutcome

LEMMA SettledIsOutcome ==
  ASSUME ConversationInv, NEW i \in Ids, searches' = Settled(i)
  PROVE  Outcome(i)
<1>1. searches \in Seq(Commands) /\ searches[i] \in Commands
  BY DEF ConversationInv, TypeOK, Ids
<1>. DEFINE e == [searches[i] EXCEPT !.state = "settled"]
<1>2. e \in Commands /\ e.parent = searches[i].parent /\ e.state # "run"
  BY <1>1 DEF Commands
<1>3. searches' = [searches EXCEPT ![i] = e]
  BY <1>1 DEF Ids, Settled
<1>. HIDE DEF e
<1>. QED BY <1>1, <1>2, <1>3, ReplacedIsOutcome

(* What an outcome leaves as it was, whoever it is for.                    *)
LEMMA OutcomeKeeps ==
  ASSUME ConversationInv, NEW i \in Ids, Outcome(i)
  PROVE  /\ Ids' = Ids /\ SearchesAgree'
         /\ \A j \in Ids : searches'[j].parent = searches[j].parent
         /\ searches' \in Seq(Commands) /\ Len(searches') = Len(searches)
BY DEF Outcome, Ids, ConversationInv, SearchesAgree

LEMMA AnswerGood == ASSUME ConversationInv, NEW i \in Ids, Answer(i) PROVE ConversationInv'
<1>0. UNCHANGED <<user, draft, inStep, drawn, usable, context, pending, lost>>
  BY DEF Answer
<1>1. /\ Ids' = Ids /\ SearchesAgree'
      /\ \A j \in Ids : searches'[j].parent = searches[j].parent
      /\ searches' \in Seq(Commands) /\ Len(searches') = Len(searches)
  BY AnswerIsOutcome, OutcomeKeeps
<1>2. TypeOK'
  BY <1>0, <1>1 DEF ConversationInv, TypeOK
<1>3. (HasDraft => Held(draft))' /\ Explicit' /\ InStep' /\ LeftAtDirections' /\ PresentationHasState'
  BY <1>0, <1>1 DEF ConversationInv, Held, Submitted, Latest, Explicit, HasDraft, InStep,
     LeftAtDirections, PresentationHasState
<1>4. (pending # 0 => Presentable(pending))'
  BY <1>0, <1>1 DEF ConversationInv, Presentable, Latest
<1>. QED BY <1>1, <1>2, <1>3, <1>4 DEF ConversationInv

LEMMA AcceptSearchCompletionGood ==
  ASSUME ConversationInv, NEW i \in Ids, AcceptSearchCompletion(i)
  PROVE  ConversationInv'
<1>0. UNCHANGED <<user, draft, inStep, drawn, usable, context>> /\ searches' = Settled(i)
  BY DEF AcceptSearchCompletion
<1>1. /\ Ids' = Ids /\ SearchesAgree'
      /\ \A j \in Ids : searches'[j].parent = searches[j].parent
      /\ searches' \in Seq(Commands) /\ Len(searches') = Len(searches)
  BY <1>0, SettledIsOutcome, OutcomeKeeps
<1>2. (HasDraft => Held(draft))' /\ Explicit' /\ InStep' /\ LeftAtDirections'
  BY <1>0, <1>1 DEF ConversationInv, Held, Submitted, Latest, Explicit, HasDraft, InStep,
     LeftAtDirections
<1>3. CASE UNCHANGED <<pending, lost>>
  <2>1. TypeOK'
    BY <1>0, <1>1, <1>3 DEF ConversationInv, TypeOK
  <2>2. PresentationHasState' /\ (pending # 0 => Presentable(pending))'
    BY <1>0, <1>1, <1>3 DEF ConversationInv, PresentationHasState, Presentable, Latest, HasDraft
  <2>. QED BY <1>1, <1>2, <2>1, <2>2 DEF ConversationInv
<1>4. CASE (Awaited(i) \/ IsRefinement(i)) /\ Present(i)
  <2>1. i \in 0..Len(searches)
    BY DEF Ids
  <2>2. pending' = i /\ pending' \in 0..Len(searches) /\ lost' \subseteq Nat
    BY <1>4, <2>1, PresentTyped DEF ConversationInv, Present
  <2>3. TypeOK'
    BY <1>0, <1>1, <2>2 DEF ConversationInv, TypeOK
  <2>4. Presentable(i)
    BY <1>4 DEF ConversationInv, Awaited, IsRefinement, Held, Submitted, Presentable
  <2>5. (pending # 0 => Presentable(pending))'
    BY <1>0, <1>1, <2>2, <2>4 DEF Presentable, Latest
  <2>6. PresentationHasState'
    BY <1>0, <1>4, <2>2 DEF PresentationHasState, Awaited, IsRefinement, HasDraft
  <2>. QED BY <1>1, <1>2, <2>3, <2>5, <2>6 DEF ConversationInv
<1>. QED BY <1>3, <1>4 DEF AcceptSearchCompletion

LEMMA AcceptSearchFailureGood ==
  ASSUME ConversationInv, NEW i \in Ids, AcceptSearchFailure(i)
  PROVE  ConversationInv'
<1>0. context' = context /\ searches' = Settled(i)
  BY DEF AcceptSearchFailure
<1>1. /\ Ids' = Ids /\ SearchesAgree'
      /\ \A j \in Ids : searches'[j].parent = searches[j].parent
      /\ searches' \in Seq(Commands) /\ Len(searches') = Len(searches)
  BY <1>0, SettledIsOutcome, OutcomeKeeps
<1>2. CASE UNCHANGED <<user, draft, inStep, drawn, usable, pending, lost>>
  <2>1. TypeOK'
    BY <1>0, <1>1, <1>2 DEF ConversationInv, TypeOK
  <2>2. (HasDraft => Held(draft))' /\ Explicit' /\ InStep' /\ LeftAtDirections' /\ PresentationHasState'
    BY <1>0, <1>1, <1>2 DEF ConversationInv, Held, Submitted, Latest, Explicit, HasDraft,
       InStep, LeftAtDirections, PresentationHasState
  <2>3. (pending # 0 => Presentable(pending))'
    BY <1>0, <1>1, <1>2 DEF ConversationInv, Presentable, Latest
  <2>. QED BY <1>1, <2>1, <2>2, <2>3 DEF ConversationInv
<1>3. CASE ~UNCHANGED <<user, draft, inStep, drawn, usable, pending, lost>>
  <2>. DEFINE d == [draft EXCEPT !.stage = "post_core", !.search = 0]
  <2>1. /\ user.stage = "submitting" /\ HasDraft /\ draft.stage = "submitting"
        /\ user' = [user EXCEPT !.stage = "post_core"] /\ draft' = d
        /\ inStep' = TRUE /\ drawn' = TRUE /\ usable' = TRUE /\ Present(0)
    BY <1>3 DEF AcceptSearchFailure, Awaited
  <2>2. Held(draft) /\ user.explicit
    BY <2>1 DEF ConversationInv, Explicit
  <2>3. Editable(d) /\ d.stage = "post_core"
    BY <2>1, <2>2 DEF Editable, Held, Drafts, DraftStages, Agrees
  <2>. HIDE DEF d
  <2>4. d \in Drafts /\ d # NoDraft /\ Agrees(d) /\ d.stage \in DraftStages
    BY <2>3, DraftHasStage DEF Editable
  <2>5. /\ user' \in [stage : Stages, explicit : BOOLEAN]
        /\ user'.stage = "post_core" /\ user'.explicit = user.explicit
    BY <2>1 DEF ConversationInv, TypeOK, Stages, DraftStages
  <2>6. 0 \in 0..Len(searches)
    BY DEF ConversationInv, TypeOK
  <2>7. pending' = 0 /\ pending' \in 0..Len(searches) /\ lost' \subseteq Nat
    BY <2>1, <2>6, PresentTyped DEF ConversationInv, Present
  <2>8. TypeOK'
    BY <1>0, <1>1, <2>1, <2>4, <2>5, <2>7 DEF ConversationInv, TypeOK
  <2>9. Held(draft)' /\ Explicit' /\ InStep' /\ LeftAtDirections' /\ PresentationHasState'
    BY <2>1, <2>2, <2>3, <2>4, <2>5, <2>7 DEF Held, Submitted, Explicit, InStep,
       LeftAtDirections, PresentationHasState
  <2>. QED BY <1>1, <2>7, <2>8, <2>9 DEF ConversationInv
<1>. QED BY <1>2, <1>3

LEMMA ActivateGood == ASSUME ConversationInv, Activate PROVE ConversationInv'
<1>. DEFINE d == IF draft.stage = "submitting" THEN NoDraft ELSE draft
<1>0. /\ pending # 0 /\ user.stage \in {"submitting", "results"}
      /\ user' = [user EXCEPT !.stage = "results"] /\ draft' = d
      /\ context' = pending /\ pending' = 0
      /\ inStep' = FALSE /\ drawn' = TRUE /\ usable' = TRUE
      /\ UNCHANGED <<lost, searches>>
  BY DEF Activate
<1>1. /\ user' \in [stage : Stages, explicit : BOOLEAN]
      /\ user'.stage = "results" /\ user'.explicit = user.explicit /\ user.explicit
  BY <1>0 DEF ConversationInv, TypeOK, Stages, Explicit, Quiet
<1>2. d \in Drafts /\ (d # NoDraft => d = draft /\ Held(d) /\ d.stage = "direction_menu")
  BY <1>0, DraftHasStage DEF ConversationInv, TypeOK, HasDraft, LeftAtDirections, Held, DraftStages
<1>. HIDE DEF d
<1>3. TypeOK'
  <2>1. context' \in 0..Len(searches') /\ pending' \in 0..Len(searches')
    BY <1>0 DEF ConversationInv, TypeOK
  <2>2. searches' \in Seq(Commands) /\ lost' \subseteq Nat
    BY <1>0 DEF ConversationInv, TypeOK
  <2>. QED BY <1>0, <1>1, <1>2, <2>1, <2>2 DEF TypeOK
<1>4. (HasDraft => Held(draft))'
  BY <1>0, <1>2 DEF HasDraft, Held, Submitted, Latest, Ids
<1>5. Explicit' /\ InStep' /\ LeftAtDirections' /\ PresentationHasState'
  BY <1>0, <1>1, <1>2 DEF Explicit, HasDraft, InStep, LeftAtDirections, PresentationHasState
<1>6. SearchesAgree'
  BY <1>0 DEF ConversationInv, SearchesAgree, Ids
<1>. QED BY <1>0, <1>3, <1>4, <1>5, <1>6 DEF ConversationInv
-----------------------------------------------------------------------------
LEMMA StepGood == ASSUME ConversationInv, [Next]_vars PROVE ConversationInv'
<1>1. CASE UNCHANGED vars
  <2>1. TypeOK' /\ Explicit' /\ InStep' /\ LeftAtDirections' /\ PresentationHasState'
    BY <1>1 DEF vars, ConversationInv, TypeOK, Explicit, HasDraft, InStep, LeftAtDirections,
       PresentationHasState
  <2>2. (HasDraft => Held(draft))' /\ SearchesAgree' /\ (pending # 0 => Presentable(pending))'
    BY <1>1 DEF vars, ConversationInv, HasDraft, Held, Submitted, Latest, Ids, SearchesAgree,
       Presentable
  <2>. QED BY <2>1, <2>2 DEF ConversationInv
<1>2. CASE Press
  BY <1>2, RedrawGood, StartGood, OpenMainMenuGood, OpenLanguageInputGood, ConfirmLanguageGood,
     SettingsGood, ShowSearchResultsGood, StartNewSearchGood, OpenIntentBranchGood,
     ConfirmUserIntentGood, ConfirmCountryGood, ConfirmCityGood, ConfirmSearchAreaGood,
     ConfirmRequiredDateGood, NumberGood, BackFromStageGood, BackFromDirectionsGood,
     AnswerResultMessageGood DEF Press, AnswerForeignQuestion
<1>3. CASE \E i \in Ids : Answer(i) \/ AcceptOutcome(i)
  BY <1>3, AnswerGood, AcceptSearchCompletionGood, AcceptSearchFailureGood DEF AcceptOutcome
<1>. QED BY <1>1, <1>2, <1>3, SubmitGood, ActivateGood DEF Next

(* The inductive invariant: the draft agrees with itself at every stage, a *)
(* draft beside another screen is at the directions, what waits fits the   *)
(* account and may follow what is shown.                                   *)
THEOREM ConversationInvariant == Spec => []ConversationInv
BY InitGood, StepGood, PTL DEF Spec

(* Types, for any intents, cities and number of searches.                  *)
THEOREM ConversationTyped == Spec => []TypeOK
<1>1. ConversationInv => TypeOK
  BY DEF ConversationInv
<1>. QED BY <1>1, ConversationInvariant, PTL

(* A search that leaves is coherent, whatever was gone back to and changed *)
(* (submit_search).                                                        *)
THEOREM SubmittedSearchesAgree == Spec => []SearchesAgree
<1>1. ConversationInv => SearchesAgree
  BY DEF ConversationInv
<1>. QED BY <1>1, ConversationInvariant, PTL

(* At the draft's stage its screen is the account's (commit_conversation_  *)
(* update writes both rows).                                               *)
THEOREM RowsKeepStep == Spec => []InStep
<1>1. ConversationInv => InStep
  BY DEF ConversationInv
<1>. QED BY <1>1, ConversationInvariant, PTL

(* A draft left for another screen is at the directions, which             *)
(* _start_new_search requires.                                             *)
THEOREM DraftsPauseAtDirections == Spec => []LeftAtDirections
<1>1. ConversationInv => LeftAtDirections
  BY DEF ConversationInv
<1>. QED BY <1>1, ConversationInvariant, PTL

(* A waiting presentation finds the account it needs (mark_conversation_   *)
(* message_delivered does not raise).                                      *)
THEOREM PresentationsFindTheirState == Spec => []PresentationHasState
<1>1. ConversationInv => PresentationHasState
  BY DEF ConversationInv
<1>. QED BY <1>1, ConversationInvariant, PTL

(* The results shown are followed by a refinement of them or by those of   *)
(* the latest submission, never by older ones.                             *)
THEOREM ResultsNeverGoBack == Spec => ResultsGoOn
<1>. DEFINE GoOn == context' # context =>
                       \/ searches[context'].parent = context /\ context # 0
                       \/ searches[context'].parent = 0 /\ Latest(context')
<1>1. ASSUME ConversationInv, [Next]_vars PROVE [GoOn]_vars
  <2>1. CASE Activate
    <3>1. context' = pending /\ Presentable(pending)
      BY <1>1, <2>1 DEF Activate, ConversationInv
    <3>. QED BY <3>1 DEF Presentable
  <2>2. CASE ~Activate
    <3>1. /\ \A s, d : Commit(s, d) => context' = context
          /\ \A s : Show(s) => context' = context
      BY Zenon DEF Commit, Show
    <3>2. ASSUME \/ Redraw \/ Start \/ OpenMainMenu \/ OpenLanguageInput \/ ConfirmLanguage
                 \/ Settings \/ ShowSearchResults \/ StartNewSearch \/ BackFromDirections
          PROVE  context' = context
      BY <3>1, <3>2 DEF Redraw, Start, StartWith, OpenMainMenu, OpenLanguageInput,
         ConfirmLanguage, Settings, ShowSearchResults, StartNewSearch, BackFromDirections
    <3>3. /\ OpenIntentBranch \/ ConfirmSearchArea \/ ConfirmRequiredDate => context' = context
          /\ ConfirmUserIntent \/ ConfirmCountry \/ ConfirmCity => context' = context
          /\ AskNumber \/ SettleNumber => context' = context
      <4>1. OpenIntentBranch => context' = context
        BY DEF OpenIntentBranch, Commit
      <4>2. ConfirmSearchArea \/ ConfirmRequiredDate => context' = context
        BY DEF ConfirmSearchArea, ConfirmRequiredDate, Commit
      <4>3. ConfirmUserIntent => context' = context
        BY DEF ConfirmUserIntent, Commit
      <4>4. ConfirmCountry => context' = context
        BY DEF ConfirmCountry, Commit
      <4>5. ConfirmCity => context' = context
        BY DEF ConfirmCity, Commit
      <4>6. AskNumber \/ SettleNumber => context' = context
        BY DEF AskNumber, SettleNumber, Commit
      <4>. QED BY <4>1, <4>2, <4>3, <4>4, <4>5, <4>6
    <3>4. BackFromStage => context' = context
      BY DEF BackFromStage, Commit
    <3>5. AnswerForeignQuestion \/ Submit \/ AnswerResultMessage => context' = context
      BY DEF AnswerForeignQuestion, Redraw, Submit, AnswerResultMessage
    <3>6. ASSUME NEW i \in Ids
          PROVE  Answer(i) \/ AcceptSearchCompletion(i) \/ AcceptSearchFailure(i)
                     => context' = context
      <4>1. Answer(i) => context' = context
        BY DEF Answer
      <4>2. AcceptSearchCompletion(i) \/ AcceptSearchFailure(i) => context' = context
        BY DEF AcceptSearchCompletion, AcceptSearchFailure
      <4>. QED BY <4>1, <4>2
    <3>7. CASE UNCHANGED vars
      BY <3>7 DEF vars
    <3>. QED BY <1>1, <2>2, <3>2, <3>3, <3>4, <3>5, <3>6, <3>7
              DEF Next, Press, AcceptOutcome
  <2>. QED BY <2>1, <2>2
<1>. QED BY <1>1, ConversationInvariant, PTL DEF Spec, ResultsGoOn
-----------------------------------------------------------------------------
(* The schedule only chooses among these steps: what is proved of them     *)
(* holds of the process that the liveness property is about.               *)
THEOREM ScheduleRefines == FairSpec => Spec
<1>1. ScheduleInit => Init
  BY DEF ScheduleInit
<1>2. [ScheduleNext]_schedule => [Next]_vars
  <2>1. CASE UNCHANGED schedule
    BY <2>1 DEF schedule
  <2>2. CASE Update \/ Search
    <3>1. Redraw => Press
      BY DEF Press
    <3>. QED BY <2>2, <3>1 DEF Update, Search, Next
  <2>3. CASE Deliver \/ Keep
    BY <2>3 DEF Deliver, Keep, Next
  <2>4. ASSUME NEW i \in Ids, Answers(i) \/ Accepts(i)
        PROVE  Next
    BY <2>4 DEF Answers, Accepts, Next
  <2>. QED BY <2>1, <2>2, <2>3, <2>4 DEF ScheduleNext
<1>. QED BY <1>1, <1>2, PTL DEF FairSpec, Spec
=============================================================================
