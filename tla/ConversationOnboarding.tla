----------------------- MODULE ConversationOnboarding -----------------------
(***************************************************************************)
(* The conversation of the Bot Assistant with one Bot User: the screens of *)
(* onboarding, of the Discovery Draft, of the menus and of the results,    *)
(* and the searches that leave and come back as contracts.                 *)
(*                                                                         *)
(* The user's account (bot_users) and the draft (bot_discovery_drafts) are *)
(* two rows, each with its stage and its screen revision.  A handler       *)
(* changes one or both; text and controls are taken only while they agree. *)
(*                                                                         *)
(* One process runs the role's loop, so a handler is one step.  A message  *)
(* is delivered in another, which may come at any time here;               *)
(* ConversationSchedule says when the process takes it.  Texts that        *)
(* are not understood change nothing and are left out, as are the screens  *)
(* of an administrator, the position within a result, and every optional   *)
(* Discovery Criterion but Number of Players, the one that can refuse a    *)
(* search.                                                                 *)
(***************************************************************************)
EXTENDS Integers, Sequences

CONSTANTS
    Intents,       \* the terminal User Intents offered
    Cities,        \* the canonical cities, each a pair of its country and a name
    MaxSearches    \* bound on searches

Branch == [game |-> "none", player |-> "none",
           tournament |-> "competition", opponent |-> "competition",
           new_team |-> "transfer", transfer_player |-> "transfer",
           coach |-> "coaching", coaching_offer |-> "coaching",
           referee |-> "refereeing", refereeing_offer |-> "refereeing"]
Dated  == {"game", "player", "tournament", "opponent", "referee", "refereeing_offer"}

ASSUME ConversationAssumption ==
    /\ Intents \subseteq DOMAIN Branch
    /\ MaxSearches \in Nat

Country(t) == t[1]
Countries  == {Country(t) : t \in Cities}
Nowhere    == <<>>
Unset      == "none"

DraftStages == {"direction_menu", "intent_branch", "country", "city", "search_area",
                "required_date", "post_core", "submitting"}

VARIABLES
    user,       \* bot_users: stage, and whether a language was chosen
    draft,      \* bot_discovery_drafts
    inStep,     \* the two rows hold the same screen_revision
    drawn,      \* a message of the outbox has the account's screen_revision
    usable,     \* the controls last shown carry the account's screen_revision
    context,    \* bot_active_result_contexts: a search, or 0
    pending,    \* the search whose presentation awaits its delivery, or 0
    lost,       \* the searches whose first presentation was superseded
    searches    \* RunSearch commands and what became of them

vars == <<user, draft, inStep, drawn, usable, context, pending, lost, searches>>

FreshDraft == [stage |-> "direction_menu", branch |-> Unset, intent |-> Unset,
               country |-> Unset, city |-> Nowhere, area |-> Nowhere, date |-> Nowhere,
               number |-> FALSE, asking |-> FALSE, search |-> 0]
NoDraft    == [FreshDraft EXCEPT !.stage = Unset]
HasDraft   == draft # NoDraft
Core(d)    == [intent |-> d.intent, country |-> d.country, city |-> d.city,
               area |-> d.area, date |-> d.date]
NoCore     == Core(FreshDraft)
Ids        == 1..Len(searches)

Init == /\ user = [stage |-> "unknown", explicit |-> FALSE]
        /\ draft = NoDraft /\ inStep = FALSE
        /\ drawn = FALSE /\ usable = TRUE
        /\ context = 0 /\ pending = 0 /\ lost = {}
        /\ searches = <<>>
-----------------------------------------------------------------------------
(* What the handlers have in common.                                       *)

(* A commit supersedes the presentation that waits; the first of a search  *)
(* is not made again.                                                      *)
Present(p) == /\ pending' = p
              /\ lost' = lost \cup (IF pending = context THEN {} ELSE {pending} \ {p})

(* commit_conversation_update with a draft, and without one (whose caller  *)
(* says what is presented).                                                *)
Commit(s, d) ==
    /\ user' = [user EXCEPT !.stage = s]
    /\ draft' = d /\ inStep' = TRUE
    /\ drawn' = TRUE /\ usable' = TRUE
    /\ Present(0)
    /\ UNCHANGED <<context, searches>>

Show(s) ==
    /\ user' = [user EXCEPT !.stage = s]
    /\ inStep' = FALSE
    /\ drawn' = TRUE /\ usable' = TRUE
    /\ UNCHANGED <<draft, context, searches>>

(* The handlers' first test: both rows are at the stage, on one screen.    *)
At(s) == /\ user.stage = s /\ HasDraft /\ draft.stage = s /\ inStep

WithResults(i) == i # 0 /\ searches[i].some

(* _queue_current_view: the screen once more, its account unchanged.  The  *)
(* screen of a result is drawn with the next screen_revision.              *)
Redraw ==
    /\ user.stage # "unknown"
    /\ IF user.stage = "results"
       THEN /\ Present(IF WithResults(context) THEN context ELSE 0)
            /\ usable' = WithResults(context)
       ELSE /\ drawn /\ (user.stage \in DraftStages => HasDraft)
            /\ Present(0)
            /\ UNCHANGED usable
    /\ UNCHANGED <<user, draft, inStep, drawn, context, searches>>
-----------------------------------------------------------------------------
(* /start, Menu, and the language.                                         *)

StartWith(d) ==
    \/ /\ user.stage = "submitting" /\ pending # 0
       /\ draft' = d
       /\ UNCHANGED <<user, inStep, drawn, usable, context, pending, lost, searches>>
    \/ /\ user.explicit
       /\ ~(user.stage = "submitting" /\ pending # 0)
       /\ LET kept == IF d = NoDraft THEN FreshDraft ELSE d
          IN Commit(kept.stage, kept)
    \/ /\ ~user.explicit
       /\ Show("language_selection") /\ Present(0)

(* The draft found is deleted after 30 days without any action.            *)
Start == \E d \in {draft, NoDraft} : StartWith(d)

(* Mutant of the next: what waits is kept.                                 *)
OpenMainMenuAlone ==
    /\ user.stage \notin {"unknown", "language_selection", "language_input"}
    /\ ~(HasDraft /\ user.stage = draft.stage)
    /\ Show("main_menu") /\ UNCHANGED <<pending, lost>>

OpenMainMenu ==
    /\ user.stage \notin {"unknown", "language_selection", "language_input"}
    /\ ~(HasDraft /\ user.stage = draft.stage)
    /\ Show("main_menu") /\ Present(0)

OpenLanguageInput ==
    /\ user.stage = "language_selection"
    /\ IF HasDraft THEN Commit("language_input", draft)
                   ELSE Show("language_input") /\ Present(0)

(* _apply_fixed_language_selection, and _apply_language_text.              *)
ConfirmLanguage ==
    /\ user.stage \in {"language_selection", "language_input"}
    /\ user' = [stage |-> "direction_menu", explicit |-> TRUE]
    /\ draft' = IF HasDraft
                THEN [draft EXCEPT !.stage = "direction_menu", !.branch = Unset]
                ELSE FreshDraft
    /\ inStep' = TRUE /\ drawn' = TRUE /\ usable' = TRUE
    /\ Present(0)
    /\ UNCHANGED <<context, searches>>

(* Screens beside the draft: controls, texts and Back.                     *)
Menus == {"main_menu", "settings", "mode", "settings_language_selection",
          "settings_language_input"}

SettingsMoves ==
    {<<"main_menu", "settings">>, <<"settings", "main_menu">>,
     <<"settings", "mode">>, <<"mode", "settings">>,
     <<"settings", "settings_language_selection">>,
     <<"settings_language_selection", "settings">>,
     <<"settings_language_selection", "settings_language_input">>,
     <<"settings_language_input", "settings_language_selection">>,
     <<"settings_language_input", "settings">>}

Settings == \E s \in Menus :
    /\ <<user.stage, s>> \in SettingsMoves
    /\ Show(s) /\ Present(0)

ShowSearchResults ==
    /\ user.stage = "main_menu"
    /\ Show("results")
    /\ Present(IF WithResults(context) THEN context ELSE 0)

(* A screen without a result has the control too; a draft left at another  *)
(* stage would not be overwritten.                                         *)
StartNewSearch ==
    /\ \/ user.stage = "main_menu"
       \/ user.stage = "results" /\ ~WithResults(context) /\ usable
    /\ HasDraft => draft.stage = "direction_menu"
    /\ Commit("direction_menu", FreshDraft)
-----------------------------------------------------------------------------
(* The Discovery Draft.                                                    *)

OpenIntentBranch == \E b \in {Branch[i] : i \in Intents} \ {Unset} :
    /\ At("direction_menu")
    /\ Commit("intent_branch", [draft EXCEPT !.stage = "intent_branch", !.branch = b])

(* A mutant of the next: the core stays.                                   *)
ConfirmedKeepsCore(d, i) ==
    [d EXCEPT !.stage = "country", !.branch = Unset, !.intent = i]

(* Another intent clears the core, the same one only draws the screen.     *)
Confirmed(d, i) ==
    [d EXCEPT !.stage = "country", !.branch = Unset, !.intent = i, !.country = Unset,
              !.city = Nowhere, !.area = Nowhere, !.date = Nowhere]

ConfirmUserIntent == \E i \in Intents :
    /\ \/ At("direction_menu") /\ Branch[i] = Unset
       \/ At("intent_branch") /\ Branch[i] = draft.branch
    /\ i # draft.intent
    /\ Commit("country", Confirmed(draft, i))

(* Another country clears what was confirmed below it.                     *)
InCountry(d, c) ==
    IF d.country = c THEN d
    ELSE [d EXCEPT !.country = c, !.city = Nowhere, !.area = Nowhere, !.date = Nowhere]

ConfirmCountry == \E c \in Countries :
    /\ At("country")
    /\ Commit("city", [InCountry(draft, c) EXCEPT !.stage = "city"])

InCity(d, t) ==
    IF d.city = t THEN d
    ELSE [d EXCEPT !.city = t, !.area = Nowhere, !.date = Nowhere]

ConfirmCity == \E t \in Cities :
    /\ At("city") /\ Country(t) = draft.country
    /\ Commit("search_area", [InCity(draft, t) EXCEPT !.stage = "search_area"])

(* The areas, or the whole, of the city.                                   *)
ConfirmSearchArea ==
    /\ At("search_area")
    /\ LET next == IF draft.intent \in Dated THEN "required_date" ELSE "post_core"
       IN Commit(next, [draft EXCEPT !.stage = next, !.area = draft.city])

(* A date is understood in the time zone of the city.                      *)
ConfirmRequiredDate ==
    /\ At("required_date")
    /\ Commit("post_core", [draft EXCEPT !.stage = "post_core", !.date = draft.city])

(* Number of Players: asked for, answered by text, cleared, left.  The     *)
(* question stays open when /start shows another screen.                   *)
AskNumber ==
    /\ At("post_core") /\ draft.intent = "player"
    /\ Commit("post_core", [draft EXCEPT !.asking = TRUE])

SettleNumber == \E n \in {TRUE, FALSE, draft.number} :
    /\ At("post_core") /\ draft.intent = "player"
    /\ n => (draft.asking \/ draft.number)
    /\ Commit("post_core", [draft EXCEPT !.asking = FALSE, !.number = n])

(* The text meets a question left from Player Search.                      *)
AnswerForeignQuestion ==
    /\ At("post_core") /\ draft.asking /\ draft.intent # "player"
    /\ Redraw

Previous(d) ==
    CASE d.stage = "post_core" -> IF d.intent \in Dated THEN "required_date" ELSE "search_area"
      [] d.stage = "required_date" -> "search_area"
      [] d.stage = "search_area" -> "city"
      [] d.stage = "city" -> "country"
      [] d.stage = "country" -> IF Branch[d.intent] = Unset THEN "direction_menu"
                                ELSE "intent_branch"
      [] d.stage = "intent_branch" -> "direction_menu"

BackFromStage ==
    /\ HasDraft /\ At(draft.stage)
    /\ draft.stage \notin {"direction_menu", "submitting"}
    /\ LET s == Previous(draft)
       IN Commit(s, [draft EXCEPT !.stage = s,
                         !.branch = CASE s = "intent_branch" -> Branch[draft.intent]
                                      [] s = "direction_menu" -> Unset
                                      [] OTHER -> @])

BackFromDirections ==
    /\ At("direction_menu")
    /\ IF context # 0 THEN Show("main_menu") /\ Present(0)
                      ELSE Commit("language_selection", draft)
-----------------------------------------------------------------------------
(* Searches.                                                               *)
Command(d, p) == [core |-> Core(d), parent |-> p, state |-> "run", some |-> FALSE]

(* The core is complete, or the handler raises; so it does when a number   *)
(* is left in a search that has none.                                      *)
Complete(d) == /\ d.intent # Unset /\ d.country # Unset
               /\ d.city # Nowhere /\ d.area # Nowhere
               /\ d.intent \in Dated => d.date # Nowhere

Submit ==
    /\ At("post_core") /\ Len(searches) < MaxSearches
    /\ Complete(draft)
    /\ ~(draft.number /\ draft.intent = "game")
    /\ user' = [user EXCEPT !.stage = "submitting"]
    /\ draft' = [draft EXCEPT !.stage = "submitting", !.search = Len(searches) + 1]
    /\ searches' = Append(searches, Command(draft, 0))
    /\ inStep' = TRUE /\ drawn' = FALSE
    /\ UNCHANGED <<usable, context, pending, lost>>

(* answer_result_message: a reply, with or without a refined search.       *)
AnswerResultMessage == \E refined \in BOOLEAN :
    /\ user.stage = "results" /\ ~HasDraft /\ context # 0
    /\ refined => Len(searches) < MaxSearches
    /\ searches' = IF refined THEN Append(searches, Command(FreshDraft, context))
                              ELSE searches
    /\ Present(0)
    /\ UNCHANGED <<user, draft, inStep, drawn, usable, context>>

(* Recommendation completes a search, with results or none, or fails it.   *)
Answer(i) == \E s \in {"completed", "failed"}, r \in BOOLEAN :
    /\ searches[i].state = "run"
    /\ r => s = "completed"
    /\ searches' = [searches EXCEPT ![i].state = s, ![i].some = r, ![i].core = NoCore]
    /\ UNCHANGED <<user, draft, inStep, drawn, usable, context, pending, lost>>

Settled(i) == [searches EXCEPT ![i].state = "settled"]

Awaited(i) == /\ user.stage = "submitting"
              /\ HasDraft /\ draft.stage = "submitting" /\ draft.search = i

IsRefinement(i) == /\ searches[i].parent # 0 /\ searches[i].parent = context
                   /\ user.stage = "results" /\ ~HasDraft

AcceptSearchCompletion(i) ==
    /\ searches[i].state = "completed"
    /\ searches' = Settled(i)
    /\ IF Awaited(i) \/ IsRefinement(i) THEN Present(i) ELSE UNCHANGED <<pending, lost>>
    /\ UNCHANGED <<user, draft, inStep, drawn, usable, context>>


(* The failure of a refinement is told to nobody.                          *)
AcceptSearchFailure(i) ==
    /\ searches[i].state = "failed"
    /\ searches' = Settled(i)
    /\ IF Awaited(i)
       THEN /\ user' = [user EXCEPT !.stage = "post_core"]
            /\ draft' = [draft EXCEPT !.stage = "post_core", !.search = 0]
            /\ inStep' = TRUE /\ drawn' = TRUE /\ usable' = TRUE
            /\ Present(0)
       ELSE UNCHANGED <<user, draft, inStep, drawn, usable, pending, lost>>
    /\ UNCHANGED context

(* mark_conversation_message_delivered, of a search's presentation.        *)
Activate ==
    /\ pending # 0 /\ user.stage \in {"submitting", "results"}
    /\ user' = [user EXCEPT !.stage = "results"]
    /\ draft' = IF draft.stage = "submitting" THEN NoDraft ELSE draft
    /\ context' = pending /\ pending' = 0
    /\ inStep' = FALSE /\ drawn' = TRUE /\ usable' = TRUE
    /\ UNCHANGED <<lost, searches>>
-----------------------------------------------------------------------------
Press == \/ Redraw \/ Start \/ OpenMainMenu
         \/ OpenLanguageInput \/ ConfirmLanguage
         \/ Settings \/ ShowSearchResults \/ StartNewSearch
         \/ OpenIntentBranch \/ ConfirmUserIntent
         \/ ConfirmCountry \/ ConfirmCity \/ ConfirmSearchArea \/ ConfirmRequiredDate
         \/ AskNumber \/ SettleNumber \/ AnswerForeignQuestion
         \/ BackFromStage \/ BackFromDirections
         \/ AnswerResultMessage

AcceptOutcome(i) == AcceptSearchCompletion(i) \/ AcceptSearchFailure(i)

Next == Press \/ Submit \/ Activate \/ \E i \in Ids : Answer(i) \/ AcceptOutcome(i)

Spec == Init /\ [][Next]_vars
-----------------------------------------------------------------------------
Stages   == DraftStages \cup Menus
                \cup {"unknown", "language_selection", "language_input", "results"}
Places   == Cities \cup {Nowhere}
Drafts   == [stage : DraftStages \cup {Unset}, branch : {Branch[i] : i \in Intents} \cup {Unset},
             intent : Intents \cup {Unset}, country : Countries \cup {Unset},
             city : Places, area : Places, date : Places,
             number : BOOLEAN, asking : BOOLEAN, search : Nat]
Cores    == [intent : Intents \cup {Unset}, country : Countries \cup {Unset},
             city : Places, area : Places, date : Places]
Commands == [core : Cores, parent : Nat, state : {"run", "completed", "failed", "settled"},
             some : BOOLEAN]

(* Types of the account, the draft, the outbox's part and the searches.    *)
TypeOK == /\ user \in [stage : Stages, explicit : BOOLEAN]
          /\ draft \in Drafts
          /\ inStep \in BOOLEAN /\ drawn \in BOOLEAN /\ usable \in BOOLEAN
          /\ searches \in Seq(Commands)
          /\ context \in 0..Len(searches) /\ pending \in 0..Len(searches)
          /\ lost \subseteq Nat

(* A search that leaves is one its parts agree on, whatever was gone back  *)
(* to and changed: the city lies in the country, the areas in the city,    *)
(* and a date, there exactly for the intents that need one, was understood *)
(* in the city's time zone, as submit_search takes for granted.            *)
SearchesAgree == \A i \in Ids :
    searches[i].state = "run" /\ searches[i].parent = 0 =>
        LET core == searches[i].core
        IN /\ Country(core.city) = core.country
           /\ core.area = core.city
           /\ core.date = IF core.intent \in Dated THEN core.city ELSE Nowhere

(* At the draft's stage its screen is the account's: otherwise every text  *)
(* and every control of the screen would only draw it again.               *)
InStep == HasDraft /\ user.stage = draft.stage => inStep

(* A draft left for another screen is at the direction menu: the control   *)
(* "new search" does not get past any other (_start_new_search).           *)
LeftAtDirections == HasDraft /\ user.stage # draft.stage => draft.stage = "direction_menu"

(* Whatever presentation of a search waits can be activated, where         *)
(* mark_conversation_message_delivered would raise "lost active Search     *)
(* state", and while a draft is submitted it is that search's.             *)
PresentationHasState ==
    pending # 0 => /\ user.stage \in {"submitting", "results"}
                   /\ HasDraft /\ draft.stage = "submitting" => pending = draft.search

(* The results shown change to those of the latest submission, or to a     *)
(* refinement of the results shown: never back to an older search.         *)
Latest(i) == \A j \in Ids : searches[j].parent = 0 => j <= i
ResultsGoOn == [][context' # context =>
                    \/ searches[context'].parent = context /\ context # 0
                    \/ searches[context'].parent = 0 /\ Latest(context')]_vars
=============================================================================
