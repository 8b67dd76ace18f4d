---------------------- MODULE MCConversationOnboarding ----------------------
(* Two cities of one country and one of another: a change of the city      *)
(* within the country, and one with it.                                    *)
EXTENDS ConversationSchedule

ThreeCities == {<<"x", 1>>, <<"x", 2>>, <<"y", 1>>}
=============================================================================
