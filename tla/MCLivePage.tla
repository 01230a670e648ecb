------------------------------ MODULE MCLivePage ------------------------------
(* Constants for checking LivePage with TLC. *)
EXTENDS LivePage

CoreHooks == {"summary", "settings", "availability", "category", "history"}
SummaryHooks == {"summary", "incidents"}
SomeChanges ==
  {<<"component", "component_updated">>,
   <<"incident", "incident_resolved">>, <<"incident", "incident_deleted">>,
   <<"settings", "status_page_settings_updated">>}
CoreChanges == SomeChanges \ {<<"incident", "incident_deleted">>}
FewPresets == {"7d"}
=============================================================================
