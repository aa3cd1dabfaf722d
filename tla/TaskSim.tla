-------------------------------- MODULE TaskSim --------------------------------
(***************************************************************************)
(* The tool set and the generator of legitimate sessions: the templates of *)
(* task_sim/session.py, the schemas of detectors/schema.py and the tiers   *)
(* of interception/fake_tools.py.  Three lists kept in three files must    *)
(* agree for a legitimate session to run undisturbed.                      *)
(*                                                                         *)
(* Parameters are the names of the fields and a mark for their content:    *)
(* "drawn" stands for what a generator of task_sim draws, always short.    *)
(***************************************************************************)
EXTENDS Naturals, Sequences, FiniteSets, TLC

Group(tool, min, max) == [tool |-> tool, min |-> min, max |-> max]

\* _TEMPLATES: the repeatable steps of each task, with their ranges.
TemplatesUpTo(replies) ==
  [inbox_triage |-> <<Group("read_inbox", 1, 3), Group("reply_to_email", 2, replies)>>,
   flight_booking |-> <<Group("search_flights", 2, 5), Group("book_flight", 1, 2)>>,
   calendar_scheduling |-> <<Group("get_calendar", 1, 3), Group("add_calendar_event", 2, 5)>>,
   file_sharing |-> <<Group("list_files", 1, 3), Group("share_file", 2, 6)>>,
   contact_update |-> <<Group("search_contacts", 1, 3), Group("update_contact", 2, 5)>>]

TemplatesWithLongReplies == TemplatesUpTo(7)

Templates == TemplatesUpTo(6)

TaskTypes == DOMAIN Templates

\* The fields each parameter generator fills in.
DrawnFields ==
  [read_inbox |-> {"count"}, reply_to_email |-> {"email_id", "body"},
   search_flights |-> {"origin", "destination"}, book_flight |-> {"flight_id"},
   get_calendar |-> {"date"}, add_calendar_event |-> {"title"},
   list_files |-> {"query"}, share_file |-> {"file_id", "recipient"},
   search_contacts |-> {"name"}, update_contact |-> {"contact_id", "field"}]

\* build_default_schema_registry: required fields; nothing is optional.
Schema ==
  [read_inbox |-> {"count"}, reply_to_email |-> {"email_id", "body"},
   search_flights |-> {"origin", "destination"}, book_flight |-> {"flight_id"},
   get_calendar |-> {"date"}, add_calendar_event |-> {"title"},
   list_files |-> {"query"}, share_file |-> {"file_id", "recipient"},
   search_contacts |-> {"name"}, update_contact |-> {"contact_id", "field"}]

\* build_default_registry: every tool, the four attack targets included.
TierOf ==
  [tool \in {"read_inbox", "search_flights", "get_calendar", "list_files",
             "search_contacts"} |-> "read_only"]
  @@ [tool \in {"add_calendar_event", "share_file", "update_contact"} |-> "reversible_write"]
  @@ [tool \in {"reply_to_email", "book_flight", "set_forwarding_rule"} |-> "irreversible_low_value"]
  @@ [tool \in {"send_payment", "delete_data", "modify_permissions"} |-> "irreversible_high_value"]

AllTools == DOMAIN TierOf

Call(tool, fields, content) ==
  [tool |-> tool, params |-> [fields |-> fields, content |-> content]]

\* _baseline_footprint.
BaselineOf(task) == {Templates[task][i].tool : i \in DOMAIN Templates[task]}

\* One turn of the outer loop of generate_session.
Repeated(group, n) == [i \in 1..n |-> Call(group.tool, DrawnFields[group.tool], "drawn")]

\* check_schema; a tool without a schema raises and counts as no violation.
MissingFields(call) ==
  IF call.tool \in DOMAIN Schema THEN Schema[call.tool] \ call.params.fields ELSE {}

UnexpectedFields(call) ==
  IF call.tool \in DOMAIN Schema THEN call.params.fields \ Schema[call.tool] ELSE {}
================================================================================
