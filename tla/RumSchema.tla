----------------------------- MODULE RumSchema ------------------------------
(***************************************************************************)
(* The RUM events (types/rum.hpp) as they are serialized: which members    *)
(* each has, in which order, and which of them are never omitted.          *)
(***************************************************************************)
EXTENDS StructJson

CONSTANT AnId      \* a UUID

\* A struct: the order of its members, those not omissible, the structs inside.
Struct(order, required, parts) == [order |-> order, required |-> required, parts |-> parts]
Required(order)  == Struct(order, ToSet(order), << >>)
Plain(order, required) == Struct(order, ToSet(required), << >>)

User    == Plain(<< "id", "name", "email", "anonymous_id" >>, << >>)
Account == Plain(<< "id", "name" >>, << "id" >>)
Synthetics == Plain(<< "test_id", "result_id", "injected" >>, << "test_id", "result_id" >>)
Os      == Plain(<< "name", "version", "build", "version_major" >>, << "name", "version", "version_major" >>)
Device  == Plain(<< "type", "name", "model", "brand", "architecture", "locale", "locales", "time_zone",
                    "battery_level", "power_saving_mode", "brightness_level" >>, << >>)
Viewport == Required(<< "width", "height" >>)

\* What all events have before their type and their own part.
Application == Plain(<< "id", "current_locale" >>, << "id" >>)
SessionPart == Plain(<< "id", "type", "has_replay" >>, << "id", "type" >>)
Page        == Plain(<< "id", "referrer", "url", "name" >>, << "id", "url" >>)
Display     == Struct(<< "viewport" >>, {}, [viewport |-> Viewport])

InternalSession == Plain(<< "plan", "session_precondition" >>, << >>)
Configuration   == Plain(<< "session_sample_rate", "session_replay_sample_rate", "profiling_sample_rate" >>,
                         << "session_sample_rate" >>)
Internal(more, required) ==
  Struct(<< "format_version", "session", "configuration", "browser_sdk_version" >> \o more,
         {"format_version"} \union required,
         [session |-> InternalSession, configuration |-> Configuration])

CommonOrder ==
  << "date", "application", "service", "version", "build_version", "build_id", "ddtags", "session",
     "source", "view", "usr", "account", "connectivity", "display", "synthetics", "ci_test", "os",
     "device", "_dd", "context" >>
CommonParts ==
  [application |-> Application, session |-> SessionPart, view |-> Page, usr |-> User, account |-> Account,
   connectivity |-> Required(<< "status" >>), display |-> Display, synthetics |-> Synthetics,
   ci_test |-> Required(<< "test_execution_id" >>), os |-> Os, device |-> Device,
   _dd |-> Internal(<< >>, {})]

Event(order, required, parts) ==
  Struct(CommonOrder \o order, {"date", "application", "session", "view", "_dd", "type"} \union required,
         parts @@ CommonParts)

-----------------------------------------------------------------------------
Incidence  == Required(<< "count" >>)
PerfMetric == Plain(<< "min", "max", "average", "metric_max" >>, << "min", "max", "average" >>)
Rect       == Required(<< "x", "y", "width", "height" >>)
Performance ==
  Struct(<< "cls", "fcp", "fid", "inp", "lcp", "fbc" >>, {},
    [cls |-> Struct(<< "score", "timestamp", "target_selector", "previous_rect", "current_rect" >>, {"score"},
                    [previous_rect |-> Rect, current_rect |-> Rect]),
     fcp |-> Required(<< "timestamp" >>),
     fid |-> Plain(<< "duration", "timestamp", "target_selector" >>, << "duration", "timestamp" >>),
     inp |-> Plain(<< "duration", "timestamp", "target_selector" >>, << "duration" >>),
     lcp |-> Plain(<< "timestamp", "target_selector", "resource_url" >>, << "timestamp" >>),
     fbc |-> Required(<< "timestamp" >>)])
Accessibility ==
  Plain(<< "text_size", "screen_reader_enabled", "bold_text_enabled", "reduce_transparency_enabled",
           "reduce_motion_enabled", "button_shapes_enabled", "invert_colors_enabled",
           "increase_contrast_enabled", "assistive_switch_enabled", "assistive_touch_enabled",
           "video_autoplay_enabled", "closed_captioning_enabled", "mono_audio_enabled",
           "shake_to_undo_enabled", "reduced_animations_enabled", "should_differentiate_without_color",
           "grayscale_enabled", "single_app_mode_enabled", "on_off_switch_labels_enabled",
           "speak_screen_enabled", "speak_selection_enabled", "rtl_enabled" >>, << >>)

ViewMembers ==
  << "id", "referrer", "url", "name", "loading_time", "network_settled_time",
     "interaction_to_next_view_time", "loading_type", "time_spent", "is_active", "is_slow_rendered",
     "action", "error", "crash", "long_task", "frozen_frame", "resource", "frustration",
     "memory_average", "memory_max", "cpu_ticks_count", "cpu_ticks_per_second",
     "refresh_rate_average", "refresh_rate_min", "slow_frames_rate", "freeze_rate",
     "flutter_build_time", "flutter_raster_time", "js_refresh_rate", "performance", "accessibility" >>
ViewPart ==
  Struct(ViewMembers, {"id", "url", "time_spent", "action", "error", "resource"},
    [n \in {"action", "error", "crash", "long_task", "frozen_frame", "resource", "frustration"} |-> Incidence]
      @@ [n \in {"flutter_build_time", "flutter_raster_time", "js_refresh_rate"} |-> PerfMetric]
      @@ [performance |-> Performance, accessibility |-> Accessibility])

ViewSession == Plain(<< "id", "type", "has_replay", "is_active", "sampled_for_replay" >>, << "id", "type" >>)
ViewInternal ==
  [Internal(<< "document_version" >>, {"document_version"}) EXCEPT
     !.parts = [configuration |-> Plain(Configuration.order \o << "start_session_replay_recording_manually" >>,
                                        << "session_sample_rate" >>)] @@ @]

\* An action, of the view that it is in.
Action ==
  Struct(<< "type", "id", "loading_time", "target", "error", "crash", "long_task", "resource" >>,
         {"type", "id", "loading_time"},
         [target |-> Required(<< "name" >>)]
           @@ [n \in {"error", "crash", "long_task", "resource"} |-> Incidence])

\* The action that another event happens in.
Within == [action |-> Required(<< "id" >>)]

Provider == Plain(<< "domain", "name", "type" >>, << >>)
Phases   == {"worker", "redirect", "dns", "connect", "ssl", "first_byte", "download"}
Resource ==
  Struct(<< "id", "type", "method", "url", "status_code", "duration", "size", "encoded_body_size",
            "decoded_body_size", "transfer_size", "render_blocking_status", "worker", "redirect", "dns",
            "connect", "ssl", "first_byte", "download", "protocol", "delivery_type", "provider" >>,
         {"id", "type", "url"},
         [n \in Phases |-> Required(<< "duration", "start" >>)] @@ [provider |-> Provider])

Meta == Plain(<< "code_type", "parent_process", "incident_identifier", "process", "exception_type",
                 "exception_codes", "path" >>, << >>)
ErrorResource ==
  Struct(<< "method", "status_code", "url", "provider" >>, {"method", "status_code", "url"}, [provider |-> Provider])
Error ==
  Struct(<< "id", "message", "source", "stack", "is_crash", "fingerprint", "type", "category", "handling",
            "handling_stack", "source_type", "resource", "binary_images", "was_truncated", "meta", "csp",
            "time_since_app_start" >>,
         {"message", "source"},
         [resource |-> ErrorResource, meta |-> Meta, csp |-> Plain(<< "disposition" >>, << >>)])
ErrorPage == Plain(Page.order \o << "in_foreground" >>, << "id", "url" >>)

LongTask  == Plain(<< "id", "duration", "is_frozen_frame" >>, << "id", "duration" >>)
Vital     == Plain(<< "id", "name", "type", "step_type", "operation_key", "failure_reason" >>,
                   << "id", "name", "type", "step_type" >>)
AppLaunch == Plain(<< "id", "name", "type", "app_launch_metric", "duration" >>,
                   << "id", "type", "app_launch_metric", "duration" >>)

TraceMembers == << "span_id", "parent_span_id", "trace_id", "rule_psr" >>

ViewEvent == Event(<< "type" >>, {}, [view |-> ViewPart, session |-> ViewSession, _dd |-> ViewInternal])
ActionEvent == Event(<< "type", "action" >>, {"action"}, [action |-> Action])
ResourceEvent == Event(<< "action", "type", "resource" >>, {"resource"},
  Within @@ [resource |-> Resource, _dd |-> Internal(TraceMembers \o << "discarded" >>, {})])
ErrorEvent == Event(<< "action", "type", "error", "freeze" >>, {"error"},
  Within @@ [error |-> Error, freeze |-> Required(<< "duration" >>), view |-> ErrorPage,
             _dd |-> Internal(TraceMembers, {})])
LongTaskEvent == Event(<< "action", "type", "long_task" >>, {"long_task"}, Within @@ [long_task |-> LongTask])
VitalEvent == Event(<< "type", "vital" >>, {"vital"}, [vital |-> Vital])
AppLaunchEvent == Event(<< "type", "vital" >>, {"vital"}, [vital |-> AppLaunch])

\* The events by the name of their type.
Schema == [view |-> ViewEvent, action |-> ActionEvent, resource |-> ResourceEvent, error |-> ErrorEvent,
           long_task |-> LongTaskEvent, vital |-> VitalEvent, app_launch |-> AppLaunchEvent]

-----------------------------------------------------------------------------
\* A value for a member that is no struct; its kind is that of the struct where
\* a reader looks at it.
Leaf(path, type) ==
  LET name == Last(path)
      Text(t) == [type |-> "String", value |-> << t >>]
  IN CASE path = << "type" >>                -> Text(type)
       [] path = << "session", "type" >>     -> Text("user")
       [] name = "id"                        -> [type |-> "UUID", value |-> << AnId >>]
       [] name = "context"                   -> Object(<< [name |-> << "k" >>, value |-> [type |-> "Null"]] >>)
       [] name \in {"is_active", "has_replay"} -> [type |-> "Bool", value |-> TRUE]
       [] name \in {"date", "count", "format_version", "document_version"} -> [type |-> "UInt", value |-> 2]
       [] OTHER                              -> Text(name)

\* The struct with its required members and the chosen ones of the others.
RECURSIVE Fields(_, _, _, _)
Fields(struct, path, chosen, type) ==
  [i \in DOMAIN struct.order |->
     LET name == struct.order[i]
         here == Append(path, name)
     IN  [name |-> << name >>,
          value |-> IF name \notin struct.required \union chosen THEN Omitted
                    ELSE IF name \in DOMAIN struct.parts
                    THEN Object(Present(Fields(struct.parts[name], here, chosen, type)))
                    ELSE Leaf(here, type)]]

EventText(event, chosen) == WriteStruct(Fields(Schema[event], << >>, chosen, event))

RECURSIVE Names(_)
Names(struct) == ToSet(struct.order) \union UNION {Names(struct.parts[n]) : n \in DOMAIN struct.parts}

\* Every struct inside is that of a member, every required member is one, and
\* no member comes twice.
RECURSIVE WellFormed(_)
WellFormed(struct) ==
  /\ struct.required \union DOMAIN struct.parts \subseteq ToSet(struct.order)
  /\ IsInjective(struct.order)
  /\ \A n \in DOMAIN struct.parts : WellFormed(struct.parts[n])
=============================================================================
