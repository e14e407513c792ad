-------------------------- MODULE MCEventTriggers --------------------------
(* Two macros with event triggers and limits, and one with a schedule.     *)
EXTENDS EventTriggers

Macro(trigger, cooldown, per_hour, every) ==
  [trigger |-> trigger, cooldown |-> cooldown, per_hour |-> per_hour, every |-> every]

MCMacros == {Macro("note", 0, 1, 0), Macro("ui", 1, 0, 0), Macro("schedule", 0, 0, 1)}
=============================================================================
