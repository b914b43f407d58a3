---------------------------- MODULE OneShotTimer ----------------------------
(***************************************************************************)
(* What arm_generic_timer.h promises of the timer, to its caller and to    *)
(* its callback alike: one schedule at a time, which a later one           *)
(* overrides; it fires once, never early, unless it is cancelled first.    *)
(***************************************************************************)
EXTENDS Integers

CONSTANTS Callbacks, NULL, Times

Answer(op, value) == [op |-> op, value |-> value]

VARIABLES
  now,     \* the counter
  armed,   \* the schedule: a set of at most one [cb, at]
  fired,   \* a timer has fired and nobody has asked
  running, \* the callback being run, or NULL
  result   \* the last call made and what it returned

vars == <<now, armed, fired, running, result>>

Init ==
  /\ now = 0 /\ armed = {} /\ fired = FALSE /\ running = NULL
  /\ result = Answer("none", FALSE)

Tick == now' > now /\ UNCHANGED <<armed, fired, running, result>>

Schedule(cb, at) ==
  /\ result' = Answer("schedule", armed # {})
  /\ armed' = {[cb |-> cb, at |-> at]}
  /\ fired' = FALSE
  /\ UNCHANGED <<now, running>>

IsArmed ==
  /\ result' = Answer("is_armed", armed # {})
  /\ UNCHANGED <<now, armed, fired, running>>

HasFired ==
  /\ result' = Answer("has_fired", fired)
  /\ fired' = FALSE
  /\ UNCHANGED <<now, armed, running>>

Cancel ==
  /\ result' = Answer("cancel", FALSE)
  /\ armed' = {}
  /\ UNCHANGED <<now, fired, running>>

Fire ==
  /\ running = NULL
  /\ \E s \in armed : s.at <= now /\ running' = s.cb
  /\ armed' = {} /\ fired' = TRUE
  /\ UNCHANGED <<now, result>>

Return == running' = NULL /\ UNCHANGED <<now, armed, fired, result>>

Next ==
  \/ Tick \/ IsArmed \/ HasFired \/ Cancel \/ Fire \/ Return
  \/ \E cb \in Callbacks \cup {NULL}, at \in Times : Schedule(cb, at)

Spec == Init /\ [][Next]_vars
=============================================================================
