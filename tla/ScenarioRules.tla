---------------------------- MODULE ScenarioRules ----------------------------
(***************************************************************************)
(* What sanjiv/scenarios makes of an operator's input, and when it accepts *)
(* it: scenarios/compiler.py completes the input to a candidate and        *)
(* scenarios/validator.py decides whether the candidate may be confirmed.  *)
(*                                                                         *)
(* An input is a record [effects, duration, horizon, notes].  Durations    *)
(* are half days; horizon may be Absent.  An effect is [type, aim, asset,  *)
(* reduction]: the disruption, the kind of its target, the asset named     *)
(* (any id, or one the catalogue does not have) and whole percents.  A     *)
(* note is an assumption: [refinery, stock, expires], the refinery Absent  *)
(* when it is about something else than an initial inventory.              *)
(***************************************************************************)
EXTENDS DigitalTwin, Sequences

CONSTANTS
    DefaultHorizon,   \* DEFAULT_HORIZON_DAYS, in half days
    MaxDuration       \* MAX_DURATION_DAYS, in half days

ASSUME HorizonAssumption ==
    DefaultHorizon \in Nat \ {0} /\ MaxDuration \in Nat \ {0}

Expected ==
    [CHOKEPOINT_CLOSURE              |-> "CHOKEPOINT",
     CHOKEPOINT_CAPACITY_REDUCTION   |-> "CHOKEPOINT",
     MARITIME_ROUTE_CAPACITY_REDUCTION |-> "ROUTE",
     SUPPLIER_VOLUME_REDUCTION       |-> "SUPPLIER",
     PORT_DISRUPTION                 |-> "PORT",
     REFINERY_THROUGHPUT_DISRUPTION  |-> "REFINERY"]

Assets(n, aim) ==
    CASE aim = "ROUTE" -> DOMAIN n.routes
      [] aim = "PORT"  -> OfKind(n, {"LOAD_PORT", "INDIAN_PORT"})
      [] OTHER         -> OfKind(n, {aim})

(* A name that matches no asset of the kind, or several, is left open.     *)
Resolved(n, e) ==
    [e EXCEPT !.asset = IF e.asset \in Assets(n, e.aim) THEN e.asset ELSE Absent]

Horizon(input) ==
    IF input.horizon = Absent THEN Max({DefaultHorizon, input.duration})
    ELSE input.horizon

(* The candidate: targets resolved, the horizon filled in, and an          *)
(* assumption that states the input when the operator gave none; it        *)
(* expires a day after the horizon.                                        *)
Candidate(n, input) ==
    [effects  |-> [i \in DOMAIN input.effects |-> Resolved(n, input.effects[i])],
     duration |-> input.duration,
     horizon  |-> Horizon(input),
     notes    |-> IF input.notes # {} THEN input.notes
                  ELSE {[refinery |-> Absent, stock |-> 0,
                         expires |-> Horizon(input) + 2]}]

----------------------------------------------------------------------------
SpanIsValid(c) ==
    /\ c.duration > 0 /\ c.duration <= MaxDuration
    /\ c.horizon > 0 /\ c.horizon <= MaxDuration
    /\ c.horizon >= c.duration

EffectIsValid(n, e) ==
    /\ e.aim = Expected[e.type]
    /\ e.reduction > 0 /\ e.reduction <= 100
    /\ e.type = "CHOKEPOINT_CLOSURE" => e.reduction = 100
    /\ e.asset \in Assets(n, e.aim)

(* Two effects on one asset are refused, whatever they are.                *)
OneEffectEach(c) ==
    \A i, j \in DOMAIN c.effects :
        c.effects[i].asset = c.effects[j].asset => i = j

NotesHold(c, now) == c.notes # {} /\ \A a \in c.notes : a.expires > now

Valid(n, c, now) ==
    /\ SpanIsValid(c)
    /\ \A i \in DOMAIN c.effects : EffectIsValid(n, c.effects[i])
    /\ OneEffectEach(c)
    /\ NotesHold(c, now)
=============================================================================
