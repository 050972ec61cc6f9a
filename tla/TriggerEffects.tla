---------------------------- MODULE TriggerEffects ----------------------------
(* One trigger effect under edit (TriggerEffectEditor.tsx) and the condition *)
(* of a modifier (App.tsx), with the validation and comparison of            *)
(* shared/trigger-profiles.ts.  An effect is a record whose fields depend on *)
(* its mode.                                                                 *)
EXTENDS Integers, Sequences

CONSTANTS
    Loaded,        \* effects that files may hold
    Percents,      \* where a slider is let go: multiples of 5
    Frequencies,   \* numbers typed
    Zones,         \* zones that are edited
    Amounts        \* numbers typed for a condition

VARIABLES
    effect,   \* the effect shown
    before,   \* the effect before the last edit
    when      \* the condition of the modifier

vars == <<effect, before, when>>

Step == 5
Modes == {"off", "feedback", "weapon", "vibration", "multi-feedback", "slope", "multi-vibration"}
Conditions == {"trigger-held-over", "trigger-full-pull", "button-held", "rapid-fire"}

PercentKeys(mode) ==
    CASE mode = "weapon" -> {"startPercent", "wallPercent", "forcePercent"}
      [] mode \in {"feedback", "vibration"} -> {"startPercent", "forcePercent"}
      [] mode = "slope" -> {"startPercent", "endPercent", "startForcePercent", "endForcePercent"}
      [] OTHER -> {}
Zoned(mode) == mode \in {"multi-feedback", "multi-vibration"}
Vibrates(mode) == mode \in {"vibration", "multi-vibration"}

\* The keys of a mode; a wall is tolerated where older files have one.
AllowedEffectKeys(mode) ==
    {"mode"} \cup PercentKeys(mode)
    \cup (IF Zoned(mode) THEN {"zones"} ELSE {})
    \cup (IF Vibrates(mode) THEN {"frequencyHz"} ELSE {})
    \cup (IF mode \in {"feedback", "vibration"} THEN {"wallPercent"} ELSE {})

ValidZones(e) == Len(e.zones) = 10 /\ \A i \in 1..10 : e.zones[i] \in 0..100
ValidFrequency(e) == e.frequencyHz \in 1..255

ValidEffectSpec(e) ==
    /\ e.mode \in Modes /\ DOMAIN e \subseteq AllowedEffectKeys(e.mode)
    /\ \A key \in PercentKeys(e.mode) : key \in DOMAIN e /\ e[key] \in 0..100
    /\ Zoned(e.mode) => "zones" \in DOMAIN e /\ ValidZones(e)
    /\ e.mode = "multi-vibration" => "frequencyHz" \in DOMAIN e
    /\ "frequencyHz" \in DOMAIN e => ValidFrequency(e)
    /\ e.mode = "slope" => e.endPercent > e.startPercent

\* What validation makes of an effect it accepts.
Normal(e) == [key \in DOMAIN e \ (IF e.mode = "weapon" THEN {} ELSE {"wallPercent"}) |-> e[key]]

\* effectSpecEquals, field by field of the mode.
EffectSpecEquals(a, b) ==
    /\ a.mode = b.mode
    /\ \A key \in PercentKeys(a.mode) : a[key] = b[key]
    /\ Zoned(a.mode) => a.zones = b.zones
    /\ a.mode = "multi-vibration" => a.frequencyHz = b.frequencyHz
    /\ a.mode = "vibration" =>
           \/ "frequencyHz" \notin DOMAIN a \cup DOMAIN b
           \/ "frequencyHz" \in DOMAIN a \cap DOMAIN b /\ a.frequencyHz = b.frequencyHz

DefaultZones == <<0, 0, 0, 0, 60, 60, 60, 60, 0, 0>>
DefaultEffectForMode(mode) ==
    CASE mode = "feedback" -> [mode |-> mode, startPercent |-> 0, forcePercent |-> 0]
      [] mode = "weapon" -> [mode |-> mode, startPercent |-> 0, wallPercent |-> 0, forcePercent |-> 0]
      [] mode = "vibration" -> [mode |-> mode, startPercent |-> 0, forcePercent |-> 0, frequencyHz |-> 25]
      [] mode = "multi-feedback" -> [mode |-> mode, zones |-> DefaultZones]
      [] mode = "slope" -> [mode |-> mode, startPercent |-> 20, endPercent |-> 90,
                            startForcePercent |-> 10, endForcePercent |-> 100]
      [] mode = "multi-vibration" -> [mode |-> mode, frequencyHz |-> 25, zones |-> DefaultZones]
      [] OTHER -> [mode |-> "off"]

AtLeast(a, b) == IF a >= b THEN a ELSE b
AtMost(a, b) == IF a <= b THEN a ELSE b

\* One bound of a slope that is moved pushes the other.
WithStart(e, value) ==
    LET end == IF e.endPercent <= value THEN AtMost(100, value + Step) ELSE e.endPercent
    IN  [e EXCEPT !.endPercent = end, !.startPercent = IF end <= value THEN end - Step ELSE value]
WithEnd(e, value) ==
    LET end == IF value <= 0 THEN Step ELSE value
    IN  [e EXCEPT !.endPercent = end,
                  !.startPercent = IF @ >= end THEN AtLeast(0, end - Step) ELSE @]

WithPercentField(e, key, value) ==
    CASE e.mode = "slope" /\ key = "startPercent" -> WithStart(e, value)
      [] e.mode = "slope" /\ key = "endPercent" -> WithEnd(e, value)
      [] OTHER -> [e EXCEPT ![key] = value]

-----------------------------------------------------------------------------
\* A profile is shown after validation.
Init ==
    /\ effect \in {Normal(e) : e \in {l \in Loaded : ValidEffectSpec(l)}} /\ before = effect
    /\ when = [condition |-> "trigger-held-over", threshold |-> 50, ms |-> 200]

Becomes(e) == effect' = e /\ before' = effect /\ UNCHANGED when

SetMode(mode) == mode # effect.mode /\ Becomes(DefaultEffectForMode(mode))
SetPercent(key, value) == key \in PercentKeys(effect.mode) /\ Becomes(WithPercentField(effect, key, value))
SetZone(i, value) == Zoned(effect.mode) /\ Becomes([effect EXCEPT !.zones[i] = value])

\* The number typed is clamped; an effect without a frequency gets one.
SetFrequency(typed) ==
    /\ Vibrates(effect.mode)
    /\ Becomes([key \in DOMAIN effect \cup {"frequencyHz"} |->
                  IF key = "frequencyHz" THEN AtLeast(1, AtMost(255, typed)) ELSE effect[key]])

\* A condition keeps the parameters of the others.
With(key, value) ==
    [k \in DOMAIN when \cup {key} |-> IF k = key THEN value ELSE when[k]]
EditCondition ==
    /\ \/ \E c \in Conditions : when' = With("condition", c)
       \/ \E n \in Amounts :
            \/ when.condition = "trigger-held-over"
               /\ when' \in {With("threshold", AtLeast(0, AtMost(255, n))), With("ms", AtLeast(0, n))}
            \/ when.condition = "rapid-fire" /\ when' = With("pressesPerSecond", AtLeast(1, n))
    /\ UNCHANGED <<effect, before>>

Next ==
    \/ \E mode \in Modes : SetMode(mode)
    \/ \E key \in PercentKeys(effect.mode), p \in Percents : SetPercent(key, p)
    \/ \E i \in Zones, p \in Percents : SetZone(i, p)
    \/ \E f \in Frequencies : SetFrequency(f)
    \/ EditCondition

Spec == Init /\ [][Next]_vars

-----------------------------------------------------------------------------
\* Whatever the file held and whatever is dragged or typed, the validator takes
\* the effect as it is; the engine's comparison, which decides whether an effect
\* is written to the controller, tells two effects apart exactly if they differ;
\* and a condition's numbers are ones the evaluator can count with.
EffectHolds ==
    /\ ValidEffectSpec(effect) /\ Normal(effect) = effect
    /\ EffectSpecEquals(effect, before) <=> effect = before
    /\ when.threshold \in 0..255 /\ when.ms >= 0
    /\ "pressesPerSecond" \in DOMAIN when => when.pressesPerSecond >= 1

=============================================================================
