---------------------------- MODULE HardwareTest ----------------------------
(***************************************************************************)
(* apps::HardwareTestApp with its model: the enable preference and the     *)
(* intensity of the motor, where they are stored, and the pulses the       *)
(* application asks for.  Speaker tones and the storage line change no     *)
(* state and are left out.                                                 *)
(***************************************************************************)
EXTENDS Integers

CONSTANT Presets   \* the intensities of the preset buttons, 0 among them

ASSUME PresetsAssumption == Presets \subseteq 0..100

VARIABLES hw, stored, motor
(* hw.enabled, hw.intensity   HardwareTestModel; they outlive the screen    *)
(* hw.built                   the view has its widgets                      *)
(* stored                     haptic_en and haptic_pct, -1 when never set   *)
(* motor                      intensity of the application's running pulse  *)

Never == -1

HardwareInit ==
  /\ hw = [enabled |-> TRUE, intensity |-> 60, built |-> FALSE]
  /\ stored = [haptic_en |-> Never, haptic_pct |-> Never]
  /\ motor = 0

Bounded(v) == IF v < 0 THEN 0 ELSE IF v > 100 THEN 100 ELSE v

\* start: a preference that cannot be read keeps what the model has
HardwareStart ==
  /\ ~hw.built
  /\ hw' = [enabled   |-> IF stored.haptic_en = Never THEN hw.enabled ELSE stored.haptic_en # 0,
            intensity |-> IF stored.haptic_pct = Never THEN hw.intensity ELSE Bounded(stored.haptic_pct),
            built     |-> TRUE]
  /\ motor' = 0
  /\ UNCHANGED stored

Set(key, value) == stored' \in {stored, [stored EXCEPT ![key] = value]}

\* pulse_haptics may be refused
PulseAt(intensity) == motor' \in {motor, intensity}

\* Mutant: disabling leaves the motor to its pulse.
EnabledChangedOnly(on) ==
  /\ hw.built
  /\ hw' = [hw EXCEPT !.enabled = on]
  /\ Set("haptic_en", IF on THEN 1 ELSE 0)
  /\ UNCHANGED motor

EnabledChanged(on) ==
  /\ hw.built
  /\ hw' = [hw EXCEPT !.enabled = on]
  /\ Set("haptic_en", IF on THEN 1 ELSE 0)
  /\ motor' = IF on THEN motor ELSE 0

IntensityChanged(value) ==
  /\ hw.built
  /\ hw' = [hw EXCEPT !.intensity = Bounded(value)]
  /\ UNCHANGED <<stored, motor>>

IntensityCommitted ==
  /\ hw.built
  /\ Set("haptic_pct", hw.intensity)
  /\ IF hw.enabled THEN PulseAt(hw.intensity) ELSE UNCHANGED motor
  /\ UNCHANGED hw

Preview(preset) ==
  /\ hw.built
  /\ hw' = [hw EXCEPT !.intensity = preset]
  /\ IF preset = 0 THEN motor' = 0
     ELSE IF hw.enabled THEN PulseAt(preset) ELSE UNCHANGED motor
  /\ UNCHANGED stored

TestMotor ==
  /\ hw.built /\ hw.enabled
  /\ PulseAt(hw.intensity)
  /\ UNCHANGED <<hw, stored>>

StopMotor ==
  /\ hw.built
  /\ motor' = 0
  /\ UNCHANGED <<hw, stored>>

HardwareStop ==
  /\ hw' = [hw EXCEPT !.built = FALSE]
  /\ motor' = 0
  /\ UNCHANGED stored

\* The pulse has run its time (HapticsController).
PulseEnds ==
  /\ motor # 0
  /\ motor' = 0
  /\ UNCHANGED <<hw, stored>>

HardwareActions ==
  \/ \E on \in BOOLEAN : EnabledChanged(on)
  \/ \E p \in Presets : IntensityChanged(p) \/ Preview(p)
  \/ IntensityCommitted \/ TestMotor \/ StopMotor

=============================================================================
