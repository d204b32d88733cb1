---------------------------- MODULE ShellSettings ----------------------------
(***************************************************************************)
(* ui::ShellSettings and shell_settings_persistence: the two catalogs of   *)
(* the preferences and what restoring, changing and storing them computes. *)
(* A store maps every key to a stored integer or to Absent.                *)
(***************************************************************************)
EXTENDS Integers, Sequences, SequencesExt

Absent == -1

Clamp(v, low, high) == IF v < low THEN low ELSE IF v > high THEN high ELSE v

\* settings: slider domain, scale to the model, and what a change affects
Setting(low, high, scale, effect) ==
  [low |-> low, high |-> high, scale |-> scale, effect |-> effect]

Settings ==
  [brightness       |-> Setting(10, 100, 1, "display"),
   idle_brightness  |-> Setting(5, 80, 1, "display"),
   screen_timeout   |-> Setting(0, 20, 30, "display"),
   interface_scale  |-> Setting(9, 12, 10, "display"),
   audio_volume     |-> Setting(0, 100, 1, "volume"),
   touch_sound      |-> Setting(0, 100, 1, "none"),
   haptic_feedback  |-> Setting(0, 100, 1, "none")]

\* persisted_settings, in the order they are written and read
Scalar(key, setting, low, high) ==
  [key |-> key, setting |-> setting, low |-> low, high |-> high, encoding |-> "scalar"]

Persisted ==
  <<[key |-> "ui_dark", setting |-> "dark", low |-> 0, high |-> 0, encoding |-> "dark_theme"],
    Scalar("brightness", "brightness", 10, 100),
    Scalar("dim_pct", "idle_brightness", 5, 80),
    Scalar("timeout_s", "screen_timeout", 0, 600),
    Scalar("ui_scale", "interface_scale", 90, 120),
    Scalar("audio_pct", "audio_volume", 0, 100),
    Scalar("audio_haptic_pct", "touch_sound", 0, 100),
    Scalar("haptic_pct", "haptic_feedback", 0, 100),
    [key |-> "haptic_en", setting |-> "haptic_feedback", low |-> 0, high |-> 0,
     encoding |-> "enabled_gate"]>>

StoreKeys == {Persisted[i].key : i \in DOMAIN Persisted}

\* SettingsViewModel and dark_theme_; the theme is 1 when dark
Factory ==
  [dark |-> 1, brightness |-> 85, idle_brightness |-> 30, screen_timeout |-> 120,
   interface_scale |-> 100, audio_volume |-> 70, touch_sound |-> 0, haptic_feedback |-> 45]

RestoreOne(prefs, d, value) ==
  CASE d.encoding = "dark_theme"   -> [prefs EXCEPT !.dark = IF value # 0 THEN 1 ELSE 0]
    [] d.encoding = "enabled_gate" -> IF value = 0 THEN [prefs EXCEPT ![d.setting] = 0] ELSE prefs
    [] d.encoding = "scalar"       -> [prefs EXCEPT ![d.setting] = Clamp(value, d.low, d.high)]

\* restore_shell_settings: a key that cannot be read keeps what is in memory.
Restore(prefs, store) ==
  FoldLeft(LAMBDA p, d : IF store[d.key] = Absent THEN p ELSE RestoreOne(p, d, store[d.key]),
           prefs, Persisted)

Change(prefs, setting, position) ==
  [prefs EXCEPT ![setting] =
     Clamp(position, Settings[setting].low, Settings[setting].high) * Settings[setting].scale]

PersistedValue(prefs, d) ==
  CASE d.encoding = "dark_theme"   -> prefs.dark
    [] d.encoding = "enabled_gate" -> IF prefs[d.setting] # 0 THEN 1 ELSE 0
    [] d.encoding = "scalar"       -> prefs[d.setting]

\* persist_shell_settings that stores the first n keys and then fails
Persist(prefs, n, store) ==
  FoldLeft(LAMBDA st, d : [st EXCEPT ![d.key] = PersistedValue(prefs, d)],
           store, SubSeq(Persisted, 1, n))

=============================================================================
