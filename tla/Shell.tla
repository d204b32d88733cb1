-------------------------------- MODULE Shell --------------------------------
(***************************************************************************)
(* ui::Shell on the UI task, with ShellNavigation, ShellPresentation,      *)
(* ShellInputPolicy, ShellActionPolicy, DisplayPowerPolicy, ShellSettings  *)
(* and the views.  Its handlers run to completion one after the other, so  *)
(* each is one action; what a handler does is a composition of operators   *)
(* on the record ui, in the order of the calls.  LVGL, the touch panel and *)
(* the settings store are external.  Time passes in ticks of Unit seconds. *)
(***************************************************************************)
EXTENDS ShellSettings, FiniteSets, Lifecycle

CONSTANTS
  Catalog,    \* ids of the registered applications, in order
  Docked,     \* application ids of the navigation bar
  Moves,      \* <<setting, position>>: where users move the sliders
  Brightness, \* the brightnesses the status panel's buttons may produce
  Cuts,       \* how many keys a commit may store before it fails, or all
  Readable,   \* sets of keys that a start may be able to read
  Points,     \* <<x, y>>: where the panel is touched
  Networks,   \* connection states events report
  Unit, Wrap  \* seconds per tick; ticks until the 32-bit clock wraps

\* The button that opens the drawer is none of the docked applications; the
\* sliders belong to the settings of the catalog and move in their range.
ASSUME ShellAssumption ==
  /\ Len(Catalog) > 0 /\ "drawer" \notin Docked
  /\ Moves \subseteq (DOMAIN Settings) \X Int
  /\ \A m \in Moves : m[2] \in Settings[m[1]].low .. Settings[m[1]].high
  /\ Cuts \subseteq 0..Len(Persisted)
  /\ Unit \in Nat \ {0} /\ Wrap \in Nat \ {0}

None == "none"
Apps == {Catalog[i] : i \in DOMAIN Catalog}
Surfaces == {"application", "drawer", "settings", "status"}
Base == {"header", "content", "navigation"}
Released == [pressed |-> FALSE, start |-> <<0, 0>>, last |-> <<0, 0>>]

VARIABLES
  shell,      \* lifecycle_
  subscribed, \* the shell's observer is on the event bus
  active,     \* AppManager::active_
  ui,         \* navigation, views, preferences, power and input policies
  store,      \* the keys of the settings store
  network     \* the state the last connectivity event reported

shellVars == <<shell, subscribed, active, ui, store, network>>

\* What the rows of the settings view show: the text follows every change,
\* the knob of the slider is placed when the view is built and then moved by
\* the user only.
Values(prefs) == [p \in DOMAIN Settings |-> prefs[p]]
Knobs(prefs) == [p \in DOMAIN Settings |-> prefs[p] \div Settings[p].scale]

Cold ==
  [surface |-> "application", built |-> {}, shown |-> {}, palette |-> [v \in {} |-> 0],
   title |-> None, selected |-> None, label |-> None,
   values |-> Values(Factory), knobs |-> Knobs(Factory), prefs |-> Factory,
   policy |-> [brightness |-> 85, dim |-> 30, timeout |-> 120],
   power |-> "awake", idle |-> 0, backlight |-> 0, touch |-> Released]

ShellInit ==
  /\ shell = "stopped" /\ subscribed = FALSE /\ active = None
  /\ ui = Cold
  /\ store = [k \in StoreKeys |-> Absent]
  /\ network = None

-----------------------------------------------------------------------------
(* DisplayPowerPolicy.  idle is now_ms - last_activity_ms_ in ticks, modulo *)
(* the clock's width, which is all the policy computes with.                *)

BrightnessFor(policy, power) ==
  CASE power = "off"    -> 0
    [] power = "dimmed" -> IF policy.dim < policy.brightness THEN policy.dim ELSE policy.brightness
    [] power = "awake"  -> policy.brightness

NoteActivity(s) ==
  [s EXCEPT !.idle = 0, !.power = "awake",
            !.backlight = IF s.power = "awake" THEN @ ELSE BrightnessFor(s.policy, "awake")]

UpdatePower(s) ==
  LET seconds == s.idle * Unit
      next == IF seconds >= s.policy.timeout THEN "off"
              ELSE IF 2 * seconds >= s.policy.timeout THEN "dimmed" ELSE "awake"
  IN IF s.policy.timeout <= 0 \/ next = s.power THEN s
     ELSE [s EXCEPT !.power = next, !.backlight = BrightnessFor(s.policy, next)]

ApplyPowerSettings(s) ==
  LET policy == [brightness |-> Clamp(s.prefs.brightness, 10, 100),
                 dim |-> Clamp(s.prefs.idle_brightness, 5, 80),
                 timeout |-> Clamp(s.prefs.screen_timeout, 0, 600)]
  IN [s EXCEPT !.policy = policy, !.backlight = BrightnessFor(policy, s.power)]

-----------------------------------------------------------------------------
(* ShellView, ShellPresentation and ShellNavigation                         *)

\* What the views bind callbacks to when they are built
HeaderButtons == {"theme"}
NavigationButtons == Docked \cup {"drawer"}
DrawerButtons == Apps \cup {"close", "settings"}
SettingsInputs == Moves \cup {<<"close">>, <<"commit">>}
StatusButtons == {"close", "theme", "dim", "brighten", "settings"}

Build(s) ==
  [s EXCEPT !.built = {"header", "content", "navigation", "drawer", "settings"},
            !.shown = Base, !.palette = [v \in {} |-> 0],
            !.title = "EspScreen OS", !.selected = None, !.label = None,
            !.values = Values(s.prefs), !.knobs = Knobs(s.prefs)]

ApplyTheme(s) == [s EXCEPT !.palette = [v \in s.built |-> s.prefs.dark]]

\* Mutant: the panel built on demand is not themed.
EnsureStatusPlain(s) ==
  IF "status" \in s.built THEN s ELSE [s EXCEPT !.built = @ \cup {"status"}, !.label = "--"]

\* ensure_status, and the theme when it built the panel; nothing tells a new
\* panel the network's state
EnsureStatus(s) ==
  IF "status" \in s.built THEN s
  ELSE ApplyTheme([s EXCEPT !.built = @ \cup {"status"}, !.label = "--"])

Show(s, p) == [s EXCEPT !.shown = @ \cup ({p} \cap s.built)]
Hide(s, p) == [s EXCEPT !.shown = @ \ {p}]

VisibilityFor(surface) == IF surface = "application" THEN Base ELSE {surface}

\* Mutant: the view of the surface that is left is taken for hidden.
PresentOver(s, to) ==
  LET t == [s EXCEPT !.surface = to,
                     !.shown = (@ \cap {s.surface}) \cup VisibilityFor(to)]
  IN IF s.surface # to THEN Show(t, to) ELSE t

\* present(previous, to) and ShellView::apply_presentation: the panel of the
\* surface left is animated out, all that is not visible is hidden, the panel
\* entered is animated in.
Present(s, to) ==
  LET t == IF s.surface # to THEN Hide(s, s.surface) ELSE s
      u == [t EXCEPT !.surface = to, !.shown = (@ \cup Base) \cap VisibilityFor(to)]
  IN IF s.surface # to THEN Show(u, to) ELSE u

Select(s, app) ==
  [s EXCEPT !.selected = IF s.surface = "drawer" THEN "drawer"
                         ELSE IF s.surface = "application" /\ app \in Docked THEN app ELSE None]

Toggle(s, surface, back) == IF s.surface = surface THEN back ELSE surface

ToggleDrawer(s) ==
  NoteActivity(Select(Present(s, Toggle(s, "drawer", "application")), None))

ToggleSettings(s) ==
  NoteActivity(Select(Present(s, Toggle(s, "settings", "drawer")), None))

ToggleStatus(s) ==
  NoteActivity(Select(Present(EnsureStatus(s), Toggle(s, "status", "application")), None))

\* activate_app after AppManager::activate succeeded
ShowApp(s, app) ==
  NoteActivity(Select([Present(s, "application") EXCEPT !.title = app], app))

-----------------------------------------------------------------------------
(* Preferences                                                              *)

\* Mutant: a change is not activity.
ChangeSettingQuiet(s, setting, position) ==
  LET prefs == Change(s.prefs, setting, position)
      t == [s EXCEPT !.prefs = prefs, !.values = Values(prefs)]
  IN IF Settings[setting].effect = "display" THEN ApplyPowerSettings(t) ELSE t

ChangeSetting(s, setting, position) ==
  LET prefs == Change(s.prefs, setting, position)
      t == NoteActivity([s EXCEPT !.prefs = prefs, !.values = Values(prefs)])
  IN IF Settings[setting].effect = "display" THEN ApplyPowerSettings(t) ELSE t

AdjustBrightness(s, by) == ChangeSetting(s, "brightness", s.prefs.brightness + by)

ToggleTheme(s) == NoteActivity(ApplyTheme([s EXCEPT !.prefs.dark = 1 - @]))

\* A commit of the preferences: everything stored, or a prefix of the keys.
PersistSettings(prefs) ==
  \E n \in Cuts : store' = Persist(prefs, n, store)

PersistTheme(dark) ==
  \/ store' = [store EXCEPT !["ui_dark"] = dark]
  \/ store' = store

-----------------------------------------------------------------------------
(* start and stop                                                           *)

\* What AppManager::activate leaves: the application, or after a failure the
\* previous one or none.
Activations(app) ==
  {[ok |-> TRUE, active |-> app]}
  \cup (IF active = app THEN {} ELSE {[ok |-> FALSE, active |-> a] : a \in {active, None}})

\* ShellView::reset and ShellInputPolicy::reset; surface, preferences and power
\* state are kept.
ResetViews(s) == [s EXCEPT !.built = {}, !.shown = {}, !.palette = [v \in {} |-> 0], !.touch = Released]

\* EventBus::subscribe refuses an observer that it has already; the shell is
\* the only one there is, so the bus has room.
Subscribes == ~subscribed

\* restore, build, theme, activity, power settings.  Each key is read on its
\* own, and one that cannot be read is taken for absent.
Prepared(s, readable) ==
  LET found == [k \in StoreKeys |-> IF k \in readable THEN store[k] ELSE Absent]
      restored == Restore(s.prefs, found)
      t == ApplyTheme(Build([s EXCEPT !.prefs = restored]))
  IN ApplyPowerSettings([t EXCEPT !.idle = 0, !.power = "awake"])

Start ==
  /\ BeginStart(shell).acquire
  /\ \E readable \in Readable :
       LET s == Prepared(ui, readable) IN
         \/ \E a \in Activations(Catalog[1]) :
              /\ Subscribes /\ a.ok
              /\ shell' = "running" /\ subscribed' = TRUE
              /\ active' = a.active
              /\ ui' = ShowApp(s, Catalog[1])
         \/ \* the subscription was refused or the activation failed: stop()
            /\ shell' = "stopped" /\ subscribed' = FALSE
            /\ active' = None
            /\ ui' = ResetViews(s)
  /\ UNCHANGED <<store, network>>

Stop ==
  /\ BeginStop(shell).release
  /\ shell' = "stopped" /\ subscribed' = FALSE /\ active' = None
  /\ ui' = ResetViews(ui)
  /\ UNCHANGED <<store, network>>

\* The power fails or the system restarts: only the store survives.
Reboot ==
  /\ shell' = "stopped" /\ subscribed' = FALSE /\ active' = None
  /\ ui' = Cold /\ network' = None
  /\ UNCHANGED store

-----------------------------------------------------------------------------
(* Callbacks of the views: a button reports only while its panel is shown   *)

On(panel) == shell = "running" /\ panel \in ui.shown
Else == UNCHANGED <<shell, subscribed, network>>
Acts(s) == ui' = s /\ UNCHANGED <<active, store>> /\ Else

ChangeTheme ==
  /\ ui' = ToggleTheme(ui)
  /\ PersistTheme(1 - ui.prefs.dark)
  /\ UNCHANGED active /\ Else

ActivateApp(app) ==
  \E a \in Activations(app) :
    /\ active' = a.active
    /\ ui' = IF a.ok THEN ShowApp(ui, app) ELSE ui
    /\ UNCHANGED store /\ Else

ActivateId(app) ==
  IF app \in Apps THEN ActivateApp(app)
  ELSE Acts(IF ui.surface # "drawer" THEN ToggleDrawer(ui) ELSE ui)

HeaderAction(b) == On("header") /\ b = "theme" /\ ChangeTheme

NavigationAction(b) ==
  /\ On("navigation")
  /\ \/ b \in Docked /\ ActivateId(b)
     \/ b = "drawer" /\ Acts(ToggleDrawer(ui))

DrawerAction(b) ==
  /\ On("drawer")
  /\ \/ b = "close" /\ Acts(ToggleDrawer(ui))
     \/ b \in Apps /\ ActivateApp(b)
     \/ b = "settings" /\ Acts(ToggleSettings(ui))

SettingsAction(b) ==
  /\ On("settings")
  /\ \/ b = <<"close">> /\ Acts(ToggleSettings(ui))
     \/ b \in Moves /\ Acts(ChangeSetting([ui EXCEPT !.knobs[b[1]] = b[2]], b[1], b[2]))
     \/ b = <<"commit">> /\ PersistSettings(ui.prefs) /\ UNCHANGED <<ui, active>> /\ Else

\* dim and brighten adjust, then store; open_settings closes the panel first.
StatusAction(b) ==
  /\ On("status")
  /\ \/ b = "close" /\ Acts(ToggleStatus(ui))
     \/ b = "theme" /\ ChangeTheme
     \/ /\ b \in {"dim", "brighten"}
        /\ ui' = AdjustBrightness(ui, IF b = "dim" THEN -10 ELSE 10)
        /\ ui'.prefs.brightness \in Brightness
        /\ PersistSettings(ui'.prefs)
        /\ UNCHANGED active /\ Else
     \/ b = "settings" /\ Acts(ToggleSettings(ToggleStatus(ui)))

\* ShellView::gesture_callback of the content, the drawer and the settings
GestureIntent(surface, direction) ==
  CASE surface = "application" /\ direction = "up" -> "drawer"
    [] surface = "drawer" /\ direction = "down" -> "drawer"
    [] surface = "settings" /\ direction = "right" -> "settings"
    [] OTHER -> None

Gesture(direction) ==
  /\ \E panel \in {"content", "drawer", "settings"} : On(panel)
  /\ Acts(CASE GestureIntent(ui.surface, direction) = "drawer" -> ToggleDrawer(ui)
            [] GestureIntent(ui.surface, direction) = "settings" -> ToggleSettings(ui)
            [] OTHER -> ui)

-----------------------------------------------------------------------------
(* ShellInputPolicy::update, Shell::tick and Shell::on_event                *)

Abs(n) == IF n < 0 THEN -n ELSE n

\* The release of a drag that opens or closes the status panel
Dragged(touch, surface) ==
  LET dx == touch.last[1] - touch.start[1]
      dy == touch.last[2] - touch.start[2]
  IN /\ Abs(dy) > Abs(dx)
     /\ \/ surface = "application" /\ touch.start[2] <= 90 /\ dy >= 50
        \/ surface = "status" /\ dy <= -50

\* Mutant: only the start of a touch is activity.
PressedHeld(s, p) ==
  IF s.touch.pressed THEN [s EXCEPT !.touch.last = p]
  ELSE NoteActivity([s EXCEPT !.touch = [pressed |-> TRUE, start |-> p, last |-> p]])

Pressed(s, p) ==
  NoteActivity([s EXCEPT !.touch =
    [pressed |-> TRUE, start |-> IF @.pressed THEN @.start ELSE p, last |-> p]])

Lifted(s) ==
  LET t == [s EXCEPT !.touch = Released]
  IN IF s.touch.pressed /\ Dragged(s.touch, s.surface) THEN ToggleStatus(t) ELSE t

\* dt ticks of time pass and the runtime loop ticks the shell.
Passed(dt) == [ui EXCEPT !.idle = (@ + dt) % Wrap]

TickTouched(dt, p) == shell = "running" /\ Acts(UpdatePower(Pressed(Passed(dt), p)))
TickReleased(dt) == shell = "running" /\ Acts(UpdatePower(Lifted(Passed(dt))))

OnEvent(state) ==
  /\ shell = "running" /\ subscribed
  /\ network' = state
  /\ ui' = IF "status" \in ui.built THEN [ui EXCEPT !.label = state] ELSE ui
  /\ UNCHANGED <<shell, subscribed, active, store>>

-----------------------------------------------------------------------------


UserStep ==
  \/ \E b \in HeaderButtons : HeaderAction(b)
  \/ \E b \in NavigationButtons : NavigationAction(b)
  \/ \E b \in DrawerButtons : DrawerAction(b)
  \/ \E b \in SettingsInputs : SettingsAction(b)
  \/ \E b \in StatusButtons : StatusAction(b)
  \/ \E direction \in {"up", "down", "left", "right"} : Gesture(direction)

Tick ==
  \E dt \in {0, 1} : TickReleased(dt) \/ \E p \in Points : TickTouched(dt, p)

ShellNext ==
  \/ Start \/ Stop \/ Reboot \/ UserStep \/ Tick
  \/ \E state \in Networks : OnEvent(state)

ShellSpec == ShellInit /\ [][ShellNext]_shellVars

-----------------------------------------------------------------------------
(* Properties *)

Running == shell = "running"

(***************************************************************************)
(* docs/architecture.md: exactly one of application, drawer, settings and  *)
(* status surface is active, and the projection of a navigation transition *)
(* is complete.  Whatever path led to a surface, also one that builds the  *)
(* status panel or follows a restart, its widgets are the visible ones.    *)
(***************************************************************************)
SurfaceShown ==
  Running => ui.shown = IF ui.surface = "application" THEN Base ELSE {ui.surface}

(***************************************************************************)
(* The backlight is what the policy asks for, the policy has the user's    *)
(* preferences, and the power state is the one the idle time calls for: no *)
(* change of the timeout leaves a dark screen that nothing will wake or    *)
(* switch off.                                                             *)
(***************************************************************************)
ScreenFollowsPolicy ==
  Running =>
    /\ ui.policy = [brightness |-> ui.prefs.brightness, dim |-> ui.prefs.idle_brightness,
                    timeout |-> ui.prefs.screen_timeout]
    /\ ui.backlight = BrightnessFor(ui.policy, ui.power)
    /\ ui.power # "awake" => ui.policy.timeout > 0
    /\ ui.policy.timeout > 0 => UpdatePower(ui) = ui

(***************************************************************************)
(* The views show the controller's state: the theme also on the panel      *)
(* built on demand, the values in the texts of the settings, the           *)
(* application that runs in title and navigation bar after activations     *)
(* that succeeded, failed and were rolled back, and no network state older *)
(* than the last event.  The knob of a slider is where the value is, but   *)
(* for brightness: the status panel changes it and leaves the knob, which  *)
(* is right again once the user moves it or the shell starts.              *)
(***************************************************************************)
ViewsAgree ==
  Running =>
    /\ \A v \in ui.built : v \in DOMAIN ui.palette /\ ui.palette[v] = ui.prefs.dark
    /\ ui.values = Values(ui.prefs)
    /\ \A p \in DOMAIN Settings \ {"brightness"} : ui.knobs[p] = Knobs(ui.prefs)[p]
    /\ active # None => ui.title = active
    /\ active # None => ui.selected \in {None, "drawer", active}
    /\ ui.selected = "drawer" <=> ui.surface = "drawer"
    /\ ui.label \in {None, "--", network}

(***************************************************************************)
(* A screen that is touched is on and stays on, however long the touch     *)
(* lasts, from the tick that samples it.                                   *)
(***************************************************************************)
TouchedScreenIsOn ==
  Running /\ ui.touch.pressed => ui.power = "awake" /\ ui.backlight = ui.prefs.brightness

=============================================================================
