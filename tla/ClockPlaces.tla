---------------------------- MODULE ClockPlaces ----------------------------
(***************************************************************************)
(* The places of the clock.                                                *)
(*                                                                         *)
(* The clock keeps a list of places (ClockLocation objects), which the     *)
(* cities setting stores and the preferences show.  While its window is    *)
(* open each place has a tile.  One place at most is the current one: it   *)
(* carries a marker and its weather is on the panel.  A place becomes it   *)
(* when none is and its time zone is the system's, or when the user        *)
(* chooses it and the system accepts the zone, which takes a while.        *)
(*                                                                         *)
(* Code: applets/clock/clock.c, clock-location.c, clock-location-tile.c,   *)
(* clock-map.c, set-timezone.c and system-timezone.c, for one clock.       *)
(***************************************************************************)
EXTENDS Integers, Sequences, SequencesExt, FiniteSets, Functions

CONSTANTS
  Places,       \* identities of ClockLocation objects
  FirstPlaces,  \* the places of the first load, a sequence
  Zones, ZoneOf,\* time zones, and that of each place
  Twin,         \* zones whose files have the same content, as a relation
  ConfFiles,    \* the configuration files that may name the zone, in order
  Unwatched,    \* those no GFileMonitor watches
  NoPlace, NoZone, BadZone, Utc,
  MaxRetry,     \* WEATHER_TIMEOUT_MAX / WEATHER_TIMEOUT_BASE
  MaxOps        \* steps of the user and of the outside (bound)

\* The places of the first load are some of all, and no zone is none.
PlaceAssumption ==
  /\ FirstPlaces \in Seq(Places) /\ IsInjective(FirstPlaces)
  /\ NoPlace \notin Places /\ "closed" \notin Places \cup {NoPlace}
  /\ ZoneOf \in [Places -> Zones] /\ Utc \in Zones
  /\ ConfFiles \in Seq(Range(ConfFiles))
  /\ MaxRetry \in Nat \ {0}

VARIABLES
  places,       \* cd->locations
  cities,       \* the cities setting
  rows,         \* the places cities_store holds
  heard,        \* the places whose signals are connected
  popup,        \* the clock's window is open
  tiles,        \* the places that have a tile
  marked,       \* the tiles that show the marker
  here,         \* current_location
  blinking,     \* the place that blinks on the map
  calls,        \* places for which SetTimezone was called
  prefs,        \* the preferences are open
  editing,      \* the edit dialog: "closed", a place, or NoPlace for a new one
  weather,      \* of each place, what gweather knows: "none", "valid"
  retry,        \* weather_retry_time, in multiples of WEATHER_TIMEOUT_BASE
  timer,        \* weather_timeout, in the same unit
  onPanel,      \* the place whose weather the panel shows
  timeFormat, calFormat, \* the clock-format setting, and the window's copy
  zoneFiles,    \* what the files of the system say of the zone
  unread,       \* a file monitor has still to report
  known,        \* the zone that SystemTimezone found last
  clockRuns,    \* the clock exists
  usedPlaces, dropped, ops

placeVars == <<places, cities, rows, heard, popup, tiles, marked, here, blinking,
               calls, prefs, editing, weather, retry, timer, onPanel, timeFormat, calFormat,
               zoneFiles, unread, known, clockRuns, usedPlaces, dropped, ops>>
zoneVars == <<zoneFiles, unread, known>>
weatherVars == <<weather, retry, timer>>
formatVars == <<timeFormat, calFormat>>
dialogVars == <<prefs, editing>>

Tick == ops < MaxOps /\ ops' = ops + 1

-----------------------------------------------------------------------------
(***************************************************************************)
(* The system's time zone.                                                 *)
(***************************************************************************)
\* system_timezone_is_valid
Valid(z) == z \in Zones

\* /etc/localtime when it is a file: the first file of the same content.
Copied(s) == IF s.localtime.kind = "copy"
               THEN {z \in Zones : <<s.localtime.zone, z>> \in Twin} ELSE {}

\* /etc/localtime when it is a link.
Linked(s) == {z \in {s.localtime.zone} : s.localtime.kind = "link" /\ Valid(z)}

\* The first of the configuration files that names a valid zone.
Named(s) ==
  LET n == SelectInSeq(ConfFiles, LAMBDA f : Valid(s.conf[f]))
  IN  IF n = 0 THEN {} ELSE {s.conf[ConfFiles[n]]}

\* system_timezone_find: the zone from the first source that has a valid one.
Find(s) ==
  CASE Linked(s) # {} -> Linked(s)
    [] Linked(s) = {} /\ Named(s) # {} -> Named(s)
    [] Linked(s) = {} /\ Named(s) = {} /\ Copied(s) # {} -> Copied(s)
    [] OTHER -> {Utc}

\* An administrator, or the mechanism behind SetTimezone, writes a file.
WriteZone ==
  /\ Tick /\ clockRuns
  /\ \E z \in Zones \cup {NoZone, BadZone} :
       \/ \E kind \in {"link", "copy"} :
            /\ z \in Zones /\ zoneFiles' = [zoneFiles EXCEPT !.localtime =
                                              [kind |-> kind, zone |-> z]]
            /\ unread' = TRUE
       \/ \E f \in Range(ConfFiles) :
            /\ zoneFiles' = [zoneFiles EXCEPT !.conf[f] = z]
            /\ unread' = (unread \/ f \notin Unwatched)
  /\ UNCHANGED <<places, cities, rows, heard, popup, tiles, marked, here, blinking,
                 calls, dialogVars, weatherVars, onPanel, formatVars, known, clockRuns,
                 usedPlaces, dropped>>

\* system_timezone_monitor_changed: no place listens to the signal.
ZoneRead ==
  /\ unread /\ unread' = FALSE
  /\ known' \in Find(zoneFiles)
  /\ UNCHANGED <<places, cities, rows, heard, popup, tiles, marked, here, blinking,
                 calls, dialogVars, weatherVars, onPanel, formatVars, zoneFiles, clockRuns,
                 usedPlaces, dropped, ops>>

-----------------------------------------------------------------------------
(***************************************************************************)
(* The current place.                                                      *)
(***************************************************************************)
\* clock_location_is_current, asked of the places S: when there is no current
\* place, one of S in the system's zone becomes it.
Adopted(h, S) ==
  LET near == {p \in S : ZoneOf[p] = known}
  IN  IF h # NoPlace THEN {h} ELSE IF near = {} THEN {NoPlace} ELSE near

\* What holds a reference of a place.
Keeping(ps, rs, ts, cs, b) == Range(ps) \cup rs \cup ts \cup cs \cup ({b} \ {NoPlace})

\* A place nobody holds is finalized: the weak pointer to it is cleared.
IfHeld(h, S) == IF h \in S THEN h ELSE NoPlace

\* create_cities_section
NewTiles(ps) == IF popup THEN Range(ps) ELSE {}

\* clock_location_tile_refresh, of the tiles ts while h is current.
Marks(ts, h) == ts \cap {h}

\* The place h, or none, is current from now on and the tiles are ts.  When h
\* was not before, set-current is emitted: location_set_current_cb refreshes
\* the tiles and shows the weather if there is any.
SetCurrent(h, ts) ==
  /\ here' = h /\ tiles' = ts
  /\ marked' = IF h = here /\ ts = tiles THEN marked ELSE Marks(ts, h)
  /\ onPanel' = IF h # here /\ h \in heard /\ weather[h] = "valid" THEN h ELSE onPanel

\* save_cities_store and, through the setting's signal, locations_changed:
\* places ps are stored, heard and get new tiles (which may make one of them
\* current); then the rows are made anew, and what nobody holds is finalized.
Saved(ps, h, cs) ==
  LET ts == NewTiles(ps)
  IN  /\ cities' = ps /\ rows' = Range(ps)
      /\ heard' = heard \cup Range(ps)
      /\ \E n \in Adopted(h, ts) :
           LET kept == IfHeld(n, Keeping(ps, Range(ps), ts, cs, blinking))
           IN  /\ here' = kept /\ tiles' = ts /\ marked' = Marks(ts, kept)
               /\ onPanel' = CASE ps = <<>> -> NoPlace
                               [] n # here /\ n \in heard /\ weather[n] = "valid" -> n
                               [] OTHER -> onPanel

\* destroy_clock for the places; a SetTimezone call keeps its place.
Gone == /\ places' = <<>> /\ rows' = {} /\ tiles' = {} /\ marked' = {}
        /\ blinking' = NoPlace /\ here' = IfHeld(here, calls)

-----------------------------------------------------------------------------
\* The singleton of all the places.
ZoneInit ==
  /\ zoneFiles = [localtime |-> [kind |-> "link", zone |-> Utc],
                  conf |-> [f \in Range(ConfFiles) |-> NoZone]]
  /\ unread = FALSE /\ known = Utc

PlaceInit ==
  /\ places = FirstPlaces /\ cities = FirstPlaces /\ rows = {}
  /\ heard = Range(FirstPlaces) /\ popup = FALSE /\ tiles = {} /\ marked = {}
  /\ here = NoPlace /\ blinking = NoPlace /\ calls = {} /\ editing = "closed"
  /\ weather = [p \in Places |-> "none"] /\ retry = [p \in Places |-> 1]
  /\ timer = [p \in Places |-> IF p \in Range(FirstPlaces) THEN MaxRetry ELSE 0]
  /\ onPanel = NoPlace /\ timeFormat = 24 /\ calFormat = 24
  /\ ZoneInit /\ clockRuns = TRUE /\ prefs = FALSE
  /\ usedPlaces = Range(FirstPlaces) /\ dropped = {} /\ ops = 0

(***************************************************************************)
(* The window.                                                             *)
(***************************************************************************)
\* toggle_calendar, update_calendar_popup
Open ==
  /\ clockRuns /\ ~popup /\ popup' = TRUE
  /\ rows' = Range(places) /\ calFormat' = timeFormat
  /\ \E h \in Adopted(IfHeld(here, Keeping(places, rows', {}, calls, blinking)),
                      Range(places)) :
       SetCurrent(h, Range(places))
  /\ cities' = IF here' # here THEN places ELSE cities
  /\ UNCHANGED <<places, heard, blinking, calls, dialogVars, weatherVars, timeFormat,
                 zoneVars, clockRuns, usedPlaces, dropped, ops>>

Shut ==
  /\ popup /\ popup' = FALSE /\ blinking' = NoPlace
  /\ SetCurrent(IfHeld(here, Keeping(places, rows, {}, calls, NoPlace)), {})
  /\ UNCHANGED <<places, cities, rows, heard, calls, dialogVars, weatherVars, formatVars,
                 zoneVars, clockRuns, usedPlaces, dropped, ops>>

\* update_clock, once a minute: every tile is asked whether it is current.
Minute ==
  /\ popup /\ here = NoPlace /\ \E p \in tiles : ZoneOf[p] = known
  /\ \E h \in Adopted(here, tiles) : SetCurrent(h, tiles)
  /\ cities' = places /\ rows' = Range(places)
  /\ UNCHANGED <<places, heard, popup, blinking, calls, dialogVars, weatherVars, formatVars,
                 zoneVars, clockRuns, usedPlaces, dropped, ops>>

\* clock_map_blink_location, and the end of the blinking.
Blink ==
  /\ popup /\ blinking' \in (tiles \cup {NoPlace}) \ {blinking}
  /\ here' = IfHeld(here, Keeping(places, rows, tiles, calls, blinking'))
  /\ UNCHANGED <<places, cities, rows, heard, popup, tiles, marked, calls, dialogVars,
                 weatherVars, onPanel, formatVars, zoneVars, clockRuns, usedPlaces,
                 dropped, ops>>

\* set_12hr_format_radio_cb, format_changed
SetFormat ==
  /\ Tick /\ clockRuns /\ timeFormat' = 36 - timeFormat
  /\ calFormat' = IF popup THEN timeFormat' ELSE calFormat
  /\ UNCHANGED <<places, cities, rows, heard, popup, tiles, marked, here, blinking, calls,
                 dialogVars, weatherVars, onPanel, zoneVars, clockRuns, usedPlaces, dropped>>

-----------------------------------------------------------------------------
(***************************************************************************)
(* Choosing the current place.                                             *)
(***************************************************************************)
\* set_system_timezone_async; the call holds a reference of the place.
SetTimezone(p) == calls' = calls \cup {p}

\* clock_location_make_current, for the button of a tile.
Choose(p) ==
  /\ Tick /\ p \in tiles \ {here}
  /\ IF ZoneOf[p] = known
       THEN /\ SetCurrent(p, tiles)
            /\ cities' = places /\ rows' = Range(places)
            /\ UNCHANGED calls
       ELSE /\ SetTimezone(p)
            /\ UNCHANGED <<cities, rows, tiles, marked, here, onPanel>>
  /\ UNCHANGED <<places, heard, popup, blinking, dialogVars, weatherVars, formatVars,
                 zoneVars, clockRuns, usedPlaces, dropped>>

\* make_current_cb.  The call holds its place until here; when the clock is
\* gone its handler has a freed argument, and what it does is not followed.
Chosen(p) ==
  /\ p \in calls /\ calls' = calls \ {p}
  /\ LET stays == p \in Keeping(places, {}, tiles, calls', blinking)
     IN  \/ /\ here' = IF stays THEN p ELSE NoPlace
            /\ tiles' = tiles /\ marked' = Marks(tiles, p)
            /\ onPanel' = IF p \in heard /\ weather[p] = "valid" /\ clockRuns
                            THEN p ELSE onPanel
            /\ cities' = IF clockRuns THEN places ELSE cities
            /\ rows' = IF clockRuns THEN Range(places) ELSE rows
            /\ zoneFiles' = [zoneFiles EXCEPT !.localtime =
                               [kind |-> "link", zone |-> ZoneOf[p]]]
            /\ unread' = clockRuns
         \/ /\ here' = IfHeld(here, Keeping(places, rows, tiles, calls', blinking))
            /\ UNCHANGED <<tiles, marked, onPanel, cities, rows, zoneFiles, unread>>
  /\ UNCHANGED <<places, heard, popup, blinking, dialogVars, weatherVars, formatVars, known,
                 clockRuns, usedPlaces, dropped, ops>>

-----------------------------------------------------------------------------
(***************************************************************************)
(* The preferences.                                                        *)
(***************************************************************************)
\* fill_prefs_window
Filled == IF rows = {} THEN Range(places) ELSE rows

\* display_properties_dialog; the window is made once.
OpenPrefs ==
  /\ clockRuns /\ ~prefs /\ prefs' = TRUE /\ rows' = Filled
  /\ UNCHANGED <<places, cities, heard, popup, tiles, marked, here, blinking, calls,
                 editing, weatherVars, onPanel, formatVars, zoneVars, clockRuns,
                 usedPlaces, dropped, ops>>

\* run_prefs_locations_add, run_prefs_locations_edit: no dialog is modal.
Edit(p) ==
  /\ Tick /\ clockRuns /\ prefs /\ p \in rows \cup {NoPlace} /\ editing' = p
  /\ UNCHANGED <<prefs, places, cities, rows, heard, popup, tiles, marked, here, blinking, calls,
                 weatherVars, onPanel, formatVars, zoneVars, clockRuns, usedPlaces, dropped>>

\* edit_hide, prefs_hide
CancelEdit ==
  /\ prefs /\ prefs' \in BOOLEAN /\ editing' = "closed"
  /\ editing # "closed" \/ ~prefs'
  /\ UNCHANGED <<places, cities, rows, heard, popup, tiles, marked, here, blinking, calls,
                 weatherVars, onPanel, formatVars, zoneVars, clockRuns, usedPlaces,
                 dropped, ops>>

Lives(p) == p \in Keeping(places, rows, tiles, calls, blinking)

\* run_prefs_edit_save: a new place takes the place of the edited one, at the
\* end of the list.  It may become current before its signals are connected.
\* An edited place that left the list meanwhile is unreferenced once too often;
\* what follows then is undefined and is not followed.
SaveEdit(new) ==
  /\ editing \in Range(places) \cup {NoPlace}
  /\ new \in Places \ usedPlaces /\ usedPlaces' = usedPlaces \cup {new}
  /\ editing' = "closed"
  /\ places' = Append(RemoveFirst(places, editing), new)
  /\ timer' = [timer EXCEPT ![new] = MaxRetry]
  /\ \E h \in Adopted(here, {new}) : Saved(places', h, calls)
  /\ UNCHANGED <<prefs, popup, blinking, calls, weather, retry, formatVars, zoneVars, clockRuns,
                 dropped, ops>>

\* The same when the text names no known place but a zone was chosen for it:
\* the edited place has left the list, and nothing is stored.
RefuseEdit ==
  /\ editing \in Range(places) /\ editing' = "closed"
  /\ places' = RemoveFirst(places, editing)
  /\ dropped' = dropped \cup {editing}
  /\ UNCHANGED <<prefs, cities, rows, heard, popup, tiles, marked, here, blinking, calls,
                 weatherVars, onPanel, formatVars, zoneVars, clockRuns, usedPlaces, ops>>

\* remove_tree_row, of a place that is still on the list (see SaveEdit).
RemovePlace(p) ==
  /\ Tick /\ prefs /\ p \in rows \cap Range(places)
  /\ places' = RemoveFirst(places, p)
  /\ Saved(places', here, calls)
  /\ UNCHANGED <<popup, blinking, calls, dialogVars, weatherVars, formatVars, zoneVars,
                 clockRuns, usedPlaces, dropped>>

-----------------------------------------------------------------------------
(***************************************************************************)
(* The weather.                                                            *)
(***************************************************************************)
\* set_weather_update_timeout after a failure
Backoff(r) == IF 2 * r > MaxRetry THEN MaxRetry ELSE 2 * r

\* weather_info_updated, location_weather_updated_cb
WeatherAnswer(p, ok) ==
  /\ Lives(p) /\ clockRuns
  /\ IF ok THEN UNCHANGED ops ELSE Tick
  /\ weather' = [weather EXCEPT ![p] = IF ok THEN "valid" ELSE "none"]
  /\ timer' = [timer EXCEPT ![p] = IF ok THEN MaxRetry ELSE retry[p]]
  /\ retry' = [retry EXCEPT ![p] = IF ok THEN 1 ELSE Backoff(retry[p])]
  /\ IF ok /\ p \in heard
       THEN \E h \in Adopted(here, {p}) :
              /\ here' = IF h = here THEN h
                         ELSE IfHeld(h, Keeping(places, Range(places), tiles, calls, blinking))
              /\ marked' = IF h = here THEN marked ELSE Marks(tiles, h)
              /\ onPanel' = IF h = p THEN p ELSE onPanel
              /\ cities' = IF h = here THEN cities ELSE places
              /\ rows' = IF h = here THEN rows ELSE Range(places)
       ELSE UNCHANGED <<here, marked, onPanel, cities, rows>>
  /\ UNCHANGED <<places, heard, popup, tiles, blinking, calls, dialogVars, formatVars,
                 zoneVars, clockRuns, usedPlaces, dropped>>

\* update_weather_infos: the network is connected.
Connected ==
  /\ clockRuns /\ retry # [p \in Places |-> 1] /\ retry' = [p \in Places |-> 1]
  /\ UNCHANGED <<places, cities, rows, heard, popup, tiles, marked, here, blinking, calls,
                 dialogVars, weather, timer, onPanel, formatVars, zoneVars, clockRuns,
                 usedPlaces, dropped, ops>>

\* destroy_clock
DestroyClock ==
  /\ clockRuns /\ clockRuns' = FALSE /\ popup' = FALSE
  /\ prefs' = FALSE /\ editing' = "closed"
  /\ onPanel' = NoPlace /\ unread' = FALSE /\ Gone
  /\ UNCHANGED <<cities, heard, calls, weatherVars, formatVars, zoneFiles, known,
                 usedPlaces, dropped, ops>>

PlaceNext ==
  \/ Open \/ Shut \/ Minute \/ Blink \/ SetFormat \/ WriteZone \/ ZoneRead
  \/ OpenPrefs \/ CancelEdit \/ RefuseEdit \/ Connected \/ DestroyClock
  \/ Edit(NoPlace)
  \/ \E p \in Places :
       \/ Choose(p) \/ Chosen(p) \/ Edit(p) \/ SaveEdit(p) \/ RemovePlace(p)
       \/ \E ok \in BOOLEAN : WeatherAnswer(p, ok)

PlaceSpec == PlaceInit /\ [][PlaceNext]_placeVars

-----------------------------------------------------------------------------
PlaceTypeOK ==
  /\ Range(places) \cup rows \cup tiles \cup calls \subseteq usedPlaces
  /\ IsInjective(places) /\ marked \subseteq tiles
  /\ here = NoPlace \/ Lives(here)
  /\ known \in Zones /\ (~popup => tiles = {})
  /\ \A p \in Places : retry[p] \in 1 .. MaxRetry /\ timer[p] \in 0 .. MaxRetry

\* The marker is on the tile of the current place and on no other, whoever made
\* it current and whatever was added, edited or removed meanwhile; the open
\* window has a tile for every place and the time format of the settings.
MarkerIsCurrent ==
  /\ marked = tiles \cap {here}
  /\ popup => Range(places) \subseteq tiles /\ calFormat = timeFormat

\* The dialog and the setting have the places of the list.  What is excepted is
\* a fault: an edit that is refused takes its place off the list alone.
ListIsStored ==
  clockRuns => /\ Range(cities) \ dropped = Range(places) \ dropped
               /\ rows = {} \/ rows \ dropped = Range(places) \ dropped
               /\ rows \cap dropped \subseteq Range(cities)
=============================================================================
