----------------------------- MODULE AppletParts -----------------------------
(***************************************************************************)
(* The parts of the applets: the factories in the panel's process, an      *)
(* applet's side of the conversation with the panel, the calendar and the  *)
(* places of the clock, and the notification area.  They share no state.   *)
(***************************************************************************)
EXTENDS AppletFactories, AppletLibrary, CalendarClient, ClockPlaces, NotificationArea

SidesAssumption == CalAssumption /\ PlaceAssumption /\ TrayAssumption

\* Each by itself, whatever the others do.
SidesSpec == CalSpec /\ PlaceSpec /\ TraySpec

\* Every variable of every part has its type.
AppletsTypeOK == TypeOK /\ LibTypeOK /\ CalTypeOK /\ PlaceTypeOK /\ TrayTypeOK

(* Two sides that only hear of each other agree once all is heard.  The         *)
(* calendar window shows nothing of a month that is not selected, and of a      *)
(* calendar whose queries were answered exactly what the server has, whatever   *)
(* was edited, selected, stopped or overtaken on the way                        *)
(* (calendar_client_start_query, calendar_client_handle_query_result).  The     *)
(* clock's tiles mark the current place, and dialog and setting have the places *)
(* of its list (clock_location_make_current, save_cities_store); the trays hold *)
(* the icons that are embedded, in order, and programs are told of the first    *)
(* tray (tray_removed, na_tray_dispose).                                        *)
BothSidesAgree ==
  /\ ShownIsCurrent
  /\ MarkerIsCurrent /\ ListIsStored
  /\ IconsAreEmbedded /\ ToldIsFirstTray
=============================================================================
