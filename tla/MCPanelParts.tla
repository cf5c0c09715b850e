---------------------------- MODULE MCPanelParts ----------------------------
(***************************************************************************)
(* The parts of the panel that share no state with the loader: the layout  *)
(* file, the menus, the parts of PanelLook and those of PanelKept, which   *)
(* have theorems, and the struts, an instance of their module.  Which of   *)
(* them a behaviour is about is chosen at the start; the others stand      *)
(* still, so the behaviours are those of each part by itself.              *)
(***************************************************************************)
EXTENDS MCLayoutFile, AppletMenus, PanelLook, PanelKept, TLC

CONSTANTS NoValue, p1, p2, i1, i2, i3, f1, f2, f3, a1, a2, t1, n1, n2, c1, c2, d1, v1, v2, m1, m2, m3, m4

VARIABLE part

VARIABLES struts, spotOf, hidesSelf, drawn, queued, hints, moves, resizes

-----------------------------------------------------------------------------
\* Two monitors side by side; panels along the edges, in a corner and adrift.
Box(x, y, w, h) == [x |-> x, y |-> y, w |-> w, h |-> h]
Spot(mon, level, rect) == [mon |-> mon, level |-> level, rect |-> rect]

S == INSTANCE PanelStruts WITH
  Panels <- {p1, p2, clock},
  Monitors <- <<Box(0, 0, 4, 4), Box(4, 0, 4, 4)>>,
  ScreenRect <- Box(0, 0, 8, 4),
  Spots <- {Spot(1, TRUE, Box(0, 0, 4, 1)), Spot(1, TRUE, Box(1, 3, 2, 1)),
            Spot(1, FALSE, Box(0, 0, 1, 4)), Spot(1, FALSE, Box(3, 1, 1, 3)),
            Spot(1, TRUE, Box(1, 1, 2, 1)), Spot(2, TRUE, Box(4, 0, 4, 1)),
            Spot(2, FALSE, Box(4, 0, 1, 2))},
  MaxMoves <- 3

\* Places that differ in one coordinate, in size and in orientation.
Region(orient, at, s) == [orient |-> orient, at |-> at, size |-> s]

MCRegions == {Region("horizontal", 1, 1), Region("horizontal", 1, 2), Region("vertical", 1, 2),
              Region("horizontal", 2, 1), Region("vertical", 1, 3)}

\* Two monitors of unlike size; points near edges and in the middle.
Area(x, y, w, h) == [x |-> x, y |-> y, width |-> w, height |-> h]

MCMonitorRects == <<Area(0, 0, 16, 8), Area(16, 0, 12, 12)>>
MCScreenSize == [width |-> 28, height |-> 12]
MCPoints == {<<0, 4>>, <<6, 4>>, <<22, 11>>, <<27, 6>>}

\* The icon i1 is guessed from the command c1, and i2 is the default one.
MCGuess == (c1 :> i1) @@ (c2 :> NoValue)
MCSystemKey == [type |-> "application", exec |-> c1, url |-> NoValue, name |-> n1,
                full |-> n2, icon |-> i3, notify |-> TRUE]

\* A drive with a volume, a volume without a drive; a mount of each, one of none
\* and one that shadows it.
Bookmark(uri, label) == [uri |-> uri, label |-> label]

MCDriveOf == (v1 :> d1) @@ (v2 :> NoValue)
MCVolumeOf == (m1 :> v1) @@ (m2 :> NoValue) @@ (m3 :> NoValue) @@ (m4 :> v2)
MCShadowOf == (m1 :> NoValue) @@ (m2 :> NoValue) @@ (m3 :> m2) @@ (m4 :> NoValue)
MCBookmarkFiles ==
  {<<Bookmark("a", ""), Bookmark("n", "x")>>,
   <<Bookmark("a", ""), Bookmark("a", ""), Bookmark("n", ""), Bookmark("n", "x")>>}

\* A launcher and the lock button, on panels p1 and p2.
MCKindOf == ("o1" :> "launcher") @@ ("o2" :> "lock")

ASSUME MenusAssumption
ASSUME LookAssumption
ASSUME KeptAssumption

\* The second theme has another file for i1 and a broken one for i2.
MCFileOf ==
  [t \in {"light", "dark"} |->
    IF t = "light" THEN (i1 :> f1) @@ (i2 :> f2) @@ (i3 :> t1)
                   ELSE (i1 :> f3) @@ (i2 :> f2) @@ (i3 :> t1)]

\* A launcher, an action button and a menu.
FirstObject(kind, p) == [kind |-> kind, location |-> t1, panel |-> p]
MCFirstObjects ==
  <<FirstObject("launcher", p1), FirstObject("action", p1), FirstObject("menu", p2)>>

\* Every kind of file by itself, and lists where one of two cannot be taken.
MCUriLists == {<<u>> : u \in UriKinds} \cup {<<"desktop", "far image">>, <<"far image", "place">>}

-----------------------------------------------------------------------------
Parts == {"layout", "struts", "background", "move", "run", "launcher", "places", "menu",
          "menus", "icons", "drops"}

\* The variables of each part.
strutVars == <<struts, spotOf, hidesSelf, drawn, queued, hints, moves, resizes>>
partsVars == <<part, vars, strutVars, bgVars, moveVars, runVars, lauVars, placesVars,
               menuVars, menuOpVars, iconVars, dropVars>>

\* Of the parts, only q may take a step.
Only(q) ==
  /\ part = q /\ UNCHANGED part
  /\ q # "layout" => UNCHANGED vars
  /\ q # "struts" => UNCHANGED strutVars
  /\ q # "background" => UNCHANGED bgVars
  /\ q # "move" => UNCHANGED moveVars
  /\ q # "run" => UNCHANGED runVars
  /\ q # "launcher" => UNCHANGED lauVars
  /\ q # "places" => UNCHANGED placesVars
  /\ q # "menu" => UNCHANGED menuVars
  /\ q # "menus" => UNCHANGED menuOpVars
  /\ q # "icons" => UNCHANGED iconVars
  /\ q # "drops" => UNCHANGED dropVars

PartsInit ==
  /\ part \in Parts
  /\ Init /\ S!StrutInit /\ BgInit /\ MoveInit /\ RunInit /\ LauncherInit
  /\ PlacesInit /\ MenuInit /\ MenusInit /\ IconsInit /\ DropsInit

PartsNext ==
  \/ Only("layout") /\ Next
  \/ Only("struts") /\ S!StrutNext
  \/ Only("background") /\ BgNext
  \/ Only("move") /\ MoveNext
  \/ Only("run") /\ RunNext
  \/ Only("launcher") /\ LauncherNext
  \/ Only("places") /\ PlacesNext
  \/ Only("menu") /\ MenuNext
  \/ Only("menus") /\ MenusNext
  \/ Only("icons") /\ IconsNext
  \/ Only("drops") /\ DropsNext

PartsSpec == PartsInit /\ [][PartsNext]_partsVars

-----------------------------------------------------------------------------
\* Every variable of every part has its type.
PartsTypeOK ==
  /\ TypeOK /\ S!StrutTypeOK /\ BgTypeOK /\ MoveTypeOK /\ RunTypeOK
  /\ LauncherTypeOK /\ PlacesTypeOK /\ MenuTypeOK /\ MenusTypeOK
  /\ IconsTypeOK /\ DropsTypeOK

(* The panels share the screen.  Struts at one side of a monitor and at sides  *)
(* that meet never cover each other; once no resize is queued each panel is    *)
(* drawn where its strut was put and reserves that much, whoever's change put  *)
(* it there; and panels that push each other come to rest after few resizes    *)
(* (panel_struts_allocate_struts, panel_toplevel_update_struts).               *)
SpaceIsShared == S!StrutsApart /\ S!DrawnAsAllocated /\ S!ResizesBounded
=============================================================================
