--------------------------- MODULE PanelBackground ---------------------------
(***************************************************************************)
(* The background of a panel.                                              *)
(*                                                                         *)
(* What a panel is painted with is made in stages, each kept until what it *)
(* depends on changes: the image file is loaded, scaled and turned for the *)
(* panel (transformed), laid over the desktop behind the panel             *)
(* (composited) and set on the window (prepared).  Then the applets are    *)
(* told.  Settings, the place of the panel, the theme and the picture of   *)
(* the desktop change independently.                                       *)
(*                                                                         *)
(* Code: gnome-panel/panel-background.c, panel-background-monitor.c, their *)
(* callers in panel-widget.c, and what panel-applet-frame.c tells applets. *)
(***************************************************************************)
EXTENDS Naturals

CONSTANTS
  Images,        \* the image files that the settings may name
  ClearImages,   \* those that have transparent parts
  BrokenImages,  \* those that cannot be read
  Regions,       \* where the panel may be: [orient, at, size]
  None,
  MaxBgChanges   \* changes of settings, place, theme and desktop (bound)

VARIABLES
  bg,         \* PanelBackground
  root,       \* the picture of the desktop, 0 when there is none
  rootPix,    \* the copy of it that the monitor keeps
  rootLate,   \* the event of its last change has not been handled
  frameAt,    \* where the frame of an applet is on the panel
  told,       \* the background that the applet was last sent
  bgChanges   \* how much of MaxBgChanges is used

bgVars == <<bg, root, rootPix, rootLate, frameAt, told, bgChanges>>

Colours == {"solid", "glass"}
Styles == {"none", "stretch", "fit"}
NoRegion == [orient |-> "horizontal", at |-> 0, size |-> 0]
Orients == {"horizontal", "vertical"}
PanelSizes == {r.size : r \in Regions \cup {NoRegion}}

\* What is behind a panel, images that were scaled for it, and what is made of both.
Desktops == [root : 1..2, region : Regions \cup {NoRegion}]
ScaledImages ==
  [image : Images, turned : BOOLEAN,
   for : {<<>>} \cup {<<s>> : s \in PanelSizes} \cup (PanelSizes \X Orients)]
Patterns == [what : Colours \cup ScaledImages, size : PanelSizes, over : Desktops \cup {None}]

\* A panel has a size, and None is no value of anything.
BgAssumption ==
  /\ \A r \in Regions : DOMAIN r = {"orient", "at", "size"} /\ r.orient \in Orients
  /\ NoRegion \notin Regions
  /\ None \notin Images \cup 1..2 \cup Desktops \cup ScaledImages \cup Patterns

-----------------------------------------------------------------------------
(***************************************************************************)
(* The stages.  d is the state of the desktop: [bg, pix], the background   *)
(* and the monitor's copy, which a stage may have to make.                 *)
(***************************************************************************)
\* disconnect_background_monitor: the last user takes the monitor with it.
Unwatched(d) == [bg |-> [d.bg EXCEPT !.watches = FALSE, !.desktop = None], pix |-> None]

\* panel_background_update_has_alpha
WithAlpha(d) ==
  LET b == d.bg
      clear == \/ b.type = "color" /\ b.colour = "glass"
               \/ b.type = "image" /\ b.loaded \in ClearImages
      e == [d EXCEPT !.bg.alpha = clear]
  IN  IF clear THEN e ELSE Unwatched(e)

\* load_background_file
BgLoaded(d) ==
  IF d.bg.image = None THEN d
  ELSE WithAlpha([d EXCEPT !.bg.loaded = IF d.bg.image \in BrokenImages
                                         THEN None ELSE d.bg.image])

\* get_scaled_and_rotated_pixbuf, as far as it depends on the panel.
Scaled(b) ==
  [image  |-> b.loaded,
   turned |-> b.rotate /\ b.region.orient = "vertical",
   for    |-> CASE b.style = "none"    -> <<>>
                [] b.style = "stretch" -> <<b.region.size>>
                [] b.style = "fit"     -> <<b.region.size, b.region.orient>>]

\* panel_background_monitor_get_region, through get_desktop_pixbuf
Behind(d) ==
  IF d.bg.desktop # None THEN d
  ELSE LET pix == IF d.pix # None \/ root = 0 THEN d.pix ELSE root
       IN  [bg  |-> [d.bg EXCEPT !.watches = TRUE,
                                 !.desktop = IF pix = None THEN None
                                             ELSE [root |-> pix, region |-> d.bg.region]],
            pix |-> pix]

\* composite_image_onto_desktop, composite_color_onto_desktop
Pattern(b, what) ==
  IF b.desktop = None THEN None
  ELSE [what |-> what, size |-> b.desktop.region.size,
        over |-> IF b.alpha THEN b.desktop ELSE None]

\* panel_background_effective_type
Effective(b) == IF b.type = "image" /\ b.pattern = None THEN "none" ELSE b.type

\* What panel_background_prepare sets on the window.
Painted(b) ==
  CASE Effective(b) = "none" -> [theme |-> b.theme, size |-> b.region.size]
    [] Effective(b) = "color" /\ ~(b.alpha /\ b.pattern # None) -> [colour |-> b.colour]
    [] OTHER -> b.pattern

\* panel_background_prepare
Prepared(d) ==
  IF d.bg.transformed THEN [d EXCEPT !.bg.drawn = Painted(d.bg), !.bg.notify = TRUE] ELSE d

\* panel_background_composite
Composited(d) ==
  LET b == d.bg
      made == CASE b.type = "color" /\ b.alpha ->
                     LET e == Behind(d)
                     IN  [e EXCEPT !.bg.pattern = Pattern(e.bg, b.colour)]
                [] b.type = "image" /\ b.scaled # None ->
                     LET e == Behind(d)
                     IN  [e EXCEPT !.bg.pattern = Pattern(e.bg, b.scaled)]
                [] OTHER -> [d EXCEPT !.bg.pattern = None]
  IN  IF ~b.transformed THEN d
      ELSE Prepared([made EXCEPT !.bg = [made.bg EXCEPT !.composited = TRUE, !.serial = 1 - @]])

\* free_transformed_resources
Freed(d) ==
  [d EXCEPT !.bg.composited = FALSE, !.bg.pattern = None, !.bg.transformed = FALSE,
            !.bg.scaled = IF d.bg.type = "image" THEN None ELSE @]

\* panel_background_transform
Transformed(d) ==
  IF d.bg.region = NoRegion THEN d
  ELSE LET f == Freed(d)
           e == IF f.bg.type = "image" THEN BgLoaded(f) ELSE f
           s == IF e.bg.type = "image" /\ e.bg.loaded # None THEN Scaled(e.bg) ELSE e.bg.scaled
       IN  Composited([e EXCEPT !.bg.scaled = s, !.bg.transformed = TRUE])

-----------------------------------------------------------------------------
(***************************************************************************)
(* What the applets are sent.                                              *)
(***************************************************************************)
NeedsPixmap(b) == b.type = "image" \/ (b.type = "color" /\ b.alpha)

\* panel_background_make_string; nothing is sent when the pixmap is missing.
Message(b, at) ==
  IF Effective(b) = "none" THEN [none |-> TRUE]
  ELSE IF b.type = "color" /\ ~b.alpha THEN [colour |-> b.colour]
  ELSE IF b.pattern = None THEN told
  ELSE [pixmap |-> b.serial, at |-> at]

\* The stages end here: d is the state they leave.
Leave(d) ==
  /\ bg' = [d.bg EXCEPT !.notify = FALSE]
  /\ rootPix' = d.pix
  /\ told' = IF d.bg.notify THEN Message(d.bg, frameAt) ELSE told

Here == [bg |-> bg, pix |-> rootPix]

BgInit ==
  /\ bg = [type |-> "none", colour |-> "solid", image |-> None, loaded |-> None,
           style |-> "none", rotate |-> FALSE, region |-> NoRegion, theme |-> 0,
           alpha |-> FALSE, transformed |-> FALSE, scaled |-> None,
           composited |-> FALSE, pattern |-> None, serial |-> 0, desktop |-> None,
           watches |-> FALSE, realized |-> FALSE, drawn |-> None, notify |-> FALSE]
  /\ root = 1 /\ rootPix = None /\ rootLate = FALSE
  /\ frameAt = 0 /\ told = None /\ bgChanges = 0

Change == bgChanges < MaxBgChanges /\ bgChanges' = bgChanges + 1

SetType(t) ==
  /\ Change
  /\ bg.type # t
  /\ Leave(Transformed(WithAlpha([Freed(Here) EXCEPT !.bg.type = t])))
  /\ UNCHANGED <<root, rootLate, frameAt>>

SetColour(c) ==
  /\ Change
  /\ bg.colour # c
  /\ Leave(Transformed(WithAlpha([Freed(Here) EXCEPT !.bg.colour = c])))
  /\ UNCHANGED <<root, rootLate, frameAt>>

SetImage(f) ==
  /\ Change
  /\ bg.image # f
  /\ Leave(Transformed(WithAlpha([Freed(Here) EXCEPT !.bg.image = f, !.bg.loaded = None])))
  /\ UNCHANGED <<root, rootLate, frameAt>>

SetStyle(s) ==
  /\ Change
  /\ bg.style # s
  /\ Leave(Transformed([Freed(Here) EXCEPT !.bg.style = s]))
  /\ UNCHANGED <<root, rootLate, frameAt>>

SetRotate(r) ==
  /\ Change
  /\ bg.rotate # r
  /\ Leave(Transformed([Freed(Here) EXCEPT !.bg.rotate = r]))
  /\ UNCHANGED <<root, rootLate, frameAt>>

\* The theme changes, or the state of the panel.
SetDefaultStyle ==
  /\ Change
  /\ bg.realized
  /\ LET d == [Here EXCEPT !.bg.theme = 1 - @]
     IN  Leave(IF bg.type = "none" THEN Prepared(d) ELSE d)
  /\ UNCHANGED <<root, rootLate, frameAt>>

Realize ==
  /\ ~bg.realized
  /\ Leave(Prepared([Here EXCEPT !.bg.realized = TRUE]))
  /\ UNCHANGED <<root, rootLate, frameAt, bgChanges>>

\* Mutant of MustTransform: an image that turns with the panel is not turned.
MustTransform_NotTurned(r) ==
  bg.type = "image" /\ r.size # bg.region.size /\ bg.style # "none"

\* Whether the image is to be scaled and turned again for region r.
MustTransform(r) ==
  /\ bg.type = "image"
  /\ \/ r.orient # bg.region.orient /\ bg.rotate
     \/ r.size # bg.region.size /\ bg.style # "none"

ChangeRegion(r) ==
  /\ Change
  /\ bg.realized /\ bg.region # r
  /\ LET d == [Here EXCEPT !.bg.region = r, !.bg.desktop = None]
     IN  Leave(CASE MustTransform(r) \/ ~bg.transformed -> Transformed(d)
                 [] ~MustTransform(r) /\ bg.transformed /\ (bg.alpha \/ ~bg.composited) ->
                      Composited(d)
                 [] ~MustTransform(r) /\ bg.transformed /\ ~bg.alpha /\ bg.composited ->
                      IF r.size # bg.region.size THEN Prepared(d) ELSE d)
  /\ UNCHANGED <<root, rootLate, frameAt>>

\* The frame of the applet is allocated another place on the panel.
MoveFrame ==
  /\ Change
  /\ frameAt' = 1 - frameAt
  /\ told' = IF NeedsPixmap(bg) THEN Message(bg, frameAt') ELSE told
  /\ UNCHANGED <<bg, root, rootPix, rootLate>>

\* Another picture is put on the desktop, or removed.
ChangeDesktop(n) ==
  /\ Change
  /\ n # root
  /\ root' = n
  /\ rootLate' = bg.watches
  /\ UNCHANGED <<bg, rootPix, frameAt, told>>

\* panel_background_monitor_changed and background_changed
DesktopChanged ==
  /\ rootLate
  /\ rootLate' = FALSE
  /\ IF bg.watches
     THEN Leave(Composited(Behind([bg |-> [bg EXCEPT !.desktop = None], pix |-> None])))
     ELSE UNCHANGED <<bg, rootPix, told>>
  /\ UNCHANGED <<root, frameAt, bgChanges>>

BgNext ==
  \/ \E t \in {"none", "color", "image"} : SetType(t)
  \/ \E c \in Colours : SetColour(c)
  \/ \E f \in Images \cup {None} : SetImage(f)
  \/ \E s \in Styles : SetStyle(s)
  \/ \E r \in BOOLEAN : SetRotate(r)
  \/ SetDefaultStyle \/ Realize \/ MoveFrame \/ DesktopChanged
  \/ \E r \in Regions : ChangeRegion(r)
  \/ \E n \in 0..2 : ChangeDesktop(n)

BgSpec == BgInit /\ [][BgNext]_bgVars

-----------------------------------------------------------------------------
(***************************************************************************)
(* Properties.                                                             *)
(***************************************************************************)
BgTypeOK ==
  /\ bg.type \in {"none", "color", "image"} /\ bg.colour \in Colours
  /\ bg.image \in Images \cup {None} /\ bg.loaded \in (Images \ BrokenImages) \cup {None}
  /\ bg.style \in Styles /\ bg.region \in Regions \cup {NoRegion}
  /\ {bg.rotate, bg.alpha, bg.transformed, bg.composited, bg.watches, bg.realized,
      rootLate} \subseteq BOOLEAN
  /\ ~bg.notify
  /\ rootPix \in 1..2 \cup {None} /\ root \in 0..2
  /\ bgChanges \in 0..MaxBgChanges

\* The desktop that is behind the panel now.
BehindNow == IF root = 0 THEN None ELSE [root |-> root, region |-> bg.region]

Readable == bg.image \in Images \ BrokenImages

\* The image, scaled and turned for a panel like this one turned as o.
ImageFor(o) == Scaled([bg EXCEPT !.loaded = bg.image, !.region.orient = o])
ImageNow == ImageFor(bg.region.orient)

\* What the settings ask for with that image, made from nothing.
WantedLook(image) ==
  CASE bg.type = "color" /\ (bg.colour = "solid" \/ root = 0) -> [colour |-> bg.colour]
    [] bg.type = "color" /\ bg.colour = "glass" /\ root # 0 ->
         [what |-> "glass", size |-> bg.region.size, over |-> BehindNow]
    [] bg.type = "image" /\ Readable /\ root # 0 ->
         [what |-> image, size |-> bg.region.size,
          over |-> IF bg.image \in ClearImages THEN BehindNow ELSE None]
    [] OTHER -> [theme |-> bg.theme, size |-> bg.region.size]

\* An opaque image that is not scaled is not laid out again for another size.
KeptSize ==
  /\ bg.type = "image" /\ bg.style = "none" /\ bg.image \in Images \ ClearImages
  /\ bg.pattern # None /\ bg.drawn = bg.pattern
  /\ bg.pattern.what = ImageNow

\* The sizes of panels that are as high as wide, so that turning them does not
\* change their size.
Squares ==
  {r.size : r \in {q \in Regions : q.orient = "horizontal"}}
  \cap {r.size : r \in {q \in Regions : q.orient = "vertical"}}

\* An image that fits the panel and does not turn with it is laid out by the
\* orientation, but is not laid out again when only that changes.
KeptFit ==
  /\ bg.type = "image" /\ bg.style = "fit" /\ ~bg.rotate
  /\ bg.region.size \in Squares
  /\ \E o \in Orients : bg.drawn = WantedLook(ImageFor(o))

\* Without a valid image the panel has the look of the theme, but a change of the
\* theme only reaches panels whose type is none.
KeptTheme ==
  /\ bg.type = "image" /\ bg.pattern = None
  /\ bg.drawn = [theme |-> 1 - bg.theme, size |-> bg.region.size]

\* However settings, place, theme and desktop changed, and whatever of the
\* stages was kept, the panel is painted with what making everything again
\* would give, once the last change of the desktop is handled.
PaintedAsWanted ==
  bg.realized /\ bg.transformed /\ ~rootLate =>
    bg.drawn = WantedLook(ImageNow) \/ KeptSize \/ KeptFit \/ KeptTheme

\* The applet was sent the pixmap that the panel is painted with, which is the
\* only one that still exists, and the place of its frame on it; except that
\* nothing is sent when a colour that needs the desktop has none.
ToldIsPainted ==
  bg.transformed /\ told # None =>
    \/ bg.type = "color" /\ bg.alpha /\ bg.pattern = None
    \/ told = Message(bg, frameAt)
=============================================================================
