--------------------------- MODULE PanelLook_proofs ---------------------------
(***************************************************************************)
(* What the panel shows is what making it anew would give, for any images, *)
(* commands, icons, menu files, drives and bookmarks, and however often    *)
(* they change.  One part for each module of PanelLook: its inductive      *)
(* invariant, that each of its steps keeps it, and what it says.           *)
(***************************************************************************)
EXTENDS PanelLook, SequenceLemmas

-----------------------------------------------------------------------------
(* The background: what each stage holds is what the stages before it give.
   The settings, the place and the desktop each undo the stages that follow. *)

Types == {"none", "color", "image"}
Looks == Patterns \cup [colour : Colours] \cup [theme : {0, 1}, size : PanelSizes]
Backgrounds ==
  [type : Types, colour : Colours, image : Images \cup {None},
   loaded : (Images \ BrokenImages) \cup {None}, style : Styles, rotate : BOOLEAN,
   region : Regions \cup {NoRegion}, theme : {0, 1}, alpha : BOOLEAN,
   transformed : BOOLEAN, scaled : ScaledImages \cup {None}, composited : BOOLEAN,
   pattern : Patterns \cup {None}, serial : {0, 1}, desktop : Desktops \cup {None},
   watches : BOOLEAN, realized : BOOLEAN, drawn : Looks \cup {None}, notify : BOOLEAN]
States == [bg : Backgrounds, pix : 1..2 \cup {None}]

Clear(b) ==
  \/ b.type = "color" /\ b.colour = "glass"
  \/ b.type = "image" /\ b.loaded \in ClearImages

\* What no stage changes: the settings and the place of the panel.
SameSettings(b, c) ==
  /\ c.type = b.type /\ c.colour = b.colour /\ c.image = b.image /\ c.style = b.style
  /\ c.rotate = b.rotate /\ c.region = b.region /\ c.theme = b.theme
  /\ c.realized = b.realized

\* The copy of the desktop is that of the desktop and of the place of now.
Watch(d, late) ==
  /\ d.bg.desktop # None =>
       d.bg.watches /\ d.bg.desktop.region = d.bg.region /\ d.bg.desktop.root = d.pix
  /\ ~d.bg.watches => d.pix = None
  /\ d.bg.watches /\ ~late => d.pix = IF root = 0 THEN None ELSE root

\* disconnect_background_monitor: without the copy of the desktop nothing else changes.
LEMMA UnwatchedIs ==
  ASSUME NEW d \in States
  PROVE  /\ Unwatched(d) \in States
         /\ Unwatched(d).bg = [d.bg EXCEPT !.watches = FALSE, !.desktop = None]
         /\ Unwatched(d).pix = None
BY DEF Unwatched, States, Backgrounds

\* Whether it is translucent is decided from the colour and the image that are held.
LEMMA WithAlphaIs ==
  ASSUME NEW d \in States, NEW late, NEW c, c = WithAlpha(d).bg
  PROVE  /\ WithAlpha(d) \in States
         /\ SameSettings(d.bg, c) /\ c.loaded = d.bg.loaded /\ c.alpha = Clear(c)
         /\ c.transformed = d.bg.transformed /\ c.scaled = d.bg.scaled
         /\ c.composited = d.bg.composited /\ c.pattern = d.bg.pattern
         /\ c.serial = d.bg.serial /\ c.drawn = d.bg.drawn /\ c.notify = d.bg.notify
         /\ Watch(d, late) => Watch(WithAlpha(d), late)
<1> DEFINE e == [d EXCEPT !.bg.alpha = Clear(d.bg)]
<1>1. e \in States /\ e.bg = [d.bg EXCEPT !.alpha = Clear(d.bg)] /\ e.pix = d.pix
  <2>1. Clear(d.bg) \in BOOLEAN BY DEF Clear
  <2>2. d.bg \in Backgrounds /\ d.pix \in 1..2 \cup {None} BY DEF States
  <2>3. [d.bg EXCEPT !.alpha = Clear(d.bg)] \in Backgrounds BY <2>1, <2>2 DEF Backgrounds
  <2> QED BY <2>3 DEF States
<1>2. WithAlpha(d) = IF Clear(d.bg) THEN e ELSE Unwatched(e) BY DEF WithAlpha, Clear
<1> HIDE DEF e
<1>3. WithAlpha(d) \in States BY <1>1, <1>2, UnwatchedIs
<1>4. \/ c = e.bg /\ WithAlpha(d).pix = d.pix
      \/ c = [e.bg EXCEPT !.watches = FALSE, !.desktop = None] /\ WithAlpha(d).pix = None
  BY <1>1, <1>2, UnwatchedIs
<1>5. /\ SameSettings(d.bg, c) /\ c.loaded = d.bg.loaded /\ c.alpha = Clear(d.bg)
      /\ c.transformed = d.bg.transformed /\ c.scaled = d.bg.scaled
      /\ c.composited = d.bg.composited /\ c.pattern = d.bg.pattern
      /\ c.serial = d.bg.serial /\ c.drawn = d.bg.drawn /\ c.notify = d.bg.notify
  <2>1. d.bg \in Backgrounds /\ e.bg \in Backgrounds BY <1>1 DEF States
  <2>2. /\ SameSettings(d.bg, e.bg) /\ e.bg.loaded = d.bg.loaded /\ e.bg.alpha = Clear(d.bg)
        /\ e.bg.transformed = d.bg.transformed /\ e.bg.scaled = d.bg.scaled
        /\ e.bg.composited = d.bg.composited /\ e.bg.pattern = d.bg.pattern
        /\ e.bg.serial = d.bg.serial /\ e.bg.drawn = d.bg.drawn /\ e.bg.notify = d.bg.notify
    BY <1>1, <2>1 DEF SameSettings, Backgrounds
  <2>3. CASE c = e.bg BY <2>2, <2>3
  <2>4. CASE c = [e.bg EXCEPT !.watches = FALSE, !.desktop = None]
    <3>1. /\ SameSettings(e.bg, c) /\ c.loaded = e.bg.loaded /\ c.alpha = e.bg.alpha
          /\ c.transformed = e.bg.transformed /\ c.scaled = e.bg.scaled
          /\ c.composited = e.bg.composited /\ c.pattern = e.bg.pattern
          /\ c.serial = e.bg.serial /\ c.drawn = e.bg.drawn /\ c.notify = e.bg.notify
      BY <2>1, <2>4 DEF SameSettings, Backgrounds
    <3> QED BY <2>2, <3>1 DEF SameSettings
  <2> QED BY <1>4, <2>3, <2>4
<1>6. Clear(c) = Clear(d.bg) BY <1>5 DEF Clear, SameSettings
<1>7. \/ c.desktop = d.bg.desktop /\ c.watches = d.bg.watches /\ WithAlpha(d).pix = d.pix
      \/ c.desktop = None /\ c.watches = FALSE /\ WithAlpha(d).pix = None
  BY <1>1, <1>4 DEF States, Backgrounds
<1>8. Watch(d, late) => Watch(WithAlpha(d), late) BY <1>5, <1>7 DEF Watch, SameSettings
<1> QED BY <1>3, <1>5, <1>6, <1>8

\* What the image of the settings is once it is loaded.
LoadedNow(b) == IF b.image \in Images \ BrokenImages THEN b.image ELSE None

\* Loading holds the image that the settings name, or none when the file is broken.
LEMMA LoadedIs ==
  ASSUME BgAssumption, NEW d \in States, NEW late, NEW c, c = BgLoaded(d).bg,
         d.bg.image = None => d.bg.loaded = None, d.bg.alpha = Clear(d.bg)
  PROVE  /\ BgLoaded(d) \in States
         /\ SameSettings(d.bg, c) /\ c.loaded = LoadedNow(c) /\ c.alpha = Clear(c)
         /\ c.transformed = d.bg.transformed /\ c.scaled = d.bg.scaled
         /\ c.composited = d.bg.composited /\ c.pattern = d.bg.pattern
         /\ c.serial = d.bg.serial /\ c.drawn = d.bg.drawn /\ c.notify = d.bg.notify
         /\ Watch(d, late) => Watch(BgLoaded(d), late)
<1>1. CASE d.bg.image = None
  <2>1. BgLoaded(d) = d BY <1>1 DEF BgLoaded
  <2>2. None \notin Images BY DEF BgAssumption
  <2> QED BY <1>1, <2>1, <2>2 DEF LoadedNow, SameSettings
<1>2. CASE d.bg.image # None
  <2> DEFINE i == IF d.bg.image \in BrokenImages THEN None ELSE d.bg.image
             e == [d EXCEPT !.bg.loaded = i]
  <2>1. d.bg \in Backgrounds /\ d.pix \in 1..2 \cup {None} BY DEF States
  <2>2. i \in (Images \ BrokenImages) \cup {None} /\ i = LoadedNow(d.bg)
    BY <1>2, <2>1 DEF Backgrounds, LoadedNow
  <2> HIDE DEF i
  <2>3. [d.bg EXCEPT !.loaded = i] \in Backgrounds BY <2>1, <2>2 DEF Backgrounds
  <2>4. e \in States /\ e.bg = [d.bg EXCEPT !.loaded = i] /\ e.pix = d.pix
    BY <2>3 DEF States
  <2>5. BgLoaded(d) = WithAlpha(e) BY <1>2 DEF BgLoaded, i
  <2> HIDE DEF e
  <2>6. /\ SameSettings(d.bg, e.bg) /\ e.bg.loaded = i /\ e.bg.transformed = d.bg.transformed
        /\ e.bg.scaled = d.bg.scaled /\ e.bg.composited = d.bg.composited
        /\ e.bg.pattern = d.bg.pattern /\ e.bg.serial = d.bg.serial /\ e.bg.drawn = d.bg.drawn
        /\ e.bg.notify = d.bg.notify /\ e.bg.watches = d.bg.watches
        /\ e.bg.desktop = d.bg.desktop
    BY <2>1, <2>4 DEF SameSettings, Backgrounds
  <2>7. Watch(d, late) => Watch(e, late) BY <2>4, <2>6 DEF Watch, SameSettings
  <2>8. /\ WithAlpha(e) \in States
        /\ SameSettings(e.bg, c) /\ c.loaded = e.bg.loaded /\ c.alpha = Clear(c)
        /\ c.transformed = e.bg.transformed /\ c.scaled = e.bg.scaled
        /\ c.composited = e.bg.composited /\ c.pattern = e.bg.pattern
        /\ c.serial = e.bg.serial /\ c.drawn = e.bg.drawn /\ c.notify = e.bg.notify
        /\ Watch(e, late) => Watch(WithAlpha(e), late)
    BY <2>4, <2>5, WithAlphaIs
  <2>9. SameSettings(d.bg, c) BY <2>6, <2>8 DEF SameSettings
  <2>10. c.loaded = LoadedNow(c) BY <2>2, <2>6, <2>8, <2>9 DEF LoadedNow, SameSettings
  <2> QED BY <2>5, <2>6, <2>7, <2>8, <2>9, <2>10
<1> QED BY <1>1, <1>2

\* Freeing undoes every stage after the image file, and keeps the watch on the desktop.
LEMMA FreedIs ==
  ASSUME NEW d \in States, NEW late, NEW c, c = Freed(d).bg
  PROVE  /\ Freed(d) \in States /\ Freed(d).pix = d.pix
         /\ SameSettings(d.bg, c) /\ c.loaded = d.bg.loaded /\ c.alpha = d.bg.alpha
         /\ c.transformed = FALSE /\ c.composited = FALSE /\ c.pattern = None
         /\ d.bg.type = "image" => c.scaled = None
         /\ c.serial = d.bg.serial /\ c.drawn = d.bg.drawn /\ c.notify = d.bg.notify
         /\ c.watches = d.bg.watches /\ c.desktop = d.bg.desktop
         /\ Watch(d, late) => Watch(Freed(d), late)
<1> DEFINE s == IF d.bg.type = "image" THEN None ELSE d.bg.scaled
           f == [d.bg EXCEPT !.composited = FALSE, !.pattern = None, !.transformed = FALSE,
                             !.scaled = s]
<1>1. d.bg \in Backgrounds BY DEF States
<1>2. s \in ScaledImages \cup {None} BY <1>1 DEF Backgrounds
<1>3. Freed(d).bg = f /\ Freed(d).pix = d.pix BY DEF Freed, States
<1> HIDE DEF s
<1>4. f \in Backgrounds BY <1>1, <1>2 DEF Backgrounds
<1>5. Freed(d) \in States BY <1>3, <1>4 DEF Freed, States, s
<1>6. /\ SameSettings(d.bg, f) /\ f.loaded = d.bg.loaded /\ f.alpha = d.bg.alpha
      /\ f.transformed = FALSE /\ f.composited = FALSE /\ f.pattern = None
      /\ f.scaled = s /\ f.serial = d.bg.serial /\ f.drawn = d.bg.drawn
      /\ f.notify = d.bg.notify /\ f.watches = d.bg.watches /\ f.desktop = d.bg.desktop
  BY <1>1 DEF SameSettings, Backgrounds
<1> HIDE DEF f
<1>7. Watch(d, late) => Watch(Freed(d), late) BY <1>3, <1>6 DEF Watch, SameSettings
<1> QED BY <1>3, <1>5, <1>6, <1>7 DEF s

\* What the stages before the desktop leave as they are.
SameStages(b, c) ==
  /\ SameSettings(b, c) /\ c.loaded = b.loaded /\ c.alpha = b.alpha
  /\ c.transformed = b.transformed /\ c.scaled = b.scaled

\* What is behind the panel is the desktop of now, and of the place of now.
LEMMA BehindIs ==
  ASSUME BgAssumption, root \in 0..2, NEW d \in States, NEW late, NEW c, c = Behind(d).bg,
         \/ Watch(d, late)
         \/ d.bg.desktop = None /\ d.pix = None
  PROVE  /\ Behind(d) \in States
         /\ SameStages(d.bg, c) /\ c.serial = d.bg.serial
         /\ c.watches /\ (c.desktop = None <=> Behind(d).pix = None)
         /\ Watch(Behind(d), late)
<1> DEFINE pix == IF d.pix # None \/ root = 0 THEN d.pix ELSE root
           desktop == IF pix = None THEN None ELSE [root |-> pix, region |-> d.bg.region]
           f == [d.bg EXCEPT !.watches = TRUE, !.desktop = desktop]
<1>1. d.bg \in Backgrounds /\ d.pix \in 1..2 \cup {None} BY DEF States
<1>2. None \notin 1..2 /\ None \notin Desktops BY DEF BgAssumption
<1>3. pix \in 1..2 \cup {None} BY <1>1
<1>4. CASE d.bg.desktop # None
  <2>1. Behind(d) = d BY <1>4 DEF Behind
  <2>2. d.bg.desktop \in Desktops BY <1>1, <1>4 DEF Backgrounds
  <2>3. d.bg.desktop.root \in 1..2 BY <2>2 DEF Desktops
  <2>4. Watch(d, late) BY <1>4
  <2>5. d.bg.watches /\ d.pix # None BY <1>2, <1>4, <2>3, <2>4 DEF Watch
  <2> QED BY <1>4, <2>1, <2>4, <2>5 DEF SameStages, SameSettings
<1>5. CASE d.bg.desktop = None
  <2>1. Behind(d).bg = f /\ Behind(d).pix = pix BY <1>5 DEF Behind
  <2>2. d.bg.region \in Regions \cup {NoRegion} BY <1>1 DEF Backgrounds
  <2>3. desktop \in Desktops \cup {None} BY <1>3, <2>2 DEF Desktops
  <2>4. desktop # None => desktop.root = pix /\ desktop.region = d.bg.region OBVIOUS
  <2>5. desktop = None <=> pix = None BY <1>2, <1>3, <2>2 DEF Desktops
  <2>6. Behind(d) = [bg |-> f, pix |-> pix] BY <1>5 DEF Behind
  <2>7. ~late => pix = IF root = 0 THEN None ELSE root
    BY <1>1, <1>2, <1>5 DEF Watch
  <2> HIDE DEF desktop, pix
  <2>8. f \in Backgrounds BY <1>1, <2>3 DEF Backgrounds
  <2>9. Behind(d) \in States BY <1>3, <2>6, <2>8 DEF States
  <2>10. /\ SameStages(d.bg, f) /\ f.serial = d.bg.serial
         /\ f.watches /\ f.desktop = desktop
    BY <1>1 DEF SameStages, SameSettings, Backgrounds
  <2> HIDE DEF f
  <2>11. Watch(Behind(d), late) BY <2>1, <2>4, <2>7, <2>10 DEF Watch, SameStages, SameSettings
  <2> QED BY <2>1, <2>5, <2>9, <2>10, <2>11
<1> QED BY <1>4, <1>5

-----------------------------------------------------------------------------
\* The stages that are left: laying over the desktop, and painting.

\* What is laid over the desktop, if anything is.
Lays(b) == (b.type = "color" /\ b.alpha) \/ (b.type = "image" /\ b.scaled # None)
LaidOver(b) == IF b.type = "color" THEN b.colour ELSE b.scaled

\* The pattern is of the desktop of now, or does not depend on it.
PatternFits(d) ==
  LET b == d.bg IN
  IF Lays(b)
  THEN /\ b.watches
       /\ d.pix = None => b.pattern = None
       /\ d.pix # None =>
            /\ b.pattern # None /\ b.pattern.what = LaidOver(b)
            /\ b.pattern.over = IF b.alpha THEN b.desktop ELSE None
            /\ b.alpha => b.desktop # None
            /\ \/ b.pattern.size = b.region.size
               \/ b.type = "image" /\ ~b.alpha /\ b.style = "none"
  ELSE b.pattern = None

\* What is painted is a look.
LEMMA PaintedTyped == ASSUME NEW b \in Backgrounds PROVE Painted(b) \in Looks \cup {None}
<1>1. /\ b.theme \in {0, 1} /\ b.colour \in Colours /\ b.pattern \in Patterns \cup {None}
      /\ b.region \in Regions \cup {NoRegion}
  BY DEF Backgrounds
<1>2. b.region.size \in PanelSizes BY <1>1 DEF PanelSizes
<1>3. [theme |-> b.theme, size |-> b.region.size] \in Looks BY <1>1, <1>2 DEF Looks
<1>4. [colour |-> b.colour] \in Looks BY <1>1 DEF Looks
<1>5. b.pattern \in Looks \cup {None} BY <1>1 DEF Looks
<1>6. Painted(b) \in {[theme |-> b.theme, size |-> b.region.size], [colour |-> b.colour], b.pattern}
  BY DEF Painted
<1> QED BY <1>3, <1>4, <1>5, <1>6

\* Preparing paints what the stages give, and leaves the stages alone.
LEMMA PreparedIs ==
  ASSUME NEW d \in States, NEW late, NEW c, c = Prepared(d).bg, d.bg.transformed
  PROVE  /\ Prepared(d) \in States /\ Prepared(d).pix = d.pix
         /\ SameSettings(d.bg, c) /\ c.loaded = d.bg.loaded /\ c.alpha = d.bg.alpha
         /\ c.transformed /\ c.composited = d.bg.composited
         /\ c.pattern = d.bg.pattern /\ c.scaled = d.bg.scaled /\ c.serial = d.bg.serial
         /\ c.watches = d.bg.watches /\ c.desktop = d.bg.desktop
         /\ c.notify /\ c.drawn = Painted(c)
         /\ Watch(d, late) => Watch(Prepared(d), late)
         /\ PatternFits(d) => PatternFits(Prepared(d))
<1> DEFINE f == [d.bg EXCEPT !.drawn = Painted(d.bg), !.notify = TRUE]
<1>1. d.bg \in Backgrounds BY DEF States
<1>2. Painted(d.bg) \in Looks \cup {None} BY <1>1, PaintedTyped
<1>3. Prepared(d).bg = f /\ Prepared(d).pix = d.pix BY DEF Prepared, States
<1>4. f \in Backgrounds BY <1>1, <1>2 DEF Backgrounds
<1>5. Prepared(d) \in States BY <1>3, <1>4 DEF Prepared, States
<1>6. /\ SameSettings(d.bg, f) /\ f.loaded = d.bg.loaded /\ f.alpha = d.bg.alpha
      /\ f.transformed = d.bg.transformed /\ f.composited = d.bg.composited
      /\ f.pattern = d.bg.pattern /\ f.scaled = d.bg.scaled /\ f.serial = d.bg.serial
      /\ f.watches = d.bg.watches /\ f.desktop = d.bg.desktop
      /\ f.notify /\ f.drawn = Painted(d.bg)
  BY <1>1 DEF SameSettings, Backgrounds
<1> HIDE DEF f
<1>7. Painted(f) = Painted(d.bg) BY <1>6 DEF Painted, Effective, SameSettings
<1>8. Watch(d, late) => Watch(Prepared(d), late) BY <1>3, <1>6 DEF Watch, SameSettings
<1>9. PatternFits(d) => PatternFits(Prepared(d))
  BY <1>3, <1>6 DEF PatternFits, Lays, LaidOver, SameSettings
<1> QED BY <1>3, <1>5, <1>6, <1>7, <1>8, <1>9

\* A pattern is there when a copy of the desktop is, and is of the size of its region.
LEMMA PatternIs ==
  ASSUME BgAssumption, NEW b \in Backgrounds, NEW what \in Colours \cup ScaledImages
  PROVE  /\ Pattern(b, what) \in Patterns \cup {None}
         /\ b.desktop = None => Pattern(b, what) = None
         /\ b.desktop # None =>
              /\ Pattern(b, what) # None /\ Pattern(b, what).what = what
              /\ Pattern(b, what).size = b.desktop.region.size
              /\ Pattern(b, what).over = IF b.alpha THEN b.desktop ELSE None
<1>1. b.desktop \in Desktops \cup {None} BY DEF Backgrounds
<1>2. CASE b.desktop = None BY <1>2 DEF Pattern
<1>3. CASE b.desktop # None
  <2>1. b.desktop.region \in Regions \cup {NoRegion} BY <1>1, <1>3 DEF Desktops
  <2>2. b.desktop.region.size \in PanelSizes BY <2>1 DEF PanelSizes
  <2> DEFINE over == IF b.alpha THEN b.desktop ELSE None
  <2>3. over \in Desktops \cup {None} BY <1>1
  <2>4. Pattern(b, what) = [what |-> what, size |-> b.desktop.region.size, over |-> over]
    BY <1>3 DEF Pattern
  <2> HIDE DEF over
  <2>5. Pattern(b, what) \in Patterns BY <2>2, <2>3, <2>4 DEF Patterns
  <2>6. Pattern(b, what) # None BY <2>5 DEF BgAssumption
  <2> QED BY <1>3, <2>4, <2>5, <2>6 DEF over
<1> QED BY <1>2, <1>3

\* The pattern that is made anew fits.
LEMMA CompositedIs ==
  ASSUME BgAssumption, root \in 0..2, NEW d \in States, NEW late, NEW c, c = Composited(d).bg,
         \/ Watch(d, late)
         \/ d.bg.desktop = None /\ d.pix = None,
         d.bg.transformed
  PROVE  /\ Composited(d) \in States
         /\ SameStages(d.bg, c) /\ c.serial = 1 - d.bg.serial
         /\ c.composited /\ c.notify /\ c.drawn = Painted(c)
         /\ Lays(d.bg) \/ Watch(d, late) => Watch(Composited(d), late)
         /\ PatternFits(Composited(d))
<1> DEFINE w == Lays(d.bg)
           e == IF w THEN Behind(d) ELSE d
           p == IF w THEN Pattern(e.bg, LaidOver(d.bg)) ELSE None
           m == [e EXCEPT !.bg.pattern = p]
           f == [m EXCEPT !.bg = [m.bg EXCEPT !.composited = TRUE, !.serial = 1 - @]]
<1>1. Composited(d) = Prepared(f)
  <2>1. CASE d.bg.type = "color" /\ d.bg.alpha BY <2>1 DEF Composited, Lays, LaidOver
  <2>2. CASE d.bg.type = "image" /\ d.bg.scaled # None BY <2>2 DEF Composited, Lays, LaidOver
  <2>3. CASE ~w BY <2>3 DEF Composited, Lays, LaidOver
  <2> QED BY <2>1, <2>2, <2>3 DEF Lays
<1>2. /\ e \in States /\ SameStages(d.bg, e.bg) /\ e.bg.serial = d.bg.serial
      /\ w => e.bg.watches /\ (e.bg.desktop = None <=> e.pix = None)
      /\ w \/ Watch(d, late) => Watch(e, late)
  <2>1. CASE w
    <3>1. e = Behind(d) BY <2>1
    <3>2. PICK k : k = Behind(d).bg OBVIOUS
    <3>3. /\ Behind(d) \in States
          /\ SameStages(d.bg, k) /\ k.serial = d.bg.serial
          /\ k.watches /\ (k.desktop = None <=> Behind(d).pix = None)
          /\ Watch(Behind(d), late)
      BY <3>2, BehindIs
    <3> QED BY <2>1, <3>1, <3>2, <3>3
  <2>2. CASE ~w BY <2>2 DEF SameStages, SameSettings
  <2> QED BY <2>1, <2>2
<1>3. /\ p \in Patterns \cup {None}
      /\ w /\ e.bg.desktop = None => p = None
      /\ w /\ e.bg.desktop # None =>
           /\ p # None /\ p.what = LaidOver(d.bg) /\ p.size = e.bg.desktop.region.size
           /\ p.over = IF e.bg.alpha THEN e.bg.desktop ELSE None
  <2>1. e.bg \in Backgrounds /\ d.bg \in Backgrounds BY <1>2 DEF States
  <2>2. w => LaidOver(d.bg) \in Colours \cup ScaledImages
    BY <2>1 DEF LaidOver, Lays, Backgrounds
  <2> HIDE DEF e
  <2> QED BY <2>1, <2>2, PatternIs
<1>4. e.bg \in Backgrounds /\ e.pix \in 1..2 \cup {None} BY <1>2 DEF States
<1> DEFINE g == [e.bg EXCEPT !.pattern = p, !.composited = TRUE, !.serial = 1 - @]
<1>5. f.bg = g /\ f.pix = e.pix /\ f = [bg |-> g, pix |-> e.pix]
  <2> HIDE DEF e, p
  <2>1. m.bg = [e.bg EXCEPT !.pattern = p] /\ m.pix = e.pix
    BY <1>2 DEF States
  <2>7. m = [bg |-> m.bg, pix |-> m.pix] BY <1>2 DEF States
  <2>2. DOMAIN e.bg = DOMAIN m.bg BY <2>1
  <2> HIDE DEF m
  <2>3. PICK x, y : m = [bg |-> x, pix |-> y] BY <2>7
  <2>4. f = [bg |-> [m.bg EXCEPT !.composited = TRUE, !.serial = 1 - @], pix |-> m.pix]
    BY <2>3
  <2>5. [m.bg EXCEPT !.composited = TRUE, !.serial = 1 - @] = g
    BY <2>1, <1>4 DEF Backgrounds
  <2> QED BY <2>1, <2>4, <2>5
<1> HIDE DEF e, p, f, m
<1>6. 1 - e.bg.serial \in {0, 1} BY <1>4 DEF Backgrounds
<1>7. g \in Backgrounds
  <2> DEFINE s == 1 - e.bg.serial
             h == [e.bg EXCEPT !.pattern = p]
  <2>1. g = [h EXCEPT !.composited = TRUE, !.serial = s] BY <1>4 DEF Backgrounds
  <2>2. s \in {0, 1} BY <1>6
  <2>3. p \in Patterns \cup {None} BY <1>3
  <2> HIDE DEF s, g
  <2>4. h \in Backgrounds BY <1>4, <2>3 DEF Backgrounds
  <2> HIDE DEF h
  <2> QED BY <2>1, <2>2, <2>4 DEF Backgrounds
<1>8. f \in States BY <1>4, <1>5, <1>7 DEF States
<1>9. /\ SameStages(e.bg, g) /\ g.serial = 1 - e.bg.serial /\ g.composited
      /\ g.pattern = p /\ g.watches = e.bg.watches /\ g.desktop = e.bg.desktop
  BY <1>4 DEF SameStages, SameSettings, Backgrounds
<1> HIDE DEF g
<1>10. SameStages(d.bg, g) BY <1>2, <1>9 DEF SameStages, SameSettings
<1>11. Watch(e, late) => Watch(f, late)
  BY <1>5, <1>9 DEF Watch, SameStages, SameSettings
<1>12. PatternFits(f)
  <2>1. Lays(g) = w /\ LaidOver(g) = LaidOver(d.bg)
    BY <1>10 DEF Lays, LaidOver, SameStages, SameSettings
  <2>2. CASE w
    <3>1. Watch(e, late) BY <1>2, <2>2
    <3>2. e.bg.desktop # None => e.bg.desktop.region = g.region
      BY <3>1, <1>9 DEF Watch, SameStages, SameSettings
    <3>3. g.alpha = e.bg.alpha BY <1>9 DEF SameStages
    <3>4. g.watches /\ f.bg = g /\ f.pix = e.pix /\ g.pattern = p BY <1>2, <1>5, <1>9, <2>2
    <3>5. CASE e.pix = None
      <4>1. p = None BY <1>2, <1>3, <2>2, <3>5
      <4> HIDE DEF w
      <4> QED BY <2>1, <2>2, <3>4, <3>5, <4>1 DEF PatternFits
    <3>6. CASE e.pix # None
      <4>1. e.bg.desktop # None /\ g.desktop = e.bg.desktop BY <1>2, <1>9, <2>2, <3>6
      <4>2. /\ p # None /\ p.what = LaidOver(g) /\ p.size = g.region.size
            /\ p.over = IF g.alpha THEN g.desktop ELSE None
        BY <1>3, <2>1, <2>2, <3>2, <3>3, <4>1
      <4> HIDE DEF w
      <4> QED BY <2>1, <2>2, <3>4, <3>6, <4>1, <4>2 DEF PatternFits
    <3> QED BY <3>5, <3>6
  <2>3. CASE ~w
    <3>1. p = None BY <2>3 DEF p
    <3> HIDE DEF w
    <3> QED BY <1>5, <1>9, <2>1, <2>3, <3>1 DEF PatternFits
  <2> QED BY <2>2, <2>3
<1>13. f.bg.transformed BY <1>5, <1>10 DEF SameStages
<1>14. /\ Prepared(f) \in States /\ SameSettings(g, c)
       /\ c.loaded = g.loaded /\ c.alpha = g.alpha
       /\ c.transformed /\ c.composited = g.composited
       /\ c.scaled = g.scaled /\ c.serial = g.serial
       /\ c.notify /\ c.drawn = Painted(c)
       /\ Watch(f, late) => Watch(Prepared(f), late)
       /\ PatternFits(f) => PatternFits(Prepared(f))
  BY <1>1, <1>5, <1>8, <1>13, PreparedIs
<1>15. SameStages(d.bg, c)
  BY <1>10, <1>13, <1>14, <1>5 DEF SameStages, SameSettings
<1>16. c.serial = 1 - d.bg.serial /\ c.composited BY <1>2, <1>9, <1>14
<1> QED BY <1>1, <1>2, <1>11, <1>12, <1>14, <1>15, <1>16

\* The image of the settings, scaled and turned for the panel of b turned as o.
ShapeFor(b, o) ==
  [image  |-> b.loaded,
   turned |-> b.rotate /\ o = "vertical",
   for    |-> CASE b.style = "none"    -> <<>>
                [] b.style = "stretch" -> <<b.region.size>>
                [] b.style = "fit"     -> <<b.region.size, o>>]

\* The image is loaded, and scaled for the panel as it is; or as it was before it
\* turned, where turning is not noticed.
ScaledFits(b) ==
  b.type = "image" =>
    /\ b.loaded = LoadedNow(b)
    /\ b.loaded = None => b.scaled = None
    /\ b.loaded # None =>
         \/ b.scaled = ShapeFor(b, b.region.orient)
         \/ /\ b.style = "fit" /\ ~b.rotate /\ b.region.size \in Squares
            /\ \E o \in Orients : b.scaled = ShapeFor(b, o)

\* A loaded image has a shape for either orientation of the panel.
LEMMA ShapeTyped ==
  ASSUME BgAssumption, NEW b \in Backgrounds, NEW o \in Orients, b.loaded # None
  PROVE  ShapeFor(b, o) \in ScaledImages /\ ShapeFor(b, o) # None
<1>1. b.loaded \in Images /\ b.rotate \in BOOLEAN /\ b.style \in Styles
      /\ b.region \in Regions \cup {NoRegion}
  BY DEF Backgrounds
<1>2. b.region.size \in PanelSizes BY <1>1 DEF PanelSizes
<1> DEFINE f == CASE b.style = "none"    -> <<>>
                  [] b.style = "stretch" -> <<b.region.size>>
                  [] b.style = "fit"     -> <<b.region.size, o>>
<1>3. f \in {<<>>} \cup {<<s>> : s \in PanelSizes} \cup (PanelSizes \X Orients)
  <2>1. CASE b.style = "none" BY <2>1
  <2>2. CASE b.style = "stretch" BY <1>2, <2>2
  <2>3. CASE b.style = "fit" BY <1>2, <2>3
  <2> QED BY <1>1, <2>1, <2>2, <2>3 DEF Styles
<1>4. ShapeFor(b, o) = [image |-> b.loaded, turned |-> b.rotate /\ o = "vertical", for |-> f]
  BY DEF ShapeFor
<1>5. (b.rotate /\ o = "vertical") \in BOOLEAN OBVIOUS
<1> HIDE DEF f
<1>6. ShapeFor(b, o) \in ScaledImages BY <1>1, <1>3, <1>4, <1>5 DEF ScaledImages
<1> QED BY <1>6 DEF BgAssumption

\* Scaling gives the shape for the orientation that the panel has.
LEMMA ScaledIs ==
  ASSUME BgAssumption, NEW b \in Backgrounds, b.loaded # None
  PROVE  Scaled(b) = ShapeFor(b, b.region.orient) /\ Scaled(b) \in ScaledImages
<1>1. b.region \in Regions \cup {NoRegion} BY DEF Backgrounds
<1>2. b.region.orient \in Orients BY <1>1 DEF BgAssumption, NoRegion, Orients
<1>3. Scaled(b) = ShapeFor(b, b.region.orient) BY DEF Scaled, ShapeFor
<1> QED BY <1>2, <1>3, ShapeTyped

\* The shape depends on the settings and on the image alone.
LEMMA ShapeSame ==
  ASSUME NEW b, NEW c, SameSettings(b, c), c.loaded = b.loaded, NEW o
  PROVE  ShapeFor(c, o) = ShapeFor(b, o)
BY DEF ShapeFor, SameSettings

\* A scaled image that fits still does after a step that keeps settings and image.
LEMMA ScaledFitsSame ==
  ASSUME NEW b, NEW c, SameSettings(b, c), c.loaded = b.loaded, c.scaled = b.scaled
  PROVE  ScaledFits(b) => ScaledFits(c)
<1>1. \A o : ShapeFor(c, o) = ShapeFor(b, o) BY ShapeSame
<1>2. LoadedNow(c) = LoadedNow(b) BY DEF LoadedNow, SameSettings
<1> QED BY <1>1, <1>2 DEF ScaledFits, SameSettings

\* Everything is made anew, from the image file on.
LEMMA TransformedIs ==
  ASSUME BgAssumption, root \in 0..2, NEW d \in States, NEW late, NEW c, c = Transformed(d).bg,
         Watch(d, late), d.bg.region # NoRegion,
         d.bg.image = None => d.bg.loaded = None, d.bg.alpha = Clear(d.bg)
  PROVE  /\ Transformed(d) \in States
         /\ SameSettings(d.bg, c) /\ c.alpha = Clear(c)
         /\ c.transformed /\ c.composited /\ c.notify /\ c.drawn = Painted(c)
         /\ c.image = None => c.loaded = None
         /\ Watch(Transformed(d), late) /\ PatternFits(Transformed(d)) /\ ScaledFits(c)
<1> DEFINE f == Freed(d)
           e == IF f.bg.type = "image" THEN BgLoaded(f) ELSE f
           s == IF e.bg.type = "image" /\ e.bg.loaded # None THEN Scaled(e.bg) ELSE e.bg.scaled
           g == [e.bg EXCEPT !.scaled = s, !.transformed = TRUE]
           h == [e EXCEPT !.bg.scaled = s, !.bg.transformed = TRUE]
<1>1. Transformed(d) = Composited(h) BY DEF Transformed
<1>2. PICK x : x = f.bg OBVIOUS
<1>3. /\ f \in States /\ SameSettings(d.bg, x) /\ x.loaded = d.bg.loaded
      /\ x.alpha = d.bg.alpha
      /\ d.bg.type = "image" => x.scaled = None
      /\ Watch(f, late)
  <2> HIDE DEF e, s, g, h
  <2>1. x = Freed(d).bg /\ f = Freed(d) BY <1>2
  <2> HIDE DEF f
  <2>2. f \in States BY <2>1, FreedIs
  <2>3. SameSettings(d.bg, x) BY <2>1, FreedIs
  <2>4. x.loaded = d.bg.loaded BY <2>1, FreedIs
  <2>5. x.alpha = d.bg.alpha BY <2>1, FreedIs
  <2>6. d.bg.type = "image" => x.scaled = None BY <2>1, FreedIs
  <2>7. Watch(f, late) BY <2>1, FreedIs
  <2> QED BY <2>2, <2>3, <2>4, <2>5, <2>6, <2>7
<1>4. x.alpha = Clear(x) /\ (x.image = None => x.loaded = None)
  BY <1>3 DEF Clear, SameSettings
<1> HIDE DEF f
<1>5. /\ e \in States /\ SameSettings(x, e.bg) /\ e.bg.alpha = Clear(e.bg)
      /\ e.bg.scaled = x.scaled /\ Watch(e, late)
      /\ e.bg.image = None => e.bg.loaded = None
      /\ e.bg.type = "image" => e.bg.loaded = LoadedNow(e.bg)
  <2>1. CASE x.type # "image"
    <3>1. e = f BY <1>2, <2>1
    <3> QED BY <1>2, <1>3, <1>4, <2>1, <3>1 DEF SameSettings
  <2>2. CASE x.type = "image"
    <3>1. e = BgLoaded(f) BY <1>2, <2>2
    <3>2. PICK y : y = BgLoaded(f).bg OBVIOUS
    <3>3. /\ BgLoaded(f) \in States
          /\ SameSettings(x, y) /\ y.loaded = LoadedNow(y) /\ y.alpha = Clear(y)
          /\ y.scaled = x.scaled
          /\ Watch(BgLoaded(f), late)
      <4> HIDE DEF e, s, g, h
      <4> QED BY <1>2, <1>3, <1>4, <3>2, LoadedIs
    <3>4. y.image = None => y.loaded = None BY <3>3 DEF LoadedNow
    <3> QED BY <3>1, <3>2, <3>3, <3>4
  <2> QED BY <2>1, <2>2
<1>6. SameSettings(d.bg, e.bg) BY <1>3, <1>5 DEF SameSettings
<1> HIDE DEF e
<1>7. e.bg \in Backgrounds /\ e.pix \in 1..2 \cup {None} BY <1>5 DEF States
<1>8. s \in ScaledImages \cup {None}
  <2>1. e.bg.scaled \in ScaledImages \cup {None} BY <1>7 DEF Backgrounds
  <2> QED BY <1>7, <2>1, ScaledIs
<1>9. h.bg = g /\ h.pix = e.pix BY <1>5 DEF States
<1> HIDE DEF s
<1>10. g \in Backgrounds BY <1>7, <1>8 DEF Backgrounds
<1>11. h \in States BY <1>5, <1>9, <1>10 DEF States
<1>12. /\ SameSettings(e.bg, g) /\ g.loaded = e.bg.loaded /\ g.alpha = e.bg.alpha
       /\ g.transformed /\ g.scaled = s /\ g.watches = e.bg.watches
       /\ g.desktop = e.bg.desktop
  BY <1>7 DEF SameSettings, Backgrounds
<1> HIDE DEF g, h
<1>13. SameSettings(d.bg, g) BY <1>6, <1>12 DEF SameSettings
<1>14. Watch(h, late) BY <1>5, <1>9, <1>12 DEF Watch, SameSettings
<1>15. g.alpha = Clear(g) BY <1>5, <1>12 DEF Clear, SameSettings
<1>16. g.image = None => g.loaded = None BY <1>5, <1>12 DEF SameSettings
<1>17. ScaledFits(g)
  <2> SUFFICES ASSUME g.type = "image" PROVE ScaledFits(g) BY DEF ScaledFits
  <2>1. e.bg.type = "image" /\ d.bg.type = "image" BY <1>6, <1>12 DEF SameSettings
  <2>2. LoadedNow(g) = LoadedNow(e.bg) BY <1>12 DEF LoadedNow, SameSettings
  <2>3. g.loaded = LoadedNow(g) BY <1>5, <1>12, <2>1, <2>2
  <2>4. CASE g.loaded = None
    <3>1. s = e.bg.scaled BY <1>12, <2>4 DEF s
    <3>2. s = None BY <1>3, <1>5, <2>1, <3>1
    <3> QED BY <1>12, <2>3, <2>4, <3>2 DEF ScaledFits
  <2>5. CASE g.loaded # None
    <3>1. s = Scaled(e.bg) BY <1>12, <2>1, <2>5 DEF s
    <3>2. s = ShapeFor(e.bg, e.bg.region.orient) BY <1>7, <1>12, <2>5, <3>1, ScaledIs
    <3>3. g.region = e.bg.region BY <1>12 DEF SameSettings
    <3>4. s = ShapeFor(g, g.region.orient) BY <1>12, <3>2, <3>3, ShapeSame
    <3> QED BY <1>12, <2>3, <2>5, <3>4 DEF ScaledFits
  <2> QED BY <2>4, <2>5
<1>18. /\ Composited(h) \in States
       /\ SameStages(g, c)
       /\ c.composited /\ c.notify /\ c.drawn = Painted(c)
       /\ Watch(Composited(h), late)
       /\ PatternFits(Composited(h))
  <2>1. c = Composited(h).bg BY <1>1
  <2>2. h.bg.transformed BY <1>9, <1>12
  <2>3. SameStages(h.bg, c) BY <1>11, <1>14, <2>1, <2>2, CompositedIs
  <2> QED BY <1>9, <1>11, <1>14, <2>1, <2>2, <2>3, CompositedIs
<1>19. /\ SameSettings(g, c) /\ c.loaded = g.loaded /\ c.alpha = g.alpha
       /\ c.transformed /\ c.scaled = g.scaled
  BY <1>12, <1>18 DEF SameStages
<1>20. SameSettings(d.bg, c) BY <1>13, <1>19 DEF SameSettings
<1>21. c.alpha = Clear(c) BY <1>15, <1>19 DEF Clear, SameSettings
<1>22. ScaledFits(c) BY <1>17, <1>19, ScaledFitsSame
<1>23. c.image = None => c.loaded = None BY <1>16, <1>19 DEF SameSettings
<1> QED BY <1>1, <1>18, <1>19, <1>20, <1>21, <1>22, <1>23

-----------------------------------------------------------------------------
\* The invariant.

\* What is set on the window is what the stages give, or the old look of the theme.
Drawn(b) ==
  \/ b.drawn = Painted(b)
  \/ /\ b.type = "image" /\ b.pattern = None
     /\ b.drawn = [theme |-> 1 - b.theme, size |-> b.region.size]

Sound(d, late) ==
  /\ d \in States
  /\ d.bg.image = None => d.bg.loaded = None
  /\ d.bg.alpha = Clear(d.bg)
  /\ Watch(d, late)
  /\ d.bg.transformed <=> d.bg.region # NoRegion
  /\ d.bg.transformed =>
       d.bg.realized /\ PatternFits(d) /\ ScaledFits(d.bg) /\ Drawn(d.bg)

BgInv ==
  /\ root \in 0..2 /\ rootLate \in BOOLEAN /\ ~bg.notify
  /\ Sound(Here, rootLate)

Told == bg.transformed /\ told # None => told = Message(bg, frameAt)

\* What the stages leave is what the next step finds.
LEMMA LeaveIs ==
  ASSUME BgInv, Told, NEW d, Sound(d, rootLate'), Leave(d), root' = root,
         rootLate' \in BOOLEAN, frameAt' = frameAt,
         \/ d.bg.notify
         \/ ~d.bg.transformed
         \/ bg.transformed /\ Message(d.bg, frameAt) = Message(bg, frameAt)
  PROVE  BgInv' /\ Told'
<1> DEFINE f == [d.bg EXCEPT !.notify = FALSE]
           e == [bg |-> f, pix |-> d.pix]
<1>1. d.bg \in Backgrounds /\ d.pix \in 1..2 \cup {None} BY DEF Sound, States
<1>2. bg' = f /\ Here' = e BY DEF Leave, Here
<1>3. f \in Backgrounds BY <1>1 DEF Backgrounds
<1>4. e \in States BY <1>1, <1>3 DEF States
<1>5. /\ SameStages(d.bg, f) /\ f.pattern = d.bg.pattern /\ f.desktop = d.bg.desktop
      /\ f.watches = d.bg.watches /\ f.drawn = d.bg.drawn /\ f.serial = d.bg.serial
      /\ f.notify = FALSE
  BY <1>1 DEF SameStages, SameSettings, Backgrounds
<1>6. e.bg = f /\ e.pix = d.pix OBVIOUS
<1> HIDE DEF f, e
<1>7. Sound(e, rootLate')
  <2>1. /\ f.image = None => f.loaded = None
        /\ f.alpha = Clear(f)
        /\ f.transformed <=> f.region # NoRegion
        /\ f.transformed => f.realized
    BY <1>5 DEF Sound, Clear, SameStages, SameSettings
  <2>2. Watch(e, rootLate') BY <1>5, <1>6 DEF Sound, Watch, SameStages, SameSettings
  <2>3. f.transformed = d.bg.transformed BY <1>5 DEF SameStages
  <2>4. d.bg.transformed => PatternFits(e)
    BY <1>5, <1>6 DEF Sound, PatternFits, Lays, LaidOver, SameStages, SameSettings
  <2>5. d.bg.transformed => ScaledFits(f)
    BY <1>5, ScaledFitsSame DEF Sound, SameStages
  <2>6. Painted(f) = Painted(d.bg)
    BY <1>5 DEF Painted, Effective, SameStages, SameSettings
  <2>7. d.bg.transformed => Drawn(f)
    BY <1>5, <2>6 DEF Sound, Drawn, SameStages, SameSettings
  <2> QED BY <1>4, <1>6, <2>1, <2>2, <2>3, <2>4, <2>5, <2>7 DEF Sound
<1>8. Sound(Here, rootLate)' BY <1>2, <1>7 DEF Sound, Watch
<1>9. BgInv' BY <1>2, <1>5, <1>8 DEF BgInv
<1>10. Told'
  <2> SUFFICES ASSUME bg'.transformed, told' # None PROVE told' = Message(bg, frameAt)'
    BY DEF Told
  <2>1. d.bg.transformed BY <1>2, <1>5 DEF SameStages
  <2>2. told' = Message(d.bg, frameAt)
    <3>1. CASE d.bg.notify BY <3>1 DEF Leave
    <3>2. CASE ~d.bg.notify BY <2>1, <3>2 DEF Leave, Told
    <3> QED BY <3>1, <3>2
  <2>3. /\ bg'.type = d.bg.type /\ bg'.alpha = d.bg.alpha /\ bg'.colour = d.bg.colour
        /\ bg'.pattern = d.bg.pattern /\ bg'.serial = d.bg.serial
    BY <1>2, <1>5 DEF SameStages, SameSettings
  <2> QED BY <2>2, <2>3 DEF Message, Effective
<1> QED BY <1>9, <1>10

\* A setting was changed: everything is made anew.
LEMMA SettingDone ==
  ASSUME BgAssumption, BgInv, Told, NEW x \in States, Watch(x, rootLate),
         x.bg.image = None => x.bg.loaded = None, x.bg.alpha = Clear(x.bg),
         x.bg.transformed = FALSE, x.bg.region = bg.region, x.bg.realized = bg.realized,
         Leave(Transformed(x)), UNCHANGED <<root, rootLate, frameAt>>
  PROVE  BgInv' /\ Told'
<1> DEFINE d == Transformed(x)
<1>1. root \in 0..2 /\ rootLate \in BOOLEAN BY DEF BgInv
<1>2. CASE bg.region = NoRegion
  <2>1. d = x BY <1>2 DEF Transformed
  <2>2. Sound(x, rootLate') BY <1>2 DEF Sound
  <2> HIDE DEF d
  <2> QED BY <1>1, <2>1, <2>2, LeaveIs DEF d
<1>3. CASE bg.region # NoRegion
  <2>1. PICK c : c = d.bg OBVIOUS
  <2>2. /\ d \in States
        /\ SameSettings(x.bg, c) /\ c.alpha = Clear(c)
        /\ c.transformed /\ c.notify /\ c.drawn = Painted(c)
        /\ c.image = None => c.loaded = None
        /\ Watch(d, rootLate) /\ PatternFits(d) /\ ScaledFits(c)
    <3>1. c = Transformed(x).bg BY <2>1
    <3> QED BY <1>1, <1>3, <3>1, TransformedIs
  <2>3. bg.realized BY <1>3 DEF BgInv, Sound, Here
  <2>4. c.realized /\ c.region # NoRegion BY <1>3, <2>2, <2>3 DEF SameSettings
  <2> HIDE DEF d
  <2>5. Sound(d, rootLate') BY <2>1, <2>2, <2>4 DEF Sound, Drawn
  <2> QED BY <1>1, <2>1, <2>2, <2>5, LeaveIs DEF d
<1> QED BY <1>2, <1>3

\* What every setting starts from, once it has freed the stages.
LEMMA HereFreed ==
  ASSUME BgInv, NEW f, f = Freed(Here)
  PROVE  /\ f \in States /\ f.bg \in Backgrounds /\ f.pix \in 1..2 \cup {None}
         /\ SameSettings(bg, f.bg) /\ f.bg.alpha = Clear(f.bg)
         /\ f.bg.image = None => f.bg.loaded = None
         /\ f.bg.transformed = FALSE /\ f.bg.notify = bg.notify
         /\ Watch(f, rootLate)
<1>1. PICK c : c = f.bg OBVIOUS
<1>2. Here \in States /\ Here.bg = bg /\ Watch(Here, rootLate) BY DEF BgInv, Sound, Here
<1>3. /\ Freed(Here) \in States
      /\ SameSettings(Here.bg, c) /\ c.loaded = Here.bg.loaded /\ c.alpha = Here.bg.alpha
      /\ c.transformed = FALSE /\ c.notify = Here.bg.notify
      /\ Watch(Freed(Here), rootLate)
  BY <1>1, <1>2, FreedIs
<1>4. f.bg \in Backgrounds /\ f.pix \in 1..2 \cup {None} BY <1>3 DEF States
<1>5. f.bg.alpha = Clear(f.bg) /\ (f.bg.image = None => f.bg.loaded = None)
  BY <1>1, <1>2, <1>3 DEF BgInv, Sound, Clear, SameSettings
<1> QED BY <1>1, <1>2, <1>3, <1>4, <1>5

\* A setting that decides whether the background is transparent was changed.
LEMMA AlphaDone ==
  ASSUME BgAssumption, BgInv, Told, NEW y \in States, Watch(y, rootLate),
         y.bg.image = None => y.bg.loaded = None,
         y.bg.transformed = FALSE, y.bg.region = bg.region, y.bg.realized = bg.realized,
         Leave(Transformed(WithAlpha(y))), UNCHANGED <<root, rootLate, frameAt>>
  PROVE  BgInv' /\ Told'
<1>1. PICK x : x = WithAlpha(y) OBVIOUS
<1>2. PICK c : c = x.bg OBVIOUS
<1>3. /\ x \in States
      /\ SameSettings(y.bg, c) /\ c.loaded = y.bg.loaded /\ c.alpha = Clear(c)
      /\ c.transformed = y.bg.transformed
      /\ Watch(x, rootLate)
  <2>1. c = WithAlpha(y).bg BY <1>1, <1>2
  <2> QED BY <1>1, <2>1, WithAlphaIs
<1>4. /\ c.image = None => c.loaded = None
      /\ c.transformed = FALSE /\ c.region = bg.region /\ c.realized = bg.realized
  BY <1>3 DEF SameSettings
<1> QED BY <1>1, <1>2, <1>3, <1>4, SettingDone

\* panel_background_set_type
LEMMA SetTypeKeeps ==
  ASSUME BgAssumption, BgInv, Told, NEW t \in Types, SetType(t)
  PROVE  BgInv' /\ Told'
<1>1. PICK f : f = Freed(Here) OBVIOUS
<1> DEFINE g == [f.bg EXCEPT !.type = t]
           y == [f EXCEPT !.bg.type = t]
<1>2. /\ f \in States /\ f.bg \in Backgrounds /\ f.pix \in 1..2 \cup {None}
      /\ SameSettings(bg, f.bg) /\ f.bg.alpha = Clear(f.bg)
      /\ f.bg.image = None => f.bg.loaded = None
      /\ f.bg.transformed = FALSE /\ Watch(f, rootLate)
  BY <1>1, HereFreed
<1>3. y.bg = g /\ y.pix = f.pix BY <1>2 DEF States
<1>4. g \in Backgrounds BY <1>2 DEF Backgrounds, Types
<1>5. y \in States BY <1>2, <1>3, <1>4 DEF States
<1>6. /\ g.transformed = FALSE /\ g.region = f.bg.region /\ g.realized = f.bg.realized
      /\ g.desktop = f.bg.desktop /\ g.watches = f.bg.watches
      /\ g.image = None => g.loaded = None
  BY <1>2 DEF Backgrounds
<1>8. Leave(Transformed(WithAlpha(y))) /\ UNCHANGED <<root, rootLate, frameAt>>
  BY <1>1 DEF SetType
<1> HIDE DEF g, y
<1>9. Watch(y, rootLate) BY <1>2, <1>3, <1>6 DEF Watch
<1>10. y.bg.region = bg.region /\ y.bg.realized = bg.realized
  BY <1>2, <1>3, <1>6 DEF SameSettings
<1> QED BY <1>3, <1>5, <1>6, <1>8, <1>9, <1>10, AlphaDone

\* panel_background_set_color
LEMMA SetColourKeeps ==
  ASSUME BgAssumption, BgInv, Told, NEW v \in Colours, SetColour(v)
  PROVE  BgInv' /\ Told'
<1>1. PICK f : f = Freed(Here) OBVIOUS
<1> DEFINE g == [f.bg EXCEPT !.colour = v]
           y == [f EXCEPT !.bg.colour = v]
<1>2. /\ f \in States /\ f.bg \in Backgrounds /\ f.pix \in 1..2 \cup {None}
      /\ SameSettings(bg, f.bg) /\ f.bg.alpha = Clear(f.bg)
      /\ f.bg.image = None => f.bg.loaded = None
      /\ f.bg.transformed = FALSE /\ Watch(f, rootLate)
  BY <1>1, HereFreed
<1>3. y.bg = g /\ y.pix = f.pix BY <1>2 DEF States
<1>4. g \in Backgrounds BY <1>2 DEF Backgrounds, Types
<1>5. y \in States BY <1>2, <1>3, <1>4 DEF States
<1>6. /\ g.transformed = FALSE /\ g.region = f.bg.region /\ g.realized = f.bg.realized
      /\ g.desktop = f.bg.desktop /\ g.watches = f.bg.watches
      /\ g.image = None => g.loaded = None
  BY <1>2 DEF Backgrounds
<1>8. Leave(Transformed(WithAlpha(y))) /\ UNCHANGED <<root, rootLate, frameAt>>
  BY <1>1 DEF SetColour
<1> HIDE DEF g, y
<1>9. Watch(y, rootLate) BY <1>2, <1>3, <1>6 DEF Watch
<1>10. y.bg.region = bg.region /\ y.bg.realized = bg.realized
  BY <1>2, <1>3, <1>6 DEF SameSettings
<1> QED BY <1>3, <1>5, <1>6, <1>8, <1>9, <1>10, AlphaDone

\* panel_background_set_image_uri
LEMMA SetImageKeeps ==
  ASSUME BgAssumption, BgInv, Told, NEW i \in Images \cup {None}, SetImage(i)
  PROVE  BgInv' /\ Told'
<1>1. PICK f : f = Freed(Here) OBVIOUS
<1> DEFINE g == [f.bg EXCEPT !.image = i, !.loaded = None]
           y == [f EXCEPT !.bg.image = i, !.bg.loaded = None]
<1>2. /\ f \in States /\ f.bg \in Backgrounds /\ f.pix \in 1..2 \cup {None}
      /\ SameSettings(bg, f.bg) /\ f.bg.alpha = Clear(f.bg)
      /\ f.bg.image = None => f.bg.loaded = None
      /\ f.bg.transformed = FALSE /\ Watch(f, rootLate)
  BY <1>1, HereFreed
<1>3. y.bg = g /\ y.pix = f.pix BY <1>2 DEF States
<1>4. g \in Backgrounds BY <1>2 DEF Backgrounds, Types
<1>5. y \in States BY <1>2, <1>3, <1>4 DEF States
<1>6. /\ g.transformed = FALSE /\ g.region = f.bg.region /\ g.realized = f.bg.realized
      /\ g.desktop = f.bg.desktop /\ g.watches = f.bg.watches
      /\ g.image = None => g.loaded = None
  BY <1>2 DEF Backgrounds
<1>8. Leave(Transformed(WithAlpha(y))) /\ UNCHANGED <<root, rootLate, frameAt>>
  BY <1>1 DEF SetImage
<1> HIDE DEF g, y
<1>9. Watch(y, rootLate) BY <1>2, <1>3, <1>6 DEF Watch
<1>10. y.bg.region = bg.region /\ y.bg.realized = bg.realized
  BY <1>2, <1>3, <1>6 DEF SameSettings
<1> QED BY <1>3, <1>5, <1>6, <1>8, <1>9, <1>10, AlphaDone

\* panel_background_set_image_style
LEMMA SetStyleKeeps ==
  ASSUME BgAssumption, BgInv, Told, NEW s \in Styles, SetStyle(s)
  PROVE  BgInv' /\ Told'
<1>1. PICK f : f = Freed(Here) OBVIOUS
<1> DEFINE g == [f.bg EXCEPT !.style = s]
           y == [f EXCEPT !.bg.style = s]
<1>2. /\ f \in States /\ f.bg \in Backgrounds /\ f.pix \in 1..2 \cup {None}
      /\ SameSettings(bg, f.bg) /\ f.bg.alpha = Clear(f.bg)
      /\ f.bg.image = None => f.bg.loaded = None
      /\ f.bg.transformed = FALSE /\ Watch(f, rootLate)
  BY <1>1, HereFreed
<1>3. y.bg = g /\ y.pix = f.pix BY <1>2 DEF States
<1>4. g \in Backgrounds BY <1>2 DEF Backgrounds, Types
<1>5. y \in States BY <1>2, <1>3, <1>4 DEF States
<1>6. /\ g.transformed = FALSE /\ g.region = f.bg.region /\ g.realized = f.bg.realized
      /\ g.desktop = f.bg.desktop /\ g.watches = f.bg.watches
      /\ g.image = None => g.loaded = None
  BY <1>2 DEF Backgrounds
<1>7. g.type = f.bg.type /\ g.colour = f.bg.colour /\ g.loaded = f.bg.loaded
      /\ g.alpha = f.bg.alpha
  BY <1>2 DEF Backgrounds
<1>8. Leave(Transformed(y)) /\ UNCHANGED <<root, rootLate, frameAt>>
  BY <1>1 DEF SetStyle
<1> HIDE DEF g, y
<1>9. Watch(y, rootLate) BY <1>2, <1>3, <1>6 DEF Watch
<1>10. y.bg.region = bg.region /\ y.bg.realized = bg.realized
  BY <1>2, <1>3, <1>6 DEF SameSettings
<1>11. g.alpha = Clear(g) BY <1>2, <1>7 DEF Clear
<1> QED BY <1>3, <1>5, <1>6, <1>8, <1>9, <1>10, <1>11, SettingDone

\* panel_background_set_rotate
LEMMA SetRotateKeeps ==
  ASSUME BgAssumption, BgInv, Told, NEW r \in BOOLEAN, SetRotate(r)
  PROVE  BgInv' /\ Told'
<1>1. PICK f : f = Freed(Here) OBVIOUS
<1> DEFINE g == [f.bg EXCEPT !.rotate = r]
           y == [f EXCEPT !.bg.rotate = r]
<1>2. /\ f \in States /\ f.bg \in Backgrounds /\ f.pix \in 1..2 \cup {None}
      /\ SameSettings(bg, f.bg) /\ f.bg.alpha = Clear(f.bg)
      /\ f.bg.image = None => f.bg.loaded = None
      /\ f.bg.transformed = FALSE /\ Watch(f, rootLate)
  BY <1>1, HereFreed
<1>3. y.bg = g /\ y.pix = f.pix BY <1>2 DEF States
<1>4. g \in Backgrounds BY <1>2 DEF Backgrounds, Types
<1>5. y \in States BY <1>2, <1>3, <1>4 DEF States
<1>6. /\ g.transformed = FALSE /\ g.region = f.bg.region /\ g.realized = f.bg.realized
      /\ g.desktop = f.bg.desktop /\ g.watches = f.bg.watches
      /\ g.image = None => g.loaded = None
  BY <1>2 DEF Backgrounds
<1>7. g.type = f.bg.type /\ g.colour = f.bg.colour /\ g.loaded = f.bg.loaded
      /\ g.alpha = f.bg.alpha
  BY <1>2 DEF Backgrounds
<1>8. Leave(Transformed(y)) /\ UNCHANGED <<root, rootLate, frameAt>>
  BY <1>1 DEF SetRotate
<1> HIDE DEF g, y
<1>9. Watch(y, rootLate) BY <1>2, <1>3, <1>6 DEF Watch
<1>10. y.bg.region = bg.region /\ y.bg.realized = bg.realized
  BY <1>2, <1>3, <1>6 DEF SameSettings
<1>11. g.alpha = Clear(g) BY <1>2, <1>7 DEF Clear
<1> QED BY <1>3, <1>5, <1>6, <1>8, <1>9, <1>10, <1>11, SettingDone

\* The state of the background as the operations take it.
LEMMA HereIs ==
  ASSUME BgInv
  PROVE  /\ Here \in States /\ Here.bg = bg /\ Here.pix = rootPix
         /\ bg \in Backgrounds /\ rootPix \in 1..2 \cup {None}
         /\ Here = [bg |-> bg, pix |-> rootPix]
BY DEF BgInv, Sound, Here, States

\* The new look is set on the window where the theme is what it has, and is not
\* where an image is missing.
LEMMA SetDefaultStyleKeeps ==
  ASSUME BgAssumption, BgInv, Told, SetDefaultStyle
  PROVE  BgInv' /\ Told'
<1> DEFINE g == [bg EXCEPT !.theme = 1 - @]
           d == [Here EXCEPT !.bg.theme = 1 - @]
           p == IF bg.type = "none" THEN Prepared(d) ELSE d
<1>1. Here \in States /\ Here.bg = bg /\ bg \in Backgrounds /\ rootPix \in 1..2 \cup {None}
  BY HereIs
<1>2. d = [bg |-> g, pix |-> rootPix] BY DEF Here
<1>3. d.bg = g /\ d.pix = rootPix BY <1>2
<1>4. 1 - bg.theme \in {0, 1} BY <1>1 DEF Backgrounds
<1>5. g \in Backgrounds BY <1>1, <1>4 DEF Backgrounds
<1>6. Leave(p) /\ UNCHANGED <<root, rootLate, frameAt>> BY DEF SetDefaultStyle
<1>7. d \in States BY <1>1, <1>2, <1>5 DEF States
<1>8. /\ g.type = bg.type /\ g.colour = bg.colour /\ g.image = bg.image
      /\ g.style = bg.style /\ g.rotate = bg.rotate /\ g.region = bg.region
      /\ g.realized = bg.realized /\ g.loaded = bg.loaded /\ g.alpha = bg.alpha
      /\ g.transformed = bg.transformed /\ g.scaled = bg.scaled /\ g.pattern = bg.pattern
      /\ g.desktop = bg.desktop /\ g.watches = bg.watches /\ g.drawn = bg.drawn
      /\ g.serial = bg.serial /\ g.notify = bg.notify /\ g.theme = 1 - bg.theme
  BY <1>1 DEF Backgrounds
<1>9. rootLate' = rootLate /\ rootLate' \in BOOLEAN BY <1>6 DEF BgInv
<1> HIDE DEF g, d
<1>10. /\ g.image = None => g.loaded = None
       /\ g.alpha = Clear(g)
       /\ g.transformed <=> g.region # NoRegion
       /\ g.transformed => g.realized
  BY <1>1, <1>8 DEF BgInv, Sound, Clear
<1>11. Watch(d, rootLate) BY <1>1, <1>3, <1>8, HereIs DEF BgInv, Sound, Watch
<1>12. g.transformed => PatternFits(d)
  BY <1>1, <1>3, <1>8, HereIs DEF BgInv, Sound, PatternFits, Lays, LaidOver
<1>13. g.transformed => ScaledFits(g)
  <2>1. \A o : ShapeFor(g, o) = ShapeFor(bg, o) BY <1>8 DEF ShapeFor
  <2>2. LoadedNow(g) = LoadedNow(bg) BY <1>8 DEF LoadedNow
  <2> QED BY <1>1, <1>8, <2>1, <2>2 DEF BgInv, Sound, ScaledFits
<1>14. CASE bg.type = "none" /\ bg.transformed
  <2>1. p = Prepared(d) BY <1>14
  <2>2. PICK c : c = p.bg OBVIOUS
  <2>3. /\ Prepared(d) \in States
        /\ SameSettings(g, c) /\ c.loaded = g.loaded /\ c.alpha = g.alpha
        /\ c.transformed /\ c.scaled = g.scaled
        /\ c.notify /\ c.drawn = Painted(c)
        /\ Watch(Prepared(d), rootLate)
        /\ PatternFits(Prepared(d))
    <3>1. c = Prepared(d).bg /\ d.bg.transformed BY <1>3, <1>8, <1>14, <2>1, <2>2
    <3> HIDE DEF p
    <3> QED BY <1>3, <1>7, <1>8, <1>11, <1>12, <1>14, <3>1, PreparedIs
  <2>4. ScaledFits(c) BY <1>8, <1>13, <1>14, <2>3, ScaledFitsSame
  <2>5. c.alpha = Clear(c) BY <1>10, <2>3 DEF Clear, SameSettings
  <2>6. c.image = None => c.loaded = None BY <1>10, <2>3 DEF SameSettings
  <2>7. c.realized /\ c.region # NoRegion BY <1>8, <1>10, <1>14, <2>3 DEF SameSettings
  <2> HIDE DEF p
  <2>8. Sound(p, rootLate') BY <1>9, <2>1, <2>2, <2>3, <2>4, <2>5, <2>6, <2>7 DEF Sound, Drawn
  <2> QED BY <1>6, <1>9, <2>2, <2>3, <2>8, LeaveIs
<1>15. CASE ~(bg.type = "none" /\ bg.transformed)
  <2>1. p = d BY <1>3, <1>8, <1>15 DEF Prepared
  <2>2. g.transformed => Drawn(g)
    <3> SUFFICES ASSUME g.transformed PROVE Drawn(g) OBVIOUS
    <3>1. Drawn(bg) BY <1>1, <1>8 DEF BgInv, Sound
    <3>2. bg.type # "none" BY <1>8, <1>15
    <3>3. CASE bg.type = "image" /\ bg.pattern = None
      <4>1. /\ Painted(bg) = [theme |-> bg.theme, size |-> bg.region.size]
            /\ Painted(g) = [theme |-> g.theme, size |-> g.region.size]
        BY <1>8, <3>3 DEF Painted, Effective
      <4>2. bg.theme = 1 - g.theme BY <1>1, <1>8 DEF Backgrounds
      <4> QED BY <1>8, <3>1, <3>3, <4>1, <4>2 DEF Drawn
    <3>4. CASE ~(bg.type = "image" /\ bg.pattern = None)
      <4>1. Painted(g) = Painted(bg) BY <1>8, <3>2, <3>4 DEF Painted, Effective
      <4> QED BY <1>8, <3>1, <3>4, <4>1 DEF Drawn
    <3> QED BY <3>3, <3>4
  <2>3. Sound(d, rootLate') BY <1>3, <1>7, <1>9, <1>10, <1>11, <1>12, <1>13, <2>2 DEF Sound
  <2>4. Message(g, frameAt) = Message(bg, frameAt) BY <1>8 DEF Message, Effective
  <2> HIDE DEF p
  <2> QED BY <1>3, <1>6, <1>8, <1>9, <2>1, <2>3, <2>4, LeaveIs
<1> QED BY <1>14, <1>15

\* panel_background_realized
LEMMA RealizeKeeps ==
  ASSUME BgAssumption, BgInv, Told, Realize
  PROVE  BgInv' /\ Told'
<1> DEFINE g == [bg EXCEPT !.realized = TRUE]
           d == [Here EXCEPT !.bg.realized = TRUE]
<1>1. Here \in States /\ Here.bg = bg /\ bg \in Backgrounds /\ rootPix \in 1..2 \cup {None}
  BY HereIs
<1>2. d.bg = g /\ d.pix = rootPix BY DEF Here
<1>3. g \in Backgrounds BY <1>1 DEF Backgrounds
<1>4. d \in States BY <1>1, <1>2, <1>3 DEF States, Here
<1>5. Leave(Prepared(d)) /\ UNCHANGED <<root, rootLate, frameAt>> /\ ~bg.realized
  BY DEF Realize
<1>6. ~bg.transformed /\ bg.transformed \in BOOLEAN
  BY <1>1, <1>5 DEF BgInv, Sound, Backgrounds
<1>7. /\ SameSettings([bg EXCEPT !.realized = TRUE], g) /\ g.type = bg.type /\ g.image = bg.image
      /\ g.region = bg.region /\ g.loaded = bg.loaded
      /\ g.alpha = bg.alpha /\ g.transformed = bg.transformed /\ g.colour = bg.colour
      /\ g.desktop = bg.desktop /\ g.watches = bg.watches
  BY <1>1 DEF Backgrounds, SameSettings
<1> HIDE DEF g, d
<1>8. Prepared(d) = d BY <1>2, <1>6, <1>7 DEF Prepared
<1>9. /\ g.image = None => g.loaded = None
      /\ g.alpha = Clear(g)
      /\ g.transformed <=> g.region # NoRegion
  BY <1>1, <1>7 DEF BgInv, Sound, Clear
<1>10. Watch(d, rootLate) BY <1>1, <1>2, <1>7, HereIs DEF BgInv, Sound, Watch
<1>11. rootLate' = rootLate /\ rootLate' \in BOOLEAN BY <1>5 DEF BgInv
<1>12. Sound(d, rootLate') BY <1>2, <1>4, <1>6, <1>7, <1>9, <1>10, <1>11 DEF Sound
<1> QED BY <1>2, <1>5, <1>6, <1>7, <1>8, <1>11, <1>12, LeaveIs

\* The frame of an applet moves: only what the applet is told changes.
LEMMA MoveFrameKeeps ==
  ASSUME BgInv, Told, MoveFrame
  PROVE  BgInv' /\ Told'
<1>1. UNCHANGED <<bg, root, rootPix, rootLate>> BY DEF MoveFrame
<1>2. BgInv' BY <1>1 DEF BgInv, Sound, Watch, Here
<1>3. Told'
  <2> SUFFICES ASSUME bg.transformed, told' # None PROVE told' = Message(bg, frameAt)'
    BY <1>1 DEF Told
  <2>1. CASE NeedsPixmap(bg)
    <3>1. told' = Message(bg, frameAt') BY <2>1 DEF MoveFrame
    <3> QED BY <1>1, <3>1 DEF Message
  <2>2. CASE ~NeedsPixmap(bg)
    <3>1. told' = told /\ told = Message(bg, frameAt) BY <2>2 DEF MoveFrame, Told
    <3>2. Message(bg, frameAt)' = Message(bg, frameAt)
      <4>1. bg \in Backgrounds BY HereIs
      <4>2. bg.type \in Types /\ bg.alpha \in BOOLEAN BY <4>1 DEF Backgrounds
      <4>3. \/ bg.type = "none"
            \/ bg.type = "color" /\ ~bg.alpha
        BY <2>2, <4>2 DEF NeedsPixmap, Types
      <4>4. CASE bg.type = "none" BY <1>1, <4>4 DEF Message, Effective
      <4>5. CASE bg.type = "color" /\ ~bg.alpha BY <1>1, <4>5 DEF Message, Effective
      <4> QED BY <4>3, <4>4, <4>5
    <3> QED BY <3>1, <3>2
  <2> QED BY <2>1, <2>2
<1> QED BY <1>2, <1>3

\* The desktop behind the panel changes, and is heard of at once or later.
LEMMA ChangeDesktopKeeps ==
  ASSUME BgInv, Told, NEW n \in 0..2, ChangeDesktop(n)
  PROVE  BgInv' /\ Told'
<1>1. UNCHANGED <<bg, rootPix, frameAt, told>> /\ root' = n /\ rootLate' = bg.watches
  BY DEF ChangeDesktop
<1>2. bg.watches \in BOOLEAN
  <2>1. bg \in Backgrounds BY HereIs
  <2> QED BY <2>1 DEF Backgrounds
<1>3. Watch(Here, rootLate)' BY <1>1, <1>2 DEF BgInv, Sound, Watch, Here
<1>4. BgInv' BY <1>1, <1>2, <1>3 DEF BgInv, Sound, Here
<1>5. Told' BY <1>1 DEF Told, Message
<1> QED BY <1>4, <1>5

\* The monitor is told of the change: the desktop is copied anew.
LEMMA DesktopChangedKeeps ==
  ASSUME BgAssumption, BgInv, Told, DesktopChanged
  PROVE  BgInv' /\ Told'
<1>1. Here \in States /\ Here.bg = bg /\ bg \in Backgrounds /\ rootPix \in 1..2 \cup {None}
  BY HereIs
<1>2. root' = root /\ frameAt' = frameAt /\ rootLate' = FALSE /\ root \in 0..2
  BY DEF DesktopChanged, BgInv
<1>3. CASE ~bg.watches
  <2>1. UNCHANGED <<bg, rootPix, told>> BY <1>3 DEF DesktopChanged
  <2>2. Watch(Here, rootLate)'
    BY <1>2, <1>3, <2>1 DEF BgInv, Sound, Watch, Here
  <2>3. BgInv' BY <1>2, <2>1, <2>2 DEF BgInv, Sound, Here
  <2>4. Told' BY <1>2, <2>1 DEF Told, Message
  <2> QED BY <2>3, <2>4
<1>4. CASE bg.watches
  <2> DEFINE g == [bg EXCEPT !.desktop = None]
             x == [bg |-> g, pix |-> None]
  <2>1. g \in Backgrounds BY <1>1 DEF Backgrounds
  <2>2. x \in States /\ x.bg = g /\ x.pix = None BY <2>1 DEF States
  <2>3. /\ SameStages(bg, g) /\ g.desktop = None
    BY <1>1 DEF SameStages, SameSettings, Backgrounds
  <2>4. Leave(Composited(Behind(x))) BY <1>4 DEF DesktopChanged
  <2> HIDE DEF g, x
  <2>5. PICK y, b : y = Behind(x) /\ b = y.bg OBVIOUS
  <2>6. /\ y \in States /\ SameStages(g, b) /\ Watch(y, FALSE)
    <3>1. b = Behind(x).bg BY <2>5
    <3> QED BY <1>2, <2>2, <2>3, <2>5, <3>1, BehindIs
  <2>7. SameStages(bg, b) BY <2>3, <2>6 DEF SameStages, SameSettings
  <2>8. /\ b.image = None => b.loaded = None
        /\ b.alpha = Clear(b)
        /\ b.transformed <=> b.region # NoRegion
        /\ b.transformed => b.realized
    BY <1>1, <2>7 DEF BgInv, Sound, Clear, SameStages, SameSettings
  <2>9. CASE ~b.transformed
    <3>1. Composited(y) = y BY <2>5, <2>9 DEF Composited
    <3>2. Sound(y, rootLate') BY <1>2, <2>5, <2>6, <2>8, <2>9 DEF Sound
    <3> QED BY <1>2, <2>4, <2>5, <2>9, <3>1, <3>2, LeaveIs
  <2>10. CASE b.transformed
    <3>1. PICK z, c : z = Composited(y) /\ c = z.bg OBVIOUS
    <3>2. c = Composited(y).bg BY <3>1
    <3>3. /\ z \in States
          /\ SameStages(b, c)
          /\ c.notify /\ c.drawn = Painted(c)
          /\ Watch(z, FALSE) /\ PatternFits(z)
      <4>1. SameStages(y.bg, c) BY <1>2, <2>5, <2>6, <2>10, <3>1, <3>2, CompositedIs
      <4> QED BY <1>2, <2>5, <2>6, <2>10, <3>1, <3>2, <4>1, CompositedIs
    <3>4. ScaledFits(c)
      <4>1. ScaledFits(bg) BY <1>1, <2>7, <2>10 DEF BgInv, Sound, SameStages
      <4>2. ScaledFits(b) BY <2>7, <4>1, ScaledFitsSame DEF SameStages
      <4> QED BY <3>3, <4>2, ScaledFitsSame DEF SameStages
    <3>5. /\ c.image = None => c.loaded = None
          /\ c.alpha = Clear(c)
          /\ c.transformed <=> c.region # NoRegion
          /\ c.realized
      BY <2>8, <2>10, <3>3 DEF Clear, SameStages, SameSettings
    <3>6. Sound(z, rootLate') BY <1>2, <3>1, <3>3, <3>4, <3>5 DEF Sound, Drawn
    <3> QED BY <1>2, <2>4, <2>5, <3>1, <3>3, <3>6, LeaveIs
  <2> QED BY <2>9, <2>10
<1> QED BY <1>3, <1>4

\* An image that is not scaled again for region r fits it already, but where r is
\* a square and the panel turns.
LEMMA ShapeKept ==
  ASSUME BgAssumption, NEW r \in Regions, ~MustTransform(r), bg \in Backgrounds,
         bg.region \in Regions, NEW g, g.region = r, g.type = bg.type, g.image = bg.image,
         g.loaded = bg.loaded, g.style = bg.style, g.rotate = bg.rotate, g.scaled = bg.scaled,
         ScaledFits(bg)
  PROVE  ScaledFits(g)
<1> SUFFICES ASSUME bg.type = "image" PROVE ScaledFits(g) BY DEF ScaledFits
<1>1. LoadedNow(g) = LoadedNow(bg) BY DEF LoadedNow
<1>2. CASE bg.loaded = None BY <1>1, <1>2 DEF ScaledFits
<1>3. CASE bg.loaded # None
  <2>1. r.orient \in Orients /\ bg.region.orient \in Orients BY DEF BgAssumption
  <2>2. bg.style \in Styles /\ bg.rotate \in BOOLEAN BY DEF Backgrounds
  <2>3. r.orient # bg.region.orient => ~bg.rotate BY DEF MustTransform
  <2>4. bg.style # "none" => r.size = bg.region.size BY DEF MustTransform
  <2>5. \A o : bg.rotate = FALSE /\ bg.style = "fit" => ShapeFor(g, o) = ShapeFor(bg, o)
    BY <2>4 DEF ShapeFor
  <2>6. CASE bg.scaled = ShapeFor(bg, bg.region.orient)
    <3>1. CASE bg.style = "none"
      <4>1. ShapeFor(g, r.orient) = ShapeFor(bg, bg.region.orient)
        <5>1. (g.rotate /\ r.orient = "vertical") = (bg.rotate /\ bg.region.orient = "vertical")
          BY <2>2, <2>3
        <5> QED BY <3>1, <5>1 DEF ShapeFor
      <4> QED BY <1>1, <1>3, <2>6, <4>1 DEF ScaledFits
    <3>2. CASE bg.style = "stretch"
      <4>1. ShapeFor(g, r.orient) = ShapeFor(bg, bg.region.orient)
        <5>1. (g.rotate /\ r.orient = "vertical") = (bg.rotate /\ bg.region.orient = "vertical")
          BY <2>2, <2>3
        <5> QED BY <2>4, <3>2, <5>1 DEF ShapeFor
      <4> QED BY <1>1, <1>3, <2>6, <4>1 DEF ScaledFits
    <3>3. CASE bg.style = "fit" /\ r.orient = bg.region.orient
      <4>1. ShapeFor(g, r.orient) = ShapeFor(bg, bg.region.orient)
        BY <2>4, <3>3 DEF ShapeFor
      <4> QED BY <1>1, <1>3, <2>6, <4>1 DEF ScaledFits
    <3>4. CASE bg.style = "fit" /\ r.orient # bg.region.orient
      <4>1. ~bg.rotate /\ r.size = bg.region.size BY <2>2, <2>3, <2>4, <3>4
      <4>2. r.size \in Squares
        <5>1. \/ r.orient = "horizontal" /\ bg.region.orient = "vertical"
              \/ r.orient = "vertical" /\ bg.region.orient = "horizontal"
          BY <2>1, <3>4 DEF Orients
        <5> QED BY <4>1, <5>1 DEF Squares
      <4>3. g.scaled = ShapeFor(g, bg.region.orient) BY <2>2, <2>5, <2>6, <3>4, <4>1
      <4> QED BY <1>1, <1>3, <2>1, <3>4, <4>1, <4>2, <4>3 DEF ScaledFits
    <3> QED BY <2>2, <3>1, <3>2, <3>3, <3>4 DEF Styles
  <2>7. CASE /\ bg.style = "fit" /\ ~bg.rotate /\ bg.region.size \in Squares
             /\ \E o \in Orients : bg.scaled = ShapeFor(bg, o)
    <3>1. PICK o \in Orients : bg.scaled = ShapeFor(bg, o) BY <2>7
    <3>2. g.scaled = ShapeFor(g, o) BY <2>2, <2>5, <2>7, <3>1
    <3> QED BY <1>1, <1>3, <2>4, <2>7, <3>2 DEF ScaledFits
  <2> QED BY <1>3, <2>6, <2>7 DEF ScaledFits
<1> QED BY <1>2, <1>3

\* panel_background_change_region: it transforms anew, but for a square image that fits.
LEMMA ChangeRegionKeeps ==
  ASSUME BgAssumption, BgInv, Told, NEW r \in Regions, ChangeRegion(r)
  PROVE  BgInv' /\ Told'
<1> DEFINE g == [bg EXCEPT !.region = r, !.desktop = None]
           d == [Here EXCEPT !.bg.region = r, !.bg.desktop = None]
<1>1. Here \in States /\ Here.bg = bg /\ bg \in Backgrounds /\ rootPix \in 1..2 \cup {None}
      /\ Here.pix = rootPix
  BY HereIs
<1>2. d.bg = g /\ d.pix = rootPix BY <1>1 DEF States
<1>3. g \in Backgrounds
  <2> DEFINE placed == [bg EXCEPT !.region = r]
  <2>1. placed \in Backgrounds BY <1>1 DEF Backgrounds
  <2>2. g = [placed EXCEPT !.desktop = None] BY <1>1 DEF Backgrounds
  <2> HIDE DEF placed, g
  <2> QED BY <2>1, <2>2 DEF Backgrounds
<1>4. d \in States BY <1>1, <1>2, <1>3 DEF States
<1>5. /\ g.type = bg.type /\ g.colour = bg.colour /\ g.image = bg.image
      /\ g.style = bg.style /\ g.rotate = bg.rotate /\ g.region = r /\ g.theme = bg.theme
      /\ g.realized = bg.realized /\ g.loaded = bg.loaded /\ g.alpha = bg.alpha
      /\ g.transformed = bg.transformed /\ g.scaled = bg.scaled /\ g.pattern = bg.pattern
      /\ g.desktop = None /\ g.watches = bg.watches /\ g.drawn = bg.drawn
      /\ g.serial = bg.serial /\ g.notify = bg.notify /\ g.composited = bg.composited
  BY <1>1 DEF Backgrounds
<1>6. /\ bg.transformed \in BOOLEAN /\ bg.composited \in BOOLEAN /\ bg.alpha \in BOOLEAN
      /\ bg.style \in Styles
  BY <1>1 DEF Backgrounds
<1>7. /\ bg.realized /\ UNCHANGED <<root, rootLate, frameAt>>
      /\ \/ (MustTransform(r) \/ ~bg.transformed) /\ Leave(Transformed(d))
         \/ /\ ~MustTransform(r) /\ bg.transformed /\ (bg.alpha \/ ~bg.composited)
            /\ Leave(Composited(d))
         \/ /\ ~MustTransform(r) /\ bg.transformed /\ ~bg.alpha /\ bg.composited
            /\ Leave(IF r.size # bg.region.size THEN Prepared(d) ELSE d)
  <2> HIDE DEF g
  <2> USE DEF ChangeRegion
  <2>1. CASE MustTransform(r) \/ ~bg.transformed BY <2>1
  <2>2. CASE ~MustTransform(r) /\ bg.transformed /\ (bg.alpha \/ ~bg.composited) BY <2>2
  <2>3. CASE ~MustTransform(r) /\ bg.transformed /\ ~bg.alpha /\ bg.composited BY <2>3
  <2> QED BY <1>6, <2>1, <2>2, <2>3
<1> HIDE DEF g, d
<1>8. r # NoRegion BY DEF BgAssumption
<1>9. /\ g.image = None => g.loaded = None
      /\ g.alpha = Clear(g)
  BY <1>1, <1>5 DEF BgInv, Sound, Clear
<1>10. Watch(d, rootLate) BY <1>1, <1>2, <1>5 DEF BgInv, Sound, Watch
<1>11. rootLate' = rootLate /\ rootLate' \in BOOLEAN /\ root \in 0..2 BY <1>7 DEF BgInv
<1>12. ASSUME Leave(Transformed(d)) PROVE BgInv' /\ Told'
  <2>1. PICK z, c : z = Transformed(d) /\ c = z.bg OBVIOUS
  <2>2. /\ z \in States
        /\ SameSettings(g, c) /\ c.alpha = Clear(c)
        /\ c.transformed /\ c.notify /\ c.drawn = Painted(c)
        /\ c.image = None => c.loaded = None
        /\ Watch(z, rootLate) /\ PatternFits(z) /\ ScaledFits(c)
    <3>1. c = Transformed(d).bg /\ d.bg.region # NoRegion BY <1>2, <1>5, <1>8, <2>1
    <3>2. d.bg.alpha = Clear(d.bg) /\ (d.bg.image = None => d.bg.loaded = None)
      BY <1>2, <1>9
    <3> QED BY <1>2, <1>4, <1>10, <1>11, <2>1, <3>1, <3>2, TransformedIs
  <2>3. c.realized /\ c.region # NoRegion BY <1>5, <1>7, <1>8, <2>2 DEF SameSettings
  <2>4. Sound(z, rootLate') BY <1>11, <2>1, <2>2, <2>3 DEF Sound, Drawn
  <2> QED BY <1>7, <1>11, <1>12, <2>1, <2>2, <2>4, LeaveIs
<1>13. ASSUME ~MustTransform(r), bg.transformed
       PROVE  ScaledFits(g) /\ bg.region \in Regions
  <2>1. bg.region \in Regions BY <1>1, <1>13 DEF BgInv, Sound, Backgrounds
  <2>2. ScaledFits(bg) BY <1>1, <1>13 DEF BgInv, Sound
  <2> QED BY <1>1, <1>5, <1>13, <2>1, <2>2, ShapeKept
<1>14. ASSUME ~MustTransform(r), bg.transformed, Leave(Composited(d)) PROVE BgInv' /\ Told'
  <2>1. PICK z, c : z = Composited(d) /\ c = z.bg OBVIOUS
  <2>2. /\ z \in States /\ SameStages(g, c)
        /\ c.notify /\ c.drawn = Painted(c)
        /\ Watch(z, rootLate) /\ PatternFits(z)
    <3>1. c = Composited(d).bg /\ d.bg.transformed BY <1>2, <1>5, <1>14, <2>1
    <3>2. SameStages(d.bg, c) BY <1>4, <1>10, <1>11, <3>1, CompositedIs
    <3> QED BY <1>2, <1>4, <1>10, <1>11, <2>1, <3>1, <3>2, CompositedIs
  <2>3. ScaledFits(c) BY <1>13, <1>14, <2>2, ScaledFitsSame DEF SameStages
  <2>4. /\ c.image = None => c.loaded = None
        /\ c.alpha = Clear(c)
        /\ c.transformed /\ c.region # NoRegion /\ c.realized
    BY <1>5, <1>7, <1>8, <1>9, <1>14, <2>2 DEF Clear, SameStages, SameSettings
  <2>5. Sound(z, rootLate') BY <1>11, <2>1, <2>2, <2>3, <2>4 DEF Sound, Drawn
  <2> QED BY <1>7, <1>11, <1>14, <2>1, <2>2, <2>5, LeaveIs
<1>15. ASSUME ~MustTransform(r), bg.transformed, ~bg.alpha PROVE PatternFits(d)
  <2>1. PatternFits(Here) BY <1>15 , <1>1 DEF BgInv, Sound
  <2>2. Lays(g) = Lays(bg) /\ LaidOver(g) = LaidOver(bg) BY <1>5 DEF Lays, LaidOver
  <2>3. Lays(g) => g.type = "image" BY <1>5, <1>15 DEF Lays
  <2>4. r.size = bg.region.size \/ bg.type # "image" \/ bg.style = "none"
    BY <1>15 DEF MustTransform
  <2>5. CASE ~Lays(g) BY <1>1, <1>2, <1>5, <2>1, <2>2, <2>5 DEF PatternFits
  <2>6. CASE Lays(g)
    <3>1. bg.watches /\ (rootPix = None => bg.pattern = None)
      BY <1>1, <2>1, <2>2, <2>6 DEF PatternFits
    <3>2. rootPix # None =>
            /\ bg.pattern # None /\ bg.pattern.what = LaidOver(bg) /\ bg.pattern.over = None
            /\ \/ bg.pattern.size = bg.region.size
               \/ bg.type = "image" /\ ~bg.alpha /\ bg.style = "none"
      BY <1>1, <1>15, <2>1, <2>2, <2>6 DEF PatternFits
    <3> QED BY <1>2, <1>5, <1>15, <2>2, <2>3, <2>4, <2>6, <3>1, <3>2 DEF PatternFits
  <2> QED BY <2>5, <2>6
<1>16. ASSUME ~MustTransform(r), bg.transformed, ~bg.alpha, Leave(Prepared(d))
       PROVE  BgInv' /\ Told'
  <2>1. PICK z, c : z = Prepared(d) /\ c = z.bg OBVIOUS
  <2>2. /\ z \in States /\ SameSettings(g, c) /\ c.loaded = g.loaded /\ c.alpha = g.alpha
        /\ c.transformed /\ c.scaled = g.scaled
        /\ c.notify /\ c.drawn = Painted(c)
        /\ Watch(z, rootLate) /\ PatternFits(z)
    <3>1. c = Prepared(d).bg /\ d.bg.transformed BY <1>2, <1>5, <1>16, <2>1
    <3> QED BY <1>2, <1>4, <1>10, <1>15, <1>16, <2>1, <3>1, PreparedIs
  <2>3. ScaledFits(c) BY <1>13, <1>16, <2>2, ScaledFitsSame
  <2>4. /\ c.image = None => c.loaded = None
        /\ c.alpha = Clear(c)
        /\ c.region # NoRegion /\ c.realized
    BY <1>5, <1>7, <1>8, <1>9, <2>2 DEF Clear, SameSettings
  <2>5. Sound(z, rootLate') BY <1>11, <2>1, <2>2, <2>3, <2>4 DEF Sound, Drawn
  <2> QED BY <1>7, <1>11, <1>16, <2>1, <2>2, <2>5, LeaveIs
<1>17. ASSUME ~MustTransform(r), bg.transformed, ~bg.alpha, r.size = bg.region.size, Leave(d)
       PROVE  BgInv' /\ Told'
  <2>1. Drawn(bg) BY <1>1, <1>17 DEF BgInv, Sound
  <2>2. Painted(g) = Painted(bg) BY <1>5, <1>17 DEF Painted, Effective
  <2>3. Drawn(g) BY <1>5, <1>17, <2>1, <2>2 DEF Drawn
  <2>4. Message(g, frameAt) = Message(bg, frameAt) BY <1>5 DEF Message, Effective
  <2>5. Sound(d, rootLate')
    BY <1>2, <1>4, <1>5, <1>7, <1>8, <1>9, <1>10, <1>11, <1>13, <1>15, <1>17, <2>3 DEF Sound
  <2> QED BY <1>2, <1>7, <1>11, <1>17, <2>4, <2>5, LeaveIs
<1> QED BY <1>7, <1>12, <1>14, <1>16, <1>17

\* The invariant holds before anything is set.
LEMMA BgInitHolds ==
  ASSUME BgAssumption, BgInit
  PROVE  BgInv /\ Told
<1>1. /\ bg.type = "none" /\ bg.image = None /\ bg.loaded = None /\ bg.alpha = FALSE
      /\ bg.region = NoRegion /\ bg.transformed = FALSE /\ bg.desktop = None
      /\ bg.watches = FALSE /\ bg.notify = FALSE
  BY DEF BgInit
<1>2. bg \in Backgrounds BY DEF BgInit, Backgrounds, Types, Colours, Styles
<1>3. Here \in States /\ Here.bg = bg /\ Here.pix = None
  BY <1>2 DEF BgInit, Here, States
<1>4. Watch(Here, rootLate) BY <1>1, <1>3 DEF Watch
<1>5. Sound(Here, rootLate) BY <1>1, <1>3, <1>4 DEF Sound, Clear
<1>6. Told BY <1>1 DEF Told
<1>7. root \in 0..2 /\ rootLate \in BOOLEAN
  <2>1. root = 1 BY DEF BgInit
  <2>2. rootLate = FALSE BY DEF BgInit
  <2>3. root \in 0..2 BY <2>1
  <2>4. rootLate \in BOOLEAN BY <2>2
  <2> QED BY <2>3, <2>4
<1> QED BY <1>1, <1>5, <1>6, <1>7 DEF BgInv

\* Every step of the background keeps the invariant.
LEMMA BgNextKeeps ==
  ASSUME BgAssumption, BgInv, Told, [BgNext]_bgVars
  PROVE  BgInv' /\ Told'
<1>1. ASSUME NEW t \in Types, SetType(t) PROVE BgInv' /\ Told' BY <1>1, SetTypeKeeps
<1>2. ASSUME NEW c \in Colours, SetColour(c) PROVE BgInv' /\ Told' BY <1>2, SetColourKeeps
<1>3. ASSUME NEW f \in Images \cup {None}, SetImage(f) PROVE BgInv' /\ Told'
  BY <1>3, SetImageKeeps
<1>4. ASSUME NEW s \in Styles, SetStyle(s) PROVE BgInv' /\ Told' BY <1>4, SetStyleKeeps
<1>5. ASSUME NEW r \in BOOLEAN, SetRotate(r) PROVE BgInv' /\ Told' BY <1>5, SetRotateKeeps
<1>6. CASE SetDefaultStyle BY <1>6, SetDefaultStyleKeeps
<1>7. CASE Realize BY <1>7, RealizeKeeps
<1>8. CASE MoveFrame BY <1>8, MoveFrameKeeps
<1>9. CASE DesktopChanged BY <1>9, DesktopChangedKeeps
<1>10. ASSUME NEW r \in Regions, ChangeRegion(r) PROVE BgInv' /\ Told'
  BY <1>10, ChangeRegionKeeps
<1>11. ASSUME NEW n \in 0..2, ChangeDesktop(n) PROVE BgInv' /\ Told'
  BY <1>11, ChangeDesktopKeeps
<1>12. CASE UNCHANGED bgVars
  BY <1>12 DEF bgVars, BgInv, Told, Sound, Watch, Here, Message
<1> QED
  BY <1>1, <1>2, <1>3, <1>4, <1>5, <1>6, <1>7, <1>8, <1>9, <1>10, <1>11, <1>12
  DEF BgNext, Types

\* What the invariant says of a panel with an image.
LEMMA ImageIsShape ==
  ASSUME NEW o, bg \in Backgrounds, bg.image \in Images \ BrokenImages, bg.loaded = bg.image,
         bg.region \in Regions, BgAssumption
  PROVE  ImageFor(o) = ShapeFor(bg, o)
<1>1. DOMAIN bg.region = {"orient", "at", "size"} BY DEF BgAssumption
<1> DEFINE r == [bg.region EXCEPT !.orient = o]
           b == [bg EXCEPT !.loaded = bg.image, !.region.orient = o]
<1>2. r.orient = o /\ r.size = bg.region.size BY <1>1
<1>3. b.region = r /\ b.loaded = bg.image /\ b.rotate = bg.rotate /\ b.style = bg.style
  BY DEF Backgrounds
<1> HIDE DEF r, b
<1>4. Scaled(b) = ShapeFor(bg, o) BY <1>2, <1>3 DEF Scaled, ShapeFor
<1> QED BY <1>4 DEF ImageFor, b

\* The invariant says that what is painted is what is wanted, with the exceptions.
LEMMA PaintedHolds ==
  ASSUME BgAssumption, BgInv
  PROVE  PaintedAsWanted
<1> SUFFICES ASSUME bg.realized, bg.transformed, ~rootLate
             PROVE  bg.drawn = WantedLook(ImageNow) \/ KeptSize \/ KeptFit \/ KeptTheme
  BY DEF PaintedAsWanted
<1>1. /\ bg \in Backgrounds /\ rootPix \in 1..2 \cup {None} /\ root \in 0..2
      /\ Here.bg = bg /\ Here.pix = rootPix
  BY HereIs DEF BgInv
<1>2. /\ bg.alpha = Clear(bg) /\ Watch(Here, FALSE) /\ bg.region # NoRegion
      /\ PatternFits(Here) /\ ScaledFits(bg) /\ Drawn(bg)
  BY <1>1 DEF BgInv, Sound
<1>3. /\ bg.type \in Types /\ bg.colour \in Colours /\ bg.region \in Regions
  BY <1>1, <1>2 DEF Backgrounds
<1>4. bg.watches => rootPix = IF root = 0 THEN None ELSE root BY <1>1, <1>2 DEF Watch
<1>5. None \notin 1..2 BY DEF BgAssumption
<1>6. bg.desktop # None =>
        bg.desktop.region = bg.region /\ bg.desktop.root = rootPix
  BY <1>1, <1>2 DEF Watch
<1>7. bg.desktop # None => bg.desktop = [root |-> rootPix, region |-> bg.region]
  <2>1. bg.desktop # None => bg.desktop \in Desktops BY <1>1 DEF Backgrounds
  <2> QED BY <1>6, <2>1 DEF Desktops
<1>8. CASE bg.type = "none"
  <2>1. Painted(bg) = [theme |-> bg.theme, size |-> bg.region.size]
    BY <1>8 DEF Painted, Effective
  <2>2. WantedLook(ImageNow) = [theme |-> bg.theme, size |-> bg.region.size] BY <1>8 DEF WantedLook
  <2> QED BY <1>2, <1>8, <2>1, <2>2 DEF Drawn
<1>9. CASE bg.type = "color"
  <2>1. bg.drawn = Painted(bg) BY <1>2, <1>9 DEF Drawn
  <2>2. bg.alpha = (bg.colour = "glass") BY <1>2, <1>9 DEF Clear
  <2>3. CASE bg.colour = "solid"
    <3>1. Painted(bg) = [colour |-> bg.colour] BY <1>9, <2>2, <2>3 DEF Painted, Effective
    <3>2. WantedLook(ImageNow) = [colour |-> bg.colour] BY <1>9, <2>3 DEF WantedLook
    <3> QED BY <2>1, <3>1, <3>2
  <2>4. CASE bg.colour = "glass"
    <3>1. Lays(bg) /\ LaidOver(bg) = "glass" BY <1>9, <2>2, <2>4 DEF Lays, LaidOver
    <3>2. /\ bg.watches
          /\ rootPix = None => bg.pattern = None
          /\ rootPix # None =>
               /\ bg.pattern # None /\ bg.pattern.what = "glass" /\ bg.pattern.over = bg.desktop
               /\ bg.desktop # None /\ bg.pattern.size = bg.region.size
      BY <1>1, <1>2, <1>9, <2>2, <2>4, <3>1 DEF PatternFits
    <3>3. CASE root = 0
      <4>1. bg.pattern = None BY <1>4, <3>2, <3>3
      <4>2. Painted(bg) = [colour |-> bg.colour] BY <1>9, <4>1 DEF Painted, Effective
      <4>3. WantedLook(ImageNow) = [colour |-> bg.colour] BY <1>9, <3>3 DEF WantedLook
      <4> QED BY <2>1, <4>2, <4>3
    <3>4. CASE root # 0
      <4>1. rootPix = root /\ rootPix # None BY <1>1, <1>4, <1>5, <3>2, <3>4
      <4>2. Painted(bg) = bg.pattern
        BY <1>9, <2>2, <2>4, <3>2, <4>1 DEF Painted, Effective
      <4>3. bg.pattern \in Patterns BY <1>1, <3>2, <4>1 DEF Backgrounds
      <4>4. bg.pattern = [what |-> "glass", size |-> bg.region.size,
                          over |-> [root |-> root, region |-> bg.region]]
        BY <1>7, <3>2, <4>1, <4>3 DEF Patterns
      <4>5. WantedLook(ImageNow) = [what |-> "glass", size |-> bg.region.size,
                                over |-> [root |-> root, region |-> bg.region]]
        BY <1>9, <2>4, <3>4 DEF WantedLook, BehindNow
      <4> QED BY <2>1, <4>2, <4>4, <4>5
    <3> QED BY <3>3, <3>4
  <2> QED BY <1>3, <2>3, <2>4 DEF Colours
<1>10. CASE bg.type = "image"
  <2>1. bg.loaded = LoadedNow(bg) BY <1>2, <1>10 DEF ScaledFits
  <2>2. CASE bg.pattern = None /\ bg.drawn = [theme |-> 1 - bg.theme, size |-> bg.region.size]
    BY <1>10, <2>2 DEF KeptTheme
  <2>3. CASE bg.pattern = None /\ bg.drawn = Painted(bg)
    <3>1. bg.drawn = [theme |-> bg.theme, size |-> bg.region.size]
      BY <1>10, <2>3 DEF Painted, Effective
    <3>2. ~Readable \/ root = 0
      <4> SUFFICES ASSUME Readable, root # 0 PROVE FALSE OBVIOUS
      <4>1. bg.loaded # None BY <2>1 DEF LoadedNow, Readable, BgAssumption
      <4>2. bg.scaled # None
        <5>1. \A o \in Orients : ShapeFor(bg, o) # None BY <1>1, <4>1, ShapeTyped
        <5>2. bg.region.orient \in Orients BY <1>3 DEF BgAssumption
        <5> QED BY <1>2, <1>10, <4>1, <5>1, <5>2 DEF ScaledFits
      <4>3. Lays(bg) BY <1>10, <4>2 DEF Lays
      <4>4. bg.watches /\ (rootPix # None => bg.pattern # None)
        BY <1>1, <1>2, <4>3 DEF PatternFits
      <4> QED BY <1>1, <1>4, <1>5, <2>3, <4>4
    <3>3. WantedLook(ImageNow) = [theme |-> bg.theme, size |-> bg.region.size]
      BY <1>10, <3>2 DEF WantedLook
    <3> QED BY <3>1, <3>3
  <2>4. CASE bg.pattern # None
    <3>1. bg.drawn = bg.pattern BY <1>2, <1>10, <2>4 DEF Drawn, Painted, Effective
    <3>2. Lays(bg) /\ rootPix # None /\ bg.watches
      BY <1>1, <1>2, <2>4 DEF PatternFits
    <3>3. bg.scaled # None /\ LaidOver(bg) = bg.scaled BY <1>10, <3>2 DEF Lays, LaidOver
    <3>4. bg.loaded # None BY <1>2, <1>10, <3>3 DEF ScaledFits
    <3>5. bg.image \in Images \ BrokenImages /\ bg.loaded = bg.image /\ Readable
      BY <2>1, <3>4 DEF LoadedNow, Readable
    <3>6. root # 0 /\ rootPix = root BY <1>4, <3>2
    <3>7. /\ bg.pattern.what = bg.scaled
          /\ bg.pattern.over = (IF bg.alpha THEN bg.desktop ELSE None)
          /\ bg.alpha => bg.desktop # None
          /\ \/ bg.pattern.size = bg.region.size
             \/ ~bg.alpha /\ bg.style = "none"
      BY <1>1, <1>2, <3>2, <3>3 DEF PatternFits
    <3>8. bg.alpha <=> bg.image \in ClearImages BY <1>2, <1>10, <3>5 DEF Clear
    <3>9. bg.pattern.over = IF bg.image \in ClearImages THEN BehindNow ELSE None
      BY <1>7, <3>6, <3>7, <3>8 DEF BehindNow
    <3>10. bg.pattern \in Patterns BY <1>1, <2>4 DEF Backgrounds
    <3>11. bg.pattern = [what |-> bg.scaled, size |-> bg.pattern.size, over |-> bg.pattern.over]
      BY <3>7, <3>10 DEF Patterns
    <3>12. \A i : WantedLook(i) = [what |-> i, size |-> bg.region.size,
                               over |-> IF bg.image \in ClearImages THEN BehindNow ELSE None]
      BY <1>10, <3>5, <3>6 DEF WantedLook
    <3>13. \A o : ImageFor(o) = ShapeFor(bg, o) BY <1>1, <1>3, <3>5, ImageIsShape
    <3>14. CASE bg.pattern.size = bg.region.size /\ bg.scaled = ShapeFor(bg, bg.region.orient)
      <4>1. bg.scaled = ImageNow BY <3>13, <3>14 DEF ImageNow
      <4> QED BY <3>1, <3>9, <3>11, <3>12, <3>14, <4>1
    <3>15. CASE /\ bg.pattern.size = bg.region.size
                /\ bg.style = "fit" /\ ~bg.rotate /\ bg.region.size \in Squares
                /\ \E o \in Orients : bg.scaled = ShapeFor(bg, o)
      <4>1. PICK o \in Orients : bg.scaled = ImageFor(o) BY <3>13, <3>15
      <4>2. bg.drawn = WantedLook(ImageFor(o)) BY <3>1, <3>9, <3>11, <3>12, <3>15, <4>1
      <4> QED BY <1>10, <3>15, <4>2 DEF KeptFit
    <3>16. CASE ~bg.alpha /\ bg.style = "none"
      <4>1. bg.scaled = ImageNow
        <5>1. bg.scaled = ShapeFor(bg, bg.region.orient)
          BY <1>2, <1>10, <3>4, <3>16 DEF ScaledFits
        <5> QED BY <3>13, <5>1 DEF ImageNow
      <4>2. bg.image \in Images \ ClearImages BY <3>5, <3>8, <3>16
      <4> QED BY <1>10, <2>4, <3>1, <3>7, <3>16, <4>1, <4>2 DEF KeptSize
    <3> QED BY <1>2, <1>10, <3>4, <3>7, <3>14, <3>15, <3>16 DEF ScaledFits
  <2> QED BY <1>2, <2>2, <2>3, <2>4 DEF Drawn
<1> QED BY <1>3, <1>8, <1>9, <1>10 DEF Types

\* A realized background is painted as the settings, the place and the desktop of
\* now want it, and the applet was told of what is painted (panel_background_prepare).
THEOREM BackgroundFits == BgAssumption /\ BgSpec => []PaintedAsWanted /\ []ToldIsPainted
<1> DEFINE Inv == BgInv /\ Told
<1> SUFFICES ASSUME BgAssumption PROVE BgSpec => []PaintedAsWanted /\ []ToldIsPainted OBVIOUS
<1>1. BgInit => Inv BY BgInitHolds
<1>2. Inv /\ [BgNext]_bgVars => Inv' BY BgNextKeeps
<1>3. Inv => PaintedAsWanted BY PaintedHolds
<1>4. Inv => ToldIsPainted BY DEF Told, ToldIsPainted
<1> HIDE DEF Inv
<1> QED BY <1>1, <1>2, <1>3, <1>4, PTL DEF BgSpec

-----------------------------------------------------------------------------
(* The run dialog: an idle handler that looks up the text is queued, or has
   found its application. *)

Runs ==
  [open : BOOLEAN, text : Texts, useList : BOOLEAN, path : Texts, name : Texts, icon : Texts,
   picture : Texts, loaded : BOOLEAN, find : BOOLEAN, visible : SUBSET Apps,
   steady : BOOLEAN, pasted : BOOLEAN, runnable : BOOLEAN]

\* A list will be filled.
Filling == TRUE \in ToSet(idles)

\* The dialog r, with the setting of the list, and whether the list will be filled.
DialogFits(r, enabled, filling) ==
  /\ r \in Runs
  /\ ~r.open => ~filling
  /\ r.open /\ r.steady =>
       /\ ~enabled => ~r.loaded /\ ~filling
       /\ enabled /\ ~r.loaded => filling
  /\ r.text # Empty => r.runnable
  /\ r.useList /\ ~r.pasted =>
       r.path = r.text /\ r.text \in Apps /\ r.picture = r.text /\ r.loaded
  /\ ~r.pasted => r.name \in {Empty, AppOf(r.text)}
  /\ r.icon # Empty => r.picture \in {r.icon, Empty}
  /\ r.open /\ r.steady /\ enabled /\ ~r.useList /\ ~r.pasted /\ r.text # Empty /\ ~r.find =>
       \/ r.picture = AppOf(r.text)
       \/ r.picture = Empty /\ r.icon = AppOf(r.text)

RunInv ==
  /\ idles \in Seq(BOOLEAN) /\ listEnabled \in BOOLEAN
  /\ DialogFits(run, listEnabled, Filling)

\* Once the dialog is gone no idle handler fills it.
LEMMA DestroyedFillsNothing ==
  ASSUME idles \in Seq(BOOLEAN)
  PROVE  Destroyed \in Seq(BOOLEAN) /\ TRUE \notin ToSet(Destroyed)
<1>1. Forgotten \in Seq(BOOLEAN) /\ Len(Forgotten) = Len(idles)
      /\ \A i \in 1 .. Len(Forgotten) : Forgotten[i] = FALSE
  <2>1. DOMAIN idles = 1 .. Len(idles) /\ Len(idles) \in Nat OBVIOUS
  <2>2. Forgotten = [i \in 1 .. Len(idles) |-> FALSE] BY <2>1 DEF Forgotten
  <2> QED BY <2>1, <2>2
<1>2. TRUE \notin ToSet(Forgotten)
  <2>1. \A i \in DOMAIN Forgotten : Forgotten[i] = FALSE BY DEF Forgotten
  <2>2. \A x \in ToSet(Forgotten) : x = FALSE BY <2>1, Zenon DEF ToSet
  <2> QED BY <2>2
<1>3. CASE idles # <<>> /\ Last(idles) /\ ~run.loaded
  <2>1. Len(Forgotten) \in Nat \ {0} BY <1>1, <1>3
  <2>2. Destroyed = SubSeq(Forgotten, 1, Len(Forgotten) - 1)
    BY <1>3 DEF Destroyed, Front
  <2>3. Destroyed \in Seq(BOOLEAN) /\ Len(Destroyed) = Len(Forgotten) - 1
        /\ \A i \in 1 .. Len(Destroyed) : Destroyed[i] = Forgotten[i]
    <3> HIDE DEF Forgotten, Destroyed
    <3> QED BY <1>1, <2>1, <2>2
  <2>4. \A i \in DOMAIN Destroyed : Destroyed[i] = FALSE
    <3>1. DOMAIN Destroyed = 1 .. Len(Destroyed) BY <2>3
    <3>2. 1 .. Len(Destroyed) \subseteq 1 .. Len(Forgotten) BY <2>1, <2>3
    <3> QED BY <1>1, <2>3, <3>1, <3>2
  <2>5. \A x \in ToSet(Destroyed) : x = FALSE BY <2>4, Zenon DEF ToSet
  <2> QED BY <2>3, <2>5
<1>4. CASE ~(idles # <<>> /\ Last(idles) /\ ~run.loaded)
  BY <1>1, <1>2, <1>4 DEF Destroyed
<1> QED BY <1>3, <1>4

\* A dialog that is closed, and one that was just opened.
LEMMA ClosedFits ==
  ASSUME NEW enabled \in BOOLEAN, NEW filling \in BOOLEAN,
         NEW r \in {Closed, [Closed EXCEPT !.open = TRUE]},
         r = Closed => ~filling, r # Closed => filling = enabled
  PROVE  DialogFits(r, enabled, filling)
<1> DEFINE o == [Closed EXCEPT !.open = TRUE]
<1>1. Closed \in Runs BY DEF Closed, Runs, Texts
<1>2. o \in Runs BY <1>1 DEF Runs
<1>3. /\ Closed.open = FALSE /\ Closed.text = Empty /\ Closed.useList = FALSE
      /\ Closed.loaded = FALSE /\ Closed.name = Empty /\ Closed.icon = Empty
  BY DEF Closed
<1>4. /\ o.open = TRUE /\ o.text = Empty /\ o.useList = FALSE
      /\ o.loaded = FALSE /\ o.name = Empty /\ o.icon = Empty
  BY <1>1, <1>3 DEF Runs
<1>5. Closed # o BY <1>3, <1>4
<1> HIDE DEF o
<1>6. CASE r = Closed BY <1>1, <1>3, <1>6 DEF DialogFits
<1>7. CASE r = o
  <2>1. filling = enabled BY <1>5, <1>7
  <2> QED BY <1>2, <1>4, <1>7, <2>1 DEF DialogFits
<1> QED BY <1>6, <1>7 DEF o

\* What a change of the text does to the dialog that had r.
LEMMA ChangedIs ==
  ASSUME RunAssumption, listEnabled \in BOOLEAN, NEW r \in Runs, NEW c, c = Changed(r)
  PROVE  /\ c \in Runs
         /\ c.open = r.open /\ c.text = r.text /\ c.useList = r.useList /\ c.icon = r.icon
         /\ c.loaded = r.loaded /\ c.steady = r.steady /\ c.pasted = r.pasted
         /\ c.runnable = (r.text # Empty)
         /\ c.path = IF r.useList THEN r.path ELSE Empty
         /\ c.name = IF r.useList THEN r.name ELSE Empty
         /\ c.picture = IF r.text = Empty THEN Empty ELSE r.picture
         /\ listEnabled /\ ~r.useList /\ r.text # Empty => c.find
<1> DEFINE s == IF r.useList THEN r ELSE [r EXCEPT !.path = Empty, !.name = Empty]
           v == IF listEnabled /\ r.loaded THEN Apps ELSE s.visible
           f == s.find \/ (listEnabled /\ ~r.useList)
<1>1. s \in Runs
  <2>1. [r EXCEPT !.path = Empty, !.name = Empty] \in Runs BY DEF Runs, Texts
  <2> QED BY <2>1
<1>2. /\ s.open = r.open /\ s.text = r.text /\ s.useList = r.useList /\ s.icon = r.icon
      /\ s.loaded = r.loaded /\ s.steady = r.steady /\ s.pasted = r.pasted
      /\ s.path = (IF r.useList THEN r.path ELSE Empty)
      /\ s.name = (IF r.useList THEN r.name ELSE Empty)
      /\ s.picture = r.picture
  BY DEF Runs
<1>3. v \in SUBSET Apps /\ f \in BOOLEAN BY <1>1 DEF Runs
<1> DEFINE e == [s EXCEPT !.runnable = FALSE, !.picture = Empty, !.find = FALSE, !.visible = v]
           g == [s EXCEPT !.runnable = TRUE, !.find = f]
<1>4. c = IF r.text = Empty THEN e ELSE g BY DEF Changed
<1> HIDE DEF s, v, f
<1>5. CASE r.text = Empty
  <2>1. c = e BY <1>4, <1>5
  <2>2. e \in Runs BY <1>1, <1>3 DEF Runs, Texts
  <2>3. /\ e.open = s.open /\ e.text = s.text /\ e.useList = s.useList /\ e.icon = s.icon
        /\ e.loaded = s.loaded /\ e.steady = s.steady /\ e.pasted = s.pasted
        /\ e.path = s.path /\ e.name = s.name /\ e.picture = Empty /\ e.runnable = FALSE
    BY <1>1 DEF Runs
  <2> HIDE DEF e
  <2> QED BY <1>2, <1>5, <2>1, <2>2, <2>3
<1>6. CASE r.text # Empty
  <2>1. c = g BY <1>4, <1>6
  <2>2. g \in Runs BY <1>1, <1>3 DEF Runs, Texts
  <2>3. /\ g.open = s.open /\ g.text = s.text /\ g.useList = s.useList /\ g.icon = s.icon
        /\ g.loaded = s.loaded /\ g.steady = s.steady /\ g.pasted = s.pasted
        /\ g.path = s.path /\ g.name = s.name /\ g.picture = s.picture /\ g.runnable = TRUE
        /\ g.find = f
    BY <1>1 DEF Runs
  <2> HIDE DEF g
  <2>4. listEnabled /\ ~r.useList => f BY DEF f
  <2> QED BY <1>2, <1>6, <2>1, <2>2, <2>3, <2>4
<1> QED BY <1>5, <1>6

\* There is no dialog at first.
LEMMA RunInitHolds == RunInit => RunInv
<1> SUFFICES ASSUME RunInit PROVE RunInv OBVIOUS
<1>1. idles = <<>> /\ listEnabled = TRUE /\ run = Closed BY DEF RunInit
<1>2. ~Filling BY <1>1 DEF Filling, ToSet
<1>3. DialogFits(Closed, listEnabled, Filling)
  <2>1. listEnabled \in BOOLEAN /\ Filling \in BOOLEAN BY <1>1 DEF Filling
  <2> QED BY <1>2, <2>1, ClosedFits
<1>4. idles \in Seq(BOOLEAN) BY <1>1
<1>5. listEnabled \in BOOLEAN BY <1>1
<1> QED BY <1>1, <1>3, <1>4, <1>5 DEF RunInv

\* Queueing adds a handler that fills the list, where it is enabled and not loaded.
LEMMA QueuedFills ==
  ASSUME idles \in Seq(BOOLEAN), NEW r
  PROVE  /\ Queued(r) \in Seq(BOOLEAN)
         /\ listEnabled' /\ ~r.loaded => TRUE \in ToSet(Queued(r))
         /\ ~(listEnabled' /\ ~r.loaded) => Queued(r) = idles
         /\ Filling => TRUE \in ToSet(Queued(r))
<1>1. /\ Append(idles, TRUE) \in Seq(BOOLEAN)
      /\ ToSet(Append(idles, TRUE)) = ToSet(idles) \union {TRUE}
  <2>1. TRUE \in BOOLEAN OBVIOUS
  <2> QED BY <2>1, AppendAdds
<1> QED BY <1>1 DEF Queued, Filling

\* Every step of the run dialog keeps the invariant.
LEMMA RunNextKeeps ==
  ASSUME RunAssumption, RunInv, [RunNext]_runVars
  PROVE  RunInv'
<1>1. /\ idles \in Seq(BOOLEAN) /\ listEnabled \in BOOLEAN
      /\ DialogFits(run, listEnabled, Filling) /\ run \in Runs
  BY DEF RunInv, DialogFits
<1>2. Empty \notin Apps BY DEF RunAssumption
<1>3. \A t \in Texts : AppOf(t) \in Texts BY DEF AppOf, Texts
<1>4. CASE Present
  <2>1. listEnabled' = listEnabled BY <1>4 DEF Present
  <2>2. CASE run.open
    <3>1. UNCHANGED <<run, idles>> BY <1>4, <2>2 DEF Present
    <3> QED BY <1>1, <2>1, <3>1 DEF RunInv, Filling
  <2>3. CASE ~run.open
    <3>1. run' = [Closed EXCEPT !.open = TRUE] /\ idles' = Queued(run')
      BY <1>4, <2>3 DEF Present
    <3>2. run'.loaded = FALSE BY <3>1 DEF Closed
    <3>3. ~Filling BY <1>1, <2>3 DEF DialogFits
    <3>4. idles' \in Seq(BOOLEAN) /\ Filling' = listEnabled'
      <4>1. PICK r : r = run' OBVIOUS
      <4>2. /\ Queued(r) \in Seq(BOOLEAN)
            /\ listEnabled' /\ ~r.loaded => TRUE \in ToSet(Queued(r))
            /\ ~(listEnabled' /\ ~r.loaded) => Queued(r) = idles
        BY <1>1, QueuedFills
      <4>3. idles' = Queued(r) BY <3>1, <4>1
      <4>4. listEnabled' => Filling' BY <3>2, <4>1, <4>2, <4>3 DEF Filling
      <4>5. ~listEnabled' => ~Filling' BY <3>3, <4>2, <4>3 DEF Filling
      <4>6. Filling' \in BOOLEAN BY DEF Filling
      <4> QED BY <1>1, <2>1, <4>2, <4>3, <4>4, <4>5, <4>6
    <3>5. DialogFits(run', listEnabled', Filling')
      <4>1. Filling' \in BOOLEAN BY DEF Filling
      <4>2. run' # Closed
        <5>1. Closed.open = FALSE BY DEF Closed
        <5>2. run'.open = TRUE BY <3>1 DEF Closed
        <5> QED BY <5>1, <5>2
      <4> QED BY <1>1, <2>1, <3>1, <3>4, <4>1, <4>2, ClosedFits
    <3> QED BY <1>1, <2>1, <3>4, <3>5 DEF RunInv
  <2> QED BY <2>2, <2>3
<1>5. ASSUME NEW e \in BOOLEAN, ChangeListSetting(e) PROVE RunInv'
  <2> DEFINE s == run.steady /\ e = listEnabled
             r == [run EXCEPT !.steady = s]
  <2>1. run.open /\ listEnabled' = e /\ run' = r /\ idles' = Queued(run)
    BY <1>5 DEF ChangeListSetting
  <2>2. s \in BOOLEAN OBVIOUS
  <2>3. s => run.steady /\ e = listEnabled OBVIOUS
  <2> HIDE DEF s
  <2>4. r \in Runs BY <1>1, <2>2 DEF Runs
  <2>5. /\ r.open = run.open /\ r.text = run.text /\ r.useList = run.useList
        /\ r.path = run.path /\ r.name = run.name /\ r.icon = run.icon
        /\ r.picture = run.picture /\ r.loaded = run.loaded /\ r.find = run.find
        /\ r.steady = s /\ r.pasted = run.pasted /\ r.runnable = run.runnable
    BY <1>1 DEF Runs
  <2> HIDE DEF r
  <2>6. /\ idles' \in Seq(BOOLEAN)
        /\ e /\ ~run.loaded => Filling'
        /\ ~(e /\ ~run.loaded) => Filling' = Filling
        /\ Filling => Filling'
    <3>1. /\ Queued(run) \in Seq(BOOLEAN)
          /\ e /\ ~run.loaded => TRUE \in ToSet(Queued(run))
          /\ ~(e /\ ~run.loaded) => Queued(run) = idles
          /\ Filling => TRUE \in ToSet(Queued(run))
      BY <1>1, <2>1, QueuedFills
    <3> QED BY <2>1, <3>1 DEF Filling
  <2>7. DialogFits(r, e, Filling') BY <1>1, <2>1, <2>3, <2>4, <2>5, <2>6 DEF DialogFits
  <2> QED BY <2>1, <2>6, <2>7 DEF RunInv
<1>6. CASE ChangeNoCommands
  <2>1. UNCHANGED <<run, idles, listEnabled>> BY <1>6 DEF ChangeNoCommands
  <2> QED BY <1>1, <2>1 DEF RunInv, Filling
<1>7. ASSUME NEW t \in Texts, TypeText(t) PROVE RunInv'
  <2> DEFINE k == [run EXCEPT !.useList = FALSE]
             r == [k EXCEPT !.text = t, !.pasted = FALSE]
  <2>1. /\ run.open /\ UNCHANGED <<idles, listEnabled>>
        /\ run' = k \/ run' = Changed(r)
    BY <1>7 DEF TypeText
  <2>2. k \in Runs /\ r \in Runs BY <1>1 DEF Runs
  <2>3. /\ r.open = run.open /\ r.text = t /\ r.useList = FALSE /\ r.icon = run.icon
        /\ r.picture = run.picture /\ r.loaded = run.loaded /\ r.steady = run.steady
        /\ r.pasted = FALSE
    BY <1>1 DEF Runs
  <2>4. /\ k.open = run.open /\ k.text = run.text /\ k.useList = FALSE
        /\ k.path = run.path /\ k.name = run.name /\ k.icon = run.icon
        /\ k.picture = run.picture /\ k.loaded = run.loaded /\ k.find = run.find
        /\ k.steady = run.steady /\ k.pasted = run.pasted /\ k.runnable = run.runnable
    BY <1>1 DEF Runs
  <2> HIDE DEF r, k
  <2>5. CASE run' = k
    <3>1. run.text \in Apps => AppOf(run.text) = run.text BY DEF AppOf
    <3>2. DialogFits(k, listEnabled, Filling) BY <1>1, <2>2, <2>4, <3>1 DEF DialogFits
    <3> QED BY <1>1, <2>1, <2>5, <3>2 DEF RunInv, Filling
  <2>6. CASE run' = Changed(r)
    <3>1. PICK c : c = Changed(r) OBVIOUS
    <3>2. /\ c \in Runs
          /\ c.open = r.open /\ c.text = r.text /\ c.useList = r.useList /\ c.icon = r.icon
          /\ c.loaded = r.loaded /\ c.steady = r.steady /\ c.pasted = r.pasted
          /\ c.runnable = (r.text # Empty)
          /\ c.name = (IF r.useList THEN r.name ELSE Empty)
          /\ c.picture = (IF r.text = Empty THEN Empty ELSE r.picture)
          /\ listEnabled /\ ~r.useList /\ r.text # Empty => c.find
      BY <1>1, <2>2, <3>1, ChangedIs
    <3>3. DialogFits(c, listEnabled, Filling) BY <1>1, <2>1, <2>3, <3>2 DEF DialogFits
    <3> QED BY <1>1, <2>1, <2>6, <3>1, <3>3 DEF RunInv, Filling
  <2> QED BY <2>1, <2>5, <2>6
<1>8. ASSUME NEW t \in Texts, PasteText(t) PROVE RunInv'
  <2> DEFINE r == [run EXCEPT !.text = t, !.pasted = run.useList]
  <2>1. run.open /\ run' = Changed(r) /\ UNCHANGED <<idles, listEnabled>>
    BY <1>8 DEF PasteText
  <2>2. r \in Runs BY <1>1 DEF Runs
  <2>3. /\ r.open = run.open /\ r.text = t /\ r.useList = run.useList /\ r.icon = run.icon
        /\ r.picture = run.picture /\ r.loaded = run.loaded /\ r.steady = run.steady
        /\ r.pasted = run.useList
    BY <1>1 DEF Runs
  <2> HIDE DEF r
  <2>4. PICK c : c = Changed(r) OBVIOUS
  <2>5. /\ c \in Runs
        /\ c.open = r.open /\ c.text = r.text /\ c.useList = r.useList /\ c.icon = r.icon
        /\ c.loaded = r.loaded /\ c.steady = r.steady /\ c.pasted = r.pasted
        /\ c.runnable = (r.text # Empty)
        /\ c.name = (IF r.useList THEN r.name ELSE Empty)
        /\ c.picture = (IF r.text = Empty THEN Empty ELSE r.picture)
        /\ listEnabled /\ ~r.useList /\ r.text # Empty => c.find
    BY <1>1, <2>2, <2>4, ChangedIs
  <2>6. DialogFits(c, listEnabled, Filling) BY <1>1, <2>1, <2>3, <2>5 DEF DialogFits
  <2> QED BY <1>1, <2>1, <2>4, <2>6 DEF RunInv, Filling
<1>9. ASSUME NEW a \in Apps, SelectProgram(a) PROVE RunInv'
  <2> DEFINE r == [run EXCEPT !.useList = TRUE, !.path = a, !.name = Empty,
                              !.text = a, !.pasted = FALSE]
             c == Changed(r)
             p == [c EXCEPT !.icon = Empty, !.picture = a]
  <2>1. run.open /\ run.loaded /\ run' = p /\ UNCHANGED <<idles, listEnabled>>
    BY <1>9 DEF SelectProgram
  <2>2. r \in Runs BY <1>1 DEF Runs, Texts
  <2>3. /\ r.open = run.open /\ r.text = a /\ r.useList = TRUE /\ r.path = a
        /\ r.loaded = run.loaded /\ r.steady = run.steady /\ r.pasted = FALSE
        /\ r.name = Empty
    BY <1>1 DEF Runs
  <2> HIDE DEF r
  <2>4. PICK k : k = Changed(r) OBVIOUS
  <2>5. /\ k \in Runs
        /\ k.open = r.open /\ k.text = r.text /\ k.useList = r.useList
        /\ k.loaded = r.loaded /\ k.steady = r.steady /\ k.pasted = r.pasted
        /\ k.path = (IF r.useList THEN r.path ELSE Empty)
        /\ k.name = (IF r.useList THEN r.name ELSE Empty)
        /\ k.runnable = (r.text # Empty)
    BY <1>1, <2>2, <2>4, ChangedIs
  <2>6. c = k BY <2>4
  <2> HIDE DEF c
  <2>7. p \in Runs BY <2>5, <2>6 DEF Runs, Texts
  <2>8. /\ p.open = c.open /\ p.text = c.text /\ p.useList = c.useList /\ p.path = c.path
        /\ p.loaded = c.loaded /\ p.steady = c.steady /\ p.pasted = c.pasted
        /\ p.runnable = c.runnable /\ p.icon = Empty /\ p.picture = a /\ p.name = c.name
    BY <2>5, <2>6 DEF Runs
  <2> HIDE DEF p
  <2>9. DialogFits(p, listEnabled, Filling)
    BY <1>1, <1>2, <2>1, <2>3, <2>5, <2>6, <2>7, <2>8 DEF DialogFits
  <2> QED BY <1>1, <2>1, <2>9 DEF RunInv, Filling
<1>10. CASE AddItems
  <2> DEFINE r == [run EXCEPT !.loaded = TRUE, !.visible = Apps]
  <2>1. idles # <<>> /\ Head(idles) /\ idles' = Tail(idles) /\ run' = r
        /\ listEnabled' = listEnabled
    BY <1>10 DEF AddItems
  <2>2. /\ Tail(idles) \in Seq(BOOLEAN) /\ Head(idles) \in BOOLEAN
        /\ ToSet(idles) = {Head(idles)} \union ToSet(Tail(idles))
    BY <1>1, <2>1, TailLeaves
  <2>3. Filling BY <2>1, <2>2 DEF Filling
  <2>4. run.open BY <1>1, <2>3 DEF DialogFits
  <2>5. r \in Runs BY <1>1 DEF Runs
  <2>6. /\ r.open = run.open /\ r.text = run.text /\ r.useList = run.useList
        /\ r.path = run.path /\ r.name = run.name /\ r.icon = run.icon
        /\ r.picture = run.picture /\ r.loaded = TRUE /\ r.find = run.find
        /\ r.steady = run.steady /\ r.pasted = run.pasted /\ r.runnable = run.runnable
    BY <1>1 DEF Runs
  <2> HIDE DEF r
  <2>7. DialogFits(r, listEnabled, Filling') BY <1>1, <2>3, <2>4, <2>5, <2>6 DEF DialogFits
  <2> QED BY <1>1, <2>1, <2>2, <2>7 DEF RunInv
<1>11. CASE AddItemsOfFreed
  <2>1. idles # <<>> /\ ~Head(idles) /\ idles' = Tail(idles) /\ UNCHANGED <<run, listEnabled>>
    BY <1>11 DEF AddItemsOfFreed
  <2>2. /\ Tail(idles) \in Seq(BOOLEAN) /\ Head(idles) \in BOOLEAN
        /\ ToSet(idles) = {Head(idles)} \union ToSet(Tail(idles))
    BY <1>1, <2>1, TailLeaves
  <2>3. Filling' <=> Filling BY <2>1, <2>2 DEF Filling
  <2>4. DialogFits(run, listEnabled, Filling') BY <1>1, <2>3 DEF DialogFits
  <2> QED BY <1>1, <2>1, <2>2, <2>4 DEF RunInv
<1>12. CASE FindCommand
  <2> DEFINE f == IF run.loaded THEN AppOf(run.text) ELSE Empty
             o == [run EXCEPT !.find = FALSE]
             w == WithIcon(o, f)
             v == {f} \cap Apps
             n == [w EXCEPT !.name = f, !.visible = v]
  <2>1. /\ run.open /\ run.find /\ (run.loaded \/ idles = <<>>)
        /\ run' = IF ~run.loaded THEN w ELSE n
        /\ UNCHANGED <<idles, listEnabled>>
    BY <1>12 DEF FindCommand
  <2>2. run.text \in Texts BY <1>1 DEF Runs
  <2>3. f \in Texts BY <1>3, <2>2 DEF Texts
  <2>4. o \in Runs BY <1>1 DEF Runs
  <2>5. /\ o.open = run.open /\ o.text = run.text /\ o.useList = run.useList
        /\ o.path = run.path /\ o.name = run.name /\ o.icon = run.icon
        /\ o.picture = run.picture /\ o.loaded = run.loaded
        /\ o.steady = run.steady /\ o.pasted = run.pasted /\ o.runnable = run.runnable
    BY <1>1 DEF Runs
  <2> HIDE DEF o
  <2>6. /\ w \in Runs
        /\ w.open = o.open /\ w.text = o.text /\ w.useList = o.useList
        /\ w.path = o.path /\ w.name = o.name /\ w.loaded = o.loaded
        /\ w.steady = o.steady /\ w.pasted = o.pasted /\ w.runnable = o.runnable
        /\ w.icon = f
        /\ w.picture = f \/ (f # Empty /\ f = o.icon /\ w.picture = o.picture)
    <3> DEFINE i == [o EXCEPT !.icon = f, !.picture = f]
    <3> HIDE DEF f
    <3>1. CASE f # Empty /\ f = o.icon
      <4>1. w = o BY <3>1 DEF WithIcon
      <4> QED BY <2>4, <3>1, <4>1
    <3>2. CASE ~(f # Empty /\ f = o.icon)
      <4>1. w = i BY <3>2 DEF WithIcon
      <4>2. i \in Runs BY <2>3, <2>4 DEF Runs
      <4>3. /\ i.open = o.open /\ i.text = o.text /\ i.useList = o.useList
            /\ i.path = o.path /\ i.name = o.name /\ i.loaded = o.loaded
            /\ i.steady = o.steady /\ i.pasted = o.pasted /\ i.runnable = o.runnable
            /\ i.icon = f /\ i.picture = f
        BY <2>4 DEF Runs
      <4> QED BY <4>1, <4>2, <4>3
    <3> QED BY <3>1, <3>2
  <2> HIDE DEF w
  <2>7. v \in SUBSET Apps OBVIOUS
  <2> HIDE DEF v
  <2>8. CASE ~run.loaded
    <3>1. run' = w /\ f = Empty /\ idles = <<>> BY <2>1, <2>8
    <3>2. ~Filling BY <3>1 DEF Filling, ToSet
    <3>3. DialogFits(w, listEnabled, Filling)
      BY <1>1, <2>1, <2>5, <2>6, <2>8, <3>1, <3>2 DEF DialogFits
    <3> QED BY <1>1, <2>1, <3>1, <3>3 DEF RunInv, Filling
  <2>9. CASE run.loaded
    <3>1. run' = n /\ f = AppOf(run.text) BY <2>1, <2>9
    <3> HIDE DEF f
    <3>2. n \in Runs BY <2>3, <2>6, <2>7 DEF Runs
    <3>3. /\ n.open = w.open /\ n.text = w.text /\ n.useList = w.useList
          /\ n.path = w.path /\ n.name = f /\ n.loaded = w.loaded
          /\ n.steady = w.steady /\ n.pasted = w.pasted /\ n.runnable = w.runnable
          /\ n.icon = w.icon /\ n.picture = w.picture
      BY <2>6 DEF Runs
    <3> HIDE DEF n
    <3>4. run.text \in Apps => f = run.text BY <3>1 DEF AppOf
    <3>5. DialogFits(n, listEnabled, Filling)
      BY <1>1, <2>1, <2>5, <2>6, <2>9, <3>1, <3>2, <3>3, <3>4 DEF DialogFits
    <3> QED BY <1>1, <2>1, <3>1, <3>5 DEF RunInv, Filling
  <2> QED BY <2>8, <2>9
<1>13. ASSUME run' = Closed, idles' = Destroyed, listEnabled' = listEnabled PROVE RunInv'
  <2>1. idles' \in Seq(BOOLEAN) /\ ~Filling'
    BY <1>1, <1>13, DestroyedFillsNothing DEF Filling
  <2>2. Filling' \in BOOLEAN BY DEF Filling
  <2>3. DialogFits(Closed, listEnabled, Filling') BY <1>1, <2>1, <2>2, ClosedFits
  <2> QED BY <1>1, <1>13, <2>1, <2>3 DEF RunInv
<1>14. ASSUME NEW w \in BOOLEAN, Execute(w) PROVE RunInv'
  <2>1. CASE w BY <1>13, <1>14, <2>1 DEF Execute
  <2>2. CASE ~w
    <3>1. UNCHANGED <<run, idles, listEnabled>> BY <1>14, <2>2 DEF Execute
    <3> QED BY <1>1, <3>1 DEF RunInv, Filling
  <2> QED BY <2>1, <2>2
<1>15. CASE Cancel BY <1>13, <1>15 DEF Cancel
<1>16. CASE UNCHANGED runVars
  <2>1. UNCHANGED <<run, idles, listEnabled>> BY <1>16 DEF runVars
  <2> QED BY <1>1, <2>1 DEF RunInv, Filling
<1> QED
  BY <1>4, <1>5, <1>6, <1>7, <1>8, <1>9, <1>10, <1>11, <1>12, <1>14, <1>15, <1>16 DEF RunNext

\* What is dragged off the run dialog is the launcher of the text that it shows, unless
\* the text of a chosen application was pasted over and nothing was typed into it since
\* (panel_run_dialog_find_command_idle, entry_event, pixmap_drag_data_get).
THEOREM DragFits == RunAssumption /\ RunSpec => []DragIsOfText
<1> SUFFICES ASSUME RunAssumption PROVE RunSpec => []DragIsOfText OBVIOUS
<1>1. RunInit => RunInv BY RunInitHolds
<1>2. RunInv /\ [RunNext]_runVars => RunInv' BY RunNextKeeps
<1>3. RunInv => DragIsOfText
  <2> SUFFICES ASSUME RunInv, run.open, run.text # Empty PROVE DragIsOfText
    BY DEF DragIsOfText
  <2>1. DialogFits(run, listEnabled, Filling) /\ listEnabled \in BOOLEAN BY DEF RunInv
  <2>2. Empty \notin Apps BY DEF RunAssumption
  <2>3. run.runnable BY <2>1 DEF DialogFits
  <2>4. CASE run.pasted BY <2>3, <2>4 DEF DragIsOfText
  <2>5. CASE run.useList /\ ~run.pasted
    <3>1. run.path = run.text /\ run.text \in Apps /\ run.picture = run.text
      BY <2>1, <2>5 DEF DialogFits
    <3>2. AppOf(run.text) = run.text BY <3>1 DEF AppOf
    <3> QED BY <2>3, <2>5, <3>1, <3>2 DEF DragIsOfText, Dragged
  <2>6. CASE ~run.useList /\ ~run.pasted
    <3>1. run.name \in {Empty, AppOf(run.text)} BY <2>1, <2>6 DEF DialogFits
    <3>2. Dragged = AppOf(run.text) BY <2>6, <3>1 DEF Dragged
    <3>3. ~run.find /\ run.loaded /\ run.steady => run.picture = AppOf(run.text) \/ Retyped
      BY <2>1, <2>6 DEF DialogFits, Retyped
    <3> QED BY <2>3, <3>2, <3>3 DEF DragIsOfText
  <2> QED BY <2>4, <2>5, <2>6
<1> QED BY <1>1, <1>2, <1>3, PTL DEF RunSpec

-----------------------------------------------------------------------------
(* The icons of the menus: an image that is empty waits in one of the lists. *)

\* What the loader's lists and the images hold.
IconsInv ==
  /\ toLoad \in Seq(MenuImages) /\ Waiting \subseteq MenuImages
  /\ theme \in Themes /\ size \in {0, 1}
  /\ mapped \subseteq visible /\ visible \subseteq MenuImages
  /\ \A i \in MenuImages \ overtaken : shows[i] \in {Blank, Picture(i)}
  /\ \A i \in Waiting \ overtaken : toAdd[i] = Picture(i)
  /\ IconsComeUp

\* A blank image is not one that shows something.
LEMMA PicturesAreNotBlank ==
  ASSUME IconsAssumption, theme \in Themes, size \in {0, 1}, NEW i \in MenuImages
  PROVE  /\ Picture(i) # Blank
         /\ Picture(i) = Themed <=> FileOf[theme][i] = Themed
BY DEF IconsAssumption, Picture, Key, Blank, Themes

\* The blank images of a menu that is shown are queued to be loaded.
LEMMA ShownQueues ==
  ASSUME IconsAssumption, toLoad \in Seq(MenuImages), NEW is \in SUBSET MenuImages, NEW now,
         Shown(is, now)
  PROVE  /\ toLoad' \in Seq(MenuImages)
         /\ ToSet(toLoad) \subseteq ToSet(toLoad')
         /\ \A i \in is : now[i] = Blank => i \in ToSet(toLoad')
<1> DEFINE empty == {i \in is : now[i] = Blank}
           added == empty \ ToSet(toLoad)
<1>1. added \in SUBSET MenuImages /\ IsFiniteSet(added)
  <2>1. added \subseteq MenuImages OBVIOUS
  <2> HIDE DEF added
  <2> QED BY <2>1, FS_Subset DEF IconsAssumption
<1>2. toLoad' = toLoad \o SetToSeq(added) BY DEF Shown
<1>3. SetToSeq(added) \in Seq(MenuImages) /\ ToSet(SetToSeq(added)) = added
  <2> HIDE DEF added
  <2> QED BY <1>1, SetToSeqHas
<1>4. toLoad' \in Seq(MenuImages) /\ ToSet(toLoad') = ToSet(toLoad) \cup added
  <2> HIDE DEF added
  <2> QED BY <1>2, <1>3, ConcatAdds
<1> QED BY <1>4

\* What the settings' steps leave as it was.
KeepsPictures == UNCHANGED <<theme, size, shows, toAdd, loaded, overtaken>>

\* Steps that only show or hide images keep the invariant.
LEMMA MappingKeeps ==
  ASSUME IconsAssumption, IconsInv, KeepsPictures,
         mapped' \subseteq visible', visible' \subseteq MenuImages,
         NEW is \in SUBSET MenuImages, Shown(is, shows),
         mapped' \subseteq mapped \cup is
  PROVE  IconsInv'
<1>1. toLoad' \in Seq(MenuImages) /\ ToSet(toLoad) \subseteq ToSet(toLoad')
      /\ \A i \in is : shows[i] = Blank => i \in ToSet(toLoad')
  BY ShownQueues DEF IconsInv
<1>2. Waiting' = Waiting /\ \A i : Picture(i)' = Picture(i) /\ (NoPicture(i)' <=> NoPicture(i))
  BY DEF KeepsPictures, Waiting, Picture, Key, NoPicture
<1>3. ASSUME NEW i \in mapped' \ overtaken'
      PROVE  \/ shows'[i] = Picture(i)'
             \/ i \in ToSet(toLoad') \cup Waiting'
             \/ shows'[i] = Blank /\ NoPicture(i)'
  <2>1. i \in MenuImages \ overtaken /\ shows' = shows BY DEF KeepsPictures
  <2>2. CASE i \in mapped BY <1>1, <1>2, <2>1, <2>2 DEF IconsInv, IconsComeUp
  <2>3. CASE i \in is BY <1>1, <1>2, <2>1, <2>3 DEF IconsInv
  <2> QED BY <2>2, <2>3
<1>4. IconsComeUp' BY <1>3 DEF IconsComeUp
<1> QED BY <1>1, <1>2, <1>4 DEF IconsInv, KeepsPictures

\* image_menu_shown
LEMMA MapMenuKeepsIcons ==
  ASSUME IconsAssumption, IconsInv, MapMenu
  PROVE  IconsInv'
BY MappingKeeps DEF MapMenu, KeepsPictures, IconsInv

\* Images of a menu are made visible.
LEMMA ShowImagesKeepsIcons ==
  ASSUME IconsAssumption, IconsInv, ShowImages
  PROVE  IconsInv'
<1>1. KeepsPictures /\ Shown(mapped' \ mapped, shows) BY DEF ShowImages, KeepsPictures
<1>2. mapped' \subseteq visible' /\ visible' \subseteq MenuImages BY DEF ShowImages
<1> QED BY <1>1, <1>2, MappingKeeps

\* The menu is popped down.
LEMMA UnmapMenuKeepsIcons ==
  ASSUME IconsInv, UnmapMenu
  PROVE  IconsInv'
<1>1. Waiting' = Waiting /\ \A i : Picture(i)' = Picture(i) /\ (NoPicture(i)' <=> NoPicture(i))
  BY DEF UnmapMenu, Waiting, Picture, Key, NoPicture
<1>2. IconsComeUp' BY DEF UnmapMenu, IconsComeUp
<1> QED BY <1>1, <1>2 DEF IconsInv, UnmapMenu

\* Images that are emptied, because the theme or the size changed, are queued again.
LEMMA EmptiedKeeps ==
  ASSUME IconsAssumption, IconsInv, NEW is \in SUBSET MenuImages, IconsEmptied(is),
         UNCHANGED <<mapped, visible, toAdd, loaded>>,
         theme' \in Themes, size' \in {0, 1},
         \A i \in MenuImages \ is :
           /\ shows[i] \in {Blank, Picture(i)} => shows[i] \in {Blank, Picture(i)'}
           /\ shows[i] = Picture(i) => shows[i] = Picture(i)'
           /\ NoPicture(i) => NoPicture(i)'
  PROVE  IconsInv'
<1>1. toLoad' \in Seq(MenuImages) /\ ToSet(toLoad) \subseteq ToSet(toLoad')
      /\ \A i \in mapped \cap is : shows'[i] = Blank => i \in ToSet(toLoad')
  <2>1. mapped \cap is \in SUBSET MenuImages BY DEF IconsInv
  <2> QED BY <2>1, ShownQueues DEF IconsInv, IconsEmptied
<1>2. Waiting' = Waiting BY DEF Waiting
<1>3. \A i \in MenuImages : shows'[i] = IF i \in is THEN Blank ELSE shows[i] BY DEF IconsEmptied
<1>4. \A i \in MenuImages \ overtaken' : i \notin Waiting /\ (i \in is \/ i \notin overtaken)
  BY DEF IconsEmptied
<1>5. ASSUME NEW i \in MenuImages \ overtaken' PROVE shows'[i] \in {Blank, Picture(i)'}
  BY <1>3, <1>4 DEF IconsInv
<1>6. ASSUME NEW i \in mapped' \ overtaken'
      PROVE  \/ shows'[i] = Picture(i)'
             \/ i \in ToSet(toLoad') \cup Waiting'
             \/ shows'[i] = Blank /\ NoPicture(i)'
  <2>1. i \in MenuImages /\ i \in mapped BY DEF IconsInv
  <2>2. CASE i \in is BY <1>1, <1>3, <2>1, <2>2
  <2>3. CASE i \notin is
    <3>1. i \notin overtaken /\ i \notin Waiting BY <1>4, <2>1, <2>3
    <3>2. \/ shows[i] = Picture(i)
          \/ i \in ToSet(toLoad)
          \/ shows[i] = Blank /\ NoPicture(i)
      BY <2>1, <3>1 DEF IconsInv, IconsComeUp
    <3> QED BY <1>1, <1>3, <2>1, <2>3, <3>2
  <2> QED BY <2>2, <2>3
<1>7. IconsComeUp' BY <1>6 DEF IconsComeUp
<1>8. \A i \in Waiting' \ overtaken' : toAdd'[i] = Picture(i)' BY <1>2, <1>4 DEF IconsInv
<1> QED BY <1>1, <1>2, <1>5, <1>7, <1>8 DEF IconsInv

\* icon_theme_changed, reload_image_menu_items
LEMMA ChangeIconThemeKeepsIcons ==
  ASSUME IconsAssumption, IconsInv, NEW t \in Themes, ChangeIconTheme(t)
  PROVE  IconsInv'
<1>1. IconsEmptied(MenuImages) /\ UNCHANGED <<mapped, visible, toAdd, loaded>>
      /\ theme' \in Themes /\ size' \in {0, 1}
  BY DEF ChangeIconTheme, IconsInv
<1> QED BY <1>1, EmptiedKeeps

\* menu_item_style_updated
LEMMA ChangeIconSizeKeepsIcons ==
  ASSUME IconsAssumption, IconsInv, ChangeIconSize
  PROVE  IconsInv'
<1> DEFINE is == {i \in MenuImages : shows[i] \notin {Blank, Themed}}
<1>1. IconsEmptied(is) /\ UNCHANGED <<mapped, visible, toAdd, loaded>>
      /\ theme' = theme /\ theme \in Themes /\ size \in {0, 1} /\ size' \in {0, 1}
  BY DEF ChangeIconSize, IconsInv
<1>2. ASSUME NEW i \in MenuImages \ is
      PROVE  /\ shows[i] \in {Blank, Picture(i)} => shows[i] \in {Blank, Picture(i)'}
             /\ shows[i] = Picture(i) => shows[i] = Picture(i)'
             /\ NoPicture(i) => NoPicture(i)'
  <2>1. shows[i] \in {Blank, Themed} OBVIOUS
  <2>2. Picture(i) # Blank /\ (Picture(i) = Themed <=> FileOf[theme][i] = Themed)
    BY <1>1, PicturesAreNotBlank
  <2>3. FileOf[theme][i] = Themed => Picture(i)' = Themed BY <1>1 DEF Picture
  <2>4. NoPicture(i) => NoPicture(i)' BY <1>1 DEF NoPicture
  <2> QED BY <2>1, <2>2, <2>3, <2>4
<1>3. is \in SUBSET MenuImages OBVIOUS
<1> HIDE DEF is
<1> QED BY <1>1, <1>2, <1>3, EmptiedKeeps

\* load_icons_handler: each pass takes pictures from what was loaded before.
LEMMA LoadIconsKeepsIcons ==
  ASSUME IconsAssumption, IconsInv, LoadIcons
  PROVE  IconsInv'
<1> DEFINE upTo == IF SlowOnes = {} THEN Len(toLoad) ELSE Min(SlowOnes)
           taken == {i \in ToSet(SubSeq(toLoad, 1, upTo)) : i \in visible /\ ~NoPicture(i)}
           adds == Added(upTo)
<1>1. upTo \in 0 .. Len(toLoad)
  <2>1. DOMAIN toLoad = 1 .. Len(toLoad) /\ Len(toLoad) \in Nat BY DEF IconsInv
  <2>2. SlowOnes \in SUBSET Nat /\ SlowOnes \subseteq 1 .. Len(toLoad) BY <2>1 DEF SlowOnes
  <2>3. SlowOnes # {} => Min(SlowOnes) \in SlowOnes BY <2>2, MinInSet
  <2>4. CASE SlowOnes = {} BY <2>1, <2>4
  <2>5. CASE SlowOnes # {}
    <3>1. Min(SlowOnes) \in 1 .. Len(toLoad) BY <2>2, <2>3, <2>5
    <3> QED BY <2>1, <2>5, <3>1
  <2> QED BY <2>4, <2>5
<1>2. toLoad' = SubSeq(toLoad, upTo + 1, Len(toLoad))
      /\ toAdd' = (IF SlowOnes = {} THEN <<>> ELSE adds)
      /\ shows' = (IF SlowOnes # {} THEN shows
                   ELSE [i \in MenuImages |-> IF i \in DOMAIN adds THEN adds[i] ELSE shows[i]])
      /\ UNCHANGED <<theme, size, mapped, visible, overtaken>>
  BY DEF LoadIcons
<1>3. adds = [i \in taken \cup Waiting |-> IF i \in Waiting THEN toAdd[i] ELSE Picture(i)]
  BY DEF Added
<1> HIDE DEF upTo
<1> DEFINE front == SubSeq(toLoad, 1, upTo)
<1>4. front \in Seq(MenuImages) /\ toLoad' \in Seq(MenuImages)
      /\ ToSet(toLoad) = ToSet(front) \cup ToSet(toLoad')
  BY <1>1, <1>2, SplitAt DEF IconsInv
<1>5. taken = {i \in ToSet(front) : i \in visible /\ ~NoPicture(i)} OBVIOUS
<1> HIDE DEF taken, adds, front
<1>6. DOMAIN adds = taken \cup Waiting
      /\ \A i \in taken \cup Waiting : adds[i] = IF i \in Waiting THEN toAdd[i] ELSE Picture(i)
  BY <1>3
<1>7. taken \cup Waiting \subseteq MenuImages BY <1>5 DEF IconsInv
<1>8. \A i \in taken \cup Waiting : i \notin overtaken => adds[i] = Picture(i)
  BY <1>6 DEF IconsInv
<1>9. \A i : Picture(i)' = Picture(i) /\ (NoPicture(i)' <=> NoPicture(i))
  BY <1>2 DEF Picture, Key, NoPicture
<1>10. ASSUME NEW i \in mapped \ overtaken
       PROVE  \/ shows[i] = Picture(i)
              \/ i \in ToSet(toLoad') \cup taken \cup Waiting
              \/ shows[i] = Blank /\ NoPicture(i)
  <2>1. i \in MenuImages /\ i \in visible /\ shows[i] \in {Blank, Picture(i)} BY DEF IconsInv
  <2>2. \/ shows[i] = Picture(i)
        \/ i \in ToSet(toLoad) \cup Waiting
        \/ shows[i] = Blank /\ NoPicture(i)
    BY DEF IconsInv, IconsComeUp
  <2>3. i \in ToSet(front) => i \in taken \/ NoPicture(i) BY <1>5, <2>1
  <2> QED BY <1>4, <2>1, <2>2, <2>3
<1>11. CASE SlowOnes # {}
  <2>1. shows' = shows /\ toAdd' = adds /\ Waiting' = taken \cup Waiting
    BY <1>2, <1>6, <1>11 DEF Waiting
  <2>2. IconsComeUp' BY <1>2, <1>9, <1>10, <2>1 DEF IconsComeUp
  <2>3. \A i \in Waiting' \ overtaken' : toAdd'[i] = Picture(i)' BY <1>2, <1>8, <1>9, <2>1
  <2> QED BY <1>2, <1>4, <1>7, <1>9, <2>1, <2>2, <2>3 DEF IconsInv
<1>12. CASE SlowOnes = {}
  <2>1. Waiting' = {} BY <1>2, <1>12 DEF Waiting
  <2>2. \A i \in MenuImages :
          shows'[i] = IF i \in taken \cup Waiting THEN adds[i] ELSE shows[i]
    BY <1>2, <1>6, <1>12
  <2>3. IconsComeUp'
    <3>1. ASSUME NEW i \in mapped \ overtaken
          PROVE  \/ shows'[i] = Picture(i)
                 \/ i \in ToSet(toLoad')
                 \/ shows'[i] = Blank /\ NoPicture(i)
      <4>1. i \in MenuImages BY DEF IconsInv
      <4> QED BY <1>8, <1>10, <2>2, <4>1
    <3> QED BY <1>2, <1>9, <3>1 DEF IconsComeUp
  <2>4. \A i \in MenuImages \ overtaken : shows'[i] \in {Blank, Picture(i)}
    BY <1>8, <2>2 DEF IconsInv
  <2> QED BY <1>2, <1>4, <1>9, <2>1, <2>3, <2>4 DEF IconsInv
<1> QED BY <1>11, <1>12

\* The icon of every image that is shown comes up: it has its picture, or waits to be
\* loaded, whatever the theme became meanwhile (load_icons_handler_again).
THEOREM IconsFit == IconsAssumption /\ IconsSpec => []IconsComeUp
<1> SUFFICES ASSUME IconsAssumption PROVE IconsSpec => []IconsComeUp OBVIOUS
<1>1. IconsInit => IconsInv
  <2> SUFFICES ASSUME IconsInit PROVE IconsInv OBVIOUS
  <2>1. theme \in Themes BY DEF IconsInit, IconsAssumption
  <2>2. toLoad \in Seq(MenuImages) /\ Waiting = {} BY DEF IconsInit, Waiting
  <2>3. \A i \in MenuImages : shows[i] = Blank BY DEF IconsInit
  <2> QED BY <2>1, <2>2, <2>3 DEF IconsInit, IconsInv, IconsComeUp
<1>2. IconsInv /\ [IconsNext]_iconVars => IconsInv'
  <2> SUFFICES ASSUME IconsInv, [IconsNext]_iconVars PROVE IconsInv' OBVIOUS
  <2>1. CASE UNCHANGED iconVars
    <3>1. Waiting' = Waiting
          /\ \A i : Picture(i)' = Picture(i) /\ (NoPicture(i)' <=> NoPicture(i))
      BY <2>1 DEF iconVars, Waiting, Picture, Key, NoPicture
    <3>2. IconsComeUp' BY <2>1, <3>1 DEF iconVars, IconsInv, IconsComeUp
    <3> QED BY <2>1, <3>1, <3>2 DEF iconVars, IconsInv
  <2> QED BY <2>1, MapMenuKeepsIcons, UnmapMenuKeepsIcons, ShowImagesKeepsIcons,
             ChangeIconSizeKeepsIcons, LoadIconsKeepsIcons, ChangeIconThemeKeepsIcons
          DEF IconsNext
<1>3. IconsInv => IconsComeUp BY DEF IconsInv
<1> QED BY <1>1, <1>2, <1>3, PTL DEF IconsSpec

-----------------------------------------------------------------------------
(* The applications menu: what a menu shows is what its tree has, once. *)

Submenus == [there : BOOLEAN, needs : BOOLEAN, idle : BOOLEAN, shows : Seq(Nat)]
Menus ==
  [there : {TRUE}, up : BOOLEAN, root : MenuRoots \cup {NoRoot}, path : MenuPaths,
   watched : BOOLEAN, tree : Nat, needs : BOOLEAN, idle : BOOLEAN, shows : Seq(Nat),
   places : Nat, submenu : Submenus]

\* What a menu shows is what its tree has, once.
MenuFits(m, late, ver) ==
  /\ m \in Menus
  /\ m.needs => m.watched /\ m.shows = <<>> /\ m.places = 0 /\ ~m.submenu.there
  /\ ~m.needs /\ m.watched =>
       /\ m.shows = IF m.tree = NoTree THEN <<>> ELSE <<m.tree>>
       /\ m.places = IF m.path = "" THEN 1 ELSE 0
  /\ m.watched /\ ~late => m.tree \in {NoTree, ver}
  /\ m.submenu.there =>
       m.submenu.shows = IF m.submenu.needs THEN <<>> ELSE <<m.tree>>

\* A new menu fits: it is made when it is first shown.
LEMMA CreatedFits ==
  ASSUME NEW scheme \in MenuRoots \cup {NoRoot}, NEW path \in MenuPaths, NEW ver \in Nat,
         NEW tree \in {NoTree, ver}, NEW late
  PROVE  /\ MenuFits(Created(scheme, path, tree), late, ver)
         /\ Created(scheme, path, tree).path = path /\ Created(scheme, path, tree).root = scheme
         /\ Created(scheme, path, tree).there /\ ~Created(scheme, path, tree).up
<1> DEFINE m == Created(scheme, path, tree)
<1>1. NoSubmenu \in Submenus BY DEF NoSubmenu, Submenus
<1>2. tree \in Nat BY DEF NoTree
<1>3. m \in Menus BY <1>1, <1>2 DEF Created, Menus
<1>4. ~m.submenu.there BY DEF Created, NoSubmenu
<1>5. m.shows = <<>> /\ m.places = 0 /\ m.path = path /\ m.root = scheme /\ m.tree = tree /\ m.there /\ ~m.up
      /\ m.needs = (tree # NoTree) /\ m.watched = (tree # NoTree)
  BY DEF Created
<1> HIDE DEF m
<1> QED BY <1>3, <1>4, <1>5 DEF MenuFits, m

\* Filling the menu when it is shown makes it fit: create_applications_menu.
LEMMA DisplayedFits ==
  ASSUME NEW m, NEW late, NEW ver, MenuFits(m, late, ver)
  PROVE  /\ MenuFits(Displayed(m), late, ver)
         /\ Displayed(m).path = m.path /\ Displayed(m).root = m.root
         /\ Displayed(m).up = m.up
<1>1. m \in Menus BY DEF MenuFits
<1>2. CASE ~m.needs BY <1>2 DEF Displayed
<1>3. CASE m.needs
  <2>1. m.tree \in Nat /\ m.shows = <<>> /\ m.places = 0 /\ m.submenu \in Submenus
        /\ m.path \in MenuPaths
    BY <1>1, <1>3 DEF MenuFits, Menus
  <2> DEFINE n == IF m.path = "" THEN 1 ELSE 0
             e == [m EXCEPT !.needs = FALSE, !.places = n]
             f == [m EXCEPT !.shows = <<m.tree>>, !.submenu = FakeMenu, !.needs = FALSE,
                            !.places = n]
  <2>2. n \in Nat OBVIOUS
  <2>3. FakeMenu \in Submenus /\ FakeMenu.needs /\ FakeMenu.shows = <<>>
    BY DEF FakeMenu, Submenus
  <2>4. <<m.tree>> \in Seq(Nat) /\ Append(<<>>, m.tree) = <<m.tree>> BY <2>1
  <2>5. CASE m.tree = NoTree
    <3>1. Displayed(m) = [m EXCEPT !.needs = FALSE, !.places = IF m.path = "" THEN @ + 1 ELSE @]
      BY <1>3, <2>5 DEF Displayed, Populated
    <3>2. Displayed(m) = e BY <2>1, <3>1, <1>1 DEF Menus
    <3> HIDE DEF n
    <3>3. e \in Menus BY <1>1, <2>2 DEF Menus
    <3>4. /\ e.needs = FALSE /\ e.places = n /\ e.shows = m.shows /\ e.tree = m.tree
          /\ e.path = m.path /\ e.root = m.root /\ e.up = m.up /\ e.watched = m.watched /\ e.submenu = m.submenu
      BY <1>1 DEF Menus
    <3> HIDE DEF e
    <3> QED BY <1>3, <2>1, <2>5, <3>2, <3>3, <3>4 DEF MenuFits, n
  <2>6. CASE m.tree # NoTree
    <3>1. Displayed(m) = f
      <4>1. Populated(m) = [m EXCEPT !.shows = <<m.tree>>, !.submenu = FakeMenu]
        BY <2>1, <2>4, <2>6, <1>1 DEF Populated, Menus
      <4>2. Displayed(m) = [Populated(m) EXCEPT !.needs = FALSE,
                              !.places = IF m.path = "" THEN @ + 1 ELSE @]
        BY <1>3 DEF Displayed
      <4> DEFINE q == [m EXCEPT !.shows = <<m.tree>>, !.submenu = FakeMenu]
      <4>3. q.places = 0 BY <1>1, <2>1 DEF Menus
      <4>4. Displayed(m) = [q EXCEPT !.needs = FALSE, !.places = n]
        <5>1. Populated(m) = q BY <4>1
        <5>2. q.places + 1 = 1 BY <4>3
        <5> HIDE DEF q
        <5>3. CASE m.path = "" BY <4>2, <5>1, <5>2, <5>3
        <5>4. CASE m.path # "" BY <4>2, <4>3, <5>1, <5>4
        <5> QED BY <5>3, <5>4
      <4> HIDE DEF n
      <4> QED BY <1>1, <4>4 DEF Menus
    <3> HIDE DEF n
    <3>3. f \in Menus BY <1>1, <2>2, <2>3, <2>4 DEF Menus
    <3>4. /\ f.needs = FALSE /\ f.places = n /\ f.shows = <<m.tree>> /\ f.tree = m.tree
          /\ f.path = m.path /\ f.root = m.root /\ f.up = m.up /\ f.watched = m.watched /\ f.submenu = FakeMenu
      BY <1>1 DEF Menus
    <3> HIDE DEF f
    <3> QED BY <1>3, <2>1, <2>3, <2>6, <3>1, <3>3, <3>4 DEF MenuFits, n
  <2> QED BY <2>5, <2>6
<1> QED BY <1>2, <1>3

\* After the menu files changed, the menu is empty and of the new tree.
LEMMA EmptiedFits ==
  ASSUME NEW m, NEW late, NEW old, MenuFits(m, late, old), m.watched,
         NEW ver \in Nat, NEW tree \in {NoTree, ver}
  PROVE  /\ MenuFits(Emptied(m, tree), FALSE, ver)
         /\ Emptied(m, tree).path = m.path /\ Emptied(m, tree).root = m.root
         /\ Emptied(m, tree).up = m.up
<1> DEFINE e == Emptied(m, tree)
<1>1. m \in Menus BY DEF MenuFits
<1>2. NoSubmenu \in Submenus /\ ~NoSubmenu.there BY DEF NoSubmenu, Submenus
<1>3. tree \in Nat BY DEF NoTree
<1>4. e \in Menus
  <2>1. <<>> \in Seq(Nat) OBVIOUS
  <2>2. [m EXCEPT !.shows = <<>>, !.places = 0, !.submenu = NoSubmenu] \in Menus
    BY <1>1, <1>2, <2>1 DEF Menus
  <2> DEFINE f == [m EXCEPT !.shows = <<>>, !.places = 0, !.submenu = NoSubmenu]
  <2>3. e = [f EXCEPT !.tree = tree, !.needs = TRUE, !.idle = TRUE]
    BY <1>1 DEF Emptied, Menus
  <2> HIDE DEF f, e
  <2> QED BY <1>3, <2>2, <2>3 DEF Menus, f
<1>5. /\ e.shows = <<>> /\ e.places = 0 /\ e.submenu = NoSubmenu /\ e.tree = tree
      /\ e.needs /\ e.watched = m.watched /\ e.path = m.path /\ e.root = m.root /\ e.up = m.up
  BY <1>1 DEF Emptied, Menus
<1> HIDE DEF e
<1> QED BY <1>2, <1>4, <1>5 DEF MenuFits, e

ButtonFits(b) ==
  b \in [there : BOOLEAN, root : MenuRoots \cup {NoRoot}, path : MenuPaths, icon : BOOLEAN]

\* The menu, if there is one, is of the path that the button has.
IsOfPath(m, b) == m.there => m.path = ShownPath(m.root, b.path)

AppsInv ==
  /\ menuFiles \in Nat /\ disablers \in Nat /\ treeLate \in BOOLEAN
  /\ ButtonFits(menuButton)
  /\ appsMenu = NoAppsMenu \/ MenuFits(appsMenu, treeLate, menuFiles)
  /\ IsOfPath(appsMenu, menuButton)
  /\ appsMenu.up => disablers > 0

\* The menu that is made for a button is of its path.
LEMMA MenuOfFits ==
  ASSUME AppsMenuAssumption, NEW b, ButtonFits(b), NEW ver \in Nat,
         NEW tree \in {NoTree, ver}, NEW late
  PROVE  /\ MenuFits(MenuOf(b, tree), late, ver) /\ IsOfPath(MenuOf(b, tree), b)
         /\ MenuOf(b, tree).there /\ ~MenuOf(b, tree).up
<1>1. b.root \in MenuRoots \cup {NoRoot} /\ b.path \in MenuPaths BY DEF ButtonFits
<1>2. ShownPath(b.root, b.path) \in MenuPaths BY <1>1 DEF ShownPath, AppsMenuAssumption
<1> DEFINE m == Created(b.root, ShownPath(b.root, b.path), tree)
<1>3. /\ MenuFits(m, late, ver) /\ m.path = ShownPath(b.root, b.path) /\ m.root = b.root
      /\ m.there /\ ~m.up
  BY <1>1, <1>2, CreatedFits
<1>4. MenuOf(b, tree) = m BY DEF MenuOf
<1> HIDE DEF m
<1> QED BY <1>3, <1>4 DEF IsOfPath

\* Setting the icon keeps the menu that is there, and makes one that is of the path.
LEMMA ForIconFits ==
  ASSUME AppsMenuAssumption, NEW b, ButtonFits(b), NEW ver \in Nat,
         NEW tree \in {NoTree, ver}, NEW late, NEW m,
         m = NoAppsMenu \/ MenuFits(m, late, ver), IsOfPath(m, b)
  PROVE  /\ ForIcon(m, b, tree) = NoAppsMenu \/ MenuFits(ForIcon(m, b, tree), late, ver)
         /\ IsOfPath(ForIcon(m, b, tree), b)
         /\ ForIcon(m, b, tree).up => m.up
<1>1. CASE ForIcon(m, b, tree) = m BY <1>1
<1>2. CASE ForIcon(m, b, tree) = MenuOf(b, tree) BY <1>2, MenuOfFits
<1> QED BY <1>1, <1>2 DEF ForIcon

\* There is no menu at first.
LEMMA AppsInitHolds == ASSUME AppsMenuAssumption, MenuInit PROVE AppsInv
BY DEF AppsMenuAssumption, MenuInit, AppsInv, ButtonFits, IsOfPath, NoAppsMenu

\* Every step of the menu keeps the invariant.
LEMMA AppsNextKeeps ==
  ASSUME AppsMenuAssumption, AppsInv, [MenuNext]_menuVars
  PROVE  AppsInv'
<1> USE DEF AppsInv
<1>1. ASSUME NEW r \in MenuRoots \cup {NoRoot}, NEW p \in MenuPaths, NEW i \in BOOLEAN,
             NEW t \in 0 .. menuFiles, LoadButton(r, p, i, t)
      PROVE  AppsInv'
  <2> DEFINE b == [there |-> TRUE, root |-> r, path |-> p, icon |-> i]
  <2>1. /\ t \in {NoTree, menuFiles} /\ UNCHANGED <<menuFiles, disablers>> /\ treeLate' = FALSE
        /\ menuButton' = b /\ appsMenu' = ForIcon(NoAppsMenu, b, t)
    BY <1>1 DEF LoadButton
  <2>2. ButtonFits(b) BY DEF ButtonFits
  <2> HIDE DEF b
  <2>3. IsOfPath(NoAppsMenu, b) /\ ~NoAppsMenu.up BY DEF IsOfPath, NoAppsMenu
  <2>4. /\ ForIcon(NoAppsMenu, b, t) = NoAppsMenu
           \/ MenuFits(ForIcon(NoAppsMenu, b, t), FALSE, menuFiles)
        /\ IsOfPath(ForIcon(NoAppsMenu, b, t), b) /\ ~ForIcon(NoAppsMenu, b, t).up
    BY <2>1, <2>2, <2>3, ForIconFits
  <2> QED BY <2>1, <2>2, <2>4
<1>2. ASSUME NEW r \in MenuRoots \cup {NoRoot}, NEW p \in MenuPaths,
             NEW t \in 0 .. menuFiles, SetMenuPath(r, p, t)
      PROVE  AppsInv'
  <2> DEFINE b == [menuButton EXCEPT !.root = r, !.path = p]
  <2>1. /\ t \in {NoTree, menuFiles} /\ UNCHANGED <<menuFiles, disablers>>
        /\ menuButton' = b
        /\ IF p = menuButton.path THEN UNCHANGED <<appsMenu, treeLate>>
           ELSE appsMenu' = ForIcon(NoAppsMenu, b, t) /\ treeLate' = FALSE
    BY <1>2 DEF SetMenuPath
  <2>2. ButtonFits(b) /\ b.path = p BY DEF ButtonFits
  <2> HIDE DEF b
  <2>3. CASE p = menuButton.path
    <3>1. IsOfPath(appsMenu, b) BY <2>2, <2>3 DEF IsOfPath
    <3> QED BY <2>1, <2>2, <2>3, <3>1
  <2>4. CASE p # menuButton.path
    <3>1. IsOfPath(NoAppsMenu, b) /\ ~NoAppsMenu.up BY DEF IsOfPath, NoAppsMenu
    <3>2. /\ ForIcon(NoAppsMenu, b, t) = NoAppsMenu
             \/ MenuFits(ForIcon(NoAppsMenu, b, t), FALSE, menuFiles)
          /\ IsOfPath(ForIcon(NoAppsMenu, b, t), b) /\ ~ForIcon(NoAppsMenu, b, t).up
      BY <2>1, <2>2, <3>1, ForIconFits
    <3> QED BY <2>1, <2>2, <2>4, <3>2
  <2> QED BY <2>3, <2>4
<1>3. ASSUME NEW t \in 0 .. menuFiles, PopUp(t) PROVE AppsInv'
  <2>1. /\ t \in {NoTree, menuFiles} /\ UNCHANGED <<menuButton, menuFiles>>
        /\ disablers' = disablers + 1 /\ treeLate' = (appsMenu.there /\ treeLate)
        /\ appsMenu' = [Displayed(Menu(t)) EXCEPT !.up = TRUE]
    BY <1>3 DEF PopUp
  <2>2. MenuFits(Menu(t), treeLate', menuFiles) /\ IsOfPath(Menu(t), menuButton)
    <3>1. CASE appsMenu.there
      <4>1. appsMenu # NoAppsMenu BY <3>1 DEF NoAppsMenu
      <4>2. treeLate' = treeLate /\ Menu(t) = appsMenu BY <2>1, <3>1 DEF Menu
      <4> QED BY <3>1, <4>1, <4>2
    <3>2. CASE ~appsMenu.there
      <4>1. Menu(t) = MenuOf(menuButton, t) BY <3>2 DEF Menu
      <4> QED BY <2>1, <4>1, MenuOfFits
    <3> QED BY <3>1, <3>2
  <2> DEFINE m == Displayed(Menu(t))
             u == [m EXCEPT !.up = TRUE]
  <2>3. MenuFits(m, treeLate', menuFiles) /\ IsOfPath(m, menuButton)
    <3>1. Menu(t).there = TRUE BY <2>2 DEF MenuFits, Menus
    <3> QED BY <2>2, <3>1, DisplayedFits DEF IsOfPath
  <2>4. appsMenu' = u BY <2>1
  <2> HIDE DEF m
  <2>5. MenuFits(u, treeLate', menuFiles) /\ IsOfPath(u, menuButton)
    <3>1. m \in Menus BY <2>3 DEF MenuFits
    <3>2. u \in Menus BY <3>1 DEF Menus
    <3>3. /\ u.needs = m.needs /\ u.watched = m.watched /\ u.shows = m.shows
          /\ u.places = m.places /\ u.path = m.path /\ u.tree = m.tree
          /\ u.submenu = m.submenu /\ u.root = m.root /\ m.there = TRUE
      BY <3>1 DEF Menus
    <3> HIDE DEF u
    <3> QED BY <2>3, <3>2, <3>3 DEF MenuFits, IsOfPath
  <2> HIDE DEF u
  <2>6. treeLate' \in BOOLEAN BY <2>1
  <2>7. disablers' \in Nat /\ disablers' > 0 BY <2>1
  <2> QED BY <2>1, <2>3, <2>4, <2>5, <2>6, <2>7
<1>4. ASSUME NEW t \in 0 .. menuFiles, TreeChanged(t) PROVE AppsInv'
  <2>1. /\ t \in {NoTree, menuFiles} /\ UNCHANGED <<menuButton, menuFiles, disablers>>
        /\ treeLate /\ treeLate' = FALSE
        /\ appsMenu' = IF appsMenu.there /\ appsMenu.watched THEN Emptied(appsMenu, t)
                       ELSE appsMenu
    BY <1>4 DEF TreeChanged
  <2>2. CASE appsMenu = NoAppsMenu BY <2>1, <2>2 DEF NoAppsMenu
  <2>3. CASE appsMenu # NoAppsMenu
    <3>1. MenuFits(appsMenu, treeLate, menuFiles) BY <2>3
    <3>2. appsMenu.there = TRUE BY <3>1 DEF MenuFits, Menus
    <3>3. CASE appsMenu.watched
      <4>1. appsMenu' = Emptied(appsMenu, t) BY <2>1, <3>2, <3>3
      <4>2. /\ MenuFits(Emptied(appsMenu, t), FALSE, menuFiles)
            /\ Emptied(appsMenu, t).path = appsMenu.path
            /\ Emptied(appsMenu, t).root = appsMenu.root
            /\ Emptied(appsMenu, t).up = appsMenu.up
        BY <2>1, <3>1, <3>3, EmptiedFits
      <4> QED BY <2>1, <3>2, <4>1, <4>2 DEF IsOfPath
    <3>4. CASE ~appsMenu.watched
      <4>1. appsMenu' = appsMenu BY <2>1, <3>4
      <4>2. MenuFits(appsMenu, FALSE, menuFiles) BY <3>1, <3>4 DEF MenuFits
      <4> QED BY <2>1, <4>1, <4>2
    <3> QED BY <3>3, <3>4
  <2> QED BY <2>2, <2>3
<1>5. ASSUME NEW s \in BOOLEAN, DisplaySubmenu(s) PROVE AppsInv'
  <2> DEFINE b == appsMenu.submenu
             w == IF b.needs THEN Append(b.shows, appsMenu.tree) ELSE b.shows
             c == [b EXCEPT !.needs = FALSE, !.idle = s /\ @, !.shows = w]
             u == [appsMenu EXCEPT !.submenu = c]
  <2>1. /\ appsMenu.there /\ b.there
        /\ UNCHANGED <<menuButton, menuFiles, treeLate, disablers>>
        /\ appsMenu' = [appsMenu EXCEPT
             !.submenu.needs = FALSE, !.submenu.idle = s /\ @, !.submenu.shows = w]
    BY <1>5 DEF DisplaySubmenu
  <2>2. MenuFits(appsMenu, treeLate, menuFiles)
    <3>1. appsMenu # NoAppsMenu BY <2>1 DEF NoAppsMenu
    <3> QED BY <3>1
  <2>3. appsMenu \in Menus /\ b \in Submenus /\ appsMenu.tree \in Nat
    BY <2>2 DEF MenuFits, Menus
  <2>4. w = <<appsMenu.tree>>
    <3>1. b.shows = IF b.needs THEN <<>> ELSE <<appsMenu.tree>> BY <2>1, <2>2 DEF MenuFits
    <3> HIDE DEF b
    <3>2. CASE b.needs
      <4>1. b.shows = <<>> BY <3>1, <3>2
      <4> QED BY <2>3, <3>2, <4>1
    <3>3. CASE ~b.needs BY <3>1, <3>3
    <3> QED BY <3>2, <3>3
  <2>5. appsMenu' = u BY <2>1, <2>3 DEF Menus, Submenus
  <2> HIDE DEF w
  <2>6. c \in Submenus
    <3>1. w \in Seq(Nat) BY <2>3, <2>4
    <3>2. (s /\ b.idle) \in BOOLEAN OBVIOUS
    <3> HIDE DEF b
    <3> QED BY <2>3, <3>1, <3>2 DEF Submenus
  <2>7. c.needs = FALSE /\ c.shows = w BY <2>3 DEF Submenus
  <2> HIDE DEF c, b
  <2>8. u \in Menus BY <2>3, <2>6 DEF Menus
  <2>9. /\ u.needs = appsMenu.needs /\ u.watched = appsMenu.watched /\ u.shows = appsMenu.shows
        /\ u.places = appsMenu.places /\ u.path = appsMenu.path /\ u.tree = appsMenu.tree
        /\ u.submenu = c /\ u.up = appsMenu.up /\ u.root = appsMenu.root
    BY <2>3 DEF Menus
  <2> HIDE DEF u
  <2>10. ~appsMenu.needs BY <2>1, <2>2 DEF MenuFits, b
  <2>11. MenuFits(u, treeLate, menuFiles)
    BY <2>2, <2>4, <2>7, <2>8, <2>9, <2>10 DEF MenuFits
  <2> QED BY <2>1, <2>5, <2>9, <2>11 DEF IsOfPath
<1>6. CASE FinalizeButton BY <1>6 DEF FinalizeButton, ButtonFits, IsOfPath, NoAppsMenu
<1>7. CASE MenuDeactivated
  <2> DEFINE u == [appsMenu EXCEPT !.up = FALSE]
  <2>1. /\ appsMenu.up /\ appsMenu' = u /\ disablers' = disablers - 1
        /\ UNCHANGED <<menuButton, menuFiles, treeLate>>
    BY <1>7 DEF MenuDeactivated
  <2>2. MenuFits(appsMenu, treeLate, menuFiles) /\ appsMenu.there
    <3>1. appsMenu # NoAppsMenu BY <2>1 DEF NoAppsMenu
    <3> QED BY <3>1 DEF MenuFits, Menus
  <2>3. appsMenu \in Menus BY <2>2 DEF MenuFits
  <2>4. u \in Menus BY <2>3 DEF Menus
  <2>5. /\ u.needs = appsMenu.needs /\ u.watched = appsMenu.watched /\ u.shows = appsMenu.shows
        /\ u.places = appsMenu.places /\ u.path = appsMenu.path /\ u.tree = appsMenu.tree
        /\ u.submenu = appsMenu.submenu /\ u.up = FALSE /\ u.root = appsMenu.root
    BY <2>3 DEF Menus
  <2> HIDE DEF u
  <2>6. MenuFits(u, treeLate, menuFiles) BY <2>2, <2>4, <2>5 DEF MenuFits
  <2>7. disablers > 0 /\ disablers - 1 \in Nat BY <2>1
  <2> QED BY <2>1, <2>2, <2>5, <2>6, <2>7 DEF IsOfPath
<1>8. CASE DisplayInIdle
  <2> DEFINE m == Displayed(appsMenu)
             u == [m EXCEPT !.idle = FALSE]
  <2>1. /\ appsMenu.there /\ appsMenu' = u
        /\ UNCHANGED <<menuButton, menuFiles, treeLate, disablers>>
    BY <1>8 DEF DisplayInIdle
  <2>2. MenuFits(appsMenu, treeLate, menuFiles)
    <3>1. appsMenu # NoAppsMenu BY <2>1 DEF NoAppsMenu
    <3> QED BY <3>1
  <2>3. MenuFits(m, treeLate, menuFiles) /\ m.path = appsMenu.path /\ m.up = appsMenu.up
        /\ m.root = appsMenu.root
    BY <2>2, DisplayedFits
  <2> HIDE DEF m
  <2>4. m \in Menus BY <2>3 DEF MenuFits
  <2>5. u \in Menus BY <2>4 DEF Menus
  <2>6. /\ u.needs = m.needs /\ u.watched = m.watched /\ u.shows = m.shows
        /\ u.places = m.places /\ u.path = m.path /\ u.tree = m.tree
        /\ u.submenu = m.submenu /\ u.up = m.up /\ u.root = m.root
    BY <2>4 DEF Menus
  <2> HIDE DEF u
  <2>7. MenuFits(u, treeLate, menuFiles) BY <2>3, <2>5, <2>6 DEF MenuFits
  <2> QED BY <2>1, <2>3, <2>6, <2>7 DEF IsOfPath
<1>9. CASE ChangeMenuFiles
  <2>1. /\ menuFiles' = menuFiles + 1 /\ treeLate' = (appsMenu.there /\ appsMenu.watched)
        /\ UNCHANGED <<menuButton, appsMenu, disablers>>
    BY <1>9 DEF ChangeMenuFiles
  <2>2. CASE appsMenu = NoAppsMenu BY <2>1, <2>2 DEF NoAppsMenu
  <2>3. CASE appsMenu # NoAppsMenu
    <3>1. MenuFits(appsMenu, treeLate, menuFiles) BY <2>3
    <3>2. appsMenu.there = TRUE /\ appsMenu.watched \in BOOLEAN
      BY <3>1 DEF MenuFits, Menus
    <3>3. MenuFits(appsMenu, treeLate', menuFiles + 1)
      BY <2>1, <3>1, <3>2 DEF MenuFits
    <3> QED BY <2>1, <3>2, <3>3
  <2> QED BY <2>2, <2>3
<1>10. ASSUME NEW i \in BOOLEAN, NEW t \in 0 .. menuFiles, SetCustomIcon(i, t) PROVE AppsInv'
  <2> DEFINE b == [menuButton EXCEPT !.icon = i]
             l == appsMenu.there /\ treeLate
  <2>1. /\ t \in {NoTree, menuFiles} /\ UNCHANGED <<menuFiles, disablers>>
        /\ menuButton' = b /\ appsMenu' = ForIcon(appsMenu, b, t) /\ treeLate' = l
    BY <1>10 DEF SetCustomIcon
  <2>2. ButtonFits(b) /\ b.path = menuButton.path BY DEF ButtonFits
  <2>3. l \in BOOLEAN OBVIOUS
  <2>4. appsMenu # NoAppsMenu => l = treeLate BY DEF MenuFits, Menus
  <2> HIDE DEF b, l
  <2>5. IsOfPath(appsMenu, b) BY <2>2 DEF IsOfPath
  <2>6. appsMenu = NoAppsMenu \/ MenuFits(appsMenu, l, menuFiles) BY <2>4
  <2>7. /\ ForIcon(appsMenu, b, t) = NoAppsMenu
           \/ MenuFits(ForIcon(appsMenu, b, t), l, menuFiles)
        /\ IsOfPath(ForIcon(appsMenu, b, t), b)
        /\ ForIcon(appsMenu, b, t).up => appsMenu.up
    BY <2>1, <2>2, <2>5, <2>6, ForIconFits
  <2> QED BY <2>1, <2>2, <2>3, <2>7
<1>11. CASE UNCHANGED menuVars BY <1>11 DEF menuVars
<1> QED BY <1>1, <1>2, <1>3, <1>4, <1>5, <1>6, <1>7, <1>8, <1>9, <1>10, <1>11 DEF MenuNext

\* A menu is of the path of its button and the root that it was made with, and when it is
\* shown has the items of the menu files of now, each once, or hears of the change
\* (panel_menu_button_set_menu_path, handle_gmenu_tree_changed).
THEOREM MenuShowsFiles == AppsMenuAssumption /\ MenuSpec => []MenuIsOfFiles
<1> SUFFICES ASSUME AppsMenuAssumption PROVE MenuSpec => []MenuIsOfFiles OBVIOUS
<1>1. MenuInit => AppsInv BY AppsInitHolds
<1>2. AppsInv /\ [MenuNext]_menuVars => AppsInv' BY AppsNextKeeps
<1>3. AppsInv => MenuIsOfFiles
  <2> SUFFICES ASSUME AppsInv, appsMenu.there PROVE MenuIsOfFiles BY DEF MenuIsOfFiles
  <2>1. appsMenu # NoAppsMenu BY DEF NoAppsMenu
  <2>2. MenuFits(appsMenu, treeLate, menuFiles) BY <2>1 DEF AppsInv
  <2> QED BY <2>2 DEF AppsInv, IsOfPath, MenuFits, MenuIsOfFiles
<1> QED BY <1>1, <1>2, <1>3, PTL DEF MenuSpec

-----------------------------------------------------------------------------
(* The Places menu: its entries are the rounds of the loops that append them. *)

\* A volume has one mount.
OneMount(ms) ==
  \A m, n \in ms : VolumeOf[m] = VolumeOf[n] => m = n \/ VolumeOf[m] = NoPlace

\* The menu is of the file, as some folders were.
BookmarksAre(file) == \E ex : placesMenu.bookmarks.items = BookmarkItems(file, ex)

PlacesInv ==
  /\ drives \subseteq Drives /\ volumes \subseteq Volumes /\ mounts \subseteq Mounts
  /\ OneMount(mounts)
  /\ bookmarkFile = <<>> \/ bookmarkFile \in BookmarkFiles
  /\ placesMenu # NoPlace =>
       /\ placesMenu.local.items = LocalItems(drives, volumes, mounts)
       /\ placesMenu.remote.items = RemoteItems(volumes, mounts)
       /\ fileLate \/ BookmarksAre(bookmarkFile)

-----------------------------------------------------------------------------
(* The items of one moment *)

\* What is told of one moment's things.
Things(ds, vs, ms) ==
  /\ ds \subseteq Drives /\ vs \subseteq Volumes /\ ms \subseteq Mounts
  /\ OneMount(ms)

Items(ds, vs, ms) == LocalItems(ds, vs, ms) \cup RemoteItems(vs, ms)

\* Which entries there are for an item that mounts a volume, or opens a mount.
LEMMA KindsOfItems ==
  ASSUME NEW d, NEW m, NEW v, NEW w
  PROVE  /\ DriveItem(d) # <<"mount", v>> /\ MountItem(m) # <<"mount", v>>
         /\ DriveItem(d) # MountItem(m) /\ <<"mount", v>> # MountItem(m)
         /\ <<"mount", v>> = <<"mount", w>> <=> v = w
         /\ MountItem(m) = MountItem(w) <=> m = w
BY DEF DriveItem, MountItem

\* The item of a volume mounts it, or opens the mount that it has.
LEMMA ItemOfVolume ==
  ASSUME PlacesAssumption, NEW ds, NEW vs, NEW ms, Things(ds, vs, ms), NEW v \in vs
  PROVE  /\ MountNow(v, ms) = NoPlace => VolumeItem(v, ms) = <<"mount", v>>
         /\ MountNow(v, ms) # NoPlace =>
              /\ MountNow(v, ms) \in ms /\ VolumeOf[MountNow(v, ms)] = v
              /\ VolumeItem(v, ms) = MountItem(MountNow(v, ms))
         /\ \A m \in ms : VolumeOf[m] = v => MountNow(v, ms) = m
<1>1. v # NoPlace /\ NoPlace \notin ms BY DEF Things, PlacesAssumption
<1>2. CASE \E m \in ms : VolumeOf[m] = v
  <2>1. MountNow(v, ms) \in ms /\ VolumeOf[MountNow(v, ms)] = v BY <1>2 DEF MountNow
  <2>2. \A m \in ms : VolumeOf[m] = v => MountNow(v, ms) = m
    BY <1>1, <2>1 DEF Things, OneMount
  <2> QED BY <1>1, <2>1, <2>2 DEF VolumeItem
<1>3. CASE ~\E m \in ms : VolumeOf[m] = v
  <2>1. MountNow(v, ms) = NoPlace BY <1>3 DEF MountNow
  <2> QED BY <1>3, <2>1 DEF VolumeItem
<1> QED BY <1>2, <1>3

\* The pass that appends the item of volume v.
PassOf(v, ds) == IF DriveNow(v, ds) = NoPlace THEN "volumes" ELSE "drives"

\* The entries are those of the volumes, of the empty drives, and of the mounts
\* that have no volume and are not shadowed.
LEMMA EntriesAre ==
  ASSUME PlacesAssumption, NEW ds, NEW vs, NEW ms, Things(ds, vs, ms)
  PROVE  /\ \A v \in vs : Entry(PassOf(v, ds), v, VolumeItem(v, ms)) \in Items(ds, vs, ms)
         /\ \A m \in ms \ Shadowed(ms) : VolumeNow(m, vs) = NoPlace =>
              Entry(IF m \in RemoteMounts THEN "remote" ELSE "mounts", m, MountItem(m))
                \in Items(ds, vs, ms)
         /\ \A e \in Items(ds, vs, ms) :
              \/ \E v \in vs : e = Entry(PassOf(v, ds), v, VolumeItem(v, ms))
              \/ \E d \in ds : e = Entry("drives", d, DriveItem(d))
              \/ \E m \in ms \ Shadowed(ms) :
                   /\ VolumeNow(m, vs) = NoPlace
                   /\ e = Entry(IF m \in RemoteMounts THEN "remote" ELSE "mounts", m, MountItem(m))
<1> DEFINE of(d) == {v \in vs : DriveNow(v, ds) = d}
           drive == {Entry("drives", v, VolumeItem(v, ms)) : v \in UNION {of(d) : d \in ds}}
           rescan == {Entry("drives", d, DriveItem(d)) :
                        d \in {e \in ds \cap PolledDrives : of(e) = {}}}
           alone == {Entry("volumes", v, VolumeItem(v, ms)) : v \in of(NoPlace)}
           bare == {Entry("mounts", m, MountItem(m)) :
                      m \in {n \in ms \ (Shadowed(ms) \cup RemoteMounts) : VolumeNow(n, vs) = NoPlace}}
           far == {Entry("remote", m, MountItem(m)) :
                     m \in {n \in (ms \cap RemoteMounts) \ Shadowed(ms) : VolumeNow(n, vs) = NoPlace}}
<1>1. Items(ds, vs, ms) = drive \cup rescan \cup alone \cup bare \cup far
  BY DEF Items, LocalItems, RemoteItems
<1>2. \A v \in vs : DriveNow(v, ds) \in ds \/ DriveNow(v, ds) = NoPlace BY DEF DriveNow
<1>3. NoPlace \notin ds BY DEF Things, PlacesAssumption
<1>4. UNION {of(d) : d \in ds} = {v \in vs : PassOf(v, ds) = "drives"}
  BY <1>2, <1>3 DEF PassOf
<1>5. of(NoPlace) = {v \in vs : PassOf(v, ds) = "volumes"} BY DEF PassOf
<1>6. \A v \in vs : PassOf(v, ds) \in {"drives", "volumes"} BY DEF PassOf
<1>7. drive = {Entry(PassOf(v, ds), v, VolumeItem(v, ms)) : v \in {w \in vs : PassOf(w, ds) = "drives"}}
  BY <1>4
<1>8. alone = {Entry(PassOf(v, ds), v, VolumeItem(v, ms)) : v \in {w \in vs : PassOf(w, ds) = "volumes"}}
  BY <1>5
<1>9. \A d \in {e \in ds \cap PolledDrives : of(e) = {}} : d \in ds OBVIOUS
<1> HIDE DEF of
<1>10. \A e \in rescan : \E d \in ds : e = Entry("drives", d, DriveItem(d)) BY <1>9
<1>11. \A e \in bare \cup far :
         \E m \in ms \ Shadowed(ms) :
           /\ VolumeNow(m, vs) = NoPlace
           /\ e = Entry(IF m \in RemoteMounts THEN "remote" ELSE "mounts", m, MountItem(m))
  OBVIOUS
<1>12. \A m \in ms \ Shadowed(ms) : VolumeNow(m, vs) = NoPlace =>
         Entry(IF m \in RemoteMounts THEN "remote" ELSE "mounts", m, MountItem(m)) \in bare \cup far
  OBVIOUS
<1> HIDE DEF drive, rescan, alone, bare, far
<1>13. \A v \in vs : Entry(PassOf(v, ds), v, VolumeItem(v, ms)) \in drive \cup alone
  BY <1>6, <1>7, <1>8
<1>14. \A e \in drive \cup alone : \E v \in vs : e = Entry(PassOf(v, ds), v, VolumeItem(v, ms))
  BY <1>7, <1>8
<1> QED BY <1>1, <1>10, <1>11, <1>12, <1>13, <1>14

Times(items, i) == Cardinality({e \in items : e.item = i})

\* An item that one entry has is listed once, ...
LEMMA TimesOnce ==
  ASSUME NEW items, NEW i, NEW e \in items, e.item = i,
         \A f \in items : f.item = i => f = e
  PROVE  Times(items, i) = 1
<1>1. {f \in items : f.item = i} = {e} OBVIOUS
<1> QED BY <1>1, FS_Singleton DEF Times

\* ... and an item without an entry is not listed.
LEMMA TimesNever ==
  ASSUME NEW items, NEW i, \A f \in items : f.item # i
  PROVE  Times(items, i) = 0
<1>1. {f \in items : f.item = i} = {} OBVIOUS
<1> QED BY <1>1, FS_EmptySet DEF Times

\* Each volume without a mount has one item, and each mount that can be reached.
LEMMA ItemsAreOnce ==
  ASSUME PlacesAssumption, NEW ds, NEW vs, NEW ms, Things(ds, vs, ms)
  PROVE  /\ \A v \in vs : Times(Items(ds, vs, ms), <<"mount", v>>)
                            = (IF MountNow(v, ms) = NoPlace THEN 1 ELSE 0)
         /\ \A m \in ms : Times(Items(ds, vs, ms), MountItem(m))
              = (IF VolumeNow(m, vs) # NoPlace \/ m \notin Shadowed(ms) THEN 1 ELSE 0)
         /\ \A e \in Items(ds, vs, ms) : e.item[2] \in ds \cup vs \cup ms
<1> DEFINE items == Items(ds, vs, ms)
           MEntry(m) == Entry(IF m \in RemoteMounts THEN "remote" ELSE "mounts", m, MountItem(m))
           VEntry(v) == Entry(PassOf(v, ds), v, VolumeItem(v, ms))
           DEntry(d) == Entry("drives", d, DriveItem(d))
<1>1. /\ \A v \in vs : VEntry(v) \in items
      /\ \A m \in ms \ Shadowed(ms) : VolumeNow(m, vs) = NoPlace => MEntry(m) \in items
      /\ \A e \in items :
           \/ \E v \in vs : e = VEntry(v)
           \/ \E d \in ds : e = DEntry(d)
           \/ \E m \in ms \ Shadowed(ms) : VolumeNow(m, vs) = NoPlace /\ e = MEntry(m)
  BY EntriesAre
<1>2. /\ \A v : VEntry(v).item = VolumeItem(v, ms)
      /\ \A d : DEntry(d).item = DriveItem(d)
      /\ \A m : MEntry(m).item = MountItem(m)
  BY DEF Entry
<1>3. \A m \in ms : VolumeNow(m, vs) = IF VolumeOf[m] \in vs THEN VolumeOf[m] ELSE NoPlace
  BY DEF VolumeNow
<1>4. NoPlace \notin vs BY DEF Things, PlacesAssumption
<1> HIDE DEF items, VEntry, DEntry, MEntry
<1>5. ASSUME NEW v \in vs
      PROVE  Times(items, <<"mount", v>>) = (IF MountNow(v, ms) = NoPlace THEN 1 ELSE 0)
  <2>1. ASSUME NEW e \in items, e.item = <<"mount", v>>
        PROVE  e = VEntry(v) /\ MountNow(v, ms) = NoPlace
    <3>1. ~\E d \in ds : e = DEntry(d) BY <1>2, <2>1, KindsOfItems
    <3>2. \A m : e # MEntry(m)
      <4>1. \A m : MEntry(m).item # <<"mount", v>> BY <1>2, KindsOfItems
      <4> QED BY <2>1, <4>1
    <3>3. PICK w \in vs : e = VEntry(w) BY <1>1, <3>1, <3>2
    <3>4. VolumeItem(w, ms) = <<"mount", v>> BY <1>2, <2>1, <3>3
    <3>5. MountNow(w, ms) = NoPlace BY <3>4, ItemOfVolume, KindsOfItems
    <3>6. VolumeItem(w, ms) = <<"mount", w>> BY <3>5, ItemOfVolume
    <3>7. w = v BY <3>4, <3>6, KindsOfItems
    <3> QED BY <3>3, <3>5, <3>7
  <2>2. CASE MountNow(v, ms) = NoPlace
    <3>1. VEntry(v) \in items /\ VEntry(v).item = <<"mount", v>>
      BY <1>1, <1>2, <2>2, ItemOfVolume
    <3>2. \A e \in items : e.item = <<"mount", v>> => e = VEntry(v) BY <2>1
    <3> QED BY <2>2, <3>1, <3>2, TimesOnce
  <2>3. CASE MountNow(v, ms) # NoPlace
    <3>1. \A e \in items : e.item # <<"mount", v>> BY <2>1, <2>3
    <3> QED BY <2>3, <3>1, TimesNever
  <2> QED BY <2>2, <2>3
<1>6. ASSUME NEW m \in ms
      PROVE  Times(items, MountItem(m))
               = (IF VolumeNow(m, vs) # NoPlace \/ m \notin Shadowed(ms) THEN 1 ELSE 0)
  <2>1. ASSUME NEW e \in items, e.item = MountItem(m)
        PROVE  \/ VolumeOf[m] \in vs /\ e = VEntry(VolumeOf[m])
               \/ VolumeOf[m] \notin vs /\ m \notin Shadowed(ms) /\ e = MEntry(m)
    <3>1. ~\E d \in ds : e = DEntry(d) BY <1>2, <2>1, KindsOfItems
    <3>2. CASE \E w \in vs : e = VEntry(w)
      <4>1. PICK w \in vs : e = VEntry(w) BY <3>2
      <4>2. VolumeItem(w, ms) = MountItem(m) BY <1>2, <2>1, <4>1
      <4>3. MountNow(w, ms) # NoPlace BY <4>2, ItemOfVolume, KindsOfItems
      <4>4. VolumeOf[MountNow(w, ms)] = w /\ VolumeItem(w, ms) = MountItem(MountNow(w, ms))
        BY <4>3, ItemOfVolume
      <4>5. MountNow(w, ms) = m BY <4>2, <4>4, KindsOfItems
      <4> QED BY <4>1, <4>4, <4>5
    <3>3. CASE \E n \in ms \ Shadowed(ms) : VolumeNow(n, vs) = NoPlace /\ e = MEntry(n)
      <4>1. PICK n \in ms \ Shadowed(ms) : VolumeNow(n, vs) = NoPlace /\ e = MEntry(n) BY <3>3
      <4>2. n = m BY <1>2, <2>1, <4>1, KindsOfItems
      <4>3. VolumeOf[m] \notin vs BY <1>3, <1>4, <4>1, <4>2
      <4> QED BY <4>1, <4>2, <4>3
    <3> QED BY <1>1, <3>1, <3>2, <3>3
  <2>2. VolumeNow(m, vs) # NoPlace <=> VolumeOf[m] \in vs BY <1>3, <1>4
  <2>3. CASE VolumeOf[m] \in vs
    <3> DEFINE v == VolumeOf[m]
    <3>1. MountNow(v, ms) = m BY <2>3, ItemOfVolume
    <3>2. m # NoPlace BY DEF Things, PlacesAssumption
    <3>3. VolumeItem(v, ms) = MountItem(m) BY <2>3, <3>1, <3>2, ItemOfVolume
    <3>4. VEntry(v) \in items /\ VEntry(v).item = MountItem(m) BY <1>1, <1>2, <2>3, <3>3
    <3>5. \A e \in items : e.item = MountItem(m) => e = VEntry(v) BY <2>1, <2>3
    <3> QED BY <2>2, <2>3, <3>4, <3>5, TimesOnce
  <2>4. CASE VolumeOf[m] \notin vs /\ m \notin Shadowed(ms)
    <3>1. MEntry(m) \in items /\ MEntry(m).item = MountItem(m) BY <1>1, <1>2, <2>2, <2>4
    <3>2. \A e \in items : e.item = MountItem(m) => e = MEntry(m) BY <2>1, <2>4
    <3> QED BY <2>4, <3>1, <3>2, TimesOnce
  <2>5. CASE VolumeOf[m] \notin vs /\ m \in Shadowed(ms)
    <3>1. \A e \in items : e.item # MountItem(m) BY <2>1, <2>5
    <3> QED BY <2>2, <2>5, <3>1, TimesNever
  <2> QED BY <2>3, <2>4, <2>5
<1>7. ASSUME NEW e \in items PROVE e.item[2] \in ds \cup vs \cup ms
  <2>1. /\ \A d : DriveItem(d)[2] = d
        /\ \A m : MountItem(m)[2] = m
        /\ \A v : <<"mount", v>>[2] = v
    BY DEF DriveItem, MountItem
  <2>2. \A v \in vs : VolumeItem(v, ms)[2] \in vs \cup ms
    <3> SUFFICES ASSUME NEW v \in vs PROVE VolumeItem(v, ms)[2] \in vs \cup ms OBVIOUS
    <3>1. \/ VolumeItem(v, ms) = <<"mount", v>>
          \/ MountNow(v, ms) \in ms /\ VolumeItem(v, ms) = MountItem(MountNow(v, ms))
      BY ItemOfVolume
    <3> QED BY <2>1, <3>1
  <2> QED BY <1>1, <1>2, <2>1, <2>2
<1> QED BY <1>5, <1>6, <1>7 DEF items

-----------------------------------------------------------------------------
(* The bookmarks *)

\* A line that was seen before was seen first where it is kept.
LEMMA BookmarksAreUris ==
  ASSUME PlacesAssumption, NEW file, file = <<>> \/ file \in BookmarkFiles, NEW exists
  PROVE  \E gone \in SUBSET NativeUris :
           ToSet(BookmarkItems(file, exists)) = {b.uri : b \in ToSet(LinesOf(file))} \ gone
<1> DEFINE lines == LinesOf(file)
           n == Len(lines)
           seen(i) == \E j \in 1 .. i - 1 : lines[j] = lines[i] /\ lines[j].label = ""
           there(i) == lines[i].uri \in NativeUris => lines[i].uri \in exists
           kept == {i \in DOMAIN lines : ~seen(i) /\ there(i)}
           uris == {b.uri : b \in ToSet(lines)}
           shown == ToSet(BookmarkItems(file, exists))
<1>1. lines \in Seq(ToSet(file))
  <2>1. file \in Seq(ToSet(file)) /\ MaxBookmarks \in Nat
    <3>1. CASE file = <<>> BY <3>1 DEF PlacesAssumption
    <3>2. CASE file \in BookmarkFiles BY <3>2 DEF PlacesAssumption
    <3> QED BY <3>1, <3>2
  <2> DEFINE S == ToSet(file)
             m == IF Len(file) < MaxBookmarks THEN Len(file) ELSE MaxBookmarks
  <2>2. m \in 0 .. Len(file) BY <2>1
  <2>3. lines = SubSeq(file, 1, m) BY DEF LinesOf
  <2> HIDE DEF S, m
  <2>4. file \in Seq(S) BY <2>1 DEF S
  <2>5. SubSeq(file, 1, m) \in Seq(S) BY <2>2, <2>4
  <2> QED BY <2>3, <2>5 DEF S
<1>2. BookmarkItems(file, exists) = [i \in kept |-> lines[i].uri] BY DEF BookmarkItems
<1>3. DOMAIN lines = 1 .. n /\ n \in Nat
  <2> HIDE DEF lines
  <2> QED BY <1>1
<1> HIDE DEF lines
<1>4. shown = {lines[i].uri : i \in kept}
  <2> DEFINE f == [i \in kept |-> lines[i].uri]
  <2>1. ToSet(f) = {f[i] : i \in DOMAIN f} BY DEF ToSet
  <2>2. DOMAIN f = kept /\ \A i \in kept : f[i] = lines[i].uri OBVIOUS
  <2> HIDE DEF kept, f
  <2>3. {f[i] : i \in DOMAIN f} = {lines[i].uri : i \in kept} BY <2>2
  <2> QED BY <1>2, <2>1, <2>3 DEF f
<1>5. uris = {lines[i].uri : i \in DOMAIN lines} BY DEF ToSet
<1>6. ASSUME NEW i \in DOMAIN lines, there(i)
      PROVE  \E j \in kept : lines[j].uri = lines[i].uri
  <2> DEFINE same == {j \in DOMAIN lines : lines[j] = lines[i]}
  <2>1. same \in SUBSET Nat /\ same # {} BY <1>3
  <2>2. PICK j \in same : \A k \in same : j <= k
    <3> HIDE DEF same
    <3> QED BY <2>1, LeastNumber
  <2>3. ~seen(j)
    <3>1. \A k \in 1 .. j - 1 : lines[k] # lines[j] BY <1>3, <2>2
    <3> QED BY <3>1
  <2>4. lines[j] = lines[i] /\ j \in DOMAIN lines OBVIOUS
  <2>5. there(j) BY <1>6, <2>4
  <2> QED BY <2>3, <2>4, <2>5
<1>7. kept \subseteq DOMAIN lines OBVIOUS
<1>8. \A i \in DOMAIN lines : ~there(i) => lines[i].uri \in NativeUris OBVIOUS
<1> DEFINE gone == uris \ shown
<1>9. gone \subseteq NativeUris
  <2> SUFFICES ASSUME NEW u \in gone PROVE u \in NativeUris OBVIOUS
  <2>1. PICK i \in DOMAIN lines : u = lines[i].uri BY <1>5
  <2>2. ~there(i) BY <1>4, <1>6, <2>1
  <2> QED BY <1>8, <2>1, <2>2
<1>10. shown \subseteq uris BY <1>4, <1>5, <1>7
<1> HIDE DEF uris, shown
<1>11. shown = uris \ gone BY <1>10
<1> QED BY <1>9, <1>11 DEF uris, shown, lines

-----------------------------------------------------------------------------
(* The steps *)

\* The menu of the moment.
MenuIsNow(ds, vs, ms, file, menu) ==
  /\ menu.local.items = LocalItems(ds, vs, ms)
  /\ menu.remote.items = RemoteItems(vs, ms)
  /\ \E ex : menu.bookmarks.items = BookmarkItems(file, ex)

\* A menu made of the things of a moment lists them.
LEMMA CreatedIsNow ==
  ASSUME NEW ds, NEW vs, NEW ms, NEW file, NEW ex, NEW home
  PROVE  MenuIsNow(ds, vs, ms, file, CreateMenu(ds, vs, ms, file, ex, home))
<1> DEFINE menu == CreateMenu(ds, vs, ms, file, ex, home)
<1>1. /\ menu.local.items = LocalItems(ds, vs, ms)
      /\ menu.remote.items = RemoteItems(vs, ms)
      /\ menu.bookmarks.items = BookmarkItems(file, ex)
  BY DEF CreateMenu
<1> HIDE DEF menu
<1>2. MenuIsNow(ds, vs, ms, file, menu) BY <1>1 DEF MenuIsNow
<1> QED BY <1>2 DEF menu

\* So does a menu that is made again.
LEMMA RecreatedIsNow ==
  ASSUME NEW ds, NEW vs, NEW ms, NEW file, NEW home,
         Recreated(ds, vs, ms, file, home) # NoPlace
  PROVE  MenuIsNow(ds, vs, ms, file, Recreated(ds, vs, ms, file, home))
<1>1. Recreated(ds, vs, ms, file, home) = CreateMenu(ds, vs, ms, file, folders, home)
  BY DEF Recreated
<1> QED BY <1>1, CreatedIsNow

\* A step that makes the menu anew of what is then there.
LEMMA MadeAnewKeeps ==
  ASSUME PlacesInv, Things(drives', volumes', mounts'), bookmarkFile' = bookmarkFile,
         placesMenu' # NoPlace =>
           MenuIsNow(drives', volumes', mounts', bookmarkFile, placesMenu')
  PROVE  PlacesInv'
BY DEF PlacesInv, Things, MenuIsNow, BookmarksAre, OneMount

\* A step that leaves the menu and what it is of alone.
LEMMA MenuStaysKeeps ==
  ASSUME PlacesInv, UNCHANGED <<drives, volumes, mounts, placesMenu>>,
         \/ bookmarkFile' = bookmarkFile /\ fileLate' = fileLate
         \/ bookmarkFile' \in BookmarkFiles /\ fileLate' = (placesMenu # NoPlace)
  PROVE  PlacesInv'
<1>1. OneMount(mounts)' BY DEF PlacesInv, OneMount
<1>2. CASE bookmarkFile' \in BookmarkFiles /\ fileLate' = (placesMenu # NoPlace)
  <2>1. placesMenu # NoPlace => fileLate' BY <1>2
  <2> QED BY <1>1, <1>2, <2>1 DEF PlacesInv
<1>3. BookmarksAre(bookmarkFile) /\ bookmarkFile' = bookmarkFile => BookmarksAre(bookmarkFile)'
  BY DEF BookmarksAre
<1>4. CASE bookmarkFile' = bookmarkFile /\ fileLate' = fileLate
  BY <1>1, <1>3, <1>4 DEF PlacesInv
<1> QED BY <1>2, <1>4

\* A signal of the volume monitor makes the menu anew.
LEMMA MonitorIsKeeps ==
  ASSUME PlacesInv, NEW ds \in SUBSET Drives, NEW vs \in SUBSET Volumes,
         NEW ms \in SUBSET Mounts, MonitorIs(ds, vs, ms)
  PROVE  PlacesInv'
<1>1. Things(drives', volumes', mounts') /\ bookmarkFile' = bookmarkFile
  BY DEF MonitorIs, Things, OneMount
<1>2. placesMenu' = Recreated(drives', volumes', mounts', bookmarkFile, desktopIsHome)
  BY DEF MonitorIs
<1> QED BY <1>1, <1>2, RecreatedIsNow, MadeAnewKeeps

\* Every step of the places menu keeps the invariant.
LEMMA PlacesNextKeeps ==
  ASSUME PlacesInv, [PlacesNext]_placesVars
  PROVE  PlacesInv'
<1>0. Things(drives, volumes, mounts) BY DEF PlacesInv, Things
<1>1. ASSUME NewPlaceItem PROVE PlacesInv'
  <2>1. Things(drives', volumes', mounts') /\ bookmarkFile' = bookmarkFile
    BY <1>0, <1>1 DEF NewPlaceItem, Things
  <2>2. placesMenu' = CreateMenu(drives', volumes', mounts', bookmarkFile, folders, desktopIsHome)
    BY <1>1 DEF NewPlaceItem
  <2> QED BY <2>1, <2>2, CreatedIsNow, MadeAnewKeeps
<1>2. ASSUME FinalizePlaceItem PROVE PlacesInv'
  BY <1>2 DEF FinalizePlaceItem, PlacesInv, OneMount
<1>3. ASSUME BookmarksChanged PROVE PlacesInv'
  <2>1. Things(drives', volumes', mounts') /\ bookmarkFile' = bookmarkFile
    BY <1>0, <1>3 DEF BookmarksChanged, Things
  <2>2. placesMenu' = Recreated(drives', volumes', mounts', bookmarkFile, desktopIsHome)
    BY <1>3 DEF BookmarksChanged
  <2> QED BY <2>1, <2>2, RecreatedIsNow, MadeAnewKeeps
<1>4. ASSUME KeyChanged PROVE PlacesInv'
  <2>1. Things(drives', volumes', mounts') /\ bookmarkFile' = bookmarkFile
    BY <1>0, <1>4 DEF KeyChanged, Things
  <2>2. placesMenu' = Recreated(drives', volumes', mounts', bookmarkFile, ~desktopIsHome)
    BY <1>4 DEF KeyChanged
  <2> QED BY <2>1, <2>2, RecreatedIsNow, MadeAnewKeeps
<1>5. ASSUME NEW d \in Drives, DrivesChanged(d) PROVE PlacesInv'
  <2>1. SymDiff(drives, {d}) \in SUBSET Drives BY DEF PlacesInv, SymDiff
  <2> QED BY <1>5, <2>1, MonitorIsKeeps DEF DrivesChanged, PlacesInv
<1>6. ASSUME NEW v \in Volumes, VolumesChanged(v) PROVE PlacesInv'
  <2>1. SymDiff(volumes, {v}) \in SUBSET Volumes BY DEF PlacesInv, SymDiff
  <2> QED BY <1>6, <2>1, MonitorIsKeeps DEF VolumesChanged, PlacesInv
<1>7. ASSUME NEW m \in Mounts, MountsChanged(m) PROVE PlacesInv'
  <2>1. SymDiff(mounts, {m}) \in SUBSET Mounts BY DEF PlacesInv, SymDiff
  <2> QED BY <1>7, <2>1, MonitorIsKeeps DEF MountsChanged, PlacesInv
<1>8. ASSUME NEW v \in Volumes, NEW m \in Mounts, VolumeMounted(v, m) PROVE PlacesInv'
  <2>1. mounts \cup {m} \in SUBSET Mounts BY DEF PlacesInv
  <2> QED BY <1>8, <2>1, MonitorIsKeeps DEF VolumeMounted, PlacesInv
<1>9. ASSUME NEW v \in Volumes, MountVolume(v) \/ VolumeNotMounted(v) PROVE PlacesInv'
  BY <1>9, MenuStaysKeeps DEF MountVolume, VolumeNotMounted
<1>10. ASSUME NEW f \in BookmarkFiles, WriteBookmarks(f) PROVE PlacesInv'
  BY <1>10, MenuStaysKeeps DEF WriteBookmarks
<1>11. ASSUME NEW u \in NativeUris, ChangeFolder(u) PROVE PlacesInv'
  BY <1>11, MenuStaysKeeps DEF ChangeFolder
<1>12. ASSUME UNCHANGED placesVars PROVE PlacesInv'
  BY <1>12, MenuStaysKeeps DEF placesVars
<1> QED BY <1>1, <1>2, <1>3, <1>4, <1>5, <1>6, <1>7, <1>8, <1>9, <1>10, <1>11, <1>12
        DEF PlacesNext

\* The invariant says that each place is listed as often as it should be.
LEMMA InvListsPlaces ==
  ASSUME PlacesAssumption, PlacesInv
  PROVE  PlacesAreListed
<1> SUFFICES ASSUME placesMenu # NoPlace PROVE PlacesAreListed BY DEF PlacesAreListed
<1> DEFINE items == placesMenu.local.items \cup placesMenu.remote.items
           uris == {b.uri : b \in ToSet(LinesOf(bookmarkFile))}
<1>1. Things(drives, volumes, mounts) BY DEF PlacesInv, Things
<1>2. items = Items(drives, volumes, mounts) BY DEF PlacesInv, Items
<1>3. /\ \A v \in volumes : Times(items, <<"mount", v>>)
                              = (IF MountNow(v, mounts) = NoPlace THEN 1 ELSE 0)
      /\ \A m \in mounts : Times(items, MountItem(m))
           = (IF VolumeNow(m, volumes) # NoPlace \/ m \notin Shadowed(mounts) THEN 1 ELSE 0)
      /\ \A e \in items : e.item[2] \in drives \cup volumes \cup mounts
  <2> HIDE DEF items
  <2> QED BY <1>1, <1>2, ItemsAreOnce
<1>4. fileLate \/ ToSet(placesMenu.bookmarks.items) \in {uris \ gone : gone \in SUBSET NativeUris}
  <2>1. CASE fileLate BY <2>1
  <2>2. CASE ~fileLate
    <3>1. PICK ex : placesMenu.bookmarks.items = BookmarkItems(bookmarkFile, ex)
      BY <2>2 DEF PlacesInv, BookmarksAre
    <3>2. PICK gone \in SUBSET NativeUris :
            ToSet(BookmarkItems(bookmarkFile, ex)) = uris \ gone
      BY BookmarksAreUris DEF PlacesInv
    <3> HIDE DEF uris
    <3> QED BY <3>1, <3>2
  <2> QED BY <2>1, <2>2
<1> QED BY <1>3, <1>4 DEF PlacesAreListed, Times

\* The places menu lists the drives, volumes, mounts and bookmarks of now, each once
\* (panel_place_menu_item_recreate_menu).
THEOREM PlacesFit == PlacesAssumption /\ PlacesSpec => []PlacesAreListed
<1> SUFFICES ASSUME PlacesAssumption PROVE PlacesSpec => []PlacesAreListed OBVIOUS
<1>1. PlacesInit => PlacesInv BY DEF PlacesInit, PlacesInv, OneMount
<1>2. PlacesInv /\ [PlacesNext]_placesVars => PlacesInv' BY PlacesNextKeeps
<1>3. PlacesInv => PlacesAreListed BY InvListsPlaces
<1> QED BY <1>1, <1>2, <1>3, PTL DEF PlacesSpec

-----------------------------------------------------------------------------
(* What is made in stages, from late answers or from what was kept, is what  *)
(* making it anew would give (panel_background_prepare,                      *)
(* panel_run_dialog_find_command_idle, load_icons_handler,                   *)
(* handle_gmenu_tree_changed, panel_place_menu_item_recreate_menu).          *)
THEOREM LooksAreWanted == LookAssumption /\ LookSpec => []ShownAsWanted
<1>1. LookAssumption /\ LookSpec => []PaintedAsWanted /\ []ToldIsPainted
  BY BackgroundFits DEF LookAssumption, LookSpec
<1>2. LookAssumption /\ LookSpec => []DragIsOfText BY DragFits DEF LookAssumption, LookSpec
<1>3. LookAssumption /\ LookSpec => []IconsComeUp BY IconsFit DEF LookAssumption, LookSpec
<1>4. LookAssumption /\ LookSpec => []MenuIsOfFiles
  BY MenuShowsFiles DEF LookAssumption, LookSpec
<1>5. LookAssumption /\ LookSpec => []PlacesAreListed BY PlacesFit DEF LookAssumption, LookSpec
<1>6. PaintedAsWanted /\ ToldIsPainted /\ DragIsOfText /\ IconsComeUp /\ MenuIsOfFiles
      /\ PlacesAreListed => ShownAsWanted
  BY DEF ShownAsWanted
<1> QED BY <1>1, <1>2, <1>3, <1>4, <1>5, <1>6, PTL
=============================================================================
