-------------------------- MODULE AppletContainer --------------------------
(***************************************************************************)
(* One applet seen from the panel: the frame that waits for it, the        *)
(* container that talks to it over D-Bus, and the calls under way.         *)
(*                                                                         *)
(* The container watches the bus name of the applet's factory, asks the    *)
(* factory for the applet when the name appears, makes a proxy for it and  *)
(* embeds its window.  From then on the panel sets the applet's properties *)
(* with asynchronous calls, which a hash table holds so that they can be   *)
(* cancelled when the applet quits or its frame is destroyed.              *)
(*                                                                         *)
(* Code: libpanel-applet-private/panel-applet-container.c and              *)
(* panel-applet-frame-dbus.c, panel-applet-frame.c, panel.c.  The bus, the *)
(* X server and the factory's process are external.                        *)
(*                                                                         *)
(* "locked-down" behaves as "size" does and is left out; the two reads of  *)
(* the applet's own properties behave as a change of orientation does (a   *)
(* callback that uses the frame when the call succeeded); the calls that   *)
(* pop up menus have neither a callback nor a cancellable.                 *)
(***************************************************************************)
EXTENDS Integers, Sequences, FiniteSets

CONSTANTS
  Orients,       \* orientations of a panel
  Top,           \* PANEL_ORIENTATION_TOP, what a new frame starts from
  Looks,         \* values of the panel's size and of its background
  NoLook,        \* the background of an applet that was not told one
  MaxFactories,  \* processes of the factory (bound)
  MaxChanges     \* changes of the panel's settings (bound)

ASSUME OrientAssumption == Top \in Orients
ASSUME LookAssumption == Looks # {} /\ NoLook \notin Looks
ASSUME BoundAssumption == MaxFactories \in Nat /\ MaxChanges \in Nat

VARIABLES
  \* The outside
  factory,   \* the process that owns the factory's bus name, 0 for none
  born,      \* how many processes of the factory there have been
  owners,    \* name owners the watcher has still to report
  applet,    \* the applet's own state
  wire,      \* calls sent and not yet handled by the applet
  unplug,    \* the X server's news of the applet's window not handled yet
  \* The panel
  panel,     \* the panel's settings
  changes,   \* how much of MaxChanges is used
  running,   \* the panel's process has not run into freed memory
  frame,     \* the PanelAppletFrame
  frameOrient, \* frame->priv->orientation
  phase,     \* how far panel_applet_container_add got
  peer,      \* the process asked for the applet
  asked,     \* the settings sent with GetApplet
  watch,     \* name_watcher_id > 0
  proxy,     \* applet_proxy # NULL
  calls,     \* calls without an answer yet
  sent,      \* how many calls there have been
  bgCall     \* the call bg_cancellable belongs to, 0 for none

outside == <<factory, born, owners, applet, wire, unplug>>
vars == <<outside, panel, changes, running, frame, frameOrient, phase, peer,
          asked, watch, proxy, calls, sent, bgCall>>

Keys == {"orient", "size", "bg"}
Answered == {"orient", "bg"}
NoApplet == [alive |-> FALSE, orient |-> Top, size |-> NoLook, bg |-> NoLook]

\* gtk_widget_destroy runs a frame's dispose; a frame whose applet could not
\* be loaded is destroyed before anyone sees it.
Frames == {"activating", "placed", "broken", "destroyed"}
Phases == {"watching", "asked", "made", "connecting", "done"}

-----------------------------------------------------------------------------
(***************************************************************************)
(* Calls.  A call is in pending_ops until its callback runs.  The size is   *)
(* set without a callback: nothing hears of the end of that call.          *)
(***************************************************************************)
\* Mutant of CancelAll: nothing is cancelled.
CancelAll_Nothing(cs) == cs

\* panel_applet_container_cancel_pending_operations
CancelAll(cs) == {[c EXCEPT !.cancelled = TRUE] : c \in cs}

\* The background calls before call number n that bg_cancellable, of call b,
\* cancels: change_background keeps one cancellable, of the last change.
CancelOld(cs, b) == {IF c.id = b THEN [c EXCEPT !.cancelled = TRUE] ELSE c : c \in cs}

\* Mutant of Message: a background without a string is sent too.
Message_NoString(k, settings) ==
  [key |-> k, val |-> IF k = "bg" THEN NoLook ELSE settings[k]]

Message(k, settings) == [key |-> k, val |-> settings[k]]

\* panel_applet_container_child_set or _get for each of ks, in that order; a
\* background, if there is one among them, comes last.  What is sent to a dead
\* applet is read by nobody.
Send(ks, settings) ==
  LET New == {n \in 1 .. Len(ks) : ks[n] \in Answered}
      back == ks[Len(ks)] = "bg"
  IN  /\ sent' = sent + Len(ks)
      /\ bgCall' = IF back THEN sent' ELSE bgCall
      /\ calls' = CancelOld(calls, IF back THEN bgCall ELSE 0) \cup
                    {[id |-> sent + n, key |-> ks[n],
                      cancelled |-> ks[n] = "bg" /\ n # Len(ks)] : n \in New}
      /\ wire' = IF applet.alive
                   THEN wire \o [n \in 1 .. Len(ks) |-> Message(ks[n], settings)]
                   ELSE wire

-----------------------------------------------------------------------------
Init ==
  /\ factory \in 0 .. 1 /\ factory <= MaxFactories /\ born = factory
  /\ owners = IF factory = 0 THEN <<>> ELSE <<factory>>
  /\ applet = NoApplet /\ wire = <<>> /\ unplug = FALSE
  /\ panel \in [orient : Orients, size : Looks, bg : Looks]
  /\ changes = 0 /\ running = TRUE
  /\ frame = "activating" /\ frameOrient = Top
  /\ phase = "watching" /\ peer = 0 /\ asked = panel
  /\ watch = TRUE /\ proxy = FALSE /\ calls = {}
  /\ sent = 0 /\ bgCall = 0

(***************************************************************************)
(* The factory's process and the applet in it.                             *)
(***************************************************************************)

\* The bus starts the factory, for this watcher or for another applet.
FactoryStarts ==
  /\ factory = 0 /\ born < MaxFactories
  /\ born' = born + 1 /\ factory' = born'
  /\ owners' = IF watch THEN Append(owners, born') ELSE owners
  /\ UNCHANGED <<applet, wire, unplug, panel, changes, running, frame,
                 frameOrient, phase, peer, asked, watch, proxy, calls, sent, bgCall>>

\* The process ends, or only the applet closes its window.
AppletEnds ==
  /\ \/ factory # 0 /\ factory' = 0
     \/ applet.alive /\ UNCHANGED factory
  /\ applet' = [applet EXCEPT !.alive = FALSE]
  /\ wire' = <<>>
  /\ unplug' = (unplug \/ (applet.alive /\ frame = "placed"))
  /\ UNCHANGED <<born, owners, panel, changes, running, frame, frameOrient,
                 phase, peer, asked, watch, proxy, calls, sent, bgCall>>

\* panel_applet_factory_get_applet: the applet is made with the properties
\* that came with the call.
FactoryServes ==
  /\ phase = "asked" /\ factory = peer
  /\ phase' = "made"
  /\ applet' = [alive |-> TRUE, orient |-> asked.orient, size |-> asked.size,
                bg |-> NoLook]
  /\ UNCHANGED <<factory, born, owners, wire, unplug, panel, changes, running,
                 frame, frameOrient, peer, asked, watch, proxy, calls, sent, bgCall>>

\* The applet handles a Set or a Get.
AppletServes ==
  LET m == Head(wire)
  IN  /\ applet.alive /\ wire # <<>>
      /\ wire' = Tail(wire)
      /\ applet' = [applet EXCEPT ![m.key] = m.val]
      /\ UNCHANGED <<factory, born, owners, unplug, panel, changes, running,
                     frame, frameOrient, phase, peer, asked, watch, proxy,
                     calls, sent, bgCall>>

-----------------------------------------------------------------------------
(***************************************************************************)
(* Activation.                                                             *)
(***************************************************************************)

\* on_factory_appeared.  A second owner of the name gets a second GetApplet,
\* made of the parameters the first call consumed and of a result that its
\* completion has released.
OnFactoryAppeared ==
  /\ watch /\ owners # <<>>
  /\ owners' = Tail(owners)
  /\ IF phase = "watching"
       THEN phase' = "asked" /\ peer' = Head(owners) /\ UNCHANGED running
       ELSE running' = FALSE /\ UNCHANGED <<phase, peer>>
  /\ UNCHANGED <<factory, born, applet, wire, unplug, panel, changes, frame,
                 frameOrient, asked, watch, proxy, calls, sent, bgCall>>

\* panel_applet_container_dispose
Dispose ==
  /\ frame' = "destroyed"
  /\ watch' = FALSE /\ owners' = <<>>
  /\ proxy' = FALSE /\ calls' = CancelAll(calls)

\* Mutant of ActivationFails: get_applet_cb returns without completing the add.
ActivationFails_Proxy ==
  /\ phase = "connecting"
  /\ phase' = "done"
  /\ Dispose
  /\ UNCHANGED <<factory, born, applet, wire, unplug, panel, changes, running,
                 frameOrient, peer, asked, sent, bgCall>>

\* The add ends with an error (the call fails or times out, or no proxy can be
\* made): a dialog is shown and the frame destroyed.
ActivationFails ==
  /\ phase \in {"asked", "connecting"}
  /\ phase' = "done"
  /\ Dispose
  /\ UNCHANGED <<factory, born, applet, wire, unplug, panel, changes, running,
                 frameOrient, peer, asked, sent, bgCall>>

\* get_applet_cb
GetAppletCb ==
  /\ phase = "made" /\ phase' = "connecting"
  /\ UNCHANGED <<outside, panel, changes, running, frame, frameOrient, peer,
                 asked, watch, proxy, calls, sent, bgCall>>

\* Mutant of SyncKeys: the panel tells of its background only.
SyncKeys_Background(p) == <<"bg">>

\* What a frame sends when it comes to a panel with settings p, the
\* orientation only when it is not the one the frame already has
\* (orientation_change, size_change, back_change).
SyncKeys(p) ==
  (IF p.orient = frameOrient THEN <<>> ELSE <<"orient">>) \o <<"size", "bg">>

\* on_proxy_appeared: _panel_applet_frame_activated registers the frame, which
\* syncs it twice (panel_widget_add and panel_applet_register).  Then the
\* window is embedded; if the applet is gone by then there is nothing to embed
\* and no plug-removed will come.
ProxyAppears ==
  /\ phase = "connecting" /\ phase' = "done"
  /\ proxy' = TRUE /\ frame' = "placed"
  /\ frameOrient' = panel.orient
  /\ Send(SyncKeys(panel) \o <<"size", "bg">>, panel)
  /\ UNCHANGED <<factory, born, owners, applet, unplug, panel, changes,
                 running, peer, asked, watch>>

-----------------------------------------------------------------------------
(***************************************************************************)
(* A placed applet.                                                        *)
(***************************************************************************)
OnPanel == frame \in {"placed", "broken"}

Tell(ks, settings) == IF proxy THEN Send(ks, settings)
                               ELSE UNCHANGED <<calls, wire, sent, bgCall>>

\* One of the panel's settings changes.  Only the frames on the panel hear of
\* it, and only a live proxy passes it on.
PanelChanges(k) ==
  /\ changes < MaxChanges /\ changes' = changes + 1
  /\ \E p \in [orient : Orients, size : Looks, bg : Looks] :
       /\ {l \in Keys : p[l] # panel[l]} = {k}
       /\ panel' = p
       /\ IF OnPanel THEN Tell(<<k>>, p) ELSE UNCHANGED <<calls, wire, sent, bgCall>>
       /\ frameOrient' = IF OnPanel THEN p.orient ELSE frameOrient
  /\ UNCHANGED <<factory, born, owners, applet, unplug, running, frame, phase,
                 peer, asked, watch, proxy>>

\* panel_widget_reparent: the applet is dropped on another panel.
MovesToPanel ==
  /\ changes < MaxChanges /\ changes' = changes + 1
  /\ frame = "placed"
  /\ \E p \in [orient : Orients, size : Looks, bg : Looks] :
       /\ panel' = p
       /\ Tell(SyncKeys(p), p)
       /\ frameOrient' = p.orient
  /\ UNCHANGED <<factory, born, owners, applet, unplug, running, frame, phase,
                 peer, asked, watch, proxy>>

\* The callback of a call.  It may run before the applet handled the call (the
\* call was cancelled or timed out) or long after.
Answer(c) ==
  /\ calls' = calls \ {c}
  /\ IF c.key = "bg"
       THEN /\ bgCall' = 0                 \* container_child_background_set
            /\ running' = (frame # "destroyed")
       ELSE UNCHANGED <<bgCall, running>>
  /\ UNCHANGED <<outside, panel, changes, frame, frameOrient, phase, peer,
                 asked, watch, proxy, sent>>

Answers == \E c \in calls : Answer(c)

\* Mutant of PlugRemoved: "applet-broken" is not emitted.
PlugRemoved_NotEmitted ==
  /\ unplug /\ unplug' = FALSE
  /\ IF proxy
       THEN /\ calls' = CancelAll(calls)
            /\ watch' = FALSE /\ owners' = <<>>
            /\ proxy' = FALSE /\ UNCHANGED frame
       ELSE UNCHANGED <<calls, watch, owners, proxy, frame>>
  /\ UNCHANGED <<factory, born, applet, wire, panel, changes, running,
                 frameOrient, phase, peer, asked, sent, bgCall>>

\* Mutant of PlugRemoved: the factory's name is watched on.
PlugRemoved_StillWatching ==
  /\ unplug /\ unplug' = FALSE
  /\ IF proxy
       THEN /\ calls' = CancelAll(calls)
            /\ proxy' = FALSE /\ frame' = "broken"
       ELSE UNCHANGED <<calls, proxy, frame>>
  /\ UNCHANGED <<watch, owners, factory, born, applet, wire, panel, changes, running,
                 frameOrient, phase, peer, asked, sent, bgCall>>

\* panel_applet_container_plug_removed, from the X server.  The socket is realized
\* while the frame is there; it is unrealized, and tells of it without reporting
\* that the applet broke, only when the frame goes, which Dispose has done then.
PlugRemoved ==
  /\ unplug /\ unplug' = FALSE
  /\ IF proxy
       THEN /\ calls' = CancelAll(calls)
            /\ watch' = FALSE /\ owners' = <<>>
            /\ proxy' = FALSE /\ frame' = "broken"
       ELSE UNCHANGED <<calls, watch, owners, proxy, frame>>
  /\ UNCHANGED <<factory, born, applet, wire, panel, changes, running,
                 frameOrient, phase, peer, asked, sent, bgCall>>

\* The frame goes: removed by the user or by the applet, with its panel, or to
\* be loaded anew after it broke.
DestroyFrame ==
  /\ OnPanel
  /\ Dispose
  /\ UNCHANGED <<factory, born, applet, wire, unplug, panel, changes, running,
                 frameOrient, phase, peer, asked, sent, bgCall>>

-----------------------------------------------------------------------------
PanelStep ==
  \/ OnFactoryAppeared \/ GetAppletCb \/ ActivationFails \/ ProxyAppears
  \/ MovesToPanel \/ \E k \in Keys : PanelChanges(k)
  \/ Answers \/ PlugRemoved \/ DestroyFrame

OutsideStep == FactoryStarts \/ AppletEnds \/ FactoryServes \/ AppletServes

Next == running /\ (PanelStep \/ OutsideStep)

(***************************************************************************)
(* Fairness: the main loop delivers what has arrived; a call has a timeout *)
(* (25 seconds by default), so an activation that was asked for ends; and  *)
(* a live applet handles its calls.                                        *)
(***************************************************************************)
Fairness ==
  /\ WF_vars(running /\ OnFactoryAppeared)
  /\ WF_vars(running /\ (ActivationFails \/ GetAppletCb \/ ProxyAppears))
  /\ WF_vars(running /\ PlugRemoved)
  /\ WF_vars(running /\ AppletServes)

Spec == Init /\ [][Next]_vars
FairSpec == Spec /\ Fairness

-----------------------------------------------------------------------------
(***************************************************************************)
(* Properties.                                                             *)
(***************************************************************************)
Settings == [orient : Orients, size : Looks, bg : Looks]
Calls == [id : Nat, key : Answered, cancelled : BOOLEAN]

AppletStates == [alive : BOOLEAN, orient : Orients, size : Looks \cup {NoLook},
                 bg : Looks \cup {NoLook}]

\* Messages of the panel; a background without a string is never sent.
Messages == [key : {"orient"}, val : Orients] \cup [key : {"size", "bg"}, val : Looks]

\* Every variable has its type.
OutsideTypeOK ==
  /\ factory \in 0 .. MaxFactories /\ born \in 0 .. MaxFactories
  /\ owners \in Seq(1 .. MaxFactories)
  /\ applet \in AppletStates
  /\ wire \in Seq(Messages)
  /\ unplug \in BOOLEAN

CallsTypeOK == calls \subseteq Calls /\ sent \in Nat /\ bgCall \in Nat

PanelTypeOK ==
  /\ panel \in Settings /\ asked \in Settings /\ frameOrient \in Orients
  /\ frame \in Frames /\ phase \in Phases /\ peer \in 0 .. MaxFactories
  /\ running \in BOOLEAN /\ watch \in BOOLEAN /\ proxy \in BOOLEAN
  /\ changes \in 0 .. MaxChanges

TypeOK == OutsideTypeOK /\ CallsTypeOK /\ PanelTypeOK

\* A call that can still succeed has a frame to report to: when the applet
\* has quit or the frame is destroyed every call under way is cancelled.  The
\* callbacks of the calls use the frame when they succeed.
LiveCallHasFrame ==
  \A c \in calls : ~c.cancelled => proxy /\ frame = "placed"

\* What the applet will have for a key once it has handled what was sent.
Told(k) ==
  LET ns == {n \in 1 .. Len(wire) : wire[n].key = k}
  IN  IF ns = {} THEN applet[k]
      ELSE wire[CHOOSE n \in ns : \A m \in ns : m <= n].val

\* A live applet is told of every setting of its panel, though the panel may
\* change while the applet is activated; all but one: a panel that turns to
\* Top in that time is not told to the applet, because a new frame takes
\* itself to be at Top.
SettingsReachApplet ==
  frame = "placed" /\ proxy /\ applet.alive =>
    /\ Told("size") = panel.size /\ Told("bg") = panel.bg
    /\ panel.orient # Top \/ asked.orient = Top => Told("orient") = panel.orient

\* What the panel makes of the frame (refinement mapping).
Life ==
  CASE frame = "activating" -> IF phase = "watching" THEN "waiting" ELSE "asked"
    [] frame = "placed"     -> "shown"
    [] frame = "broken"     -> "broken"
    [] frame = "destroyed"  -> "gone"
LiveCalls == {c.id : c \in {d \in calls : ~d.cancelled}}

Promise == INSTANCE AppletActivation WITH
  life <- Life, live <- LiveCalls, last <- sent, ok <- running

\* The container keeps its promise to the panel: an applet's frame is asked for
\* once, is shown at most once, never comes back, and no call reports to a frame
\* that is broken or gone.
ActivationPromise == Promise!Spec

\* Once the factory was asked, the activation ends, in success or failure.
ActivationEnds == phase = "asked" ~> phase = "done" \/ ~running

\* An embedded applet that quits is noticed.
BrokenNoticed == unplug /\ proxy ~> frame # "placed" \/ ~running
=============================================================================
