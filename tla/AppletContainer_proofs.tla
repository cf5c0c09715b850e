----------------------- MODULE AppletContainer_proofs -----------------------
(***************************************************************************)
(* Proofs about AppletContainer, for any orientations, settings and        *)
(* bounds: its types, what its calls may still report to, that it keeps    *)
(* the promise of AppletActivation, and that the applet hears of the       *)
(* panel's settings.                                                       *)
(***************************************************************************)
EXTENDS AppletContainer, WellFoundedInduction, TLAPS

\* What a frame has at each point of its life.
FrameHasProxy ==
  /\ frame = "activating" <=> phase # "done"
  /\ proxy => frame = "placed"
  /\ frame = "placed" => proxy
  /\ frame \in {"broken", "destroyed"} => ~watch

Inv == TypeOK /\ FrameHasProxy /\ LiveCallHasFrame

-----------------------------------------------------------------------------
(***************************************************************************)
(* Calls.                                                                  *)
(***************************************************************************)

\* Cancelling leaves calls, and none that can succeed.
LEMMA CancelAllCalls ==
  ASSUME NEW cs \in SUBSET Calls
  PROVE  CancelAll(cs) \subseteq Calls /\ \A c \in CancelAll(cs) : c.cancelled
BY DEF CancelAll, Calls

\* Cancelling one call adds none that can succeed.
LEMMA CancelOldCalls ==
  ASSUME NEW cs \in SUBSET Calls, NEW b
  PROVE  /\ CancelOld(cs, b) \subseteq Calls
         /\ \A c \in CancelOld(cs, b) : ~c.cancelled => c \in cs
BY DEF CancelOld, Calls

\* What the panel sends are messages.
LEMMA MessagesTyped ==
  ASSUME NEW ks \in Seq(Keys), NEW p \in Settings
  PROVE  [n \in 1 .. Len(ks) |-> Message(ks[n], p)] \in Seq(Messages)
<1>1. ASSUME NEW n \in 1 .. Len(ks) PROVE Message(ks[n], p) \in Messages
  <2>1. ks[n] \in Keys
    OBVIOUS
  <2> QED BY <2>1 DEF Message, Messages, Settings, Keys
<1> QED BY <1>1

\* The keys a frame sends when it comes to a panel.
LEMMA SyncKeysTyped ==
  ASSUME NEW p
  PROVE  SyncKeys(p) \in Seq(Keys) /\ SyncKeys(p) \o <<"size", "bg">> \in Seq(Keys)
<1>1. SyncKeys(p) \in Seq(Keys)
  <2>1. CASE p.orient = frameOrient
    BY <2>1 DEF SyncKeys, Keys
  <2>2. CASE p.orient # frameOrient
    BY <2>2 DEF SyncKeys, Keys
  <2> QED BY <2>1, <2>2
<1>2. <<"size", "bg">> \in Seq(Keys)
  BY DEF Keys
<1> QED BY <1>1, <1>2

\* Sending makes calls with new numbers and can only take others' success away.
LEMMA SendCalls ==
  ASSUME NEW ks \in Seq(Keys), NEW p \in Settings, CallsTypeOK, Send(ks, p)
  PROVE  /\ CallsTypeOK'
         /\ sent' >= sent
         /\ \A c \in calls' : ~c.cancelled => c \in calls \/ c.id \in sent + 1 .. sent'
<1> DEFINE New == {n \in 1 .. Len(ks) : ks[n] \in Answered}
           old == IF ks[Len(ks)] = "bg" THEN bgCall ELSE 0
           Made(n) == [id |-> sent + n, key |-> ks[n],
                       cancelled |-> ks[n] = "bg" /\ n # Len(ks)]
<1>1. /\ sent' = sent + Len(ks)
      /\ bgCall' = IF ks[Len(ks)] = "bg" THEN sent' ELSE bgCall
      /\ calls' = CancelOld(calls, old) \cup {Made(n) : n \in New}
  BY DEF Send
<1>2. Len(ks) \in Nat /\ sent \in Nat /\ bgCall \in Nat /\ calls \in SUBSET Calls
  BY DEF CallsTypeOK
<1>3. ASSUME NEW n \in New
      PROVE  Made(n) \in Calls /\ Made(n).id \in sent + 1 .. sent + Len(ks)
  BY <1>2 DEF Calls, Answered
<1>4. /\ CancelOld(calls, old) \subseteq Calls
      /\ \A c \in CancelOld(calls, old) : ~c.cancelled => c \in calls
  BY <1>2, CancelOldCalls
<1>5. sent' \in Nat /\ sent' >= sent /\ bgCall' \in Nat
  BY <1>1, <1>2
<1>6. ASSUME NEW c \in calls'
      PROVE  c \in Calls /\ (~c.cancelled => c \in calls \/ c.id \in sent + 1 .. sent')
  <2>1. CASE c \in CancelOld(calls, old)
    BY <2>1, <1>4
  <2>2. CASE \E n \in New : c = Made(n)
    BY <2>2, <1>3, <1>1
  <2> HIDE DEF New, old, Made
  <2> QED BY <2>1, <2>2, <1>1
<1> QED BY <1>5, <1>6 DEF CallsTypeOK

-----------------------------------------------------------------------------
(***************************************************************************)
(* The invariant.                                                          *)
(***************************************************************************)

LEMMA InitInv == Init => Inv
<1> SUFFICES ASSUME Init PROVE Inv
  OBVIOUS
<1>1. OutsideTypeOK
  <2>1. owners \in Seq(1 .. MaxFactories)
    <3>1. CASE factory = 0
      BY <3>1 DEF Init
    <3>2. CASE factory # 0
      <4>1. factory \in 1 .. MaxFactories
        BY <3>2, BoundAssumption DEF Init
      <4> QED BY <3>2, <4>1 DEF Init
    <3> QED BY <3>1, <3>2
  <2>2. wire \in Seq(Messages)
    BY DEF Init
  <2>3. factory \in 0 .. MaxFactories /\ born \in 0 .. MaxFactories
    BY BoundAssumption DEF Init
  <2>4. applet \in AppletStates
    BY OrientAssumption DEF Init, NoApplet, AppletStates
  <2>5. unplug \in BOOLEAN
    BY Zenon DEF Init
  <2> QED BY <2>1, <2>2, <2>3, <2>4, <2>5 DEF OutsideTypeOK
<1>2. CallsTypeOK
  BY DEF Init, CallsTypeOK, Calls
<1>3. PanelTypeOK
  <2>1. running \in BOOLEAN /\ watch \in BOOLEAN /\ proxy \in BOOLEAN
    BY Zenon DEF Init
  <2>2. /\ panel \in Settings /\ asked \in Settings /\ frameOrient \in Orients
        /\ frame \in Frames /\ phase \in Phases
    BY OrientAssumption DEF Init, Settings, Frames, Phases
  <2>3. peer \in 0 .. MaxFactories /\ changes \in 0 .. MaxChanges
    BY BoundAssumption DEF Init
  <2> QED BY <2>1, <2>2, <2>3 DEF PanelTypeOK
<1> QED BY <1>1, <1>2, <1>3 DEF Init, Inv, TypeOK, FrameHasProxy, LiveCallHasFrame, Phases

\* Outside the panel no frame and no call changes.
LEMMA OutsideInv ==
  ASSUME Inv, OutsideStep
  PROVE  Inv'
<1>1. CASE FactoryStarts
  <2>1. OutsideTypeOK'
    <3>1. born' \in 1 .. MaxFactories
      BY <1>1, BoundAssumption DEF Inv, TypeOK, OutsideTypeOK, FactoryStarts
    <3>2. owners' = Append(owners, born') \/ owners' = owners
      BY <1>1, Zenon DEF FactoryStarts
    <3>3. owners' \in Seq(1 .. MaxFactories)
      <4>1. owners \in Seq(1 .. MaxFactories)
        BY DEF Inv, TypeOK, OutsideTypeOK
      <4>2. Append(owners, born') \in Seq(1 .. MaxFactories)
        BY <4>1, <3>1
      <4> QED BY <4>1, <4>2, <3>2
    <3> QED BY <1>1, <3>1, <3>3 DEF Inv, TypeOK, OutsideTypeOK, FactoryStarts
  <2> QED BY <1>1, <2>1 DEF Inv, TypeOK, CallsTypeOK, PanelTypeOK, FrameHasProxy,
                            LiveCallHasFrame, FactoryStarts
<1>2. CASE AppletEnds
  <2>1. OutsideTypeOK'
    <3>1. factory' \in 0 .. MaxFactories
      BY <1>2, BoundAssumption DEF Inv, TypeOK, OutsideTypeOK, AppletEnds
    <3>2. unplug' \in BOOLEAN
      BY <1>2, Zenon DEF AppletEnds
    <3>3. applet' = [applet EXCEPT !.alive = FALSE] /\ wire' = <<>> /\ UNCHANGED <<born, owners>>
      BY <1>2, Zenon DEF AppletEnds
    <3>4. applet' \in AppletStates
      BY <3>3 DEF Inv, TypeOK, OutsideTypeOK, AppletStates
    <3>5. wire' \in Seq(Messages)
      BY <3>3
    <3> QED BY <3>1, <3>2, <3>3, <3>4, <3>5 DEF Inv, TypeOK, OutsideTypeOK
  <2> QED BY <1>2, <2>1 DEF Inv, TypeOK, CallsTypeOK, PanelTypeOK, FrameHasProxy,
                            LiveCallHasFrame, AppletEnds
<1>3. CASE FactoryServes
  <2>1. OutsideTypeOK'
    BY <1>3, BoundAssumption DEF Inv, TypeOK, OutsideTypeOK, PanelTypeOK, Settings,
                                 AppletStates, FactoryServes
  <2> QED BY <1>3, <2>1 DEF Inv, TypeOK, CallsTypeOK, PanelTypeOK, FrameHasProxy,
                            LiveCallHasFrame, Phases, FactoryServes
<1>4. CASE AppletServes
  <2>1. Head(wire) \in Messages /\ Tail(wire) \in Seq(Messages)
    BY <1>4 DEF Inv, TypeOK, OutsideTypeOK, AppletServes
  <2>2. OutsideTypeOK'
    BY <1>4, <2>1 DEF Inv, TypeOK, OutsideTypeOK, AppletStates, Messages, AppletServes
  <2> QED BY <1>4, <2>2 DEF Inv, TypeOK, CallsTypeOK, PanelTypeOK, FrameHasProxy,
                            LiveCallHasFrame, AppletServes
<1> QED BY <1>1, <1>2, <1>3, <1>4 DEF OutsideStep

\* Activation up to the proxy: there are no calls yet.
LEMMA ActivatingInv ==
  ASSUME Inv, OnFactoryAppeared \/ GetAppletCb
  PROVE  Inv'
<1>1. CASE OnFactoryAppeared
  <2>1. owners' \in Seq(1 .. MaxFactories) /\ peer' \in 0 .. MaxFactories
    BY <1>1, BoundAssumption DEF Inv, TypeOK, OutsideTypeOK, PanelTypeOK, OnFactoryAppeared
  <2> QED BY <1>1, <2>1 DEF Inv, TypeOK, OutsideTypeOK, CallsTypeOK, PanelTypeOK, Phases,
                            FrameHasProxy, LiveCallHasFrame, OnFactoryAppeared
<1>2. CASE GetAppletCb
  BY <1>2 DEF Inv, TypeOK, OutsideTypeOK, CallsTypeOK, PanelTypeOK, Phases, FrameHasProxy,
              LiveCallHasFrame, GetAppletCb, outside
<1> QED BY <1>1, <1>2

\* When the frame is disposed of, every call is cancelled.
LEMMA DisposedInv ==
  ASSUME Inv, Dispose, phase' = "done",
         UNCHANGED <<factory, born, applet, wire, unplug, panel, changes, running,
                     frameOrient, peer, asked, sent, bgCall>>
  PROVE  Inv'
<1>1. calls' \subseteq Calls /\ \A c \in calls' : c.cancelled
  BY CancelAllCalls DEF Inv, TypeOK, CallsTypeOK, Dispose
<1>2. owners' \in Seq(1 .. MaxFactories)
  BY DEF Dispose
<1> QED BY <1>1, <1>2 DEF Inv, TypeOK, OutsideTypeOK, CallsTypeOK, PanelTypeOK, Phases, Frames,
                          FrameHasProxy, LiveCallHasFrame, Dispose

\* A frame that the panel sends something for is placed and has its proxy.
LEMMA SentInv ==
  ASSUME Inv, NEW ks \in Seq(Keys), NEW p \in Settings, Send(ks, p),
         PanelTypeOK', proxy', frame' = "placed", phase' = "done",
         UNCHANGED <<factory, born, owners, applet, unplug>>
  PROVE  Inv'
<1>1. CallsTypeOK' 
  BY SendCalls DEF Inv, TypeOK
<1>2. wire' \in Seq(Messages)
  BY MessagesTyped DEF Inv, TypeOK, OutsideTypeOK, Send
<1>3. OutsideTypeOK'
  BY <1>2 DEF Inv, TypeOK, OutsideTypeOK
<1> QED BY <1>1, <1>3 DEF Inv, TypeOK, FrameHasProxy, LiveCallHasFrame

\* The applet is placed and told of its panel.
LEMMA ProxyInv ==
  ASSUME Inv, ProxyAppears
  PROVE  Inv'
<1>1. panel \in Settings /\ PanelTypeOK'
  BY DEF Inv, TypeOK, PanelTypeOK, Frames, Phases, Settings, ProxyAppears
<1>2. SyncKeys(panel) \o <<"size", "bg">> \in Seq(Keys)
  BY SyncKeysTyped
<1> QED BY <1>1, <1>2, SentInv DEF ProxyAppears

\* The panel's settings change, or the applet comes to another panel.
LEMMA ChangeInv ==
  ASSUME Inv, MovesToPanel \/ \E k \in Keys : PanelChanges(k)
  PROVE  Inv'
<1>1. ASSUME NEW k \in Keys, PanelChanges(k) PROVE Inv'
  <2>1. PICK p \in Settings :
          /\ panel' = p
          /\ IF OnPanel THEN Tell(<<k>>, p) ELSE UNCHANGED <<calls, wire, sent, bgCall>>
          /\ frameOrient' = IF OnPanel THEN p.orient ELSE frameOrient
    BY <1>1 DEF PanelChanges, Settings
  <2>2. PanelTypeOK'
    BY <1>1, <2>1, BoundAssumption DEF Inv, TypeOK, PanelTypeOK, Settings, PanelChanges
  <2>3. CASE OnPanel /\ proxy
    <3>1. <<k>> \in Seq(Keys) /\ Send(<<k>>, p)
      BY <1>1, <2>1, <2>3 DEF Tell
    <3> QED BY <1>1, <2>2, <2>3, <3>1, SentInv DEF Inv, FrameHasProxy, PanelChanges
  <2>4. CASE ~(OnPanel /\ proxy)
    <3>1. UNCHANGED <<calls, wire, sent, bgCall>>
      BY <2>1, <2>4 DEF Tell
    <3> QED BY <1>1, <2>2, <3>1 DEF Inv, TypeOK, OutsideTypeOK, CallsTypeOK, FrameHasProxy,
                                    LiveCallHasFrame, PanelChanges
  <2> QED BY <2>3, <2>4
<1>2. CASE MovesToPanel
  <2>1. PICK p \in Settings :
          panel' = p /\ Tell(SyncKeys(p), p) /\ frameOrient' = p.orient
    BY <1>2 DEF MovesToPanel, Settings
  <2>2. PanelTypeOK'
    BY <1>2, <2>1, BoundAssumption DEF Inv, TypeOK, PanelTypeOK, Settings, MovesToPanel
  <2>3. SyncKeys(p) \in Seq(Keys) /\ Send(SyncKeys(p), p)
    BY <1>2, <2>1, SyncKeysTyped DEF Tell, MovesToPanel, Inv, FrameHasProxy
  <2> QED BY <1>2, <2>2, <2>3, SentInv DEF Inv, FrameHasProxy, MovesToPanel
<1> QED BY <1>1, <1>2

\* A call ends, or the window of the applet is gone.
LEMMA EndInv ==
  ASSUME Inv, Answers \/ PlugRemoved
  PROVE  Inv'
<1>1. CASE Answers
  <2>1. PICK c \in calls : Answer(c)
    BY <1>1 DEF Answers
  <2>2. calls' \subseteq calls /\ bgCall' \in Nat
    BY <2>1 DEF Answer, Inv, TypeOK, CallsTypeOK
  <2>3. running' \in BOOLEAN
    <3>1. CASE c.key = "bg"
      BY <2>1, <3>1, Zenon DEF Answer
    <3>2. CASE c.key # "bg"
      BY <2>1, <3>2, Zenon DEF Answer, Inv, TypeOK, PanelTypeOK
    <3> QED BY <3>1, <3>2
  <2> QED BY <2>1, <2>2, <2>3 DEF Inv, TypeOK, OutsideTypeOK, CallsTypeOK, PanelTypeOK,
                                  FrameHasProxy, LiveCallHasFrame, Answer, outside
<1>2. CASE PlugRemoved
  <2>1. CASE proxy
    <3>1. calls' \subseteq Calls /\ \A c \in calls' : c.cancelled
      BY <1>2, <2>1, CancelAllCalls DEF Inv, TypeOK, CallsTypeOK, PlugRemoved
    <3>2. owners' \in Seq(1 .. MaxFactories)
      BY <1>2, <2>1 DEF PlugRemoved
    <3> QED BY <1>2, <2>1, <3>1, <3>2 DEF Inv, TypeOK, OutsideTypeOK, CallsTypeOK, PanelTypeOK,
                      Frames, Phases, FrameHasProxy, LiveCallHasFrame, PlugRemoved
  <2>2. CASE ~proxy
    BY <1>2, <2>2 DEF Inv, TypeOK, OutsideTypeOK, CallsTypeOK, PanelTypeOK,
                      FrameHasProxy, LiveCallHasFrame, PlugRemoved
  <2> QED BY <2>1, <2>2
<1> QED BY <1>1, <1>2

\* An activation that fails, and a frame that is removed, end in the same way.
LEMMA DestroyInv ==
  ASSUME Inv, ActivationFails \/ DestroyFrame
  PROVE  Inv'
<1>1. CASE ActivationFails
  BY <1>1, DisposedInv DEF ActivationFails
<1>2. CASE DestroyFrame
  <2>1. phase' = "done"
    BY <1>2 DEF Inv, FrameHasProxy, DestroyFrame, OnPanel
  <2> QED BY <1>2, <2>1, DisposedInv DEF DestroyFrame
<1> QED BY <1>1, <1>2

LEMMA StepInv == Inv /\ [Next]_vars => Inv'
<1>1. ASSUME Inv, PanelStep PROVE Inv'
  BY <1>1, ActivatingInv, ProxyInv, ChangeInv, EndInv, DestroyInv DEF PanelStep
<1>2. ASSUME Inv, UNCHANGED vars PROVE Inv'
  BY <1>2 DEF Inv, TypeOK, OutsideTypeOK, CallsTypeOK, PanelTypeOK, FrameHasProxy,
              LiveCallHasFrame, vars, outside
<1> QED BY <1>1, <1>2, OutsideInv DEF Next

\* The invariant holds in every behaviour.
THEOREM Invariance == Spec => []Inv
BY InitInv, StepInv, PTL DEF Spec

\* Every variable keeps its type, and no call carries a setting of another kind.
THEOREM TypeCorrect == Spec => []TypeOK
BY Invariance, PTL DEF Inv

\* A callback that can still use its frame has one: calls that were under way
\* when the applet quit or the frame was destroyed have been cancelled.
THEOREM LiveCallsHaveFrames == Spec => []LiveCallHasFrame
BY Invariance, PTL DEF Inv

-----------------------------------------------------------------------------
(***************************************************************************)
(* The container keeps its promise: each step is one of AppletActivation,  *)
(* or changes nothing that it speaks of.                                   *)
(***************************************************************************)

\* Where no call can succeed, none may report.
LEMMA NoLiveCalls ==
  (\A c \in calls : c.cancelled) => LiveCalls = {}
BY DEF LiveCalls

\* Only a placed frame has calls that may report.
LEMMA LiveWhenShown ==
  ASSUME Inv, frame # "placed"
  PROVE  LiveCalls = {}
BY DEF Inv, LiveCallHasFrame, LiveCalls

LEMMA InitPromise == Init => Promise!Init
BY DEF Init, Promise!Init, Life, LiveCalls

\* What is sent to a placed frame are calls of the promise.
LEMMA SendPromise ==
  ASSUME Inv, NEW ks \in Seq(Keys), NEW p \in Settings, Send(ks, p), UNCHANGED running
  PROVE  Promise!MakeCalls
<1>1. /\ sent \in Nat /\ sent' \in Nat /\ sent' >= sent
      /\ \A c \in calls' : ~c.cancelled => c \in calls \/ c.id \in sent + 1 .. sent'
  BY SendCalls DEF Inv, TypeOK, CallsTypeOK
<1>2. LiveCalls' \subseteq LiveCalls \cup (sent + 1 .. sent')
  BY <1>1 DEF LiveCalls
<1> QED BY <1>1, <1>2 DEF Promise!MakeCalls

\* The frame's life goes on by one step, and no call may report after it.
LEMMA LifePromise ==
  ASSUME Inv', frame' # "placed", UNCHANGED <<sent, running>>,
         \/ Life = "waiting" /\ Life' = "asked"
         \/ Life = "asked" /\ Life' = "gone"
         \/ Life = "shown" /\ Life' \in {"broken", "gone"}
         \/ Life = "broken" /\ Life' = "gone"
  PROVE  Promise!Ask \/ Promise!Fail \/ Promise!Break \/ Promise!Remove
<1>1. LiveCalls' = {}
  BY DEF Inv, LiveCallHasFrame, LiveCalls
<1> QED BY <1>1 DEF Promise!Ask, Promise!Fail, Promise!Break, Promise!Remove, Promise!Becomes

\* What the outside does, and the answer of the factory, the promise does not see.
LEMMA UnseenPromise ==
  ASSUME Inv, OutsideStep \/ GetAppletCb
  PROVE  UNCHANGED Promise!vars
<1>1. UNCHANGED <<frame, calls, sent, running>>
  BY DEF OutsideStep, FactoryStarts, AppletEnds, FactoryServes, AppletServes, GetAppletCb
<1>2. Life' = Life
  <2>1. CASE UNCHANGED phase
    BY <2>1, <1>1 DEF Life
  <2>2. CASE phase # "watching" /\ phase' # "watching"
    BY <2>2, <1>1 DEF Life
  <2>3. UNCHANGED phase \/ (phase # "watching" /\ phase' # "watching")
    BY DEF OutsideStep, FactoryStarts, AppletEnds, FactoryServes, AppletServes, GetAppletCb
  <2> QED BY <2>1, <2>2, <2>3
<1>3. LiveCalls' = LiveCalls
  BY <1>1 DEF LiveCalls
<1> QED BY <1>1, <1>2, <1>3 DEF Promise!vars

\* The factory is asked, or the panel runs into what the first request released.
LEMMA AppearedPromise ==
  ASSUME Inv, Inv', OnFactoryAppeared
  PROVE  Promise!Ask \/ Promise!Fail \/ Promise!Break \/ Promise!Remove \/ Promise!RunIntoFreed
<1>1. CASE phase = "watching"
  <2>1. frame = "activating" /\ frame' = "activating" /\ phase' = "asked"
    BY <1>1 DEF OnFactoryAppeared, Inv, FrameHasProxy
  <2>2. Life = "waiting" /\ Life' = "asked"
    BY <1>1, <2>1 DEF Life
  <2>3. UNCHANGED <<sent, running>>
    BY <1>1 DEF OnFactoryAppeared
  <2> QED BY <2>1, <2>2, <2>3, LifePromise
<1>2. CASE phase # "watching"
  <2>1. UNCHANGED <<frame, phase, calls, sent>> /\ running' = FALSE
    BY <1>2 DEF OnFactoryAppeared
  <2>2. Life \in {"asked", "shown"}
    BY <1>2 DEF OnFactoryAppeared, Inv, TypeOK, PanelTypeOK, Frames, FrameHasProxy, Life
  <2>3. UNCHANGED <<Life, LiveCalls>>
    BY <2>1 DEF Life, LiveCalls
  <2> QED BY <2>1, <2>2, <2>3 DEF Promise!RunIntoFreed
<1> QED BY <1>1, <1>2

\* The applet is shown and told of its panel.
LEMMA ProxyPromise ==
  ASSUME Inv, ProxyAppears
  PROVE  Promise!Show
<1>1. panel \in Settings /\ SyncKeys(panel) \o <<"size", "bg">> \in Seq(Keys)
  BY SyncKeysTyped DEF Inv, TypeOK, PanelTypeOK
<1>2. Send(SyncKeys(panel) \o <<"size", "bg">>, panel) /\ UNCHANGED running
  BY DEF ProxyAppears
<1>3. Promise!MakeCalls
  BY <1>1, <1>2, SendPromise
<1>4. Life = "asked" /\ Life' = "shown"
  BY DEF ProxyAppears, Inv, FrameHasProxy, Life
<1> QED BY <1>3, <1>4 DEF Promise!Show

\* A frame with a proxy is told of changes, any other is not.
LEMMA ChangePromise ==
  ASSUME Inv, MovesToPanel \/ \E k \in Keys : PanelChanges(k)
  PROVE  Promise!Call \/ UNCHANGED Promise!vars
<1>1. UNCHANGED <<frame, phase, running, proxy>> /\ Life' = Life
  BY DEF MovesToPanel, PanelChanges, Life
<1>2. ASSUME NEW ks \in Seq(Keys), NEW p \in Settings, proxy, Send(ks, p)
      PROVE  Promise!Call
  <2>1. Life = "shown"
    BY <1>2 DEF Inv, FrameHasProxy, Life
  <2> QED BY <1>1, <1>2, <2>1, SendPromise DEF Promise!Call
<1>3. ASSUME UNCHANGED <<calls, sent>> PROVE UNCHANGED Promise!vars
  <2>1. LiveCalls' = LiveCalls
    BY <1>3 DEF LiveCalls
  <2> QED BY <1>1, <1>3, <2>1 DEF Promise!vars
<1>4. ASSUME NEW k \in Keys, PanelChanges(k)
      PROVE  Promise!Call \/ UNCHANGED Promise!vars
  <2>1. PICK p \in Settings :
          IF OnPanel THEN Tell(<<k>>, p) ELSE UNCHANGED <<calls, wire, sent, bgCall>>
    BY <1>4 DEF PanelChanges, Settings
  <2>2. CASE OnPanel /\ proxy
    <3>1. <<k>> \in Seq(Keys) /\ Send(<<k>>, p)
      BY <2>1, <2>2 DEF Tell
    <3> QED BY <2>2, <3>1, <1>2
  <2>3. CASE ~(OnPanel /\ proxy)
    BY <2>1, <2>3, <1>3 DEF Tell
  <2> QED BY <2>2, <2>3
<1>5. CASE MovesToPanel
  <2>1. PICK p \in Settings : Tell(SyncKeys(p), p)
    BY <1>5 DEF MovesToPanel, Settings
  <2>2. proxy /\ SyncKeys(p) \in Seq(Keys) /\ Send(SyncKeys(p), p)
    BY <1>5, <2>1, SyncKeysTyped DEF Tell, MovesToPanel, Inv, FrameHasProxy
  <2> QED BY <2>2, <1>2
<1> QED BY <1>4, <1>5

\* A call ends; one that was cancelled may find its frame gone.
LEMMA AnswerPromise ==
  ASSUME Inv, running, Answers
  PROVE  Promise!Hear \/ Promise!RunIntoFreed
<1>1. PICK c \in calls : Answer(c)
  BY DEF Answers
<1>2. UNCHANGED <<frame, phase, sent>> /\ calls' = calls \ {c} /\ Life' = Life
  BY <1>1 DEF Answer, Life
<1>3. LiveCalls' \subseteq LiveCalls
  BY <1>2 DEF LiveCalls
<1>4. CASE c.key = "bg" /\ frame = "destroyed"
  <2>1. running' = FALSE
    BY <1>1, <1>4, Zenon DEF Answer
  <2>2. Life = "gone" /\ LiveCalls = {}
    BY <1>4, LiveWhenShown DEF Life
  <2> QED BY <1>2, <1>3, <2>1, <2>2 DEF Promise!RunIntoFreed
<1>5. CASE ~(c.key = "bg" /\ frame = "destroyed")
  <2>1. running \in BOOLEAN /\ (running' = (frame # "destroyed") \/ running' = running)
    BY <1>1, Zenon DEF Answer, Inv, TypeOK, PanelTypeOK
  <2>2. running' = running
    <3>1. CASE c.key = "bg"
      BY <1>1, <1>5, <3>1, Zenon DEF Answer, Inv, TypeOK, PanelTypeOK
    <3>2. CASE c.key # "bg"
      BY <1>1, <3>2, Zenon DEF Answer
    <3> QED BY <3>1, <3>2
  <2> QED BY <1>2, <1>3, <2>2 DEF Promise!Hear
<1> QED BY <1>4, <1>5

\* The frame breaks or goes.
LEMMA EndPromise ==
  ASSUME Inv, Inv', ActivationFails \/ PlugRemoved \/ DestroyFrame
  PROVE  \/ Promise!Ask \/ Promise!Fail \/ Promise!Break \/ Promise!Remove
         \/ UNCHANGED Promise!vars
<1>1. UNCHANGED <<sent, running>>
  BY DEF ActivationFails, PlugRemoved, DestroyFrame
<1>2. CASE ActivationFails
  <2>1. Life = "asked" /\ Life' = "gone" /\ frame' # "placed"
    BY <1>2 DEF ActivationFails, Dispose, Inv, FrameHasProxy, Life
  <2> QED BY <1>1, <2>1, LifePromise
<1>3. CASE PlugRemoved /\ proxy
  <2>1. Life = "shown" /\ Life' = "broken" /\ frame' # "placed"
    BY <1>3 DEF PlugRemoved, Inv, FrameHasProxy, Life
  <2> QED BY <1>1, <2>1, LifePromise
<1>4. CASE PlugRemoved /\ ~proxy
  <2>1. UNCHANGED <<frame, phase, calls>>
    BY <1>4 DEF PlugRemoved
  <2>2. UNCHANGED <<Life, LiveCalls>>
    BY <2>1 DEF Life, LiveCalls
  <2> QED BY <1>1, <2>2 DEF Promise!vars
<1>5. CASE DestroyFrame
  <2>1. Life \in {"shown", "broken"} /\ Life' = "gone" /\ frame' # "placed"
    BY <1>5 DEF DestroyFrame, OnPanel, Dispose, Life
  <2> QED BY <1>1, <2>1, LifePromise
<1> QED BY <1>2, <1>3, <1>4, <1>5

LEMMA StepPromise ==
  ASSUME Inv, Inv', [Next]_vars
  PROVE  Promise!Next \/ UNCHANGED Promise!vars
<1>1. CASE UNCHANGED vars
  <2>1. UNCHANGED <<frame, phase, calls, sent, running>>
    BY <1>1 DEF vars
  <2>2. UNCHANGED <<Life, LiveCalls>>
    BY <2>1 DEF Life, LiveCalls
  <2> QED BY <2>1, <2>2 DEF Promise!vars
<1>2. CASE running /\ PanelStep
  BY <1>2, AppearedPromise, UnseenPromise, ProxyPromise, ChangePromise, AnswerPromise, EndPromise
     DEF PanelStep, Promise!Next
<1>3. CASE running /\ OutsideStep
  BY <1>3, UnseenPromise
<1> QED BY <1>1, <1>2, <1>3 DEF Next

\* The container implements AppletActivation: whatever applet and factory do, a
\* frame is asked for once, shown at most once and never comes back, and no call
\* reports to a frame that is not shown.
THEOREM KeepsPromise == Spec => ActivationPromise
<1>1. Init => Promise!Init
  BY InitPromise
<1>2. Inv /\ Inv' /\ [Next]_vars => [Promise!Next]_(Promise!vars)
  BY StepPromise
<1> QED BY <1>1, <1>2, Invariance, PTL DEF Spec, ActivationPromise, Promise!Spec

-----------------------------------------------------------------------------
(***************************************************************************)
(* What the applet hears: the last message about a key has the panel's     *)
(* value, and where there is none the applet has it.                       *)
(***************************************************************************)
About(w, k) == {n \in 1 .. Len(w) : w[n].key = k}

Heard(w, a, k, v) ==
  /\ \A n \in About(w, k) : (\A m \in About(w, k) : m <= n) => w[n].val = v
  /\ About(w, k) = {} => a[k] = v

\* The exception that SettingsReachApplet makes concerns the orientation only.
HeardOrient == panel.orient # Top \/ asked.orient = Top => Heard(wire, applet, "orient", panel.orient)

PlacedHears ==
  /\ Heard(wire, applet, "size", panel.size) /\ Heard(wire, applet, "bg", panel.bg)
  /\ HeardOrient

\* Before it is placed the applet has what came with the request, and the frame
\* takes itself to be at the top.
Hears ==
  /\ frame = "activating" =>
       /\ wire = <<>> /\ frameOrient = Top
       /\ applet.alive => applet.orient = asked.orient
  /\ frame = "placed" =>
       /\ frameOrient = panel.orient
       /\ applet.alive => PlacedHears

\* A set of naturals has a largest element below a bound.
LEMMA LargestBelow ==
  ASSUME NEW b \in Nat, NEW S \in SUBSET (1 .. b), S # {}
  PROVE  \E m \in S : \A n \in S : n <= m
<1> DEFINE T == {b - n : n \in S}
<1>1. T \subseteq Nat /\ T # {}
  <2>1. PICK s \in S : TRUE OBVIOUS
  <2>2. b - s \in T OBVIOUS
  <2>3. \A n \in S : b - n \in Nat OBVIOUS
  <2> QED BY <2>2, <2>3
<1>2. PICK x \in T : \A y \in T : ~(<<y, x>> \in OpToRel(<, Nat))
  BY <1>1, NatLessThanWellFounded, WFMin
<1>3. \A y \in T : ~(y < x) BY <1>1, <1>2 DEF OpToRel
<1>4. PICK m \in S : x = b - m BY <1>2
<1>5. ASSUME NEW n \in S PROVE n <= m
  <2>1. b - n \in T OBVIOUS
  <2> HIDE DEF T
  <2>2. ~(b - n < b - m) BY <1>3, <1>4, <2>1
  <2> QED BY <2>2
<1> QED BY <1>5

\* What is heard is what Told says.
LEMMA HeardIsTold ==
  ASSUME wire \in Seq(Messages), NEW k, NEW v, Heard(wire, applet, k, v)
  PROVE  Told(k) = v
<1> DEFINE ns == About(wire, k)
<1>1. Told(k) = IF ns = {} THEN applet[k] ELSE wire[CHOOSE n \in ns : \A m \in ns : m <= n].val
  BY DEF Told, About
<1>2. ASSUME ns # {} PROVE \E n \in ns : \A m \in ns : m <= n
  <2>1. Len(wire) \in Nat /\ ns \in SUBSET (1 .. Len(wire)) BY DEF About
  <2> HIDE DEF ns
  <2> QED BY <1>2, <2>1, LargestBelow
<1>3. /\ \A n \in ns : (\A m \in ns : m <= n) => wire[n].val = v
      /\ ns = {} => applet[k] = v
  BY DEF Heard
<1> HIDE DEF ns
<1> QED BY <1>1, <1>2, <1>3

\* A message about a key that is sent is the last about it, and the others are
\* heard as before.
LEMMA SendHeard ==
  ASSUME wire \in Seq(Messages), NEW ks \in Seq(Keys), NEW p, Send(ks, p), applet.alive,
         applet' = applet, NEW k
  PROVE  /\ (\E n \in 1 .. Len(ks) : ks[n] = k) => Heard(wire', applet', k, p[k])
         /\ \A v : (\A n \in 1 .. Len(ks) : ks[n] # k) /\ Heard(wire, applet, k, v)
                     => Heard(wire', applet', k, v)
<1> DEFINE new == [n \in 1 .. Len(ks) |-> Message(ks[n], p)]
           w == wire'
<1>1. w = wire \o new BY DEF Send
<1>2. Len(wire) \in Nat /\ Len(ks) \in Nat OBVIOUS
<1>3. new \in Seq(STRING \cup {Message(ks[n], p) : n \in 1 .. Len(ks)}) /\ Len(new) = Len(ks)
  OBVIOUS
<1>4. /\ Len(w) = Len(wire) + Len(ks)
      /\ \A n \in 1 .. Len(wire) : w[n] = wire[n]
      /\ \A n \in 1 .. Len(ks) : w[Len(wire) + n] = Message(ks[n], p)
  BY <1>1, <1>2, <1>3
<1>5. \A n \in 1 .. Len(ks) : w[Len(wire) + n].key = ks[n] /\ w[Len(wire) + n].val = p[ks[n]]
  <2> SUFFICES ASSUME NEW n \in 1 .. Len(ks)
               PROVE  w[Len(wire) + n].key = ks[n] /\ w[Len(wire) + n].val = p[ks[n]]
    OBVIOUS
  <2>1. w[Len(wire) + n] = [key |-> ks[n], val |-> p[ks[n]]] BY <1>4 DEF Message
  <2> QED BY <2>1
<1>6. \A n \in 1 .. Len(w) : n \in 1 .. Len(wire) \/ \E m \in 1 .. Len(ks) : n = Len(wire) + m
  <2> SUFFICES ASSUME NEW n \in 1 .. Len(w), n \notin 1 .. Len(wire)
               PROVE  \E m \in 1 .. Len(ks) : n = Len(wire) + m
    OBVIOUS
  <2>1. n - Len(wire) \in 1 .. Len(ks) /\ n = Len(wire) + (n - Len(wire)) BY <1>2, <1>4
  <2> QED BY <2>1
<1> HIDE DEF new, w
<1>7. ASSUME NEW m \in 1 .. Len(ks), ks[m] = k PROVE Heard(w, applet, k, p[k])
  <2>1. Len(wire) + m \in About(w, k) BY <1>2, <1>4, <1>5, <1>7 DEF About
  <2>2. ASSUME NEW n \in About(w, k), \A j \in About(w, k) : j <= n PROVE w[n].val = p[k]
    <3>1. Len(wire) + m <= n /\ n \in 1 .. Len(w) /\ w[n].key = k BY <2>1, <2>2 DEF About
    <3>2. PICK j \in 1 .. Len(ks) : n = Len(wire) + j BY <1>2, <1>6, <3>1
    <3> QED BY <1>5, <3>1, <3>2
  <2> QED BY <2>1, <2>2 DEF Heard
<1>8. ASSUME NEW v, \A n \in 1 .. Len(ks) : ks[n] # k, Heard(wire, applet, k, v)
      PROVE  Heard(w, applet, k, v)
  <2>1. About(w, k) = About(wire, k)
    <3>1. ASSUME NEW n \in About(w, k) PROVE n \in About(wire, k)
      <4>1. n \in 1 .. Len(w) /\ w[n].key = k BY <3>1 DEF About
      <4>2. n \in 1 .. Len(wire) BY <1>5, <1>6, <1>8, <4>1
      <4> QED BY <1>4, <4>1, <4>2 DEF About
    <3>2. ASSUME NEW n \in About(wire, k) PROVE n \in About(w, k)
      <4>1. n \in 1 .. Len(wire) /\ wire[n].key = k BY <3>2 DEF About
      <4>2. n \in 1 .. Len(w) /\ w[n] = wire[n] BY <1>2, <1>4, <4>1
      <4> QED BY <4>1, <4>2 DEF About
    <3> QED BY <3>1, <3>2
  <2>2. \A n \in About(wire, k) : w[n] = wire[n] BY <1>4 DEF About
  <2> QED BY <1>8, <2>1, <2>2 DEF Heard
<1> QED BY <1>7, <1>8 DEF w

\* The applet handles its first message.
LEMMA ServeHeard ==
  ASSUME wire \in Seq(Messages), applet \in AppletStates, AppletServes, NEW k \in Keys, NEW v,
         Heard(wire, applet, k, v)
  PROVE  Heard(wire', applet', k, v)
<1> DEFINE m == Head(wire)
<1>1. wire # <<>> /\ wire' = Tail(wire) /\ applet' = [applet EXCEPT ![m.key] = m.val]
  BY DEF AppletServes
<1>2. m = wire[1] /\ m \in Messages /\ Len(wire) \in Nat /\ Len(wire) >= 1 BY <1>1
<1>3. Len(wire') = Len(wire) - 1 /\ \A n \in 1 .. Len(wire) - 1 : wire'[n] = wire[n + 1]
  BY <1>1
<1>4. m.key \in Keys BY <1>2 DEF Messages, Keys
<1>5. applet'[k] = IF m.key = k THEN m.val ELSE applet[k]
  BY <1>1, <1>4 DEF AppletStates, Keys
<1> HIDE DEF m
<1>6. \A n \in 1 .. Len(wire) - 1 : n \in About(wire', k) <=> n + 1 \in About(wire, k)
  BY <1>2, <1>3 DEF About
<1>7. About(wire', k) \subseteq 1 .. Len(wire) - 1 /\ About(wire, k) \subseteq 1 .. Len(wire)
  BY <1>3 DEF About
<1>8. ASSUME NEW n \in About(wire', k), \A j \in About(wire', k) : j <= n PROVE wire'[n].val = v
  <2>1. n + 1 \in About(wire, k) /\ wire'[n] = wire[n + 1] /\ n \in 1 .. Len(wire) - 1
    BY <1>3, <1>6, <1>7
  <2>2. ASSUME NEW j \in About(wire, k) PROVE j <= n + 1
    <3>1. CASE j = 1 BY <3>1, <2>1
    <3>2. CASE j # 1
      <4>1. j - 1 \in 1 .. Len(wire) - 1 /\ (j - 1) + 1 = j BY <1>2, <1>7, <3>2
      <4>2. j - 1 \in About(wire', k) BY <1>6, <4>1
      <4>3. j - 1 <= n BY <1>8, <4>2
      <4> QED BY <2>1, <4>1, <4>3
    <3> QED BY <3>1, <3>2
  <2> QED BY <2>1, <2>2 DEF Heard
<1>9. ASSUME About(wire', k) = {} PROVE applet'[k] = v
  <2>1. \A j \in About(wire, k) : j = 1
    <3> SUFFICES ASSUME NEW j \in About(wire, k), j # 1 PROVE FALSE
      OBVIOUS
    <3>1. j - 1 \in 1 .. Len(wire) - 1 /\ (j - 1) + 1 = j BY <1>2, <1>7
    <3>2. j - 1 \in About(wire', k) BY <1>6, <3>1
    <3> QED BY <1>9, <3>2
  <2>2. CASE m.key = k
    <3>1. 1 \in About(wire, k) BY <1>2, <2>2 DEF About
    <3>2. wire[1].val = v BY <2>1, <3>1 DEF Heard
    <3> QED BY <1>2, <1>5, <2>2, <3>2
  <2>3. CASE m.key # k
    <3>1. 1 \notin About(wire, k) BY <1>2, <2>3 DEF About
    <3>2. About(wire, k) = {} BY <2>1, <3>1
    <3> QED BY <1>5, <2>3, <3>2 DEF Heard
  <2> QED BY <2>2, <2>3
<1> QED BY <1>8, <1>9 DEF Heard

LEMMA InitHears == Init => Hears
BY DEF Init, Hears, NoApplet

LEMMA OutsideHears ==
  ASSUME Inv, Hears, OutsideStep
  PROVE  Hears'
<1>1. CASE FactoryStarts
  BY <1>1 DEF FactoryStarts, Hears, PlacedHears, HeardOrient
<1>2. CASE AppletEnds
  <2>1. applet'.alive = FALSE /\ wire' = <<>> /\ UNCHANGED <<frame, frameOrient, panel, asked>>
    BY <1>2 DEF AppletEnds, Inv, TypeOK, OutsideTypeOK, AppletStates
  <2> QED BY <2>1 DEF Hears
<1>3. CASE FactoryServes
  <2>1. frame = "activating" BY <1>3 DEF FactoryServes, Inv, FrameHasProxy
  <2> QED BY <1>3, <2>1 DEF FactoryServes, Hears
<1>4. CASE AppletServes
  <2>1. wire \in Seq(Messages) /\ applet \in AppletStates BY DEF Inv, TypeOK, OutsideTypeOK
  <2>2. UNCHANGED <<panel, asked, frame, frameOrient>> /\ wire # <<>> /\ applet.alive
    BY <1>4 DEF AppletServes
  <2>3. frame # "activating" BY <2>2 DEF Hears
  <2>4. PlacedHears => PlacedHears'
    BY <1>4, <2>1, <2>2, ServeHeard DEF PlacedHears, HeardOrient, Keys
  <2> QED BY <2>2, <2>3, <2>4 DEF Hears
<1> QED BY <1>1, <1>2, <1>3, <1>4 DEF OutsideStep

\* The frame comes to a panel with settings p: it is told everything, but for an
\* orientation it has.
LEMMA SyncHears ==
  ASSUME Inv, NEW ks \in Seq(Keys), Send(ks, panel'), UNCHANGED <<applet, asked>>, applet.alive,
         \E n \in 1 .. Len(ks) : ks[n] = "size",
         \E n \in 1 .. Len(ks) : ks[n] = "bg",
         \/ \E n \in 1 .. Len(ks) : ks[n] = "orient"
         \/ /\ \A n \in 1 .. Len(ks) : ks[n] # "orient"
            /\ panel'.orient # Top \/ asked.orient = Top =>
                 Heard(wire, applet, "orient", panel'.orient)
  PROVE  PlacedHears'
<1>1. wire \in Seq(Messages) BY DEF Inv, TypeOK, OutsideTypeOK
<1> DEFINE p == panel'
<1>2. Send(ks, p) OBVIOUS
<1>3. p.size = p["size"] /\ p.bg = p["bg"] /\ p.orient = p["orient"] OBVIOUS
<1> HIDE DEF p
<1>4. Heard(wire', applet', "size", p.size) /\ Heard(wire', applet', "bg", p.bg)
  BY <1>1, <1>2, <1>3, SendHeard
<1>5. panel'.orient # Top \/ asked.orient = Top => Heard(wire', applet', "orient", p.orient)
  BY <1>1, <1>2, <1>3, SendHeard DEF p
<1> QED BY <1>4, <1>5 DEF PlacedHears, HeardOrient, p

\* The entries of two sequences, one after the other.
LEMMA ConcatEntries ==
  ASSUME NEW S, NEW s \in Seq(S), NEW t \in Seq(S)
  PROVE  /\ Len(s \o t) = Len(s) + Len(t)
         /\ \A i \in 1 .. Len(s) + Len(t) :
              (s \o t)[i] = IF i <= Len(s) THEN s[i] ELSE t[i - Len(s)]
OBVIOUS

\* Where the keys of SyncKeys are.
LEMMA SyncKeysHas ==
  ASSUME NEW p, NEW rest \in {<<>>, <<"size", "bg">>}
  PROVE  LET ks == SyncKeys(p) \o rest
         IN  /\ \E n \in 1 .. Len(ks) : ks[n] = "size"
             /\ \E n \in 1 .. Len(ks) : ks[n] = "bg"
             /\ p.orient # frameOrient => \E n \in 1 .. Len(ks) : ks[n] = "orient"
             /\ p.orient = frameOrient => \A n \in 1 .. Len(ks) : ks[n] # "orient"
<1> DEFINE base == SyncKeys(p)
           ks == base \o rest
<1>1. /\ p.orient = frameOrient => Len(base) = 2 /\ base[1] = "size" /\ base[2] = "bg"
      /\ p.orient # frameOrient => /\ Len(base) = 3
                                   /\ base[1] = "orient" /\ base[2] = "size" /\ base[3] = "bg"
  <2> DEFINE one == <<"orient">>
             two == <<"size", "bg">>
  <2>1. two \in Seq(Keys) /\ Len(two) = 2 /\ two[1] = "size" /\ two[2] = "bg" BY DEF Keys
  <2>2. <<>> \in Seq(Keys) /\ Len(<<>>) = 0 OBVIOUS
  <2>3. one \in Seq(Keys) /\ Len(one) = 1 /\ one[1] = "orient" BY DEF Keys
  <2> HIDE DEF one, two
  <2>4. base = (IF p.orient = frameOrient THEN <<>> ELSE one) \o two
    BY DEF SyncKeys, one, two
  <2>5. CASE p.orient = frameOrient
    <3>1. base = <<>> \o two BY <2>4, <2>5
    <3> HIDE DEF base
    <3> QED BY <2>1, <2>2, <2>5, <3>1
  <2>6. CASE p.orient # frameOrient
    <3>1. base = one \o two BY <2>4, <2>6
    <3> HIDE DEF base
    <3> QED BY <2>1, <2>3, <2>6, <3>1, ConcatEntries
  <2> QED BY <2>5, <2>6
<1>2. base \in Seq(Keys) /\ rest \in Seq(Keys)
  <2>1. CASE rest = <<>> BY <2>1, SyncKeysTyped
  <2>2. CASE rest = <<"size", "bg">> BY <2>2, SyncKeysTyped DEF Keys
  <2> QED BY <2>1, <2>2
<1> HIDE DEF base
<1>3. /\ Len(ks) = Len(base) + Len(rest)
      /\ \A n \in 1 .. Len(base) : ks[n] = base[n] /\ n \in 1 .. Len(ks)
      /\ \A n \in 1 .. Len(ks) : n \in 1 .. Len(base) \/ ks[n] = rest[n - Len(base)]
  BY <1>2
<1>4. \A n \in 1 .. Len(rest) : rest[n] # "orient" OBVIOUS
<1>5. CASE p.orient = frameOrient
  <2>1. Len(base) = 2 /\ base[1] = "size" /\ base[2] = "bg" BY <1>1, <1>5
  <2> HIDE DEF ks
  <2>2. ASSUME NEW n \in 1 .. Len(ks) PROVE ks[n] # "orient"
    <3>1. CASE n \in 1 .. Len(base) BY <1>3, <2>1, <3>1
    <3>2. CASE n \notin 1 .. Len(base)
      <4>1. Len(rest) \in Nat /\ n - Len(base) \in 1 .. Len(rest) BY <1>2, <1>3, <2>1, <3>2
      <4> QED BY <1>3, <1>4, <3>2, <4>1
    <3> QED BY <3>1, <3>2
  <2> QED BY <1>3, <1>5, <2>1, <2>2 DEF ks, base
<1>6. CASE p.orient # frameOrient
  <2>1. Len(base) = 3 /\ base[1] = "orient" /\ base[2] = "size" /\ base[3] = "bg" BY <1>1, <1>6
  <2> HIDE DEF ks
  <2> QED BY <1>3, <1>6, <2>1 DEF ks, base
<1> QED BY <1>5, <1>6

LEMMA ProxyHears ==
  ASSUME Inv, Hears, ProxyAppears
  PROVE  Hears'
<1> DEFINE ks == SyncKeys(panel) \o <<"size", "bg">>
<1>1. /\ frame = "activating" /\ frame' = "placed" /\ frameOrient' = panel'.orient
      /\ Send(ks, panel') /\ UNCHANGED <<applet, asked, panel>>
  BY DEF ProxyAppears, Inv, FrameHasProxy
<1>2. ks \in Seq(Keys) BY SyncKeysTyped
<1>3. ASSUME applet.alive PROVE PlacedHears'
  <2>1. wire = <<>> /\ frameOrient = Top /\ applet.orient = asked.orient BY <1>1, <1>3 DEF Hears
  <2>2. panel.orient = Top /\ asked.orient = Top => Heard(wire, applet, "orient", panel.orient)
    BY <2>1 DEF Heard, About
  <2>3. /\ \E n \in 1 .. Len(ks) : ks[n] = "size"
        /\ \E n \in 1 .. Len(ks) : ks[n] = "bg"
        /\ panel.orient # frameOrient => \E n \in 1 .. Len(ks) : ks[n] = "orient"
        /\ panel.orient = frameOrient => \A n \in 1 .. Len(ks) : ks[n] # "orient"
    BY SyncKeysHas
  <2> HIDE DEF ks
  <2> QED BY <1>1, <1>2, <1>3, <2>1, <2>2, <2>3, SyncHears
<1> QED BY <1>1, <1>3 DEF Hears

LEMMA MoveHears ==
  ASSUME Inv, Hears, MovesToPanel
  PROVE  Hears'
<1>1. frame = "placed" /\ frame' = "placed" /\ proxy /\ UNCHANGED <<applet, asked>>
  BY DEF MovesToPanel, Inv, FrameHasProxy
<1>2. Send(SyncKeys(panel'), panel') /\ frameOrient' = panel'.orient
  BY <1>1 DEF MovesToPanel, Tell
<1> DEFINE p == panel'
           ks == SyncKeys(p) \o <<>>
<1>3. ks = SyncKeys(p) /\ ks \in Seq(Keys) BY SyncKeysTyped
<1>4. /\ \E n \in 1 .. Len(ks) : ks[n] = "size"
      /\ \E n \in 1 .. Len(ks) : ks[n] = "bg"
      /\ p.orient # frameOrient => \E n \in 1 .. Len(ks) : ks[n] = "orient"
      /\ p.orient = frameOrient => \A n \in 1 .. Len(ks) : ks[n] # "orient"
  BY SyncKeysHas
<1>5. Send(ks, p) BY <1>2, <1>3
<1> HIDE DEF ks
<1>6. ASSUME applet.alive PROVE PlacedHears'
  <2>1. frameOrient = panel.orient /\ HeardOrient BY <1>1, <1>6 DEF Hears, PlacedHears
  <2> QED BY <1>1, <1>3, <1>4, <1>5, <1>6, <2>1, SyncHears DEF HeardOrient
<1> QED BY <1>1, <1>2, <1>6 DEF Hears

LEMMA ChangeHears ==
  ASSUME Inv, Hears, NEW k \in Keys, PanelChanges(k)
  PROVE  Hears'
<1>1. PICK p \in Settings :
        /\ {l \in Keys : p[l] # panel[l]} = {k}
        /\ panel' = p
        /\ IF OnPanel THEN Tell(<<k>>, p) ELSE UNCHANGED <<calls, wire, sent, bgCall>>
        /\ frameOrient' = IF OnPanel THEN p.orient ELSE frameOrient
  BY DEF PanelChanges, Settings
<1>2. UNCHANGED <<applet, asked, frame, proxy>> BY DEF PanelChanges
<1>3. CASE frame = "placed" /\ applet.alive
  <2>1. Send(<<k>>, p) /\ <<k>> \in Seq(Keys) BY <1>1, <1>3 DEF OnPanel, Tell, Inv, FrameHasProxy
  <2>2. wire \in Seq(Messages) BY DEF Inv, TypeOK, OutsideTypeOK
  <2>3. \A l : (\E n \in 1 .. Len(<<k>>) : <<k>>[n] = l) <=> l = k OBVIOUS
  <2>4. ASSUME NEW l \in Keys,
               l # k => Heard(wire, applet, l, panel[l])
        PROVE  Heard(wire', applet', l, p[l])
    <3>1. CASE l = k BY <1>2, <1>3, <2>1, <2>2, <2>3, <3>1, SendHeard
    <3>2. CASE l # k
      <4>1. p[l] = panel[l] BY <1>1, <3>2
      <4>2. Heard(wire, applet, l, p[l]) BY <2>4, <3>2, <4>1
      <4> QED BY <1>2, <1>3, <2>1, <2>2, <2>3, <3>2, <4>2, SendHeard
    <3> QED BY <3>1, <3>2
  <2>5. PlacedHears BY <1>3 DEF Hears
  <2>6. Heard(wire', applet', "size", p.size) /\ Heard(wire', applet', "bg", p.bg)
    BY <2>4, <2>5 DEF PlacedHears, Keys
  <2>7. ASSUME p.orient # Top \/ asked.orient = Top
        PROVE  Heard(wire', applet', "orient", p.orient)
    <3>1. "orient" # k => p.orient = panel.orient BY <1>1 DEF Keys
    <3>2. "orient" # k => Heard(wire, applet, "orient", panel["orient"])
      BY <2>5, <2>7, <3>1 DEF PlacedHears, HeardOrient
    <3> QED BY <2>4, <3>2 DEF Keys
  <2>8. frameOrient' = panel'.orient BY <1>1, <1>3 DEF OnPanel
  <2> QED BY <1>1, <1>2, <1>3, <2>6, <2>7, <2>8 DEF Hears, PlacedHears, HeardOrient
<1>4. CASE ~(frame = "placed" /\ applet.alive)
  <2>1. frame = "placed" => frameOrient' = panel'.orient BY <1>1 DEF OnPanel
  <2>2. frame = "activating" => UNCHANGED <<wire, frameOrient>> BY <1>1 DEF OnPanel
  <2> QED BY <1>2, <1>4, <2>1, <2>2 DEF Hears
<1> QED BY <1>3, <1>4

LEMMA StepHears == Inv /\ Hears /\ [Next]_vars => Hears'
<1> SUFFICES ASSUME Inv, Hears, [Next]_vars PROVE Hears'
  OBVIOUS
<1> USE DEF Hears, PlacedHears, HeardOrient
<1>1. CASE UNCHANGED vars BY <1>1 DEF vars, outside
<1>2. CASE OnFactoryAppeared \/ GetAppletCb
  <2>1. UNCHANGED <<applet, wire, panel, frame, frameOrient, asked>>
    BY <1>2 DEF OnFactoryAppeared, GetAppletCb, outside
  <2> QED BY <2>1
<1>3. CASE ActivationFails \/ DestroyFrame
  <2>1. frame' = "destroyed" BY <1>3 DEF ActivationFails, DestroyFrame, Dispose
  <2> QED BY <2>1
<1>4. CASE Answers
  <2>1. UNCHANGED <<applet, wire, panel, frame, frameOrient, asked>>
    BY <1>4 DEF Answers, Answer, outside
  <2> QED BY <2>1
<1>5. CASE PlugRemoved
  <2>1. UNCHANGED <<applet, wire, panel, frameOrient, asked>> /\ (frame' = frame \/ frame' = "broken")
    BY <1>5 DEF PlugRemoved
  <2> QED BY <2>1
<1> QED BY <1>1, <1>2, <1>3, <1>4, <1>5, OutsideHears, ProxyHears, MoveHears, ChangeHears
        DEF Next, PanelStep

\* A live applet is told of every setting of its panel, however the panel
\* changes while the applet is activated, moved or slow to handle its messages
\* (panel_applet_frame_sync_panel_state, panel_applet_frame_change_*); all but
\* the turn to the top that SettingsReachApplet names.
THEOREM SettingsAreTold == Spec => []SettingsReachApplet
<1>1. Inv /\ Hears => SettingsReachApplet
  <2> SUFFICES ASSUME Inv, Hears, frame = "placed", applet.alive
               PROVE  /\ Told("size") = panel.size /\ Told("bg") = panel.bg
                      /\ panel.orient # Top \/ asked.orient = Top => Told("orient") = panel.orient
    BY DEF SettingsReachApplet
  <2>1. wire \in Seq(Messages) BY DEF Inv, TypeOK, OutsideTypeOK
  <2> QED BY <2>1, HeardIsTold DEF Hears, PlacedHears, HeardOrient
<1> QED BY <1>1, InitHears, StepHears, Invariance, PTL DEF Spec
=============================================================================
