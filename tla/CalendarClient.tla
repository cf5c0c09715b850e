--------------------------- MODULE CalendarClient ---------------------------
(***************************************************************************)
(* The calendars in the window of a clock.                                 *)
(*                                                                         *)
(* CalendarSources keeps a client of the calendar server for every         *)
(* calendar the user selected, and makes it anew when its backend died.    *)
(* CalendarClient opens these clients, runs a query of the selected month  *)
(* on each, keeps the last query that was completed and the one that is in *)
(* progress, and applies what the server says of either.  CalendarWindow   *)
(* reads the completed queries when it is told that they changed and when  *)
(* a day or a month is selected.  A list of tasks differs in one thing:    *)
(* its query does not depend on the month.                                 *)
(*                                                                         *)
(* Code: applets/clock/calendar-client.c, calendar-sources.c and           *)
(* calendar-window.c.  The calendar server is external.                    *)
(***************************************************************************)
EXTENDS Integers, Sequences, SequencesExt, FiniteSets

CONSTANTS
  Sources,     \* calendars and task lists
  Tasks,       \* the task lists among them
  Entries,     \* appointments and tasks
  SourceOf,    \* the calendar of each entry
  MonthOf,     \* the month of each entry
  UidPrefix,   \* pairs of entries: the uid of the first begins that of the second
  Months,
  NoMonth,     \* no month is selected yet
  NoView,      \* there is no query
  MaxEdits,    \* changes outside (bound)
  MaxFaults    \* backends that die, opens and queries that fail (bound)

\* A query: its month, what it has and lost, and what is on its way to it.
Messages == [op : {"put", "del", "done"}, entry : Entries \cup {NoMonth}, version : Nat]
Views == [month : Months \cup {NoMonth},
          entries : SUBSET [entry : Entries, version : Nat, occurs : BOOLEAN],
          lost : SUBSET Entries, queue : Seq(Messages)]

\* An entry belongs to a calendar, and what is none is not one of the others.
CalAssumption ==
  /\ IsFiniteSet(Entries) /\ SourceOf \in [Entries -> Sources] /\ Tasks \subseteq Sources
  /\ NoMonth \notin Entries \cup Months /\ NoView \notin Views
  /\ MaxEdits \in Nat /\ MaxFaults \in Nat

VARIABLES
  store,       \* what the server has: the version of each entry, 0 for none
  selected,    \* the calendars that are enabled and selected
  ecal,        \* the client of each calendar: none, new, opening, loaded
  restart,     \* the kinds with a backend_restart timer
  listed,      \* the calendars CalendarClient has a source for
  dead,        \* those of them whose client's backend died
  completed,   \* completed_query of each calendar
  inProgress,  \* in_progress_query of each calendar
  month,       \* the month selected
  window,      \* the calendar window is open
  shown,       \* the entries it shows, with their versions
  failed,      \* the calendars whose last query failed (for the properties)
  edits, faults

calVars == <<store, selected, ecal, restart, listed, dead, completed,
             inProgress, month, window, shown, failed, edits, faults>>
serverVars == <<store, selected>>

Kind(s) == IF s \in Tasks THEN "tasks" ELSE "appointments"
OfKind(k) == {s \in Sources : Kind(s) = k}
Asks(s, m) == {e \in Entries : SourceOf[e] = s /\ (s \in Tasks \/ MonthOf[e] = m)}

\* An entry of a query.  An appointment occurs in the month that was selected
\* when the server told of it, or in none (generate_ocurrences).
Entry(e, v) == [entry |-> e, version |-> v,
                occurs |-> SourceOf[e] \in Tasks \/ MonthOf[e] = month]

-----------------------------------------------------------------------------
(***************************************************************************)
(* Queries.  queue is what the server sent of a query, oldest first; lost  *)
(* are entries that went with another, whose uid begins theirs.            *)
(***************************************************************************)
Put(e, v) == [op |-> "put", entry |-> e, version |-> v]
Del(e) == [op |-> "del", entry |-> e, version |-> 0]
Done == [op |-> "done", entry |-> NoMonth, version |-> 0]

\* A query of month m as it starts: the server answers with what it has.
View(s, m) ==
  [month |-> m, entries |-> {}, lost |-> {},
   queue |-> SetToSeq({Put(e, store[e]) : e \in {f \in Asks(s, m) : store[f] # 0}})
               \o <<Done>>]

\* Mutant of Started: a query in progress is left to run.
Started_KeepsOld(s, m, p) == IF p = NoView THEN View(s, m) ELSE p

\* calendar_client_start_query stops the one in progress, p.
Started(s, m, p) == View(s, m)

\* calendar_client_update_appointments and _update_tasks: the queries in
\* progress p after those of the calendars S were started.
Queried(S, m, ec, gone, p) ==
  [s \in Sources |->
     IF s \in S \ gone /\ ec[s] = "loaded" /\ (s \in Tasks \/ m # NoMonth)
       THEN Started(s, m, p[s]) ELSE p[s]]

Clear(S, views) == [s \in Sources |-> IF s \in S THEN NoView ELSE views[s]]

\* The entries of the completed queries that are of month m
\* (calendar_client_get_events).
Events(done, m) ==
  {x \in UNION {done[s].entries : s \in {t \in Sources : done[t] # NoView}} :
     x.occurs /\ (SourceOf[x.entry] \in Tasks \/ MonthOf[x.entry] = m)}

\* What the window shows of them (handle_tasks_changed, which lists a task
\* whenever it was completed, and handle_appointments_changed).
ShownOf(events) == {[entry |-> x.entry, version |-> x.version] : x \in events}
ShownTasks(done, m) == ShownOf({x \in Events(done, m) : SourceOf[x.entry] \in Tasks})
ShownAppointments(done, m) ==
  ShownOf({x \in Events(done, m) : SourceOf[x.entry] \notin Tasks})
Shows(done, m) == ShownTasks(done, m) \cup ShownAppointments(done, m)

\* The queries of a calendar are finalized with it (calendar_client_source_finalize).
Forget(S) ==
  /\ listed' = listed \ S /\ dead' = dead \ S
  /\ completed' = Clear(S, completed) /\ inProgress' = Clear(S, inProgress)

\* load_calendars: what is listed and not loaded is opened.
Opening(kept, ec) == [s \in Sources |-> IF s \in kept /\ ec[s] = "new" THEN "opening" ELSE ec[s]]

\* The signal that the clients ec of kind k changed.  update_sources_list takes
\* every second client, in the order of a hash table; then load_calendars opens
\* what is not loaded and the queries start.  Nobody tells the window of the
\* calendars that went.
SourcesChanged(k, ec) ==
  LET clients == {s \in OfKind(k) : ec[s] # "none"}
  IN  \E kept \in SUBSET clients :
        LET gone == OfKind(k) \ (kept \cap (listed \ dead))
        IN  /\ Cardinality(kept) = (Cardinality(clients) + 1) \div 2
            /\ listed' = (listed \ OfKind(k)) \cup kept
            /\ dead' = dead \ OfKind(k)
            /\ ecal' = Opening(kept, ec)
            /\ completed' = Clear(gone, completed)
            /\ inProgress' = Queried(kept, month, ec, {}, Clear(gone, inProgress))

-----------------------------------------------------------------------------
CalInit ==
  /\ store = [e \in Entries |-> 1] /\ selected = Sources
  /\ ecal = [s \in Sources |-> "none"] /\ restart = {}
  /\ listed = {} /\ dead = {}
  /\ completed = [s \in Sources |-> NoView] /\ inProgress = completed
  /\ month = NoMonth /\ window = FALSE /\ shown = {}
  /\ failed = {} /\ edits = 0 /\ faults = 0

(***************************************************************************)
(* The window.                                                             *)
(***************************************************************************)
\* calendar_window_pack_pim: the clients are made and opened (none is loaded
\* yet), then the month is selected.
OpenWindow(m) ==
  /\ ~window /\ window' = TRUE
  /\ \E kept \in SUBSET selected :
       /\ \A k \in {Kind(s) : s \in Sources} :
            Cardinality(kept \cap OfKind(k)) =
              (Cardinality(selected \cap OfKind(k)) + 1) \div 2
       /\ listed' = kept
       /\ ecal' = Opening(kept, [s \in Sources |-> IF s \in selected THEN "new" ELSE "none"])
  /\ month' = m /\ shown' = {}
  /\ UNCHANGED <<serverVars, failed, restart, dead, completed, inProgress, edits, faults>>

\* calendar_client_finalize, calendar_sources_finalize (no other clock uses it).
CloseWindow ==
  /\ window /\ window' = FALSE
  /\ Forget(Sources)
  /\ ecal' = [s \in Sources |-> "none"] /\ restart' = {}
  /\ month' = NoMonth /\ shown' = {}
  /\ UNCHANGED <<serverVars, failed, edits, faults>>

\* calendar_month_selected
SelectMonth(m) ==
  /\ window /\ month # m /\ month' = m
  /\ inProgress' = Queried(listed, m, ecal, dead, inProgress)
  /\ shown' = Shows(completed, m)
  /\ UNCHANGED <<serverVars, failed, ecal, restart, listed, dead, completed, window,
                 edits, faults>>

(***************************************************************************)
(* The server's answers.                                                   *)
(***************************************************************************)
\* cal_opened_cb for a calendar that is listed: an error drops it.
Opened(s) ==
  /\ ecal[s] = "opening"
  /\ \/ /\ ecal' = [ecal EXCEPT ![s] = "loaded"]
        /\ inProgress' = IF s \in listed
                           THEN Queried(listed \cap OfKind(Kind(s)), month, ecal', dead,
                                        inProgress)
                           ELSE inProgress
        /\ UNCHANGED <<listed, dead, completed, faults>>
     \/ /\ faults < MaxFaults /\ faults' = faults + 1
        /\ ecal' = [ecal EXCEPT ![s] = "new"]
        /\ Forget({s})
  /\ UNCHANGED <<serverVars, failed, restart, month, window, shown, edits>>

\* What a query has after message m, which it applies whatever its state.
Applied(view, m) ==
  LET Others == {x \in view.entries : x.entry # m.entry}
      Hit == {e \in Entries : <<m.entry, e>> \in UidPrefix}
  IN  [view EXCEPT
         !.queue = Tail(@),
         !.entries = CASE m.op = "put" -> Others \cup {Entry(m.entry, m.version)}
                       [] m.op = "del" -> {x \in Others : x.entry \notin Hit}
                       [] OTHER -> @,
         !.lost = CASE m.op = "put" -> @ \ {m.entry}
                    [] m.op = "del" -> @ \cup {x.entry : x \in {y \in Others : y.entry \in Hit}}
                    [] OTHER -> @]

\* calendar_client_handle_query_result and _objects_removed for the query in
\* progress: nobody is told.
ResultInProgress(s) ==
  LET view == inProgress[s]
  IN  /\ view # NoView /\ view.queue # <<>> /\ Head(view.queue) # Done
      /\ inProgress' = [inProgress EXCEPT ![s] = Applied(view, Head(view.queue))]
      /\ UNCHANGED <<serverVars, failed, ecal, restart, listed, dead, completed, month,
                     window, shown, edits, faults>>

\* The same for the completed query: the window reads it again.
ResultCompleted(s) ==
  LET view == completed[s]
  IN  /\ view # NoView /\ view.queue # <<>>
      /\ completed' = [completed EXCEPT ![s] = Applied(view, Head(view.queue))]
      /\ shown' = IF completed'[s].entries = view.entries THEN shown
                                                          ELSE Shows(completed', month)
      /\ UNCHANGED <<serverVars, failed, ecal, restart, listed, dead, inProgress, month,
                     window, edits, faults>>

\* calendar_client_handle_query_completed: the query replaces the completed
\* one.  A query that failed is stopped and the completed one stays.
QueryCompleted(s) ==
  LET view == inProgress[s]
  IN  /\ view # NoView /\ view.queue # <<>> /\ Head(view.queue) = Done
      /\ inProgress' = [inProgress EXCEPT ![s] = NoView]
      /\ \/ /\ completed' = [completed EXCEPT ![s] = [view EXCEPT !.queue = Tail(@)]]
            /\ shown' = Shows(completed', month)
            /\ failed' = failed \ {s} /\ UNCHANGED faults
         \/ /\ faults < MaxFaults /\ faults' = faults + 1 /\ failed' = failed \cup {s}
            /\ UNCHANGED <<completed, shown>>
      /\ UNCHANGED <<serverVars, ecal, restart, listed, dead, month, window, edits>>

(***************************************************************************)
(* The outside.                                                            *)
(***************************************************************************)
Told(views, e, msg) ==
  [s \in Sources |->
     IF views[s] # NoView /\ s \notin dead /\ e \in Asks(s, views[s].month)
       THEN [views[s] EXCEPT !.queue = Append(@, msg)] ELSE views[s]]

\* The server has version new of entry e, or 0, and tells the queries it
\* belongs to.
Stored(e, new) ==
  LET msg == IF new = 0 THEN Del(e) ELSE Put(e, new)
  IN  /\ edits < MaxEdits /\ edits' = edits + 1
      /\ store' = [store EXCEPT ![e] = new]
      /\ completed' = Told(completed, e, msg) /\ inProgress' = Told(inProgress, e, msg)
      /\ UNCHANGED <<selected, failed, ecal, restart, listed, dead, month, window, shown, faults>>

\* Somebody changes or removes an entry.
EditEntry(e) == \E new \in {0, store[e] + 1} \ {store[e]} : Stored(e, new)

\* The tasks whose check mark the user can click.
Clickable == {x.entry : x \in {y \in shown : SourceOf[y.entry] \in Tasks}}

\* calendar_client_set_task_completed asks the calendars that are listed for
\* the task; the one clicked may be gone.
CompleteTask(e) ==
  /\ e \in Clickable /\ store[e] # 0
  /\ SourceOf[e] \in listed \ dead /\ ecal[SourceOf[e]] = "loaded"
  /\ Stored(e, store[e] + 1)

\* The user selects a calendar or deselects it
\* (calendar_sources_registry_source_changed_cb, _removed_cb).
SelectSource(s) ==
  LET has == ecal[s] # "none"
      ec == [ecal EXCEPT ![s] = CASE s \in selected' /\ ~has -> "new"
                                  [] s \notin selected' -> "none"
                                  [] OTHER -> @]
  IN  /\ edits < MaxEdits /\ edits' = edits + 1
      /\ selected' = (selected \cup {s}) \ (selected \cap {s})
      /\ IF window /\ ec # ecal
           THEN SourcesChanged(Kind(s), ec)
           ELSE UNCHANGED <<ecal, listed, dead, completed, inProgress>>
      /\ UNCHANGED <<store, failed, restart, month, window, shown, faults>>

\* backend_died_cb: the client goes from the table; its queries say no more.
BackendDies(s) ==
  LET Silent(views) == [views EXCEPT ![s] = IF @ = NoView THEN @ ELSE [@ EXCEPT !.queue = <<>>]]
  IN  /\ faults < MaxFaults /\ faults' = faults + 1
      /\ ecal[s] # "none"
      /\ ecal' = [ecal EXCEPT ![s] = "none"]
      /\ dead' = dead \cup (listed \cap {s})
      /\ restart' = restart \cup {Kind(s)}
      /\ completed' = Silent(completed) /\ inProgress' = Silent(inProgress)
      /\ UNCHANGED <<serverVars, failed, listed, month, window, shown, edits>>

\* Mutant of BackendRestart: the clients are made anew and nobody is told.
BackendRestart_NotTold(k) ==
  /\ k \in restart /\ restart' = restart \ {k}
  /\ ecal' = [s \in Sources |-> IF s \in selected \cap OfKind(k) /\ ecal[s] = "none"
                                  THEN "new" ELSE ecal[s]]
  /\ UNCHANGED <<serverVars, failed, listed, dead, completed, inProgress, month, window,
                 shown, edits, faults>>

\* backend_restart, two seconds later
BackendRestart(k) ==
  LET ec == [s \in Sources |-> IF s \in selected \cap OfKind(k) /\ ecal[s] = "none"
                                 THEN "new" ELSE ecal[s]]
  IN  /\ k \in restart /\ restart' = restart \ {k}
      /\ SourcesChanged(k, ec)
      /\ UNCHANGED <<serverVars, failed, month, window, shown, edits, faults>>

-----------------------------------------------------------------------------
Kinds == {Kind(s) : s \in Sources}

CalStep ==
  \/ \E s \in Sources : Opened(s) \/ ResultInProgress(s) \/ ResultCompleted(s)
                          \/ QueryCompleted(s)
  \/ \E k \in Kinds : BackendRestart(k)

CalNext ==
  \/ \E m \in Months : OpenWindow(m) \/ SelectMonth(m)
  \/ CloseWindow \/ CalStep
  \/ \E e \in Entries : EditEntry(e) \/ CompleteTask(e)
  \/ \E s \in Sources : SelectSource(s) \/ BackendDies(s)

CalSpec == CalInit /\ [][CalNext]_calVars

(***************************************************************************)
(* Properties.                                                             *)
(***************************************************************************)
\* Queries belong to calendars that are listed, and only those are dead.
CalTypeOK ==
  /\ dead \subseteq listed /\ restart \subseteq Kinds
  /\ \A s \in Sources : /\ ecal[s] \in {"none", "new", "opening", "loaded"}
                         /\ s \notin listed => completed[s] = NoView /\ inProgress[s] = NoView
  /\ ~window => listed = {} /\ shown = {}
  /\ edits \in 0 .. MaxEdits /\ faults \in 0 .. MaxFaults

\* Everything that was asked of calendar s was answered, and not with an error.
Quiet(s) ==
  /\ s \in listed \ (dead \cup failed) /\ ecal[s] = "loaded" /\ inProgress[s] = NoView
  /\ completed[s] # NoView /\ completed[s].queue = <<>>
  /\ s \in Tasks \/ completed[s].month = month

\* The window shows nothing of a month that is not selected; and of a calendar
\* whose queries were answered it shows what the server has, whatever was
\* edited, selected, stopped or overtaken on the way.  What is excepted is a
\* fault: removing an entry forgets those whose uid begins with its uid.
ShownIsCurrent ==
  /\ \A x \in shown : SourceOf[x.entry] \in Tasks \/ MonthOf[x.entry] = month
  /\ \A s \in Sources : Quiet(s) =>
       {x \in shown : SourceOf[x.entry] = s} =
         {[entry |-> e, version |-> store[e]] :
            e \in {f \in Asks(s, month) : store[f] # 0} \ completed[s].lost}
=============================================================================
