------------------------------- MODULE Events -------------------------------
(***************************************************************************)
(* The answer sheets of an event: one for each of its shifts and each user *)
(* who holds a role of the shift.  They are made and removed by a          *)
(* synchronisation, every night for events to come and on request, and     *)
(* filled in by the users and by who plans the event.                      *)
(***************************************************************************)
EXTENDS Naturals, Server

CONSTANTS
  Crew,         \* the users that may hold roles
  Shifts

VARIABLES
  event,        \* "none", "coming" or "started"
  planned,      \* the shifts of the event
  shiftState,   \* each shift: "there", "hidden" (softly deleted) or "removed"
  able,         \* who holds a role of each shift
  sheet,        \* the answer sheets: "none", "open" or "filled"
  synced,       \* history: nothing has changed that the sheets depend on since a
                \* synchronisation that looked at all of them
  filled,       \* history: the sheets filled in, of those who could do the shift since
  eventTask

eventVars == <<event, planned, shiftState, able, sheet, synced, filled, eventTask>>

Sheets == Crew \X Shifts

EventTask ==
  {Idle} \cup
  [pc : {"list"}, shifts : SUBSET Shifts, loaded : SUBSET Sheets, all : BOOLEAN] \cup
  [pc : {"make"}, wanted : SUBSET Sheets, todo : SUBSET Sheets, loaded : SUBSET Sheets,
   all : BOOLEAN] \cup
  [pc : {"fill"}, sheet : Sheets] \cup
  [pc : {"delete"}, shift : Shifts, answered : BOOLEAN]

EventTypeOK ==
  /\ event \in {"none", "coming", "started"}
  /\ planned \subseteq Shifts
  /\ shiftState \in [Shifts -> {"there", "hidden", "removed"}]
  /\ able \in [Shifts -> SUBSET Crew]
  /\ sheet \in [Sheets -> {"none", "open", "filled"}]
  /\ synced \in BOOLEAN /\ filled \subseteq Sheets
  /\ eventTask \in [Handlers -> EventTask]

EventInit ==
  /\ event = "none" /\ planned = {}
  /\ shiftState = [s \in Shifts |-> "there"]
  /\ able = [s \in Shifts |-> {}]
  /\ sheet = [p \in Sheets |-> "none"]
  /\ synced = FALSE /\ filled = {}
  /\ eventTask = [h \in Handlers |-> Idle]

EventAt(h, pc) == eventTask[h].pc = pc

EventGo(h, task) == eventTask' = [eventTask EXCEPT ![h] = task]

There(shifts) == {s \in shifts : shiftState[s] = "there"}

\* The sheets there should be for these shifts.
SheetsOf(shifts) == {p \in Sheets : p[2] \in shifts /\ p[1] \in able[p[2]]}

Kept == {p \in Sheets : sheet[p] # "none"}
-----------------------------------------------------------------------------
\* A new event has shifts that somebody can do, and gets its sheets at once.
CreateEvent(h, shifts) ==
  /\ EventAt(h, "idle") /\ event = "none"
  /\ shifts = There(shifts) /\ \A s \in shifts : able[s] # {}
  /\ event' = "coming" /\ planned' = shifts
  /\ EventGo(h, [pc |-> "list", shifts |-> shifts, loaded |-> {}, all |-> TRUE])
  /\ UNCHANGED <<shiftState, able, sheet, synced, filled>>

\* Another list of shifts, maybe another day: the event is loaded without its sheets,
\* so none is removed.
UpdateEvent(h, shifts) ==
  /\ EventAt(h, "idle") /\ event # "none"
  /\ shifts = There(shifts) /\ \A s \in shifts : able[s] # {}
  /\ event' \in {event, "coming"} /\ planned' = shifts
  /\ EventGo(h, [pc |-> "list", shifts |-> shifts, loaded |-> {}, all |-> FALSE])
  /\ synced' = FALSE
  /\ filled' = {p \in filled : p[2] \in shifts}
  /\ UNCHANGED <<shiftState, able, sheet>>

\* Mutant of BeginEventSync: the event is loaded without its sheets.
BeginEventSync_Bare(h) ==
  /\ EventAt(h, "idle") /\ event # "none"
  /\ EventGo(h, [pc |-> "list", shifts |-> There(planned), loaded |-> {}, all |-> TRUE])
  /\ UNCHANGED <<event, planned, shiftState, able, sheet, synced, filled>>

\* Every night while the event is to come, and on request; hidden shifts do not count.
BeginEventSync(h) ==
  /\ EventAt(h, "idle") /\ event # "none"
  /\ EventGo(h, [pc |-> "list", shifts |-> There(planned), loaded |-> Kept, all |-> TRUE])
  /\ UNCHANGED <<event, planned, shiftState, able, sheet, synced, filled>>

\* All the shifts must still be there.
ListSheets(h) ==
  LET task == eventTask[h]
      wanted == SheetsOf(task.shifts)
  IN  /\ EventAt(h, "list") /\ task.shifts = There(task.shifts)
      /\ EventGo(h, [pc |-> "make", wanted |-> wanted, todo |-> wanted,
                     loaded |-> task.loaded, all |-> task.all])
      /\ UNCHANGED <<event, planned, shiftState, able, sheet, synced, filled>>

\* Mutant of MakeSheet: a sheet that exists is made again.
MakeSheet_Anew(h, p) ==
  LET task == eventTask[h]
  IN  /\ EventAt(h, "make") /\ p \in task.todo
      /\ event # "none" /\ shiftState[p[2]] # "removed"
      /\ sheet' = [sheet EXCEPT ![p] = "open"]
      /\ EventGo(h, [task EXCEPT !.todo = @ \ {p}])
      /\ UNCHANGED <<event, planned, shiftState, able, synced, filled>>

\* The sheets are looked up, and made if they are not there, at the same time.
MakeSheet(h, p) ==
  LET task == eventTask[h]
  IN  /\ EventAt(h, "make") /\ p \in task.todo
      /\ event # "none" /\ shiftState[p[2]] # "removed"
      /\ sheet' = IF sheet[p] = "none" THEN [sheet EXCEPT ![p] = "open"] ELSE sheet
      /\ EventGo(h, [task EXCEPT !.todo = @ \ {p}])
      /\ UNCHANGED <<event, planned, shiftState, able, synced, filled>>

RemoveSheets(h) ==
  LET task == eventTask[h]
  IN  /\ EventAt(h, "make") /\ task.todo = {}
      /\ sheet' = [p \in Sheets |-> IF p \in task.loaded \ task.wanted THEN "none" ELSE sheet[p]]
      /\ synced' = task.all
      /\ EventGo(h, Idle)
      /\ UNCHANGED <<event, planned, shiftState, able, filled>>
-----------------------------------------------------------------------------
\* A sheet is filled in before the event starts; one that has gone is saved again.
CheckSheet(h, p) ==
  /\ EventAt(h, "idle") /\ event = "coming" /\ sheet[p] # "none"
  /\ EventGo(h, [pc |-> "fill", sheet |-> p])
  /\ UNCHANGED <<event, planned, shiftState, able, sheet, synced, filled>>

FillSheet(h) ==
  LET p == eventTask[h].sheet
  IN  /\ EventAt(h, "fill")
      /\ event # "none" /\ shiftState[p[2]] # "removed"
      /\ sheet' = [sheet EXCEPT ![p] = "filled"]
      /\ filled' = filled \cup ({p} \cap SheetsOf(There(planned)))
      /\ EventGo(h, Idle)
      /\ UNCHANGED <<event, planned, shiftState, able, synced>>

\* The shifts and the sheets go with the event.
DeleteEvent(h) ==
  /\ EventAt(h, "idle") /\ event # "none"
  /\ event' = "none" /\ planned' = {}
  /\ sheet' = [p \in Sheets |-> "none"]
  /\ synced' = FALSE /\ filled' = {}
  /\ UNCHANGED <<shiftState, able, eventTask>>

BeginDeleteShift(h, s) ==
  /\ EventAt(h, "idle") /\ shiftState[s] # "removed"
  /\ EventGo(h, [pc |-> "delete", shift |-> s, answered |-> \E p \in Kept : p[2] = s])
  /\ UNCHANGED <<event, planned, shiftState, able, sheet, synced, filled>>

\* A shift that was seen to have sheets is hidden; one that has got them since stays.
DeleteShift(h) ==
  LET s == eventTask[h].shift
  IN  /\ EventAt(h, "delete")
      /\ \/ /\ eventTask[h].answered /\ shiftState[s] # "removed"
            /\ shiftState' = [shiftState EXCEPT ![s] = "hidden"]
            /\ UNCHANGED planned
         \/ /\ ~ eventTask[h].answered /\ \A p \in Kept : p[2] # s
            /\ shiftState' = [shiftState EXCEPT ![s] = "removed"]
            /\ planned' = planned \ {s}
      /\ synced' = FALSE
      /\ filled' = {p \in filled : p[2] # s}
      /\ EventGo(h, Idle)
      /\ UNCHANGED <<event, able, sheet>>

\* A user gets or loses a role, or a shift gets other roles.
AbleChanges(s, users) ==
  /\ able[s] # users
  /\ able' = [able EXCEPT ![s] = users]
  /\ synced' = FALSE
  /\ filled' = {p \in filled : p[2] = s => p[1] \in users}
  /\ UNCHANGED <<event, planned, shiftState, sheet, eventTask>>

EventStarts ==
  /\ event = "coming"
  /\ event' = "started"
  /\ UNCHANGED <<planned, shiftState, able, sheet, synced, filled, eventTask>>

\* A statement fails or is refused, or the process dies.
EventFails(h) ==
  /\ ~ EventAt(h, "idle")
  /\ EventGo(h, Idle)
  /\ UNCHANGED <<event, planned, shiftState, able, sheet, synced, filled>>

EventStep ==
  \/ EventStarts
  \/ \E h \in Handlers :
       \/ BeginEventSync(h) \/ ListSheets(h) \/ RemoveSheets(h)
       \/ FillSheet(h) \/ DeleteEvent(h) \/ DeleteShift(h)
       \/ \E p \in Sheets : MakeSheet(h, p) \/ CheckSheet(h, p)
       \/ \E s \in Shifts : BeginDeleteShift(h, s)
       \/ \E shifts \in SUBSET Shifts \ {{}} : CreateEvent(h, shifts) \/ UpdateEvent(h, shifts)

EventNext ==
  \/ EventStep
  \/ \E s \in Shifts, users \in SUBSET Crew : AbleChanges(s, users)
  \/ \E h \in Handlers : EventFails(h)

\* Roles do not change in the middle of a request.
EventQuietNext ==
  \/ EventStep
  \/ (\A h \in Handlers : EventAt(h, "idle"))
       /\ \E s \in Shifts, users \in SUBSET Crew : AbleChanges(s, users)
  \/ \E h \in Handlers : EventFails(h)

EventSpec == EventInit /\ [][EventNext]_eventVars
-----------------------------------------------------------------------------
(***************************************************************************)
(* With one request at a time: after a synchronisation the sheets are      *)
(* those of the users who can do the planned shifts, however roles and     *)
(* shifts changed before it and wherever earlier ones failed; and what a   *)
(* user filled in stays as long as the user can do the shift.              *)
(***************************************************************************)
SheetsSettle ==
  (\A h \in Handlers : EventAt(h, "idle")) =>
    /\ synced => Kept = SheetsOf(There(planned))
    /\ \A p \in filled : sheet[p] = "filled"
=============================================================================
