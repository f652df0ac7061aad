----------------------------- MODULE SystemRoom -----------------------------
(***************************************************************************)
(* The maintenance mode and the WebSocket room that shows it.  The mode is *)
(* a row of the database; each HTTP worker also keeps the settings in      *)
(* memory.  Clients are connected to one of the workers, and what a worker *)
(* emits to the room reaches every client in it (the cluster adapter hands *)
(* it to the other workers).                                               *)
(***************************************************************************)
EXTENDS Server

CONSTANTS
  Workers,      \* the processes that answer requests
  Clients

VARIABLES
  mode,         \* the row of the setting
  cached,       \* the setting in the memory of each worker
  connected,    \* the worker of each client in the room, or Nowhere
  shown,        \* the mode each client was told last, or "unknown"
  roomTask

roomVars == <<mode, cached, connected, shown, roomTask>>

Nowhere == "nowhere"

Modes == {"on", "off"}

RoomTask ==
  {Idle} \cup [pc : {"read"}, worker : Workers]
    \cup [pc : {"save", "emit"}, worker : Workers, value : Modes]

RoomTypeOK ==
  /\ mode \in Modes /\ cached \in [Workers -> Modes]
  /\ connected \in [Clients -> Workers \cup {Nowhere}]
  /\ shown \in [Clients -> Modes \cup {"unknown"}]
  /\ roomTask \in [Handlers -> RoomTask]

RoomInit ==
  /\ mode = "off" /\ cached = [w \in Workers |-> "off"]
  /\ connected = [c \in Clients |-> Nowhere]
  /\ shown = [c \in Clients |-> "unknown"]
  /\ roomTask = [h \in Handlers |-> Idle]

RoomAt(h, pc) == roomTask[h].pc = pc

RoomGo(h, task) == roomTask' = [roomTask EXCEPT ![h] = task]

InRoom(c) == connected[c] # Nowhere
-----------------------------------------------------------------------------
\* Setting the mode: the worker's memory, the row, and then word to the room.
SetMode(h, w, value) ==
  /\ RoomAt(h, "idle")
  /\ cached' = [cached EXCEPT ![w] = value]
  /\ RoomGo(h, [pc |-> "save", worker |-> w, value |-> value])
  /\ UNCHANGED <<mode, connected, shown>>

SaveMode(h) ==
  /\ RoomAt(h, "save")
  /\ mode' = roomTask[h].value
  /\ RoomGo(h, [roomTask[h] EXCEPT !.pc = "emit"])
  /\ UNCHANGED <<cached, connected, shown>>

\* A client joins the room, and the worker looks up what to tell.
JoinRoom(h, c, w) ==
  /\ RoomAt(h, "idle")
  /\ connected[c] \in {w, Nowhere}
  /\ connected' = [connected EXCEPT ![c] = w]
  /\ shown' = IF InRoom(c) THEN shown ELSE [shown EXCEPT ![c] = "unknown"]
  /\ RoomGo(h, [pc |-> "read", worker |-> w])
  /\ UNCHANGED <<mode, cached>>

\* Mutant of ReadMode: the worker trusts its memory.
ReadMode_Cached(h) ==
  LET w == roomTask[h].worker
  IN  /\ RoomAt(h, "read")
      /\ RoomGo(h, [pc |-> "emit", worker |-> w, value |-> cached[w]])
      /\ UNCHANGED <<mode, cached, connected, shown>>

ReadMode(h) ==
  LET w == roomTask[h].worker
  IN  /\ RoomAt(h, "read")
      /\ cached' = [cached EXCEPT ![w] = mode]
      /\ RoomGo(h, [pc |-> "emit", worker |-> w, value |-> mode])
      /\ UNCHANGED <<mode, connected, shown>>

\* Everybody in the room is told, not only who joined.
EmitMode(h) ==
  /\ RoomAt(h, "emit")
  /\ shown' = [c \in Clients |-> IF InRoom(c) THEN roomTask[h].value ELSE shown[c]]
  /\ RoomGo(h, Idle)
  /\ UNCHANGED <<mode, cached, connected>>

LeaveRoom(c) ==
  /\ InRoom(c)
  /\ connected' = [connected EXCEPT ![c] = Nowhere]
  /\ UNCHANGED <<mode, cached, shown, roomTask>>

\* A worker starts again: its clients lose their connection, and its requests end.
RestartWorker(w) ==
  /\ cached' = [cached EXCEPT ![w] = mode]
  /\ connected' = [c \in Clients |-> IF connected[c] = w THEN Nowhere ELSE connected[c]]
  /\ roomTask' = [h \in Handlers |-> IF roomTask[h] # Idle /\ roomTask[h].worker = w
                                     THEN Idle ELSE roomTask[h]]
  /\ UNCHANGED <<mode, shown>>

RoomStep ==
  \/ \E c \in Clients : LeaveRoom(c)
  \/ \E h \in Handlers :
       \/ SaveMode(h) \/ ReadMode(h) \/ EmitMode(h)
       \/ \E w \in Workers : \/ \E value \in Modes : SetMode(h, w, value)
                             \/ \E c \in Clients : JoinRoom(h, c, w)

\* A worker that restarts in the middle of a request has said nothing to the room.
RoomNext == RoomStep \/ \E w \in Workers : RestartWorker(w)

RestartIdle(w) == /\ \A h \in Handlers : roomTask[h] # Idle => roomTask[h].worker # w
                  /\ RestartWorker(w)

RoomQuietNext == RoomStep \/ \E w \in Workers : RestartIdle(w)

RoomSpec == RoomInit /\ [][RoomNext]_roomVars
-----------------------------------------------------------------------------
(***************************************************************************)
(* Whichever worker set the mode and whichever a client is connected to,   *)
(* when no request is in progress every client in the room has been told   *)
(* the mode the database holds; with one request at a time, and no worker  *)
(* restarting in the middle of one.                                        *)
(***************************************************************************)
ModeIsShown ==
  (\A h \in Handlers : RoomAt(h, "idle")) =>
    \A c \in Clients : InRoom(c) => shown[c] = mode
=============================================================================
