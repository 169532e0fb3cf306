-------------------------------- MODULE Session --------------------------------
(***************************************************************************)
(* One client connection of the room server (roomserver/service/session.go,  *)
(* with acceptLoop, HandleSessionClosed and Stop of server.go).             *)
(*                                                                         *)
(* Two goroutines serve it: readLoop hands the client's messages to the     *)
(* server, writeLoop writes what the server queued.  Neither waits for the  *)
(* other; each ends the other through closeCh and the connection.  The      *)
(* client's room offers snapshots to a channel of one place, where a newer  *)
(* snapshot replaces an older one; all other messages share a queue.        *)
(*                                                                         *)
(* Messages are counted, not described: a snapshot is its number, a queued  *)
(* message only takes a place.  What the handler of a message does to rooms *)
(* is RoomServer's affair.                                                  *)
(***************************************************************************)
EXTENDS Naturals

CONSTANTS WriteQueueSize,   \* places of sendCh
          MaxSnapshots      \* bound: snapshots the room offers

ASSUME SessionAssumption ==
  /\ WriteQueueSize \in Nat
  /\ MaxSnapshots \in Nat

VARIABLES
  stopping,    \* the server's context is cancelled
  swept,       \* Server.Stop has closed the sessions it found
  listed,      \* the session is in Server.sessions
  closed,      \* closeCh and the connection are closed
  reader,      \* where readLoop is
  writer,      \* where writeLoop is
  sendCh,      \* messages in sendCh
  snapshotCh,  \* the snapshot in snapshotCh, 0 for none
  offering,    \* where the room is in SendSnapshot
  offered,     \* number of the last snapshot the room began to offer
  taken        \* number of the last snapshot the writer took

channels == <<sendCh, snapshotCh>>
room == <<offering, offered>>
server == <<stopping, swept, listed>>
vars == <<server, closed, reader, writer, channels, room, taken>>

TypeOK ==
  /\ stopping \in BOOLEAN /\ swept \in BOOLEAN
  /\ listed \in BOOLEAN /\ closed \in BOOLEAN
  /\ reader \in {"new", "poll", "read", "close", "release", "done"}
  /\ writer \in {"new", "select", "write", "done"}
  /\ sendCh \in 0..WriteQueueSize
  /\ snapshotCh \in 0..MaxSnapshots
  /\ offering \in {"idle", "drain", "retry"}
  /\ offered \in 0..MaxSnapshots
  /\ taken \in 0..MaxSnapshots

Init ==
  /\ stopping = FALSE /\ swept = FALSE
  /\ listed = FALSE /\ closed = FALSE
  /\ reader = "new" /\ writer = "new"
  /\ sendCh = 0 /\ snapshotCh = 0
  /\ offering = "idle" /\ offered = 0
  /\ taken = 0

-----------------------------------------------------------------------------
(* The server: accepting the connection, and stopping.                     *)

\* acceptLoop: the session is listed, then started.
Accept ==
  /\ reader = "new" /\ ~listed
  /\ listed' = TRUE
  /\ UNCHANGED <<stopping, swept, closed, reader, writer, channels, room, taken>>

Start ==
  /\ reader = "new" /\ listed
  /\ reader' = "poll"
  /\ writer' = "select"
  /\ UNCHANGED <<server, closed, channels, room, taken>>

\* The signal that cancels the context, then Stop, which main calls.
Cancel ==
  /\ ~stopping
  /\ stopping' = TRUE
  /\ UNCHANGED <<swept, listed, closed, reader, writer, channels, room, taken>>

\* Stop closes the session if it finds it.
Sweep ==
  /\ stopping /\ ~swept
  /\ swept' = TRUE
  /\ closed' = (closed \/ listed)
  /\ UNCHANGED <<stopping, listed, reader, writer, channels, room, taken>>

-----------------------------------------------------------------------------
(* The room, and whoever else sends.                                       *)

HasPlace == sendCh < WriteQueueSize

\* Send: a message that finds a place.  When closeCh is closed as well, the
\* select may take either branch; the other branches change nothing.
Send ==
  /\ writer # "new"
  /\ HasPlace
  /\ sendCh' = sendCh + 1
  /\ UNCHANGED <<server, closed, reader, writer, snapshotCh, room, taken>>

\* The three selects of SendSnapshot, of the snapshot numbered "offered".
\* A select with closeCh closed and room in the channel may take either.
Returns == offering' = "idle" /\ UNCHANGED snapshotCh
Places(n) == snapshotCh = 0 /\ snapshotCh' = n /\ offering' = "idle"

Offer ==
  /\ writer # "new"
  /\ offering = "idle"
  /\ offered < MaxSnapshots
  /\ offered' = offered + 1
  /\ \/ closed /\ Returns
     \/ Places(offered')
     \/ ~closed /\ snapshotCh # 0 /\ offering' = "drain" /\ UNCHANGED snapshotCh
  /\ UNCHANGED <<server, closed, reader, writer, sendCh, taken>>

SkipDrain ==
  /\ offering = "drain"
  /\ offering' = "retry"
  /\ UNCHANGED <<server, closed, reader, writer, channels, offered, taken>>
\* What is in the channel, if the writer has not taken it, is dropped.
Drain ==
  /\ offering = "drain"
  /\ snapshotCh' = 0
  /\ offering' = "retry"
  /\ UNCHANGED <<server, closed, reader, writer, sendCh, offered, taken>>

Retry ==
  /\ offering = "retry"
  /\ \/ closed /\ Returns
     \/ Places(offered)
     \/ ~closed /\ snapshotCh # 0 /\ Returns
  /\ UNCHANGED <<server, closed, reader, writer, sendCh, offered, taken>>

-----------------------------------------------------------------------------
(* writeLoop: a select over whatever is ready, in no particular order.     *)

WriterStops ==
  /\ writer = "select"
  /\ stopping \/ closed
  /\ writer' = "done"
  /\ \/ stopping /\ closed' = TRUE
     \/ closed /\ UNCHANGED closed
  /\ UNCHANGED <<server, reader, channels, room, taken>>

TakeMessage ==
  /\ writer = "select"
  /\ sendCh > 0
  /\ sendCh' = sendCh - 1
  /\ writer' = "write"
  /\ UNCHANGED <<server, closed, reader, snapshotCh, room, taken>>

TakeSnapshot ==
  /\ writer = "select"
  /\ snapshotCh # 0
  /\ taken' = snapshotCh
  /\ snapshotCh' = 0
  /\ writer' = "write"
  /\ UNCHANGED <<server, closed, reader, sendCh, room>>

\* writeMessage succeeds; it has no deadline, so a client that does not
\* acknowledge may hold it up for as long as the connection is open.
Written ==
  /\ writer = "write"
  /\ ~closed
  /\ writer' = "select"
  /\ UNCHANGED <<server, closed, reader, channels, room, taken>>

WriteFailsOpen ==
  /\ writer = "write"
  /\ writer' = "done"
  /\ UNCHANGED <<server, closed, reader, channels, room, taken>>
\* writeMessage fails, at the latest when the connection is closed.
WriteFails ==
  /\ writer = "write"
  /\ closed' = TRUE
  /\ writer' = "done"
  /\ UNCHANGED <<server, reader, channels, room, taken>>

-----------------------------------------------------------------------------
(* readLoop, and its deferred Close and HandleSessionClosed.               *)

StopsOnCancel == stopping
StopsOnClose == closed
\* What readLoop looks at before each read.
MustStop == stopping \/ closed

Poll ==
  /\ reader = "poll"
  /\ reader' = IF MustStop THEN "close" ELSE "read"
  /\ UNCHANGED <<server, closed, writer, channels, room, taken>>

\* ReadMessage ends within ReadTimeout, with a message that is handled or an
\* error: the deadline, the end of the connection, a malformed message.  What
\* had arrived before the connection was closed may still be read.
ReadMessage ==
  /\ reader = "read"
  /\ reader' \in {"poll", "close"}
  /\ UNCHANGED <<server, closed, writer, channels, room, taken>>

CloseOnExit ==
  /\ reader = "close"
  /\ closed' = TRUE
  /\ reader' = "release"
  /\ UNCHANGED <<server, writer, channels, room, taken>>

\* HandleSessionClosed.
HandleSessionClosed ==
  /\ reader = "release"
  /\ listed' = FALSE
  /\ reader' = "done"
  /\ UNCHANGED <<stopping, swept, closed, writer, channels, room, taken>>

-----------------------------------------------------------------------------
SendSnapshot == Offer \/ Drain \/ Retry
WriteLoop == WriterStops \/ TakeMessage \/ TakeSnapshot \/ Written \/ WriteFails
ReadLoop == Poll \/ ReadMessage \/ CloseOnExit \/ HandleSessionClosed

Next ==
  \/ Accept \/ Start \/ Cancel \/ Sweep
  \/ Send \/ SendSnapshot
  \/ WriteLoop \/ ReadLoop

Spec == Init /\ [][Next]_vars

\* Both goroutines are scheduled and a read ends in time.  The writer's select
\* picks among the ready channels at random, so it does not pass over closeCh
\* for ever; a write is only sure to end when the connection is closed.
Fairness ==
  /\ WF_vars(Start)
  /\ WF_vars(ReadLoop)
  /\ SF_vars(WriterStops)
  /\ WF_vars(closed /\ WriteFails)
  /\ WF_vars(writer = "select" /\ (TakeMessage \/ TakeSnapshot))

FairSpec == Spec /\ Fairness

-----------------------------------------------------------------------------
(* Properties.                                                             *)

\* README section 9: the single place keeps the latest snapshot.  Whenever the
\* room is not inside SendSnapshot and the session is open, the last snapshot
\* offered waits in the channel or was taken by the writer: a slow client misses
\* old states, never the newest, whatever the writer takes between the selects.
NewestKept ==
  offering = "idle" /\ ~closed => offered \in {snapshotCh, taken}

\* A goroutine that has ended has closed the session, so that the other one ends
\* and the server is told (the Close calls of writeLoop, writeMessage, readLoop).
EndedMeansClosed ==
  writer = "done" \/ reader \in {"release", "done"} => closed

\* Whoever closes the session (a failed write, Stop, a client gone), both
\* goroutines end and the session leaves Server.sessions, so that its player is
\* taken out of the room: also when the writer waits in a write.
CloseEndsSession ==
  closed /\ reader # "new" ~> writer = "done" /\ reader = "done" /\ ~listed

\* After the context is cancelled no started session stays, not even one that
\* acceptLoop lists after Stop went over the sessions, nor one whose writer
\* waits for a client that never acknowledges.
StopEndsSession ==
  stopping /\ reader # "new" ~> writer = "done" /\ reader = "done" /\ ~listed
=============================================================================
