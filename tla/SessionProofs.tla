---------------------------- MODULE SessionProofs ----------------------------
(***************************************************************************)
(* Theorems about Session, for every size of the queue and every number of  *)
(* snapshots.                                                              *)
(***************************************************************************)
EXTENDS Session, TLAPS

-----------------------------------------------------------------------------
(* Types.                                                                  *)

LEMMA InitTyped == Init => TypeOK
<1>1. 0 \in 0..WriteQueueSize /\ 0 \in 0..MaxSnapshots
  BY SessionAssumption DEF SessionAssumption
<1>2. QED
  BY <1>1, Zenon DEF Init, TypeOK

LEMMA StepTyped == TypeOK /\ [Next]_vars => TypeOK'
<1> SUFFICES ASSUME TypeOK, [Next]_vars PROVE TypeOK'
  OBVIOUS
<1> USE SessionAssumption DEF SessionAssumption, TypeOK
<1>1. CASE Accept \/ Start \/ Cancel \/ Sweep
  BY <1>1 DEF Accept, Start, Cancel, Sweep, server, channels, room
<1>2. CASE Send
  BY <1>2 DEF Send, HasPlace, server, room
<1>3. CASE Offer
  <2>1. offered + 1 \in 0..MaxSnapshots
    BY <1>3 DEF Offer
  <2>2. offering' \in {"idle", "drain"} /\ snapshotCh' \in {snapshotCh, offered'}
    BY <1>3 DEF Offer, Returns, Places
  <2>3. QED
    BY <1>3, <2>1, <2>2 DEF Offer, server
<1>4. CASE Drain \/ Retry
  BY <1>4 DEF Drain, Retry, Returns, Places, server
<1>5. CASE WriterStops \/ Written \/ WriteFails
  BY <1>5 DEF WriterStops, Written, WriteFails, server, channels, room
<1>6. CASE TakeMessage \/ TakeSnapshot
  BY <1>6 DEF TakeMessage, TakeSnapshot, server, room
<1>7. CASE ReadLoop
  BY <1>7 DEF ReadLoop, Poll, ReadMessage, CloseOnExit, HandleSessionClosed,
              MustStop, server, channels, room
<1>8. CASE UNCHANGED vars
  BY <1>8 DEF vars, server, channels, room
<1>9. QED
  BY <1>1, <1>2, <1>3, <1>4, <1>5, <1>6, <1>7, <1>8
     DEF Next, SendSnapshot, WriteLoop

\* Every reachable state is well typed: the queue never holds more messages than
\* it has places, whoever sends and however slowly the writer takes (Send).
THEOREM SessionTyped == Spec => []TypeOK
BY InitTyped, StepTyped, PTL DEF Spec

-----------------------------------------------------------------------------
(* The latest snapshot.                                                    *)

\* What SendSnapshot can rely on.  The room alone fills the place, so that it
\* stays empty between the second and the third select.  While the room is not
\* in SendSnapshot the place holds the snapshot offered last or nothing, so that
\* what the writer takes is never an older one.
SlotIsLatest ==
  /\ offering = "retry" => snapshotCh = 0
  /\ offering = "idle" /\ ~closed =>
       \/ snapshotCh = offered
       \/ snapshotCh = 0 /\ taken = offered

LEMMA InitLatest == Init => SlotIsLatest
BY DEF Init, SlotIsLatest

LEMMA StepLatest == TypeOK /\ SlotIsLatest /\ [Next]_vars => SlotIsLatest'
<1> SUFFICES ASSUME TypeOK, SlotIsLatest, [Next]_vars PROVE SlotIsLatest'
  OBVIOUS
<1> USE DEF SlotIsLatest
<1>1. CASE Offer
  \* An offer ends with the snapshot in the place, goes on to drain it, or finds
  \* the session closed.
  BY <1>1 DEF Offer, Returns, Places
<1>2. CASE Drain
  BY <1>2 DEF Drain
<1>3. CASE Retry
  \* The place is empty, so the third select cannot give up on an open session.
  BY <1>3 DEF Retry, Returns, Places
<1>4. CASE TakeSnapshot
  BY <1>4 DEF TakeSnapshot, server, room
<1>5. CASE Send \/ TakeMessage
  BY <1>5 DEF Send, TakeMessage, server, room
<1>6. CASE Accept \/ Start \/ Cancel \/ Sweep
  BY <1>6 DEF Accept, Start, Cancel, Sweep, TypeOK, channels, room
<1>7. CASE WriterStops \/ Written \/ WriteFails
  BY <1>7 DEF WriterStops, Written, WriteFails, TypeOK, channels, room
<1>8. CASE ReadLoop
  BY <1>8 DEF ReadLoop, Poll, ReadMessage, CloseOnExit, HandleSessionClosed,
              channels, room
<1>9. CASE UNCHANGED vars
  BY <1>9 DEF vars, channels, room
<1>10. QED
  BY <1>1, <1>2, <1>3, <1>4, <1>5, <1>6, <1>7, <1>8, <1>9
     DEF Next, SendSnapshot, WriteLoop

LEMMA LatestKept == SlotIsLatest => NewestKept
BY DEF SlotIsLatest, NewestKept

\* SendSnapshot loses old snapshots only: outside of it an open session has the
\* newest one in its place or with its writer, wherever the writer came between
\* the three selects and however many snapshots are offered.
THEOREM NewestKeptCorrect == Spec => []NewestKept
<1>1. Init => TypeOK /\ SlotIsLatest
  BY InitTyped, InitLatest
<1>2. TypeOK /\ SlotIsLatest /\ [Next]_vars => (TypeOK /\ SlotIsLatest)'
  BY StepTyped, StepLatest
<1>3. QED
  BY <1>1, <1>2, LatestKept, PTL DEF Spec

-----------------------------------------------------------------------------
(* Closing.                                                                *)

LEMMA StepClosed == TypeOK /\ EndedMeansClosed /\ [Next]_vars => EndedMeansClosed'
<1> SUFFICES ASSUME TypeOK, EndedMeansClosed, [Next]_vars PROVE EndedMeansClosed'
  OBVIOUS
<1> USE DEF EndedMeansClosed
<1>1. CASE Accept \/ Cancel \/ Sweep \/ Send \/ SendSnapshot
  BY <1>1 DEF Accept, Cancel, Sweep, Send, SendSnapshot, Offer, Drain, Retry, TypeOK
<1>2. CASE Start
  BY <1>2 DEF Start
<1>3. CASE WriterStops
  \* The branch of ctx.Done() closes the session, that of closeCh finds it closed.
  BY <1>3 DEF WriterStops
<1>4. CASE TakeMessage \/ TakeSnapshot \/ Written \/ WriteFails
  BY <1>4 DEF TakeMessage, TakeSnapshot, Written, WriteFails
<1>5. CASE Poll \/ ReadMessage \/ CloseOnExit
  BY <1>5 DEF Poll, ReadMessage, CloseOnExit
<1>6. CASE HandleSessionClosed
  \* The deferred Close has run before.
  BY <1>6 DEF HandleSessionClosed
<1>7. CASE UNCHANGED vars
  BY <1>7 DEF vars
<1>8. QED
  BY <1>1, <1>2, <1>3, <1>4, <1>5, <1>6, <1>7 DEF Next, WriteLoop, ReadLoop

\* Neither goroutine of a session ends without having closed it, in whatever
\* order the client, a failing write, the server and the other goroutine act.
THEOREM EndedMeansClosedCorrect == Spec => []EndedMeansClosed
<1>1. Init => EndedMeansClosed
  BY DEF Init, EndedMeansClosed
<1>2. QED
  BY <1>1, InitTyped, StepTyped, StepClosed, PTL DEF Spec
=============================================================================
