------------------------------- MODULE Recorder -------------------------------
(***************************************************************************)
(* Recordings (studio-app/src/record.rs): the slot that holds the recorder *)
(* of the app, the calls that start and stop one, and the thread that      *)
(* writes what the tap publishes until the session ends, the recording is  *)
(* stopped, or a write fails.                                              *)
(*                                                                         *)
(* A recording has the name of the call that started it.  What the tap     *)
(* publishes is a batch of samples, the status that ends a session, or     *)
(* anything else; a recorder's queue is bounded, and what does not fit is  *)
(* dropped (Tap).  Whoever calls runs on a thread of its own; pc says how  *)
(* far each call got.                                                      *)
(***************************************************************************)
EXTENDS Integers, Sequences

CONSTANTS
  Recordings,  \* calls of start_recording
  StopCalls,   \* calls of stop_recording
  OtherCalls,  \* calls that have nothing to do with recordings
  Disconnects, \* calls of disconnect, which end the recording too
  QueueSize,   \* QUEUE, messages queued for a recorder
  Disk         \* whether files may fail to open, to write and to close

NoOne == "no one"
Calls == Recordings \union StopCalls \union OtherCalls \union Disconnects

ASSUME RecorderAssumption ==
  /\ Recordings \intersect (StopCalls \union OtherCalls \union Disconnects) = {}
  /\ StopCalls \intersect (OtherCalls \union Disconnects) = {}
  /\ OtherCalls \intersect Disconnects = {}
  /\ NoOne \notin Calls
  /\ QueueSize \in Nat \ {0} /\ Disk \in BOOLEAN

VARIABLES
  pc,        \* "idle", then what each call does next, "done" at its end
  link,      \* LinkState as the tap last published it: "connected" or "over"
  held,      \* the recording whose recorder is in the app's slot, or NoOne
  starting,  \* the recording that is being started with the slot locked, or NoOne
  waits,     \* the recorder each stop_recording or disconnect joins, or NoOne
  writer,    \* what each recorder's thread does
  stopper,   \* the call that told each recorder to stop, or NoOne
  queue,     \* what is queued for each recorder
  ticks,     \* batches each recorder wrote
  dropped,   \* Drops.batches of each recorder
  offered,   \* batches published since each recording began until a session ended,
  ended,     \* the recordings since which one ended (history)
  excused    \* those that missed the end, began after it, or were ended by a
             \* disconnect although another session than its own ran (history)

slotVars == <<held, starting, waits>>
fileVars == <<writer, stopper, ticks>>
feedVars == <<link, queue, dropped, offered, ended, excused>>
recorderVars == <<pc, slotVars, fileVars, feedVars>>

Subscribed == {r \in Recordings : writer[r] \in {"records", "drains"}}
Begun == {r \in Recordings : writer[r] # "none"}
Finished(r) == writer[r] \in {"over", "failed"}

Full(r) == Len(queue[r]) >= QueueSize

\* publish, and Tap::event for a Status: "begin", "up" and "end" change the link.
Publish(message) ==
  LET full == {r \in Subscribed : Full(r)}
  IN  /\ queue' = [r \in Recordings |-> IF r \in Subscribed \ full
                                        THEN Append(queue[r], message) ELSE queue[r]]
      /\ dropped' = [r \in Recordings |-> IF r \in full /\ message = "samples"
                                          THEN dropped[r] + 1 ELSE dropped[r]]
      /\ offered' = [r \in Recordings |-> IF r \in Begun \ ended /\ message = "samples"
                                          THEN offered[r] + 1 ELSE offered[r]]
      /\ ended' = IF message = "end" THEN ended \union Begun ELSE ended
      /\ excused' = IF message = "end" THEN excused \union (full \ ended) ELSE excused
      /\ link' = CASE message = "up" -> "connected"
                   [] message \in {"end", "begin"} -> "over"
                   [] OTHER -> link

Unlocked == starting = NoOne

-----------------------------------------------------------------------------
(* start_recording *)

Returned(c) == pc' = [pc EXCEPT ![c] = "done"]

\* Recorder::is_active
Active(r) == r # NoOne /\ ~Finished(r)

MayRecord == ~Active(held) /\ link = "connected"

\* With the slot locked: is one active, is the link connected?
RecordCheck(r) ==
  /\ pc[r] = "called" /\ Unlocked
  /\ IF MayRecord
     THEN starting' = r /\ pc' = [pc EXCEPT ![r] = "subscribe"]
     ELSE Returned(r) /\ UNCHANGED starting
  /\ UNCHANGED <<held, waits, fileVars, feedVars>>

\* Recorder::start, the slot still locked: subscribe, create the file, spawn.
RecordStart(r) ==
  /\ pc[r] = "subscribe"
  /\ writer' = [writer EXCEPT ![r] = "records"]
  /\ held' = r
  /\ starting' = NoOne /\ Returned(r)
  /\ excused' = IF link = "connected" THEN excused ELSE excused \union {r}
  /\ UNCHANGED <<waits, stopper, ticks, link, queue, dropped, offered, ended>>

\* The file cannot be created: the subscription goes with the error.
RecordFails(r) ==
  /\ Disk /\ pc[r] = "subscribe"
  /\ starting' = NoOne /\ Returned(r)
  /\ UNCHANGED <<held, waits, fileVars, feedVars>>

-----------------------------------------------------------------------------
(* stop_recording, and finish_recording at the end of a disconnect *)

Stops(c) == IF c \in StopCalls THEN pc[c] = "called" ELSE pc[c] = "finish"

\* Takes the recorder out of the slot and tells it to stop.  A disconnect may
\* come across the recording of another session.
StopTake(c, across) ==
  /\ Stops(c) /\ Unlocked
  /\ held' = NoOne
  /\ IF held = NoOne
     THEN Returned(c) /\ UNCHANGED <<waits, stopper, excused>>
     ELSE /\ stopper' = [stopper EXCEPT ![held] = c]
          /\ waits' = [waits EXCEPT ![c] = held]
          /\ pc' = [pc EXCEPT ![c] = "joinRecorder"]
          /\ excused' = IF across THEN excused \union {held} ELSE excused
  /\ UNCHANGED <<starting, writer, ticks, link, queue, dropped, offered, ended>>

\* Its thread has ended.
StopJoined(c) ==
  /\ pc[c] = "joinRecorder" /\ Finished(waits[c])
  /\ waits' = [waits EXCEPT ![c] = NoOne] /\ Returned(c)
  /\ UNCHANGED <<held, starting, fileVars, feedVars>>
-----------------------------------------------------------------------------
(* The recorder's thread *)

\* Its end: the subscription goes, and what is still queued with it.
Ends(r, how) ==
  /\ writer' = [writer EXCEPT ![r] = how]
  /\ queue' = [queue EXCEPT ![r] = <<>>]

\* Worker::handle of the next message: the session's end ends the recording.
Handle(r) ==
  /\ queue[r] # <<>>
  /\ \/ /\ Head(queue[r]) = "end"
        /\ Ends(r, "over") /\ UNCHANGED ticks
     \/ /\ Head(queue[r]) # "end"
        /\ queue' = [queue EXCEPT ![r] = Tail(@)]
        /\ ticks' = [ticks EXCEPT ![r] = IF Head(queue[r]) = "samples" THEN @ + 1 ELSE @]
        /\ UNCHANGED writer
  /\ UNCHANGED <<pc, slotVars, stopper, link, dropped, offered, ended, excused>>

\* One message was there before the recorder looked at the flag again.
Write(r) == writer[r] = "records" /\ Handle(r)

\* Mutant: it closes without what is queued.
AfterStop_Closes == "over"

\* What a recorder does that sees the flag: it writes what is queued.
AfterStop == "drains"

SeeStop(r) ==
  /\ writer[r] = "records" /\ stopper[r] # NoOne
  /\ writer' = [writer EXCEPT ![r] = AfterStop]
  /\ UNCHANGED <<pc, slotVars, stopper, ticks, feedVars>>

Drain(r) == writer[r] = "drains" /\ Handle(r)

Close(r) ==
  /\ writer[r] = "drains" /\ queue[r] = <<>>
  /\ Ends(r, "over")
  /\ UNCHANGED <<pc, slotVars, stopper, ticks, link, dropped, offered, ended, excused>>

\* A message cannot be written, or the file not be flushed: the recording ends
\* with an error.
WriteFails(r) ==
  /\ Disk /\ r \in Subscribed /\ (queue[r] # <<>> \/ writer[r] = "records")
  /\ Ends(r, "failed")
  /\ UNCHANGED <<pc, slotVars, stopper, ticks, link, dropped, offered, ended, excused>>

-----------------------------------------------------------------------------
RecorderInit ==
  /\ link = "over" /\ held = NoOne /\ starting = NoOne
  /\ waits = [c \in StopCalls \union Disconnects |-> NoOne]
  /\ writer = [r \in Recordings |-> "none"] /\ stopper = [r \in Recordings |-> NoOne]
  /\ queue = [r \in Recordings |-> <<>>]
  /\ ticks = [r \in Recordings |-> 0] /\ dropped = [r \in Recordings |-> 0]
  /\ offered = [r \in Recordings |-> 0] /\ ended = {} /\ excused = {}

RecorderThread(r) == Write(r) \/ SeeStop(r) \/ Drain(r) \/ Close(r)

RecorderTypeOK ==
  /\ link \in {"connected", "over"}
  /\ {held, starting} \subseteq Recordings \union {NoOne}
  /\ waits \in [StopCalls \union Disconnects -> Recordings \union {NoOne}]
  /\ writer \in [Recordings -> {"none", "records", "drains", "over", "failed"}]
  /\ stopper \in [Recordings -> StopCalls \union Disconnects \union {NoOne}]
  /\ \A r \in Recordings : Len(queue[r]) <= QueueSize
  /\ ticks \in [Recordings -> Nat] /\ dropped \in [Recordings -> Nat]

\* A recording that ended with its session has the batches the session published
\* since, or counts them as dropped, and has none of the next session's: a
\* disconnect lets the session finish before it stops the recorder, and the
\* recorder empties its queue.  (What a full queue drops after the end still
\* counts as dropped.)  Left out are recordings the user stopped and the excused.
RecordsWholeSession ==
  \A r \in Recordings \ excused :
    writer[r] = "over" /\ stopper[r] \notin StopCalls =>
      ticks[r] <= offered[r] /\ offered[r] <= ticks[r] + dropped[r]
==============================================================================
