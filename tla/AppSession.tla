------------------------------ MODULE AppSession ------------------------------
(***************************************************************************)
(* Control of the running session (studio-app/src/session.rs, elf.rs): the *)
(* slot that holds it, the watches and the ELF that are sent to it, and    *)
(* the calls that start, stop and steer it.  The server runs set_watches   *)
(* on its reader thread, one after the other, and gives every other call a *)
(* thread of its own (studio-server/src/main.rs), so calls interleave      *)
(* wherever they do not hold the same lock.                                *)
(*                                                                         *)
(* A session has the name of the connect that spawned it.  Of what a       *)
(* session is sent only the last watches and the last tuning table are     *)
(* kept: its commands are taken in order (ProbeSession, LinkSession).  A   *)
(* list of watches stands for the values it names; resolved against an ELF *)
(* it gives the items a probe session samples, while a framed link goes by *)
(* the list itself.  An ELF stands for its tuning table too.               *)
(***************************************************************************)
EXTENDS Recorder, FiniteSets

CONSTANTS
  Probes, Serials, \* calls of connect, over a probe and over a serial port
  Opens,       \* calls of open_elf
  Elfs, Lists, \* firmware files, and lists of watches the UI may set
  MaxCalls,    \* bound on the calls made
  MaxBatches,  \* bound on the batches a session publishes
  Faults       \* subset of {"unreadable", "lost"}

Connects == Probes \union Serials
None == "none"
Empty == "no watches"

ASSUME AppAssumption ==
  /\ OtherCalls = Connects \union Opens
  /\ Probes \intersect Serials = {} /\ Connects \intersect Opens = {}
  /\ MaxCalls \in Nat /\ MaxBatches \in Nat
  /\ None \notin Connects \union Elfs /\ Empty \notin Lists

VARIABLES
  slot,      \* the session in SessionState, or None
  storing,   \* the connect that joins a replaced session with the slot locked, or None
  joins,     \* the session each connect and disconnect joins, or None
  table,     \* the tuning table each connect read
  session,   \* what each session's thread does
  stopping,  \* sessions told to stop
  told,      \* the last watches and table each session was sent
  cells,     \* SessionState::cell_watches
  items,     \* SessionState::watches: a list and the ELF it was resolved against
  elf,       \* the open ELF, or None
  setting,   \* the set_watches under way: the list and the ELF it found, in a sequence
  overtaken, \* sessions a change passed by while they were being connected (history)
  batches,   \* batches published
  quick      \* calls made of the reader thread

sessionVars == <<session, stopping, batches>>
steerVars == <<cells, items, setting, quick>>
appVars == <<slot, storing, joins, table, sessionVars, told, steerVars, elf, overtaken>>

NoItems == [list |-> Empty, elf |-> None]
Resolved(l, e) == IF l = Empty \/ e = None THEN NoItems ELSE [list |-> l, elf |-> e]

Running == {c \in Connects : session[c] \in {"spawned", "opening", "running"}}
SlotFree == storing = None

MayCall == Cardinality({c \in Calls : pc[c] # "idle"}) + quick < MaxCalls

Goes(c, to) == pc' = [pc EXCEPT ![c] = to]

\* Mutant: a session that is not connected yet is passed by.
Sent_IfRunning(takers, what, value) ==
  told' = IF slot \in takers /\ session[slot] = "running"
          THEN [told EXCEPT ![slot][what] = value] ELSE told

\* SessionState::send to whatever session is in the slot: one that takes it up.
Sent(takers, what, value) ==
  told' = IF slot \in takers THEN [told EXCEPT ![slot][what] = value] ELSE told

-----------------------------------------------------------------------------
(* connect and disconnect *)

\* Mutant: it is joined without being told.
Dropped_Unsaid(s) == stopping

\* Dropping a session tells it to stop.
Dropped(s) == IF s = None THEN stopping ELSE stopping \union {s}

\* A probe needs an ELF.  The session in the slot is taken out and dropped,
TakeOld(c) ==
  /\ pc[c] = "called"
  /\ \/ /\ c \in Probes /\ elf = None
        /\ Goes(c, "refused") /\ UNCHANGED <<slot, joins, stopping>>
     \/ /\ ~(c \in Probes /\ elf = None) /\ SlotFree
        /\ Goes(c, "join")
        /\ slot' = None /\ joins' = [joins EXCEPT ![c] = slot]
        /\ stopping' = Dropped(slot)
  /\ UNCHANGED <<slotVars, fileVars, feedVars, storing, table, session, batches, told, steerVars,
                 elf, overtaken>>

Gone(s) == s \notin Running

\* and joined, with the slot free for others.  A disconnect still ends the recording.
Join(c) ==
  /\ pc[c] = "join" /\ Gone(joins[c])
  /\ Goes(c, IF c \in Disconnects THEN "finish" ELSE "prepare")
  /\ UNCHANGED <<slotVars, fileVars, feedVars, appVars>>

\* The ELF's file is gone by now.
ReadFails(c) ==
  /\ "unreadable" \in Faults /\ c \in Probes /\ pc[c] = "prepare"
  /\ Goes(c, "refused")
  /\ UNCHANGED <<slotVars, fileVars, feedVars, appVars>>

\* The tuning table is read, the tap told of the session, its thread spawned.
\* A table read while an open_elf has it between telling and keeping is old.
Spawn(c) ==
  /\ pc[c] = "prepare" /\ Goes(c, "hand")
  /\ table' = [table EXCEPT ![c] = IF c \in Probes THEN elf ELSE None]
  /\ session' = [session EXCEPT ![c] = "spawned"]
  /\ overtaken' = IF \E o \in Opens : pc[o] = "keep" THEN overtaken \union {c} ELSE overtaken
  /\ Publish("other")
  /\ UNCHANGED <<slotVars, fileVars, slot, storing, joins, stopping, batches, told, steerVars, elf>>

\* It is sent the table and the watches last set.
Hand(c) ==
  /\ pc[c] = "hand" /\ Goes(c, "store")
  /\ told' = [told EXCEPT ![c] = [cells |-> IF c \in Serials THEN cells ELSE Empty,
                                  items |-> IF c \in Probes THEN items ELSE NoItems,
                                  table |-> table[c]]]
  /\ UNCHANGED <<slotVars, fileVars, feedVars, slot, storing, joins, table, sessionVars, steerVars,
                 elf, overtaken>>

\* Mutant: what another connect stored meanwhile is left to itself.
Displaced_Detached == None

\* What storing drops, the slot being locked meanwhile.
Displaced == slot

Store(c) ==
  /\ pc[c] = "store" /\ SlotFree
  /\ slot' = c
  /\ stopping' = Dropped(Displaced)
  /\ IF Displaced = None
     THEN Returned(c) /\ UNCHANGED <<storing, joins>>
     ELSE /\ Goes(c, "storing") /\ storing' = c
          /\ joins' = [joins EXCEPT ![c] = Displaced]
  /\ UNCHANGED <<slotVars, fileVars, feedVars, table, session, batches, told, steerVars, elf,
                 overtaken>>

Stored(c) ==
  /\ pc[c] = "storing" /\ Gone(joins[c])
  /\ storing' = None /\ Returned(c)
  /\ UNCHANGED <<slotVars, fileVars, feedVars, slot, joins, table, sessionVars, told, steerVars,
                 elf, overtaken>>

\* finish_recording of a disconnect.
FinishRecording(d) ==
  /\ StopTake(d, \E s \in Running : s # joins[d])
  /\ UNCHANGED appVars
-----------------------------------------------------------------------------
(* set_watches and set_rate, on the reader thread *)

\* Connects of this kind that are sent nothing of a change any more, nor found by it.
Passed(connects, states) == {c \in connects : pc[c] \in states}

\* The values by id first, if they changed.
GiveCells(l) ==
  /\ setting = <<>> /\ MayCall /\ quick' = quick + 1
  /\ setting' = <<[list |-> l, elf |-> None, at |-> "resolve"]>>
  /\ cells' = l
  /\ \/ l = cells /\ UNCHANGED <<told, overtaken>>
     \/ /\ l # cells /\ SlotFree
        /\ Sent(Serials, "cells", l)
        /\ overtaken' = overtaken \union Passed(Serials, {"store"})
  /\ UNCHANGED <<pc, slotVars, fileVars, feedVars, slot, storing, joins, table, sessionVars, items,
                 elf>>

\* The symbols against the open ELF,
Resolve ==
  /\ setting # <<>> /\ Head(setting).at = "resolve"
  /\ setting' = <<[list |-> Head(setting).list, elf |-> elf, at |-> "give"]>>
  /\ UNCHANGED <<pc, slotVars, fileVars, feedVars, slot, storing, joins, table, sessionVars, told,
                 cells, items, quick, elf, overtaken>>

\* and what they give, if that changed.
GiveItems ==
  /\ setting # <<>> /\ Head(setting).at = "give"
  /\ setting' = <<>>
  /\ items' = Resolved(Head(setting).list, Head(setting).elf)
  /\ \/ items' = items /\ UNCHANGED <<told, overtaken>>
     \/ /\ items' # items /\ SlotFree
        /\ Sent(Probes, "items", items')
        /\ overtaken' = overtaken \union Passed(Probes, {"store"})
  /\ UNCHANGED <<pc, slotVars, fileVars, feedVars, slot, storing, joins, table, sessionVars, cells,
                 quick, elf>>

\* A new rate goes to the tap too if there is a session that takes it.
SetRate ==
  /\ setting = <<>> /\ MayCall /\ quick' = quick + 1
  /\ SlotFree /\ ~Gone(slot)
  /\ Publish("other")
  /\ UNCHANGED <<pc, slotVars, fileVars, slot, storing, joins, table, sessionVars, told, cells,
                 items, setting, elf, overtaken>>
-----------------------------------------------------------------------------
(* open_elf *)

\* The table to the session first,
OpenSend(o) ==
  /\ pc[o] = "called" /\ SlotFree
  /\ \E e \in Elfs : table' = [table EXCEPT ![o] = e] /\ Sent(Probes, "table", e)
  /\ Goes(o, "keep")
  /\ overtaken' = overtaken \union Passed(Probes, {"hand", "store"})
                  \union IF \E p \in Opens : pc[p] = "keep" THEN {slot} \ {None} ELSE {}
  /\ UNCHANGED <<slotVars, fileVars, feedVars, slot, storing, joins, sessionVars, steerVars, elf>>

\* and then the ELF becomes the current one.
OpenKeep(o) ==
  /\ pc[o] = "keep"
  /\ elf' = table[o] /\ Returned(o)
  /\ UNCHANGED <<slotVars, fileVars, feedVars, slot, storing, joins, table, sessionVars, told,
                 steerVars, overtaken>>
-----------------------------------------------------------------------------
(* The session's thread, as the calls and the tap see it *)

Becomes(c, state, message) ==
  /\ session' = [session EXCEPT ![c] = state]
  /\ Publish(message)
  /\ UNCHANGED <<pc, slotVars, fileVars, slot, storing, joins, table, stopping, batches, told,
                 steerVars, elf, overtaken>>

SessionBegins(c) == session[c] = "spawned" /\ Becomes(c, "opening", "begin")
SessionOpens(c) == session[c] = "opening" /\ Becomes(c, "running", "up")
SessionStops(c) == session[c] = "running" /\ c \in stopping /\ Becomes(c, "over", "end")

\* The carrier does not open, the handshake fails, or the link is lost.
SessionFails(c) ==
  "lost" \in Faults /\ session[c] \in {"opening", "running"} /\ Becomes(c, "over", "end")

SessionSamples(c) ==
  /\ session[c] = "running" /\ batches < MaxBatches /\ batches' = batches + 1
  /\ Publish("samples")
  /\ UNCHANGED <<pc, slotVars, fileVars, slot, storing, joins, table, session, stopping, told,
                 steerVars, elf, overtaken>>
-----------------------------------------------------------------------------
AppInit ==
  /\ RecorderInit
  /\ pc = [c \in Calls |-> "idle"]
  /\ slot = None /\ storing = None
  /\ joins = [c \in Connects \union Disconnects |-> None]
  /\ table = [c \in OtherCalls |-> None]
  /\ session = [c \in Connects |-> None] /\ stopping = {}
  /\ told = [c \in Connects |-> [cells |-> Empty, items |-> NoItems, table |-> None]]
  /\ cells = Empty /\ items = NoItems /\ setting = <<>>
  /\ elf \in Elfs \union {None} /\ overtaken = {}
  /\ batches = 0 /\ quick = 0

\* What a call's thread does.
CallStep(c) ==
  \/ c \in Recordings /\ (RecordCheck(c) \/ RecordStart(c) \/ RecordFails(c)) /\ UNCHANGED appVars
  \/ c \in StopCalls /\ StopTake(c, FALSE) /\ UNCHANGED appVars
  \/ c \in StopCalls \union Disconnects /\ StopJoined(c) /\ UNCHANGED appVars
  \/ c \in Connects \union Disconnects /\ (TakeOld(c) \/ Join(c))
  \/ c \in Connects /\ (ReadFails(c) \/ Spawn(c) \/ Hand(c) \/ Store(c) \/ Stored(c))
  \/ c \in Disconnects /\ FinishRecording(c)
  \/ c \in Opens /\ (OpenSend(c) \/ OpenKeep(c))

SessionStep(c) == SessionBegins(c) \/ SessionOpens(c) \/ SessionStops(c)

AppNext ==
  \/ \E c \in Calls : CallStep(c)
  \/ \E l \in Lists \union {Empty} : GiveCells(l)
  \/ Resolve \/ GiveItems \/ SetRate
  \/ \E c \in Connects : SessionStep(c) \/ SessionFails(c) \/ SessionSamples(c)
  \/ \E r \in Recordings : (RecorderThread(r) \/ WriteFails(r)) /\ UNCHANGED appVars

AppTypeOK ==
  /\ RecorderTypeOK
  /\ {slot, storing} \subseteq Connects \union {None}
  /\ joins \in [Connects \union Disconnects -> Connects \union {None}]
  /\ table \in [OtherCalls -> Elfs \union {None}]
  /\ session \in [Connects -> {None, "spawned", "opening", "running", "over"}]
  /\ stopping \subseteq Connects /\ overtaken \subseteq Connects
  /\ cells \in Lists \union {Empty} /\ elf \in Elfs \union {None}
  /\ items \in [list : Lists, elf : Elfs] \union {NoItems}
  /\ told \in [Connects -> [cells : Lists \union {Empty},
                            items : [list : Lists, elf : Elfs] \union {NoItems},
                            table : Elfs \union {None}]]
  /\ Len(setting) <= 1

Answered(c) == pc[c] \in {"done", "refused"}
Quiet == setting = <<>> /\ \A c \in Calls : pc[c] = "idle" \/ Answered(c)

\* Once every call has returned, the session that runs is the one in the slot:
\* however connects and disconnects cross, none is left running, holding the
\* probe, with nobody to stop it.
NoOrphan == Quiet => Running \subseteq {slot}

\* And it samples the watches last set, and checks its writes against the table
\* of the open ELF (session.rs: "Last watched set, re-sent when a new session
\* connects"), unless the change came between what connect read and stored.
LastWordHolds ==
  Quiet => \A c \in Running \ overtaken :
    /\ c \in Serials => told[c].cells = cells
    /\ c \in Probes => told[c].items = items /\ told[c].table = elf
==============================================================================
