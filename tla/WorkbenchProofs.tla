--------------------------- MODULE WorkbenchProofs ---------------------------
(***************************************************************************)
(* Whatever the extension and the server's calls do to each other, for any *)
(* number of calls, sessions, recordings and debug sessions: no session is *)
(* left running unowned, the session that runs has been told the last      *)
(* word, a recording has its whole session, and whatever a call waits for  *)
(* was told to end.                                                        *)
(***************************************************************************)
EXTENDS Workbench, TLAPS, FiniteSetTheorems

------------------------------------------------------------------------------
(* Types *)

PcStates == {"idle", "called", "join", "prepare", "hand", "store", "storing", "keep", "finish",
             "subscribe", "joinRecorder", "done", "refused"}
SessionStates == {None, "spawned", "opening", "running", "over"}
ItemSets == [list : Lists, elf : Elfs] \union {NoItems}
Tolds == [cells : Lists \union {Empty}, items : ItemSets, table : Elfs \union {None}]
Settings == [list : Lists \union {Empty}, elf : Elfs \union {None}, at : {"resolve", "give"}]

AppTypes ==
  /\ pc \in [Calls -> PcStates]
  /\ slot \in Connects \union {None} /\ storing \in Connects \union {None}
  /\ joins \in [Connects \union Disconnects -> Connects \union {None}]
  /\ table \in [OtherCalls -> Elfs \union {None}]
  /\ session \in [Connects -> SessionStates]
  /\ stopping \subseteq Connects /\ overtaken \subseteq Connects
  /\ cells \in Lists \union {Empty} /\ elf \in Elfs \union {None}
  /\ items \in ItemSets
  /\ told \in [Connects -> Tolds]
  /\ setting = <<>> \/ \E s \in Settings : setting = <<s>>

LEMMA SentTypes ==
  ASSUME AppTypes, NEW takers \in SUBSET Connects,
         NEW l \in Lists \union {Empty}, Sent(takers, "cells", l)
  PROVE  told' \in [Connects -> Tolds]
  BY DEF Sent, AppTypes, Tolds

LEMMA AppInitTypes == AppInit => AppTypes
  <1> SUFFICES ASSUME AppInit PROVE AppTypes
    OBVIOUS
  <1>1. /\ pc \in [Calls -> PcStates] /\ session \in [Connects -> SessionStates]
        /\ joins \in [Connects \union Disconnects -> Connects \union {None}]
        /\ table \in [OtherCalls -> Elfs \union {None}]
    BY DEF AppInit, SessionStates, PcStates
  <1>2. NoItems \in ItemSets
    BY DEF ItemSets
  <1>3. told \in [Connects -> Tolds]
    BY <1>2 DEF AppInit, Tolds
  <1> QED
    BY <1>1, <1>2, <1>3 DEF AppInit, AppTypes

\* The calls of the app, told apart.
LEMMA CallsApart ==
  /\ Connects \subseteq OtherCalls /\ Opens \subseteq OtherCalls
  /\ Connects \subseteq Calls /\ Opens \subseteq Calls /\ Disconnects \subseteq Calls
  /\ Recordings \subseteq Calls /\ StopCalls \subseteq Calls
  /\ Connects \intersect (Recordings \union StopCalls \union Disconnects \union Opens) = {}
  /\ Opens \intersect (Recordings \union StopCalls \union Disconnects) = {}
  /\ Disconnects \intersect (Recordings \union StopCalls) = {}
  /\ Recordings \intersect StopCalls = {} /\ Probes \intersect Serials = {}
  /\ Probes \subseteq Connects /\ Serials \subseteq Connects
  /\ None \notin Connects /\ NoOne \notin Calls
  BY RecorderAssumption, AppAssumption DEF Calls, Connects

LEMMA CallTypes ==
  ASSUME AppTypes, NEW c \in Calls, CallStep(c)
  PROVE  AppTypes'
  <1> USE CallsApart DEF AppTypes
  <1>1. CASE UNCHANGED appVars /\ (RecordCheck(c) \/ RecordStart(c) \/ RecordFails(c)
                                   \/ StopTake(c, FALSE) \/ StopJoined(c) \/ FinishRecording(c))
    <2>1. pc' \in [Calls -> PcStates]
      BY <1>1 DEF RecordCheck, RecordStart, RecordFails, StopTake, StopJoined, FinishRecording, Returned, Goes, PcStates
    <2> QED
      BY <1>1, <2>1 DEF appVars, sessionVars, steerVars
  <1>2. CASE c \in Connects \union Disconnects /\ TakeOld(c)
    BY <1>2 DEF TakeOld, Goes, PcStates, Dropped, steerVars
  <1>3. CASE Join(c)
    BY <1>3 DEF Join, Goes, PcStates, appVars, sessionVars, steerVars
  <1>4. CASE c \in Connects /\ ReadFails(c)
    BY <1>4 DEF ReadFails, Goes, PcStates, appVars, sessionVars, steerVars
  <1>5. CASE c \in Connects /\ Spawn(c)
    BY <1>5 DEF Spawn, Goes, PcStates, steerVars, SessionStates
  <1>6. CASE c \in Connects /\ Hand(c)
    <2>1. [cells |-> IF c \in Serials THEN cells ELSE Empty,
           items |-> IF c \in Probes THEN items ELSE NoItems, table |-> table[c]] \in Tolds
      BY <1>6 DEF Tolds, ItemSets
    <2> QED
      BY <1>6, <2>1 DEF Hand, Goes, PcStates, sessionVars, steerVars
  <1>7. CASE c \in Connects /\ Store(c)
    BY <1>7 DEF Store, Goes, PcStates, Returned, Dropped, Displaced, steerVars
  <1>8. CASE Stored(c)
    BY <1>8 DEF Stored, Returned, PcStates, sessionVars, steerVars
  <1>9. CASE c \in Opens /\ OpenSend(c)
    <2>1. PICK e \in Elfs : table' = [table EXCEPT ![c] = e] /\ Sent(Probes, "table", e)
      BY <1>9 DEF OpenSend
    <2>2. told' \in [Connects -> Tolds]
      BY <2>1 DEF Sent, Tolds
    <2> QED
      BY <1>9, <2>1, <2>2 DEF OpenSend, Goes, PcStates, Passed, sessionVars, steerVars
  <1>10. CASE c \in Opens /\ OpenKeep(c)
    BY <1>10 DEF OpenKeep, Returned, PcStates, sessionVars, steerVars
  <1> QED
    BY <1>1, <1>2, <1>3, <1>4, <1>5, <1>6, <1>7, <1>8, <1>9, <1>10 DEF CallStep, FinishRecording

LEMMA SteerTypes ==
  ASSUME AppTypes,
         (\E l \in Lists \union {Empty} : GiveCells(l)) \/ Resolve \/ GiveItems \/ SetRate
  PROVE  AppTypes'
  <1> USE CallsApart DEF AppTypes
  <1>1. CASE \E l \in Lists \union {Empty} : GiveCells(l)
    <2> PICK l \in Lists \union {Empty} : GiveCells(l)
      BY <1>1
    <2>1. told' \in [Connects -> Tolds]
      BY SentTypes DEF GiveCells
    <2>2. [list |-> l, elf |-> None, at |-> "resolve"] \in Settings
      BY DEF Settings
    <2> QED
      BY <2>1, <2>2 DEF GiveCells, Passed, sessionVars
  <1>2. CASE Resolve
    <2>1. [list |-> Head(setting).list, elf |-> elf, at |-> "give"] \in Settings
      BY <1>2 DEF Resolve, Settings
    <2> QED
      BY <1>2, <2>1 DEF Resolve, sessionVars
  <1>3. CASE GiveItems
    <2>1. Head(setting).list \in Lists \union {Empty} /\ Head(setting).elf \in Elfs \union {None}
      BY <1>3 DEF GiveItems, Settings
    <2>2. items' \in ItemSets
      BY <1>3, <2>1 DEF GiveItems, Resolved, ItemSets
    <2>3. told' \in [Connects -> Tolds]
      BY <1>3, <2>2 DEF GiveItems, Sent, Tolds
    <2> QED
      BY <1>3, <2>2, <2>3 DEF GiveItems, Passed, sessionVars
  <1>4. CASE SetRate
    BY <1>4 DEF SetRate, sessionVars
  <1> QED
    BY <1>1, <1>2, <1>3, <1>4

LEMMA SessionTypes ==
  ASSUME AppTypes, NEW c \in Connects, SessionStep(c) \/ SessionFails(c) \/ SessionSamples(c)
  PROVE  AppTypes'
  BY DEF AppTypes, SessionStep, SessionBegins, SessionOpens, SessionStops, SessionFails, SessionSamples,
         Becomes, steerVars, SessionStates

LEMMA RecorderTypes ==
  ASSUME AppTypes, NEW r \in Recordings, RecorderThread(r) \/ WriteFails(r), UNCHANGED appVars
  PROVE  AppTypes'
  BY DEF AppTypes, RecorderThread, Write, SeeStop, Drain, Close, Handle, WriteFails, appVars,
         sessionVars, steerVars

\* A step is one of the server, the making of a call, or none of the server's business.
LEMMA StepKinds ==
  ASSUME [Next]_vars
  PROVE  \/ AppNext
         \/ \E c \in Calls : Made(c)
         \/ UNCHANGED <<recorderVars, appVars>>
  BY CallsApart DEF Next, vars, Serve, ClientConnect, ClientOpen, ClientOther, Read, Resolves, Starts,
        Terminates, Release, NoRelease, Nothing, NextOf

LEMMA StepTypes ==
  ASSUME AppTypes, [Next]_vars
  PROVE  AppTypes'
  <1>1. CASE AppNext
    BY <1>1, CallTypes, SteerTypes, SessionTypes, RecorderTypes DEF AppNext
  <1>2. CASE \E c \in Calls : Made(c)
    BY <1>2 DEF Made, Call, AppTypes, PcStates, appVars, sessionVars, steerVars
  <1>3. CASE UNCHANGED <<recorderVars, appVars>>
    BY <1>3 DEF AppTypes, recorderVars, appVars, sessionVars, steerVars
  <1> QED
    BY <1>1, <1>2, <1>3, StepKinds

------------------------------------------------------------------------------
(* Whose a session is *)

Joiners == Connects \union Disconnects

\* The slot's, its connect's until it is stored, or of a call that joins it.
Owned(c) ==
  \/ slot = c
  \/ pc[c] \in {"hand", "store"}
  \/ \E d \in Joiners : joins[d] = c /\ pc[d] \in {"join", "storing"}

Early == {"idle", "called", "join", "prepare", "refused"}

Ownership ==
  /\ \A c \in Running : Owned(c)
  /\ \A c \in Connects : pc[c] \in Early => session[c] = None

\* Steps that start no session and release none.
LEMMA OwnersKept ==
  ASSUME Ownership, UNCHANGED <<slot, joins>>, Running' \subseteq Running,
         \A d \in Joiners : pc[d] \in {"hand", "store", "join", "storing"} => pc'[d] = pc[d],
         \A c \in Connects : /\ pc'[c] \in Early => pc[c] \in Early
                             /\ session[c] = None => session'[c] = None
  PROVE  Ownership'
  <1>1. ASSUME NEW c \in Running' PROVE Owned(c)'
    <2>1. c \in Running /\ c \in Joiners
      BY <1>1 DEF Running, Joiners
    <2> QED
      BY <2>1 DEF Ownership, Owned
  <1> QED
    BY <1>1 DEF Ownership

LEMMA TakeOldOwners ==
  ASSUME AppTypes, Ownership, NEW d \in Joiners, TakeOld(d)
  PROVE  Ownership'
  <1> USE DEF AppTypes
  <1>0. /\ pc[d] = "called" /\ d \in Calls /\ UNCHANGED session
        /\ \A e \in Calls : e # d => pc'[e] = pc[e]
        /\ Running' = Running /\ Joiners \subseteq Calls /\ Connects \subseteq Joiners
    BY CallsApart DEF TakeOld, Goes, Running, Joiners
  <1>1. CASE pc'[d] = "refused" /\ UNCHANGED <<slot, joins>>
    <2>1. Connects \subseteq Calls
      BY CallsApart
    <2> QED
      BY <1>0, <1>1, <2>1, OwnersKept DEF Early
  <1>2. CASE pc'[d] = "join" /\ slot' = None /\ joins' = [joins EXCEPT ![d] = slot]
    <2>1. ASSUME NEW c \in Running PROVE Owned(c)'
      <3>0. c \in Connects /\ c # None
        BY CallsApart DEF Running
      <3>1. CASE slot = c
        BY <1>2, <3>0, <3>1 DEF Owned, Joiners
      <3>2. CASE pc[c] \in {"hand", "store"}
        BY <1>0, <3>0, <3>2 DEF Owned
      <3>3. CASE \E e \in Joiners : joins[e] = c /\ pc[e] \in {"join", "storing"}
        <4>1. PICK e \in Joiners : joins[e] = c /\ pc[e] \in {"join", "storing"}
          BY <3>3
        <4>2. joins'[e] = c /\ pc'[e] = pc[e]
          BY <1>0, <1>2, <4>1 DEF Joiners
        <4> QED
          BY <4>1, <4>2 DEF Owned
      <3> QED
        BY <3>1, <3>2, <3>3 DEF Ownership, Owned
    <2>2. \A c \in Connects : pc'[c] \in Early => session'[c] = None
      BY <1>0 DEF Ownership, Early
    <2> QED
      BY <1>0, <2>1, <2>2 DEF Ownership
  <1> QED
    BY <1>0, <1>1, <1>2 DEF TakeOld, Goes

LEMMA JoinOwners ==
  ASSUME AppTypes, Ownership, NEW d \in Joiners, Join(d)
  PROVE  Ownership'
  <1>1. /\ pc[d] = "join" /\ joins[d] \notin Running /\ d \in Calls
        /\ UNCHANGED <<slot, joins, session>> /\ pc' = [pc EXCEPT ![d] = IF d \in Disconnects THEN "finish" ELSE "prepare"]
        /\ Running' = Running
    BY CallsApart DEF Join, Gone, Goes, Running, appVars, sessionVars, Joiners
  <1>2. \A e \in Calls : e # d => pc'[e] = pc[e]
    BY <1>1 DEF AppTypes
  <1>3. ASSUME NEW c \in Running PROVE Owned(c)'
    <2>1. c \in Connects /\ c \in Calls
      BY CallsApart DEF Running
    <2>2. pc[c] \in {"hand", "store"} => pc'[c] = pc[c]
      BY <1>1, <1>2, <2>1
    <2>3. \A e \in Joiners : joins[e] = c /\ pc[e] \in {"join", "storing"} => pc'[e] = pc[e]
      BY <1>1, <1>2, CallsApart DEF Joiners
    <2> QED
      BY <1>1, <2>2, <2>3 DEF Ownership, Owned
  <1>4. \A c \in Connects : pc'[c] \in Early => session'[c] = None
    BY <1>1, <1>2, CallsApart DEF Ownership, Early, AppTypes
  <1> QED
    BY <1>1, <1>3, <1>4 DEF Ownership

LEMMA SpawnOwners ==
  ASSUME AppTypes, Ownership, NEW d \in Connects, Spawn(d)
  PROVE  Ownership'
  <1>1. /\ d \in Calls /\ d \in Joiners /\ pc[d] = "prepare" /\ pc'[d] = "hand"
        /\ session' = [session EXCEPT ![d] = "spawned"] /\ UNCHANGED <<slot, joins>>
        /\ \A e \in Calls : e # d => pc'[e] = pc[e]
    BY CallsApart DEF Spawn, Goes, AppTypes, Joiners
  <1>2. \A c \in Connects : c # d => session'[c] = session[c]
    BY <1>1 DEF AppTypes
  <1>3. \A c \in Running' : c = d \/ c \in Running
    BY <1>2 DEF Running
  <1>4. ASSUME NEW c \in Running PROVE Owned(c)'
    <2>1. c \in Connects /\ c \in Calls
      BY CallsApart DEF Running
    <2>2. pc[c] \in {"hand", "store"} => pc'[c] = pc[c]
      BY <1>1, <2>1
    <2>3. \A e \in Joiners : joins[e] = c /\ pc[e] \in {"join", "storing"} => pc'[e] = pc[e]
      BY <1>1, CallsApart DEF Joiners
    <2> QED
      BY <1>1, <2>2, <2>3 DEF Ownership, Owned
  <1>5. Owned(d)'
    BY <1>1 DEF Owned
  <1>6. \A c \in Connects : pc'[c] \in Early => session'[c] = None
    BY <1>1, <1>2, CallsApart DEF Ownership, Early
  <1> QED
    BY <1>3, <1>4, <1>5, <1>6 DEF Ownership

LEMMA HandOwners ==
  ASSUME AppTypes, Ownership, NEW d \in Connects, Hand(d)
  PROVE  Ownership'
  <1>1. /\ d \in Calls /\ pc[d] = "hand" /\ pc'[d] = "store" /\ UNCHANGED <<slot, joins, session>>
        /\ \A e \in Calls : e # d => pc'[e] = pc[e]
    BY CallsApart DEF Hand, Goes, AppTypes, sessionVars
  <1>2. Running' = Running
    BY <1>1 DEF Running
  <1>4. ASSUME NEW c \in Running PROVE Owned(c)'
    <2>1. c \in Connects /\ c \in Calls
      BY CallsApart DEF Running
    <2>2. pc[c] \in {"hand", "store"} => pc'[c] \in {"hand", "store"}
      BY <1>1, <2>1
    <2>3. \A e \in Joiners : joins[e] = c /\ pc[e] \in {"join", "storing"} => pc'[e] = pc[e]
      BY <1>1, CallsApart DEF Joiners
    <2> QED
      BY <1>1, <2>2, <2>3 DEF Ownership, Owned
  <1>5. \A c \in Connects : pc'[c] \in Early => session'[c] = None
    BY <1>1, CallsApart DEF Ownership, Early
  <1> QED
    BY <1>2, <1>4, <1>5 DEF Ownership

LEMMA StoreOwners ==
  ASSUME AppTypes, Ownership, NEW d \in Connects, Store(d)
  PROVE  Ownership'
  <1>1. /\ d \in Calls /\ d \in Joiners /\ pc[d] = "store" /\ pc'[d] \in {"done", "storing"} /\ slot' = d
        /\ UNCHANGED session /\ \A e \in Calls : e # d => pc'[e] = pc[e]
        /\ \A e \in Joiners : e # d => joins'[e] = joins[e]
        /\ slot # None => joins'[d] = slot /\ pc'[d] = "storing"
    BY CallsApart DEF Store, Goes, Returned, Displaced, AppTypes, Joiners
  <1>2. Running' = Running
    BY <1>1 DEF Running
  <1>4. ASSUME NEW c \in Running PROVE Owned(c)'
    <2>1. c \in Connects /\ c \in Calls /\ c # None
      BY CallsApart DEF Running
    <2>2. c # d /\ pc[c] \in {"hand", "store"} => pc'[c] \in {"hand", "store"}
      BY <1>1, <2>1
    <2>3. \A e \in Joiners : joins[e] = c /\ pc[e] \in {"join", "storing"}
            => joins'[e] = c /\ pc'[e] = pc[e]
      BY <1>1, CallsApart DEF Joiners
    <2>4. c = d \/ slot = c => Owned(c)'
      BY <1>1, <2>1 DEF Owned
    <2> QED
      BY <1>1, <2>2, <2>3, <2>4 DEF Ownership, Owned
  <1>5. \A c \in Connects : pc'[c] \in Early => session'[c] = None
    BY <1>1, CallsApart DEF Ownership, Early
  <1> QED
    BY <1>2, <1>4, <1>5 DEF Ownership

LEMMA StoredOwners ==
  ASSUME AppTypes, Ownership, NEW d \in Connects, Stored(d)
  PROVE  Ownership'
  <1>1. /\ d \in Calls /\ pc[d] = "storing" /\ pc'[d] = "done" /\ joins[d] \notin Running
        /\ UNCHANGED <<slot, joins, session>> /\ \A e \in Calls : e # d => pc'[e] = pc[e]
    BY CallsApart DEF Stored, Gone, Returned, AppTypes, sessionVars
  <1>2. Running' = Running
    BY <1>1 DEF Running
  <1>4. ASSUME NEW c \in Running PROVE Owned(c)'
    <2>1. c \in Connects /\ c \in Calls
      BY CallsApart DEF Running
    <2>2. pc[c] \in {"hand", "store"} => pc'[c] \in {"hand", "store"}
      BY <1>1, <2>1
    <2>3. \A e \in Joiners : joins[e] = c /\ pc[e] \in {"join", "storing"} => pc'[e] = pc[e]
      BY <1>1, CallsApart DEF Joiners
    <2> QED
      BY <1>1, <2>2, <2>3 DEF Ownership, Owned
  <1>5. \A c \in Connects : pc'[c] \in Early => session'[c] = None
    BY <1>1, CallsApart DEF Ownership, Early
  <1> QED
    BY <1>2, <1>4, <1>5 DEF Ownership

LEMMA StepOwners ==
  ASSUME AppTypes, Ownership, [Next]_vars
  PROVE  Ownership'
  <1> USE CallsApart DEF AppTypes
  <1>0. Joiners \subseteq Calls /\ Connects \subseteq Joiners
    BY DEF Joiners
  <1>1. ASSUME NEW c \in Calls, CallStep(c) PROVE Ownership'
    <2>1. CASE /\ UNCHANGED appVars
               /\ \/ c \in Recordings /\ (RecordCheck(c) \/ RecordStart(c) \/ RecordFails(c))
                  \/ c \in StopCalls /\ StopTake(c, FALSE)
                  \/ c \in StopCalls \union Disconnects /\ StopJoined(c)
                  \/ c \in Disconnects /\ FinishRecording(c)
      <3>1. /\ UNCHANGED <<slot, joins, session>> /\ Running' = Running
            /\ \A e \in Calls : e # c => pc'[e] = pc[e]
        BY <2>1 DEF appVars, sessionVars, Running, RecordCheck, RecordStart, RecordFails, StopTake,
                    StopJoined, FinishRecording, Returned
      <3>2. c \in Joiners => pc[c] \in {"finish", "joinRecorder"} /\ c \notin Connects
        BY <2>1 DEF StopTake, Stops, StopJoined, FinishRecording, Joiners
      <3>3. c \notin Connects
        BY <2>1
      <3> QED
        BY <1>0, <3>1, <3>2, <3>3, OwnersKept
    <2>2. CASE c \in Connects /\ ReadFails(c)
      <3>1. /\ UNCHANGED <<slot, joins, session>> /\ Running' = Running /\ pc[c] = "prepare"
            /\ \A e \in Calls : e # c => pc'[e] = pc[e]
        BY <2>2 DEF ReadFails, Goes, appVars, sessionVars, Running
      <3> QED
        BY <1>0, <3>1, OwnersKept DEF Early
    <2>3. CASE c \in Opens /\ (OpenSend(c) \/ OpenKeep(c))
      <3>1. /\ UNCHANGED <<slot, joins, session>> /\ Running' = Running
            /\ \A e \in Calls : e # c => pc'[e] = pc[e]
        BY <2>3 DEF OpenSend, OpenKeep, Goes, Returned, sessionVars, Running
      <3>2. c \notin Joiners
        BY <2>3 DEF Joiners
      <3> QED
        BY <1>0, <3>1, <3>2, OwnersKept
    <2> HIDE DEF AppTypes
    <2>4. CASE c \in Connects \union Disconnects /\ (TakeOld(c) \/ Join(c))
      BY <2>4, TakeOldOwners, JoinOwners DEF Joiners
    <2>5. CASE c \in Connects /\ (Spawn(c) \/ Hand(c) \/ Store(c) \/ Stored(c))
      BY <2>5, SpawnOwners, HandOwners, StoreOwners, StoredOwners
    <2> QED
      BY <1>1, <2>1, <2>2, <2>3, <2>4, <2>5 DEF CallStep, FinishRecording
  <1>2. ASSUME UNCHANGED <<slot, joins, pc>>, Running' \subseteq Running,
               \A c \in Connects : session[c] = None => session'[c] = None
        PROVE  Ownership'
    BY <1>2, OwnersKept
  <1>3. CASE (\E l \in Lists \union {Empty} : GiveCells(l)) \/ Resolve \/ GiveItems \/ SetRate
    <2>1. UNCHANGED <<slot, joins, pc, session>>
      BY <1>3 DEF GiveCells, Resolve, GiveItems, SetRate, sessionVars
    <2> QED
      BY <1>2, <2>1 DEF Running
  <1>4. ASSUME NEW c \in Connects, SessionStep(c) \/ SessionFails(c) \/ SessionSamples(c)
        PROVE  Ownership'
    <2>1. /\ UNCHANGED <<slot, joins, pc>> /\ \A d \in Connects : d # c => session'[d] = session[d]
          /\ session[c] \in {"spawned", "opening", "running"}
      BY <1>4 DEF SessionStep, SessionBegins, SessionOpens, SessionStops, SessionFails, SessionSamples, Becomes
    <2>2. Running' \subseteq Running
      BY <2>1 DEF Running
    <2>3. \A d \in Connects : session[d] = None => session'[d] = None
      BY <2>1 DEF None
    <2> QED
      BY <1>2, <2>1, <2>2, <2>3
  <1>5. ASSUME NEW r \in Recordings, RecorderThread(r) \/ WriteFails(r), UNCHANGED appVars
        PROVE  Ownership'
    <2>1. UNCHANGED <<slot, joins, pc, session>>
      BY <1>5 DEF RecorderThread, Write, SeeStop, Drain, Close, Handle, WriteFails, appVars, sessionVars
    <2> QED
      BY <1>2, <2>1 DEF Running
  <1>6. ASSUME NEW c \in Calls, Made(c) PROVE Ownership'
    <2>1. /\ UNCHANGED <<slot, joins, session>> /\ pc[c] = "idle" /\ Running' = Running
          /\ \A e \in Calls : e # c => pc'[e] = pc[e]
      BY <1>6 DEF Made, Call, appVars, sessionVars, Running
    <2> QED
      BY <1>0, <2>1, OwnersKept DEF Early
  <1>7. CASE UNCHANGED <<recorderVars, appVars>>
    BY <1>2, <1>7 DEF recorderVars, appVars, sessionVars, Running
  <1> QED
    BY <1>1, <1>3, <1>4, <1>5, <1>6, <1>7, StepKinds DEF AppNext

\* Once all calls have returned, the session that runs is the slot's: however
\* connects and disconnects cross, none is left with nobody to stop it.
THEOREM NoneOrphaned == Spec => []NoOrphan
  <1>1. Init => AppTypes /\ Ownership
    <2>1. AppInit => Ownership
      BY DEF AppInit, Ownership, Running, None
    <2> QED
      BY <2>1, AppInitTypes DEF Init
  <1>2. AppTypes /\ Ownership /\ [Next]_vars => (AppTypes /\ Ownership)'
    BY StepTypes, StepOwners
  <1>3. AppTypes /\ Ownership => NoOrphan
    <2> SUFFICES ASSUME AppTypes, Ownership, Quiet, NEW c \in Running PROVE c = slot
      BY DEF NoOrphan
    <2>1. c \in Calls /\ Joiners \subseteq Calls
      BY CallsApart DEF Running, Joiners
    <2>2. \A d \in Calls : pc[d] \notin {"hand", "store", "join", "storing"}
      BY DEF Quiet, Answered
    <2> QED
      BY <2>1, <2>2 DEF Ownership, Owned
  <1> QED
    BY <1>1, <1>2, <1>3, PTL DEF Spec

------------------------------------------------------------------------------
(* What a session was told *)

Keeping == {o \in Opens : pc[o] = "keep"}

\* Unless a change passed it by, a session is told of each change from the
\* moment it is sent the first word.  Between telling and keeping, the open
\* ELF's table is the one that is to be kept.
LastWord ==
  \A c \in Connects \ overtaken :
    /\ c \in Serials /\ (slot = c \/ pc[c] = "store") => told[c].cells = cells
    /\ c \in Probes =>
         /\ slot = c \/ pc[c] = "store" => told[c].items = items
         /\ pc[c] \in {"hand", "store"} => Keeping = {} /\ table[c] = elf
         /\ pc[c] = "store" => told[c].table = table[c]
         /\ slot = c => \/ Keeping = {} /\ told[c].table = elf
                        \/ \E o \in Opens : Keeping = {o} /\ told[c].table = table[o]

\* Steps that change nothing a session is told of, and send none its first word.
LEMMA WordKept ==
  ASSUME LastWord, UNCHANGED <<told, cells, items, table, elf>>, slot' \in {slot, None},
         overtaken \subseteq overtaken',
         \A c \in Connects : pc'[c] \in {"hand", "store"} => pc'[c] = pc[c],
         \A o \in Opens : pc'[o] = "keep" <=> pc[o] = "keep"
  PROVE  LastWord'
  <1>1. Keeping' = Keeping
    BY DEF Keeping
  <1>2. None \notin Connects
    BY CallsApart
  <1> QED
    BY <1>1, <1>2 DEF LastWord

LEMMA SpawnWord ==
  ASSUME AppTypes, LastWord, NEW d \in Connects, Spawn(d)
  PROVE  LastWord'
  <1>1. /\ UNCHANGED <<told, cells, items, elf, slot>> /\ overtaken \subseteq overtaken'
        /\ pc'[d] = "hand" /\ \A e \in Calls : e # d => pc'[e] = pc[e]
        /\ \A e \in OtherCalls : e # d => table'[e] = table[e]
        /\ d \in Probes => table'[d] = elf
        /\ d \notin Opens /\ d \in Calls /\ Opens \subseteq Calls /\ Opens \subseteq OtherCalls
        /\ pc[d] = "prepare"
    BY CallsApart DEF Spawn, Goes, AppTypes, steerVars
  <1>2. Keeping' = Keeping
    BY <1>1 DEF Keeping
  <1>3. d \notin overtaken' => Keeping = {}
    BY DEF Spawn, Keeping
  <1>4. ASSUME NEW c \in Connects \ overtaken', c \in Serials, slot' = c \/ pc'[c] = "store"
        PROVE  told'[c].cells = cells'
    BY <1>1, <1>4, CallsApart DEF LastWord
  <1>5. ASSUME NEW c \in Connects \ overtaken', c \in Probes
        PROVE  /\ slot' = c \/ pc'[c] = "store" => told'[c].items = items'
               /\ pc'[c] \in {"hand", "store"} => Keeping' = {} /\ table'[c] = elf'
               /\ pc'[c] = "store" => told'[c].table = table'[c]
               /\ slot' = c => \/ Keeping' = {} /\ told'[c].table = elf'
                               \/ \E o \in Opens : Keeping' = {o} /\ told'[c].table = table'[o]
    <2>1. c \in Calls /\ c \in OtherCalls
      BY CallsApart
    <2>2. \A o \in Opens : table'[o] = table[o]
      BY <1>1
    <2>3. CASE c = d
      BY <1>1, <1>2, <1>3, <1>5, <2>2, <2>3 DEF LastWord
    <2>4. CASE c # d
      BY <1>1, <1>2, <1>5, <2>1, <2>2, <2>4 DEF LastWord
    <2> QED
      BY <2>3, <2>4
  <1> QED
    BY <1>4, <1>5 DEF LastWord

LEMMA HandWord ==
  ASSUME AppTypes, LastWord, NEW d \in Connects, Hand(d)
  PROVE  LastWord'
  <1>1. /\ UNCHANGED <<cells, items, table, elf, slot, overtaken>> /\ pc[d] = "hand" /\ pc'[d] = "store"
        /\ d \in Calls /\ \A e \in Calls : e # d => pc'[e] = pc[e]
        /\ \A c \in Connects : c # d => told'[c] = told[c]
        /\ d \in Serials => told'[d].cells = cells
        /\ d \in Probes => told'[d].items = items /\ told'[d].table = table[d]
        /\ d \notin Opens /\ Opens \subseteq Calls /\ Connects \subseteq Calls
    BY CallsApart DEF Hand, Goes, AppTypes, steerVars
  <1>2. Keeping' = Keeping
    BY <1>1 DEF Keeping
  <1>3. ASSUME NEW c \in Connects \ overtaken', c \in Serials, slot' = c \/ pc'[c] = "store"
        PROVE  told'[c].cells = cells'
    BY <1>1, <1>3 DEF LastWord
  <1>4. ASSUME NEW c \in Connects \ overtaken', c \in Probes
        PROVE  /\ slot' = c \/ pc'[c] = "store" => told'[c].items = items'
               /\ pc'[c] \in {"hand", "store"} => Keeping' = {} /\ table'[c] = elf'
               /\ pc'[c] = "store" => told'[c].table = table'[c]
               /\ slot' = c => \/ Keeping' = {} /\ told'[c].table = elf'
                               \/ \E o \in Opens : Keeping' = {o} /\ told'[c].table = table'[o]
    BY <1>1, <1>2, <1>4 DEF LastWord
  <1> QED
    BY <1>3, <1>4 DEF LastWord

LEMMA StoreWord ==
  ASSUME AppTypes, LastWord, NEW d \in Connects, Store(d)
  PROVE  LastWord'
  <1>1. /\ UNCHANGED <<told, cells, items, table, elf, overtaken>> /\ pc[d] = "store" /\ slot' = d
        /\ pc'[d] \in {"done", "storing"} /\ d \in Calls /\ \A e \in Calls : e # d => pc'[e] = pc[e]
        /\ d \notin Opens /\ Opens \subseteq Calls /\ Connects \subseteq Calls
    BY CallsApart DEF Store, Goes, Returned, AppTypes, steerVars
  <1>2. Keeping' = Keeping
    BY <1>1 DEF Keeping
  <1> QED
    BY <1>1, <1>2 DEF LastWord

LEMMA GiveCellsWord ==
  ASSUME AppTypes, LastWord, NEW l \in Lists \union {Empty}, GiveCells(l)
  PROVE  LastWord'
  <1>1. UNCHANGED <<pc, items, table, elf, slot>> /\ cells' = l /\ Keeping' = Keeping
    BY DEF GiveCells, Keeping
  <1>2. CASE l = cells /\ UNCHANGED <<told, overtaken>>
    BY <1>1, <1>2, WordKept
  <1>3. CASE Sent(Serials, "cells", l) /\ overtaken' = overtaken \union Passed(Serials, {"store"})
    <2>1. /\ \A c \in Connects : c # slot \/ c \notin Serials => told'[c] = told[c]
          /\ \A c \in Connects : c = slot /\ c \in Serials => told'[c].cells = l
      BY <1>3 DEF Sent, AppTypes, Tolds
    <2>2. \A c \in Connects \ overtaken' : c \notin overtaken /\ (c \in Serials => pc[c] # "store")
      BY <1>3 DEF Passed
    <2>3. \A c \in Probes : c \notin Serials
      BY CallsApart
    <2> QED
      BY <1>1, <2>1, <2>2, <2>3 DEF LastWord
  <1> QED
    BY <1>2, <1>3 DEF GiveCells

LEMMA GiveItemsWord ==
  ASSUME AppTypes, LastWord, GiveItems
  PROVE  LastWord'
  <1>1. UNCHANGED <<pc, cells, table, elf, slot>> /\ Keeping' = Keeping
    BY DEF GiveItems, Keeping
  <1>2. CASE items' = items /\ UNCHANGED <<told, overtaken>>
    BY <1>1, <1>2, WordKept
  <1>3. CASE Sent(Probes, "items", items') /\ overtaken' = overtaken \union Passed(Probes, {"store"})
    <2>1. /\ \A c \in Connects : c # slot \/ c \notin Probes => told'[c] = told[c]
          /\ \A c \in Connects : c = slot /\ c \in Probes =>
               told'[c].items = items' /\ told'[c].table = told[c].table
      BY <1>3 DEF Sent, AppTypes, Tolds
    <2>2. \A c \in Connects \ overtaken' : c \notin overtaken /\ (c \in Probes => pc[c] # "store")
      BY <1>3 DEF Passed
    <2>3. \A c \in Serials : c \notin Probes
      BY CallsApart
    <2> QED
      BY <1>1, <2>1, <2>2, <2>3 DEF LastWord
  <1> QED
    BY <1>2, <1>3 DEF GiveItems

LEMMA OpenSendWord ==
  ASSUME AppTypes, LastWord, NEW o \in Opens, OpenSend(o)
  PROVE  LastWord'
  <1>1. PICK e \in Elfs : table' = [table EXCEPT ![o] = e] /\ Sent(Probes, "table", e)
    BY DEF OpenSend
  <1>2. /\ UNCHANGED <<cells, items, elf, slot>> /\ o \notin Keeping /\ o \in Calls /\ o \notin Connects
        /\ pc'[o] = "keep" /\ \A d \in Calls : d # o => pc'[d] = pc[d]
        /\ Connects \subseteq Calls /\ Connects \subseteq OtherCalls /\ Opens \subseteq Calls
    BY CallsApart DEF OpenSend, Goes, AppTypes, Keeping, steerVars
  <1>3. /\ table'[o] = e /\ \A c \in Connects : table'[c] = table[c]
    BY <1>1, <1>2, CallsApart DEF AppTypes
  <1>4. Keeping' = Keeping \union {o}
    BY <1>2 DEF Keeping
  <1>5. /\ \A c \in Connects : c # slot \/ c \notin Probes => told'[c] = told[c]
        /\ \A c \in Connects : c = slot /\ c \in Probes =>
             told'[c].table = e /\ told'[c].items = told[c].items
    BY <1>1 DEF Sent, AppTypes, Tolds
  <1>6. \A c \in Connects \ overtaken' :
          /\ c \notin overtaken /\ (c \in Probes => pc[c] \notin {"hand", "store"})
          /\ c = slot => Keeping = {}
    BY CallsApart DEF OpenSend, Passed, Keeping
  <1>7. ASSUME NEW c \in Connects \ overtaken', c \in Serials, slot' = c \/ pc'[c] = "store"
        PROVE  told'[c].cells = cells'
    BY <1>2, <1>5, <1>6, <1>7, CallsApart DEF LastWord
  <1>8. ASSUME NEW c \in Connects \ overtaken', c \in Probes
        PROVE  /\ slot' = c \/ pc'[c] = "store" => told'[c].items = items'
               /\ pc'[c] \in {"hand", "store"} => Keeping' = {} /\ table'[c] = elf'
               /\ pc'[c] = "store" => told'[c].table = table'[c]
               /\ slot' = c => \/ Keeping' = {} /\ told'[c].table = elf'
                               \/ \E q \in Opens : Keeping' = {q} /\ told'[c].table = table'[q]
    <2>1. pc'[c] = pc[c] /\ pc[c] \notin {"hand", "store"}
      BY <1>2, <1>6, <1>8
    <2>2. slot = c => Keeping' = {o} /\ told'[c].table = table'[o]
      BY <1>3, <1>4, <1>5, <1>6, <1>8
    <2>3. slot = c => told'[c].items = items
      BY <1>5, <1>6, <1>8 DEF LastWord
    <2> QED
      BY <1>2, <2>1, <2>2, <2>3
  <1> QED
    BY <1>7, <1>8 DEF LastWord

LEMMA OpenKeepWord ==
  ASSUME AppTypes, LastWord, NEW o \in Opens, OpenKeep(o)
  PROVE  LastWord'
  <1>1. /\ UNCHANGED <<told, cells, items, table, slot, overtaken>> /\ elf' = table[o]
        /\ o \in Keeping /\ o \in Calls /\ o \notin Connects /\ pc'[o] = "done"
        /\ \A d \in Calls : d # o => pc'[d] = pc[d]
        /\ Connects \subseteq Calls /\ Opens \subseteq Calls
    BY CallsApart DEF OpenKeep, Returned, AppTypes, Keeping, steerVars
  <1>2. Keeping' = Keeping \ {o}
    BY <1>1 DEF Keeping
  <1>3. ASSUME NEW c \in Connects \ overtaken', c \in Serials, slot' = c \/ pc'[c] = "store"
        PROVE  told'[c].cells = cells'
    BY <1>1, <1>3 DEF LastWord
  <1>4. ASSUME NEW c \in Connects \ overtaken', c \in Probes
        PROVE  /\ slot' = c \/ pc'[c] = "store" => told'[c].items = items'
               /\ pc'[c] \in {"hand", "store"} => Keeping' = {} /\ table'[c] = elf'
               /\ pc'[c] = "store" => told'[c].table = table'[c]
               /\ slot' = c => \/ Keeping' = {} /\ told'[c].table = elf'
                               \/ \E q \in Opens : Keeping' = {q} /\ told'[c].table = table'[q]
    <2>1. pc'[c] = pc[c] /\ pc[c] \notin {"hand", "store"}
      BY <1>1, <1>4 DEF LastWord
    <2>2. slot = c => Keeping' = {} /\ told[c].table = table[o]
      BY <1>1, <1>2, <1>4 DEF LastWord
    <2>3. slot = c => told[c].items = items
      BY <1>1, <1>4 DEF LastWord
    <2> QED
      BY <1>1, <2>1, <2>2, <2>3
  <1> QED
    BY <1>3, <1>4 DEF LastWord

LEMMA StepWord ==
  ASSUME AppTypes, LastWord, [Next]_vars
  PROVE  LastWord'
  <1>0. Connects \subseteq Calls /\ Opens \subseteq Calls /\ pc \in [Calls -> PcStates]
    BY CallsApart DEF AppTypes
  <1>1. ASSUME NEW c \in Calls, CallStep(c) PROVE LastWord'
    <2>1. CASE c \in Connects /\ (Spawn(c) \/ Hand(c) \/ Store(c))
      BY <2>1, SpawnWord, HandWord, StoreWord
    <2>2. CASE c \in Opens /\ (OpenSend(c) \/ OpenKeep(c))
      BY <2>2, OpenSendWord, OpenKeepWord
    <2>3. ASSUME UNCHANGED <<told, cells, items, table, elf, overtaken>>, slot' \in {slot, None},
                 pc'[c] \notin {"hand", "store", "keep"}, c \notin Opens,
                 \A e \in Calls : e # c => pc'[e] = pc[e]
          PROVE  LastWord'
      BY <1>0, <2>3, WordKept
    <2>4. CASE /\ UNCHANGED appVars
               /\ \/ c \in Recordings /\ (RecordCheck(c) \/ RecordStart(c) \/ RecordFails(c))
                  \/ c \in StopCalls /\ StopTake(c, FALSE)
                  \/ c \in StopCalls \union Disconnects /\ StopJoined(c)
                  \/ c \in Disconnects /\ FinishRecording(c)
      <3>1. /\ pc'[c] \notin {"hand", "store", "keep"} /\ \A e \in Calls : e # c => pc'[e] = pc[e]
        BY <1>0, <2>4 DEF RecordCheck, RecordStart, RecordFails, StopTake, StopJoined, FinishRecording, Returned, Stops
      <3>2. c \notin Opens
        BY <2>4, CallsApart
      <3> QED
        BY <2>3, <2>4, <3>1, <3>2 DEF appVars, steerVars
    <2>5. CASE c \in Connects \union Disconnects /\ (TakeOld(c) \/ Join(c))
      <3>1. /\ pc'[c] \notin {"hand", "store", "keep"} /\ \A e \in Calls : e # c => pc'[e] = pc[e]
            /\ UNCHANGED <<told, cells, items, table, elf, overtaken>> /\ slot' \in {slot, None}
        BY <1>0, <2>5 DEF TakeOld, Join, Goes, appVars, steerVars
      <3> QED
        BY <2>3, <2>5, <3>1, CallsApart
    <2>6. CASE c \in Connects /\ (ReadFails(c) \/ Stored(c))
      <3>1. /\ pc'[c] \notin {"hand", "store", "keep"} /\ \A e \in Calls : e # c => pc'[e] = pc[e]
            /\ UNCHANGED <<told, cells, items, table, elf, overtaken, slot>>
        BY <1>0, <2>6 DEF ReadFails, Stored, Returned, Goes, appVars, steerVars
      <3> QED
        BY <2>3, <2>6, <3>1, CallsApart
    <2> QED
      BY <1>1, <2>1, <2>2, <2>4, <2>5, <2>6 DEF CallStep, FinishRecording
  <1>2. ASSUME UNCHANGED <<told, cells, items, table, elf, slot, pc>>, overtaken \subseteq overtaken'
        PROVE  LastWord'
    BY <1>2, WordKept
  <1>3. CASE (\E l \in Lists \union {Empty} : GiveCells(l)) \/ GiveItems
    BY <1>3, GiveCellsWord, GiveItemsWord
  <1>4. CASE Resolve \/ SetRate
    BY <1>2, <1>4 DEF Resolve, SetRate
  <1>5. ASSUME NEW c \in Connects, SessionStep(c) \/ SessionFails(c) \/ SessionSamples(c)
        PROVE  LastWord'
    BY <1>2, <1>5 DEF SessionStep, SessionBegins, SessionOpens, SessionStops, SessionFails,
                      SessionSamples, Becomes, steerVars
  <1>6. ASSUME NEW r \in Recordings, RecorderThread(r) \/ WriteFails(r), UNCHANGED appVars
        PROVE  LastWord'
    BY <1>2, <1>6 DEF RecorderThread, Write, SeeStop, Drain, Close, Handle, WriteFails, appVars, steerVars
  <1>7. ASSUME NEW c \in Calls, Made(c) PROVE LastWord'
    <2>1. /\ UNCHANGED <<told, cells, items, table, elf, slot, overtaken>>
          /\ pc[c] = "idle" /\ pc'[c] = "called" /\ \A e \in Calls : e # c => pc'[e] = pc[e]
      BY <1>0, <1>7 DEF Made, Call, appVars, steerVars
    <2> QED
      BY <1>0, <2>1, WordKept
  <1>8. CASE UNCHANGED <<recorderVars, appVars>>
    BY <1>2, <1>8 DEF recorderVars, appVars, steerVars
  <1> QED
    BY <1>1, <1>3, <1>4, <1>5, <1>6, <1>7, <1>8, StepKinds DEF AppNext

\* Once all calls have returned, the session that runs samples the watches last
\* set and checks its writes against the open ELF's table, unless a change fell
\* between what its connect read and stored.
THEOREM LastWordTold == Spec => []LastWordHolds
  <1>1. Init => AppTypes /\ Ownership /\ LastWord
    <2>1. AppInit => Ownership
      BY DEF AppInit, Ownership, Running, None
    <2>2. AppInit => LastWord
      <3> SUFFICES ASSUME AppInit PROVE LastWord
        OBVIOUS
      <3>1. \A c \in Connects : slot # c /\ pc[c] = "idle"
        BY CallsApart DEF AppInit
      <3> QED
        BY <3>1 DEF LastWord
    <2> QED
      BY <2>1, <2>2, AppInitTypes DEF Init
  <1>2. AppTypes /\ Ownership /\ LastWord /\ [Next]_vars => (AppTypes /\ Ownership /\ LastWord)'
    BY StepTypes, StepOwners, StepWord
  <1>3. AppTypes /\ Ownership /\ LastWord => LastWordHolds
    <2> SUFFICES ASSUME AppTypes, Ownership, LastWord, Quiet, NEW c \in Running \ overtaken
                 PROVE  /\ c \in Serials => told[c].cells = cells
                        /\ c \in Probes => told[c].items = items /\ told[c].table = elf
      BY DEF LastWordHolds
    <2>1. c \in Connects \ overtaken /\ Joiners \subseteq Calls /\ Connects \subseteq Calls /\ Opens \subseteq Calls
      BY CallsApart DEF Running, Joiners
    <2>2. \A d \in Calls : pc[d] \notin {"hand", "store", "join", "storing", "keep"}
      BY DEF Quiet, Answered
    <2>3. slot = c
      BY <2>1, <2>2 DEF Ownership, Owned
    <2>4. Keeping = {}
      BY <2>1, <2>2 DEF Keeping
    <2> QED
      BY <2>1, <2>3, <2>4 DEF LastWord
  <1> QED
    BY <1>1, <1>2, <1>3, PTL DEF Spec
------------------------------------------------------------------------------
(* What a recorder's queue holds *)

Messages == {"samples", "begin", "up", "end", "other"}

\* The batches in a queue before the session's end, and whether it holds the end.
Batches(q) == {i \in 1..Len(q) : q[i] = "samples" /\ \A j \in 1..(i - 1) : q[j] # "end"}
Waiting(q) == Cardinality(Batches(q))
HoldsEnd(q) == \E i \in 1..Len(q) : q[i] = "end"

LEMMA WaitingType ==
  ASSUME NEW q \in Seq(Messages)
  PROVE  IsFiniteSet(Batches(q)) /\ Waiting(q) \in Nat
  <1>1. IsFiniteSet(1..Len(q)) /\ Batches(q) \in SUBSET (1..Len(q))
    BY FS_Interval DEF Batches
  <1> QED
    BY <1>1, FS_Subset, FS_CardinalityType DEF Waiting

\* What is published is counted unless the end came before.
LEMMA WaitingAppend ==
  ASSUME NEW q \in Seq(Messages), NEW m \in Messages
  PROVE  /\ Append(q, m) \in Seq(Messages)
         /\ HoldsEnd(Append(q, m)) <=> HoldsEnd(q) \/ m = "end"
         /\ Waiting(Append(q, m)) = IF m = "samples" /\ ~HoldsEnd(q) THEN Waiting(q) + 1
                                                                     ELSE Waiting(q)
  <1> DEFINE p == Append(q, m)
             n == Len(q)
  <1>1. /\ n \in Nat /\ Len(p) = n + 1 /\ p[n + 1] = m /\ p \in Seq(Messages)
        /\ \A i \in 1..n : p[i] = q[i]
    OBVIOUS
  <1> HIDE DEF p, n
  <1>2. HoldsEnd(p) <=> HoldsEnd(q) \/ m = "end"
    <2>1. 1..(n + 1) = 1..n \union {n + 1}
      BY <1>1
    <2> QED
      BY <1>1, <2>1 DEF HoldsEnd, n
  <1>3. \A i \in 1..n : i \in Batches(p) <=> i \in Batches(q)
    BY <1>1 DEF Batches, n
  <1>4. n + 1 \in Batches(p) <=> m = "samples" /\ ~HoldsEnd(q)
    BY <1>1 DEF Batches, HoldsEnd, n
  <1>5. Batches(q) \subseteq 1..n /\ Batches(p) \subseteq 1..(n + 1)
    BY <1>1 DEF Batches, n
  <1>6. Batches(p) = IF m = "samples" /\ ~HoldsEnd(q) THEN Batches(q) \union {n + 1} ELSE Batches(q)
    <2>1. \A i : i \in 1..(n + 1) <=> i \in 1..n \/ i = n + 1
      BY <1>1
    <2>2. \A i : i \in Batches(p) <=> i \in Batches(q) \/ (i = n + 1 /\ m = "samples" /\ ~HoldsEnd(q))
      BY <1>1, <1>3, <1>4, <1>5, <2>1
    <2> QED
      BY <2>2
  <1>7. n + 1 \notin Batches(q)
    BY <1>1, <1>5
  <1> QED
    BY <1>1, <1>2, <1>6, <1>7, WaitingType, FS_AddElement DEF Waiting, p

\* A message that is taken is no longer waiting.
LEMMA WaitingTail ==
  ASSUME NEW q \in Seq(Messages), q # <<>>, Head(q) # "end"
  PROVE  /\ Tail(q) \in Seq(Messages)
         /\ HoldsEnd(Tail(q)) <=> HoldsEnd(q)
         /\ Waiting(q) = IF Head(q) = "samples" THEN Waiting(Tail(q)) + 1 ELSE Waiting(Tail(q))
  <1> DEFINE t == Tail(q)
             n == Len(t)
             F == [i \in Batches(t) |-> i + 1]
  <1>1. /\ n \in Nat /\ Len(q) = n + 1 /\ t \in Seq(Messages) /\ q[1] = Head(q)
        /\ \A i \in 1..n : t[i] = q[i + 1]
    OBVIOUS
  <1> HIDE DEF t, n
  <1>2. HoldsEnd(t) <=> HoldsEnd(q)
    <2>1. ASSUME NEW i \in 1..Len(q), q[i] = "end" PROVE HoldsEnd(t)
      <3>1. i - 1 \in 1..n /\ (i - 1) + 1 = i
        BY <1>1, <2>1
      <3> QED
        BY <1>1, <2>1, <3>1 DEF HoldsEnd, n
    <2>2. ASSUME NEW i \in 1..n, t[i] = "end" PROVE HoldsEnd(q)
      <3>1. i + 1 \in 1..Len(q) /\ q[i + 1] = "end"
        BY <1>1, <2>2
      <3> QED
        BY <3>1 DEF HoldsEnd
    <2> QED
      BY <2>1, <2>2 DEF HoldsEnd, n
  <1>3. ASSUME NEW i \in 1..n PROVE i \in Batches(t) <=> i + 1 \in Batches(q)
    <2>1. (\A j \in 1..(i - 1) : t[j] # "end") <=> (\A j \in 1..i : q[j] # "end")
      <3>1. ASSUME \A j \in 1..(i - 1) : t[j] # "end", NEW j \in 1..i PROVE q[j] # "end"
        <4>1. CASE j = 1
          BY <1>1, <4>1
        <4>2. CASE j # 1
          <5>1. j - 1 \in 1..(i - 1) /\ j - 1 \in 1..n /\ (j - 1) + 1 = j
            BY <1>1, <4>2
          <5> QED
            BY <1>1, <3>1, <5>1
        <4> QED
          BY <4>1, <4>2
      <3>2. ASSUME \A j \in 1..i : q[j] # "end", NEW j \in 1..(i - 1) PROVE t[j] # "end"
        BY <1>1, <3>2
      <3> QED
        BY <3>1, <3>2
    <2>2. t[i] = q[i + 1] /\ i + 1 \in 1..Len(q) /\ (i + 1) - 1 = i /\ i \in 1..Len(t)
      BY <1>1 DEF n
    <2> QED
      BY <2>1, <2>2 DEF Batches
  <1>4. Batches(t) \subseteq 1..n /\ Batches(q) \subseteq 1..(n + 1)
    BY <1>1 DEF Batches, n
  <1>5. 1 \in Batches(q) <=> Head(q) = "samples"
    BY <1>1 DEF Batches
  <1>6. F \in Bijection(Batches(t), Batches(q) \ {1})
    <2>1. ASSUME NEW i \in Batches(q) \ {1} PROVE i - 1 \in Batches(t) /\ (i - 1) + 1 = i
      <3>1. i - 1 \in 1..n /\ (i - 1) + 1 = i
        BY <1>1, <1>4
      <3> QED
        BY <1>3, <3>1
    <2>2. \A i \in Batches(t) : i + 1 \in Batches(q) \ {1}
      BY <1>1, <1>3, <1>4
    <2>3. \A i, j \in Batches(t) : i + 1 = j + 1 => i = j
      BY <1>1, <1>4
    <2>4. F \in [Batches(t) -> Batches(q) \ {1}]
      BY <2>2
    <2>5. \A i, j \in Batches(t) : F[i] = F[j] => i = j
      BY <2>3
    <2>6. \A i \in Batches(q) \ {1} : \E j \in Batches(t) : F[j] = i
      BY <2>1
    <2> HIDE DEF F
    <2> QED
      BY <2>4, <2>5, <2>6 DEF Bijection, Injection, IsInjective, Surjection
  <1>7. Cardinality(Batches(q) \ {1}) = Waiting(t)
    <2> HIDE DEF F
    <2>1. ExistsBijection(Batches(t), Batches(q) \ {1})
      BY <1>6 DEF ExistsBijection
    <2> QED
      BY <1>1, <2>1, WaitingType, FS_Bijection DEF Waiting
  <1>8. Cardinality(Batches(q) \ {1}) = IF Head(q) = "samples" THEN Waiting(q) - 1 ELSE Waiting(q)
    BY <1>5, WaitingType, FS_RemoveElement DEF Waiting
  <1> QED
    BY <1>1, <1>2, <1>7, <1>8, WaitingType DEF t

\* Nothing waits in an empty queue, nor behind the end.
LEMMA WaitingNone ==
  ASSUME NEW q \in Seq(Messages), q = <<>> \/ Head(q) = "end"
  PROVE  /\ Waiting(q) = 0
         /\ HoldsEnd(q) <=> q # <<>>
  <1>1. q = <<>> \/ (Len(q) \in Nat /\ 1 \in 1..Len(q) /\ q[1] = "end")
    OBVIOUS
  <1>2. Batches(q) = {}
    BY <1>1 DEF Batches
  <1>3. HoldsEnd(q) <=> q # <<>>
    BY <1>1 DEF HoldsEnd
  <1> QED
    BY <1>2, <1>3, FS_EmptySet DEF Waiting

------------------------------------------------------------------------------
(* That a recording has its whole session *)

FeedTypes ==
  /\ held \in Recordings \union {NoOne}
  /\ writer \in [Recordings -> {"none", "records", "drains", "over", "failed"}]
  /\ stopper \in [Recordings -> StopCalls \union Disconnects \union {NoOne}]
  /\ queue \in [Recordings -> Seq(Messages)]
  /\ ticks \in [Recordings -> Nat] /\ dropped \in [Recordings -> Nat] /\ offered \in [Recordings -> Nat]
  /\ ended \subseteq Recordings /\ excused \subseteq Recordings

Live == \E s \in Connects : session[s] = "running"

\* A session that is in the slot, joined or handed its first words was spawned;
\* a disconnect goes on to the recording when the session it joined is gone; the
\* link is connected only while a session runs.
Lifetimes ==
  /\ slot # None => session[slot] # None
  /\ \A d \in Joiners : joins[d] # None => session[joins[d]] # None
  /\ \A c \in Connects : pc[c] \in {"hand", "store"} => session[c] # None
  /\ \A d \in Disconnects : pc[d] = "finish" => joins[d] \notin Running
  /\ link = "connected" => Live

\* Up to the session's end, what was offered is written, dropped or still queued.
InStep(r) ==
  /\ r \in ended <=> HoldsEnd(queue[r])
  /\ ticks[r] + Waiting(queue[r]) <= offered[r]
  /\ offered[r] <= ticks[r] + dropped[r] + Waiting(queue[r])

Complete(r) ==
  r \in ended /\ ticks[r] <= offered[r] /\ offered[r] <= ticks[r] + dropped[r]

\* A recording begins once, in a session that runs; until that ends it is in step;
\* only a user stops it before.
WholeOf(r) ==
  /\ pc[r] \in {"idle", "called", "subscribe"} => writer[r] = "none"
  /\ writer[r] = "none" =>
       /\ queue[r] = <<>> /\ ticks[r] = 0 /\ dropped[r] = 0 /\ offered[r] = 0
       /\ r \notin ended /\ stopper[r] = NoOne
  /\ held = r => writer[r] # "none" /\ stopper[r] = NoOne
  /\ writer[r] = "drains" => stopper[r] # NoOne
  /\ r \notin excused =>
       /\ r \in Begun \ ended => Live
       /\ stopper[r] \in Disconnects => r \in ended
       /\ r \in Subscribed => InStep(r)
       /\ writer[r] = "over" /\ stopper[r] \notin StopCalls => Complete(r)

Whole == \A r \in Recordings : WholeOf(r)

LEMMA PublishTypes ==
  ASSUME FeedTypes, NEW m \in Messages, Publish(m), UNCHANGED <<slotVars, fileVars>>
  PROVE  FeedTypes'
  <1>1. queue' \in [Recordings -> Seq(Messages)]
    <2>1. \A r \in Recordings : Append(queue[r], m) \in Seq(Messages) /\ queue[r] \in Seq(Messages)
      BY DEF FeedTypes
    <2> QED
      BY <2>1 DEF Publish
  <1> QED
    BY <1>1 DEF FeedTypes, Publish, slotVars, fileVars, Subscribed, Begun

LEMMA LinkPublished ==
  ASSUME NEW m, Publish(m)
  PROVE  /\ m = "up" => link' = "connected"
         /\ m \in {"begin", "end"} => link' = "over"
         /\ m \in {"samples", "other"} => link' = link
  BY Zenon DEF Publish

LEMMA PublishWhole ==
  ASSUME FeedTypes, NEW r \in Recordings, WholeOf(r), NEW m \in Messages, Publish(m),
         UNCHANGED <<slotVars, fileVars>>, pc'[r] = pc[r], Live => Live' \/ m = "end"
  PROVE  WholeOf(r)'
  <1> DEFINE full == r \in Subscribed /\ Full(r)
  <1>1. /\ UNCHANGED <<held, writer, stopper, ticks>> /\ Begun' = Begun /\ Subscribed' = Subscribed
        /\ Subscribed \subseteq Begun
        /\ r \in Begun <=> writer[r] # "none"
    BY DEF slotVars, fileVars, Begun, Subscribed
  <1>2. /\ queue'[r] = IF r \in Subscribed /\ ~full THEN Append(queue[r], m) ELSE queue[r]
        /\ dropped'[r] = IF full /\ m = "samples" THEN dropped[r] + 1 ELSE dropped[r]
        /\ offered'[r] = IF r \in Begun \ ended /\ m = "samples" THEN offered[r] + 1 ELSE offered[r]
    BY DEF Publish
  <1>3. r \in ended' <=> r \in ended \/ (m = "end" /\ r \in Begun)
    BY DEF Publish
  <1>4. r \notin excused' => r \notin excused /\ (m = "end" /\ full => r \in ended)
    BY DEF Publish
  <1>5. /\ queue[r] \in Seq(Messages) /\ Waiting(queue[r]) \in Nat
        /\ ticks[r] \in Nat /\ dropped[r] \in Nat /\ offered[r] \in Nat
    BY WaitingType DEF FeedTypes
  <1>6. LET q == Append(queue[r], m)
        IN  /\ HoldsEnd(q) <=> HoldsEnd(queue[r]) \/ m = "end"
            /\ Waiting(q) = IF m = "samples" /\ ~HoldsEnd(queue[r]) THEN Waiting(queue[r]) + 1
                                                                   ELSE Waiting(queue[r])
    BY <1>5, WaitingAppend
  <1> HIDE DEF full
  <1>7. ASSUME r \notin excused', r \in Subscribed PROVE InStep(r)'
    <2>1. InStep(r)
      BY <1>4, <1>7 DEF WholeOf
    <2>2. /\ r \in ended <=> HoldsEnd(queue[r])
          /\ ticks[r] + Waiting(queue[r]) <= offered[r]
          /\ offered[r] <= ticks[r] + dropped[r] + Waiting(queue[r])
      BY <2>1 DEF InStep
    <2>3. r \in Begun
      BY <1>1, <1>7
    <2>4. CASE full
      <3>1. /\ queue'[r] = queue[r]
            /\ dropped'[r] = IF m = "samples" THEN dropped[r] + 1 ELSE dropped[r]
            /\ offered'[r] = IF r \notin ended /\ m = "samples" THEN offered[r] + 1 ELSE offered[r]
            /\ r \in ended' <=> r \in ended
            /\ ticks'[r] = ticks[r]
        BY <1>1, <1>2, <1>3, <1>4, <1>7, <2>3, <2>4
      <3>2. /\ ticks'[r] + Waiting(queue'[r]) <= offered'[r]
            /\ offered'[r] <= ticks'[r] + dropped'[r] + Waiting(queue'[r])
        BY <1>5, <2>2, <3>1
      <3> QED
        BY <2>2, <3>1, <3>2 DEF InStep
    <2>5. CASE ~full
      <3>1. /\ queue'[r] = Append(queue[r], m) /\ dropped'[r] = dropped[r]
            /\ offered'[r] = IF r \notin ended /\ m = "samples" THEN offered[r] + 1 ELSE offered[r]
            /\ r \in ended' <=> r \in ended \/ m = "end"
            /\ ticks'[r] = ticks[r]
        BY <1>1, <1>2, <1>3, <1>7, <2>3, <2>5
      <3>2. /\ HoldsEnd(queue'[r]) <=> HoldsEnd(queue[r]) \/ m = "end"
            /\ Waiting(queue'[r]) = IF m = "samples" /\ ~HoldsEnd(queue[r]) THEN Waiting(queue[r]) + 1
                                                                         ELSE Waiting(queue[r])
        BY <1>6, <3>1
      <3>3. /\ ticks'[r] + Waiting(queue'[r]) <= offered'[r]
            /\ offered'[r] <= ticks'[r] + dropped'[r] + Waiting(queue'[r])
        BY <1>5, <2>2, <3>1, <3>2
      <3> QED
        BY <2>2, <3>1, <3>2, <3>3 DEF InStep
    <2> QED
      BY <2>4, <2>5
  <1>8. ASSUME r \notin excused', writer'[r] = "over", stopper'[r] \notin StopCalls PROVE Complete(r)'
    <2>1. Complete(r) /\ r \notin Subscribed
      BY <1>1, <1>4, <1>8 DEF WholeOf, Subscribed
    <2> QED
      BY <1>1, <1>2, <1>3, <2>1 DEF Complete, full
  <1>9. r \notin excused' => /\ r \in Begun' \ ended' => Live'
                             /\ stopper'[r] \in Disconnects => r \in ended'
    BY <1>1, <1>3, <1>4 DEF WholeOf
  <1>10. writer'[r] = "none" => /\ queue'[r] = <<>> /\ ticks'[r] = 0 /\ dropped'[r] = 0 /\ offered'[r] = 0
                                /\ r \notin ended' /\ stopper'[r] = NoOne
    BY <1>1, <1>2, <1>3 DEF WholeOf, Subscribed, full
  <1>11. /\ pc'[r] \in {"idle", "called", "subscribe"} => writer'[r] = "none"
         /\ held' = r => writer'[r] # "none" /\ stopper'[r] = NoOne
         /\ writer'[r] = "drains" => stopper'[r] # NoOne
    BY <1>1 DEF WholeOf
  <1> QED
    BY <1>1, <1>7, <1>8, <1>9, <1>10, <1>11 DEF WholeOf

\* A step that leaves this recording alone.
LEMMA WholeKept ==
  ASSUME NEW r \in Recordings, WholeOf(r), UNCHANGED <<ended, dropped, offered>>,
         writer'[r] = writer[r], stopper'[r] = stopper[r], queue'[r] = queue[r], ticks'[r] = ticks[r],
         pc'[r] \in {"idle", "called", "subscribe"} => pc[r] \in {"idle", "called", "subscribe"},
         held' = r => held = r, r \notin excused' => r \notin excused, Live => Live'
  PROVE  WholeOf(r)'
  <1>1. /\ r \in Begun' <=> r \in Begun
        /\ r \in Subscribed' <=> r \in Subscribed
    BY DEF Begun, Subscribed
  <1>2. InStep(r)' <=> InStep(r)
    BY DEF InStep
  <1>3. Complete(r)' <=> Complete(r)
    BY DEF Complete
  <1> QED
    BY <1>1, <1>2, <1>3 DEF WholeOf

LEMMA RecordStartWhole ==
  ASSUME FeedTypes, pc \in [Calls -> PcStates], Lifetimes, NEW r \in Recordings, WholeOf(r), RecordStart(r),
         UNCHANGED appVars
  PROVE  WholeOf(r)'
  <1>1. /\ r \in Calls /\ pc[r] = "subscribe" /\ pc'[r] = "done" /\ writer'[r] = "records" /\ held' = r
        /\ UNCHANGED <<stopper, ticks, queue, dropped, offered, ended, session>>
        /\ r \notin excused' => link = "connected"
    BY CallsApart DEF RecordStart, Returned, FeedTypes, appVars, sessionVars
  <1>2. /\ writer[r] = "none" /\ queue[r] = <<>> /\ ticks[r] = 0 /\ dropped[r] = 0 /\ offered[r] = 0
        /\ r \notin ended /\ stopper[r] = NoOne
    BY <1>1 DEF WholeOf
  <1>3. InStep(r)'
    <2>1. <<>> \in Seq(Messages)
      OBVIOUS
    <2>2. Waiting(queue'[r]) = 0 /\ ~HoldsEnd(queue'[r])
      BY <1>1, <1>2, <2>1, WaitingNone
    <2> QED
      BY <1>1, <1>2, <2>2 DEF InStep
  <1>4. r \notin excused' => Live'
    BY <1>1 DEF Lifetimes, Live
  <1>5. NoOne \notin Disconnects
    BY CallsApart
  <1> QED
    BY <1>1, <1>2, <1>3, <1>4, <1>5 DEF WholeOf

LEMMA StopTakeWhole ==
  ASSUME FeedTypes, pc \in [Calls -> PcStates], Lifetimes, NEW c \in StopCalls \union Disconnects, NEW across,
         StopTake(c, across), UNCHANGED appVars,
         c \in Disconnects => across = (\E s \in Running : s # joins[c]),
         NEW r \in Recordings, WholeOf(r)
  PROVE  WholeOf(r)'
  <1>1. /\ UNCHANGED <<writer, ticks, queue, dropped, offered, ended, session, joins>>
        /\ held' = NoOne /\ pc'[r] = pc[r] /\ r # NoOne /\ c # NoOne
        /\ c \in Disconnects => pc[c] = "finish" /\ c \notin StopCalls
        /\ c \notin Disconnects => c \in StopCalls
    BY CallsApart DEF StopTake, Stops, Returned, appVars, sessionVars
  <1>2. CASE held # r
    <2>1. stopper'[r] = stopper[r] /\ (r \notin excused' => r \notin excused)
      BY <1>2, CallsApart DEF StopTake, FeedTypes
    <2> QED
      BY <1>1, <2>1, WholeKept DEF Live
  <1>3. CASE held = r
    <2>1. /\ stopper'[r] = c
          /\ r \notin excused' => r \notin excused /\ ~across
      BY <1>1, <1>3 DEF StopTake, FeedTypes
    <2>2. writer[r] # "none" /\ stopper[r] = NoOne /\ NoOne \notin StopCalls /\ r \in Begun
      BY <1>3, CallsApart DEF WholeOf, Begun
    <2>3. ASSUME r \notin excused', c \in Disconnects PROVE r \in ended
      <3>1. joins[c] \notin Running
        BY <1>1, <2>3 DEF Lifetimes
      <3>2. \A s \in Running : s = joins[c]
        BY <2>1, <2>3
      <3>3. ~Live
        BY <3>1, <3>2 DEF Live, Running
      <3> QED
        BY <2>1, <2>2, <2>3, <3>3 DEF WholeOf
    <2>4. /\ InStep(r)' <=> InStep(r)
          /\ Complete(r)' <=> Complete(r)
          /\ Live' <=> Live
          /\ Begun' = Begun /\ Subscribed' = Subscribed
      <3>1. InStep(r)' <=> InStep(r)
        BY <1>1 DEF InStep
      <3>2. Complete(r)' <=> Complete(r)
        BY <1>1 DEF Complete
      <3> QED
        BY <1>1, <3>1, <3>2 DEF Live, Begun, Subscribed
    <2> QED
      BY <1>1, <2>1, <2>2, <2>3, <2>4 DEF WholeOf
  <1> QED
    BY <1>2, <1>3

\* What a recorder's own thread does.
LEMMA HandleWhole ==
  ASSUME FeedTypes, NEW r \in Recordings, WholeOf(r), r \in Subscribed, Handle(r), UNCHANGED appVars
  PROVE  WholeOf(r)'
  <1>1. /\ UNCHANGED <<pc, held, stopper, dropped, offered, ended, excused, session>>
        /\ Live' = Live /\ queue[r] \in Seq(Messages) /\ queue[r] # <<>>
        /\ ticks[r] \in Nat /\ dropped[r] \in Nat /\ offered[r] \in Nat
        /\ writer[r] \in {"records", "drains"}
    BY DEF Handle, appVars, sessionVars, slotVars, Live, FeedTypes, Subscribed
  <1>2. CASE Head(queue[r]) = "end"
    <2>1. writer'[r] = "over" /\ ticks' = ticks
      BY <1>2 DEF Handle, Ends, FeedTypes
    <2>2. Waiting(queue[r]) = 0 /\ HoldsEnd(queue[r])
      BY <1>1, <1>2, WaitingNone
    <2>3. r \notin excused => Complete(r)'
      BY <1>1, <2>1, <2>2 DEF WholeOf, InStep, Complete
    <2> QED
      BY <1>1, <2>1, <2>3 DEF WholeOf, Begun, Subscribed, Complete
  <1>3. CASE Head(queue[r]) # "end"
    <2>1. /\ writer' = writer /\ queue'[r] = Tail(queue[r])
          /\ ticks'[r] = IF Head(queue[r]) = "samples" THEN ticks[r] + 1 ELSE ticks[r]
      BY <1>3 DEF Handle, FeedTypes
    <2>2. /\ HoldsEnd(queue'[r]) <=> HoldsEnd(queue[r])
          /\ Waiting(queue[r]) = IF Head(queue[r]) = "samples" THEN Waiting(queue'[r]) + 1
                                                               ELSE Waiting(queue'[r])
          /\ Waiting(queue'[r]) \in Nat
      <3> DEFINE q == queue[r]
      <3>1. /\ Tail(q) \in Seq(Messages)
            /\ HoldsEnd(Tail(q)) <=> HoldsEnd(q)
            /\ Waiting(q) = IF Head(q) = "samples" THEN Waiting(Tail(q)) + 1 ELSE Waiting(Tail(q))
        <4> HIDE DEF q
        <4>1. q \in Seq(Messages) /\ q # <<>> /\ Head(q) # "end"
          BY <1>1, <1>3 DEF q
        <4> QED
          BY <4>1, WaitingTail
      <3>2. Waiting(Tail(q)) \in Nat
        BY <3>1, WaitingType
      <3> QED
        BY <2>1, <3>1, <3>2
    <2>3. ASSUME ticks[r] + Waiting(queue[r]) <= offered[r],
                 offered[r] <= ticks[r] + dropped[r] + Waiting(queue[r])
          PROVE  /\ ticks'[r] + Waiting(queue'[r]) <= offered[r]
                 /\ offered[r] <= ticks'[r] + dropped[r] + Waiting(queue'[r])
      <3>1. ticks'[r] + Waiting(queue'[r]) = ticks[r] + Waiting(queue[r])
        BY <1>1, <2>1, <2>2
      <3>2. ticks'[r] \in Nat
        BY <1>1, <2>1
      <3> QED
        BY <1>1, <2>2, <2>3, <3>1, <3>2
    <2>4. InStep(r) => InStep(r)'
      BY <1>1, <2>2, <2>3 DEF InStep
    <2> QED
      BY <1>1, <2>1, <2>4 DEF WholeOf, Begun, Subscribed
  <1> QED
    BY <1>2, <1>3

LEMMA ThreadWhole ==
  ASSUME FeedTypes, NEW r \in Recordings, WholeOf(r), RecorderThread(r) \/ WriteFails(r), UNCHANGED appVars
  PROVE  WholeOf(r)'
  <1>1. CASE Write(r) \/ Drain(r)
    BY <1>1, HandleWhole DEF Write, Drain, Subscribed
  <1>2. CASE SeeStop(r)
    <2>1. /\ UNCHANGED <<pc, held, stopper, ticks, queue, dropped, offered, ended, excused, session>>
          /\ writer[r] = "records" /\ writer'[r] = "drains" /\ stopper[r] # NoOne /\ Live' = Live
      BY <1>2 DEF SeeStop, AfterStop, slotVars, feedVars, FeedTypes, appVars, sessionVars, Live
    <2>2. InStep(r)' <=> InStep(r)
      BY <2>1 DEF InStep
    <2> QED
      BY <2>1, <2>2 DEF WholeOf, Begun, Subscribed
  <1>3. CASE Close(r)
    <2>1. /\ UNCHANGED <<pc, held, stopper, ticks, dropped, offered, ended, excused, session>>
          /\ writer[r] = "drains" /\ writer'[r] = "over" /\ queue[r] = <<>> /\ Live' = Live
          /\ stopper[r] \in StopCalls \union Disconnects \union {NoOne} /\ queue[r] \in Seq(Messages)
      BY <1>3 DEF Close, Ends, slotVars, FeedTypes, appVars, sessionVars, Live
    <2>2. ~HoldsEnd(queue[r])
      BY <2>1, WaitingNone
    <2>3. r \notin excused => stopper[r] \in StopCalls
      BY <2>1, <2>2 DEF WholeOf, InStep, Subscribed
    <2> QED
      BY <2>1, <2>3 DEF WholeOf, Begun, Subscribed
  <1>4. CASE WriteFails(r)
    <2>1. /\ UNCHANGED <<pc, held, stopper, dropped, offered, ended, excused, session>>
          /\ writer[r] \in {"records", "drains"} /\ writer'[r] = "failed" /\ Live' = Live
      BY <1>4 DEF WriteFails, Ends, slotVars, FeedTypes, appVars, sessionVars, Live, Subscribed
    <2> QED
      BY <2>1 DEF WholeOf, Begun, Subscribed
  <1> QED
    BY <1>1, <1>2, <1>3, <1>4 DEF RecorderThread

\* Which steps touch recordings, and how.
LEMMA FeedKinds ==
  ASSUME AppTypes, Ownership, [Next]_vars
  PROVE  \/ /\ \E m \in Messages : Publish(m) /\ (Live => Live' \/ m = "end")
            /\ UNCHANGED <<slotVars, fileVars>> /\ \A r \in Recordings : pc'[r] = pc[r]
         \/ \E r \in Recordings : RecordStart(r) /\ UNCHANGED appVars
         \/ \E c \in StopCalls : StopTake(c, FALSE) /\ UNCHANGED appVars
         \/ \E d \in Disconnects : FinishRecording(d)
         \/ \E r \in Recordings : (RecorderThread(r) \/ WriteFails(r)) /\ UNCHANGED appVars
         \/ /\ UNCHANGED <<held, fileVars, feedVars, session>>
            /\ \A r \in Recordings : pc'[r] \in {"idle", "called", "subscribe"}
                                       => pc[r] \in {"idle", "called", "subscribe"}
  <1> DEFINE Published == /\ \E m \in Messages : Publish(m) /\ (Live => Live' \/ m = "end")
                          /\ UNCHANGED <<slotVars, fileVars>> /\ \A r \in Recordings : pc'[r] = pc[r]
             Aside == /\ UNCHANGED <<held, fileVars, feedVars, session>>
                      /\ \A r \in Recordings : pc'[r] \in {"idle", "called", "subscribe"}
                                                 => pc[r] \in {"idle", "called", "subscribe"}
  <1>0. /\ pc \in [Calls -> PcStates] /\ session \in [Connects -> SessionStates]
        /\ Recordings \subseteq Calls /\ Connects \intersect Recordings = {} /\ Connects \subseteq Calls
        /\ {"samples", "begin", "up", "end", "other"} = Messages
    BY CallsApart DEF AppTypes, Messages
  <1>1. ASSUME NEW c \in Connects, Spawn(c) PROVE Published
    <2>1. session[c] = None /\ session' = [session EXCEPT ![c] = "spawned"]
      BY <1>1 DEF Spawn, Ownership, Early
    <2>2. Live => Live'
      BY <1>0, <2>1 DEF Live, None
    <2> QED
      BY <1>0, <1>1, <2>2 DEF Spawn, Goes
  <1>2. CASE SetRate
    BY <1>0, <1>2 DEF SetRate, sessionVars, Live
  <1>3. ASSUME NEW c \in Connects, SessionBegins(c) \/ SessionOpens(c) \/ SessionSamples(c) PROVE Published
    <2>1. Live => Live'
      BY <1>0, <1>3 DEF SessionBegins, SessionOpens, SessionSamples, Becomes, Live
    <2> QED
      BY <1>0, <1>3, <2>1 DEF SessionBegins, SessionOpens, SessionSamples, Becomes
  <1>4. ASSUME NEW c \in Connects, SessionStops(c) \/ SessionFails(c) PROVE Published
    BY <1>0, <1>4 DEF SessionStops, SessionFails, Becomes
  <1>5. ASSUME NEW c \in Recordings, RecordCheck(c) \/ RecordFails(c), UNCHANGED appVars PROVE Aside
    BY <1>0, <1>5 DEF RecordCheck, RecordFails, Returned, appVars, sessionVars
  <1>6. ASSUME NEW c \in StopCalls \union Disconnects, StopJoined(c), UNCHANGED appVars PROVE Aside
    BY <1>0, <1>6, CallsApart DEF StopJoined, Returned, appVars, sessionVars
  <1>7. ASSUME NEW c \in Connects \union Disconnects, TakeOld(c) \/ Join(c) PROVE Aside
    BY <1>0, <1>7, CallsApart DEF TakeOld, Join, Goes, slotVars, appVars, sessionVars
  <1>8. ASSUME NEW c \in Connects, ReadFails(c) \/ Hand(c) \/ Store(c) \/ Stored(c) PROVE Aside
    BY <1>0, <1>8 DEF ReadFails, Hand, Store, Stored, Goes, Returned, slotVars, appVars, sessionVars
  <1>9. ASSUME NEW c \in Opens, OpenSend(c) \/ OpenKeep(c) PROVE Aside
    BY <1>0, <1>9, CallsApart DEF OpenSend, OpenKeep, Goes, Returned, slotVars, sessionVars
  <1>10. ASSUME (\E l \in Lists \union {Empty} : GiveCells(l)) \/ Resolve \/ GiveItems PROVE Aside
    BY <1>10 DEF GiveCells, Resolve, GiveItems, slotVars, sessionVars
  <1>11. ASSUME NEW c \in Calls, Made(c) PROVE Aside
    BY <1>0, <1>11 DEF Made, Call, slotVars, appVars, sessionVars
  <1>12. ASSUME UNCHANGED <<recorderVars, appVars>> PROVE Aside
    BY <1>12 DEF recorderVars, slotVars, appVars, sessionVars
  <1> HIDE DEF Published, Aside
  <1>13. CASE AppNext
    <2>1. ASSUME NEW c \in Calls, CallStep(c)
          PROVE  \/ Published \/ Aside
                 \/ c \in Recordings /\ RecordStart(c) /\ UNCHANGED appVars
                 \/ c \in StopCalls /\ StopTake(c, FALSE) /\ UNCHANGED appVars
                 \/ c \in Disconnects /\ FinishRecording(c)
      BY <1>1, <1>5, <1>6, <1>7, <1>8, <1>9, <2>1 DEF CallStep
    <2>2. ASSUME NEW c \in Connects, SessionStep(c) \/ SessionFails(c) \/ SessionSamples(c) PROVE Published
      BY <1>3, <1>4, <2>2 DEF SessionStep
    <2> QED
      BY <1>2, <1>10, <1>13, <2>1, <2>2 DEF AppNext, Published, Aside
  <1> QED
    BY <1>11, <1>12, <1>13, StepKinds DEF Published, Aside

LEMMA StepFeedTypes ==
  ASSUME AppTypes, Ownership, FeedTypes, [Next]_vars
  PROVE  FeedTypes'
  <1>1. ASSUME NEW m \in Messages, Publish(m), UNCHANGED <<slotVars, fileVars>> PROVE FeedTypes'
    BY <1>1, PublishTypes
  <1>2. ASSUME NEW r \in Recordings, RecordStart(r) PROVE FeedTypes'
    BY <1>2 DEF FeedTypes, RecordStart
  <1>3. ASSUME NEW c \in StopCalls \union Disconnects, NEW across, StopTake(c, across) PROVE FeedTypes'
    BY <1>3 DEF FeedTypes, StopTake, feedVars
  <1>4. ASSUME NEW r \in Recordings, RecorderThread(r) \/ WriteFails(r) PROVE FeedTypes'
    <2>1. /\ <<>> \in Seq(Messages) /\ queue[r] \in Seq(Messages) /\ ticks[r] + 1 \in Nat
          /\ queue[r] # <<>> => Tail(queue[r]) \in Seq(Messages)
      BY DEF FeedTypes
    <2>2. CASE Handle(r)
      <3>1. /\ queue' = [queue EXCEPT ![r] = queue'[r]] /\ queue'[r] \in {<<>>, Tail(queue[r])} /\ queue[r] # <<>>
            /\ ticks' = [ticks EXCEPT ![r] = ticks'[r]] /\ ticks'[r] \in {ticks[r], ticks[r] + 1}
            /\ writer' = [writer EXCEPT ![r] = "over"] \/ writer' = writer
        BY <2>2 DEF FeedTypes, Handle, Ends
      <3>2. queue'[r] \in Seq(Messages)
        BY <2>1, <3>1
      <3>3. ticks'[r] \in Nat
        BY <2>1, <3>1 DEF FeedTypes
      <3>4. queue' \in [Recordings -> Seq(Messages)]
        BY <3>1, <3>2 DEF FeedTypes
      <3>5. ticks' \in [Recordings -> Nat]
        BY <3>1, <3>3 DEF FeedTypes
      <3> QED
        BY <2>2, <3>1, <3>4, <3>5 DEF FeedTypes, Handle, slotVars
    <2>3. CASE SeeStop(r)
      BY <2>3 DEF FeedTypes, SeeStop, AfterStop, slotVars, feedVars
    <2>4. CASE Close(r) \/ WriteFails(r)
      BY <2>1, <2>4 DEF FeedTypes, Close, WriteFails, Ends, slotVars
    <2> QED
      BY <1>4, <2>2, <2>3, <2>4 DEF RecorderThread, Write, Drain
  <1>5. ASSUME UNCHANGED <<held, fileVars, feedVars>> PROVE FeedTypes'
    BY <1>5 DEF FeedTypes, fileVars, feedVars
  <1> QED
    BY <1>1, <1>2, <1>3, <1>4, <1>5, FeedKinds DEF FinishRecording

LEMMA StepWhole ==
  ASSUME AppTypes, Ownership, FeedTypes, Lifetimes, Whole, [Next]_vars
  PROVE  Whole'
  <1> SUFFICES ASSUME NEW r \in Recordings PROVE WholeOf(r)'
    BY DEF Whole
  <1>0. WholeOf(r) /\ pc \in [Calls -> PcStates] /\ Recordings \subseteq Calls
    BY CallsApart DEF Whole, AppTypes
  <1>1. ASSUME NEW m \in Messages, Publish(m), Live => Live' \/ m = "end",
               UNCHANGED <<slotVars, fileVars>>, pc'[r] = pc[r]
        PROVE  WholeOf(r)'
    BY <1>0, <1>1, PublishWhole
  <1>2. ASSUME NEW s \in Recordings, RecordStart(s), UNCHANGED appVars PROVE WholeOf(r)'
    <2>1. CASE s = r
      BY <1>0, <1>2, <2>1, RecordStartWhole
    <2>2. CASE s # r
      <3>1. /\ UNCHANGED <<ended, dropped, offered, stopper, queue, ticks>> /\ writer'[r] = writer[r]
            /\ pc'[r] = pc[r] /\ held' # r /\ (r \notin excused' => r \notin excused) /\ Live' = Live
        BY <1>0, <1>2, <2>2 DEF RecordStart, Returned, FeedTypes, appVars, sessionVars, Live
      <3> QED
        BY <1>0, <3>1, WholeKept
    <2> QED
      BY <2>1, <2>2
  <1>3. ASSUME NEW c \in StopCalls, StopTake(c, FALSE), UNCHANGED appVars PROVE WholeOf(r)'
    <2>1. c \notin Disconnects
      BY CallsApart
    <2> QED
      BY <1>0, <1>3, <2>1, StopTakeWhole
  <1>4. ASSUME NEW d \in Disconnects, FinishRecording(d) PROVE WholeOf(r)'
    BY <1>0, <1>4, StopTakeWhole DEF FinishRecording
  <1>5. ASSUME NEW s \in Recordings, RecorderThread(s) \/ WriteFails(s), UNCHANGED appVars
        PROVE  WholeOf(r)'
    <2>1. CASE s = r
      BY <1>0, <1>5, <2>1, ThreadWhole
    <2>2. CASE s # r
      <3>1. /\ UNCHANGED <<pc, held, ended, dropped, offered, excused, stopper>>
            /\ writer'[r] = writer[r] /\ queue'[r] = queue[r] /\ ticks'[r] = ticks[r] /\ Live' = Live
        BY <1>5, <2>2 DEF RecorderThread, Write, Drain, SeeStop, Close, WriteFails, Handle, Ends,
                          FeedTypes, slotVars, feedVars, appVars, sessionVars, Live
      <3> QED
        BY <1>0, <3>1, WholeKept
    <2> QED
      BY <2>1, <2>2
  <1>6. ASSUME UNCHANGED <<held, fileVars, feedVars, session>>,
               pc'[r] \in {"idle", "called", "subscribe"} => pc[r] \in {"idle", "called", "subscribe"}
        PROVE  WholeOf(r)'
    BY <1>0, <1>6, WholeKept DEF fileVars, feedVars, Live
  <1> QED
    BY <1>1, <1>2, <1>3, <1>4, <1>5, <1>6, FeedKinds

LEMMA LifetimesKept ==
  ASSUME Lifetimes, UNCHANGED <<slot, joins>>, Running' \subseteq Running,
         \A c \in Connects : /\ session[c] # None => session'[c] # None
                             /\ pc'[c] \in {"hand", "store"} => pc[c] \in {"hand", "store"},
         \A d \in Disconnects : pc'[d] = "finish" => pc[d] = "finish",
         joins \in [Connects \union Disconnects -> Connects \union {None}], slot \in Connects \union {None},
         link' = "connected" => Live'
  PROVE  Lifetimes'
  BY DEF Lifetimes, Joiners

LEMMA JoinerLifetimes ==
  ASSUME AppTypes, Ownership, Lifetimes, NEW d \in Joiners,
         TakeOld(d) \/ Join(d) \/ (d \in Connects /\ (Spawn(d) \/ Hand(d) \/ Store(d) \/ Stored(d)))
  PROVE  Lifetimes'
  <1> USE CallsApart DEF AppTypes
  <1>0. /\ d \in Calls /\ Joiners \subseteq Calls /\ Disconnects \subseteq Joiners /\ Connects \subseteq Joiners
        /\ Disconnects \intersect Connects = {}
    BY DEF Joiners
  <1>1. CASE TakeOld(d)
    <2>1. /\ slot' \in {slot, None} /\ joins'[d] \in {joins[d], slot} /\ UNCHANGED <<session, link>>
          /\ \A e \in Joiners : e # d => joins'[e] = joins[e]
          /\ \A e \in Calls : e # d => pc'[e] = pc[e]
          /\ pc'[d] \in {"join", "refused"} /\ Running' = Running /\ Live' = Live
      BY <1>0, <1>1 DEF TakeOld, Goes, feedVars, Running, Live, Joiners
    <2> QED
      BY <1>0, <2>1 DEF Lifetimes
  <1>2. CASE Join(d)
    <2>1. /\ UNCHANGED <<slot, joins, session, link>> /\ joins[d] \notin Running
          /\ \A e \in Calls : e # d => pc'[e] = pc[e]
          /\ pc'[d] \in {"finish", "prepare"} /\ Running' = Running /\ Live' = Live
      BY <1>0, <1>2 DEF Join, Gone, Goes, feedVars, Running, Live, appVars, sessionVars
    <2> QED
      BY <1>0, <2>1 DEF Lifetimes
  <1>3. CASE d \in Connects /\ Spawn(d)
    <2>1. /\ UNCHANGED <<slot, joins>> /\ session[d] = None /\ session'[d] = "spawned"
          /\ \A c \in Connects : c # d => session'[c] = session[c]
          /\ \A e \in Calls : e # d => pc'[e] = pc[e]
          /\ pc'[d] = "hand"
      BY <1>3 DEF Spawn, Goes, Ownership, Early
    <2>2. link' = link
      BY <1>3, LinkPublished DEF Spawn
    <2>3. Live => Live'
      BY <2>1 DEF Live, None
    <2>4. \A e \in Connects : session[e] # None => (e \in Running' => e \in Running)
      BY <2>1 DEF Running
    <2>5. None \notin Running' /\ "spawned" # None
      BY DEF Running, None
    <2>6. \A e \in Joiners : joins[e] \notin Running => joins'[e] \notin Running'
      BY <2>1, <2>4, <2>5 DEF Lifetimes, Joiners
    <2> QED
      BY <1>0, <2>1, <2>2, <2>3, <2>5, <2>6 DEF Lifetimes, Joiners
  <1>4. CASE d \in Connects /\ (Hand(d) \/ Stored(d))
    <2>1. /\ UNCHANGED <<slot, joins, session, link>>
          /\ \A e \in Calls : e # d => pc'[e] = pc[e]
          /\ pc'[d] = "done" \/ (pc[d] = "hand" /\ pc'[d] = "store")
          /\ Running' = Running /\ Live' = Live
      BY <1>4 DEF Hand, Stored, Goes, Returned, feedVars, Running, Live, sessionVars
    <2> QED
      BY <1>0, <1>4, <2>1 DEF Lifetimes, Running, Live
  <1>5. CASE d \in Connects /\ Store(d)
    <2>1. /\ slot' = d /\ joins'[d] \in {joins[d], slot} /\ UNCHANGED <<session, link>> /\ pc[d] = "store"
          /\ \A e \in Joiners : e # d => joins'[e] = joins[e]
          /\ \A e \in Calls : e # d => pc'[e] = pc[e]
          /\ pc'[d] \in {"done", "storing"} /\ Running' = Running /\ Live' = Live
      BY <1>0, <1>5 DEF Store, Goes, Returned, Displaced, feedVars, Running, Live, sessionVars, Joiners
    <2> QED
      BY <1>0, <1>5, <2>1 DEF Lifetimes
  <1> QED
    BY <1>1, <1>2, <1>3, <1>4, <1>5

LEMMA StepLifetimes ==
  ASSUME AppTypes, Ownership, Lifetimes, [Next]_vars
  PROVE  Lifetimes'
  <1>0. /\ pc \in [Calls -> PcStates] /\ slot \in Connects \union {None}
        /\ joins \in [Connects \union Disconnects -> Connects \union {None}]
        /\ Connects \subseteq Calls /\ Disconnects \subseteq Calls
        /\ session \in [Connects -> SessionStates]
    BY CallsApart DEF AppTypes
  <1>1. ASSUME UNCHANGED <<slot, joins, session, link>>,
               \A c \in Connects \union Disconnects : pc'[c] = pc[c] \/ pc'[c] \notin {"hand", "store", "finish"}
        PROVE  Lifetimes'
    BY <1>0, <1>1, LifetimesKept DEF Running, Live, Lifetimes
  <1>2. ASSUME NEW c \in Calls, CallStep(c) PROVE Lifetimes'
    <2>1. CASE c \in Recordings /\ (RecordCheck(c) \/ RecordStart(c) \/ RecordFails(c)) /\ UNCHANGED appVars
      <3>1. UNCHANGED <<slot, joins, session, link>> /\ \A e \in Calls : e # c => pc'[e] = pc[e]
        BY <1>0, <2>1 DEF RecordCheck, RecordStart, RecordFails, Returned, appVars, sessionVars, feedVars
      <3> QED
        BY <1>0, <1>1, <2>1, <3>1, CallsApart
    <2>2. CASE /\ c \in StopCalls \union Disconnects /\ UNCHANGED appVars
               /\ StopJoined(c) \/ StopTake(c, FALSE) \/ FinishRecording(c)
      <3>1. /\ UNCHANGED <<slot, joins, session, link>> /\ \A e \in Calls : e # c => pc'[e] = pc[e]
            /\ pc'[c] \in {"done", "joinRecorder"}
        BY <1>0, <2>2 DEF StopJoined, StopTake, FinishRecording, Returned, appVars, sessionVars, feedVars
      <3> QED
        BY <1>0, <1>1, <2>2, <3>1
    <2>3. CASE c \in Connects /\ ReadFails(c)
      <3>1. /\ UNCHANGED <<slot, joins, session, link>> /\ \A e \in Calls : e # c => pc'[e] = pc[e]
            /\ pc'[c] = "refused"
        BY <1>0, <2>3 DEF ReadFails, Goes, appVars, sessionVars, feedVars
      <3> QED
        BY <1>0, <1>1, <3>1
    <2>4. CASE c \in Opens /\ (OpenSend(c) \/ OpenKeep(c))
      <3>1. UNCHANGED <<slot, joins, session, link>> /\ \A e \in Calls : e # c => pc'[e] = pc[e]
        BY <1>0, <2>4 DEF OpenSend, OpenKeep, Goes, Returned, sessionVars, feedVars
      <3> QED
        BY <1>0, <1>1, <2>4, <3>1, CallsApart
    <2> QED
      BY <1>2, <2>1, <2>2, <2>3, <2>4, JoinerLifetimes DEF CallStep, FinishRecording, Joiners
  <1>3. CASE (\E l \in Lists \union {Empty} : GiveCells(l)) \/ Resolve \/ GiveItems
    BY <1>1, <1>3 DEF GiveCells, Resolve, GiveItems, sessionVars, feedVars
  <1>4. CASE SetRate
    <2>1. link' = link
      BY <1>4, LinkPublished DEF SetRate
    <2> QED
      BY <1>1, <1>4, <2>1 DEF SetRate, sessionVars
  <1>5. ASSUME NEW c \in Connects, SessionStep(c) \/ SessionFails(c) \/ SessionSamples(c)
        PROVE  Lifetimes'
    <2>1. /\ UNCHANGED <<slot, joins, pc>> /\ \A d \in Connects : d # c => session'[d] = session[d]
          /\ session[c] \in {"spawned", "opening", "running"} /\ session'[c] # None
      BY <1>0, <1>5 DEF SessionStep, SessionBegins, SessionOpens, SessionStops, SessionFails, SessionSamples,
                  Becomes, None
    <2>2. Running' \subseteq Running
      BY <2>1 DEF Running
    <2>3. link' = "connected" => Live'
      <3>1. CASE SessionBegins(c) \/ SessionStops(c) \/ SessionFails(c)
        <4>1. link' = "over"
          BY <3>1, LinkPublished DEF SessionBegins, SessionStops, SessionFails, Becomes
        <4> QED
          BY <4>1
      <3>2. CASE SessionOpens(c)
        BY <1>0, <3>2 DEF SessionOpens, Becomes, Live
      <3>3. CASE SessionSamples(c)
        <4>1. link' = link /\ Live' = Live
          BY <3>3, LinkPublished DEF SessionSamples, Live
        <4> QED
          BY <4>1 DEF Lifetimes
      <3> QED
        BY <1>5, <3>1, <3>2, <3>3 DEF SessionStep
    <2>4. \A d \in Connects : session[d] # None => session'[d] # None
      BY <2>1
    <2> QED
      BY <1>0, <2>1, <2>2, <2>3, <2>4, LifetimesKept
  <1>6. ASSUME NEW r \in Recordings, RecorderThread(r) \/ WriteFails(r), UNCHANGED appVars
        PROVE  Lifetimes'
    <2>1. UNCHANGED <<slot, joins, session, link, pc>>
      BY <1>6 DEF RecorderThread, Write, SeeStop, Drain, Close, Handle, WriteFails, appVars, sessionVars, feedVars
    <2> QED
      BY <1>1, <2>1
  <1>7. ASSUME NEW c \in Calls, Made(c) PROVE Lifetimes'
    <2>1. /\ UNCHANGED <<slot, joins, session, link>> /\ pc'[c] = "called"
          /\ \A e \in Calls : e # c => pc'[e] = pc[e]
      BY <1>0, <1>7 DEF Made, Call, appVars, sessionVars, feedVars
    <2> QED
      BY <1>0, <1>1, <2>1
  <1>8. CASE UNCHANGED <<recorderVars, appVars>>
    BY <1>1, <1>8 DEF recorderVars, appVars, sessionVars, feedVars
  <1> QED
    BY <1>2, <1>3, <1>4, <1>5, <1>6, <1>7, <1>8, StepKinds DEF AppNext

WholeInvariant == AppTypes /\ Ownership /\ FeedTypes /\ Lifetimes /\ Whole

LEMMA InitWhole == Init => WholeInvariant
  <1> SUFFICES ASSUME AppInit PROVE WholeInvariant
    BY DEF Init
  <1>1. Ownership
    BY DEF AppInit, Ownership, Running, None
  <1>2. FeedTypes
    <2>1. <<>> \in Seq(Messages) /\ 0 \in Nat
      OBVIOUS
    <2> QED
      BY <2>1 DEF AppInit, RecorderInit, FeedTypes
  <1>3. Lifetimes
    BY CallsApart DEF AppInit, RecorderInit, Lifetimes, Joiners
  <1>4. Whole
    <2> SUFFICES ASSUME NEW r \in Recordings PROVE WholeOf(r)
      BY DEF Whole
    <2>1. /\ writer[r] = "none" /\ queue[r] = <<>> /\ ticks[r] = 0 /\ dropped[r] = 0 /\ offered[r] = 0
          /\ ended = {} /\ stopper[r] = NoOne /\ held = NoOne /\ r # NoOne
      BY CallsApart DEF AppInit, RecorderInit
    <2>2. NoOne \notin Disconnects
      BY CallsApart
    <2> QED
      BY <2>1, <2>2 DEF WholeOf, Begun, Subscribed
  <1> QED
    BY <1>1, <1>2, <1>3, <1>4, AppInitTypes DEF WholeInvariant

\* A recording that ended with its session has the batches the session published
\* since it began, or counts them as dropped, and none of the next session's.
THEOREM WholeRecorded == Spec => []RecordsWholeSession
  <1>1. WholeInvariant /\ [Next]_vars => WholeInvariant'
    BY StepTypes, StepOwners, StepFeedTypes, StepLifetimes, StepWhole DEF WholeInvariant
  <1>2. WholeInvariant => RecordsWholeSession
    BY DEF WholeInvariant, RecordsWholeSession, Whole, WholeOf, Complete
  <1> QED
    BY <1>1, <1>2, InitWhole, PTL DEF Spec

------------------------------------------------------------------------------
(* Who waits, and with which lock *)

\* Calls that hold a lock, or wait for a thread to end.
Waiters == {"join", "storing", "subscribe", "joinRecorder"}

\* Each lock that is held across a wait has the call that holds it.
Locks ==
  /\ storing \in Connects \union {None} /\ starting \in Recordings \union {NoOne}
  /\ \A c \in Connects : pc[c] = "storing" <=> storing = c
  /\ \A r \in Recordings : pc[r] = "subscribe" <=> starting = r

\* A thread is joined only by a call, or after a call, that told it to stop.
JoinsEnd ==
  /\ \A d \in Joiners : pc[d] \in {"join", "storing"} => joins[d] \in stopping \union {None}
  /\ \A c \in StopCalls \union Disconnects :
       pc[c] = "joinRecorder" => waits[c] \in Recordings /\ stopper[waits[c]] = c

WaitTypes == waits \in [StopCalls \union Disconnects -> Recordings \union {NoOne}]

\* Steps that no waiter takes, and none makes a waiter.
WaitersKept ==
  /\ UNCHANGED <<storing, starting, joins, waits, stopper>> /\ stopping \subseteq stopping'
  /\ \A c \in Calls : pc'[c] = pc[c] \/ (pc[c] \notin Waiters /\ pc'[c] \notin Waiters)

LEMMA KeptWaits ==
  ASSUME Locks, JoinsEnd, WaitersKept
  PROVE  Locks' /\ JoinsEnd'
  <1>1. \A c \in Calls : \A state \in Waiters : pc'[c] = state <=> pc[c] = state
    BY DEF WaitersKept
  <1>2. Connects \subseteq Calls /\ Recordings \subseteq Calls /\ Joiners \subseteq Calls
        /\ StopCalls \union Disconnects \subseteq Calls
    BY CallsApart DEF Joiners
  <1>3. Locks'
    BY <1>1, <1>2 DEF Locks, WaitersKept, Waiters
  <1>4. JoinsEnd'
    BY <1>1, <1>2 DEF JoinsEnd, WaitersKept, Waiters
  <1> QED
    BY <1>3, <1>4

\* Which steps are those of waiters, and of calls that begin to wait.
LEMMA WaitKinds ==
  ASSUME AppTypes, [Next]_vars
  PROVE  \/ WaitersKept
         \/ \E d \in Joiners : TakeOld(d) \/ Join(d)
         \/ \E c \in Connects : Store(c) \/ Stored(c)
         \/ \E r \in Recordings : (RecordCheck(r) \/ RecordStart(r) \/ RecordFails(r)) /\ UNCHANGED appVars
         \/ \E c \in StopCalls \union Disconnects, across \in BOOLEAN :
              (StopTake(c, across) \/ StopJoined(c)) /\ UNCHANGED appVars
  <1>0. /\ pc \in [Calls -> PcStates] /\ Connects \subseteq Calls /\ Opens \subseteq Calls
        /\ Connects \intersect Opens = {}
    BY CallsApart DEF AppTypes
  <1>1. ASSUME UNCHANGED <<pc, slotVars, stopper, appVars>> PROVE WaitersKept
    BY <1>1 DEF WaitersKept, slotVars, appVars, sessionVars
  <1>2. ASSUME NEW c \in Connects, ReadFails(c) PROVE WaitersKept
    BY <1>0, <1>2 DEF ReadFails, Goes, WaitersKept, Waiters, slotVars, fileVars, appVars, sessionVars
  <1>3. ASSUME NEW c \in Connects, Spawn(c) \/ Hand(c) PROVE WaitersKept
    BY <1>0, <1>3 DEF Spawn, Hand, Goes, WaitersKept, Waiters, slotVars, fileVars, sessionVars
  <1>4. ASSUME NEW o \in Opens, OpenSend(o) \/ OpenKeep(o) PROVE WaitersKept
    BY <1>0, <1>4 DEF OpenSend, OpenKeep, Goes, Returned, WaitersKept, Waiters, slotVars, fileVars, sessionVars
  <1>5. CASE (\E l \in Lists \union {Empty} : GiveCells(l)) \/ Resolve \/ GiveItems \/ SetRate
    BY <1>5 DEF GiveCells, Resolve, GiveItems, SetRate, WaitersKept, slotVars, fileVars, sessionVars
  <1>6. ASSUME NEW c \in Connects, SessionStep(c) \/ SessionFails(c) \/ SessionSamples(c) PROVE WaitersKept
    BY <1>6 DEF SessionStep, SessionBegins, SessionOpens, SessionStops, SessionFails, SessionSamples,
                Becomes, WaitersKept, slotVars, fileVars
  <1>7. ASSUME NEW r \in Recordings, RecorderThread(r) \/ WriteFails(r), UNCHANGED appVars PROVE WaitersKept
    <2>1. UNCHANGED <<pc, slotVars, stopper>>
      BY <1>7 DEF RecorderThread, Write, SeeStop, Drain, Close, Handle, WriteFails
    <2> QED
      BY <1>1, <1>7, <2>1
  <1>8. ASSUME NEW c \in Calls, Made(c) PROVE WaitersKept
    BY <1>0, <1>8 DEF Made, Call, WaitersKept, Waiters, slotVars, fileVars, appVars, sessionVars
  <1>9. CASE UNCHANGED <<recorderVars, appVars>>
    BY <1>1, <1>9 DEF recorderVars, fileVars
  <1>10. ASSUME NEW c \in Calls, CallStep(c)
         PROVE  \/ WaitersKept
                \/ c \in Joiners /\ (TakeOld(c) \/ Join(c))
                \/ c \in Connects /\ (Store(c) \/ Stored(c))
                \/ c \in Recordings /\ (RecordCheck(c) \/ RecordStart(c) \/ RecordFails(c)) /\ UNCHANGED appVars
                \/ c \in StopCalls \union Disconnects
                   /\ \E across \in BOOLEAN : (StopTake(c, across) \/ StopJoined(c)) /\ UNCHANGED appVars
    <2>1. CASE c \in Disconnects /\ FinishRecording(c)
      <3>1. (\E s \in Running : s # joins[c]) \in BOOLEAN
        OBVIOUS
      <3> QED
        BY <2>1, <3>1 DEF FinishRecording
    <2> QED
      BY <1>2, <1>3, <1>4, <1>10, <2>1 DEF CallStep, Joiners
  <1> QED
    BY <1>5, <1>6, <1>7, <1>8, <1>9, <1>10, StepKinds DEF AppNext

LEMMA SessionWaits ==
  ASSUME AppTypes, Locks, JoinsEnd,
         \/ \E d \in Joiners : TakeOld(d) \/ Join(d)
         \/ \E c \in Connects : Store(c) \/ Stored(c)
  PROVE  Locks' /\ JoinsEnd'
  <1>0. /\ pc \in [Calls -> PcStates] /\ joins \in [Joiners -> Connects \union {None}]
        /\ slot \in Connects \union {None} /\ storing \in Connects \union {None}
        /\ Connects \subseteq Calls /\ Recordings \subseteq Calls /\ Joiners \subseteq Calls
        /\ Connects \subseteq Joiners /\ StopCalls \union Disconnects \subseteq Calls
        /\ Joiners \intersect (Recordings \union StopCalls) = {} /\ Connects \intersect Disconnects = {}
        /\ None \notin Connects
    BY CallsApart DEF AppTypes, Joiners
  <1>1. ASSUME NEW d \in Joiners, pc[d] \notin {"subscribe", "joinRecorder"},
               pc'[d] \notin {"subscribe", "joinRecorder"}, \A e \in Calls : e # d => pc'[e] = pc[e],
               UNCHANGED slotVars, UNCHANGED fileVars
        PROVE  /\ starting' \in Recordings \union {NoOne}
               /\ \A r \in Recordings : pc'[r] = "subscribe" <=> starting' = r
               /\ \A c \in StopCalls \union Disconnects :
                    pc'[c] = "joinRecorder" => waits'[c] \in Recordings /\ stopper'[waits'[c]] = c
    <2>1. /\ starting' = starting /\ waits' = waits /\ stopper' = stopper
          /\ \A e \in Calls : \A state \in {"subscribe", "joinRecorder"} : pc'[e] = state <=> pc[e] = state
      BY <1>1 DEF slotVars, fileVars
    <2> QED
      BY <1>0, <2>1 DEF Locks, JoinsEnd
  <1>2. ASSUME NEW d \in Joiners, TakeOld(d) PROVE Locks' /\ JoinsEnd'
    <2>1. /\ pc[d] = "called" /\ \A e \in Calls : e # d => pc'[e] = pc[e]
          /\ UNCHANGED <<slotVars, fileVars, storing>> /\ stopping \subseteq stopping'
          /\ \/ pc'[d] = "refused" /\ joins' = joins
             \/ /\ pc'[d] = "join" /\ joins' = [joins EXCEPT ![d] = slot]
                /\ slot # None => slot \in stopping'
      BY <1>0, <1>2 DEF TakeOld, Goes, Dropped
    <2>2. \A c \in Connects : pc'[c] = "storing" <=> storing' = c
      BY <1>0, <2>1 DEF Locks
    <2>3. \A e \in Joiners : pc'[e] \in {"join", "storing"} => joins'[e] \in stopping' \union {None}
      BY <1>0, <2>1 DEF JoinsEnd
    <2> QED
      BY <1>0, <1>1, <2>1, <2>2, <2>3 DEF Locks, JoinsEnd
  <1>3. ASSUME NEW d \in Joiners, Join(d) PROVE Locks' /\ JoinsEnd'
    <2>1. /\ pc[d] = "join" /\ pc'[d] \in {"finish", "prepare"} /\ \A e \in Calls : e # d => pc'[e] = pc[e]
          /\ UNCHANGED <<slotVars, fileVars, storing, joins, stopping>>
      BY <1>0, <1>3 DEF Join, Goes, appVars, sessionVars
    <2>2. \A c \in Connects : pc'[c] = "storing" <=> storing' = c
      BY <1>0, <2>1 DEF Locks
    <2>3. \A e \in Joiners : pc'[e] \in {"join", "storing"} => joins'[e] \in stopping' \union {None}
      BY <1>0, <2>1 DEF JoinsEnd
    <2> QED
      BY <1>0, <1>1, <2>1, <2>2, <2>3 DEF Locks, JoinsEnd
  <1>4. ASSUME NEW d \in Connects, Store(d) PROVE Locks' /\ JoinsEnd'
    <2>1. /\ pc[d] = "store" /\ storing = None /\ \A e \in Calls : e # d => pc'[e] = pc[e]
          /\ UNCHANGED <<slotVars, fileVars>> /\ stopping \subseteq stopping'
          /\ \/ pc'[d] = "done" /\ UNCHANGED <<storing, joins>>
             \/ /\ pc'[d] = "storing" /\ storing' = d /\ joins' = [joins EXCEPT ![d] = slot]
                /\ slot \in stopping'
      BY <1>0, <1>4 DEF Store, Goes, Returned, Dropped, Displaced, SlotFree
    <2>2. storing' \in Connects \union {None} /\ \A c \in Connects : pc'[c] = "storing" <=> storing' = c
      BY <1>0, <2>1 DEF Locks
    <2>3. \A e \in Joiners : pc'[e] \in {"join", "storing"} => joins'[e] \in stopping' \union {None}
      BY <1>0, <2>1 DEF JoinsEnd
    <2> QED
      BY <1>0, <1>1, <2>1, <2>2, <2>3 DEF Locks, JoinsEnd
  <1>5. ASSUME NEW d \in Connects, Stored(d) PROVE Locks' /\ JoinsEnd'
    <2>1. /\ pc[d] = "storing" /\ pc'[d] = "done" /\ storing' = None
          /\ \A e \in Calls : e # d => pc'[e] = pc[e]
          /\ UNCHANGED <<slotVars, fileVars, joins, stopping>>
      BY <1>0, <1>5 DEF Stored, Returned, sessionVars
    <2>2. \A c \in Connects : pc'[c] = "storing" <=> storing' = c
      BY <1>0, <2>1 DEF Locks
    <2>3. \A e \in Joiners : pc'[e] \in {"join", "storing"} => joins'[e] \in stopping' \union {None}
      BY <1>0, <2>1 DEF JoinsEnd
    <2> QED
      BY <1>0, <1>1, <2>1, <2>2, <2>3 DEF Locks, JoinsEnd
  <1> QED
    BY <1>2, <1>3, <1>4, <1>5

LEMMA RecordingWaits ==
  ASSUME AppTypes, FeedTypes, WaitTypes, Whole, Locks, JoinsEnd, UNCHANGED appVars,
         \/ \E r \in Recordings : RecordCheck(r) \/ RecordStart(r) \/ RecordFails(r)
         \/ \E c \in StopCalls \union Disconnects, across \in BOOLEAN : StopTake(c, across) \/ StopJoined(c)
  PROVE  Locks' /\ JoinsEnd'
  <1>0. /\ pc \in [Calls -> PcStates] /\ Connects \subseteq Calls /\ Recordings \subseteq Calls
        /\ Joiners \subseteq Calls /\ StopCalls \union Disconnects \subseteq Calls
        /\ Joiners \intersect (Recordings \union StopCalls) = {} /\ Connects \intersect Disconnects = {}
        /\ Recordings \intersect (StopCalls \union Disconnects) = {} /\ NoOne \notin Calls
        /\ UNCHANGED <<storing, joins, stopping>>
    BY CallsApart DEF AppTypes, Joiners, appVars, sessionVars
  <1>1. ASSUME NEW c \in Calls, c \notin Connects, pc[c] \notin {"join", "storing"},
               pc'[c] \notin {"join", "storing"}, \A e \in Calls : e # c => pc'[e] = pc[e]
        PROVE  /\ storing' \in Connects \union {None}
               /\ \A d \in Connects : pc'[d] = "storing" <=> storing' = d
               /\ \A d \in Joiners : pc'[d] \in {"join", "storing"} => joins'[d] \in stopping' \union {None}
    <2>1. \A e \in Calls : \A state \in {"join", "storing"} : pc'[e] = state <=> pc[e] = state
      BY <1>1
    <2> QED
      BY <1>0, <2>1 DEF Locks, JoinsEnd
  <1>2. ASSUME NEW r \in Recordings, RecordCheck(r) \/ RecordStart(r) \/ RecordFails(r)
        PROVE  Locks' /\ JoinsEnd'
    <2>1. /\ pc[r] \in {"called", "subscribe"} /\ pc'[r] \in {"subscribe", "done"}
          /\ \A e \in Calls : e # r => pc'[e] = pc[e]
          /\ UNCHANGED <<waits, stopper>>
          /\ \/ pc[r] = "called" /\ starting = NoOne /\ pc'[r] = "subscribe" /\ starting' = r
             \/ pc[r] = "called" /\ pc'[r] = "done" /\ starting' = starting
             \/ pc[r] = "subscribe" /\ pc'[r] = "done" /\ starting' = NoOne
      BY <1>0, <1>2 DEF RecordCheck, RecordStart, RecordFails, Returned, Unlocked, fileVars
    <2>2. /\ starting' \in Recordings \union {NoOne}
          /\ \A s \in Recordings : pc'[s] = "subscribe" <=> starting' = s
      BY <1>0, <2>1 DEF Locks
    <2>3. \A c \in StopCalls \union Disconnects :
            pc'[c] = "joinRecorder" => waits'[c] \in Recordings /\ stopper'[waits'[c]] = c
      BY <1>0, <2>1 DEF JoinsEnd
    <2>4. r \in Calls /\ r \notin Connects /\ pc[r] \notin {"join", "storing"} /\ pc'[r] \notin {"join", "storing"}
      BY <1>0, <2>1, CallsApart
    <2> QED
      BY <1>1, <2>1, <2>2, <2>3, <2>4 DEF Locks, JoinsEnd
  <1>3. ASSUME NEW c \in StopCalls \union Disconnects, NEW across \in BOOLEAN,
               StopTake(c, across) \/ StopJoined(c)
        PROVE  Locks' /\ JoinsEnd'
    <2>1. /\ pc[c] \in {"called", "finish", "joinRecorder"} /\ pc'[c] \in {"joinRecorder", "done"}
          /\ \A e \in Calls : e # c => pc'[e] = pc[e]
          /\ UNCHANGED starting
      BY <1>0, <1>3 DEF StopTake, Stops, StopJoined, Returned
    <2>2. /\ starting' \in Recordings \union {NoOne}
          /\ \A s \in Recordings : pc'[s] = "subscribe" <=> starting' = s
      BY <1>0, <2>1 DEF Locks
    <2>3. ASSUME NEW d \in StopCalls \union Disconnects, pc'[d] = "joinRecorder"
          PROVE  waits'[d] \in Recordings /\ stopper'[waits'[d]] = d
      <3>1. CASE StopTake(c, across) /\ held # NoOne
        <4>1. /\ held \in Recordings /\ stopper' = [stopper EXCEPT ![held] = c]
              /\ waits' = [waits EXCEPT ![c] = held] /\ stopper[held] = NoOne
          BY <3>1 DEF StopTake, FeedTypes, Whole, WholeOf
        <4>2. CASE d = c
          BY <4>1, <4>2 DEF FeedTypes, WaitTypes
        <4>3. CASE d # c
          <5>1. waits[d] \in Recordings /\ stopper[waits[d]] = d /\ d # NoOne
            BY <1>0, <2>1, <2>3, <4>3 DEF JoinsEnd
          <5>2. waits[d] # held /\ waits'[d] = waits[d]
            BY <4>1, <4>3, <5>1
          <5> QED
            BY <4>1, <5>1, <5>2 DEF FeedTypes
        <4> QED
          BY <4>2, <4>3
      <3>2. CASE StopTake(c, across) /\ held = NoOne
        <4>1. pc'[c] = "done" /\ UNCHANGED <<waits, stopper>>
          BY <1>0, <3>2 DEF StopTake, Returned
        <4> QED
          BY <1>0, <2>1, <2>3, <4>1 DEF JoinsEnd
      <3>3. CASE StopJoined(c)
        <4>1. pc'[c] = "done" /\ waits' = [waits EXCEPT ![c] = NoOne] /\ UNCHANGED stopper
          BY <1>0, <3>3 DEF StopJoined, Returned, fileVars
        <4>2. d # c /\ waits'[d] = waits[d]
          BY <2>3, <4>1
        <4> QED
          BY <1>0, <2>1, <2>3, <4>1, <4>2 DEF JoinsEnd
      <3> QED
        BY <1>3, <3>1, <3>2, <3>3
    <2>4. c \in Calls /\ c \notin Connects /\ pc[c] \notin {"join", "storing"} /\ pc'[c] \notin {"join", "storing"}
      BY <1>0, <2>1, CallsApart
    <2> QED
      BY <1>1, <2>1, <2>2, <2>3, <2>4 DEF Locks, JoinsEnd
  <1> QED
    BY <1>2, <1>3

LEMMA StepWaits ==
  ASSUME AppTypes, FeedTypes, WaitTypes, Whole, Locks, JoinsEnd, [Next]_vars
  PROVE  Locks' /\ JoinsEnd' /\ WaitTypes'
  <1>1. Locks' /\ JoinsEnd'
    BY WaitKinds, KeptWaits, SessionWaits, RecordingWaits
  <1>2. WaitTypes'
    <2>1. ASSUME NEW c \in StopCalls \union Disconnects, NEW across \in BOOLEAN,
                 StopTake(c, across) \/ StopJoined(c)
          PROVE  WaitTypes'
      <3>1. waits' = waits \/ \E r \in Recordings \union {NoOne} : waits' = [waits EXCEPT ![c] = r]
        BY <2>1 DEF StopTake, StopJoined, FeedTypes
      <3> QED
        BY <3>1 DEF WaitTypes
    <2>2. \/ waits' = waits
          \/ \E c \in StopCalls \union Disconnects, across \in BOOLEAN : StopTake(c, across) \/ StopJoined(c)
      BY WaitKinds DEF WaitersKept, TakeOld, Join, Store, Stored, RecordCheck, RecordStart, RecordFails, slotVars
    <2> QED
      BY <2>1, <2>2 DEF WaitTypes
  <1> QED
    BY <1>1, <1>2

\* Everything that is known of the server.
ServerInvariant ==
  AppTypes /\ Ownership /\ FeedTypes /\ Lifetimes /\ Whole /\ WaitTypes /\ Locks /\ JoinsEnd

LEMMA InitServer == Init => ServerInvariant
  <1> SUFFICES ASSUME Init PROVE ServerInvariant
    OBVIOUS
  <1>1. AppTypes /\ Ownership /\ FeedTypes /\ Lifetimes /\ Whole
    BY InitWhole DEF WholeInvariant
  <1>2. /\ pc = [c \in Calls |-> "idle"] /\ storing = None /\ starting = NoOne
        /\ waits = [c \in StopCalls \union Disconnects |-> NoOne]
    BY DEF Init, AppInit, RecorderInit
  <1>3. WaitTypes /\ Locks /\ JoinsEnd
    BY <1>2, CallsApart DEF WaitTypes, Locks, JoinsEnd, Joiners
  <1> QED
    BY <1>1, <1>3 DEF ServerInvariant

LEMMA StepServer ==
  ASSUME ServerInvariant, [Next]_vars
  PROVE  ServerInvariant'
  BY StepTypes, StepOwners, StepFeedTypes, StepLifetimes, StepWhole, StepWaits DEF ServerInvariant

\* Every lock that is held across a wait has the one call that holds it, and every
\* thread that a call waits for was told to stop.
THEOREM WaitsJustified == Spec => [](Locks /\ JoinsEnd)
  <1>1. ServerInvariant => Locks /\ JoinsEnd
    BY DEF ServerInvariant
  <1> QED
    BY <1>1, InitServer, StepServer, PTL DEF Spec

------------------------------------------------------------------------------
(* Type correctness *)

FeedBounds == link \in {"connected", "over"} /\ \A r \in Recordings : Len(queue[r]) <= QueueSize

LEMMA PublishBounds ==
  ASSUME FeedTypes, FeedBounds, NEW m \in Messages, Publish(m)
  PROVE  FeedBounds'
  <1>1. ASSUME NEW r \in Recordings PROVE Len(queue'[r]) <= QueueSize
    <2>1. PICK q \in Seq(Messages) : q = queue[r]
      BY DEF FeedTypes
    <2>2. \/ queue'[r] = q /\ Len(q) <= QueueSize
          \/ ~(Len(q) >= QueueSize) /\ queue'[r] = Append(q, m)
      BY <2>1 DEF Publish, Subscribed, Full, FeedBounds
    <2>3. q \in Seq(Messages) /\ Len(q) \in Nat /\ QueueSize \in Nat
      BY <2>1, RecorderAssumption
    <2>4. Len(Append(q, m)) = Len(q) + 1
      BY <2>3
    <2>5. ~(Len(q) >= QueueSize) => Len(q) + 1 <= QueueSize
      BY <2>3
    <2> QED
      BY <2>2, <2>4, <2>5
  <1>2. link' \in {"connected", "over"}
    BY LinkPublished DEF Messages, FeedBounds
  <1> QED
    BY <1>1, <1>2 DEF FeedBounds

LEMMA ThreadBounds ==
  ASSUME FeedTypes, FeedBounds, NEW r \in Recordings, RecorderThread(r) \/ WriteFails(r)
  PROVE  FeedBounds'
  <1>1. PICK q \in Seq(Messages) : q = queue[r]
    BY DEF FeedTypes
  <1>2. Len(<<>>) <= QueueSize /\ QueueSize \in Nat
    BY RecorderAssumption
  <1>3. /\ link' = link
        /\ \/ queue' = queue \/ queue' = [queue EXCEPT ![r] = <<>>]
           \/ q # <<>> /\ queue' = [queue EXCEPT ![r] = Tail(q)]
    BY <1>1 DEF RecorderThread, Write, Drain, SeeStop, Close, WriteFails, Handle, Ends, feedVars
  <1>4. q # <<>> => Len(Tail(q)) <= QueueSize
    <2>1. Len(q) <= QueueSize /\ q \in Seq(Messages)
      BY <1>1 DEF FeedBounds
    <2>2. q # <<>> => Len(Tail(q)) = Len(q) - 1 /\ Len(q) \in Nat
      BY <2>1
    <2> QED
      BY <1>2, <2>1, <2>2
  <1> QED
    BY <1>2, <1>3, <1>4 DEF FeedBounds, FeedTypes

LEMMA StepBounds ==
  ASSUME AppTypes, Ownership, FeedTypes, FeedBounds, [Next]_vars
  PROVE  FeedBounds'
  <1>1. CASE UNCHANGED <<link, queue>>
    BY <1>1 DEF FeedBounds
  <1>2. \/ \E m \in Messages : Publish(m)
        \/ \E r \in Recordings : RecorderThread(r) \/ WriteFails(r)
        \/ UNCHANGED <<link, queue>>
    BY FeedKinds DEF RecordStart, StopTake, FinishRecording, feedVars
  <1> QED
    BY <1>1, <1>2, PublishBounds, ThreadBounds

\* The extension's part.
News == [what : {"status", "returned", "failed", "recording"}, id : Calls, live : BOOLEAN]

ExtensionTypes ==
  /\ current \in [id : Connects \union {None}, live : BOOLEAN]
  /\ debug \in [Launches -> {"idle", "releasing", "resolved", "running", "over"}]
  /\ asked \in [Launches -> SUBSET Disconnects]
  /\ pipe \in Seq(News)

LEMMA NextOfIs ==
  ASSUME NEW calls, NEW c \in NextOf(calls)
  PROVE  c \in calls
  BY DEF NextOf

LEMMA StepExtension ==
  ASSUME ExtensionTypes, [Next]_vars
  PROVE  ExtensionTypes'
  <1> USE DEF ExtensionTypes
  <1>1. ASSUME NEW c \in Connects, ClientConnect(c) PROVE ExtensionTypes'
    BY <1>1 DEF ClientConnect
  <1>2. CASE UNCHANGED extVars
    BY <1>2 DEF extVars
  <1>3. CASE Read
    <2>1. Head(pipe) \in News /\ Tail(pipe) \in Seq(News)
      BY <1>3 DEF Read
    <2>2. Head(pipe).live \in BOOLEAN
      BY <2>1 DEF News
    <2>3. current' \in {current, [current EXCEPT !.live = Head(pipe).live]}
      BY <1>3 DEF Read
    <2> QED
      BY <1>3, <2>1, <2>2, <2>3 DEF Read
  <1>4. ASSUME NEW g \in Launches, Resolves(g) \/ Starts(g) \/ Terminates(g) PROVE ExtensionTypes'
    <2>1. /\ UNCHANGED <<current, pipe>>
          /\ \E to \in {"releasing", "resolved", "running", "over"} : debug' = [debug EXCEPT ![g] = to]
      BY <1>4 DEF Resolves, Starts, Terminates, Debug
    <2>2. asked' = asked \/ \E d \in Disconnects : asked' = [asked EXCEPT ![g] = @ \union {d}]
      BY <1>4, NextOfIs DEF Resolves, Starts, Terminates, Release, NoRelease
    <2>3. asked' \in [Launches -> SUBSET Disconnects]
      BY <2>2
    <2> QED
      BY <2>1, <2>3
  <1>5. CASE Serve(AppNext)
    <2>1. Statuses \union Answers \union Failures \union Reports \subseteq News
      <3>1. \A what \in {"status", "returned", "failed", "recording"}, c \in Calls, b \in BOOLEAN :
              [what |-> what, id |-> c, live |-> b] \in News
        BY DEF News
      <3>2. Statuses \subseteq News
        BY <3>1, CallsApart DEF Statuses
      <3>3. ASSUME NEW c \in Calls, NEW live \in BOOLEAN
            PROVE  /\ [what |-> "returned", id |-> c, live |-> live] \in News
                   /\ [what |-> "failed", id |-> c, live |-> live] \in News
                   /\ [what |-> "recording", id |-> c, live |-> live] \in News
        BY DEF News
      <3>4. Answers \subseteq News
        BY <3>3, CallsApart, Zenon DEF Answers
      <3>5. Failures \subseteq News
        BY <3>3, CallsApart, Zenon DEF Failures
      <3>6. Reports \subseteq News
        <4>1. \A c \in Recordings : c \in Calls /\ (writer'[c] = "records") \in BOOLEAN
          BY CallsApart
        <4>2. \A c \in Recordings : [what |-> "recording", id |-> c, live |-> writer'[c] = "records"] \in News
          BY <3>3, <4>1, Zenon
        <4> QED
          BY <4>2, Zenon DEF Reports
      <3> QED
        BY <3>2, <3>4, <3>5, <3>6
    <2>2. UNCHANGED <<current, debug, asked>> /\ (pipe' = pipe \/ \E m \in News : pipe' = Append(pipe, m))
      BY <1>5, <2>1 DEF Serve
    <2> QED
      BY <2>2
  <1> QED
    BY <1>1, <1>2, <1>3, <1>4, <1>5, NextOfIs DEF Next, ClientOpen, ClientOther, vars, Connects

\* Every variable keeps its type, and no recorder's queue is ever fuller than it may
\* be.
THEOREM TypeCorrect == Spec => []TypeOK
  <1>1. Init => FeedBounds /\ ExtensionTypes
    <2>1. Len(<<>>) <= QueueSize /\ <<>> \in Seq(News)
      BY RecorderAssumption
    <2> QED
      BY <2>1 DEF Init, AppInit, RecorderInit, FeedBounds, ExtensionTypes
  <1>2. ServerInvariant /\ FeedBounds /\ ExtensionTypes /\ [Next]_vars => FeedBounds' /\ ExtensionTypes'
    BY StepBounds, StepExtension DEF ServerInvariant
  <1>3. ServerInvariant /\ FeedBounds /\ ExtensionTypes => TypeOK
    <2> SUFFICES ASSUME ServerInvariant, FeedBounds, ExtensionTypes PROVE TypeOK
      OBVIOUS
    <2> USE DEF ServerInvariant
    <2>1. RecorderTypeOK
      BY DEF RecorderTypeOK, FeedTypes, FeedBounds, WaitTypes, Locks
    <2>2. Len(setting) <= 1
      <3>1. setting = <<>> \/ \E s \in Settings : setting = <<s>>
        BY DEF AppTypes
      <3>2. Len(<<>>) <= 1
        OBVIOUS
      <3>3. \A s : Len(<<s>>) <= 1
        OBVIOUS
      <3> QED
        BY <3>1, <3>2, <3>3, Zenon
    <2>3. AppTypeOK
      BY <2>1, <2>2 DEF AppTypeOK, AppTypes, SessionStates, ItemSets, Tolds
    <2> QED
      BY <2>3 DEF TypeOK, ExtensionTypes
  <1> QED
    BY <1>1, <1>2, <1>3, InitServer, StepServer, PTL DEF Spec
==============================================================================
