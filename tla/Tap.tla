--------------------------------- MODULE Tap ---------------------------------
(***************************************************************************)
(* The tap (studio-core/src/tap.rs) in front of the UI's sink: the session *)
(* thread publishes its batches and events to it, the UI thread the list   *)
(* of watches it shows, and every subscriber has a bounded queue that      *)
(* publishing never waits for.                                             *)
(*                                                                         *)
(* A list of watches gives names to ids, in order; the session only knows  *)
(* the ids, and hears of a new list before the tap does (StudioApp::       *)
(* set_watches, whose callers are served one after the other).  A batch is *)
(* known by the ids of its columns.  Ids within a list are distinct (the UI *)
(* counts them up), and so are names.                                      *)
(***************************************************************************)
EXTENDS Integers, Sequences, Functions

CONSTANTS
  Ids, Names,   \* watch ids and the names given to them
  Lists,        \* lists of watches the UI may show: sequences of id and name
  Subscribers,  \* who may subscribe to the tap
  Capacity,     \* messages queued per subscriber
  MaxBatches,   \* bound on the batches flushed
  MaxChanges    \* bound on the lists given and the changes of the link

Unnamed == "unnamed"
Watch == [id : Ids, name : Names \union {Unnamed}]

ASSUME TapAssumption ==
  /\ \A l \in Lists : l \in Seq([id : Ids, name : Names]) /\ IsInjective([k \in DOMAIN l |-> l[k].id])
  /\ Capacity \in Nat \ {0} /\ MaxBatches \in Nat /\ MaxChanges \in Nat

VARIABLES
  want,        \* ids the session was asked to sample
  giving,      \* a list on the way from the session to the tap, in a sequence
  sampling,    \* ids of the session's batches
  link,        \* LinkState, as last published
  watches,     \* the list last given to set_watches
  meta,        \* the name last given to each id
  batchSet,    \* the columns of the last batch, in a sequence, while they hold
  subscribed,  \* who subscribes
  queue,       \* the messages queued for each
  lost,        \* Drops.batches of each
  flushed,     \* batches so far, and
  named,       \* whether the last one got the names last given (history)
  changes

appVars == <<want, giving, sampling>>
tapVars == <<link, watches, meta, batchSet>>
subVars == <<subscribed, queue, lost>>
tapAll == <<appVars, tapVars, subVars, flushed, named, changes>>

IdsOf(set) == [k \in DOMAIN set |-> set[k].id]
Named(ids) == [k \in DOMAIN ids |-> [id |-> ids[k], name |-> meta[ids[k]]]]

HasRoom(s) == Len(queue[s]) < Capacity

\* publish: what does not fit is dropped, and counted if it is a batch.
Publish(message) ==
  /\ queue' = [s \in Subscribers |-> IF s \in subscribed /\ HasRoom(s)
                                     THEN Append(queue[s], message) ELSE queue[s]]
  /\ lost' = [s \in Subscribers |-> IF s \in subscribed /\ ~HasRoom(s) /\ message.kind = "samples"
                                    THEN lost[s] + 1 ELSE lost[s]]
  /\ UNCHANGED subscribed

\* The app hands the ids of a new list to the session, if they differ,
SetWatches ==
  /\ giving = <<>> /\ changes < MaxChanges
  /\ \E l \in Lists : giving' = <<l>> /\ want' = IdsOf(l)
  /\ changes' = changes + 1
  /\ UNCHANGED <<sampling, tapVars, subVars, flushed, named>>

\* Mutant: columns worked out before the names changed are used again.
Forgotten_Kept == batchSet

\* The next batch's columns are worked out anew.
Forgotten == <<>>

\* and then the list to the tap.  While sampling, subscribers learn of new ids
\* with the first batch that has them.
GiveWatches ==
  /\ giving # <<>>
  /\ giving' = <<>>
  /\ LET set == Head(giving)
         renamed == IdsOf(set) = IdsOf(watches)
     IN  /\ meta' = [i \in Ids |-> IF \E k \in DOMAIN set : set[k].id = i
                                   THEN set[CHOOSE k \in DOMAIN set : set[k].id = i].name
                                   ELSE meta[i]]
         /\ \/ set = watches /\ UNCHANGED <<watches, batchSet, subVars>>
            \/ /\ set # watches
               /\ watches' = set /\ batchSet' = Forgotten
               /\ IF link # "connected" \/ renamed
                  THEN Publish([kind |-> "watches", set |-> set]) ELSE UNCHANGED subVars
  /\ UNCHANGED <<want, sampling, link, flushed, named, changes>>

\* The session takes up the ids it was asked for, its batch flushed.
Resample ==
  /\ link = "connected" /\ sampling # want
  /\ sampling' = want
  /\ UNCHANGED <<want, giving, tapVars, subVars, flushed, named, changes>>

\* The columns of a batch with these ids.
Columns(ids) ==
  IF batchSet # <<>> /\ IdsOf(Head(batchSet)) = ids THEN Head(batchSet)
  ELSE IF IdsOf(watches) = ids THEN watches
  ELSE Named(ids)

\* Tap::samples, for a batch the session flushes.
Samples ==
  /\ link = "connected" /\ sampling # <<>> /\ flushed < MaxBatches
  /\ LET set == Columns(sampling)
     IN  /\ batchSet' = <<set>>
         /\ named' = (set = Named(sampling))
         /\ Publish([kind |-> "samples", set |-> set])
  /\ flushed' = flushed + 1
  /\ UNCHANGED <<appVars, link, watches, meta, changes>>

\* Tap::event for a Status: a session begins with the watches last asked for.
Status ==
  /\ changes < MaxChanges /\ changes' = changes + 1
  /\ link' = IF link = "connected" THEN "disconnected" ELSE "connected"
  /\ sampling' = IF link = "connected" THEN <<>> ELSE want
  /\ Publish([kind |-> "status"])
  /\ UNCHANGED <<want, giving, watches, meta, batchSet, flushed, named>>

\* Tap::subscribe and the end of a subscription.
Subscribe(s) ==
  /\ subscribed' = subscribed \union {s}
  /\ queue' = [queue EXCEPT ![s] = <<>>] /\ lost' = [lost EXCEPT ![s] = 0]

Unsubscribe(s) ==
  /\ subscribed' = subscribed \ {s}
  /\ queue' = [queue EXCEPT ![s] = <<>>]
  /\ UNCHANGED lost

Received(s) ==
  /\ queue[s] # <<>>
  /\ queue' = [queue EXCEPT ![s] = Tail(@)]
  /\ UNCHANGED <<subscribed, lost>>

TapInit ==
  /\ want = <<>> /\ giving = <<>> /\ sampling = <<>>
  /\ link = "disconnected" /\ watches = <<>> /\ batchSet = <<>>
  /\ meta = [i \in Ids |-> Unnamed]
  /\ subscribed = {} /\ queue = [s \in Subscribers |-> <<>>] /\ lost = [s \in Subscribers |-> 0]
  /\ flushed = 0 /\ named = TRUE /\ changes = 0

TapNext == SetWatches \/ GiveWatches \/ Resample \/ Samples \/ Status

Sets == Seq(Watch)

TapTypeOK ==
  /\ want \in Seq(Ids) /\ sampling \in Seq(Ids)
  /\ Len(giving) <= 1 /\ \A k \in DOMAIN giving : giving[k] \in Lists
  /\ link \in {"disconnected", "connected"}
  /\ watches \in Sets /\ Len(batchSet) <= 1 /\ \A k \in DOMAIN batchSet : batchSet[k] \in Sets
  /\ meta \in [Ids -> Names \union {Unnamed}]
  /\ subscribed \subseteq Subscribers
  /\ \A s \in Subscribers : Len(queue[s]) <= Capacity /\ (queue[s] # <<>> => s \in subscribed)
  /\ lost \in [Subscribers -> Nat] /\ flushed \in 0 .. MaxBatches

\* Each batch is published under the names last given to its ids, whatever
\* columns were worked out for an earlier one (batch_set, set_watches).
LatestNames == named
==============================================================================
