----------------------------- MODULE StreamProofs -----------------------------
(***************************************************************************)
(* The tap and the live stream behind it, for any watches, lists, clients  *)
(* and capacities: a batch has the names last given to its ids, a client   *)
(* knows the columns of what it is sent, what it is sent and told it lost  *)
(* adds up, the drops shown never fall, every batch flushed is numbered,   *)
(* queued or counted as lost, and no queue holds more than it may.         *)
(***************************************************************************)
EXTENDS Stream, SequenceTheorems, FiniteSetTheorems, WellFoundedInduction, TLAPS

------------------------------------------------------------------------------
(* The tap's state, and what its steps do *)

Messages == [kind : {"samples", "watches"}, set : Sets] \union [kind : {"status"}]

TapTypes ==
  /\ want \in Seq(Ids) /\ sampling \in Seq(Ids)
  /\ giving \in Seq(Lists)
  /\ watches \in Sets /\ batchSet \in Seq(Sets)
  /\ meta \in [Ids -> Names \union {Unnamed}]
  /\ queue \in [Subscribers -> Seq(Messages)] /\ lost \in [Subscribers -> Nat]

LEMMA SeqIs ==
  ASSUME NEW S, NEW s \in Seq(S)
  PROVE  DOMAIN s = 1 .. Len(s) /\ Len(s) \in Nat /\ \A k \in 1 .. Len(s) : s[k] \in S
  OBVIOUS

LEMMA JoinedOne ==
  ASSUME NEW S, NEW s \in Seq(S), NEW n \in S
  PROVE  <<n>> \in Seq(S) /\ <<n>> \o s \in Seq(S)
  <1>a. <<n>> \in Seq(S)
    OBVIOUS
  <1> PICK m \in Seq(S) : m = <<n>>
    BY <1>a
  <1>1. m \o s \in Seq(S)
    BY ConcatProperties
  <1> QED
    BY <1>1

LEMMA Joined ==
  ASSUME NEW S, NEW s \in Seq(S), NEW t \in Seq(S), NEW n \in S
  PROVE  /\ <<n>> \in Seq(S) /\ s \o t \in Seq(S) /\ <<n>> \o s \in Seq(S)
         /\ <<>> \o s = s /\ s \o <<>> = s
         /\ <<n>> \o s \o t = <<n>> \o (s \o t)
  <1>1. <<n>> \in Seq(S) /\ s \o t \in Seq(S)
    OBVIOUS
  <1>2. <<>> \o s = s /\ s \o <<>> = s
    BY ConcatEmptySeq
  <1> PICK m \in Seq(S) : m = <<n>>
    BY <1>1
  <1>3. m \o s \in Seq(S) /\ m \o s \o t = m \o (s \o t)
    BY ConcatProperties, ConcatAssociative
  <1> QED
    BY <1>1, <1>2, <1>3

LEMMA PairIs ==
  ASSUME NEW S, NEW v \in S, NEW w \in S
  PROVE  <<v>> \o <<w>> = <<v, w>>
  <1>a. <<v>> \in Seq(S) /\ <<w>> \in Seq(S) /\ <<v, w>> \in Seq(S)
    OBVIOUS
  <1> PICK s \in Seq(S), t \in Seq(S), u \in Seq(S) : s = <<v>> /\ t = <<w>> /\ u = <<v, w>>
    BY <1>a
  <1>1. Len(s) = 1 /\ Len(t) = 1 /\ Len(u) = 2 /\ s[1] = v /\ t[1] = w /\ u[1] = v /\ u[2] = w
    OBVIOUS
  <1> PICK r \in Seq(S) : r = s \o t
    BY ConcatProperties
  <1>2. Len(r) = 2 /\ r[1] = v /\ r[2] = w
    BY <1>1, ConcatProperties
  <1>3. \A k \in 1 .. Len(r) : r[k] = u[k]
    <2>1. \A k \in 1 .. 2 : k = 1 \/ k = 2
      OBVIOUS
    <2> QED
      BY <1>1, <1>2, <2>1
  <1>4. r = u
    BY <1>1, <1>2, <1>3, SeqEqual, Zenon
  <1> QED
    BY <1>4

\* A list has names for its ids, in one way.
LEMMA ListIs ==
  ASSUME NEW l \in Lists
  PROVE  /\ l \in Sets /\ IdsOf(l) \in Seq(Ids)
         /\ \A j, k \in DOMAIN l : l[j].id = l[k].id => j = k
  <1> PICK S : S = [id : Ids, name : Names]
    OBVIOUS
  <1>1. l \in Seq(S)
    BY TapAssumption
  <1>2. DOMAIN l = 1 .. Len(l) /\ Len(l) \in Nat /\ \A k \in 1 .. Len(l) : l[k] \in S
    BY <1>1, SeqIs, Zenon
  <1>3. \A w \in S : w \in Watch /\ w.id \in Ids
    BY DEF Watch
  <1>a. l \in Sets
    BY <1>1, <1>2, <1>3 DEF Sets
  <1>b. IdsOf(l) \in Seq(Ids)
    BY <1>2, <1>3 DEF IdsOf
  <1> DEFINE f == [k \in DOMAIN l |-> l[k].id]
  <1>4. \A j, k \in DOMAIN f : f[j] = f[k] => j = k
    BY TapAssumption DEF IsInjective
  <1> QED
    BY <1>a, <1>b, <1>4

LEMMA SetIs ==
  ASSUME NEW s \in Sets
  PROVE  /\ IdsOf(s) \in Seq(Ids) /\ DOMAIN IdsOf(s) = DOMAIN s /\ DOMAIN s = 1 .. Len(s)
         /\ \A k \in DOMAIN s : s[k] \in Watch /\ s[k].id \in Ids /\ IdsOf(s)[k] = s[k].id
  <1>1. DOMAIN s = 1 .. Len(s) /\ Len(s) \in Nat /\ \A k \in 1 .. Len(s) : s[k] \in Watch
    BY DEF Sets
  <1>2. \A w \in Watch : w.id \in Ids
    BY DEF Watch
  <1> QED
    BY <1>1, <1>2 DEF IdsOf

LEMMA NamedIs ==
  ASSUME NEW ids \in Seq(Ids), meta \in [Ids -> Names \union {Unnamed}]
  PROVE  /\ Named(ids) \in Sets /\ IdsOf(Named(ids)) = ids /\ DOMAIN Named(ids) = DOMAIN ids
         /\ \A k \in DOMAIN ids : Named(ids)[k] = [id |-> ids[k], name |-> meta[ids[k]]]
  <1>1. DOMAIN ids = 1 .. Len(ids) /\ Len(ids) \in Nat /\ \A k \in 1 .. Len(ids) : ids[k] \in Ids
    OBVIOUS
  <1>2. \A k \in 1 .. Len(ids) : [id |-> ids[k], name |-> meta[ids[k]]] \in Watch
    BY <1>1 DEF Watch
  <1>3. Named(ids) = [k \in 1 .. Len(ids) |-> [id |-> ids[k], name |-> meta[ids[k]]]]
    BY <1>1 DEF Named
  <1>4. Named(ids) \in Sets
    BY <1>1, <1>2, <1>3 DEF Sets
  <1>5. IdsOf(Named(ids)) = [k \in 1 .. Len(ids) |-> ids[k]]
    BY <1>3 DEF IdsOf
  <1>6. ids = [k \in 1 .. Len(ids) |-> ids[k]]
    BY <1>1
  <1> QED
    BY <1>1, <1>3, <1>4, <1>5, <1>6

\* What is published joins the queues as a message, or is lost.
LEMMA PublishIs ==
  ASSUME TapTypes, NEW message \in Messages, Publish(message)
  PROVE  queue' \in [Subscribers -> Seq(Messages)] /\ lost' \in [Subscribers -> Nat]
  <1>1. \A s \in Subscribers : queue'[s] \in {queue[s], Append(queue[s], message)}
    BY DEF Publish
  <1>2. \A s \in Subscribers : lost'[s] \in {lost[s], lost[s] + 1}
    BY DEF Publish
  <1>3. queue' \in [Subscribers -> Seq(Messages)]
    <2>1. ASSUME NEW s \in Subscribers PROVE queue'[s] \in Seq(Messages)
      <3>1. queue[s] \in Seq(Messages)
        BY DEF TapTypes
      <3> QED
        BY <1>1, <3>1
    <2> QED
      BY <2>1 DEF Publish
  <1>4. lost' \in [Subscribers -> Nat]
    <2>1. \A s \in Subscribers : lost'[s] \in Nat
      BY <1>2 DEF TapTypes
    <2> QED
      BY <2>1 DEF Publish
  <1> QED
    BY <1>3, <1>4

------------------------------------------------------------------------------
(* A batch has the names last given to its ids *)

\* The list shown, and the columns kept for the next batch, are what the names
\* last given make of their ids.
LastNames ==
  /\ watches = Named(IdsOf(watches))
  /\ \A k \in DOMAIN batchSet : batchSet[k] = Named(IdsOf(batchSet[k]))
  /\ named

\* Two lists of watches are equal if they have the same ids and each name is
\* the one last given to its id.
LEMMA SetEqual ==
  ASSUME NEW s \in Sets, meta \in [Ids -> Names \union {Unnamed}],
         \A k \in DOMAIN s : s[k].name = meta[s[k].id]
  PROVE  s = Named(IdsOf(s))
  <1>1. /\ IdsOf(s) \in Seq(Ids) /\ DOMAIN IdsOf(s) = DOMAIN s /\ DOMAIN s = 1 .. Len(s)
        /\ \A k \in DOMAIN s : s[k] \in Watch /\ s[k].id \in Ids /\ IdsOf(s)[k] = s[k].id
    BY SetIs
  <1>2. \A k \in DOMAIN s : s[k] = [id |-> s[k].id, name |-> meta[s[k].id]]
    BY <1>1 DEF Watch
  <1>3. s = [k \in DOMAIN s |-> s[k]]
    BY DEF Sets
  <1> QED
    BY <1>1, <1>2, <1>3 DEF Named

LEMMA NameIs ==
  ASSUME NEW s \in Sets, meta \in [Ids -> Names \union {Unnamed}], s = Named(IdsOf(s))
  PROVE  \A k \in DOMAIN s : s[k].id \in Ids /\ s[k].name = meta[s[k].id]
  <1> PICK ids : ids = IdsOf(s)
    OBVIOUS
  <1>1. ids \in Seq(Ids) /\ DOMAIN ids = DOMAIN s /\ \A k \in DOMAIN s : s[k].id \in Ids /\ ids[k] = s[k].id
    BY SetIs
  <1>2. \A k \in DOMAIN ids : Named(ids)[k] = [id |-> ids[k], name |-> meta[ids[k]]]
    BY <1>1, NamedIs
  <1>3. \A k \in DOMAIN s : s[k] = [id |-> ids[k], name |-> meta[ids[k]]]
    BY <1>1, <1>2
  <1> QED
    BY <1>1, <1>3

\* The columns of a batch are its ids under these names.
LEMMA ColumnsNamed ==
  ASSUME TapTypes, LastNames, NEW ids \in Seq(Ids)
  PROVE  Columns(ids) \in Sets /\ Columns(ids) = Named(ids)
  <1>1. Named(ids) \in Sets
    BY NamedIs DEF TapTypes
  <1>2. CASE batchSet # <<>> /\ IdsOf(Head(batchSet)) = ids
    <2>1. 1 \in DOMAIN batchSet /\ Head(batchSet) = batchSet[1]
      BY <1>2 DEF TapTypes
    <2> QED
      BY <1>1, <1>2, <2>1 DEF Columns, LastNames
  <1>3. CASE ~(batchSet # <<>> /\ IdsOf(Head(batchSet)) = ids)
    BY <1>1, <1>3 DEF Columns, LastNames
  <1> QED
    BY <1>2, <1>3

LEMMA GivenIs ==
  ASSUME TapTypes, LastNames, GiveWatches
  PROVE  TapTypes' /\ LastNames'
  <1> PICK set : set = Head(giving)
    OBVIOUS
  <1>1. set \in Lists /\ set \in Sets /\ \A j, k \in DOMAIN set : set[j].id = set[k].id => j = k
    BY ListIs DEF GiveWatches, TapTypes
  <1>2. /\ giving' = <<>> /\ UNCHANGED <<want, sampling, named>>
        /\ meta' = [i \in Ids |-> IF \E k \in DOMAIN set : set[k].id = i
                                  THEN set[CHOOSE k \in DOMAIN set : set[k].id = i].name
                                  ELSE meta[i]]
        /\ \/ set = watches /\ UNCHANGED <<watches, batchSet, queue, lost>>
           \/ set # watches /\ watches' = set /\ batchSet' = <<>>
    BY DEF GiveWatches, Forgotten, subVars
  <1>a. named'
    BY Zenon DEF GiveWatches, LastNames
  <1>3. \A k \in DOMAIN set : set[k] \in Watch /\ set[k].id \in Ids /\ set[k].name \in Names \union {Unnamed}
    BY <1>1, SetIs DEF Watch
  <1>4. \A k \in DOMAIN set : meta'[set[k].id] = set[k].name
    <2> SUFFICES ASSUME NEW k \in DOMAIN set PROVE meta'[set[k].id] = set[k].name
      OBVIOUS
    <2> PICK j : j = CHOOSE h \in DOMAIN set : set[h].id = set[k].id
      OBVIOUS
    <2>1. j \in DOMAIN set /\ set[j].id = set[k].id
      OBVIOUS
    <2>2. j = k
      BY <1>1, <2>1
    <2> QED
      BY <1>2, <1>3, <2>2
  <1>5. meta' \in [Ids -> Names \union {Unnamed}]
    <2>1. ASSUME NEW i \in Ids PROVE meta'[i] \in Names \union {Unnamed}
      <3>1. CASE \E k \in DOMAIN set : set[k].id = i
        <4>1. PICK k \in DOMAIN set : set[k].id = i
          BY <3>1
        <4> QED
          BY <1>3, <1>4, <4>1
      <3>2. CASE ~\E k \in DOMAIN set : set[k].id = i
        BY <1>2, <3>2 DEF TapTypes
      <3> QED
        BY <3>1, <3>2
    <2> QED
      BY <1>2, <2>1
  <1>6. queue' \in [Subscribers -> Seq(Messages)] /\ lost' \in [Subscribers -> Nat]
    <2>1. UNCHANGED <<queue, lost>> \/ Publish([kind |-> "watches", set |-> set])
      BY DEF GiveWatches, subVars
    <2>2. [kind |-> "watches", set |-> set] \in Messages
      BY <1>1 DEF Messages
    <2>3. CASE Publish([kind |-> "watches", set |-> set])
      BY <2>2, <2>3, PublishIs
    <2>4. CASE UNCHANGED <<queue, lost>>
      BY <2>4 DEF TapTypes
    <2> QED
      BY <2>1, <2>3, <2>4
  <1>7. TapTypes'
    <2>1. giving' \in Seq(Lists) /\ want' \in Seq(Ids) /\ sampling' \in Seq(Ids)
      BY <1>2 DEF TapTypes
    <2>2. watches' \in Sets /\ batchSet' \in Seq(Sets)
      <3>1. watches \in Sets /\ batchSet \in Seq(Sets) /\ <<>> \in Seq(Sets)
        BY DEF TapTypes
      <3> QED
        BY <1>1, <1>2, <3>1
    <2> QED
      BY <1>5, <1>6, <2>1, <2>2 DEF TapTypes
  <1>8. CASE set # watches /\ watches' = set /\ batchSet' = <<>>
    <2>1. watches' = Named(IdsOf(watches))'
      <3>1. set = [k \in DOMAIN set |-> [id |-> set[k].id, name |-> meta'[set[k].id]]]
        <4>1. \A k \in DOMAIN set : set[k] = [id |-> set[k].id, name |-> meta'[set[k].id]]
          BY <1>3, <1>4 DEF Watch
        <4> QED
          BY <1>1, <4>1 DEF Sets
      <3> QED
        BY <1>8, <3>1 DEF Named, IdsOf
    <2>2. \A k \in DOMAIN batchSet' : batchSet'[k] = Named(IdsOf(batchSet[k]))'
      <3>1. DOMAIN batchSet' = {}
        BY <1>8
      <3> QED
        BY <3>1
    <2> QED
      BY <1>7, <1>a, <2>1, <2>2 DEF LastNames
  <1>9. CASE set = watches /\ UNCHANGED <<watches, batchSet, queue, lost>>
    <2>1. \A k \in DOMAIN watches : watches[k].name = meta[watches[k].id]
      BY <1>1, <1>9, NameIs DEF LastNames, TapTypes
    <2>2. \A i \in Ids : meta'[i] = meta[i]
      <3> SUFFICES ASSUME NEW i \in Ids PROVE meta'[i] = meta[i]
        OBVIOUS
      <3>1. CASE \E k \in DOMAIN set : set[k].id = i
        <4>1. PICK k \in DOMAIN set : set[k].id = i
          BY <3>1
        <4> QED
          BY <1>4, <1>9, <2>1, <4>1
      <3>2. CASE ~\E k \in DOMAIN set : set[k].id = i
        BY <1>2, <3>2
      <3> QED
        BY <3>1, <3>2
    <2>3. meta' = meta
      BY <1>5, <2>2 DEF TapTypes
    <2>4. watches' = Named(IdsOf(watches))'
      BY <1>9, <2>3 DEF LastNames, Named, IdsOf
    <2>5. \A k \in DOMAIN batchSet' : batchSet'[k] = Named(IdsOf(batchSet[k]))'
      BY <1>9, <2>3 DEF LastNames, Named, IdsOf
    <2> QED
      BY <1>7, <1>a, <2>4, <2>5 DEF LastNames
  <1> QED
    BY <1>2, <1>7, <1>8, <1>9

LEMMA SamplesIs ==
  ASSUME TapTypes, LastNames, Samples
  PROVE  TapTypes' /\ LastNames'
  <1> PICK set : set = Columns(sampling)
    OBVIOUS
  <1>1. set \in Sets /\ set = Named(sampling) /\ IdsOf(set) = sampling
    BY ColumnsNamed, NamedIs DEF TapTypes
  <1>2. /\ batchSet' = <<set>> /\ named' = (set = Named(sampling))
        /\ UNCHANGED <<want, giving, sampling, watches, meta>>
        /\ Publish([kind |-> "samples", set |-> set])
    BY DEF Samples, appVars
  <1>3. queue' \in [Subscribers -> Seq(Messages)] /\ lost' \in [Subscribers -> Nat]
    <2>1. [kind |-> "samples", set |-> set] \in Messages
      BY <1>1 DEF Messages
    <2> QED
      BY <1>2, <2>1, PublishIs
  <1>4. TapTypes'
    BY <1>1, <1>2, <1>3 DEF TapTypes
  <1>5. LastNames'
    <2>1. \A k \in DOMAIN batchSet' : batchSet'[k] = set
      BY <1>2
    <2>2. Named(IdsOf(set))' = Named(IdsOf(set)) /\ Named(IdsOf(watches))' = Named(IdsOf(watches))
      BY <1>2 DEF Named, IdsOf
    <2>3. \A k \in DOMAIN batchSet' : batchSet'[k] = Named(IdsOf(batchSet[k]))'
      BY <1>1, <1>2, <2>1 DEF Named, IdsOf
    <2> QED
      BY <1>1, <1>2, <2>2, <2>3 DEF LastNames
  <1> QED
    BY <1>4, <1>5

\* The tap's own steps.
LEMMA TapStep ==
  ASSUME TapTypes, LastNames, TapNext
  PROVE  TapTypes' /\ LastNames'
  <1>1. CASE SetWatches
    <2>1. PICK l \in Lists : giving' = <<l>> /\ want' = IdsOf(l)
      BY <1>1 DEF SetWatches
    <2>2. UNCHANGED <<sampling, watches, meta, batchSet, queue, lost>>
      BY <1>1 DEF SetWatches, tapVars, subVars
    <2>3. named'
      BY <1>1, Zenon DEF SetWatches, LastNames
    <2>4. TapTypes'
      BY <2>1, <2>2, ListIs DEF TapTypes
    <2> QED
      BY <2>2, <2>3, <2>4 DEF LastNames, Named, IdsOf
  <1>2. CASE GiveWatches
    BY <1>2, GivenIs
  <1>3. CASE Resample
    <2>1. sampling' = want /\ UNCHANGED <<want, giving, watches, meta, batchSet, queue, lost>>
      BY <1>3 DEF Resample, tapVars, subVars
    <2>2. named'
      BY <1>3, Zenon DEF Resample, LastNames
    <2>3. TapTypes'
      BY <2>1 DEF TapTypes
    <2> QED
      BY <2>1, <2>2, <2>3 DEF LastNames, Named, IdsOf
  <1>4. CASE Samples
    BY <1>4, SamplesIs
  <1>5. CASE Status
    <2>1. /\ sampling' \in {<<>>, want} /\ UNCHANGED <<want, giving, watches, meta, batchSet>>
          /\ Publish([kind |-> "status"])
      BY <1>5 DEF Status
    <2>2. named'
      BY <1>5, Zenon DEF Status, LastNames
    <2>3. queue' \in [Subscribers -> Seq(Messages)] /\ lost' \in [Subscribers -> Nat]
      <3>1. [kind |-> "status"] \in Messages
        BY DEF Messages
      <3> QED
        BY <2>1, <3>1, PublishIs
    <2>4. TapTypes'
      <3>1. sampling' \in Seq(Ids) /\ UNCHANGED <<want, giving, watches, meta, batchSet>>
        <4>1. want \in Seq(Ids) /\ <<>> \in Seq(Ids)
          BY DEF TapTypes
        <4> QED
          BY <2>1, <4>1
      <3> QED
        BY <2>3, <3>1 DEF TapTypes
    <2> QED
      BY <2>1, <2>2, <2>4 DEF LastNames, Named, IdsOf
  <1> QED
    BY <1>1, <1>2, <1>3, <1>4, <1>5 DEF TapNext

\* Steps that leave the tap alone but for its queues.
LEMMA TapKept ==
  ASSUME TapTypes, LastNames, UNCHANGED <<appVars, tapVars, named>>,
         queue' \in [Subscribers -> Seq(Messages)], lost' \in [Subscribers -> Nat]
  PROVE  TapTypes' /\ LastNames'
  <1>1. UNCHANGED <<want, giving, sampling, watches, meta, batchSet>>
    BY DEF appVars, tapVars
  <1>2. named'
    BY Zenon DEF LastNames
  <1>3. TapTypes'
    BY <1>1 DEF TapTypes
  <1> QED
    BY <1>1, <1>2, <1>3 DEF LastNames, Named, IdsOf

\* The fan-out's steps at its subscription.
LEMMA SubscriptionIs ==
  ASSUME TapTypes, Subscribe("stream") \/ Unsubscribe("stream") \/ Received("stream")
  PROVE  queue' \in [Subscribers -> Seq(Messages)] /\ lost' \in [Subscribers -> Nat]
  <1>1. "stream" \in Subscribers /\ queue["stream"] \in Seq(Messages)
    BY StreamAssumption DEF TapTypes
  <1>2. CASE Subscribe("stream")
    BY <1>1, <1>2 DEF Subscribe, TapTypes
  <1>3. CASE Unsubscribe("stream")
    BY <1>1, <1>3 DEF Unsubscribe, TapTypes
  <1>4. CASE Received("stream")
    <2>1. Tail(queue["stream"]) \in Seq(Messages)
      BY <1>1, <1>4 DEF Received
    <2> QED
      BY <1>1, <1>4, <2>1 DEF Received, TapTypes
  <1> QED
    BY <1>2, <1>3, <1>4

LEMMA StepTap ==
  ASSUME TapTypes, LastNames, [Next]_vars
  PROVE  TapTypes' /\ LastNames'
  <1>1. CASE TapNext
    BY <1>1, TapStep
  <1>2. CASE Start \/ Stop \/ Take
    <2>1. UNCHANGED <<appVars, tapVars, named>>
      BY <1>2 DEF Start, Stop, Take
    <2>2. Subscribe("stream") \/ Unsubscribe("stream") \/ Received("stream")
      BY <1>2 DEF Start, Stop, Take
    <2> QED
      BY <2>1, <2>2, SubscriptionIs, TapKept
  <1>3. CASE UNCHANGED tapAll
    <2>1. UNCHANGED <<appVars, tapVars, named, queue, lost>>
      BY <1>3 DEF tapAll, subVars
    <2> QED
      BY <2>1, TapKept DEF TapTypes
  <1>4. CASE Added \/ TakeNothing \/ Offered \/ Reap
    BY <1>3, <1>4 DEF Added, TakeNothing, Offered, Reap
  <1>5. ASSUME NEW c \in Clients, Arrive(c) \/ Leave(c) \/ Write(c) \/ Add(c) PROVE UNCHANGED tapAll
    BY <1>5 DEF Arrive, Leave, Write, Add
  <1>6. ASSUME NEW c \in Clients, OfferNotice(c) \/ OfferLine(c) PROVE UNCHANGED tapAll
    BY <1>6 DEF OfferNotice, OfferLine
  <1>7. CASE UNCHANGED vars
    BY <1>3, <1>7 DEF vars
  <1> QED
    BY <1>1, <1>2, <1>3, <1>4, <1>5, <1>6, <1>7 DEF Next

LEMMA InitTap == Init => TapTypes /\ LastNames
  <1> SUFFICES ASSUME Init PROVE TapTypes /\ LastNames
    OBVIOUS
  <1>1. /\ want = <<>> /\ giving = <<>> /\ sampling = <<>> /\ watches = <<>> /\ batchSet = <<>>
        /\ meta = [i \in Ids |-> Unnamed]
        /\ queue = [s \in Subscribers |-> <<>>] /\ lost = [s \in Subscribers |-> 0]
    BY DEF Init, TapInit
  <1>2. named
    BY DEF Init, TapInit
  <1>3. TapTypes
    BY <1>1 DEF TapTypes, Sets
  <1>4. watches = Named(IdsOf(watches)) /\ DOMAIN batchSet = {}
    BY <1>1 DEF Named, IdsOf
  <1> QED
    BY <1>2, <1>3, <1>4 DEF LastNames

\* Each batch has the names last given to its ids, however lists, batches and
\* the link's changes follow each other.
THEOREM NamesAreLatest == Spec => []LatestNames
  <1>1. Init => TapTypes /\ LastNames
    BY InitTap
  <1>2. TapTypes /\ LastNames /\ [Next]_vars => TapTypes' /\ LastNames'
    BY StepTap
  <1>3. LastNames => LatestNames
    BY DEF LastNames, LatestNames
  <1> QED
    BY <1>1, <1>2, <1>3, PTL DEF Spec

------------------------------------------------------------------------------
(* The stream's state, and what its steps do *)

Lines ==
  [kind : {"hello", "watches", "samples"}, set : Sets]
  \union [kind : {"dropped"}, batches : Int, tap : BOOLEAN] \union [kind : {"status"}]
ClientStates ==
  [at : {"out", "arrived", "on", "gone"}, alive : BOOLEAN, queue : Seq(Lines), batches : Nat,
   messages : Nat, dropped : Nat, tried : BOOLEAN]
Histories ==
  [joined : Nat, got : Nat, told : Int, announced : Sets, excused : BOOLEAN, columns : Seq(Sets)]

StreamTypes ==
  /\ at \in {"off", "top", "take", "offer", "reap"}
  /\ known \in Sets /\ seq \in Nat /\ tapDropped \in Nat
  /\ todo \in [Clients -> Seq(Lines)]
  /\ client \in [Clients -> ClientStates] /\ seen \in [Clients -> Histories]
  /\ at = "off" => \A c \in Clients : ~client[c].alive
  /\ \A c \in Clients : client[c].alive => client[c].at = "on"
  /\ at # "offer" => \A c \in Clients : todo[c] = <<>>

LEMMA LinesAre ==
  /\ \A set \in Sets : Hello(set) \in Lines /\ Announce(set) \in Lines /\ Line(set) \in Lines
  /\ \A b \in Int, t \in BOOLEAN : Notice(b, t) \in Lines
  /\ State \in Lines
  BY DEF Lines, Hello, Announce, Line, Notice, State

LEMMA OutIs ==
  /\ Out \in ClientStates /\ [Out EXCEPT !.at = "gone"] \in ClientStates
  /\ ~Out.alive /\ ~[Out EXCEPT !.at = "gone"].alive
  /\ Unseen \in Histories
  <1>1. <<>> \in Seq(Lines) /\ <<>> \in Seq(Sets) /\ <<>> \in Sets
    BY DEF Sets
  <1>2. Unseen \in Histories
    BY <1>1 DEF Unseen, Histories
  <1>3. Out \in ClientStates /\ ~Out.alive
    BY <1>1 DEF Out, ClientStates
  <1>4. [Out EXCEPT !.at = "gone"] \in ClientStates /\ ~[Out EXCEPT !.at = "gone"].alive
    BY <1>3 DEF ClientStates
  <1> QED
    BY <1>2, <1>3, <1>4

\* A client that is queued a line.
LEMMA QueuedIs ==
  ASSUME NEW k \in ClientStates, NEW n \in Lines
  PROVE  Append(k.queue, n) \in Seq(Lines)
  <1> PICK q : q = k.queue
    OBVIOUS
  <1>1. q \in Seq(Lines)
    BY DEF ClientStates
  <1> QED
    BY <1>1

Noticed(k, q) == [k EXCEPT !.queue = q, !.batches = 0, !.messages = 0]

LEMMA NoticedIs ==
  ASSUME NEW k \in ClientStates, NEW q \in Seq(Lines)
  PROVE  Noticed(k, q) \in ClientStates /\ Noticed(k, q).at = k.at /\ Noticed(k, q).alive = k.alive
  <1> PICK h : h = Noticed(k, q)
    OBVIOUS
  <1>1. k = [at |-> k.at, alive |-> k.alive, queue |-> k.queue, batches |-> k.batches,
             messages |-> k.messages, dropped |-> k.dropped, tried |-> k.tried]
    BY DEF ClientStates
  <1>2. h = [at |-> k.at, alive |-> k.alive, queue |-> q, batches |-> 0,
             messages |-> 0, dropped |-> k.dropped, tried |-> k.tried]
    BY <1>1 DEF Noticed
  <1> QED
    BY <1>2 DEF ClientStates

\* What becomes of a client when it is offered something.
LEMMA AfterNoticeIs ==
  ASSUME StreamTypes, NEW c \in Clients
  PROVE  AfterNotice(c) \in ClientStates /\ AfterNotice(c).at = client[c].at
         /\ AfterNotice(c).alive = client[c].alive
  <1> PICK k \in ClientStates : k = client[c]
    BY DEF StreamTypes
  <1>1. Append(k.queue, Notice(k.batches, FALSE)) \in Seq(Lines)
    <2>1. k.batches \in Int /\ k.queue \in Seq(Lines)
      BY DEF ClientStates
    <2>2. Notice(k.batches, FALSE) \in Lines
      BY <2>1, LinesAre
    <2> QED
      BY <2>2, QueuedIs
  <1> PICK q \in Seq(Lines) : q = Append(k.queue, Notice(k.batches, FALSE))
    BY <1>1
  <1>2. AfterNotice(c) \in {Noticed(k, q), [k EXCEPT !.tried = TRUE]}
    BY DEF AfterNotice, Noticed
  <1>3. CASE AfterNotice(c) = Noticed(k, q)
    <2>1. Noticed(k, q) \in ClientStates /\ Noticed(k, q).at = k.at /\ Noticed(k, q).alive = k.alive
      BY NoticedIs
    <2> QED
      BY <1>3, <2>1, Zenon
  <1>4. CASE AfterNotice(c) = [k EXCEPT !.tried = TRUE]
    BY <1>4 DEF ClientStates
  <1> QED
    BY <1>2, <1>3, <1>4

LEMMA OfferLineIs ==
  ASSUME StreamTypes, NEW c \in Clients, OfferLine(c)
  PROVE  \E line \in Lines, k \in ClientStates :
           /\ line = Head(todo[c]) /\ todo[c] # <<>> /\ at = "offer" /\ client[c].alive
           /\ todo' = [todo EXCEPT ![c] = Tail(todo[c])]
           /\ client' = [client EXCEPT ![c] = k] /\ k.at = "on"
           /\ \/ seen' = [seen EXCEPT ![c] = SeenQueued(c, line)]
              \/ seen' = [seen EXCEPT ![c] = SeenLost(c, line)]
           /\ UNCHANGED fanVars
  <1> PICK line \in Lines : line = Head(todo[c])
    BY DEF OfferLine, StreamTypes
  <1>1. /\ at = "offer" /\ todo[c] # <<>> /\ client[c].alive /\ client[c].at = "on"
        /\ todo' = [todo EXCEPT ![c] = Tail(todo[c])] /\ UNCHANGED fanVars
    BY DEF OfferLine, StreamTypes
  <1> PICK h \in ClientStates : h = client[c]
    BY DEF StreamTypes
  <1>2. /\ Append(h.queue, line) \in Seq(Lines) /\ h.batches + 1 \in Nat /\ h.dropped + 1 \in Nat
        /\ h.messages + 1 \in Nat /\ h.at = "on"
        /\ \A b : KeepsUp(b) \in BOOLEAN
    BY <1>1 DEF ClientStates, KeepsUp
  <1>3. CASE /\ client' = [client EXCEPT ![c].tried = FALSE, ![c].queue = Append(@, line)]
             /\ seen' = [seen EXCEPT ![c] = SeenQueued(c, line)]
    <2> PICK k : k = [h EXCEPT !.tried = FALSE, !.queue = Append(h.queue, line)]
      OBVIOUS
    <2>1. k \in ClientStates /\ k.at = "on"
      BY <1>2 DEF ClientStates
    <2>2. client' = [client EXCEPT ![c] = k]
      BY <1>3 DEF StreamTypes, ClientStates
    <2> QED
      BY <1>1, <1>3, <2>1, <2>2
  <1>4. CASE /\ client' = [client EXCEPT ![c].tried = FALSE, ![c].batches = h.batches + 1,
                             ![c].dropped = @ + 1, ![c].alive = KeepsUp(h.batches + 1)]
             /\ seen' = [seen EXCEPT ![c] = SeenLost(c, line)]
    <2> PICK k : k = [h EXCEPT !.tried = FALSE, !.batches = h.batches + 1,
                               !.dropped = h.dropped + 1, !.alive = KeepsUp(h.batches + 1)]
      OBVIOUS
    <2>1. k \in ClientStates /\ k.at = "on"
      BY <1>2 DEF ClientStates
    <2>2. client' = [client EXCEPT ![c] = k]
      BY <1>4 DEF StreamTypes, ClientStates
    <2> QED
      BY <1>1, <1>4, <2>1, <2>2
  <1>5. CASE /\ client' = [client EXCEPT ![c].tried = FALSE, ![c].messages = @ + 1,
                             ![c].alive = KeepsUp(h.batches)]
             /\ seen' = [seen EXCEPT ![c] = SeenLost(c, line)]
    <2> PICK k : k = [h EXCEPT !.tried = FALSE, !.messages = h.messages + 1,
                               !.alive = KeepsUp(h.batches)]
      OBVIOUS
    <2>1. k \in ClientStates /\ k.at = "on"
      BY <1>2 DEF ClientStates
    <2>2. client' = [client EXCEPT ![c] = k]
      BY <1>5 DEF StreamTypes, ClientStates
    <2> QED
      BY <1>1, <1>5, <2>1, <2>2
  <1> QED
    BY <1>3, <1>4, <1>5 DEF OfferLine
------------------------------------------------------------------------------
(* A client knows the columns of the samples it is sent *)

Tells(line) == line.kind \in {"samples", "watches"}

\* Of the lines a client is still to be offered, those with columns have the
\* ones announced last, samples come last, and if the client was told of other
\* columns, and lost no announcement, then these are among them.
Coming(t, set, announced, excused) ==
  /\ \A k \in 1 .. Len(t) : Tells(t[k]) => t[k].set = set
  /\ \A j, k \in 1 .. Len(t) : j < k /\ t[j].kind = "samples" => t[k].kind # "watches"
  /\ excused \/ announced = set \/ \E k \in 1 .. Len(t) : t[k].kind = "watches"

ColumnsKnown ==
  \A c \in Clients :
    /\ seen[c].columns = <<>> \/ Head(seen[c].columns) = seen[c].announced \/ seen[c].excused
    /\ client[c].alive => Coming(todo[c], known, seen[c].announced, seen[c].excused)

LEMMA TailIs ==
  ASSUME NEW S, NEW t \in Seq(S), t # <<>>
  PROVE  /\ Tail(t) \in Seq(S) /\ Len(Tail(t)) = Len(t) - 1 /\ Len(t) \in Nat \ {0}
         /\ Head(t) = t[1] /\ Head(t) \in S
         /\ \A k \in 1 .. Len(t) - 1 : Tail(t)[k] = t[k + 1]
  OBVIOUS

\* What is still to come when a line was offered, and queued or lost.
Follows(t, line, set, announced, excused) ==
  /\ Coming(t, set, announced, TRUE)
  /\ line.kind = "samples" => line.set = set /\ (excused \/ announced = set)
  /\ line.kind = "watches" => line.set = set /\ Coming(t, set, set, FALSE)
  /\ line.kind # "watches" => Coming(t, set, announced, excused)

LEMMA ComingTail ==
  ASSUME NEW t \in Seq(Lines), t # <<>>, NEW set, NEW a, NEW e, Coming(t, set, a, e)
  PROVE  Follows(Tail(t), Head(t), set, a, e)
  <1> PICK u, n, line : u = Tail(t) /\ n = Len(t) /\ line = Head(t)
    OBVIOUS
  <1>1. /\ Len(u) = n - 1 /\ n \in Nat \ {0} /\ line = t[1]
        /\ \A k \in 1 .. n - 1 : u[k] = t[k + 1] /\ k + 1 \in 1 .. n
    BY TailIs
  <1>2. /\ \A k \in 1 .. n : Tells(t[k]) => t[k].set = set
        /\ \A j, k \in 1 .. n : j < k /\ t[j].kind = "samples" => t[k].kind # "watches"
    BY DEF Coming
  <1>3. e \/ a = set \/ \E k \in 1 .. n : t[k].kind = "watches"
    BY DEF Coming
  <1>4. /\ \A k \in 1 .. Len(u) : Tells(u[k]) => u[k].set = set
        /\ \A j, k \in 1 .. Len(u) : j < k /\ u[j].kind = "samples" => u[k].kind # "watches"
    BY <1>1, <1>2
  <1>5. \A b, f : f \/ b = set => Coming(u, set, b, f)
    BY <1>4, Zenon DEF Coming
  <1>6. 1 \in 1 .. n
    BY <1>1
  <1>7. Tells(line) => line.set = set
    BY <1>1, <1>2, <1>6
  <1>8. CASE line.kind = "samples"
    <2>1. \A k \in 1 .. n : t[k].kind # "watches"
      <3>1. \A k \in 1 .. n : k = 1 \/ 1 < k
        BY <1>1
      <3>2. t[1].kind # "watches"
        BY <1>1, <1>8
      <3> QED
        BY <1>1, <1>2, <1>6, <1>8, <3>1, <3>2
    <2>2. e \/ a = set
      BY <1>3, <2>1
    <2> QED
      BY <1>5, <1>7, <1>8, <2>2 DEF Tells, Follows
  <1>9. CASE line.kind = "watches"
    BY <1>5, <1>7, <1>9 DEF Tells, Follows
  <1>10. CASE line.kind \notin {"samples", "watches"}
    <2>1. ASSUME NEW k \in 1 .. n, t[k].kind = "watches" PROVE \E i \in 1 .. Len(u) : u[i].kind = "watches"
      <3>1. k # 1
        BY <1>1, <1>10, <2>1
      <3>2. k - 1 \in 1 .. Len(u) /\ u[k - 1] = t[(k - 1) + 1] /\ (k - 1) + 1 = k
        BY <1>1, <3>1
      <3> QED
        BY <2>1, <3>2
    <2>2. Coming(u, set, a, e)
      BY <1>3, <1>4, <2>1, Zenon DEF Coming
    <2> QED
      BY <1>5, <1>10, <2>2 DEF Follows
  <1> QED
    BY <1>8, <1>9, <1>10

\* A message is made into lines.
OwnLines(message) ==
  CASE message.kind = "samples" -> <<Line(message.set)>>
    [] message.kind = "status" -> <<State>>
    [] OTHER -> <<>>

LEMMA ComingAfter ==
  ASSUME NEW n \in Lines, n.kind = "dropped", NEW t \in Seq(Lines), NEW set, NEW a, NEW e,
         Coming(t, set, a, e)
  PROVE  Coming(<<n>> \o t, set, a, e)
  <1> PICK u, m : u = <<n>> \o t /\ m = Len(t)
    OBVIOUS
  <1>1. /\ m \in Nat /\ Len(u) = m + 1 /\ u[1] = n
        /\ \A k \in 1 .. m : u[k + 1] = t[k] /\ k + 1 \in 1 .. m + 1
        /\ \A k \in 2 .. m + 1 : u[k] = t[k - 1] /\ k - 1 \in 1 .. m
        /\ \A k \in 1 .. m + 1 : k = 1 \/ k \in 2 .. m + 1
    OBVIOUS
  <1>2. /\ \A k \in 1 .. m : Tells(t[k]) => t[k].set = set
        /\ \A j, k \in 1 .. m : j < k /\ t[j].kind = "samples" => t[k].kind # "watches"
    BY DEF Coming
  <1>3. e \/ a = set \/ \E k \in 1 .. m : t[k].kind = "watches"
    BY DEF Coming
  <1>4. \A k \in 1 .. Len(u) : Tells(u[k]) => u[k].set = set
    BY <1>1, <1>2 DEF Tells
  <1>5. \A j, k \in 1 .. Len(u) : j < k /\ u[j].kind = "samples" => u[k].kind # "watches"
    BY <1>1, <1>2
  <1>6. e \/ a = set \/ \E k \in 1 .. Len(u) : u[k].kind = "watches"
    BY <1>1, <1>3
  <1> QED
    BY <1>4, <1>5, <1>6, Zenon DEF Coming

LEMMA ComingOf ==
  ASSUME NEW message \in Messages, known \in Sets, NEW new,
         new = IF message.kind # "status" THEN message.set ELSE known
  PROVE  /\ Announced(message) \o OwnLines(message) \in Seq(Lines) /\ new \in Sets
         /\ \A a, e : e \/ a = known => Coming(Announced(message) \o OwnLines(message), new, a, e)
  <1> PICK t : t = Announced(message) \o OwnLines(message)
    OBVIOUS
  <1>1. CASE message.kind = "status"
    <2>1. t = <<State>> /\ new = known
      BY <1>1 DEF Announced, OwnLines
    <2>2. State.kind \notin {"samples", "watches"} /\ State \in Lines
      BY LinesAre DEF State
    <2>3. t \in Seq(Lines) /\ Len(t) = 1 /\ t[1] = State
      BY <2>1, <2>2
    <2>4. \A a, e : e \/ a = new => Coming(t, new, a, e)
      BY <2>2, <2>3 DEF Coming, Tells
    <2> QED
      BY <2>1, <2>3, <2>4
  <1>2. CASE message.kind # "status"
    <2> PICK s \in Sets : s = message.set
      BY <1>2 DEF Messages
    <2>1. new = s /\ message.kind \in {"samples", "watches"}
      BY <1>2 DEF Messages
    <2>2. /\ Line(s) \in Lines /\ Announce(s) \in Lines /\ Line(s).kind = "samples" /\ Line(s).set = s
          /\ Announce(s).kind = "watches" /\ Announce(s).set = s
      BY LinesAre DEF Line, Announce
    <2> PICK l \in Lines, w \in Lines : l = Line(s) /\ w = Announce(s)
      BY <2>2
    <2>3. \/ t = <<>> /\ s = known
          \/ t = <<l>> /\ s = known
          \/ t = <<w>>
          \/ t = <<w, l>>
      <3>1. Announced(message) = IF s # known THEN <<w>> ELSE <<>>
        BY <1>2 DEF Announced
      <3>2. OwnLines(message) = IF message.kind = "samples" THEN <<l>> ELSE <<>>
        BY <1>2, <2>1 DEF OwnLines
      <3>3. /\ <<w>> \o <<>> = <<w>> /\ <<>> \o <<l>> = <<l>>
            /\ <<w>> \o <<l>> = <<w, l>> /\ <<>> \o <<>> = <<>>
        <4>1. <<w>> \o <<l>> = <<w, l>>
          BY PairIs
        <4>2. <<w>> \in Seq(Lines) /\ <<l>> \in Seq(Lines) /\ <<>> \in Seq(Lines)
          OBVIOUS
        <4> QED
          BY <4>1, <4>2, Joined
      <3>4. message.kind = "samples" => t = <<w, l>> \/ (t = <<l>> /\ s = known)
        BY <3>1, <3>2, <3>3
      <3>5. message.kind # "samples" => t = <<w>> \/ (t = <<>> /\ s = known)
        BY <3>1, <3>2, <3>3
      <3> QED
        BY <3>4, <3>5
    <2>4. CASE t = <<>> /\ s = known
      BY <2>1, <2>4 DEF Coming
    <2>5. CASE t = <<l>> /\ s = known
      <3>1. t \in Seq(Lines) /\ Len(t) = 1 /\ t[1] = l
        BY <2>5
      <3>2. \A a, e : e \/ a = new => Coming(t, new, a, e)
        BY <2>1, <2>2, <3>1 DEF Coming, Tells
      <3> QED
        BY <2>1, <2>5, <3>1, <3>2
    <2>6. CASE t = <<w>>
      <3>1. t \in Seq(Lines) /\ Len(t) = 1 /\ t[1] = w
        BY <2>6
      <3>2. \A a, e : Coming(t, new, a, e)
        BY <2>1, <2>2, <3>1 DEF Coming, Tells
      <3> QED
        BY <2>1, <3>1, <3>2
    <2>7. CASE t = <<w, l>>
      <3>1. t \in Seq(Lines) /\ Len(t) = 2 /\ t[1] = w /\ t[2] = l
        BY <2>7
      <3>2. \A a, e : Coming(t, new, a, e)
        BY <2>1, <2>2, <3>1 DEF Coming, Tells
      <3> QED
        BY <2>1, <3>1, <3>2
    <2> QED
      BY <2>3, <2>4, <2>5, <2>6, <2>7
  <1> QED
    BY <1>1, <1>2

\* What a step does to one client.
LEMMA SeenIs ==
  ASSUME NEW c \in Clients, NEW line \in Lines, StreamTypes
  PROVE  /\ SeenQueued(c, line) \in Histories /\ SeenLost(c, line) \in Histories
         /\ line.kind = "samples" => /\ SeenQueued(c, line).columns = <<line.set>>
                                     /\ SeenQueued(c, line).announced = seen[c].announced
                                     /\ SeenQueued(c, line).excused = seen[c].excused
                                     /\ SeenLost(c, line) = seen[c]
         /\ line.kind = "watches" => /\ SeenQueued(c, line).columns = <<>>
                                     /\ SeenQueued(c, line).announced = line.set
                                     /\ SeenQueued(c, line).excused = FALSE
         /\ ~Tells(line) => SeenQueued(c, line) = seen[c]
         /\ line.kind # "samples" => /\ SeenLost(c, line).columns = seen[c].columns
                                     /\ SeenLost(c, line).announced = seen[c].announced
                                     /\ SeenLost(c, line).excused = TRUE
  <1> PICK h \in Histories : h = seen[c]
    BY DEF StreamTypes
  <1>1. Tells(line) => line.set \in Sets
    BY DEF Lines, Tells
  <1>2. CASE line.kind = "samples"
    <2>1. SeenQueued(c, line) = [h EXCEPT !.columns = <<line.set>>] /\ SeenLost(c, line) = h
      BY <1>2 DEF SeenQueued, SeenLost
    <2>2. <<line.set>> \in Seq(Sets)
      BY <1>1, <1>2 DEF Tells
    <2> QED
      BY <1>2, <2>1, <2>2 DEF Histories, Tells
  <1>3. ASSUME line.kind # "samples"
        PROVE  /\ SeenLost(c, line) \in Histories
               /\ SeenLost(c, line).columns = h.columns /\ SeenLost(c, line).announced = h.announced
               /\ SeenLost(c, line).excused = TRUE
    <2>1. SeenLost(c, line) = [h EXCEPT !.excused = TRUE]
      BY <1>3 DEF SeenLost
    <2> QED
      BY <2>1 DEF Histories
  <1>4. CASE line.kind = "watches"
    <2>1. SeenQueued(c, line) = [h EXCEPT !.announced = line.set, !.excused = FALSE, !.columns = <<>>]
      BY <1>4 DEF SeenQueued
    <2>2. <<>> \in Seq(Sets) /\ line.set \in Sets
      BY <1>1, <1>4 DEF Tells
    <2>3. SeenQueued(c, line) = [joined |-> h.joined, got |-> h.got, told |-> h.told,
                                 announced |-> line.set, excused |-> FALSE, columns |-> <<>>]
      BY <2>1 DEF Histories
    <2>4. h.joined \in Nat /\ h.got \in Nat /\ h.told \in Int
      BY DEF Histories
    <2>5. SeenQueued(c, line) \in Histories
      BY <2>2, <2>3, <2>4 DEF Histories
    <2>6. /\ SeenQueued(c, line).columns = <<>> /\ SeenQueued(c, line).announced = line.set
          /\ SeenQueued(c, line).excused = FALSE
      BY <2>3
    <2>7. Tells(line) /\ line.kind # "samples"
      BY <1>4 DEF Tells
    <2> QED
      BY <1>3, <1>4, <2>5, <2>6, <2>7
  <1>5. CASE ~Tells(line)
    <2>1. SeenQueued(c, line) = h
      BY <1>5 DEF SeenQueued, Tells
    <2> QED
      BY <1>3, <1>5, <2>1 DEF Tells
  <1> QED
    BY <1>2, <1>4, <1>5 DEF Tells

LEMMA OfferLineKept ==
  ASSUME StreamTypes, ColumnsKnown, NEW c \in Clients, OfferLine(c)
  PROVE  StreamTypes' /\ ColumnsKnown'
  <1> PICK line \in Lines, k \in ClientStates :
           /\ line = Head(todo[c]) /\ todo[c] # <<>> /\ at = "offer" /\ client[c].alive
           /\ todo' = [todo EXCEPT ![c] = Tail(todo[c])]
           /\ client' = [client EXCEPT ![c] = k] /\ k.at = "on"
           /\ \/ seen' = [seen EXCEPT ![c] = SeenQueued(c, line)]
              \/ seen' = [seen EXCEPT ![c] = SeenLost(c, line)]
           /\ UNCHANGED fanVars
    BY OfferLineIs
  <1> PICK t \in Seq(Lines) : t = todo[c]
    BY DEF StreamTypes
  <1> PICK h \in Histories : h = seen[c]
    BY DEF StreamTypes
  <1>1. PICK g \in Histories : g \in {SeenQueued(c, line), SeenLost(c, line)} /\ seen' = [seen EXCEPT ![c] = g]
    BY SeenIs
  <1>2. Tail(t) \in Seq(Lines)
    BY TailIs
  <1>3. UNCHANGED <<at, known, seq, tapDropped>>
    BY DEF fanVars
  <1>4. StreamTypes'
    BY <1>1, <1>2, <1>3 DEF StreamTypes
  <1>5. /\ client'[c] = k /\ todo'[c] = Tail(t) /\ seen'[c] = g
        /\ \A d \in Clients : d # c => client'[d] = client[d] /\ todo'[d] = todo[d] /\ seen'[d] = seen[d]
    BY <1>1 DEF StreamTypes
  <1>6. /\ Coming(t, known, h.announced, h.excused)
        /\ h.columns = <<>> \/ Head(h.columns) = h.announced \/ h.excused
    BY DEF ColumnsKnown
  <1>7. /\ Coming(Tail(t), known, h.announced, TRUE)
        /\ line.kind = "samples" => line.set = known /\ (h.excused \/ h.announced = known)
        /\ line.kind = "watches" => line.set = known /\ Coming(Tail(t), known, known, FALSE)
        /\ line.kind # "watches" => Coming(Tail(t), known, h.announced, h.excused)
    <2>1. Follows(Tail(t), line, known, h.announced, h.excused)
      BY <1>6, ComingTail
    <2> QED
      BY <2>1 DEF Follows
  <1>8. /\ g.columns = <<>> \/ Head(g.columns) = g.announced \/ g.excused
        /\ Coming(Tail(t), known, g.announced, g.excused)
    <2>1. CASE g = SeenQueued(c, line) /\ line.kind = "samples"
      <3>1. g.columns = <<line.set>> /\ g.announced = h.announced /\ g.excused = h.excused
        BY <2>1, SeenIs
      <3>2. Head(<<line.set>>) = line.set
        OBVIOUS
      <3> QED
        BY <1>7, <2>1, <3>1, <3>2
    <2>2. CASE g = SeenQueued(c, line) /\ line.kind = "watches"
      <3>1. g.columns = <<>> /\ g.announced = known /\ g.excused = FALSE
        BY <1>7, <2>2, SeenIs
      <3> QED
        BY <1>7, <2>2, <3>1
    <2>3. CASE g = SeenQueued(c, line) /\ ~Tells(line)
      BY <1>6, <1>7, <2>3, SeenIs DEF Tells
    <2>4. CASE g = SeenLost(c, line) /\ line.kind = "samples"
      BY <1>6, <1>7, <2>4, SeenIs
    <2>5. CASE g = SeenLost(c, line) /\ line.kind # "samples"
      BY <1>7, <2>5, SeenIs
    <2> QED
      BY <1>1, <2>1, <2>2, <2>3, <2>4, <2>5 DEF Tells
  <1>9. ASSUME NEW d \in Clients
        PROVE  /\ seen'[d].columns = <<>> \/ Head(seen'[d].columns) = seen'[d].announced \/ seen'[d].excused
               /\ client'[d].alive => Coming(todo'[d], known, seen'[d].announced, seen'[d].excused)
    <2>1. CASE d = c
      BY <1>5, <1>8, <2>1
    <2>2. CASE d # c
      BY <1>5, <2>2 DEF ColumnsKnown
    <2> QED
      BY <2>1, <2>2
  <1>10. ColumnsKnown'
    BY <1>3, <1>9 DEF ColumnsKnown
  <1> QED
    BY <1>4, <1>10

LEMMA TakeKept ==
  ASSUME TapTypes, StreamTypes, ColumnsKnown, Take
  PROVE  StreamTypes' /\ ColumnsKnown'
  <1> PICK message \in Messages : message = Head(queue["stream"])
    <2>1. queue["stream"] \in Seq(Messages) /\ queue["stream"] # <<>>
      BY StreamAssumption DEF TapTypes, Take, Received
    <2> QED
      BY <2>1
  <1> PICK own : own = Announced(message) \o OwnLines(message)
    OBVIOUS
  <1> PICK n : n = Notice(lost["stream"] - tapDropped, TRUE)
    OBVIOUS
  <1>1. n \in Lines /\ n.kind = "dropped" /\ lost["stream"] \in Nat
    <2>1. lost["stream"] \in Nat /\ tapDropped \in Nat
      BY StreamAssumption DEF TapTypes, StreamTypes
    <2>2. lost["stream"] - tapDropped \in Int
      BY <2>1
    <2> QED
      BY <2>1, <2>2, LinesAre DEF Notice
  <1>2. /\ at = "take" /\ at' = "offer" /\ UNCHANGED <<client, seen>>
        /\ tapDropped' \in {lost["stream"], tapDropped}
        /\ known' = IF message.kind # "status" THEN message.set ELSE known
        /\ seq' \in {seq + 1, seq}
    BY DEF Take
  <1>3. todo' = [c \in Clients |-> IF c \in On THEN (IF Behind THEN <<n>> ELSE <<>>) \o Announced(message)
                                                      \o OwnLines(message)
                                   ELSE <<>>]
    BY DEF Take, OwnLines
  <1>4. /\ own \in Seq(Lines) /\ known' \in Sets
        /\ \A a, e : e \/ a = known => Coming(own, known', a, e)
    <2>1. known \in Sets
      BY DEF StreamTypes
    <2> QED
      BY <1>2, <2>1, ComingOf
  <1>5. Announced(message) \in Seq(Lines) /\ OwnLines(message) \in Seq(Lines)
    <2>1. Announced(message) \in Seq(Lines)
      BY LinesAre DEF Announced, Messages
    <2>2. OwnLines(message) \in Seq(Lines)
      BY LinesAre DEF OwnLines, Messages
    <2> QED
      BY <2>1, <2>2
  <1>6. /\ <<n>> \o Announced(message) \o OwnLines(message) = <<n>> \o own
        /\ <<>> \o Announced(message) \o OwnLines(message) = own
        /\ <<n>> \o own \in Seq(Lines)
    <2> PICK a \in Seq(Lines), o \in Seq(Lines) : a = Announced(message) /\ o = OwnLines(message)
      BY <1>5
    <2>1. /\ <<n>> \o a \o o = <<n>> \o (a \o o) /\ <<n>> \o (a \o o) \in Seq(Lines)
          /\ <<>> \o a = a
      <3>1. a \o o \in Seq(Lines)
        BY Joined, <1>1
      <3>2. <<n>> \o a \o o = <<n>> \o (a \o o)
        BY <1>1, Joined
      <3>3. <<n>> \o (a \o o) \in Seq(Lines)
        <4> PICK s \in Seq(Lines) : s = a \o o
          BY <3>1
        <4>1. <<n>> \o s \in Seq(Lines)
          BY <1>1, JoinedOne
        <4> QED
          BY <4>1
      <3>4. <<>> \o a = a
        BY ConcatEmptySeq
      <3> QED
        BY <3>2, <3>3, <3>4
    <2> QED
      BY <2>1
  <1>7. \A a, e : e \/ a = known => Coming(<<n>> \o own, known', a, e)
    BY <1>1, <1>4, ComingAfter
  <1>8. ASSUME NEW c \in Clients
        PROVE  /\ todo'[c] \in Seq(Lines)
               /\ c \in On => \A a, e : e \/ a = known => Coming(todo'[c], known', a, e)
    <2>1. todo'[c] \in {<<n>> \o own, own, <<>>} /\ (c \in On => todo'[c] \in {<<n>> \o own, own})
      BY <1>3, <1>6
    <2>2. todo'[c] \in Seq(Lines)
      <3>1. <<>> \in Seq(Lines)
        OBVIOUS
      <3> QED
        BY <1>4, <1>6, <2>1, <3>1
    <2>3. CASE todo'[c] = <<n>> \o own
      BY <1>7, <2>2, <2>3
    <2>4. CASE todo'[c] = own
      BY <1>4, <2>2, <2>4
    <2> QED
      BY <2>1, <2>2, <2>3, <2>4
  <1>9. StreamTypes'
    <2>1. todo' \in [Clients -> Seq(Lines)]
      BY <1>3, <1>8
    <2>2. tapDropped' \in Nat /\ seq' \in Nat
      BY <1>1, <1>2 DEF StreamTypes
    <2> QED
      BY <1>2, <1>4, <2>1, <2>2 DEF StreamTypes
  <1>10. ASSUME NEW c \in Clients, client[c].alive PROVE seen[c].excused \/ seen[c].announced = known
    <2>1. todo[c] = <<>> /\ Coming(todo[c], known, seen[c].announced, seen[c].excused)
      BY <1>2, <1>10 DEF StreamTypes, ColumnsKnown
    <2> QED
      BY <2>1 DEF Coming
  <1>11. ASSUME NEW c \in Clients, client[c].alive
         PROVE  Coming(todo'[c], known', seen[c].announced, seen[c].excused)
    <2>1. c \in On
      BY <1>11 DEF On, StreamTypes
    <2> QED
      BY <1>8, <1>10, <1>11, <2>1
  <1>12. ColumnsKnown'
    BY <1>2, <1>11 DEF ColumnsKnown
  <1> QED
    BY <1>9, <1>12

\* Steps that offer nothing and change at most what a client is sent.
LEMMA OthersKnow ==
  ASSUME StreamTypes, ColumnsKnown, UNCHANGED <<known, todo>>,
         client' \in [Clients -> ClientStates], seen' \in [Clients -> Histories],
         \A c \in Clients :
           /\ client'[c].alive => client[c].alive
           /\ UNCHANGED <<seen[c].announced, seen[c].excused, seen[c].columns>>
  PROVE  ColumnsKnown'
  BY DEF ColumnsKnown

LEMMA ClientsKept ==
  ASSUME StreamTypes, ColumnsKnown, NEW c \in Clients,
         Arrive(c) \/ Leave(c) \/ Write(c) \/ OfferNotice(c)
  PROVE  StreamTypes' /\ ColumnsKnown'
  <1> PICK h \in ClientStates : h = client[c]
    BY DEF StreamTypes
  <1> PICK s \in Histories : s = seen[c]
    BY DEF StreamTypes
  <1>1. UNCHANGED <<at, known, seq, tapDropped, todo>>
    BY DEF Arrive, Leave, Write, OfferNotice, fanVars
  <1>2. PICK k \in ClientStates :
          /\ client' = [client EXCEPT ![c] = k]
          /\ k.alive => h.alive
          /\ k.alive => k.at = "on"
    <2>1. CASE Arrive(c)
      <3>1. [h EXCEPT !.at = "arrived"] \in ClientStates /\ ~[h EXCEPT !.at = "arrived"].alive
        BY <2>1 DEF Arrive, StreamTypes, ClientStates
      <3>2. client' = [client EXCEPT ![c] = [h EXCEPT !.at = "arrived"]]
        BY <2>1 DEF Arrive, StreamTypes
      <3> QED
        BY <3>1, <3>2
    <2>2. CASE Leave(c)
      <3>1. [h EXCEPT !.alive = FALSE] \in ClientStates /\ ~[h EXCEPT !.alive = FALSE].alive
        BY DEF ClientStates
      <3>2. client' = [client EXCEPT ![c] = [h EXCEPT !.alive = FALSE]]
        BY <2>2 DEF Leave, StreamTypes
      <3> QED
        BY <3>1, <3>2
    <2>3. CASE Write(c)
      <3> PICK q \in Seq(Lines) : q = Tail(h.queue)
        <4>1. h.queue \in Seq(Lines) /\ h.queue # <<>>
          BY <2>3 DEF Write, ClientStates
        <4> QED
          BY <4>1, TailIs
      <3>1. /\ [h EXCEPT !.queue = q] \in ClientStates /\ [h EXCEPT !.queue = q].alive = h.alive
            /\ [h EXCEPT !.queue = q].at = h.at
        BY DEF ClientStates
      <3>2. client' = [client EXCEPT ![c] = [h EXCEPT !.queue = q]]
        BY <2>3 DEF Write, StreamTypes
      <3> QED
        BY <3>1, <3>2 DEF StreamTypes
    <2>4. CASE OfferNotice(c)
      <3>1. client' = [client EXCEPT ![c] = AfterNotice(c)]
        BY <2>4 DEF OfferNotice
      <3> QED
        BY <3>1, AfterNoticeIs DEF StreamTypes
    <2> QED
      BY <2>1, <2>2, <2>3, <2>4
  <1>3. PICK g \in Histories :
          /\ seen' = [seen EXCEPT ![c] = g]
          /\ g.announced = s.announced /\ g.excused = s.excused /\ g.columns = s.columns
    <2>1. CASE seen' = seen
      BY <2>1 DEF StreamTypes
    <2>2. CASE Write(c)
      <3> PICK line \in Lines : line = Head(h.queue)
        <4>1. h.queue \in Seq(Lines) /\ h.queue # <<>>
          BY <2>2 DEF Write, ClientStates
        <4> QED
          BY <4>1, TailIs
      <3> PICK a, b :
            /\ a = (IF line.kind = "samples" THEN s.got + 1 ELSE s.got)
            /\ b = (IF line.kind = "dropped" /\ ~line.tap THEN s.told + line.batches ELSE s.told)
        OBVIOUS
      <3>1. a \in Nat /\ b \in Int
        BY DEF Histories, Lines
      <3>2. seen' = [seen EXCEPT ![c] = [s EXCEPT !.got = a, !.told = b]]
        BY <2>2 DEF Write, StreamTypes, Histories
      <3>3. [s EXCEPT !.got = a, !.told = b] \in Histories
        BY <3>1 DEF Histories
      <3>4. /\ [s EXCEPT !.got = a, !.told = b].announced = s.announced
            /\ [s EXCEPT !.got = a, !.told = b].excused = s.excused
            /\ [s EXCEPT !.got = a, !.told = b].columns = s.columns
        BY DEF Histories
      <3> QED
        BY <3>2, <3>3, <3>4
    <2> QED
      BY <2>1, <2>2 DEF Arrive, Leave, OfferNotice
  <1>4. ASSUME NEW d \in Clients
        PROVE  /\ client'[d] \in ClientStates /\ seen'[d] \in Histories
               /\ client'[d].alive => client[d].alive /\ client'[d].at = "on"
               /\ UNCHANGED <<seen[d].announced, seen[d].excused, seen[d].columns>>
    <2>1. CASE d = c
      BY <1>2, <1>3, <2>1 DEF StreamTypes
    <2>2. CASE d # c
      BY <1>2, <1>3, <2>2 DEF StreamTypes
    <2> QED
      BY <2>1, <2>2
  <1>5. client' \in [Clients -> ClientStates] /\ seen' \in [Clients -> Histories]
    BY <1>2, <1>3 DEF StreamTypes
  <1>6. StreamTypes'
    BY <1>1, <1>4, <1>5 DEF StreamTypes
  <1>7. ColumnsKnown'
    BY <1>1, <1>4, <1>5, OthersKnow
  <1> QED
    BY <1>6, <1>7

Joining(n, set) == [Unseen EXCEPT !.joined = n, !.announced = set]

LEMMA JoiningIs ==
  ASSUME NEW n \in Nat, NEW set \in Sets
  PROVE  /\ Joining(n, set) \in Histories /\ Joining(n, set).columns = <<>>
         /\ Joining(n, set).announced = set /\ Joining(n, set).excused = FALSE
  <1> PICK u \in Histories : u = Unseen
    BY OutIs
  <1>1. u.columns = <<>> /\ u.excused = FALSE
    BY DEF Unseen
  <1>2. Joining(n, set) = [joined |-> n, got |-> u.got, told |-> u.told, announced |-> set,
                           excused |-> u.excused, columns |-> u.columns]
    <2>1. Joining(n, set) = [u EXCEPT !.joined = n, !.announced = set]
      BY DEF Joining
    <2> QED
      BY <2>1 DEF Histories
  <1>3. u.got \in Nat /\ u.told \in Int /\ u.excused \in BOOLEAN /\ u.columns \in Seq(Sets)
    BY DEF Histories
  <1> QED
    BY <1>1, <1>2, <1>3 DEF Histories

LEMMA AddKept ==
  ASSUME StreamTypes, ColumnsKnown, NEW c \in Clients, Add(c)
  PROVE  StreamTypes' /\ ColumnsKnown'
  <1> PICK h \in ClientStates : h = client[c]
    BY DEF StreamTypes
  <1>1. UNCHANGED <<at, known, seq, tapDropped, todo>> /\ at = "top"
    BY DEF Add, fanVars
  <1> PICK k : k = [h EXCEPT !.at = "on", !.alive = TRUE, !.queue = <<Hello(known)>>]
    OBVIOUS
  <1> PICK g : g = Joining(seq, known)
    OBVIOUS
  <1>2. client' = [client EXCEPT ![c] = k] /\ seen' = [seen EXCEPT ![c] = g]
    BY DEF Add, StreamTypes, ClientStates, Joining
  <1>3. k \in ClientStates /\ k.at = "on"
    <2>1. <<Hello(known)>> \in Seq(Lines)
      <3>1. Hello(known) \in Lines
        BY LinesAre DEF StreamTypes
      <3> QED
        BY <3>1
    <2>2. k = [at |-> "on", alive |-> TRUE, queue |-> <<Hello(known)>>, batches |-> h.batches,
               messages |-> h.messages, dropped |-> h.dropped, tried |-> h.tried]
      BY DEF ClientStates
    <2>3. h.batches \in Nat /\ h.messages \in Nat /\ h.dropped \in Nat /\ h.tried \in BOOLEAN
      BY DEF ClientStates
    <2> QED
      BY <2>1, <2>2, <2>3 DEF ClientStates
  <1>4. g \in Histories /\ g.columns = <<>> /\ g.announced = known /\ g.excused = FALSE
    BY JoiningIs DEF StreamTypes
  <1>5. StreamTypes'
    BY <1>1, <1>2, <1>3, <1>4 DEF StreamTypes
  <1>6. todo[c] = <<>> /\ Coming(<<>>, known, known, FALSE)
    BY <1>1 DEF StreamTypes, Coming
  <1>7. ASSUME NEW d \in Clients
        PROVE  /\ seen'[d].columns = <<>> \/ Head(seen'[d].columns) = seen'[d].announced \/ seen'[d].excused
               /\ client'[d].alive => Coming(todo[d], known, seen'[d].announced, seen'[d].excused)
    <2>1. CASE d = c
      <3>1. seen'[d] = g
        BY <1>2, <2>1 DEF StreamTypes
      <3> QED
        BY <1>4, <1>6, <2>1, <3>1
    <2>2. CASE d # c
      <3>1. seen'[d] = seen[d] /\ client'[d] = client[d]
        BY <1>2, <2>2 DEF StreamTypes
      <3> QED
        BY <3>1 DEF ColumnsKnown
    <2> QED
      BY <2>1, <2>2
  <1>8. ColumnsKnown'
    BY <1>1, <1>7 DEF ColumnsKnown
  <1> QED
    BY <1>5, <1>8

LEMMA FanOutKept ==
  ASSUME TapTypes, StreamTypes, ColumnsKnown,
         Start \/ Stop \/ Added \/ TakeNothing \/ Offered \/ Reap
  PROVE  StreamTypes' /\ ColumnsKnown'
  <1>1. CASE Start
    <2>1. /\ at = "off" /\ at' = "top" /\ known' = watches /\ seq' = 0 /\ tapDropped' = 0
          /\ UNCHANGED <<todo, client, seen>>
      BY <1>1 DEF Start
    <2>2. StreamTypes'
      BY <2>1 DEF StreamTypes, TapTypes
    <2>3. ColumnsKnown'
      BY <2>1 DEF StreamTypes, ColumnsKnown
    <2> QED
      BY <2>2, <2>3
  <1>2. CASE Stop \/ Reap
    <2>1. /\ at' \in {"off", "top"} /\ at \in {"top", "reap"}
          /\ UNCHANGED <<known, seq, tapDropped, todo, seen>>
      BY <1>2 DEF Stop, Reap
    <2>2. \A c \in Clients : client'[c] \in {client[c], [Out EXCEPT !.at = "gone"]}
      BY <1>2 DEF Stop, Reap
    <2>3. DOMAIN client' = Clients /\ client' = [c \in Clients |-> client'[c]]
      BY <1>2 DEF Stop, Reap
    <2>4. client' \in [Clients -> ClientStates]
      <3>1. \A c \in Clients : client'[c] \in ClientStates
        BY <2>2, OutIs DEF StreamTypes
      <3> QED
        BY <2>3, <3>1
    <2>5. \A c \in Clients : client'[c].alive => client'[c] = client[c]
      BY <2>2, OutIs
    <2>6. at' = "off" => \A c \in Clients : ~client'[c].alive
      <3> SUFFICES ASSUME at' = "off", NEW c \in Clients PROVE ~client'[c].alive
        OBVIOUS
      <3>1. client' = [d \in Clients |-> IF client[d].at \in {"arrived", "on"}
                                         THEN [Out EXCEPT !.at = "gone"] ELSE client[d]]
        BY <1>2 DEF Stop, Reap
      <3>2. CASE client[c].at \in {"arrived", "on"}
        BY <3>1, <3>2, OutIs
      <3>3. CASE client[c].at \notin {"arrived", "on"}
        BY <3>1, <3>3 DEF StreamTypes
      <3> QED
        BY <3>2, <3>3
    <2>7. StreamTypes'
      BY <2>1, <2>4, <2>5, <2>6 DEF StreamTypes
    <2>8. ColumnsKnown'
      BY <2>1, <2>4, <2>5, OthersKnow DEF StreamTypes
    <2> QED
      BY <2>7, <2>8
  <1>3. CASE Added \/ TakeNothing
    <2>1. /\ at \in {"top", "take"} /\ at' \in {"take", "reap"}
          /\ UNCHANGED <<known, seq, tapDropped, todo, client, seen>>
      BY <1>3 DEF Added, TakeNothing
    <2>2. StreamTypes'
      BY <2>1 DEF StreamTypes
    <2> QED
      BY <2>1, <2>2, OthersKnow DEF StreamTypes
  <1>4. CASE Offered
    <2>1. /\ at = "offer" /\ at' = "reap" /\ todo' = [c \in Clients |-> <<>>]
          /\ \A c \in Clients : client[c].alive => todo[c] = <<>>
          /\ UNCHANGED <<known, seq, tapDropped, client, seen>>
      BY <1>4 DEF Offered
    <2>2. StreamTypes'
      BY <2>1 DEF StreamTypes
    <2>3. \A c \in Clients : client[c].alive => todo'[c] = todo[c]
      BY <2>1
    <2>4. ColumnsKnown'
      BY <2>1, <2>3 DEF ColumnsKnown
    <2> QED
      BY <2>2, <2>4
  <1> QED
    BY <1>1, <1>2, <1>3, <1>4

LEMMA StepColumns ==
  ASSUME TapTypes, StreamTypes, ColumnsKnown, [Next]_vars
  PROVE  StreamTypes' /\ ColumnsKnown'
  <1>1. CASE UNCHANGED <<fanVars, todo, client, seen>>
    <2>1. UNCHANGED <<at, known, seq, tapDropped, todo, client, seen>>
      BY <1>1 DEF fanVars
    <2>2. StreamTypes'
      BY <2>1 DEF StreamTypes
    <2> QED
      BY <2>1, <2>2, OthersKnow DEF StreamTypes
  <1>2. CASE Start \/ Stop \/ Added \/ TakeNothing \/ Offered \/ Reap
    BY <1>2, FanOutKept
  <1>3. CASE Take
    BY <1>3, TakeKept
  <1>4. ASSUME NEW c \in Clients, Arrive(c) \/ Leave(c) \/ Write(c) \/ OfferNotice(c)
        PROVE  StreamTypes' /\ ColumnsKnown'
    BY <1>4, ClientsKept
  <1>5. ASSUME NEW c \in Clients, Add(c) \/ OfferLine(c) PROVE StreamTypes' /\ ColumnsKnown'
    BY <1>5, AddKept, OfferLineKept
  <1> QED
    BY <1>1, <1>2, <1>3, <1>4, <1>5 DEF Next, vars

LEMMA InitColumns == Init => StreamTypes /\ ColumnsKnown
  <1> SUFFICES ASSUME Init PROVE StreamTypes /\ ColumnsKnown
    OBVIOUS
  <1>1. /\ at = "off" /\ known = <<>> /\ seq = 0 /\ tapDropped = 0
        /\ todo = [c \in Clients |-> <<>>]
        /\ client = [c \in Clients |-> Out] /\ seen = [c \in Clients |-> Unseen]
    BY DEF Init
  <1>2. known \in Sets
    BY <1>1 DEF Sets
  <1>3. StreamTypes
    BY <1>1, <1>2, OutIs DEF StreamTypes
  <1>4. Unseen.columns = <<>>
    BY DEF Unseen
  <1> QED
    BY <1>1, <1>3, <1>4, OutIs DEF ColumnsKnown

\* A client knows the columns of the samples it is sent, unless it lost the
\* message that announced them, whenever lists change, batches are lost and
\* clients come, fall behind and go.
THEOREM ColumnsAreAnnounced == Spec => []ColumnsAnnounced
  <1>1. Init => TapTypes /\ LastNames /\ StreamTypes /\ ColumnsKnown
    BY InitTap, InitColumns
  <1>2. /\ TapTypes /\ LastNames /\ StreamTypes /\ ColumnsKnown /\ [Next]_vars
        => TapTypes' /\ LastNames' /\ StreamTypes' /\ ColumnsKnown'
    BY StepTap, StepColumns
  <1>3. ColumnsKnown => ColumnsAnnounced
    BY DEF ColumnsKnown, ColumnsAnnounced, On
  <1> QED
    BY <1>1, <1>2, <1>3, PTL DEF Spec

------------------------------------------------------------------------------
(* Induction *)

LEMMA Least ==
  ASSUME NEW T \in SUBSET Nat, T # {}
  PROVE  \E x \in T : \A y \in T : x <= y
  <1>1. \E x \in T : \A y \in T : ~(<<y, x>> \in OpToRel(<, Nat))
    BY WFMin, NatLessThanWellFounded
  <1>2. \A x, y \in T : y < x => <<y, x>> \in OpToRel(<, Nat)
    BY DEF OpToRel
  <1>3. \A x, y \in Nat : ~(y < x) => x <= y
    OBVIOUS
  <1>4. \E x \in T : \A y \in T : ~(y < x)
    BY <1>1, <1>2
  <1> QED
    BY <1>3, <1>4

LEMMA SetInduction ==
  ASSUME NEW S, 0 \in S, \A n \in Nat : n \in S => n + 1 \in S
  PROVE  \A n \in Nat : n \in S
  <1> SUFFICES ASSUME Nat \ S # {} PROVE FALSE
    OBVIOUS
  <1> PICK x \in Nat \ S : \A y \in Nat \ S : x <= y
    BY Least
  <1>1. x - 1 \in Nat /\ ~(x <= x - 1)
    OBVIOUS
  <1>2. x - 1 \in S
    BY <1>1
  <1> QED
    BY <1>1, <1>2

------------------------------------------------------------------------------
(* The worth of a sequence of lines *)

LEMMA WeightIs == \A x \in Lines : Weight(x) \in Int
  BY DEF Lines, Weight

\* f is the worth of each of the beginnings of q.
Worths(f, q) == f = [k \in 0 .. Len(q) |-> IF k = 0 THEN 0 ELSE f[k - 1] + Weight(q[k])]

LEMMA WorthOf ==
  ASSUME NEW q, NEW f, Worths(f, q)
  PROVE  \E g : Worths(g, q) /\ Worth(q) = g[Len(q)]
  <1> DEFINE P(g) == Worths(g, q)
  <1>1. P(CHOOSE g : P(g))
    <2>1. P(f)
      OBVIOUS
    <2> HIDE DEF P
    <2> QED
      BY <2>1
  <1>2. Worth(q) = (CHOOSE g : P(g))[Len(q)]
    BY DEF Worth, Worths
  <1> QED
    BY <1>1, <1>2

LEMMA WorthsExist ==
  ASSUME NEW q \in Seq(Lines)
  PROVE  \E f \in [0 .. Len(q) -> Int] : Worths(f, q)
  <1> DEFINE UpTo(f, n) == \A k \in 0 .. Len(q) :
                             k <= n => f[k] = IF k = 0 THEN 0 ELSE f[k - 1] + Weight(q[k])
             Ns == {n \in Nat : \E f \in [0 .. Len(q) -> Int] : UpTo(f, n)}
  <1>1. Len(q) \in Nat /\ \A k \in 1 .. Len(q) : Weight(q[k]) \in Int
    BY WeightIs
  <1>2. 0 \in Ns
    <2> DEFINE f == [k \in 0 .. Len(q) |-> 0]
    <2>1. f \in [0 .. Len(q) -> Int] /\ UpTo(f, 0)
      OBVIOUS
    <2> HIDE DEF UpTo, f
    <2> QED
      BY <2>1
  <1>3. ASSUME NEW n \in Nat, n \in Ns PROVE n + 1 \in Ns
    <2>1. PICK f \in [0 .. Len(q) -> Int] : UpTo(f, n)
      BY <1>3
    <2> DEFINE g == [k \in 0 .. Len(q) |-> IF k = n + 1 THEN f[n] + Weight(q[k]) ELSE f[k]]
    <2>2. g \in [0 .. Len(q) -> Int]
      <3>1. \A k \in 0 .. Len(q) : k = n + 1 => n \in 0 .. Len(q) /\ k \in 1 .. Len(q)
        BY <1>1
      <3>2. \A k \in 0 .. Len(q) : k = n + 1 => f[n] \in Int /\ Weight(q[k]) \in Int
        BY <1>1, <3>1
      <3>3. \A k \in 0 .. Len(q) : k = n + 1 => f[n] + Weight(q[k]) \in Int
        BY <3>2
      <3> QED
        BY <3>3
    <2>3. UpTo(g, n + 1)
      <3> SUFFICES ASSUME NEW k \in 0 .. Len(q), k <= n + 1
                   PROVE  g[k] = IF k = 0 THEN 0 ELSE g[k - 1] + Weight(q[k])
        OBVIOUS
      <3>1. CASE k = 0
        BY <3>1, <2>1
      <3>2. CASE k # 0
        <4>1. k - 1 \in 0 .. Len(q) /\ k - 1 # n + 1 /\ g[k - 1] = f[k - 1]
          BY <3>2, <1>1
        <4>2. CASE k = n + 1
          BY <4>1, <4>2, <3>2
        <4>3. CASE k # n + 1
          <5>1. g[k] = f[k] /\ k <= n
            BY <4>3
          <5> QED
            BY <5>1, <4>1, <3>2, <2>1
        <4> QED
          BY <4>2, <4>3
      <3> QED
        BY <3>1, <3>2
    <2> HIDE DEF g, UpTo
    <2> QED
      BY <2>2, <2>3
  <1>4. \A n \in Nat : n \in Ns
    <2> HIDE DEF Ns
    <2> QED
      BY <1>2, <1>3, SetInduction
  <1>5. PICK f \in [0 .. Len(q) -> Int] : UpTo(f, Len(q))
    BY <1>1, <1>4
  <1>6. f = [k \in 0 .. Len(q) |-> IF k = 0 THEN 0 ELSE f[k - 1] + Weight(q[k])]
    BY <1>5, <1>1
  <1> QED
    BY <1>6 DEF Worths

\* Equal beginnings are worth the same.
LEMMA WorthsSame ==
  ASSUME NEW q, NEW r, NEW f, NEW g, Worths(f, q), Worths(g, r), Len(q) \in Nat, Len(r) \in Nat,
         NEW m \in Nat, m <= Len(q), m <= Len(r), \A k \in 1 .. m : q[k] = r[k]
  PROVE  f[m] = g[m]
  <1> DEFINE Ns == {n \in Nat : n <= m => f[n] = g[n]}
  <1>1. /\ \A k \in 0 .. Len(q) : f[k] = IF k = 0 THEN 0 ELSE f[k - 1] + Weight(q[k])
        /\ \A k \in 0 .. Len(r) : g[k] = IF k = 0 THEN 0 ELSE g[k - 1] + Weight(r[k])
    BY DEF Worths
  <1>2. 0 \in Ns
    BY <1>1
  <1>3. ASSUME NEW n \in Nat, n \in Ns PROVE n + 1 \in Ns
    <2> SUFFICES ASSUME n + 1 <= m PROVE f[n + 1] = g[n + 1]
      OBVIOUS
    <2>1. f[n] = g[n] /\ q[n + 1] = r[n + 1]
      BY <1>3
    <2>2. n + 1 \in 0 .. Len(q) /\ n + 1 \in 0 .. Len(r) /\ n + 1 # 0 /\ n + 1 - 1 = n
      OBVIOUS
    <2>3. f[n + 1] = f[n] + Weight(q[n + 1]) /\ g[n + 1] = g[n] + Weight(r[n + 1])
      BY <2>2, <1>1
    <2> QED
      BY <2>1, <2>3
  <1>4. \A n \in Nat : n \in Ns
    <2> HIDE DEF Ns
    <2> QED
      BY <1>2, <1>3, SetInduction
  <1> QED
    BY <1>4

\* The sum, by its steps.
LEMMA WorthSteps ==
  ASSUME NEW q \in Seq(Lines)
  PROVE  \E f \in [0 .. Len(q) -> Int] :
           /\ Worths(f, q) /\ Worth(q) = f[Len(q)] /\ f[0] = 0
           /\ \A k \in 1 .. Len(q) : f[k] = f[k - 1] + Weight(q[k])
  <1>1. PICK f \in [0 .. Len(q) -> Int] : Worths(f, q)
    BY WorthsExist
  <1>2. PICK g : Worths(g, q) /\ Worth(q) = g[Len(q)]
    BY <1>1, WorthOf
  <1>3. g[Len(q)] = f[Len(q)]
    BY <1>1, <1>2, WorthsSame
  <1>4. Len(q) \in Nat /\ \A k \in 0 .. Len(q) : f[k] = IF k = 0 THEN 0 ELSE f[k - 1] + Weight(q[k])
    <2>1. f = [k \in 0 .. Len(q) |-> IF k = 0 THEN 0 ELSE f[k - 1] + Weight(q[k])]
      BY <1>1 DEF Worths
    <2>2. \A k \in 0 .. Len(q) : f[k] = IF k = 0 THEN 0 ELSE f[k - 1] + Weight(q[k])
      BY <2>1, Zenon
    <2> QED
      BY <2>2
  <1> QED
    BY <1>1, <1>2, <1>3, <1>4

LEMMA WorthIs ==
  ASSUME NEW q \in Seq(Lines)
  PROVE  Worth(q) \in Int
  BY WorthSteps

LEMMA WorthEmpty == Worth(<<>>) = 0
  <1>1. <<>> \in Seq(Lines) /\ Len(<<>>) = 0
    OBVIOUS
  <1> QED
    BY <1>1, WorthSteps

LEMMA WorthAppend ==
  ASSUME NEW q \in Seq(Lines), NEW x \in Lines
  PROVE  Worth(Append(q, x)) = Worth(q) + Weight(x)
  <1> DEFINE r == Append(q, x)  n == Len(q)
  <1>1. /\ r \in Seq(Lines) /\ Len(r) = n + 1 /\ n \in Nat /\ r[n + 1] = x
        /\ \A k \in 1 .. n : q[k] = r[k]
    OBVIOUS
  <1>2. PICK f : Worths(f, q) /\ Worth(q) = f[n]
    BY WorthSteps
  <1> HIDE DEF r
  <1>3. PICK g : /\ Worths(g, r) /\ Worth(r) = g[Len(r)]
                 /\ \A k \in 1 .. Len(r) : g[k] = g[k - 1] + Weight(r[k])
    BY <1>1, WorthSteps
  <1>4. f[n] = g[n]
    <2>1. n <= Len(q) /\ n <= Len(r) /\ Len(q) \in Nat /\ Len(r) \in Nat
      BY <1>1
    <2> HIDE DEF n
    <2> QED
      BY <2>1, <1>1, <1>2, <1>3, WorthsSame
  <1>5. n + 1 \in 1 .. Len(r) /\ n + 1 - 1 = n
    BY <1>1
  <1>6. g[n + 1] = g[n] + Weight(x)
    BY <1>1, <1>3, <1>5
  <1> QED
    BY <1>1, <1>2, <1>3, <1>4, <1>6 DEF r

LEMMA WorthTail ==
  ASSUME NEW q \in Seq(Lines), q # <<>>
  PROVE  Worth(q) = Weight(Head(q)) + Worth(Tail(q))
  <1> DEFINE t == Tail(q)
  <1>1. /\ t \in Seq(Lines) /\ Len(q) = Len(t) + 1 /\ Len(t) \in Nat /\ Head(q) = q[1] /\ Head(q) \in Lines
        /\ \A k \in 1 .. Len(t) : t[k] = q[k + 1] /\ t[k] \in Lines
    OBVIOUS
  <1> HIDE DEF t
  <1>2. PICK f \in [0 .. Len(q) -> Int] :
               /\ Worth(q) = f[Len(q)] /\ f[0] = 0
               /\ \A k \in 1 .. Len(q) : f[k] = f[k - 1] + Weight(q[k])
    BY WorthSteps
  <1>3. PICK g \in [0 .. Len(t) -> Int] :
               /\ Worth(t) = g[Len(t)] /\ g[0] = 0
               /\ \A k \in 1 .. Len(t) : g[k] = g[k - 1] + Weight(t[k])
    BY <1>1, WorthSteps
  <1> DEFINE w == Weight(Head(q))
             Ns == {n \in Nat : n <= Len(t) => f[n + 1] = w + g[n]}
  <1>4. w \in Int /\ \A k \in 1 .. Len(t) : Weight(t[k]) \in Int
    BY <1>1, WeightIs
  <1>5. 0 \in Ns
    <2>1. 1 \in 1 .. Len(q) /\ 1 - 1 = 0 /\ 0 + 1 = 1
      BY <1>1
    <2>2. f[1] = f[0] + w
      BY <2>1, <1>1, <1>2
    <2> QED
      BY <2>1, <2>2, <1>2, <1>3, <1>4
  <1>6. ASSUME NEW n \in Nat, n \in Ns PROVE n + 1 \in Ns
    <2> SUFFICES ASSUME n + 1 <= Len(t) PROVE f[n + 1 + 1] = w + g[n + 1]
      OBVIOUS
    <2>1. f[n + 1] = w + g[n]
      BY <1>6, <1>1
    <2>2. /\ n + 1 + 1 \in 1 .. Len(q) /\ n + 1 + 1 - 1 = n + 1 /\ n + 1 \in 1 .. Len(t)
          /\ n + 1 - 1 = n /\ n \in 0 .. Len(t)
      BY <1>1
    <2>3. f[n + 1 + 1] = f[n + 1] + Weight(q[n + 1 + 1]) /\ g[n + 1] = g[n] + Weight(t[n + 1])
      BY <2>2, <1>2, <1>3
    <2>4. q[n + 1 + 1] = t[n + 1] /\ g[n] \in Int /\ Weight(t[n + 1]) \in Int
      BY <2>2, <1>1, <1>3, <1>4
    <2> HIDE DEF w
    <2> QED
      BY <2>1, <2>3, <2>4, <1>4
  <1>7. \A n \in Nat : n \in Ns
    <2> HIDE DEF Ns
    <2> QED
      BY <1>5, <1>6, SetInduction
  <1>8. f[Len(t) + 1] = w + g[Len(t)]
    BY <1>1, <1>7
  <1> QED
    BY <1>1, <1>2, <1>3, <1>8 DEF t

------------------------------------------------------------------------------
(* Sums over sets of clients *)

Dropped(k, S) == MapThenSumSet(LAMBDA c : k[c].dropped, S)

\* f is the sum over each of the subsets of S.
Sums(f, k, S) ==
  f = [s \in SUBSET S |-> IF s = {} THEN 0
                          ELSE k[CHOOSE x \in s : TRUE].dropped + f[s \ {CHOOSE x \in s : TRUE}]]

LEMMA DroppedIs ==
  ASSUME NEW k, NEW S, NEW f, Sums(f, k, S)
  PROVE  \E g : Sums(g, k, S) /\ Dropped(k, S) = g[S]
  <1> DEFINE P(g) == Sums(g, k, S)
  <1>1. P(CHOOSE g : P(g))
    <2>1. P(f)
      OBVIOUS
    <2> HIDE DEF P
    <2> QED
      BY <2>1
  <1>2. Dropped(k, S) = (CHOOSE g : P(g))[S]
    BY DEF Dropped, Sums, MapThenSumSet, MapThenFoldSet
  <1> QED
    BY <1>1, <1>2

AnyOf(s) == CHOOSE x \in s : TRUE
Counted(k, S) == \A x \in S : k[x].dropped \in Nat

LEMMA OneLess ==
  ASSUME NEW S, IsFiniteSet(S), NEW s \in SUBSET S, NEW x \in s
  PROVE  /\ IsFiniteSet(s) /\ Cardinality(s) \in Nat /\ Cardinality(s) <= Cardinality(S)
         /\ s \ {x} \in SUBSET S /\ Cardinality(s \ {x}) = Cardinality(s) - 1
         /\ Cardinality(s \ {x}) \in Nat
  <1>1. IsFiniteSet(s) /\ Cardinality(s) <= Cardinality(S)
    BY FS_Subset
  <1>2. IsFiniteSet(s \ {x}) /\ Cardinality(s \ {x}) = Cardinality(s) - 1
    BY <1>1, FS_RemoveElement
  <1> QED
    BY <1>1, <1>2, FS_CardinalityType

LEMMA SumsExist ==
  ASSUME NEW k, NEW S, IsFiniteSet(S), Counted(k, S)
  PROVE  \E f \in [SUBSET S -> Nat] : Sums(f, k, S)
  <1> DEFINE Rec(f, s) == IF s = {} THEN 0 ELSE k[AnyOf(s)].dropped + f[s \ {AnyOf(s)}]
             UpTo(f, n) == \A s \in SUBSET S : Cardinality(s) <= n => f[s] = Rec(f, s)
             Ns == {n \in Nat : \E f \in [SUBSET S -> Nat] : UpTo(f, n)}
  <1>1. \A s \in SUBSET S : IsFiniteSet(s) /\ Cardinality(s) \in Nat /\ Cardinality(s) <= Cardinality(S)
    BY FS_Subset, FS_CardinalityType
  <1>2. \A s \in SUBSET S : s # {} => /\ AnyOf(s) \in s /\ s \ {AnyOf(s)} \in SUBSET S
                                      /\ Cardinality(s \ {AnyOf(s)}) = Cardinality(s) - 1
                                      /\ k[AnyOf(s)].dropped \in Nat
    <2> TAKE s \in SUBSET S
    <2> HAVE s # {}
    <2>1. AnyOf(s) \in s
      BY DEF AnyOf
    <2> QED
      BY <2>1, OneLess DEF Counted
  <1>3. \A f \in [SUBSET S -> Nat], s \in SUBSET S : Rec(f, s) \in Nat
    <2> TAKE f \in [SUBSET S -> Nat], s \in SUBSET S
    <2>1. CASE s = {}
      BY <2>1
    <2>2. CASE s # {}
      <3>1. f[s \ {AnyOf(s)}] \in Nat /\ k[AnyOf(s)].dropped \in Nat
        BY <1>2, <2>2
      <3> QED
        BY <3>1
    <2> QED
      BY <2>1, <2>2
  <1>4. 0 \in Ns
    <2> DEFINE f == [s \in SUBSET S |-> 0]
    <2>1. \A s \in SUBSET S : Cardinality(s) <= 0 => s = {}
      BY <1>1, FS_EmptySet
    <2>2. UpTo(f, 0)
      BY <2>1
    <2>3. f \in [SUBSET S -> Nat]
      OBVIOUS
    <2> HIDE DEF UpTo, f
    <2> QED
      BY <2>2, <2>3
  <1>5. ASSUME NEW n \in Nat, n \in Ns PROVE n + 1 \in Ns
    <2>1. PICK f \in [SUBSET S -> Nat] : UpTo(f, n)
      BY <1>5
    <2> DEFINE g == [s \in SUBSET S |-> IF Cardinality(s) <= n THEN f[s] ELSE Rec(f, s)]
    <2>2. g \in [SUBSET S -> Nat]
      BY <1>3
    <2>3. \A s \in SUBSET S : Cardinality(s) <= n + 1 => g[s] = Rec(g, s)
      <3> SUFFICES ASSUME NEW s \in SUBSET S, Cardinality(s) <= n + 1 PROVE g[s] = Rec(g, s)
        OBVIOUS
      <3>1. g[s] = Rec(f, s)
        BY <2>1
      <3>2. ASSUME s # {} PROVE g[s \ {AnyOf(s)}] = f[s \ {AnyOf(s)}]
        <4>1. Cardinality(s \ {AnyOf(s)}) <= n /\ s \ {AnyOf(s)} \in SUBSET S
          BY <3>2, <1>1, <1>2
        <4> QED
          BY <4>1
      <3> QED
        BY <3>1, <3>2
    <2> HIDE DEF g
    <2> QED
      BY <2>2, <2>3
  <1>6. \A n \in Nat : n \in Ns
    <2> HIDE DEF Ns
    <2> QED
      BY <1>4, <1>5, SetInduction
  <1>7. Cardinality(S) \in Nat
    BY FS_CardinalityType
  <1>8. PICK f \in [SUBSET S -> Nat] : UpTo(f, Cardinality(S))
    BY <1>6, <1>7
  <1>9. \A s \in SUBSET S : f[s] = Rec(f, s)
    BY <1>1, <1>8
  <1>10. f = [s \in SUBSET S |-> Rec(f, s)]
    BY <1>9
  <1> QED
    BY <1>10 DEF Sums, AnyOf

\* The sum over a set does not depend on the set it is a subset of.
LEMMA SumsSame ==
  ASSUME NEW k, NEW S, IsFiniteSet(S), NEW T \in SUBSET S, NEW f, NEW g, Sums(f, k, S), Sums(g, k, T)
  PROVE  \A s \in SUBSET T : f[s] = g[s]
  <1> DEFINE Ns == {n \in Nat : \A s \in SUBSET T : Cardinality(s) = n => f[s] = g[s]}
  <1>1. \A s \in SUBSET T : /\ s \in SUBSET S
                            /\ f[s] = IF s = {} THEN 0 ELSE k[AnyOf(s)].dropped + f[s \ {AnyOf(s)}]
                            /\ g[s] = IF s = {} THEN 0 ELSE k[AnyOf(s)].dropped + g[s \ {AnyOf(s)}]
    BY DEF Sums, AnyOf
  <1>2. \A s \in SUBSET T : s # {} => /\ AnyOf(s) \in s /\ s \ {AnyOf(s)} \in SUBSET T
                                      /\ Cardinality(s \ {AnyOf(s)}) = Cardinality(s) - 1
                                      /\ Cardinality(s) \in Nat
    <2> TAKE s \in SUBSET T
    <2> HAVE s # {}
    <2>1. AnyOf(s) \in s
      BY DEF AnyOf
    <2> QED
      BY <2>1, OneLess, <1>1
  <1>3. 0 \in Ns
    <2>1. \A s \in SUBSET T : Cardinality(s) = 0 => s = {}
      BY FS_Subset, FS_EmptySet, <1>1
    <2> QED
      BY <2>1, <1>1
  <1>4. ASSUME NEW n \in Nat, n \in Ns PROVE n + 1 \in Ns
    <2> SUFFICES ASSUME NEW s \in SUBSET T, Cardinality(s) = n + 1 PROVE f[s] = g[s]
      OBVIOUS
    <2>1. CASE s = {}
      BY <2>1, <1>1
    <2>2. CASE s # {}
      <3>1. Cardinality(s \ {AnyOf(s)}) = n /\ s \ {AnyOf(s)} \in SUBSET T
        BY <2>2, <1>2
      <3>2. f[s \ {AnyOf(s)}] = g[s \ {AnyOf(s)}]
        BY <3>1, <1>4
      <3> QED
        BY <3>2, <2>2, <1>1
    <2> QED
      BY <2>1, <2>2
  <1>5. \A n \in Nat : n \in Ns
    <2> HIDE DEF Ns
    <2> QED
      BY <1>3, <1>4, SetInduction
  <1> TAKE s \in SUBSET T
  <1>6. Cardinality(s) \in Nat
    BY <1>1, FS_Subset, FS_CardinalityType
  <1> QED
    BY <1>5, <1>6

LEMMA DroppedStep ==
  ASSUME NEW k, NEW S, IsFiniteSet(S), Counted(k, S)
  PROVE  /\ Dropped(k, S) \in Nat
         /\ S = {} => Dropped(k, S) = 0
         /\ S # {} => /\ AnyOf(S) \in S
                      /\ Dropped(k, S) = k[AnyOf(S)].dropped + Dropped(k, S \ {AnyOf(S)})
  <1>1. PICK f \in [SUBSET S -> Nat] : Sums(f, k, S)
    BY SumsExist
  <1>2. PICK g : Sums(g, k, S) /\ Dropped(k, S) = g[S]
    BY <1>1, DroppedIs
  <1>3. \A s \in SUBSET S : g[s] \in Nat
    BY <1>1, <1>2, SumsSame
  <1>4. g[S] = IF S = {} THEN 0 ELSE k[AnyOf(S)].dropped + g[S \ {AnyOf(S)}]
    BY <1>2 DEF Sums, AnyOf
  <1>5. ASSUME S # {} PROVE AnyOf(S) \in S /\ Dropped(k, S \ {AnyOf(S)}) = g[S \ {AnyOf(S)}]
    <2> DEFINE T == S \ {AnyOf(S)}
    <2>1. AnyOf(S) \in S
      BY <1>5 DEF AnyOf
    <2>2. T \in SUBSET S /\ IsFiniteSet(T) /\ Counted(k, T)
      BY FS_Subset DEF Counted
    <2> HIDE DEF T
    <2>3. PICK e : Sums(e, k, T)
      BY <2>2, SumsExist
    <2>4. PICK h : Sums(h, k, T) /\ Dropped(k, T) = h[T]
      BY <2>3, DroppedIs
    <2>5. g[T] = h[T]
      BY <1>2, <2>2, <2>4, SumsSame
    <2> QED
      BY <2>1, <2>4, <2>5 DEF T
  <1> QED
    BY <1>2, <1>3, <1>4, <1>5

\* Whichever is taken first.
LEMMA DroppedAny ==
  ASSUME NEW k, NEW S, IsFiniteSet(S), Counted(k, S), NEW y \in S
  PROVE  Dropped(k, S) = k[y].dropped + Dropped(k, S \ {y})
  <1> DEFINE Ns == {n \in Nat : \A s \in SUBSET S : Cardinality(s) = n =>
                      \A z \in s : Dropped(k, s) = k[z].dropped + Dropped(k, s \ {z})}
  <1>1. \A s \in SUBSET S : /\ IsFiniteSet(s) /\ Cardinality(s) \in Nat /\ Counted(k, s)
                            /\ Dropped(k, s) \in Nat
    BY FS_Subset, FS_CardinalityType, DroppedStep DEF Counted
  <1>2. 0 \in Ns
    BY <1>1, FS_EmptySet
  <1>3. ASSUME NEW n \in Nat, n \in Ns PROVE n + 1 \in Ns
    <2> SUFFICES ASSUME NEW s \in SUBSET S, Cardinality(s) = n + 1, NEW z \in s
                 PROVE  Dropped(k, s) = k[z].dropped + Dropped(k, s \ {z})
      OBVIOUS
    <2>1. PICK x \in s : Dropped(k, s) = k[x].dropped + Dropped(k, s \ {x})
      BY <1>1, DroppedStep
    <2>2. CASE x = z
      BY <2>1, <2>2
    <2>3. CASE x # z
      <3> DEFINE a == s \ {x}  b == s \ {z}  both == (s \ {x}) \ {z}
      <3>1. a \in SUBSET S /\ b \in SUBSET S /\ both \in SUBSET S /\ z \in a /\ x \in b
            /\ a \ {z} = both /\ b \ {x} = both
        BY <2>3
      <3>2. Cardinality(a) = n /\ Cardinality(b) = n
        BY OneLess
      <3>3. Dropped(k, a) = k[z].dropped + Dropped(k, both)
        BY <3>1, <3>2, <1>3
      <3>4. Dropped(k, b) = k[x].dropped + Dropped(k, both)
        BY <3>1, <3>2, <1>3
      <3>5. k[x].dropped \in Nat /\ k[z].dropped \in Nat /\ Dropped(k, both) \in Nat
        BY <3>1, <1>1 DEF Counted
      <3> HIDE DEF both
      <3>6. Dropped(k, s) = k[x].dropped + (k[z].dropped + Dropped(k, both))
        BY <2>1, <3>3
      <3> QED
        BY <3>4, <3>5, <3>6
    <2> QED
      BY <2>2, <2>3
  <1>4. \A n \in Nat : n \in Ns
    <2> HIDE DEF Ns
    <2> QED
      BY <1>2, <1>3, SetInduction
  <1> QED
    BY <1>1, <1>4

LEMMA DroppedMore ==
  ASSUME NEW k, NEW h, NEW A, NEW B, IsFiniteSet(B), A \subseteq B, Counted(k, A), Counted(h, B),
         \A x \in A : k[x].dropped <= h[x].dropped
  PROVE  Dropped(k, A) <= Dropped(h, B)
  <1> DEFINE Ns == {n \in Nat : \A a \in SUBSET A, b \in SUBSET B : a \subseteq b /\ Cardinality(b) = n =>
                      Dropped(k, a) <= Dropped(h, b)}
  <1>1. \A b \in SUBSET B : /\ IsFiniteSet(b) /\ Cardinality(b) \in Nat /\ Counted(h, b)
                            /\ Dropped(h, b) \in Nat
    BY FS_Subset, FS_CardinalityType, DroppedStep DEF Counted
  <1>2. \A a \in SUBSET A : IsFiniteSet(a) /\ Counted(k, a) /\ Dropped(k, a) \in Nat
    BY FS_Subset, DroppedStep DEF Counted
  <1>3. 0 \in Ns
    <2> SUFFICES ASSUME NEW a \in SUBSET A, NEW b \in SUBSET B, a \subseteq b, Cardinality(b) = 0
                 PROVE  Dropped(k, a) <= Dropped(h, b)
      OBVIOUS
    <2>1. b = {} /\ a = {}
      BY <1>1, FS_EmptySet
    <2>2. Dropped(k, a) = 0 /\ Dropped(h, b) = 0
      BY <2>1, <1>1, <1>2, DroppedStep
    <2> QED
      BY <2>2
  <1>4. ASSUME NEW n \in Nat, n \in Ns PROVE n + 1 \in Ns
    <2> SUFFICES ASSUME NEW a \in SUBSET A, NEW b \in SUBSET B, a \subseteq b, Cardinality(b) = n + 1
                 PROVE  Dropped(k, a) <= Dropped(h, b)
      OBVIOUS
    <2>1. b # {}
      BY FS_EmptySet
    <2>2. PICK y \in b : Dropped(h, b) = h[y].dropped + Dropped(h, b \ {y})
      BY <2>1, <1>1, DroppedStep
    <2> DEFINE c == b \ {y}  d == a \ {y}
    <2>3. Cardinality(c) = n /\ c \in SUBSET B /\ d \in SUBSET A /\ d \subseteq c
      <3>1. Cardinality(c) = n
        BY OneLess
      <3> QED
        BY <3>1
    <2>4. Dropped(k, d) <= Dropped(h, c)
      BY <2>3, <1>4
    <2>5. h[y].dropped \in Nat /\ Dropped(h, c) \in Nat /\ Dropped(k, d) \in Nat
      BY <2>3, <1>1, <1>2 DEF Counted
    <2>8. Dropped(h, b) = h[y].dropped + Dropped(h, c)
      BY <2>2
    <2>6. CASE y \in a
      <3>1. Dropped(k, a) = k[y].dropped + Dropped(k, d)
        BY <2>6, <1>2, DroppedAny
      <3>2. k[y].dropped \in Nat /\ k[y].dropped <= h[y].dropped
        BY <2>6 DEF Counted
      <3> HIDE DEF c, d
      <3> QED
        BY <3>1, <3>2, <2>4, <2>5, <2>8
    <2>7. CASE y \notin a
      <3>1. d = a
        BY <2>7
      <3> HIDE DEF c, d
      <3> QED
        BY <3>1, <2>4, <2>5, <2>8
    <2> QED
      BY <2>6, <2>7
  <1>5. \A n \in Nat : n \in Ns
    <2> HIDE DEF Ns
    <2> QED
      BY <1>3, <1>4, SetInduction
  <1> QED
    BY <1>1, <1>5

LEMMA DroppedApart ==
  ASSUME NEW k, NEW S, IsFiniteSet(S), Counted(k, S), NEW T \in SUBSET S
  PROVE  Dropped(k, S) = Dropped(k, T) + Dropped(k, S \ T)
  <1> DEFINE Ns == {n \in Nat : \A t \in SUBSET S : Cardinality(t) = n =>
                      Dropped(k, S) = Dropped(k, t) + Dropped(k, S \ t)}
  <1>1. \A s \in SUBSET S : /\ IsFiniteSet(s) /\ Cardinality(s) \in Nat /\ Counted(k, s)
                            /\ Dropped(k, s) \in Nat
    BY FS_Subset, FS_CardinalityType, DroppedStep DEF Counted
  <1>2. 0 \in Ns
    <2> SUFFICES ASSUME NEW t \in SUBSET S, Cardinality(t) = 0
                 PROVE  Dropped(k, S) = Dropped(k, t) + Dropped(k, S \ t)
      OBVIOUS
    <2>1. t = {} /\ S \ t = S
      BY <1>1, FS_EmptySet
    <2>2. Dropped(k, t) = 0 /\ Dropped(k, S) \in Nat
      BY <2>1, <1>1, DroppedStep
    <2> QED
      BY <2>1, <2>2
  <1>3. ASSUME NEW n \in Nat, n \in Ns PROVE n + 1 \in Ns
    <2> SUFFICES ASSUME NEW t \in SUBSET S, Cardinality(t) = n + 1
                 PROVE  Dropped(k, S) = Dropped(k, t) + Dropped(k, S \ t)
      OBVIOUS
    <2>1. PICK y \in t : TRUE
      BY FS_EmptySet
    <2> DEFINE u == t \ {y}
    <2>2. u \in SUBSET S /\ Cardinality(u) = n /\ y \in S \ u /\ (S \ u) \ {y} = S \ t
      <3>1. Cardinality(u) = n
        BY <1>1, OneLess
      <3> QED
        BY <3>1
    <2>3. Dropped(k, S) = Dropped(k, u) + Dropped(k, S \ u)
      BY <2>2, <1>3
    <2>4. Dropped(k, t) = k[y].dropped + Dropped(k, u)
      BY <1>1, DroppedAny
    <2>5. Dropped(k, S \ u) = k[y].dropped + Dropped(k, S \ t)
      <3>1. IsFiniteSet(S \ u) /\ Counted(k, S \ u)
        BY <1>1
      <3> HIDE DEF u
      <3>2. Dropped(k, S \ u) = k[y].dropped + Dropped(k, (S \ u) \ {y})
        BY <3>1, <2>2, DroppedAny
      <3> QED
        BY <3>2, <2>2
    <2>6. /\ k[y].dropped \in Nat /\ Dropped(k, u) \in Nat /\ Dropped(k, S \ t) \in Nat
      BY <2>2, <1>1 DEF Counted
    <2> HIDE DEF u
    <2> QED
      BY <2>3, <2>4, <2>5, <2>6
  <1>4. \A n \in Nat : n \in Ns
    <2> HIDE DEF Ns
    <2> QED
      BY <1>2, <1>3, SetInduction
  <1> QED
    BY <1>1, <1>4

------------------------------------------------------------------------------
(* What a client is sent and told it lost *)

\* What client k with history g, still to be offered t, was sent and told adds up.
Balanced(k, g, t, n) ==
  n - g.joined = g.got + g.told + Worth(k.queue) + k.batches + Worth(t)

TapOnly(t) == \A k \in 1 .. Len(t) : t[k].kind = "dropped" => t[k].tap

\* A client that is not on yet has lost nothing, and of losses only the tap's are
\* still to be offered.
Settled(k, g, t, n) ==
  /\ k.alive => Balanced(k, g, t, n)
  /\ k.at \in {"out", "arrived"} => k.batches = 0
  /\ TapOnly(t)

Accounted == \A c \in Clients : Settled(client[c], seen[c], todo[c], seq)

LEMMA OneSettled ==
  ASSUME StreamTypes, Accounted, UNCHANGED seq, NEW c \in Clients, NEW k, NEW g, NEW t,
         client' = [client EXCEPT ![c] = k], seen' = [seen EXCEPT ![c] = g],
         todo' = [todo EXCEPT ![c] = t], Settled(k, g, t, seq)
  PROVE  Accounted'
  <1>1. /\ client'[c] = k /\ seen'[c] = g /\ todo'[c] = t
        /\ \A d \in Clients : d # c => client'[d] = client[d] /\ seen'[d] = seen[d] /\ todo'[d] = todo[d]
    BY DEF StreamTypes
  <1>2. \A d \in Clients : Settled(client'[d], seen'[d], todo'[d], seq')
    BY <1>1 DEF Accounted
  <1> QED
    BY <1>2 DEF Accounted

LEMMA ClientNumbers ==
  ASSUME NEW k \in ClientStates
  PROVE  /\ k.batches \in Nat /\ k.messages \in Nat /\ k.dropped \in Nat /\ k.queue \in Seq(Lines)
         /\ k.alive \in BOOLEAN /\ k.tried \in BOOLEAN /\ Worth(k.queue) \in Int
  BY WorthIs DEF ClientStates

LEMMA HistoryNumbers ==
  ASSUME NEW g \in Histories
  PROVE  g.joined \in Nat /\ g.got \in Nat /\ g.told \in Int
  BY DEF Histories

LEMMA WriteSettled ==
  ASSUME StreamTypes, Accounted, NEW c \in Clients, Write(c)
  PROVE  Accounted'
  <1> PICK h \in ClientStates, s \in Histories, t \in Seq(Lines) :
           h = client[c] /\ s = seen[c] /\ t = todo[c]
    BY DEF StreamTypes
  <1>1. h.alive /\ h.queue # <<>> /\ UNCHANGED seq /\ todo' = [todo EXCEPT ![c] = t]
    BY DEF Write, fanVars, StreamTypes
  <1> PICK q \in Seq(Lines), line \in Lines : q = Tail(h.queue) /\ line = Head(h.queue)
    <2>1. h.queue \in Seq(Lines) /\ h.queue # <<>>
      BY <1>1, ClientNumbers
    <2> QED
      BY <2>1, TailIs
  <1> PICK k, g : /\ k = [h EXCEPT !.queue = q]
                  /\ g = [s EXCEPT !.got = IF line.kind = "samples" THEN @ + 1 ELSE @,
                                   !.told = IF line.kind = "dropped" /\ ~line.tap THEN @ + line.batches ELSE @]
    OBVIOUS
  <1>2. client' = [client EXCEPT ![c] = k] /\ seen' = [seen EXCEPT ![c] = g]
    BY DEF Write, StreamTypes
  <1>3. k.queue = q /\ k.batches = h.batches /\ k.at = h.at
    BY DEF ClientStates
  <1>4. /\ g.joined = s.joined
        /\ g.got = IF line.kind = "samples" THEN s.got + 1 ELSE s.got
        /\ g.told = IF line.kind = "dropped" /\ ~line.tap THEN s.told + line.batches ELSE s.told
    BY DEF Histories
  <1>5. Worth(h.queue) = Weight(line) + Worth(q) /\ Worth(q) \in Int /\ Weight(line) \in Int
    <2>1. h.queue \in Seq(Lines)
      BY ClientNumbers
    <2> QED
      BY <2>1, <1>1, WorthTail, WorthIs, WeightIs
  <1>6. g.got + g.told = s.got + s.told + Weight(line)
    <2>1. s.got \in Nat /\ s.told \in Int
      BY HistoryNumbers
    <2>2. Weight(line) = IF line.kind = "samples" THEN 1
                         ELSE IF line.kind = "dropped" /\ ~line.tap THEN line.batches ELSE 0
      BY DEF Weight
    <2>3. CASE line.kind = "samples"
      <3>1. line.kind # "dropped"
        BY <2>3
      <3>2. g.got = s.got + 1 /\ g.told = s.told /\ Weight(line) = 1
        BY <1>4, <2>2, <2>3, <3>1
      <3> QED
        BY <3>2, <2>1
    <2>4. CASE line.kind # "samples"
      BY <1>4, <1>5, <2>1, <2>2, <2>4
    <2> QED
      BY <2>3, <2>4
  <1>7. Settled(h, s, t, seq)
    BY DEF Accounted
  <1>8. Settled(k, g, t, seq)
    <2>1. seq - s.joined = s.got + s.told + Worth(h.queue) + h.batches + Worth(t)
      BY <1>1, <1>7 DEF Settled, Balanced
    <2>2. PICK a \in Int, b \in Int, e \in Int, f \in Int :
            a = s.got + s.told /\ b = Worth(q) /\ e = Weight(line) /\ f = g.got + g.told
      BY <1>4, <1>5, <1>6, HistoryNumbers
    <2>3. h.batches \in Nat /\ Worth(t) \in Int
      BY ClientNumbers, WorthIs
    <2>4. seq - g.joined = f + b + h.batches + Worth(t)
      BY <1>4, <1>5, <1>6, <2>1, <2>2, <2>3
    <2>5. Balanced(k, g, t, seq)
      BY <1>3, <2>2, <2>4 DEF Balanced
    <2> QED
      BY <1>3, <1>7, <2>5 DEF Settled
  <1> QED
    BY <1>1, <1>2, <1>8, OneSettled

LEMMA NoticeSettled ==
  ASSUME StreamTypes, Accounted, NEW c \in Clients, OfferNotice(c)
  PROVE  Accounted'
  <1> PICK h \in ClientStates, s \in Histories, t \in Seq(Lines) :
           h = client[c] /\ s = seen[c] /\ t = todo[c]
    BY DEF StreamTypes
  <1>1. /\ h.alive /\ UNCHANGED seq /\ todo' = [todo EXCEPT ![c] = t] /\ seen' = [seen EXCEPT ![c] = s]
        /\ client' = [client EXCEPT ![c] = AfterNotice(c)]
    BY DEF OfferNotice, fanVars, StreamTypes
  <1>2. Settled(h, s, t, seq)
    BY DEF Accounted
  <1>3. /\ h.batches \in Nat /\ h.queue \in Seq(Lines) /\ Worth(h.queue) \in Int
    BY ClientNumbers
  <1> PICK n \in Lines : n = Notice(h.batches, FALSE)
    <2>1. h.batches \in Int
      BY <1>3
    <2> QED
      BY <2>1, LinesAre
  <1> PICK q : q = Append(h.queue, n)
    OBVIOUS
  <1>4. Worth(q) = Worth(h.queue) + h.batches
    <2>1. Weight(n) = h.batches
      BY DEF Weight, Notice
    <2> QED
      BY <2>1, <1>3, WorthAppend
  <1>5. Settled(AfterNotice(c), s, t, seq)
    <2>1. CASE Fits(c)
      <3> PICK k : k = Noticed(h, q)
        OBVIOUS
      <3>1. AfterNotice(c) = k
        BY <2>1 DEF AfterNotice, Noticed
      <3>2. k.queue = q /\ k.batches = 0 /\ k.at = h.at /\ k.alive = h.alive
        BY DEF Noticed, ClientStates
      <3>3. Balanced(h, s, t, seq)
        BY <1>1, <1>2 DEF Settled
      <3>4. Balanced(k, s, t, seq)
        <4>1. PICK a \in Int, b \in Int, w \in Int, x \in Int :
                a = s.got + s.told /\ b = h.batches /\ w = Worth(h.queue) /\ x = Worth(t)
          <5>1. s.got + s.told \in Int
            BY HistoryNumbers
          <5>2. Worth(t) \in Int /\ h.batches \in Int /\ Worth(h.queue) \in Int
            BY <1>3, WorthIs
          <5> QED
            BY <5>1, <5>2
        <4>2. seq - s.joined = a + w + b + x
          BY <3>3, <4>1 DEF Balanced
        <4>3. seq - s.joined = a + (w + b) + 0 + x
          BY <4>1, <4>2
        <4> QED
          BY <3>2, <4>1, <4>3, <1>4 DEF Balanced
      <3>5. Settled(k, s, t, seq)
        BY <3>2, <3>4, <1>2 DEF Settled
      <3> QED
        BY <3>1, <3>5
    <2>2. CASE ~Fits(c)
      <3> PICK k : k = [h EXCEPT !.tried = TRUE]
        OBVIOUS
      <3>1. AfterNotice(c) = k
        BY <2>2 DEF AfterNotice
      <3>2. k.queue = h.queue /\ k.batches = h.batches /\ k.at = h.at /\ k.alive = h.alive
        BY DEF ClientStates
      <3>3. Settled(k, s, t, seq)
        BY <3>2, <1>2 DEF Settled, Balanced
      <3> QED
        BY <3>1, <3>3
    <2> QED
      BY <2>1, <2>2
  <1> QED
    BY <1>1, <1>5, OneSettled

\* Lines that were queued or lost change no number of the history.
LEMMA SeenNumbers ==
  ASSUME StreamTypes, NEW c \in Clients, NEW line
  PROVE  \A g \in {SeenQueued(c, line), SeenLost(c, line)} :
           g.joined = seen[c].joined /\ g.got = seen[c].got /\ g.told = seen[c].told
  <1> PICK s \in Histories : s = seen[c]
    BY DEF StreamTypes
  <1>1. SeenQueued(c, line) \in {s, [s EXCEPT !.columns = <<line.set>>],
          [s EXCEPT !.announced = line.set, !.excused = FALSE, !.columns = <<>>]}
    BY DEF SeenQueued
  <1>2. SeenLost(c, line) \in {s, [s EXCEPT !.excused = TRUE]}
    BY DEF SeenLost
  <1>3. /\ [s EXCEPT !.columns = <<line.set>>].joined = s.joined
        /\ [s EXCEPT !.columns = <<line.set>>].got = s.got
        /\ [s EXCEPT !.columns = <<line.set>>].told = s.told
    BY DEF Histories
  <1>4. LET g == [s EXCEPT !.announced = line.set, !.excused = FALSE, !.columns = <<>>]
        IN  g.joined = s.joined /\ g.got = s.got /\ g.told = s.told
    BY DEF Histories
  <1>5. LET g == [s EXCEPT !.excused = TRUE]
        IN  g.joined = s.joined /\ g.got = s.got /\ g.told = s.told
    BY DEF Histories
  <1> QED
    BY <1>1, <1>2, <1>3, <1>4, <1>5

LEMMA TapOnlyTail ==
  ASSUME NEW t \in Seq(Lines), t # <<>>, TapOnly(t)
  PROVE  TapOnly(Tail(t)) /\ (Head(t).kind = "dropped" => Head(t).tap)
  <1>1. /\ Len(Tail(t)) = Len(t) - 1 /\ Len(t) \in Nat \ {0} /\ Head(t) = t[1]
        /\ \A k \in 1 .. Len(t) - 1 : Tail(t)[k] = t[k + 1]
    BY TailIs
  <1> PICK u : u = Tail(t)
    OBVIOUS
  <1>2. 1 \in 1 .. Len(t) /\ \A k \in 1 .. Len(u) : u[k] = t[k + 1] /\ k + 1 \in 1 .. Len(t)
    BY <1>1
  <1>3. TapOnly(u)
    BY <1>2 DEF TapOnly
  <1>4. Head(t).kind = "dropped" => Head(t).tap
    BY <1>1, <1>2 DEF TapOnly
  <1> QED
    BY <1>3, <1>4

LEMMA OfferLineSettled ==
  ASSUME StreamTypes, Accounted, NEW c \in Clients, OfferLine(c)
  PROVE  Accounted'
  <1> PICK h \in ClientStates, s \in Histories, t \in Seq(Lines) :
           h = client[c] /\ s = seen[c] /\ t = todo[c]
    BY DEF StreamTypes
  <1>1. /\ h.alive /\ h.at = "on" /\ t # <<>> /\ UNCHANGED seq
    BY DEF OfferLine, fanVars, StreamTypes
  <1> PICK u \in Seq(Lines), line \in Lines : u = Tail(t) /\ line = Head(t)
    BY <1>1, TailIs
  <1>2. todo' = [todo EXCEPT ![c] = u]
    BY DEF OfferLine
  <1>3. Settled(h, s, t, seq)
    BY DEF Accounted
  <1>4. /\ h.batches \in Nat /\ h.queue \in Seq(Lines) /\ Worth(h.queue) \in Int
        /\ h.messages \in Nat /\ h.dropped \in Nat
    BY ClientNumbers
  <1>5. Worth(t) = Weight(line) + Worth(u) /\ Worth(u) \in Int /\ Weight(line) \in Int
    BY <1>1, WorthTail, WorthIs, WeightIs
  <1>6. TapOnly(u) /\ (line.kind = "dropped" => line.tap)
    BY <1>1, <1>3, TapOnlyTail DEF Settled
  <1>7. Weight(line) = IF line.kind = "samples" THEN 1 ELSE 0
    BY <1>6 DEF Weight
  <1>8. PICK a \in Int : a = s.got + s.told
    BY HistoryNumbers
  <1>9. seq - s.joined = a + Worth(h.queue) + h.batches + Worth(t)
    BY <1>1, <1>3, <1>8 DEF Settled, Balanced
  <1>10. ASSUME NEW k, NEW g, client' = [client EXCEPT ![c] = k], seen' = [seen EXCEPT ![c] = g],
                g \in {SeenQueued(c, line), SeenLost(c, line)}, k.at = "on",
                Worth(k.queue) + k.batches = Worth(h.queue) + h.batches + Weight(line),
                Worth(k.queue) \in Int, k.batches \in Int
         PROVE  Accounted'
    <2>1. g.joined = s.joined /\ g.got = s.got /\ g.told = s.told
      BY <1>10, SeenNumbers
    <2>2. seq - g.joined = g.got + g.told + Worth(k.queue) + k.batches + Worth(u)
      <3>1. PICK p \in Int, r \in Int : p = Worth(k.queue) /\ r = k.batches
        BY <1>10
      <3>2. PICK b \in Int, w \in Int, x \in Int, e \in Int :
              b = h.batches /\ w = Worth(h.queue) /\ x = Worth(u) /\ e = Weight(line)
        BY <1>4, <1>5
      <3>3. seq - s.joined = a + w + b + (e + x) /\ p + r = w + b + e
        BY <3>1, <3>2, <1>5, <1>9, <1>10
      <3>4. a + w + b + (e + x) = a + p + r + x
        <4>1. p = w + b + e - r
          BY <3>3
        <4> QED
          BY <4>1
      <3>5. seq - s.joined = a + p + r + Worth(u)
        BY <3>2, <3>3, <3>4
      <3> QED
        BY <2>1, <3>1, <3>5, <1>8
    <2>3. Settled(k, g, u, seq)
      BY <2>2, <1>6, <1>10 DEF Settled, Balanced
    <2> QED
      BY <2>3, <1>1, <1>2, <1>10, OneSettled
  <1>11. CASE /\ client' = [client EXCEPT ![c].tried = FALSE, ![c].queue = Append(@, line)]
              /\ seen' = [seen EXCEPT ![c] = SeenQueued(c, line)]
    <2> PICK q : q = Append(h.queue, line)
      OBVIOUS
    <2> PICK k : k = [h EXCEPT !.tried = FALSE, !.queue = q]
      OBVIOUS
    <2>1. client' = [client EXCEPT ![c] = k]
      BY <1>11 DEF StreamTypes, ClientStates
    <2>2. k.at = "on" /\ k.queue = q /\ k.batches = h.batches
      BY <1>1 DEF ClientStates
    <2>3. Worth(q) = Worth(h.queue) + Weight(line)
      BY <1>4, WorthAppend
    <2>4. Worth(k.queue) + k.batches = Worth(h.queue) + h.batches + Weight(line) /\ Worth(k.queue) \in Int
      <3>1. PICK b \in Int, w \in Int, e \in Int : b = h.batches /\ w = Worth(h.queue) /\ e = Weight(line)
        BY <1>4, <1>5
      <3>2. Worth(k.queue) = w + e /\ k.batches = b
        BY <2>2, <2>3, <3>1
      <3>3. w + e + b = w + b + e /\ w + e \in Int
        OBVIOUS
      <3> QED
        BY <3>1, <3>2, <3>3
    <2> PICK g : g = SeenQueued(c, line)
      OBVIOUS
    <2>5. k.batches \in Int
      BY <2>2, <1>4
    <2>6. seen' = [seen EXCEPT ![c] = g] /\ g \in {SeenQueued(c, line), SeenLost(c, line)}
      BY <1>11
    <2> QED
      BY <2>1, <2>2, <2>4, <2>5, <2>6, <1>10
  <1>12. CASE /\ line.kind = "samples"
              /\ client' = [client EXCEPT ![c].tried = FALSE, ![c].batches = h.batches + 1,
                              ![c].dropped = @ + 1, ![c].alive = KeepsUp(h.batches + 1)]
              /\ seen' = [seen EXCEPT ![c] = SeenLost(c, line)]
    <2> PICK k : k = [h EXCEPT !.tried = FALSE, !.batches = h.batches + 1,
                               !.dropped = h.dropped + 1, !.alive = KeepsUp(h.batches + 1)]
      OBVIOUS
    <2>1. client' = [client EXCEPT ![c] = k]
      BY <1>12 DEF StreamTypes, ClientStates
    <2>2. k.at = "on" /\ k.queue = h.queue /\ k.batches = h.batches + 1
      BY <1>1 DEF ClientStates
    <2>3. Worth(k.queue) + k.batches = Worth(h.queue) + h.batches + Weight(line) /\ Worth(k.queue) \in Int
      BY <2>2, <1>4, <1>7, <1>12
    <2> PICK g : g = SeenLost(c, line)
      OBVIOUS
    <2>5. k.batches \in Int
      BY <2>2, <1>4
    <2>6. seen' = [seen EXCEPT ![c] = g] /\ g \in {SeenQueued(c, line), SeenLost(c, line)}
      BY <1>12
    <2> QED
      BY <2>1, <2>2, <2>3, <2>5, <2>6, <1>10
  <1>13. CASE /\ line.kind # "samples"
              /\ client' = [client EXCEPT ![c].tried = FALSE, ![c].messages = @ + 1,
                              ![c].alive = KeepsUp(h.batches)]
              /\ seen' = [seen EXCEPT ![c] = SeenLost(c, line)]
    <2> PICK k : k = [h EXCEPT !.tried = FALSE, !.messages = h.messages + 1,
                               !.alive = KeepsUp(h.batches)]
      OBVIOUS
    <2>1. client' = [client EXCEPT ![c] = k]
      BY <1>13 DEF StreamTypes, ClientStates
    <2>2. k.at = "on" /\ k.queue = h.queue /\ k.batches = h.batches
      BY <1>1 DEF ClientStates
    <2>3. Worth(k.queue) + k.batches = Worth(h.queue) + h.batches + Weight(line) /\ Worth(k.queue) \in Int
      BY <2>2, <1>4, <1>7, <1>13
    <2> PICK g : g = SeenLost(c, line)
      OBVIOUS
    <2>5. k.batches \in Int
      BY <2>2, <1>4
    <2>6. seen' = [seen EXCEPT ![c] = g] /\ g \in {SeenQueued(c, line), SeenLost(c, line)}
      BY <1>13
    <2> QED
      BY <2>1, <2>2, <2>3, <2>5, <2>6, <1>10
  <1> QED
    BY <1>11, <1>12, <1>13 DEF OfferLine

LEMMA AddSettled ==
  ASSUME StreamTypes, Accounted, NEW c \in Clients, Add(c)
  PROVE  Accounted'
  <1> PICK h \in ClientStates : h = client[c]
    BY DEF StreamTypes
  <1>1. UNCHANGED seq /\ todo[c] = <<>> /\ h.at = "arrived" /\ todo' = [todo EXCEPT ![c] = <<>>]
    BY DEF Add, fanVars, StreamTypes
  <1> PICK q : q = <<Hello(known)>>
    OBVIOUS
  <1> PICK k : k = [h EXCEPT !.at = "on", !.alive = TRUE, !.queue = q]
    OBVIOUS
  <1> PICK g : g = Joining(seq, known)
    OBVIOUS
  <1>2. client' = [client EXCEPT ![c] = k] /\ seen' = [seen EXCEPT ![c] = g]
    BY DEF Add, StreamTypes, ClientStates, Joining
  <1>3. Worth(q) = 0
    <2>1. Hello(known) \in Lines /\ Weight(Hello(known)) = 0
      BY LinesAre DEF StreamTypes, Hello, Weight
    <2>2. q = Append(<<>>, Hello(known)) /\ <<>> \in Seq(Lines)
      OBVIOUS
    <2>3. Worth(q) = 0 + 0
      BY <2>1, <2>2, WorthEmpty, WorthAppend
    <2> QED
      BY <2>3
  <1>4. h.batches = 0
    BY <1>1 DEF Accounted, Settled
  <1>5. k.queue = q /\ k.batches = 0 /\ k.at = "on"
    BY <1>4 DEF ClientStates
  <1>6. g.joined = seq /\ g.got = 0 /\ g.told = 0
    BY DEF Joining, Unseen
  <1>7. seq \in Nat
    BY DEF StreamTypes
  <1>8. seq - g.joined = g.got + g.told + Worth(k.queue) + k.batches + Worth(<<>>)
    BY <1>3, <1>5, <1>6, <1>7, WorthEmpty
  <1>9. TapOnly(<<>>)
    BY DEF TapOnly
  <1>10. Settled(k, g, <<>>, seq)
    BY <1>5, <1>8, <1>9 DEF Settled, Balanced
  <1> QED
    BY <1>1, <1>2, <1>10, OneSettled

\* Lines with none of a client's own losses, and worth so much; and one more line.
Plain(q, n) == q \in Seq(Lines) /\ TapOnly(q) /\ Worth(q) = n

LEMMA PlainMore ==
  ASSUME NEW n \in Nat, NEW q, Plain(q, n), NEW x \in Lines, x.kind = "dropped" => x.tap,
         NEW m, m = n + Weight(x)
  PROVE  Plain(q \o <<x>>, m)
  <1> PICK u : u = Append(q, x)
    OBVIOUS
  <1>1. q \in Seq(Lines) /\ TapOnly(q) /\ Worth(q) = n
    BY DEF Plain
  <1>2. q \o <<x>> = u
    BY <1>1
  <1>3. u \in Seq(Lines) /\ Len(u) = Len(q) + 1 /\ u[Len(q) + 1] = x /\ Len(q) \in Nat
        /\ \A k \in 1 .. Len(q) : u[k] = q[k]
    BY <1>1
  <1>4. \A k \in 1 .. Len(u) : k \in 1 .. Len(q) \/ k = Len(q) + 1
    BY <1>3
  <1>5. TapOnly(u)
    <2> SUFFICES ASSUME NEW k \in 1 .. Len(u), u[k].kind = "dropped" PROVE u[k].tap
      BY DEF TapOnly
    <2>1. CASE k \in 1 .. Len(q)
      BY <1>1, <1>3, <2>1 DEF TapOnly
    <2>2. CASE k = Len(q) + 1
      BY <1>3, <2>2
    <2> QED
      BY <1>4, <2>1, <2>2
  <1>6. Worth(u) = n + Weight(x)
    BY <1>1, WorthAppend
  <1> QED
    BY <1>2, <1>3, <1>5, <1>6 DEF Plain

LEMMA PlainNone ==
  /\ Plain(<<>>, 0)
  /\ \A q, n : Plain(q, n) => q \o <<>> = q
  <1>1. <<>> \in Seq(Lines) /\ TapOnly(<<>>) /\ Worth(<<>>) = 0
    BY WorthEmpty DEF TapOnly
  <1> QED
    BY <1>1 DEF Plain

LEMMA PlainOne ==
  ASSUME NEW x \in Lines, x.kind = "dropped" => x.tap, Weight(x) = 0
  PROVE  Plain(<<x>>, 0)
  <1>1. <<>> \o <<x>> = <<x>>
    BY ConcatEmptySeq, Joined
  <1>2. Plain(<<>>, 0) /\ 0 = 0 + Weight(x)
    BY PlainNone
  <1>3. PICK q, m : q = <<>> /\ m = 0
    OBVIOUS
  <1>4. Plain(q \o <<x>>, m)
    <2>1. Plain(q, 0) /\ 0 \in Nat /\ m = 0 + Weight(x)
      BY <1>2, <1>3
    <2> QED
      BY <2>1, PlainMore
  <1> QED
    BY <1>1, <1>3, <1>4

LEMMA TakeSettled ==
  ASSUME TapTypes, StreamTypes, Accounted, Take
  PROVE  Accounted'
  <1> PICK message \in Messages : message = Head(queue["stream"])
    <2>1. queue["stream"] \in Seq(Messages) /\ queue["stream"] # <<>>
      BY StreamAssumption DEF TapTypes, Take, Received
    <2> QED
      BY <2>1
  <1> PICK b \in Int : b = lost["stream"] - tapDropped
    <2>1. lost["stream"] \in Nat /\ tapDropped \in Nat
      BY StreamAssumption DEF TapTypes, StreamTypes
    <2> QED
      BY <2>1
  <1> PICK n \in Lines : n = Notice(b, TRUE)
    BY LinesAre
  <1> DEFINE notice == IF Behind THEN <<n>> ELSE <<>>
             more == notice \o Announced(message)
             all == more \o OwnLines(message)
             one == IF message.kind = "samples" THEN 1 ELSE 0
  <1>1. /\ at = "take" /\ UNCHANGED <<client, seen>>
        /\ seq' = IF message.kind = "samples" THEN seq + 1 ELSE seq
        /\ todo' = [c \in Clients |-> IF c \in On THEN all ELSE <<>>]
    BY DEF Take, OwnLines
  <1>2. n.kind = "dropped" /\ n.tap /\ Weight(n) = 0
    BY DEF Notice, Weight
  <1>3. Plain(notice, 0)
    <2>1. CASE Behind
      <3>1. notice = <<n>>
        BY <2>1
      <3>2. Plain(<<n>>, 0)
        BY <1>2, PlainOne
      <3> QED
        BY <3>1, <3>2
    <2>2. CASE ~Behind
      BY <2>2, PlainNone
    <2> QED
      BY <2>1, <2>2
  <1> HIDE DEF notice
  <1>4. Plain(more, 0)
    <2>1. CASE Announced(message) = <<>>
      <3>1. more = notice
        BY <2>1, <1>3, PlainNone
      <3> QED
        BY <3>1, <1>3
    <2>2. CASE Announced(message) # <<>>
      <3>1. message.set \in Sets /\ Announced(message) = <<Announce(message.set)>>
        BY <2>2 DEF Announced, Messages
      <3> PICK x \in Lines : x = Announce(message.set)
        BY <3>1, LinesAre
      <3>2. x.kind = "watches" /\ Weight(x) = 0
        BY DEF Announce, Weight
      <3>3. more = notice \o <<x>>
        BY <3>1
      <3>4. Plain(notice \o <<x>>, 0)
        <4>1. 0 = 0 + Weight(x) /\ x.kind # "dropped"
          BY <3>2
        <4> QED
          BY <4>1, <1>3, PlainMore
      <3> QED
        BY <3>2, <3>3, <3>4
    <2> QED
      BY <2>1, <2>2
  <1> HIDE DEF more
  <1>5. Plain(all, one)
    <2>1. CASE message.kind = "samples"
      <3>1. message.set \in Sets /\ OwnLines(message) = <<Line(message.set)>> /\ one = 1
        BY <2>1 DEF OwnLines, Messages
      <3> PICK x \in Lines : x = Line(message.set)
        BY <3>1, LinesAre
      <3>2. x.kind = "samples" /\ Weight(x) = 1
        BY DEF Line, Weight
      <3>3. all = more \o <<x>>
        BY <3>1
      <3>4. Plain(more \o <<x>>, one)
        <4>1. one = 0 + Weight(x) /\ x.kind # "dropped"
          BY <3>1, <3>2
        <4> QED
          BY <4>1, <1>4, PlainMore
      <3> QED
        BY <3>1, <3>2, <3>3, <3>4
    <2>2. CASE message.kind = "status"
      <3> PICK x \in Lines : x = State
        BY LinesAre
      <3>1. OwnLines(message) = <<x>> /\ x.kind = "status" /\ Weight(x) = 0 /\ one = 0
        BY <2>2 DEF OwnLines, State, Weight
      <3>3. all = more \o <<x>>
        BY <3>1
      <3>4. Plain(more \o <<x>>, one)
        <4>1. one = 0 + Weight(x) /\ x.kind # "dropped"
          BY <3>1
        <4> QED
          BY <4>1, <1>4, PlainMore
      <3> QED
        BY <3>1, <3>3, <3>4
    <2>3. CASE message.kind \notin {"samples", "status"}
      <3>1. OwnLines(message) = <<>> /\ one = 0
        BY <2>3 DEF OwnLines
      <3>2. all = more
        BY <3>1, <1>4, PlainNone
      <3> QED
        BY <3>1, <3>2, <1>4
    <2> QED
      BY <2>1, <2>2, <2>3
  <1> HIDE DEF all, one
  <1>6. seq' = seq + one /\ one \in Nat /\ seq \in Nat
    BY <1>1 DEF one, StreamTypes
  <1>7. ASSUME NEW c \in Clients PROVE Settled(client'[c], seen'[c], todo'[c], seq')
    <2> PICK h \in ClientStates, s \in Histories : h = client[c] /\ s = seen[c]
      BY DEF StreamTypes
    <2>1. client'[c] = h /\ seen'[c] = s /\ todo'[c] = IF c \in On THEN all ELSE <<>>
      BY <1>1
    <2>2. Settled(h, s, <<>>, seq)
      <3>1. todo[c] = <<>>
        BY <1>1 DEF StreamTypes
      <3> QED
        BY <3>1 DEF Accounted
    <2>3. TapOnly(todo'[c])
      BY <2>1, <1>5, PlainNone DEF Plain
    <2>4. ASSUME h.alive PROVE Balanced(h, s, all, seq') /\ c \in On
      <3>1. PICK a \in Int, w \in Int, e \in Int, j \in Int :
              a = s.got + s.told /\ w = Worth(h.queue) /\ e = h.batches /\ j = s.joined
        <4>1. s.got + s.told \in Int /\ s.joined \in Int
          BY HistoryNumbers
        <4>2. Worth(h.queue) \in Int /\ h.batches \in Int
          BY ClientNumbers
        <4> QED
          BY <4>1, <4>2
      <3>2. seq - j = a + w + e + 0
        BY <2>2, <2>4, <3>1, WorthEmpty DEF Settled, Balanced
      <3>3. seq' - j = a + w + e + one
        BY <3>1, <3>2, <1>6
      <3>4. c \in On
        BY <2>4 DEF StreamTypes, On
      <3> QED
        BY <3>1, <3>3, <3>4, <1>5 DEF Balanced, Plain
    <2> QED
      BY <2>1, <2>2, <2>3, <2>4 DEF Settled
  <1> QED
    BY <1>7 DEF Accounted

\* Steps that offer nothing: of the clients some go.
LEMMA OthersSettled ==
  ASSUME Accounted, UNCHANGED <<seq, seen>>,
         \A c \in Clients : /\ client'[c] = client[c] \/ client'[c] = [Out EXCEPT !.at = "gone"]
                            /\ todo'[c] = todo[c] \/ (todo'[c] = <<>> /\ (client[c].alive => todo[c] = <<>>))
  PROVE  Accounted'
  <1> SUFFICES ASSUME NEW c \in Clients PROVE Settled(client'[c], seen'[c], todo'[c], seq')
    BY DEF Accounted
  <1>1. Settled(client[c], seen[c], todo[c], seq)
    BY DEF Accounted
  <1>2. Settled(client[c], seen[c], todo'[c], seq)
    BY <1>1 DEF Settled, TapOnly
  <1>3. LET left == [Out EXCEPT !.at = "gone"] IN ~left.alive /\ left.at = "gone"
    BY DEF Out
  <1>4. Settled([Out EXCEPT !.at = "gone"], seen[c], todo'[c], seq)
    BY <1>2, <1>3 DEF Settled
  <1> QED
    BY <1>2, <1>4

LEMMA StepSettled ==
  ASSUME TapTypes, StreamTypes, Accounted, [Next]_vars
  PROVE  Accounted'
  <1>1. CASE UNCHANGED <<fanVars, todo, client, seen>> \/ Added \/ TakeNothing
    <2>1. UNCHANGED <<seq, todo, client, seen>>
      BY <1>1 DEF fanVars, Added, TakeNothing
    <2> QED
      BY <2>1 DEF Accounted
  <1>2. CASE Start
    <2>1. at = "off" /\ UNCHANGED <<todo, client, seen>>
      BY <1>2 DEF Start
    <2>2. \A c \in Clients : ~client[c].alive
      BY <2>1 DEF StreamTypes
    <2> QED
      BY <2>1, <2>2 DEF Accounted, Settled
  <1>3. CASE Stop \/ Reap
    <2>1. /\ UNCHANGED <<seq, todo, seen>>
          /\ \A c \in Clients : client'[c] = client[c] \/ client'[c] = [Out EXCEPT !.at = "gone"]
      BY <1>3 DEF Stop, Reap
    <2> QED
      BY <2>1, OthersSettled
  <1>4. CASE Offered
    <2>1. /\ UNCHANGED <<seq, client, seen>> /\ todo' = [c \in Clients |-> <<>>]
          /\ \A c \in Clients : client[c].alive => todo[c] = <<>>
      BY <1>4 DEF Offered
    <2>2. \A c \in Clients : todo'[c] = <<>>
      BY <2>1
    <2> QED
      BY <2>1, <2>2, OthersSettled
  <1>5. CASE Take
    BY <1>5, TakeSettled
  <1>6. ASSUME NEW c \in Clients, Arrive(c) \/ Leave(c)
        PROVE  Accounted'
    <2> PICK h \in ClientStates : h = client[c]
      BY DEF StreamTypes
    <2>1. /\ UNCHANGED <<seq, todo, seen>>
          /\ todo' = [todo EXCEPT ![c] = todo[c]] /\ seen' = [seen EXCEPT ![c] = seen[c]]
      BY <1>6 DEF Arrive, Leave, fanVars, StreamTypes
    <2>2. PICK k \in {[h EXCEPT !.at = "arrived"], [h EXCEPT !.alive = FALSE]} :
            client' = [client EXCEPT ![c] = k] /\ ~k.alive /\ (k.at = "arrived" => h.at \in {"out", "arrived"})
      <3>1. CASE Arrive(c)
        <4>1. client' = [client EXCEPT ![c] = [h EXCEPT !.at = "arrived"]] /\ h.at = "out"
          BY <3>1 DEF Arrive, StreamTypes
        <4>2. ~h.alive
          BY <4>1 DEF StreamTypes
        <4>3. ~[h EXCEPT !.at = "arrived"].alive
          BY <4>2 DEF ClientStates
        <4> QED
          BY <4>1, <4>3
      <3>2. CASE Leave(c)
        <4>1. client' = [client EXCEPT ![c] = [h EXCEPT !.alive = FALSE]] /\ h.at = "on"
          BY <3>2 DEF Leave, StreamTypes
        <4>2. ~[h EXCEPT !.alive = FALSE].alive /\ [h EXCEPT !.alive = FALSE].at = "on"
          BY <4>1 DEF ClientStates
        <4> QED
          BY <4>1, <4>2
      <3> QED
        BY <1>6, <3>1, <3>2
    <2>3. k.batches = h.batches /\ (k.at = "out" => h.at = "out")
      BY DEF ClientStates
    <2>4. Settled(h, seen[c], todo[c], seq)
      BY DEF Accounted
    <2>5. Settled(k, seen[c], todo[c], seq)
      BY <2>2, <2>3, <2>4 DEF Settled
    <2> QED
      BY <2>1, <2>2, <2>5, OneSettled
  <1>7. ASSUME NEW c \in Clients, Write(c) \/ Add(c) \/ OfferNotice(c) \/ OfferLine(c)
        PROVE  Accounted'
    BY <1>7, WriteSettled, AddSettled, NoticeSettled, OfferLineSettled
  <1> QED
    BY <1>1, <1>2, <1>3, <1>4, <1>5, <1>6, <1>7 DEF Next, vars

LEMMA InitSettled == Init => Accounted
  <1> SUFFICES ASSUME Init, NEW c \in Clients PROVE Settled(client[c], seen[c], todo[c], seq)
    BY DEF Accounted
  <1>1. client[c] = Out /\ todo[c] = <<>>
    BY DEF Init
  <1>2. ~Out.alive /\ Out.batches = 0
    BY DEF Out
  <1> QED
    BY <1>1, <1>2 DEF Settled, TapOnly

\* What a client is sent and what it is told it lost add up to the batches since it
\* connected, whenever its queue is full, it is written to, or it comes and goes.
THEOREM LossesBalanced == Spec => []LossesAddUp
  <1>1. Init => TapTypes /\ LastNames /\ StreamTypes /\ ColumnsKnown /\ Accounted
    BY InitTap, InitColumns, InitSettled
  <1>2. /\ TapTypes /\ LastNames /\ StreamTypes /\ ColumnsKnown /\ Accounted /\ [Next]_vars
        => TapTypes' /\ LastNames' /\ StreamTypes' /\ ColumnsKnown' /\ Accounted'
    BY StepTap, StepColumns, StepSettled
  <1>3. Accounted => LossesAddUp
    BY DEF Accounted, Settled, Balanced, LossesAddUp, On
  <1> QED
    BY <1>1, <1>2, <1>3, PTL DEF Spec

------------------------------------------------------------------------------
(* Drops never fall *)

LEMMA OnCounted ==
  ASSUME StreamTypes, NEW S \in SUBSET Clients
  PROVE  IsFiniteSet(S) /\ Counted(client, S)
  <1>1. IsFiniteSet(S)
    BY StreamAssumption, FS_Subset
  <1>2. \A c \in S : client[c].dropped \in Nat
    BY ClientNumbers DEF StreamTypes
  <1> QED
    BY <1>1, <1>2 DEF Counted

LEMMA LostIs ==
  \A S : Lost(S) = Dropped(client, S)
  BY DEF Lost, Dropped

\* The numbers DropsNeverFall adds up.
Drops == gone + tapDropped + Dropped(client, On)

LEMMA Falls ==
  Drops' >= Drops => gone' + tapDropped' + Lost(On)' >= gone + tapDropped + Lost(On)
  BY DEF Drops, Lost, Dropped

LEMMA DropsLater == Drops' = gone' + tapDropped' + Dropped(client', On')
  BY DEF Drops, Dropped, MapThenSumSet, MapThenFoldSet

\* What the clients that left have lost is a number.
GoneCounted == gone \in Nat

\* Clients come, none goes, and none has lost less than before.
LEMMA NoneGoes ==
  ASSUME StreamTypes, StreamTypes', gone \in Nat, gone' = gone, tapDropped' >= tapDropped,
         \A c \in On : client'[c].at = "on" /\ client[c].dropped <= client'[c].dropped
  PROVE  Drops' >= Drops
  <1> PICK k, h, A, B : k = client /\ h = client' /\ A = On /\ B = On'
    OBVIOUS
  <1>1. A \subseteq Clients /\ B \subseteq Clients /\ A \subseteq B
    BY DEF On
  <1>2. IsFiniteSet(A) /\ Counted(k, A)
    BY <1>1, OnCounted
  <1>3. IsFiniteSet(B)
    BY <1>1, StreamAssumption, FS_Subset
  <1>4. Counted(h, B)
    <2>1. \A c \in B : h[c] \in ClientStates
      BY <1>1 DEF StreamTypes
    <2> QED
      BY <2>1, ClientNumbers DEF Counted
  <1>5. Dropped(k, A) <= Dropped(h, B) /\ Dropped(k, A) \in Nat /\ Dropped(h, B) \in Nat
    BY <1>1, <1>2, <1>3, <1>4, DroppedMore, DroppedStep
  <1>6. PICK x \in Nat, y \in Nat : x = Dropped(client, On) /\ y = Dropped(client', On') /\ x <= y
    BY <1>5
  <1>7. tapDropped \in Nat /\ tapDropped' \in Nat
    BY DEF StreamTypes
  <1>8. Drops' = gone + tapDropped' + y /\ Drops = gone + tapDropped + x
    BY <1>6, DropsLater DEF Drops
  <1> QED
    BY <1>6, <1>7, <1>8

LEMMA ReapKeeps ==
  ASSUME StreamTypes, StreamTypes', gone \in Nat, Reap
  PROVE  Drops' >= Drops /\ gone' \in Nat
  <1> DEFINE dead == {c \in On : ~client[c].alive}
  <1>1. /\ gone' = gone + Dropped(client, dead) /\ UNCHANGED tapDropped
        /\ client' = [c \in Clients |-> IF c \in dead THEN [Out EXCEPT !.at = "gone"] ELSE client[c]]
    BY LostIs DEF Reap, Gone
  <1>2. dead \subseteq Clients /\ dead \subseteq On /\ On \subseteq Clients
    BY DEF On
  <1>3. [Out EXCEPT !.at = "gone"].at = "gone"
    BY DEF Out
  <1>4. On' = On \ dead
    BY <1>1, <1>3 DEF On
  <1> PICK k, h, A, B, D : k = client /\ h = client' /\ A = On /\ B = On' /\ D = dead
    OBVIOUS
  <1>5. \A c \in B : h[c] = k[c]
    BY <1>1, <1>2, <1>4
  <1> HIDE DEF dead
  <1>6. IsFiniteSet(A) /\ Counted(k, A) /\ IsFiniteSet(D) /\ Counted(k, D)
        /\ IsFiniteSet(B) /\ Counted(k, B) /\ Counted(h, B)
    <2>1. IsFiniteSet(A) /\ Counted(k, A) /\ IsFiniteSet(D) /\ Counted(k, D)
      BY <1>2, OnCounted
    <2>2. B \in SUBSET Clients
      BY <1>2, <1>4
    <2>3. IsFiniteSet(B) /\ Counted(k, B)
      BY <2>2, OnCounted
    <2> QED
      BY <2>1, <2>3, <1>5 DEF Counted
  <1>7. Dropped(k, A) = Dropped(k, D) + Dropped(k, B)
    <2>1. B = A \ D /\ D \in SUBSET A
      BY <1>2, <1>4
    <2> QED
      BY <2>1, <1>6, DroppedApart
  <1>8. Dropped(k, B) <= Dropped(h, B)
    <2>1. \A c \in B : k[c].dropped <= h[c].dropped
      <3>1. \A c \in B : k[c].dropped \in Nat
        BY <1>6 DEF Counted
      <3> QED
        BY <3>1, <1>5
    <2> QED
      BY <2>1, <1>6, DroppedMore
  <1>9. PICK x \in Nat, y \in Nat, d \in Nat :
          /\ x = Dropped(client, On) /\ y = Dropped(client', On') /\ d = Dropped(client, dead)
          /\ x <= d + y
    <2>1. Dropped(k, A) \in Nat /\ Dropped(k, D) \in Nat /\ Dropped(k, B) \in Nat /\ Dropped(h, B) \in Nat
      BY <1>6, DroppedStep
    <2>2. Dropped(k, A) <= Dropped(k, D) + Dropped(h, B)
      BY <2>1, <1>7, <1>8
    <2> QED
      BY <2>1, <2>2
  <1>10. tapDropped \in Nat
    BY DEF StreamTypes
  <1>11. Drops' = gone' + tapDropped + y /\ Drops = gone + tapDropped + x /\ gone' = gone + d
    BY <1>1, <1>9, DropsLater DEF Drops
  <1> QED
    BY <1>9, <1>10, <1>11

\* No step of a client's makes what it lost less.
LEMMA ClientStep ==
  ASSUME StreamTypes, NEW c \in Clients,
         Arrive(c) \/ Leave(c) \/ Write(c) \/ Add(c) \/ OfferNotice(c) \/ OfferLine(c)
  PROVE  \A d \in On : client'[d].at = "on" /\ client[d].dropped <= client'[d].dropped
  <1> PICK h \in ClientStates : h = client[c]
    BY DEF StreamTypes
  <1>1. h.dropped \in Nat
    BY ClientNumbers
  <1>2. PICK k : /\ client' = [client EXCEPT ![c] = k]
                 /\ k.at = h.at \/ k.at = "on" \/ h.at # "on"
                 /\ k.dropped \in {h.dropped, h.dropped + 1}
    <2>1. CASE Arrive(c)
      <3> PICK k : k = [h EXCEPT !.at = "arrived"]
        OBVIOUS
      <3>1. client' = [client EXCEPT ![c] = k] /\ h.at = "out"
        BY <2>1 DEF Arrive, StreamTypes
      <3>2. k.dropped = h.dropped
        BY DEF ClientStates
      <3> QED
        BY <3>1, <3>2
    <2>2. CASE Leave(c)
      <3> PICK k : k = [h EXCEPT !.alive = FALSE]
        OBVIOUS
      <3>1. client' = [client EXCEPT ![c] = k]
        BY <2>2 DEF Leave, StreamTypes
      <3>2. k.dropped = h.dropped /\ k.at = h.at
        BY DEF ClientStates
      <3> QED
        BY <3>1, <3>2
    <2>3. CASE Write(c)
      <3> PICK k : k = [h EXCEPT !.queue = Tail(h.queue)]
        OBVIOUS
      <3>1. client' = [client EXCEPT ![c] = k]
        BY <2>3 DEF Write, StreamTypes
      <3>2. k.dropped = h.dropped /\ k.at = h.at
        BY DEF ClientStates
      <3> QED
        BY <3>1, <3>2
    <2>4. CASE Add(c)
      <3> PICK q : q = <<Hello(known)>>
        OBVIOUS
      <3> PICK k : k = [h EXCEPT !.at = "on", !.alive = TRUE, !.queue = q]
        OBVIOUS
      <3>1. client' = [client EXCEPT ![c] = k]
        BY <2>4 DEF Add, StreamTypes, ClientStates
      <3>2. k.dropped = h.dropped /\ k.at = "on"
        BY DEF ClientStates
      <3> QED
        BY <3>1, <3>2
    <2>5. CASE OfferNotice(c)
      <3> PICK q : q = Append(h.queue, Notice(h.batches, FALSE))
        OBVIOUS
      <3> PICK k, t : k = Noticed(h, q) /\ t = [h EXCEPT !.tried = TRUE]
        OBVIOUS
      <3>1. client' = [client EXCEPT ![c] = k] \/ client' = [client EXCEPT ![c] = t]
        BY <2>5 DEF OfferNotice, AfterNotice, Noticed
      <3>2. k.dropped = h.dropped /\ k.at = h.at
        BY DEF Noticed, ClientStates
      <3>3. t.dropped = h.dropped /\ t.at = h.at
        BY DEF ClientStates
      <3> QED
        BY <3>1, <3>2, <3>3
    <2>6. CASE OfferLine(c)
      <3> PICK q : q = Append(h.queue, Head(todo[c]))
        OBVIOUS
      <3> PICK k, l, m :
            /\ k = [h EXCEPT !.tried = FALSE, !.queue = q]
            /\ l = [h EXCEPT !.tried = FALSE, !.batches = h.batches + 1,
                             !.dropped = h.dropped + 1, !.alive = KeepsUp(h.batches + 1)]
            /\ m = [h EXCEPT !.tried = FALSE, !.messages = h.messages + 1,
                             !.alive = KeepsUp(h.batches)]
        OBVIOUS
      <3>1. \/ client' = [client EXCEPT ![c] = k] \/ client' = [client EXCEPT ![c] = l]
            \/ client' = [client EXCEPT ![c] = m]
        <4>1. \/ client' = [client EXCEPT ![c].tried = FALSE, ![c].queue = Append(@, Head(todo[c]))]
              \/ client' = [client EXCEPT ![c].tried = FALSE, ![c].batches = h.batches + 1,
                             ![c].dropped = @ + 1, ![c].alive = KeepsUp(h.batches + 1)]
              \/ client' = [client EXCEPT ![c].tried = FALSE, ![c].messages = @ + 1,
                             ![c].alive = KeepsUp(h.batches)]
          BY <2>6 DEF OfferLine
        <4>2. CASE client' = [client EXCEPT ![c].tried = FALSE, ![c].queue = Append(@, Head(todo[c]))]
          BY <4>2 DEF StreamTypes, ClientStates
        <4>3. CASE client' = [client EXCEPT ![c].tried = FALSE, ![c].batches = h.batches + 1,
                               ![c].dropped = @ + 1, ![c].alive = KeepsUp(h.batches + 1)]
          BY <4>3 DEF StreamTypes, ClientStates
        <4>4. CASE client' = [client EXCEPT ![c].tried = FALSE, ![c].messages = @ + 1,
                               ![c].alive = KeepsUp(h.batches)]
          BY <4>4 DEF StreamTypes, ClientStates
        <4> QED
          BY <4>1, <4>2, <4>3, <4>4
      <3>2. k.dropped = h.dropped /\ k.at = h.at
        BY DEF ClientStates
      <3>3. l.dropped = h.dropped + 1 /\ l.at = h.at
        BY DEF ClientStates
      <3>4. m.dropped = h.dropped /\ m.at = h.at
        BY DEF ClientStates
      <3> QED
        BY <3>1, <3>2, <3>3, <3>4
    <2> QED
      BY <2>1, <2>2, <2>3, <2>4, <2>5, <2>6
  <1> TAKE d \in On
  <1>3. d \in Clients /\ client[d].at = "on"
    BY DEF On
  <1>4. client[d].dropped \in Nat
    BY <1>3, ClientNumbers DEF StreamTypes
  <1>5. client'[d] = IF d = c THEN k ELSE client[d]
    BY <1>2, <1>3 DEF StreamTypes
  <1>6. CASE d = c
    BY <1>1, <1>2, <1>3, <1>5, <1>6
  <1>7. CASE d # c
    BY <1>3, <1>4, <1>5, <1>7
  <1> QED
    BY <1>6, <1>7

LEMMA DropsStep ==
  ASSUME TapTypes, StreamTypes, StreamTypes', GoneCounted, [Next]_vars
  PROVE  /\ GoneCounted'
         /\ at # "off" /\ at' # "off" => Drops' >= Drops
  <1> USE DEF GoneCounted
  <1>1. CASE UNCHANGED <<fanVars, client>> \/ Added \/ TakeNothing \/ Offered
    <2>1. UNCHANGED <<gone, tapDropped, client>>
      BY <1>1 DEF fanVars, Added, TakeNothing, Offered
    <2>2. \A c \in On : client'[c].at = "on" /\ client[c].dropped <= client'[c].dropped
      <3>1. \A c \in On : c \in Clients /\ client[c].at = "on"
        BY DEF On
      <3>2. \A c \in Clients : client[c].dropped \in Nat
        BY ClientNumbers DEF StreamTypes
      <3> QED
        BY <2>1, <3>1, <3>2
    <2>3. tapDropped' >= tapDropped
      BY <2>1 DEF StreamTypes
    <2> QED
      BY <2>1, <2>2, <2>3, NoneGoes
  <1>2. CASE Start \/ Stop
    <2>1. gone' \in {gone, 0} /\ (at = "off" \/ at' = "off")
      BY <1>2 DEF Start, Stop
    <2> QED
      BY <2>1
  <1>3. CASE Reap
    BY <1>3, ReapKeeps
  <1>4. CASE Take
    <2>1. UNCHANGED <<gone, client>>
      BY <1>4 DEF Take
    <2>2. tapDropped' >= tapDropped
      <3>1. tapDropped' = IF Behind THEN lost["stream"] ELSE tapDropped
        BY <1>4 DEF Take
      <3>2. lost["stream"] \in Nat /\ tapDropped \in Nat
        BY StreamAssumption DEF TapTypes, StreamTypes
      <3> QED
        BY <3>1, <3>2 DEF Behind
    <2>3. \A c \in On : client'[c].at = "on" /\ client[c].dropped <= client'[c].dropped
      <3>1. \A c \in On : c \in Clients /\ client[c].at = "on"
        BY DEF On
      <3>2. \A c \in Clients : client[c].dropped \in Nat
        BY ClientNumbers DEF StreamTypes
      <3> QED
        BY <2>1, <3>1, <3>2
    <2> QED
      BY <2>1, <2>2, <2>3, NoneGoes
  <1>5. ASSUME NEW c \in Clients,
               Arrive(c) \/ Leave(c) \/ Write(c) \/ Add(c) \/ OfferNotice(c) \/ OfferLine(c)
        PROVE  gone' \in Nat /\ Drops' >= Drops
    <2>1. UNCHANGED <<gone, tapDropped>>
      BY <1>5 DEF Arrive, Leave, Write, Add, OfferNotice, OfferLine, fanVars
    <2>2. tapDropped' >= tapDropped
      BY <2>1 DEF StreamTypes
    <2> QED
      BY <1>5, <2>1, <2>2, ClientStep, NoneGoes
  <1> QED
    BY <1>1, <1>2, <1>3, <1>4, <1>5 DEF Next, vars

\* The drops that are shown never go down while the stream runs: not when a client
\* that lost lines leaves or is cut off, and not when the tap reports its own.
THEOREM DropsOnlyGrow == Spec => DropsNeverFall
  <1>1. Init => TapTypes /\ LastNames /\ StreamTypes /\ ColumnsKnown /\ GoneCounted
    <2>1. Init => GoneCounted
      BY DEF Init, GoneCounted
    <2> QED
      BY <2>1, InitTap, InitColumns
  <1>2. /\ TapTypes /\ LastNames /\ StreamTypes /\ ColumnsKnown /\ GoneCounted /\ [Next]_vars
        => TapTypes' /\ LastNames' /\ StreamTypes' /\ ColumnsKnown' /\ GoneCounted'
    BY StepTap, StepColumns, DropsStep
  <1>3. /\ TapTypes /\ StreamTypes /\ StreamTypes' /\ GoneCounted /\ [Next]_vars
        => [at # "off" /\ at' # "off"
              => gone' + tapDropped' + Lost(On)' >= gone + tapDropped + Lost(On)]_vars
    BY DropsStep, Falls
  <1> QED
    BY <1>1, <1>2, <1>3, PTL DEF Spec, DropsNeverFall

------------------------------------------------------------------------------
(* Bounds of the tap, and of its queues *)

QueueBounds ==
  /\ subscribed \subseteq Subscribers /\ (at = "off" <=> "stream" \notin subscribed)
  /\ \A s \in Subscribers : Len(queue[s]) <= Capacity /\ (queue[s] # <<>> => s \in subscribed)

TapBounds ==
  /\ Len(giving) <= 1 /\ link \in {"disconnected", "connected"}
  /\ Len(batchSet) <= 1 /\ flushed \in 0 .. MaxBatches

LEMMA Lengths == Len(<<>>) = 0 /\ \A x : Len(<<x>>) = 1
  OBVIOUS

LEMMA PublishBounds ==
  ASSUME TapTypes, QueueBounds, UNCHANGED at, NEW message \in Messages, Publish(message)
  PROVE  QueueBounds'
  <1>1. subscribed' = subscribed
    BY DEF Publish
  <1>2. ASSUME NEW s \in Subscribers
        PROVE  Len(queue'[s]) <= Capacity /\ (queue'[s] # <<>> => s \in subscribed)
    <2> PICK q \in Seq(Messages) : q = queue[s]
      BY DEF TapTypes
    <2>1. Len(q) <= Capacity /\ (q # <<>> => s \in subscribed) /\ Capacity \in Nat
      BY TapAssumption DEF QueueBounds
    <2>2. \/ queue'[s] = q
          \/ s \in subscribed /\ Len(q) < Capacity /\ queue'[s] = Append(q, message)
      BY DEF Publish, HasRoom
    <2> PICK r : r = Append(q, message)
      OBVIOUS
    <2>3. Len(r) = Len(q) + 1 /\ Len(q) \in Nat
      OBVIOUS
    <2>4. Len(q) < Capacity => Len(r) <= Capacity
      BY <2>1, <2>3
    <2> QED
      BY <2>1, <2>2, <2>4
  <1> QED
    BY <1>1, <1>2 DEF QueueBounds

LEMMA SubscriptionBounds ==
  ASSUME TapTypes, QueueBounds,
         \/ Subscribe("stream") /\ at' # "off"
         \/ Unsubscribe("stream") /\ at' = "off"
         \/ Received("stream") /\ at # "off" /\ at' # "off"
  PROVE  QueueBounds'
  <1>0. "stream" \in Subscribers /\ queue["stream"] \in Seq(Messages) /\ Capacity \in Nat
    BY StreamAssumption, TapAssumption DEF TapTypes
  <1>1. CASE Subscribe("stream") /\ at' # "off"
    <2>1. subscribed' = subscribed \union {"stream"} /\ queue' = [queue EXCEPT !["stream"] = <<>>]
      BY <1>1 DEF Subscribe
    <2> QED
      BY <1>0, <1>1, <2>1, Lengths DEF QueueBounds, TapTypes
  <1>2. CASE Unsubscribe("stream") /\ at' = "off"
    <2>1. subscribed' = subscribed \ {"stream"} /\ queue' = [queue EXCEPT !["stream"] = <<>>]
      BY <1>2 DEF Unsubscribe
    <2> QED
      BY <1>0, <1>2, <2>1, Lengths DEF QueueBounds, TapTypes
  <1>3. CASE Received("stream") /\ at # "off" /\ at' # "off"
    <2> PICK q \in Seq(Messages) : q = queue["stream"]
      BY <1>0
    <2> PICK t : t = Tail(q)
      OBVIOUS
    <2>1. q # <<>> /\ queue' = [queue EXCEPT !["stream"] = t] /\ subscribed' = subscribed
      BY <1>3 DEF Received
    <2>2. Len(t) = Len(q) - 1 /\ Len(q) \in Nat
      BY <2>1
    <2>3. Len(q) <= Capacity /\ "stream" \in subscribed
      BY <1>0, <2>1 DEF QueueBounds
    <2>4. Len(t) <= Capacity
      BY <1>0, <2>2, <2>3
    <2> QED
      BY <1>0, <1>3, <2>1, <2>3, <2>4 DEF QueueBounds, TapTypes
  <1> QED
    BY <1>1, <1>2, <1>3

\* What the tap's own steps publish.
LEMMA TapNextIs ==
  ASSUME TapTypes, LastNames, TapBounds, TapNext
  PROVE  \/ UNCHANGED <<subscribed, queue, lost, flushed>>
         \/ \E m \in Messages : /\ Publish(m) /\ flushed' \in 0 .. MaxBatches
                                /\ flushed' = flushed + (IF m.kind = "samples" THEN 1 ELSE 0)
  <1>0. flushed \in 0 .. MaxBatches /\ MaxBatches \in Nat /\ flushed + 0 = flushed
    BY TapAssumption DEF TapBounds
  <1>1. CASE SetWatches \/ Resample
    BY <1>1 DEF SetWatches, Resample, subVars
  <1>2. CASE GiveWatches
    <2> PICK set : set = Head(giving)
      OBVIOUS
    <2>1. set \in Sets
      BY <1>2, ListIs DEF GiveWatches, TapTypes
    <2>2. [kind |-> "watches", set |-> set] \in Messages
      BY <2>1 DEF Messages
    <2>3. /\ UNCHANGED flushed
          /\ UNCHANGED <<subscribed, queue, lost>> \/ Publish([kind |-> "watches", set |-> set])
      BY <1>2 DEF GiveWatches, subVars
    <2> QED
      BY <1>0, <2>2, <2>3
  <1>3. CASE Samples
    <2> PICK set : set = Columns(sampling)
      OBVIOUS
    <2>1. set \in Sets
      BY ColumnsNamed, NamedIs DEF TapTypes
    <2>2. [kind |-> "samples", set |-> set] \in Messages
      BY <2>1 DEF Messages
    <2>3. flushed < MaxBatches /\ flushed' = flushed + 1 /\ Publish([kind |-> "samples", set |-> set])
      BY <1>3 DEF Samples
    <2>4. flushed' \in 0 .. MaxBatches
      BY <1>0, <2>3
    <2> QED
      BY <2>2, <2>3, <2>4
  <1>4. CASE Status
    <2>1. [kind |-> "status"] \in Messages
      BY DEF Messages
    <2>2. UNCHANGED flushed /\ Publish([kind |-> "status"])
      BY <1>4 DEF Status
    <2> QED
      BY <1>0, <2>1, <2>2
  <1> QED
    BY <1>1, <1>2, <1>3, <1>4 DEF TapNext

\* The other steps' part in the subscription.
FanNext ==
  \/ Start \/ Stop \/ Take \/ Added \/ TakeNothing \/ Offered \/ Reap
  \/ \E c \in Clients : Arrive(c) \/ Leave(c) \/ Write(c) \/ Add(c) \/ OfferNotice(c) \/ OfferLine(c)
  \/ UNCHANGED vars

LEMMA TwoSides == [Next]_vars => (TapNext /\ UNCHANGED fanVars) \/ FanNext
  BY DEF Next, FanNext

LEMMA FanIs ==
  ASSUME FanNext
  PROVE  /\ UNCHANGED <<appVars, tapVars, flushed>>
         /\ \/ Subscribe("stream") /\ at = "off" /\ at' = "top" /\ seq' = 0
            \/ Unsubscribe("stream") /\ at = "top" /\ at' = "off" /\ UNCHANGED seq
            \/ /\ Received("stream") /\ at = "take" /\ at' = "offer"
               /\ seq' = IF Head(queue["stream"]).kind = "samples" THEN seq + 1 ELSE seq
            \/ UNCHANGED <<subVars, seq>> /\ (at = "off" <=> at' = "off")
  <1>1. CASE Start \/ Stop \/ Take
    BY <1>1 DEF Start, Stop, Take
  <1>2. CASE UNCHANGED tapAll /\ UNCHANGED seq /\ (at = "off" <=> at' = "off")
    BY <1>2 DEF tapAll
  <1>3. CASE Added \/ TakeNothing \/ Offered \/ Reap
    BY <1>2, <1>3 DEF Added, TakeNothing, Offered, Reap
  <1>4. ASSUME NEW c \in Clients, Arrive(c) \/ Leave(c) \/ Write(c) \/ Add(c) PROVE UNCHANGED <<tapAll, at, seq>>
    BY <1>4 DEF Arrive, Leave, Write, Add, fanVars
  <1>5. ASSUME NEW c \in Clients, OfferNotice(c) \/ OfferLine(c) PROVE UNCHANGED <<tapAll, at, seq>>
    BY <1>5 DEF OfferNotice, OfferLine, fanVars
  <1>6. CASE UNCHANGED vars \/ (UNCHANGED tapAll /\ UNCHANGED fanVars)
    BY <1>2, <1>6 DEF vars, fanVars
  <1> QED
    BY <1>1, <1>2, <1>3, <1>4, <1>5, <1>6 DEF FanNext

LEMMA StepTapBounds ==
  ASSUME TapTypes, LastNames, TapBounds, QueueBounds, [Next]_vars
  PROVE  TapBounds' /\ QueueBounds'
  <1>1. CASE TapNext /\ UNCHANGED fanVars
    <2>1. QueueBounds' /\ flushed' \in 0 .. MaxBatches
      <3>1. CASE UNCHANGED <<subscribed, queue, lost, flushed>>
        BY <1>1, <3>1 DEF QueueBounds, TapBounds, fanVars
      <3>2. CASE \E m \in Messages : Publish(m) /\ flushed' \in 0 .. MaxBatches
        BY <1>1, <3>2, PublishBounds DEF fanVars
      <3> QED
        BY <1>1, <3>1, <3>2, TapNextIs
    <2>2. Len(giving') <= 1 /\ Len(batchSet') <= 1 /\ link' \in {"disconnected", "connected"}
      <3>1. giving' \in {giving, <<>>} \/ \E l : giving' = <<l>>
        BY <1>1 DEF TapNext, SetWatches, GiveWatches, Resample, Samples, Status, appVars
      <3>2. batchSet' \in {batchSet, <<>>} \/ \E set : batchSet' = <<set>>
        BY <1>1 DEF TapNext, SetWatches, GiveWatches, Resample, Samples, Status, tapVars, Forgotten
      <3>3. link' \in {link, "disconnected", "connected"}
        BY <1>1 DEF TapNext, SetWatches, GiveWatches, Resample, Samples, Status, tapVars
      <3>4. 0 <= 1 /\ 1 <= 1
        OBVIOUS
      <3>5. Len(giving') <= 1
        BY <3>1, <3>4, Lengths, Zenon DEF TapBounds
      <3>6. Len(batchSet') <= 1
        BY <3>2, <3>4, Lengths, Zenon DEF TapBounds
      <3> QED
        BY <3>3, <3>5, <3>6 DEF TapBounds
    <2> QED
      BY <2>1, <2>2 DEF TapBounds
  <1>2. CASE FanNext
    <2>1. TapBounds'
      BY <1>2, FanIs DEF appVars, tapVars, TapBounds
    <2>2. CASE UNCHANGED subVars /\ (at = "off" <=> at' = "off")
      <3>1. subscribed' = subscribed /\ queue' = queue
        BY <2>2 DEF subVars
      <3> QED
        BY <2>1, <2>2, <3>1, Zenon DEF QueueBounds
    <2> QED
      BY <1>2, <2>1, <2>2, FanIs, SubscriptionBounds
  <1> QED
    BY <1>1, <1>2, TwoSides

LEMMA InitTapBounds == Init => TapBounds /\ QueueBounds
  BY Lengths, TapAssumption DEF Init, TapInit, TapBounds, QueueBounds

------------------------------------------------------------------------------
(* Every batch is numbered, waits in the tap's queue, or is counted as lost *)

\* What became of the batches published since the stream started.
Reckoned == seq + Worth(queue["stream"]) + lost["stream"]

\* No batch is numbered that was not flushed, and while the stream runs none is
\* reckoned twice.
Numbered == seq <= flushed /\ (at # "off" => Reckoned <= flushed)

LEMMA MessagesAre ==
  /\ Messages \subseteq Lines
  /\ \A m \in Messages : Weight(m) = IF m.kind = "samples" THEN 1 ELSE 0
  BY DEF Messages, Lines, Weight

LEMMA QueueLines ==
  ASSUME TapTypes
  PROVE  queue["stream"] \in Seq(Lines) /\ queue["stream"] \in Seq(Messages) /\ lost["stream"] \in Nat
  <1>1. queue["stream"] \in Seq(Messages) /\ lost["stream"] \in Nat
    BY StreamAssumption DEF TapTypes
  <1>2. \A q \in Seq(Messages) : q \in Seq(Lines)
    BY MessagesAre
  <1> QED
    BY <1>1, <1>2

LEMMA PublishCounts ==
  ASSUME TapTypes, NEW m \in Messages, Publish(m), "stream" \in subscribed
  PROVE  Worth(queue'["stream"]) + lost'["stream"] = Worth(queue["stream"]) + lost["stream"] + Weight(m)
  <1> PICK q \in Seq(Lines), l \in Nat : q = queue["stream"] /\ l = lost["stream"]
    BY QueueLines
  <1>1. Weight(m) = (IF m.kind = "samples" THEN 1 ELSE 0) /\ m \in Lines
    BY MessagesAre
  <1>2. \/ HasRoom("stream") /\ queue'["stream"] = Append(q, m) /\ lost'["stream"] = l
        \/ ~HasRoom("stream") /\ queue'["stream"] = q /\ lost'["stream"] = IF m.kind = "samples" THEN l + 1 ELSE l
    BY StreamAssumption DEF Publish
  <1>3. Worth(Append(q, m)) = Worth(q) + Weight(m) /\ Worth(q) \in Int
    BY <1>1, WorthAppend, WorthIs
  <1> PICK w \in Int, e \in Int : w = Worth(q) /\ e = Weight(m) /\ e = (IF m.kind = "samples" THEN 1 ELSE 0)
    BY <1>1, <1>3
  <1>4. w + e + l = w + l + e
    OBVIOUS
  <1>5. CASE queue'["stream"] = Append(q, m) /\ lost'["stream"] = l
    BY <1>3, <1>4, <1>5
  <1>6. CASE queue'["stream"] = q /\ lost'["stream"] = IF m.kind = "samples" THEN l + 1 ELSE l
    <2>1. lost'["stream"] = l + e
      BY <1>6
    <2>2. w + (l + e) = w + l + e
      OBVIOUS
    <2> QED
      BY <1>6, <2>1, <2>2
  <1> QED
    BY <1>2, <1>5, <1>6

LEMMA LaterLines ==
  ASSUME TapTypes'
  PROVE  queue'["stream"] \in Seq(Lines) /\ lost'["stream"] \in Nat
  <1>1. queue'["stream"] \in Seq(Messages) /\ lost'["stream"] \in Nat
    BY StreamAssumption DEF TapTypes
  <1>2. \A q \in Seq(Messages) : q \in Seq(Lines)
    BY MessagesAre
  <1> QED
    BY <1>1, <1>2

LEMMA ReckonedLater == Reckoned' = seq' + Worth(queue'["stream"]) + lost'["stream"]
  BY DEF Reckoned, Worth, Weight

LEMMA StepReckoned ==
  ASSUME TapTypes, LastNames, StreamTypes, TapBounds, QueueBounds, [Next]_vars, at # "off", at' # "off"
  PROVE  Reckoned' - Reckoned = flushed' - flushed /\ flushed' \in Nat /\ flushed \in Nat /\ Reckoned \in Int
  <1>q. PICK q \in Seq(Lines), l \in Nat : q = queue["stream"] /\ l = lost["stream"]
    BY QueueLines
  <1>w. PICK w \in Int, n \in Nat, b \in Nat : w = Worth(q) /\ n = seq /\ b = flushed
    BY <1>q, WorthIs DEF StreamTypes, TapBounds
  <1>d. w \in Int /\ n \in Nat /\ b \in Nat /\ l \in Nat
    BY <1>q, <1>w
  <1>0. Reckoned = n + w + l
    BY <1>q, <1>w DEF Reckoned
  <1>1. CASE TapNext /\ UNCHANGED fanVars
    <2>1. CASE UNCHANGED <<subscribed, queue, lost, flushed>>
      <3>1. Reckoned' = n + w + l /\ flushed' = b
        BY <1>q, <1>w, <1>1, <2>1, ReckonedLater DEF fanVars
      <3> QED
        BY <1>d, <1>0, <1>w, <3>1
    <2>2. ASSUME NEW m \in Messages, Publish(m), flushed' = flushed + (IF m.kind = "samples" THEN 1 ELSE 0)
          PROVE  Reckoned' - Reckoned = flushed' - flushed /\ flushed' \in Nat
      <3>1. PICK e \in Nat : e = (IF m.kind = "samples" THEN 1 ELSE 0) /\ e = Weight(m)
        BY MessagesAre
      <3>2. PICK x \in Int, y \in Nat : x = Worth(queue'["stream"]) /\ y = lost'["stream"]
        BY <1>1, TapStep, WorthIs, LaterLines
      <3>3. x + y = w + l + e
        BY <1>q, <1>w, <2>2, <3>1, <3>2, PublishCounts DEF QueueBounds
      <3>4. Reckoned' = n + x + y
        BY <1>1, <1>w, <3>2, ReckonedLater DEF fanVars
      <3>5. flushed' = b + e
        BY <1>w, <2>2, <3>1
      <3>6. b + e \in Nat /\ e \in Int /\ x \in Int /\ y \in Int
        BY <1>d, <3>1, <3>2
      <3>7. n + x + y = n + w + l + e
        BY <1>d, <3>3, <3>6
      <3>8. n + w + l + e - (n + w + l) = e /\ b + e - b = e
        BY <1>d, <3>6
      <3> QED
        BY <1>w, <1>0, <3>4, <3>5, <3>6, <3>7, <3>8
    <2> QED
      BY <1>d, <1>w, <1>0, <1>1, <2>1, <2>2, TapNextIs
  <1>2. CASE FanNext
    <2>1. CASE UNCHANGED <<subVars, seq, flushed>>
      <3>1. Reckoned' = n + w + l /\ flushed' = b
        BY <1>q, <1>w, <2>1, ReckonedLater DEF subVars
      <3> QED
        BY <1>q, <1>w, <1>0, <3>1
    <2>2. CASE /\ Received("stream") /\ UNCHANGED flushed
               /\ seq' = IF Head(queue["stream"]).kind = "samples" THEN seq + 1 ELSE seq
      <3>1. q # <<>> /\ queue'["stream"] = Tail(q) /\ lost'["stream"] = l
        <4>1. "stream" \in Subscribers /\ queue \in [Subscribers -> Seq(Messages)]
          BY StreamAssumption DEF TapTypes
        <4> QED
          BY <1>q, <2>2, <4>1 DEF Received
      <3>2. Head(q) \in Messages
        <4> PICK r \in Seq(Messages) : r = q
          BY <1>q, QueueLines
        <4>1. r # <<>> => Head(r) \in Messages
          OBVIOUS
        <4> QED
          BY <3>1, <4>1
      <3>e. PICK e \in Nat : e = (IF Head(q).kind = "samples" THEN 1 ELSE 0) /\ e = Weight(Head(q))
        BY <3>2, MessagesAre
      <3>3. Worth(Tail(q)) \in Int /\ Worth(q) = Weight(Head(q)) + Worth(Tail(q))
        <4> PICK t : t = Tail(q)
          OBVIOUS
        <4>1. t \in Seq(Lines)
          BY <1>q, <3>1
        <4> QED
          BY <1>q, <3>1, <4>1, WorthTail, WorthIs
      <3>v. PICK v \in Int : v = Worth(Tail(q))
        BY <3>3
      <3>4. seq' = n + e
        BY <1>q, <1>w, <2>2, <3>e
      <3>5. Reckoned' = n + e + v + l /\ w = e + v /\ flushed' = b
        BY <1>q, <1>w, <2>2, <3>1, <3>3, <3>4, <3>e, <3>v, ReckonedLater
      <3>6. e \in Nat /\ v \in Int
        BY <3>e, <3>v
      <3>7. n + e + v + l = n + w + l
        BY <1>d, <3>5, <3>6
      <3> QED
        BY <1>d, <1>w, <1>0, <3>5, <3>7
    <2> QED
      BY <1>d, <1>w, <1>0, <1>2, <2>1, <2>2, FanIs
  <1> QED
    BY <1>d, <1>w, <1>0, <1>1, <1>2, TwoSides

LEMMA WorthPositive ==
  ASSUME NEW q \in Seq(Messages)
  PROVE  Worth(q) \in Nat
  <1>1. q \in Seq(Lines) /\ Len(q) \in Nat /\ \A k \in 1 .. Len(q) : Weight(q[k]) \in Nat
    <2>1. \A k \in 1 .. Len(q) : q[k] \in Messages
      OBVIOUS
    <2>2. \A k \in 1 .. Len(q) : Weight(q[k]) \in {0, 1}
      BY <2>1, MessagesAre
    <2> QED
      BY <2>2, MessagesAre
  <1>2. PICK f : /\ Worth(q) = f[Len(q)] /\ f[0] = 0
                 /\ \A k \in 1 .. Len(q) : f[k] = f[k - 1] + Weight(q[k])
    BY <1>1, WorthSteps
  <1> DEFINE Ns == {n \in Nat : n <= Len(q) => f[n] \in Nat}
  <1>3. 0 \in Ns
    BY <1>2
  <1>4. ASSUME NEW n \in Nat, n \in Ns PROVE n + 1 \in Ns
    <2> SUFFICES ASSUME n + 1 <= Len(q) PROVE f[n + 1] \in Nat
      OBVIOUS
    <2>1. n + 1 \in 1 .. Len(q) /\ n + 1 - 1 = n /\ f[n] \in Nat
      BY <1>1, <1>4
    <2>2. f[n + 1] = f[n] + Weight(q[n + 1]) /\ Weight(q[n + 1]) \in Nat
      BY <1>1, <1>2, <2>1
    <2> QED
      BY <2>1, <2>2
  <1>5. \A n \in Nat : n \in Ns
    <2> HIDE DEF Ns
    <2> QED
      BY <1>3, <1>4, SetInduction
  <1> QED
    BY <1>1, <1>2, <1>5

\* A step that starts or stops the stream, or is taken while it is off.
LEMMA StepOff ==
  ASSUME TapTypes, LastNames, TapBounds, TapBounds', [Next]_vars, at = "off" \/ at' = "off"
  PROVE  /\ flushed \in Nat /\ flushed' \in Nat /\ flushed <= flushed'
         /\ \/ seq' = seq /\ at' = "off"
            \/ seq' = 0 /\ queue'["stream"] = <<>> /\ lost'["stream"] = 0
  <1>1. flushed \in Nat /\ flushed' \in Nat
    BY DEF TapBounds
  <1>2. CASE TapNext /\ UNCHANGED fanVars
    <2>1. flushed' \in {flushed, flushed + 1}
      <3>1. CASE UNCHANGED <<subscribed, queue, lost, flushed>>
        BY <3>1
      <3>2. ASSUME NEW m \in Messages, flushed' = flushed + (IF m.kind = "samples" THEN 1 ELSE 0)
            PROVE  flushed' \in {flushed, flushed + 1}
        BY <1>1, <3>2
      <3> QED
        BY <1>2, <3>1, <3>2, TapNextIs
    <2> QED
      BY <1>1, <1>2, <2>1 DEF fanVars
  <1>3. CASE FanNext
    <2>1. UNCHANGED flushed
      BY <1>3, FanIs
    <2>2. CASE Subscribe("stream") /\ seq' = 0
      <3>1. queue \in [Subscribers -> Seq(Messages)] /\ lost \in [Subscribers -> Nat] /\ "stream" \in Subscribers
        BY StreamAssumption DEF TapTypes
      <3>2. queue' = [queue EXCEPT !["stream"] = <<>>] /\ lost' = [lost EXCEPT !["stream"] = 0]
        BY <2>2 DEF Subscribe
      <3> QED
        BY <1>1, <2>1, <2>2, <3>1, <3>2
    <2>3. CASE at' = "off" /\ UNCHANGED seq
      BY <1>1, <2>1, <2>3
    <2> QED
      BY <1>3, <2>2, <2>3, FanIs
  <1> QED
    BY <1>2, <1>3, TwoSides

LEMMA StepNumbered ==
  ASSUME TapTypes, TapTypes', LastNames, StreamTypes, StreamTypes', TapBounds, TapBounds', QueueBounds,
         Numbered, [Next]_vars
  PROVE  Numbered'
  <1>1. CASE at # "off" /\ at' # "off"
    <2>1. PICK w \in Nat, l \in Nat : w = Worth(queue'["stream"]) /\ l = lost'["stream"]
      <3>1. queue'["stream"] \in Seq(Messages)
        BY StreamAssumption DEF TapTypes
      <3> QED
        BY <3>1, LaterLines, WorthPositive
    <2>2. Reckoned' = seq' + w + l /\ seq' \in Nat
      BY <2>1, ReckonedLater DEF StreamTypes
    <2>3. PICK r \in Int, b \in Nat, d \in Nat : r = Reckoned /\ b = flushed /\ d = flushed'
      BY <1>1, StepReckoned
    <2>4. r <= b /\ seq' + w + l - r = d - b
      BY <1>1, <2>2, <2>3, StepReckoned DEF Numbered
    <2>5. seq' + w + l <= d /\ seq' <= d
      BY <2>1, <2>2, <2>3, <2>4
    <2> QED
      BY <2>2, <2>3, <2>5 DEF Numbered
  <1>2. CASE at = "off" \/ at' = "off"
    <2>1. CASE seq' = seq /\ at' = "off"
      <3>1. seq \in Nat /\ seq <= flushed
        BY DEF StreamTypes, Numbered
      <3>2. seq' <= flushed'
        BY <1>2, <2>1, <3>1, StepOff
      <3> QED
        BY <2>1, <3>2 DEF Numbered
    <2>2. CASE seq' = 0 /\ queue'["stream"] = <<>> /\ lost'["stream"] = 0
      <3>1. Reckoned' = 0 + 0 + 0
        BY <2>2, ReckonedLater, WorthEmpty, Zenon
      <3>2. 0 + 0 + 0 <= flushed' /\ 0 <= flushed'
        BY <1>2, StepOff
      <3> QED
        BY <2>2, <3>1, <3>2, Zenon DEF Numbered
    <2> QED
      BY <1>2, <2>1, <2>2, StepOff
  <1> QED
    BY <1>1, <1>2

LEMMA InitNumbered == Init => Numbered
  BY DEF Init, TapInit, Numbered

------------------------------------------------------------------------------
(* The clients' bounds, and type correctness *)

Bound(k) == Len(k.queue) <= LineQueue /\ (k.alive => k.batches <= DropLimit)

ClientBounds == \A c \in Clients : Bound(client[c])

LEMMA NoneBound == Bound(Out) /\ Bound([Out EXCEPT !.at = "gone"])
  <1>1. /\ Out.queue = <<>> /\ ~Out.alive
        /\ [Out EXCEPT !.at = "gone"].queue = <<>> /\ ~[Out EXCEPT !.at = "gone"].alive
    BY DEF Out
  <1>2. Len(<<>>) <= LineQueue
    BY StreamAssumption
  <1> QED
    BY <1>1, <1>2 DEF Bound

LEMMA OneBound ==
  ASSUME StreamTypes, ClientBounds, NEW c \in Clients, NEW k, client' = [client EXCEPT ![c] = k], Bound(k)
  PROVE  ClientBounds'
  <1>1. client'[c] = k /\ \A d \in Clients : d # c => client'[d] = client[d]
    BY DEF StreamTypes
  <1>2. \A d \in Clients : Bound(client'[d])
    BY <1>1 DEF ClientBounds
  <1> QED
    BY <1>2 DEF ClientBounds, Bound

\* Between a line's tries and the writer, no queue gets longer than it may.
LEMMA QueueMore ==
  ASSUME NEW q \in Seq(Lines), NEW x, Len(q) <= LineQueue
  PROVE  /\ q # <<>> => Len(Tail(q)) <= LineQueue
         /\ Len(q) < LineQueue => Len(Append(q, x)) <= LineQueue
  <1>1. LineQueue \in Nat /\ Len(q) \in Nat /\ Len(Append(q, x)) = Len(q) + 1
    BY StreamAssumption
  <1>2. q # <<>> => Len(Tail(q)) = Len(q) - 1
    OBVIOUS
  <1> QED
    BY <1>1, <1>2

LEMMA ClientBound ==
  ASSUME StreamTypes, Accounted, ClientBounds, NEW c \in Clients,
         Arrive(c) \/ Leave(c) \/ Write(c) \/ Add(c) \/ OfferNotice(c) \/ OfferLine(c)
  PROVE  ClientBounds'
  <1> PICK h \in ClientStates : h = client[c]
    BY DEF StreamTypes
  <1>0. /\ h.queue \in Seq(Lines) /\ h.batches \in Nat
        /\ Len(h.queue) <= LineQueue /\ (h.alive => h.batches <= DropLimit) /\ (h.alive => h.at = "on")
    BY ClientNumbers DEF StreamTypes, ClientBounds, Bound
  <1>1. CASE Arrive(c)
    <2> PICK k : k = [h EXCEPT !.at = "arrived"]
      OBVIOUS
    <2>1. client' = [client EXCEPT ![c] = k] /\ ~h.alive
      BY <1>0, <1>1 DEF Arrive, StreamTypes
    <2>2. k.queue = h.queue /\ k.alive = h.alive
      BY DEF ClientStates
    <2> QED
      BY <1>0, <2>1, <2>2, OneBound DEF Bound
  <1>2. CASE Leave(c)
    <2> PICK k : k = [h EXCEPT !.alive = FALSE]
      OBVIOUS
    <2>1. client' = [client EXCEPT ![c] = k]
      BY <1>2 DEF Leave, StreamTypes
    <2>2. k.queue = h.queue /\ ~k.alive
      BY DEF ClientStates
    <2> QED
      BY <1>0, <2>1, <2>2, OneBound DEF Bound
  <1>3. CASE Write(c)
    <2> PICK q : q = Tail(h.queue)
      OBVIOUS
    <2> PICK k : k = [h EXCEPT !.queue = q]
      OBVIOUS
    <2>1. client' = [client EXCEPT ![c] = k] /\ h.queue # <<>>
      BY <1>3 DEF Write, StreamTypes
    <2>2. k.queue = q /\ k.alive = h.alive /\ k.batches = h.batches
      BY DEF ClientStates
    <2>3. Len(q) <= LineQueue
      BY <1>0, <2>1, QueueMore
    <2> QED
      BY <1>0, <2>1, <2>2, <2>3, OneBound DEF Bound
  <1>4. CASE Add(c)
    <2> PICK q : q = <<Hello(known)>>
      OBVIOUS
    <2> PICK k : k = [h EXCEPT !.at = "on", !.alive = TRUE, !.queue = q]
      OBVIOUS
    <2>1. client' = [client EXCEPT ![c] = k] /\ h.at = "arrived"
      BY <1>4 DEF Add, StreamTypes, ClientStates
    <2>2. k.queue = q /\ k.batches = h.batches
      BY DEF ClientStates
    <2>3. h.batches = 0
      BY <2>1 DEF Accounted, Settled
    <2>4. Len(q) <= LineQueue /\ 0 <= DropLimit
      BY Lengths, StreamAssumption
    <2> QED
      BY <2>1, <2>2, <2>3, <2>4, OneBound DEF Bound
  <1>5. CASE OfferNotice(c)
    <2> PICK q : q = Append(h.queue, Notice(h.batches, FALSE))
      OBVIOUS
    <2> PICK k, t : k = Noticed(h, q) /\ t = [h EXCEPT !.tried = TRUE]
      OBVIOUS
    <2>1. \/ client' = [client EXCEPT ![c] = k] /\ Len(h.queue) < LineQueue
          \/ client' = [client EXCEPT ![c] = t]
      BY <1>5 DEF OfferNotice, AfterNotice, Noticed, Fits
    <2>2. k.queue = q /\ k.batches = 0
      BY DEF Noticed, ClientStates
    <2>3. t.queue = h.queue /\ t.alive = h.alive /\ t.batches = h.batches
      BY DEF ClientStates
    <2>4. Len(h.queue) < LineQueue => Len(q) <= LineQueue
      BY <1>0, QueueMore
    <2>5. 0 <= DropLimit
      BY StreamAssumption
    <2> QED
      BY <1>0, <2>1, <2>2, <2>3, <2>4, <2>5, OneBound DEF Bound
  <1>6. CASE OfferLine(c)
    <2> PICK q : q = Append(h.queue, Head(todo[c]))
      OBVIOUS
    <2> PICK k, l, m :
          /\ k = [h EXCEPT !.tried = FALSE, !.queue = q]
          /\ l = [h EXCEPT !.tried = FALSE, !.batches = h.batches + 1,
                           !.dropped = h.dropped + 1, !.alive = KeepsUp(h.batches + 1)]
          /\ m = [h EXCEPT !.tried = FALSE, !.messages = h.messages + 1,
                           !.alive = KeepsUp(h.batches)]
      OBVIOUS
    <2>1. \/ client' = [client EXCEPT ![c] = k] /\ Len(h.queue) < LineQueue
          \/ client' = [client EXCEPT ![c] = l] \/ client' = [client EXCEPT ![c] = m]
      <3>1. \/ /\ client' = [client EXCEPT ![c].tried = FALSE, ![c].queue = Append(@, Head(todo[c]))]
               /\ Len(h.queue) < LineQueue
            \/ client' = [client EXCEPT ![c].tried = FALSE, ![c].batches = h.batches + 1,
                           ![c].dropped = @ + 1, ![c].alive = KeepsUp(h.batches + 1)]
            \/ client' = [client EXCEPT ![c].tried = FALSE, ![c].messages = @ + 1,
                           ![c].alive = KeepsUp(h.batches)]
        BY <1>6 DEF OfferLine, Fits
      <3>2. CASE client' = [client EXCEPT ![c].tried = FALSE, ![c].queue = Append(@, Head(todo[c]))]
        BY <3>1, <3>2 DEF StreamTypes, ClientStates
      <3>3. CASE client' = [client EXCEPT ![c].tried = FALSE, ![c].batches = h.batches + 1,
                             ![c].dropped = @ + 1, ![c].alive = KeepsUp(h.batches + 1)]
        BY <3>3 DEF StreamTypes, ClientStates
      <3>4. CASE client' = [client EXCEPT ![c].tried = FALSE, ![c].messages = @ + 1,
                             ![c].alive = KeepsUp(h.batches)]
        BY <3>4 DEF StreamTypes, ClientStates
      <3> QED
        BY <3>1, <3>2, <3>3, <3>4
    <2>2. k.queue = q /\ k.alive = h.alive /\ k.batches = h.batches
      BY DEF ClientStates
    <2>3. l.queue = h.queue /\ l.alive = KeepsUp(h.batches + 1) /\ l.batches = h.batches + 1
      BY DEF ClientStates
    <2>4. m.queue = h.queue /\ m.alive = KeepsUp(h.batches) /\ m.batches = h.batches
      BY DEF ClientStates
    <2>5. Len(h.queue) < LineQueue => Len(q) <= LineQueue
      BY <1>0, QueueMore
    <2>6. Bound(l) /\ Bound(m)
      BY <1>0, <2>3, <2>4 DEF Bound, KeepsUp
    <2>7. CASE client' = [client EXCEPT ![c] = k] /\ Len(h.queue) < LineQueue
      BY <1>0, <2>2, <2>5, <2>7, OneBound DEF Bound
    <2> QED
      BY <2>1, <2>6, <2>7, OneBound
  <1> QED
    BY <1>1, <1>2, <1>3, <1>4, <1>5, <1>6

LEMMA StepBound ==
  ASSUME StreamTypes, Accounted, ClientBounds, [Next]_vars
  PROVE  ClientBounds'
  <1>1. CASE UNCHANGED client
    BY <1>1 DEF ClientBounds, Bound
  <1>2. CASE Stop \/ Reap
    <2>1. \A c \in Clients : client'[c] = client[c] \/ client'[c] = [Out EXCEPT !.at = "gone"]
      BY <1>2 DEF Stop, Reap
    <2>2. \A c \in Clients : Bound(client'[c])
      BY <2>1, NoneBound DEF ClientBounds
    <2> QED
      BY <2>2 DEF ClientBounds, Bound
  <1>3. CASE Start \/ Added \/ TakeNothing \/ Take \/ Offered \/ UNCHANGED vars
    BY <1>1, <1>3 DEF Start, Added, TakeNothing, Take, Offered, vars
  <1>4. CASE \E c \in Clients : Arrive(c) \/ Leave(c) \/ Write(c) \/ Add(c) \/ OfferNotice(c) \/ OfferLine(c)
    BY <1>4, ClientBound
  <1> QED
    BY <1>1, <1>2, <1>3, <1>4 DEF Next

LEMMA InitBound == Init => ClientBounds
  BY NoneBound DEF Init, ClientBounds

\* What the steps keep, all told.
StreamInvariant ==
  /\ TapTypes /\ LastNames /\ StreamTypes /\ ColumnsKnown /\ Accounted /\ GoneCounted
  /\ TapBounds /\ QueueBounds /\ Numbered /\ ClientBounds

LEMMA InitStream == Init => StreamInvariant
  <1>1. Init => GoneCounted
    BY DEF Init, GoneCounted
  <1> QED
    BY <1>1, InitTap, InitColumns, InitSettled, InitTapBounds, InitNumbered, InitBound DEF StreamInvariant

LEMMA StepStream ==
  ASSUME StreamInvariant, [Next]_vars
  PROVE  StreamInvariant'
  <1> USE DEF StreamInvariant
  <1>1. TapTypes' /\ LastNames' /\ StreamTypes' /\ ColumnsKnown' /\ Accounted'
    BY StepTap, StepColumns, StepSettled
  <1>2. GoneCounted' /\ TapBounds' /\ QueueBounds' /\ ClientBounds'
    BY <1>1, DropsStep, StepTapBounds, StepBound
  <1>3. Numbered'
    BY <1>1, <1>2, StepNumbered
  <1> QED
    BY <1>1, <1>2, <1>3

LEMMA StreamTyped == StreamInvariant => TypeOK
  <1> SUFFICES ASSUME StreamInvariant PROVE TypeOK
    OBVIOUS
  <1> USE DEF StreamInvariant
  <1>1. /\ want \in Seq(Ids) /\ sampling \in Seq(Ids) /\ watches \in Sets
        /\ meta \in [Ids -> Names \union {Unnamed}] /\ lost \in [Subscribers -> Nat]
        /\ \A k \in DOMAIN giving : giving[k] \in Lists
        /\ \A k \in DOMAIN batchSet : batchSet[k] \in Sets
    BY SeqIs DEF TapTypes
  <1>2. TapTypeOK
    BY <1>1 DEF TapTypeOK, TapBounds, QueueBounds
  <1>3. seq \in 0 .. MaxBatches
    <2>1. seq \in Nat /\ seq <= flushed /\ flushed \in 0 .. MaxBatches /\ MaxBatches \in Nat
      BY TapAssumption DEF StreamTypes, Numbered, TapBounds
    <2> QED
      BY <2>1
  <1>4. /\ at \in {"off", "top", "take", "offer", "reap"} /\ known \in Sets /\ tapDropped \in Nat
        /\ gone \in Nat
    BY DEF StreamTypes, GoneCounted
  <1>5. ASSUME NEW c \in Clients
        PROVE  /\ client[c].at \in {"out", "arrived", "on", "gone"}
               /\ client[c].alive => client[c].at = "on"
               /\ Len(client[c].queue) <= LineQueue
               /\ client[c].alive => client[c].batches <= DropLimit
    <2>1. client[c] \in ClientStates /\ (client[c].alive => client[c].at = "on")
      BY DEF StreamTypes
    <2>2. client[c].at \in {"out", "arrived", "on", "gone"}
      BY <2>1 DEF ClientStates
    <2> QED
      BY <2>1, <2>2 DEF ClientBounds, Bound
  <1> QED
    BY <1>2, <1>3, <1>4, <1>5 DEF TypeOK

\* The variables keep their types and bounds: queues of the tap and of the clients
\* never hold more than they may, a client that is kept has not lost more than it
\* may, and no batch is numbered that was not flushed.
THEOREM TypeCorrect == Spec => []TypeOK
  BY InitStream, StepStream, StreamTyped, PTL DEF Spec

\* While the stream runs, what is numbered, queued and lost grows with what is
\* flushed (Tap::samples, its Drops, and the fan-out's seq).
EveryBatchCounted ==
  [][at # "off" /\ at' # "off" => Reckoned' - Reckoned = flushed' - flushed]_vars

\* While the stream runs, every batch that is flushed is numbered, waits in the
\* tap's queue, or is counted as lost, however full that queue is.
THEOREM BatchesReckoned == Spec => EveryBatchCounted
  <1>1. StreamInvariant /\ [Next]_vars
        => [at # "off" /\ at' # "off" => Reckoned' - Reckoned = flushed' - flushed]_vars
    BY StepReckoned DEF StreamInvariant
  <1> QED
    BY <1>1, InitStream, StepStream, PTL DEF Spec, EveryBatchCounted
==============================================================================
