------------------------------- MODULE Stream -------------------------------
(***************************************************************************)
(* The live stream (studio-app/src/stream.rs) behind the tap: one fan-out  *)
(* thread takes messages from its subscription and offers each, as a line, *)
(* to every client's bounded queue, from which the client's writer takes   *)
(* them.  A client that falls behind loses lines and is told how many; one *)
(* that lost too many is cut off.                                          *)
(*                                                                         *)
(* Offering a line is two tries on the queue, first the notice of what was *)
(* lost and then the line; the writer may take a line in between.  The     *)
(* clients are independent of each other, so the order in which a line is  *)
(* offered to them is left open.                                           *)
(***************************************************************************)
EXTENDS Tap, FiniteSetsExt

CONSTANTS
  Clients,
  LineQueue,  \* client_queue: lines queued per client, at least 2
  DropLimit,  \* drop_limit
  MaxStarts   \* bound on the times the stream is started

ASSUME StreamAssumption ==
  /\ "stream" \in Subscribers /\ IsFiniteSet(Clients)
  /\ LineQueue \in Nat \ {0, 1} /\ DropLimit \in Nat /\ MaxStarts \in Nat

VARIABLES
  at,         \* the fan-out: "off", "top", "take", "offer", "reap"
  known,      \* the watches it announced last
  seq,        \* batches it numbered
  tapDropped, \* tap drops it reported
  gone,       \* dropped_gone
  todo,       \* lines it has still to offer to each client
  client,     \* the clients
  seen,       \* what became of the lines for each client (history)
  starts

fanVars == <<at, known, seq, tapDropped, gone, starts>>
vars == <<tapAll, fanVars, todo, client, seen>>

\* A client that is not connected, and one nothing was sent to yet.
Out == [at |-> "out", alive |-> FALSE, queue |-> <<>>, batches |-> 0, messages |-> 0,
        dropped |-> 0, tried |-> FALSE]
Unseen == [joined |-> 0, got |-> 0, told |-> 0, announced |-> <<>>, excused |-> FALSE,
           columns |-> <<>>]

Hello(set) == [kind |-> "hello", set |-> set]
Announce(set) == [kind |-> "watches", set |-> set]
Line(set) == [kind |-> "samples", set |-> set]
Notice(batches, tap) == [kind |-> "dropped", batches |-> batches, tap |-> tap]
State == [kind |-> "status"]

On == {c \in Clients : client[c].at = "on"}

\* Batches that these clients lost.
Lost(S) == MapThenSumSet(LAMBDA c : client[c].dropped, S)

------------------------------------------------------------------------------
(* Clients *)

Arrive(c) ==
  /\ at # "off" /\ client[c].at = "out"
  /\ client' = [client EXCEPT ![c].at = "arrived"]
  /\ UNCHANGED <<tapAll, fanVars, todo, seen>>

\* The peer closes the connection, and the client's reader notices.
Leave(c) ==
  /\ client[c].at = "on" /\ client[c].alive
  /\ client' = [client EXCEPT ![c].alive = FALSE]
  /\ UNCHANGED <<tapAll, fanVars, todo, seen>>

\* write_lines
Write(c) ==
  LET line == Head(client[c].queue)
  IN  /\ client[c].alive /\ client[c].queue # <<>>
      /\ client' = [client EXCEPT ![c].queue = Tail(@)]
      /\ seen' = [seen EXCEPT
           ![c].got = IF line.kind = "samples" THEN @ + 1 ELSE @,
           ![c].told = IF line.kind = "dropped" /\ ~line.tap THEN @ + line.batches ELSE @]
      /\ UNCHANGED <<tapAll, fanVars, todo>>

------------------------------------------------------------------------------
(* The fan-out *)

\* StreamServer::start: subscribe, and go on from the snapshot.
Start ==
  /\ at = "off" /\ starts < MaxStarts
  /\ at' = "top" /\ starts' = starts + 1
  /\ Subscribe("stream")
  /\ known' = watches /\ seq' = 0 /\ tapDropped' = 0 /\ gone' = 0
  /\ UNCHANGED <<appVars, tapVars, flushed, named, changes, todo, client, seen>>

\* The server is dropped: every client is closed.
Stop ==
  /\ at = "top"
  /\ at' = "off"
  /\ Unsubscribe("stream")
  /\ client' = [c \in Clients |-> IF client[c].at \in {"arrived", "on"}
                                  THEN [Out EXCEPT !.at = "gone"] ELSE client[c]]
  /\ UNCHANGED <<appVars, tapVars, flushed, named, changes, known, seq, tapDropped, gone,
                 starts, todo, seen>>

\* Fanout::add
Add(c) ==
  /\ at = "top" /\ client[c].at = "arrived"
  /\ client' = [client EXCEPT ![c].at = "on", ![c].alive = TRUE, ![c].queue = <<Hello(known)>>]
  /\ seen' = [seen EXCEPT ![c] = [Unseen EXCEPT !.joined = seq, !.announced = known]]
  /\ UNCHANGED <<tapAll, fanVars, todo>>

Added ==
  /\ at = "top" /\ \A c \in Clients : client[c].at # "arrived"
  /\ at' = "take"
  /\ UNCHANGED <<tapAll, known, seq, tapDropped, gone, starts, todo, client, seen>>

\* recv_timeout finds nothing.
TakeNothing ==
  /\ at = "take" /\ queue["stream"] = <<>>
  /\ at' = "reap"
  /\ UNCHANGED <<tapAll, known, seq, tapDropped, gone, starts, todo, client, seen>>

\* Mutant: a single drop goes unnoticed.
Behind_ByMany == lost["stream"] > tapDropped + 1

\* The tap dropped batches that no client was told of.
Behind == lost["stream"] > tapDropped

\* Mutant: samples do not announce their columns.
Announced_Not(message) == <<>>

\* set_watches: a list other than the last one is announced.
Announced(message) ==
  IF message.kind # "status" /\ message.set # known THEN <<Announce(message.set)>> ELSE <<>>

\* A message is taken, and made into lines: what the tap lost, then its own.
Take ==
  LET message == Head(queue["stream"])
      notice == IF Behind THEN <<Notice(lost["stream"] - tapDropped, TRUE)>> ELSE <<>>
      own == CASE message.kind = "samples" -> <<Line(message.set)>>
               [] message.kind = "status" -> <<State>>
               [] OTHER -> <<>>
  IN  /\ at = "take" /\ Received("stream")
      /\ at' = "offer"
      /\ tapDropped' = IF Behind THEN lost["stream"] ELSE tapDropped
      /\ known' = IF message.kind # "status" THEN message.set ELSE known
      /\ seq' = IF message.kind = "samples" THEN seq + 1 ELSE seq
      /\ todo' = [c \in Clients |-> IF c \in On THEN notice \o Announced(message) \o own ELSE <<>>]
      /\ UNCHANGED <<appVars, tapVars, flushed, named, changes, gone, starts, client, seen>>

Fits(c) == Len(client[c].queue) < LineQueue
Pending(c) == client[c].batches + client[c].messages > 0

\* Mutant: losses count as told although the notice found no room.
AfterNotice_Cleared(c) == [client[c] EXCEPT !.tried = ~Fits(c), !.batches = 0, !.messages = 0,
                             !.queue = IF Fits(c) THEN Append(@, Notice(client[c].batches, FALSE)) ELSE @]

\* The notice is queued if it fits.
AfterNotice(c) ==
  IF Fits(c)
  THEN [client[c] EXCEPT !.queue = Append(@, Notice(client[c].batches, FALSE)),
                         !.batches = 0, !.messages = 0]
  ELSE [client[c] EXCEPT !.tried = TRUE]

\* Client::offer, first try: the notice.
OfferNotice(c) ==
  /\ at = "offer" /\ todo[c] # <<>> /\ client[c].alive
  /\ Pending(c) /\ ~client[c].tried
  /\ client' = [client EXCEPT ![c] = AfterNotice(c)]
  /\ UNCHANGED <<tapAll, fanVars, todo, seen>>

\* What the client's history makes of a line that was queued, or lost.
SeenQueued(c, line) ==
  CASE line.kind = "samples" -> [seen[c] EXCEPT !.columns = <<line.set>>]
    [] line.kind = "watches" -> [seen[c] EXCEPT !.announced = line.set, !.excused = FALSE,
                                                !.columns = <<>>]
    [] OTHER -> seen[c]

SeenLost(c, line) ==
  IF line.kind = "samples" THEN seen[c] ELSE [seen[c] EXCEPT !.excused = TRUE]

\* A client may lose so many batches before it is cut off.
KeepsUp(batches) == batches <= DropLimit

\* Client::offer, second try: the line.  A client with too many lost batches
\* is cut off.
OfferLine(c) ==
  LET line == Head(todo[c])
      batch == line.kind = "samples"
      pending == client[c].batches + 1
  IN  /\ at = "offer" /\ todo[c] # <<>> /\ client[c].alive
      /\ ~Pending(c) \/ client[c].tried
      /\ todo' = [todo EXCEPT ![c] = Tail(@)]
      /\ \/ /\ Fits(c)
            /\ client' = [client EXCEPT ![c].tried = FALSE, ![c].queue = Append(@, line)]
            /\ seen' = [seen EXCEPT ![c] = SeenQueued(c, line)]
         \/ /\ ~Fits(c) /\ batch
            /\ client' = [client EXCEPT ![c].tried = FALSE, ![c].batches = pending,
                            ![c].dropped = @ + 1, ![c].alive = KeepsUp(pending)]
            /\ seen' = [seen EXCEPT ![c] = SeenLost(c, line)]
         \/ /\ ~Fits(c) /\ ~batch
            /\ client' = [client EXCEPT ![c].tried = FALSE, ![c].messages = @ + 1,
                            ![c].alive = KeepsUp(client[c].batches)]
            /\ seen' = [seen EXCEPT ![c] = SeenLost(c, line)]
      /\ UNCHANGED <<tapAll, fanVars>>

\* Every line was offered to the clients still there.
Offered ==
  /\ at = "offer" /\ \A c \in Clients : client[c].alive => todo[c] = <<>>
  /\ at' = "reap" /\ todo' = [c \in Clients |-> <<>>]
  /\ UNCHANGED <<tapAll, known, seq, tapDropped, gone, starts, client, seen>>

\* Mutant: what a client lost is forgotten with it.
Gone_Unchanged(dead) == gone

\* What the clients that leave have lost stays counted.
Gone(dead) == gone + Lost(dead)

Reap ==
  LET dead == {c \in On : ~client[c].alive}
  IN  /\ at = "reap"
      /\ at' = "top"
      /\ gone' = Gone(dead)
      /\ client' = [c \in Clients |-> IF c \in dead THEN [Out EXCEPT !.at = "gone"] ELSE client[c]]
      /\ UNCHANGED <<tapAll, known, seq, tapDropped, starts, todo, seen>>

------------------------------------------------------------------------------
Init ==
  /\ TapInit
  /\ at = "off" /\ known = <<>> /\ seq = 0 /\ tapDropped = 0 /\ gone = 0 /\ starts = 0
  /\ todo = [c \in Clients |-> <<>>]
  /\ client = [c \in Clients |-> Out] /\ seen = [c \in Clients |-> Unseen]

FanOut == Added \/ TakeNothing \/ Take \/ Offered \/ Reap

Next ==
  \/ TapNext /\ UNCHANGED <<fanVars, todo, client, seen>>
  \/ Start \/ Stop \/ Added \/ TakeNothing \/ Take \/ Offered \/ Reap
  \/ \E c \in Clients : Arrive(c) \/ Leave(c) \/ Write(c) \/ Add(c) \/ OfferNotice(c) \/ OfferLine(c)

Spec == Init /\ [][Next]_vars

\* The fan-out thread runs.
FairSpec == Spec /\ WF_vars(FanOut \/ \E c \in Clients : Add(c) \/ OfferNotice(c) \/ OfferLine(c))

------------------------------------------------------------------------------
(* Properties *)

TypeOK ==
  /\ TapTypeOK
  /\ at \in {"off", "top", "take", "offer", "reap"}
  /\ known \in Sets /\ seq \in 0 .. MaxBatches /\ tapDropped \in Nat /\ gone \in Nat
  /\ \A c \in Clients :
       /\ client[c].at \in {"out", "arrived", "on", "gone"}
       /\ client[c].alive => client[c].at = "on"
       /\ Len(client[c].queue) <= LineQueue
       /\ client[c].alive => client[c].batches <= DropLimit

\* The batches a line stands for: its own, or those a notice says the client lost.
Weight(line) ==
  IF line.kind = "samples" THEN 1
  ELSE IF line.kind = "dropped" /\ ~line.tap THEN line.batches ELSE 0

Worth(lines) ==
  LET sum[k \in 0 .. Len(lines)] == IF k = 0 THEN 0 ELSE sum[k - 1] + Weight(lines[k])
  IN  sum[Len(lines)]

\* What a client is sent and what it is told it lost add up to the batches
\* since it connected: a loss is neither hidden nor told twice, whenever the
\* queue runs full (offer: "Lost since the client last got a message, and not
\* reported to it yet").
LossesAddUp ==
  \A c \in On : client[c].alive =>
    seq - seen[c].joined =
      seen[c].got + seen[c].told + Worth(client[c].queue) + client[c].batches + Worth(todo[c])

\* A client knows the columns of the samples it is sent, unless the message
\* that announced them is among those it lost (docs/stream.md: "It comes
\* before the first samples message that uses the new set").
ColumnsAnnounced ==
  \A c \in On :
    \/ seen[c].columns = <<>> \/ Head(seen[c].columns) = seen[c].announced
    \/ seen[c].excused

\* The drops shown in StreamState ("over every client, those disconnected
\* included") never go down while the stream runs.
DropsNeverFall ==
  [][at # "off" /\ at' # "off" => gone' + tapDropped' + Lost(On)' >= gone + tapDropped + Lost(On)]_vars

\* Batches the tap dropped because the fan-out fell behind are reported to the
\* clients, also if nothing is published any more.
TapLossTold ==
  \A n \in 1 .. MaxBatches : lost["stream"] >= n /\ at # "off" ~> tapDropped >= n \/ at = "off"
==============================================================================
