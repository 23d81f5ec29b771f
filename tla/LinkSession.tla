----------------------------- MODULE LinkSession -----------------------------
(***************************************************************************)
(* The run loop of a session over the firmware's framed link               *)
(* (studio-core/src/link.rs, Worker::run): one thread that takes commands, *)
(* reads frames, sends what its tickers call for and expires what nobody   *)
(* answered, against a firmware (external) that serves one frame at a time *)
(* and pushes SAMPLE frames of the set it watches.                         *)
(*                                                                         *)
(* The link is a byte stream: frames arrive in order, a corrupted one is   *)
(* dropped by the decoder at either end.  A session begins where the       *)
(* handshake (LinkHandshake) ends: with the lease.  Faults names what the  *)
(* environment may do.  Time is abstract: a ticker may be due, and a       *)
(* pending request late, whenever the loop looks.                          *)
(***************************************************************************)
EXTENDS Integers, Sequences, SequencesExt

CONSTANTS
  Requests,    \* WRITE, DISCARD and SAVE requests of the application
  WatchSets,   \* the watch sets it may ask for: sequences of cells
  Cells,       \* the firmware's catalog
  MaxWatches,  \* MAX_WATCHES
  Periods,     \* the sample periods its rates ask for
  MaxPeriod,   \* MAX_PERIOD_MS
  Polls,       \* the polls the tickers send: a subset of LEASE, READ, STATS
  Modulus,     \* modulus of the firmware's sample counter: 2^16 in the code
  MaxSeq,      \* bound on the frames sent, the last two of them the farewell:
               \* seq is a u16 in the code
  MaxSamples,  \* bound on the SAMPLE frames
  MaxCommands, \* bound on the watch commands
  Faults       \* subset of AllFaults

AllFaults == {"loss", "sampleloss", "fail", "late", "lapse", "takeover"}

ASSUME LinkAssumption ==
  /\ \A w \in WatchSets : w \in Seq(Nat)
  /\ Cells \subseteq Nat
  /\ MaxWatches \in Nat \ {0} /\ MaxPeriod \in Nat \ {0}
  /\ Periods \subseteq 1 .. MaxPeriod
  /\ Polls \subseteq {"LEASE", "READ", "STATS"}
  /\ Modulus \in Nat \ {0} /\ MaxSeq \in Nat \ {0, 1} /\ MaxSamples \in Nat /\ MaxCommands \in Nat
  /\ Faults \subseteq AllFaults

VARIABLES
  pc,          \* where the loop is: "drain", "read", "tick", "expire", "ending",
               \* "closed", or "cut": without the whole farewell
  seq,         \* the last sequence number used
  pending,     \* what waits for a reply under each sequence number
  wanted,      \* the watches asked for
  asked,       \* the period the rate asks for
  active,      \* the set the session takes the firmware to sample
  period,      \* and how often
  lastSample,  \* last_sample_seq, -1 for None
  missed,      \* missed_samples
  batch,       \* rows in the frame being built
  answers,     \* the replies each request was given (history of the channel)
  down, up,    \* the frames on the way to the firmware and back
  holder,      \* the tool that holds the lease
  watch,       \* the set and period the firmware samples
  sampled,     \* its sample counter
  applied,     \* how often it carried out each request (history)
  commands,    \* watch commands so far (history)
  row,         \* the last row recorded: what was sampled, what it was taken for
  recorded,    \* rows recorded, and
  sunk,        \* rows handed to the sink (history)
  gap          \* samples not recorded between recorded ones: counted, since the last

sendVars == <<seq, pending, down>>
askVars == <<wanted, asked, commands>>
setVars == <<active, period, lastSample, batch, sunk, gap>>
rowVars == <<missed, row, recorded>>
fwVars == <<holder, watch, sampled, applied>>
vars == <<pc, sendVars, askVars, setVars, rowVars, fwVars, answers, up>>

Seqs == 1 .. MaxSeq

\* What a frame asks for, and what waits for its reply.
Plain(kind) == [kind |-> kind]
Watch(set, per) == [kind |-> "WATCH", set |-> set, period |-> per]
Tuning(r) == [kind |-> "REQUEST", request |-> r]
Nothing == Plain("nothing")

InFlight == {r \in Requests : \E s \in Seqs : pending[s] = Tuning(r)}
Fresh(r) == answers[r] = <<>> /\ r \notin InFlight
Answer(r, result) == answers' = [answers EXCEPT ![r] = Append(@, result)]

\* Every tuning request whose frame is in S is answered with the result.
AnswerAll(S, result) ==
  answers' = [r \in Requests |-> IF \E s \in S : pending[s] = Tuning(r)
                                 THEN Append(answers[r], result) ELSE answers[r]]

Smaller(i, j) == IF i < j THEN i ELSE j

------------------------------------------------------------------------------
(* Sending *)

\* The frames for whats, numbered from seq + 1 on.
Frames(whats) == [i \in 1 .. Len(whats) |-> [seq |-> seq + i, what |-> whats[i]]]

\* Worker::request for each of whats: pending has them once they are written.
Written(whats) ==
  /\ down' = down \o Frames(whats)
  /\ pending' = [s \in Seqs |-> IF s - seq \in 1 .. Len(whats) THEN whats[s - seq] ELSE pending[s]]

Request(whats) ==
  /\ seq + Len(whats) <= MaxSeq - 2
  /\ seq' = seq + Len(whats)
  /\ Written(whats)

\* The last of whats cannot be written: its number is used up, nothing waits
\* for it and the session ends.
WriteFails(whats) ==
  /\ "fail" \in Faults
  /\ seq + Len(whats) <= MaxSeq - 2
  /\ seq' = seq + Len(whats)
  /\ Written(Front(whats))
  /\ pc' = "ending"

\* The watches the catalog knows, as many as one WATCH holds.
Subs(w) ==
  LET known == SelectSeq(w, LAMBDA c : c \in Cells)
  IN  SubSeq(known, 1, Smaller(Len(known), MaxWatches))

\* subscribe: the WATCH for w at the period p; an empty set stops the samples.
Subscription(w, p) == IF Subs(w) = <<>> THEN Watch(<<>>, 0) ELSE Watch(Subs(w), p)

------------------------------------------------------------------------------
(* Commands *)

Subscribe(w, p) ==
  /\ pc = "drain"
  /\ commands < MaxCommands /\ commands' = commands + 1
  /\ wanted' = w /\ asked' = p
  /\ \/ Request(<<Subscription(w, p)>>) /\ UNCHANGED pc
     \/ WriteFails(<<Subscription(w, p)>>)
  /\ UNCHANGED <<setVars, rowVars, fwVars, answers, up>>

SetCellWatches == \E w \in WatchSets : Subscribe(w, asked)
SetRate == \E p \in Periods : Subscribe(wanted, p)

\* Request, Discard and Save.  A value the catalog does not know or that its
\* descriptor does not allow is refused at once; if the frame cannot be
\* written the reply channel is dropped.
Submit(r) ==
  /\ pc = "drain" /\ Fresh(r)
  /\ \/ Request(<<Tuning(r)>>) /\ UNCHANGED <<pc, answers>>
     \/ Answer(r, "invalid") /\ UNCHANGED <<pc, sendVars>>
     \/ WriteFails(<<Tuning(r)>>) /\ Answer(r, "dropped")
  /\ UNCHANGED <<askVars, setVars, rowVars, fwVars, up>>

\* From one part of the loop to the next.
Goto(from, to) ==
  /\ pc = from
  /\ pc' = to
  /\ UNCHANGED <<sendVars, askVars, setVars, rowVars, fwVars, answers, up>>

Stop == Goto("drain", "ending")
Drained == Goto("drain", "read")

------------------------------------------------------------------------------
(* Frames *)

\* flush_frame: the rows of the batch go to the sink.
Flush == sunk' = sunk + batch /\ batch' = 0

\* A SAMPLE is taken if it holds as many values as there are active watches.
Fits(f) == Len(f.what.set) = Len(active)

\* on_sample
OnSample ==
  LET f == Head(up)
      skipped == IF lastSample = -1 THEN 0 ELSE (f.seq - lastSample - 1) % Modulus
  IN  /\ pc = "read" /\ up # <<>> /\ f.what.kind = "SAMPLE"
      /\ up' = Tail(up)
      /\ IF Fits(f)
         THEN /\ missed' = missed + skipped
              /\ lastSample' = f.seq
              /\ batch' = batch + 1
              /\ row' = [sampled |-> f.what.set, taken |-> active]
              /\ recorded' = recorded + 1
              /\ gap' = [counted |-> gap.counted + gap.since, since |-> 0]
         ELSE /\ gap' = [gap EXCEPT !.since = IF lastSample = -1 THEN 0 ELSE @ + 1]
              /\ UNCHANGED <<rowVars, lastSample, batch>>
      /\ UNCHANGED <<pc, sendVars, askVars, active, period, sunk, fwVars, answers>>

\* Mutant: the rows of the old set are not flushed.
Confirmed_Unflushed(sub) ==
  /\ batch' = 0 /\ UNCHANGED sunk
  /\ active' = sub.set /\ period' = sub.period
  /\ lastSample' = -1 /\ gap' = [gap EXCEPT !.since = 0]

\* Mutant: samples go on being counted from the old set's last.
Confirmed_KeepsCounter(sub) ==
  /\ Flush
  /\ active' = sub.set /\ period' = sub.period
  /\ lastSample' = lastSample /\ gap' = [gap EXCEPT !.since = 0]

\* Mutant: the watches wanted by now are taken for the confirmed ones.
Confirmed_Wanted(sub) ==
  /\ Flush
  /\ active' = Subs(wanted) /\ period' = sub.period
  /\ lastSample' = -1 /\ gap' = [gap EXCEPT !.since = 0]

\* The firmware confirmed a WATCH: its samples follow.
Confirmed(sub) ==
  /\ Flush
  /\ active' = sub.set /\ period' = sub.period
  /\ lastSample' = -1 /\ gap' = [gap EXCEPT !.since = 0]

\* Mutant: the set that was refused is asked for again.
Slower_SameSet(sub) == Watch(sub.set, Smaller(2 * sub.period, MaxPeriod))

\* The budget refused a WATCH: the watches wanted by now, at twice its period.
Slower(sub) == Subscription(wanted, Smaller(2 * sub.period, MaxPeriod))

\* Mutant: whoever has waited longest takes the reply.
Taker_Oldest(f) ==
  IF \A s \in Seqs : pending[s] = Nothing THEN f.seq
  ELSE CHOOSE s \in Seqs : pending[s] # Nothing /\ \A t \in 1 .. s - 1 : pending[t] = Nothing

\* pending.remove(&f.seq)
Taker(f) == f.seq

Answered(waiting, status) ==
  IF waiting.kind = "REQUEST" THEN Answer(waiting.request, status) ELSE UNCHANGED answers

\* on_frame for a reply: its sequence number alone finds what waits for it.
OnReply ==
  LET f == Head(up)
      waiting == pending[Taker(f)]
      taken == [pending EXCEPT ![Taker(f)] = Nothing]
      refused == waiting.kind = "WATCH" /\ f.status = "budget" /\ waiting.period < MaxPeriod
  IN  /\ pc = "read" /\ up # <<>> /\ f.what.kind # "SAMPLE"
      /\ up' = Tail(up)
      /\ Answered(waiting, f.status)
      /\ IF waiting.kind = "WATCH" /\ f.status = "ok"
         THEN Confirmed(waiting) ELSE UNCHANGED setVars
      /\ \/ /\ ~refused
            /\ pending' = taken /\ UNCHANGED <<seq, down>>
         \/ /\ refused /\ seq < MaxSeq - 2
            /\ seq' = seq + 1
            /\ down' = down \o Frames(<<Slower(waiting)>>)
            /\ pending' = [taken EXCEPT ![seq + 1] = Slower(waiting)]
         \/ /\ refused /\ seq < MaxSeq - 2 /\ "fail" \in Faults
            /\ seq' = seq + 1
            /\ pending' = taken /\ UNCHANGED down
      /\ UNCHANGED <<pc, askVars, rowVars, fwVars>>

\* What had arrived is handled, or reading the stream fails.
ReadEnds == Goto("read", "tick")
ReadFails == "fail" \in Faults /\ Goto("read", "ending")

------------------------------------------------------------------------------
(* Tickers *)

\* The request of a ticker that is due.
Due(kind, due) == IF kind \in due THEN <<Plain(kind)>> ELSE <<>>

\* The requests that are due, in the order the loop sends them.
Tick(due) ==
  LET whats == Due("LEASE", due) \o Due("READ", due) \o Due("STATS", due)
  IN  /\ pc = "tick"
      /\ \/ Request(whats) /\ pc' = "expire"
         \/ \E n \in 1 .. Len(whats) : WriteFails(SubSeq(whats, 1, n))
      /\ UNCHANGED <<askVars, setVars, rowVars, fwVars, answers, up>>

Forget(late) == pending' = [s \in Seqs |-> IF s \in late THEN Nothing ELSE pending[s]]

\* Mutant: nothing is ever too late.
Late_Never(s) == FALSE

\* A reply is past its limit: it may have been lost or, if late, be on its way.
Late(s) ==
  /\ pending[s] # Nothing
  /\ \/ "late" \in Faults
     \/ /\ \A i \in 1 .. Len(down) : down[i].seq # s
        /\ \A i \in 1 .. Len(up) : up[i].what.kind = "SAMPLE" \/ up[i].seq # s

\* The frame ticker flushes the batch or not; expire answers and forgets what
\* waited past its limit.
Expire(late) ==
  /\ pc = "expire"
  /\ \A s \in late : Late(s)
  /\ pc' = "drain"
  /\ Flush \/ UNCHANGED <<sunk, batch>>
  /\ AnswerAll(late, "late")
  /\ Forget(late)
  /\ UNCHANGED <<seq, down, askVars, active, period, lastSample, gap, rowVars, fwVars, up>>

\* Mutant: the lease is kept.
Farewell_KeepsLease == <<Watch(<<>>, 0)>>

\* The frames of a session that ends.
Farewell == <<Watch(<<>>, 0), Plain("RELEASE")>>

\* After the loop: each frame of the farewell is sent if it can be, the batch
\* is flushed and all that still wait are answered.
End ==
  /\ pc = "ending"
  /\ seq' = seq + Len(Farewell)
  /\ \/ pc' = "closed" /\ down' = down \o Frames(Farewell)
     \/ /\ "fail" \in Faults /\ pc' = "cut"
        /\ down' \in {down} \union {Append(down, Frames(Farewell)[i]) : i \in 1 .. Len(Farewell)}
  /\ Flush
  /\ AnswerAll(Seqs, "closed")
  /\ pending' = [s \in Seqs |-> Nothing]
  /\ UNCHANGED <<askVars, active, period, lastSample, gap, rowVars, fwVars, up>>

------------------------------------------------------------------------------
(* The firmware, the link and the other tools (external) *)

Reply(f, status) == up' = Append(up, [seq |-> f.seq, what |-> f.what, status |-> status])

Served(kinds) == down # <<>> /\ Head(down).what.kind \in kinds /\ down' = Tail(down)

\* LEASE renews the lease or takes a free one; READ and STATS change nothing.
ServePoll ==
  LET lease == Head(down).what.kind = "LEASE"
  IN  /\ Served({"LEASE", "READ", "STATS"})
      /\ holder' = IF lease /\ holder = "none" THEN "us" ELSE holder
      /\ Reply(Head(down), IF lease /\ holder = "other" THEN "busy" ELSE "ok")
      /\ UNCHANGED <<pc, seq, pending, askVars, setVars, rowVars, watch, sampled, applied, answers>>

ServeRelease ==
  /\ Served({"RELEASE"})
  /\ holder' = IF holder = "us" THEN "none" ELSE holder
  /\ Reply(Head(down), "ok")
  /\ UNCHANGED <<pc, seq, pending, askVars, setVars, rowVars, watch, sampled, applied, answers>>

\* The byte budget: how many values fit at a period.
Affords(set, per) == set = <<>> \/ Len(set) < per

\* WATCH: a set beyond the budget is refused and the old one goes on.
ServeWatch ==
  LET w == Head(down).what
  IN  /\ Served({"WATCH"})
      /\ IF Affords(w.set, w.period)
         THEN watch' = [set |-> w.set, period |-> w.period] /\ Reply(Head(down), "ok")
         ELSE Reply(Head(down), "budget") /\ UNCHANGED watch
      /\ UNCHANGED <<pc, seq, pending, askVars, setVars, rowVars, holder, sampled, applied, answers>>

\* WRITE, DISCARD, SAVE: refused without the lease, else carried out or
\* refused for a reason of its own.
ServeRequest ==
  LET r == Head(down).what.request
  IN  /\ Served({"REQUEST"})
      /\ \/ /\ holder = "us"
            /\ applied' = [applied EXCEPT ![r] = @ + 1]
            /\ Reply(Head(down), "ok")
         \/ /\ Reply(Head(down), IF holder = "us" THEN "refused" ELSE "lost")
            /\ UNCHANGED applied
      /\ UNCHANGED <<pc, seq, pending, askVars, setVars, rowVars, holder, watch, sampled, answers>>

Sample ==
  /\ watch.set # <<>> /\ sampled < MaxSamples
  /\ sampled' = sampled + 1
  /\ up' = Append(up, [seq |-> sampled % Modulus, what |-> [kind |-> "SAMPLE", set |-> watch.set],
                       status |-> "ok"])
  /\ UNCHANGED <<pc, sendVars, askVars, setVars, rowVars, holder, watch, applied, answers>>

\* A corrupted frame is dropped by the decoder of the end it was sent to.
LoseDown ==
  /\ "loss" \in Faults /\ down # <<>>
  /\ down' = Tail(down)
  /\ UNCHANGED <<pc, seq, pending, askVars, setVars, rowVars, fwVars, answers, up>>

LoseUp ==
  /\ up # <<>>
  /\ \/ "loss" \in Faults
     \/ "sampleloss" \in Faults /\ Head(up).what.kind = "SAMPLE"
  /\ up' = Tail(up)
  /\ gap' = [gap EXCEPT !.since =
       IF Head(up).what.kind = "SAMPLE" /\ lastSample # -1 THEN @ + 1 ELSE @]
  /\ UNCHANGED <<pc, sendVars, askVars, active, period, lastSample, batch, sunk, rowVars,
                 fwVars, answers>>

LeaseLapses ==
  /\ "lapse" \in Faults /\ holder # "none"
  /\ holder' = "none"
  /\ UNCHANGED <<pc, sendVars, askVars, setVars, rowVars, watch, sampled, applied, answers, up>>

Takeover ==
  /\ "takeover" \in Faults /\ holder = "none"
  /\ holder' = "other"
  /\ UNCHANGED <<pc, sendVars, askVars, setVars, rowVars, watch, sampled, applied, answers, up>>

------------------------------------------------------------------------------
Unsampled == [set |-> <<>>, period |-> 0]

Init ==
  /\ pc = "drain" /\ seq = 0
  /\ pending = [s \in Seqs |-> Nothing]
  /\ wanted = <<>> /\ asked \in Periods /\ commands = 0
  /\ active = <<>> /\ period = 0 /\ lastSample = -1 /\ batch = 0
  /\ sunk = 0 /\ gap = [counted |-> 0, since |-> 0]
  /\ missed = 0 /\ row = [sampled |-> <<>>, taken |-> <<>>] /\ recorded = 0
  /\ answers = [r \in Requests |-> <<>>]
  /\ down = <<>> /\ up = <<>>
  /\ holder = "us" /\ watch = Unsampled /\ sampled = 0
  /\ applied = [r \in Requests |-> 0]

Waiting == {s \in Seqs : pending[s] # Nothing}

Submits == \E r \in Requests : Submit(r)
Ticks == \E due \in SUBSET Polls : Tick(due)
Expires == \E late \in SUBSET Waiting : Expire(late)
Serve == ServeRelease \/ ServePoll \/ ServeWatch \/ ServeRequest

Next ==
  \/ SetCellWatches \/ SetRate \/ Submits \/ Stop \/ Drained
  \/ OnSample \/ OnReply \/ ReadEnds \/ ReadFails
  \/ Ticks \/ Expires \/ End
  \/ ServeRelease \/ ServePoll \/ ServeWatch \/ ServeRequest
  \/ Sample \/ LoseDown \/ LoseUp \/ LeaseLapses \/ Takeover

Spec == Init /\ [][Next]_vars

\* The loop goes round until it is stopped, reads what has arrived (each read
\* takes up to 4096 bytes), and at some round every limit is past.  The
\* firmware serves what it receives.
Fairness ==
  /\ WF_vars(Drained) /\ WF_vars(ReadEnds) /\ WF_vars(Tick({})) /\ WF_vars(Expires) /\ WF_vars(End)
  /\ SF_vars(OnSample) /\ SF_vars(OnReply)
  /\ WF_vars(Serve)
  /\ \A s \in 1 .. MaxSeq - 2 : SF_vars(\E late \in SUBSET Waiting : s \in late /\ Expire(late))

FairSpec == Spec /\ Fairness

------------------------------------------------------------------------------
(* Properties *)

WatchSetsSent == {Subs(w) : w \in WatchSets \union {<<>>}} \union {<<>>}
Whats ==
  {Watch(set, p) : set \in WatchSetsSent, p \in 0 .. MaxPeriod}
    \union {Tuning(r) : r \in Requests}
    \union {Plain(k) : k \in {"LEASE", "READ", "STATS", "RELEASE"}}

TypeOK ==
  /\ pc \in {"drain", "read", "tick", "expire", "ending", "closed", "cut"}
  /\ seq \in 0 .. MaxSeq
  /\ pending \in [Seqs -> Whats \union {Nothing}]
  /\ wanted \in WatchSets \union {<<>>} /\ asked \in Periods
  /\ active \in WatchSetsSent /\ period \in 0 .. MaxPeriod
  /\ lastSample \in -1 .. Modulus - 1
  /\ {missed, batch, recorded, sunk, sampled, commands} \subseteq Nat
  /\ \A i \in 1 .. Len(down) : down[i].seq \in Seqs /\ down[i].what \in Whats
  /\ holder \in {"none", "us", "other"}
  /\ watch \in [set : WatchSetsSent, period : 0 .. MaxPeriod]

\* What the asker knows of a request.
\* No state of the contract allows for a second answer.
Known(r) ==
  IF answers[r] # <<>>
  THEN CASE Len(answers[r]) > 1 -> "answered twice"
         [] Head(answers[r]) = "ok" -> "ok"
         [] Head(answers[r]) \in {"late", "closed"} -> "unknown"
         [] OTHER -> "refused"
  ELSE IF r \in InFlight THEN "waiting" ELSE "idle"

Contract == INSTANCE TuneRequests WITH state <- [r \in Requests |-> Known(r)], done <- applied

\* Requests over the framed link keep the contract of tuning requests.
KeepsContract == Contract!Spec

\* Every request sent is answered, whatever is lost.
RequestsAnswered == \A r \in Requests : r \in InFlight ~> answers[r] # <<>>

\* Rows are recorded under the watches they were sampled for (on_sample:
\* frames of a subscription that is not confirmed yet are left out).
RowsLabelled == row.sampled = row.taken

\* missed_samples counts the samples that got lost between recorded ones of
\* one subscription, except for whole turns of the 16-bit counter.
MissedCounted == missed <= gap.counted /\ (gap.counted - missed) % Modulus = 0

\* Each recorded row reaches the sink, also when the set changes or the
\* session ends while it waits in a batch.
RowsReachSink == recorded = sunk + batch /\ (pc \in {"closed", "cut"} => batch = 0)

\* Unless a WATCH or its reply is lost the last watch command wins: the session and the firmware
\* come to agree on the wanted set, at a period the budget affords.
Settles ==
  <>[](pc \in {"ending", "closed", "cut"} \/ (active = Subs(wanted) /\ watch.set = active /\ watch.period = period))

\* Once the farewell of a stopped session has arrived, the firmware samples
\* nothing for it and the lease is free.
StopsCleanly == pc = "closed" /\ down = <<>> => watch = Unsampled /\ holder # "us"
==============================================================================
