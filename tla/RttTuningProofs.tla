--------------------------- MODULE RttTuningProofs ---------------------------
(***************************************************************************)
(* Requests over RTT keep the contract of tuning requests for any requests,*)
(* channel size, number of frames and sessions, and whatever the firmware, *)
(* the other tools and the memory access do meanwhile, as long as a new    *)
(* session does not find frames of the last one in the channels.           *)
(***************************************************************************)
EXTENDS RttTuning, TLAPS

\* No frame outlives the session it was sent in.
CleanChannels == "leftover" \notin Faults

------------------------------------------------------------------------------
(* The inductive invariant *)

DownSlots == 1 .. Len(down)
UpSlots == 1 .. Len(up)

\* Numbers are given out once, and a frame is known by its number.
Numbered ==
  /\ \A i \in DownSlots : down[i].seq <= seq
  /\ \A i \in UpSlots : up[i].seq <= seq
  /\ \A s \in Seqs : pending[s] # "nobody" => s <= seq
  /\ \A i, j \in DownSlots : down[i].seq = down[j].seq => i = j
  /\ \A i, j \in UpSlots : up[i].seq = up[j].seq => i = j
  /\ \A i \in DownSlots, j \in UpSlots : down[i].seq # up[j].seq

\* Whoever waits under a frame's number waits for that frame.
Matched ==
  /\ \A i \in DownSlots : pending[down[i].seq] \in {"nobody", down[i].what}
  /\ \A i \in UpSlots : pending[up[i].seq] \in {"nobody", up[i].what}

\* A request has one frame or one reply under way, at most.
Once ==
  /\ \A i, j \in DownSlots : down[i].what \in Requests /\ down[i].what = down[j].what => i = j
  /\ \A i, j \in UpSlots : up[i].what \in Requests /\ up[i].what = up[j].what => i = j
  /\ \A i \in DownSlots, j \in UpSlots : down[i].what \in Requests => down[i].what # up[j].what

GivenUp(r) == answers[r] \in {<<"late">>, <<"closed">>}

\* While one is under way, the request waits for it or was given up.
Traced(f) == f.what \in Requests => pending[f.seq] = f.what \/ GivenUp(f.what)

Tracked ==
  /\ \A i \in DownSlots : Traced(down[i])
  /\ \A i \in UpSlots : Traced(up[i])

Waits(r) == \E s \in Seqs : pending[s] = r

\* A request waits under one number,
WaitsOnce ==
  \A s, t \in Seqs : pending[s] \in Requests /\ pending[s] = pending[t] => s = t

\* and before its answer.
Unanswered ==
  /\ \A r \in Requests : Waits(r) => answers[r] = <<>> /\ r # cur
  /\ cur \in Requests => answers[cur] = <<>>
  /\ pc = "send" => leased
  /\ pc = "closed" => ~leased /\ \A s \in Seqs : pending[s] = "nobody"

\* A reply under way says what became of the request,
RepliesTrue ==
  /\ \A r \in Requests : applied[r] \in {0, 1}
  /\ \A i \in DownSlots : down[i].what \in Requests => applied[down[i].what] = 0
  /\ \A i \in UpSlots : up[i].what \in Requests =>
       up[i].status # "busy" /\ (up[i].status = "ok" <=> applied[up[i].what] = 1)

\* and so does its answer.
AnswersTrue ==
  /\ \A r \in Requests : answers[r] = <<>> /\ ~Waits(r) => applied[r] = 0
  /\ \A r \in Requests : answers[r] # <<>> =>
       /\ Len(answers[r]) = 1
       /\ answers[r][1] = "ok" => applied[r] = 1
       /\ answers[r][1] \in {"lost", "busy", "refused", "full"} => applied[r] = 0

IInv == TypeOK /\ Numbered /\ Matched /\ Once /\ Tracked /\ WaitsOnce /\ Unanswered
        /\ RepliesTrue /\ AnswersTrue

\* What the host takes for the reason of a refusal once it has read the first
\* n replies that wait in the up channel.
Believed(n) ==
  \/ \E i \in 1 .. n :
       /\ up[i].what = "LEASE" /\ up[i].status # "ok"
       /\ \A k \in i + 1 .. n : up[k].what # "LEASE"
  \/ refused /\ \A k \in 1 .. n : up[k].what # "LEASE"

\* No LEASE of this session was served yet: one goes before every request.
Unruled ==
  /\ up = <<>>
  /\ leased => \E i \in DownSlots : down[i].what = "LEASE"
  /\ \A i \in DownSlots : down[i].what \in Requests => \E k \in 1 .. i - 1 : down[k].what = "LEASE"

\* With no reply lost or late, somebody waits for every frame under way, and
\* the host will know for each reply what the firmware knew.
InStep ==
  prompt /\ pc # "closed" =>
    /\ \A i \in DownSlots : pending[down[i].seq] = down[i].what
    /\ \A i \in UpSlots : pending[up[i].seq] = up[i].what
    /\ \A i \in UpSlots : up[i].what \in Requests => (Believed(i) <=> behind[up[i].what] = "busy")
    /\ (Believed(Len(up)) <=> ruling = "busy") \/ Unruled

EInv == IInv /\ InStep /\ RefusalExplained
------------------------------------------------------------------------------
(* Sequences *)

LEMMA Appended ==
  ASSUME NEW S, NEW q \in Seq(S), NEW e \in S
  PROVE  /\ Append(q, e) \in Seq(S)
         /\ Len(Append(q, e)) = Len(q) + 1 /\ Len(q) \in Nat
         /\ \A i \in 1 .. Len(q) + 1 : Append(q, e)[i] = IF i <= Len(q) THEN q[i] ELSE e
  OBVIOUS

LEMMA Removed ==
  ASSUME NEW S, NEW q \in Seq(S), q # <<>>
  PROVE  /\ Tail(q) \in Seq(S)
         /\ Len(q) \in Nat \ {0} /\ Len(Tail(q)) = Len(q) - 1
         /\ \A i \in 1 .. Len(q) - 1 : Tail(q)[i] = q[i + 1]
         /\ Head(q) = q[1] /\ Head(q) \in S
  OBVIOUS

------------------------------------------------------------------------------
(* What a step does to the channels *)

LEMMA ChannelTypes ==
  ASSUME TypeOK
  PROVE  /\ Len(down) \in Nat /\ Len(up) \in Nat
         /\ \A i \in DownSlots : down[i].seq \in Seqs /\ down[i].what \in Whats
         /\ \A i \in UpSlots : up[i].seq \in Seqs /\ up[i].what \in Whats /\ up[i].status \in Statuses
  <1>1. Len(down) \in Nat /\ \A i \in DownSlots : down[i] \in Frames
    BY DEF TypeOK, DownSlots
  <1>2. Len(up) \in Nat /\ \A i \in UpSlots : up[i] \in ReplyFrames
    BY DEF TypeOK, UpSlots
  <1> QED
    BY <1>1, <1>2 DEF Frames, ReplyFrames

\* A frame is appended under the next number.
LEMMA SentFrame ==
  ASSUME TypeOK, NEW what \in Whats, FrameSent(what)
  PROVE  /\ seq' = seq + 1 /\ seq + 1 \in Seqs /\ down' \in Seq(Frames)
         /\ Len(down') = Len(down) + 1 /\ DownSlots' = DownSlots \union {Len(down) + 1}
         /\ \A i \in DownSlots : down'[i] = down[i]
         /\ down'[Len(down) + 1].seq = seq + 1 /\ down'[Len(down) + 1].what = what
  <1> DEFINE f == [seq |-> seq + 1, by |-> session, what |-> what]
  <1>1. seq \in Nat /\ seq + 1 \in Seqs /\ seq' = seq + 1 /\ session \in Nat
    BY TuningAssumption DEF TypeOK, FrameSent, Seqs
  <1>2. f \in Frames /\ f.seq = seq + 1 /\ f.what = what
    BY <1>1 DEF Frames
  <1>3. down \in Seq(Frames) /\ down' = Append(down, f)
    BY DEF TypeOK, FrameSent
  <1> HIDE DEF f
  <1> QED
    BY <1>1, <1>2, <1>3, Appended DEF DownSlots

\* The head of the control channel is taken.
LEMMA TakenFrame ==
  ASSUME TypeOK, down # <<>>, down' = Tail(down)
  PROVE  /\ down' \in Seq(Frames) /\ 1 \in DownSlots /\ Head(down) = down[1]
         /\ Len(down') = Len(down) - 1 /\ DownSlots' = 1 .. Len(down) - 1
         /\ \A i \in DownSlots' : i + 1 \in DownSlots /\ down'[i] = down[i + 1]
  <1>1. down \in Seq(Frames)
    BY DEF TypeOK
  <1> QED
    BY <1>1, Removed DEF DownSlots

LEMMA TakenReply ==
  ASSUME TypeOK, up # <<>>, up' = Tail(up)
  PROVE  /\ up' \in Seq(ReplyFrames) /\ 1 \in UpSlots /\ Head(up) = up[1]
         /\ Len(up') = Len(up) - 1 /\ UpSlots' = 1 .. Len(up) - 1
         /\ \A i \in UpSlots' : i + 1 \in UpSlots /\ up'[i] = up[i + 1]
  <1>1. up \in Seq(ReplyFrames)
    BY DEF TypeOK
  <1> QED
    BY <1>1, Removed DEF UpSlots

\* A reply is appended.
LEMMA SentReply ==
  ASSUME TypeOK, NEW f \in Frames, NEW status \in Statuses,
         up' = Append(up, [seq |-> f.seq, what |-> f.what, status |-> status])
  PROVE  /\ up' \in Seq(ReplyFrames) /\ Len(up') = Len(up) + 1
         /\ UpSlots' = UpSlots \union {Len(up) + 1}
         /\ \A i \in UpSlots : up'[i] = up[i]
         /\ up'[Len(up) + 1].seq = f.seq /\ up'[Len(up) + 1].what = f.what
         /\ up'[Len(up) + 1].status = status
  <1> DEFINE g == [seq |-> f.seq, what |-> f.what, status |-> status]
  <1>1. g \in ReplyFrames /\ g.seq = f.seq /\ g.what = f.what /\ g.status = status
    BY DEF Frames, ReplyFrames
  <1>2. up \in Seq(ReplyFrames) /\ up' = Append(up, g)
    BY DEF TypeOK
  <1> HIDE DEF g
  <1> QED
    BY <1>1, <1>2, Appended DEF UpSlots

\* A request about to be sent has no frame and no reply under way.
LEMMA Unsent ==
  ASSUME TypeOK, Tracked, NEW r \in Requests, answers[r] = <<>>, ~Waits(r)
  PROVE  /\ \A i \in DownSlots : down[i].what # r
         /\ \A i \in UpSlots : up[i].what # r
  <1>1. <<>> # <<"late">> /\ <<>> # <<"closed">>
    OBVIOUS
  <1>2. ~GivenUp(r)
    BY <1>1 DEF GivenUp
  <1> QED
    BY <1>2, ChannelTypes DEF Tracked, Traced, Waits

\* Sending a frame that is then waited for.
LEMMA SendKeeps ==
  ASSUME TypeOK, Numbered, Matched, Once, Tracked, WaitsOnce,
         NEW what \in Requests \union {"LEASE"}, FrameSent(what),
         what \in Requests => answers[what] = <<>> /\ ~Waits(what),
         pending' = [pending EXCEPT ![seq'] = what], UNCHANGED <<up, answers>>
  PROVE  /\ Numbered' /\ Matched' /\ Once' /\ Tracked' /\ WaitsOnce'
         /\ seq' \in 0 .. MaxSeq /\ down' \in Seq(Frames)
         /\ pending' \in [Seqs -> Requests \union {"LEASE", "nobody"}]
         /\ \A i \in DownSlots' : down'[i].what = what \/ (i \in DownSlots /\ down'[i] = down[i])
         /\ \A r \in Requests : Waits(r)' <=> Waits(r) \/ r = what
  <1>0. what \in Whats /\ UpSlots' = UpSlots /\ "LEASE" \notin Requests /\ "nobody" \notin Requests
    BY TuningAssumption DEF Whats, UpSlots
  <1>1. /\ seq' = seq + 1 /\ seq + 1 \in Seqs /\ seq \in Nat /\ down' \in Seq(Frames)
        /\ DownSlots' = DownSlots \union {Len(down) + 1}
        /\ \A i \in DownSlots : down'[i] = down[i] /\ i # Len(down) + 1
        /\ down'[Len(down) + 1].seq = seq + 1 /\ down'[Len(down) + 1].what = what
    BY <1>0, SentFrame, ChannelTypes, TuningAssumption DEF TypeOK, DownSlots
  <1>2. pending'[seq + 1] = what /\ \A s \in Seqs : s # seq + 1 => pending'[s] = pending[s]
    BY <1>1 DEF TypeOK
  <1>3. pending[seq + 1] = "nobody" /\ \A s \in Seqs : s \in Nat
    BY <1>1 DEF Seqs, Numbered
  <1>4. Numbered'
    <2>1. \A i \in DownSlots' : down'[i].seq <= seq'
      BY <1>1, ChannelTypes, <1>3 DEF Numbered
    <2>2. \A i \in UpSlots : up[i].seq <= seq'
      BY <1>1, ChannelTypes, <1>3 DEF Numbered
    <2>3. \A s \in Seqs : pending'[s] # "nobody" => s <= seq'
      BY <1>1, <1>2, <1>3 DEF Numbered
    <2>4. \A i, j \in DownSlots' : down'[i].seq = down'[j].seq => i = j
      <3>1. \A i \in DownSlots : down[i].seq # seq + 1
        BY <1>1, <1>3, ChannelTypes DEF Numbered
      <3> QED
        BY <1>1, <3>1 DEF Numbered
    <2>5. \A i \in DownSlots', j \in UpSlots : down'[i].seq # up[j].seq
      <3>1. \A j \in UpSlots : up[j].seq # seq + 1
        BY <1>1, <1>3, ChannelTypes DEF Numbered
      <3> QED
        BY <1>1, <3>1 DEF Numbered
    <2> QED
      BY <1>0, <2>1, <2>2, <2>3, <2>4, <2>5 DEF Numbered
  <1>5. Matched'
    BY <1>0, <1>1, <1>2, <1>3, ChannelTypes DEF Numbered, Matched
  <1>6. Once'
    BY <1>0, <1>1, Unsent DEF Once
  <1>7. Tracked'
    <2>1. \A i \in DownSlots : down[i].seq # seq + 1 /\ down[i].seq \in Seqs
      BY <1>1, <1>3, ChannelTypes DEF Numbered
    <2>2. \A i \in UpSlots : up[i].seq # seq + 1 /\ up[i].seq \in Seqs
      BY <1>1, <1>3, ChannelTypes DEF Numbered
    <2>3. \A i \in DownSlots' : Traced(down[i])'
      BY <1>1, <1>2, <2>1 DEF Tracked, Traced, GivenUp
    <2>4. \A i \in UpSlots : Traced(up[i])'
      BY <1>2, <2>2 DEF Tracked, Traced, GivenUp
    <2> QED
      BY <1>0, <2>3, <2>4 DEF Tracked
  <1>8. WaitsOnce'
    BY <1>0, <1>1, <1>2, <1>3 DEF WaitsOnce, Waits
  <1>9. \A r \in Requests : Waits(r)' <=> Waits(r) \/ r = what
    BY <1>0, <1>1, <1>2, <1>3 DEF Waits
  <1>10. pending' \in [Seqs -> Requests \union {"LEASE", "nobody"}] /\ seq' \in 0 .. MaxSeq
    BY <1>1 DEF TypeOK, Seqs
  <1>11. \A i \in DownSlots' : down'[i].what = what \/ (i \in DownSlots /\ down'[i] = down[i])
    <2> SUFFICES ASSUME NEW i \in DownSlots' PROVE down'[i].what = what \/ (i \in DownSlots /\ down'[i] = down[i])
      OBVIOUS
    <2>1. i \in DownSlots \/ i = Len(down) + 1
      BY <1>1
    <2> QED
      BY <1>1, <2>1
  <1> QED
    BY <1>1, <1>4, <1>5, <1>6, <1>7, <1>8, <1>9, <1>10, <1>11

\* A number is used up, and nothing is sent.
LEMMA FailKeeps ==
  ASSUME TypeOK, Numbered, NEW what, FrameFails(what), UNCHANGED <<up, pending>>
  PROVE  Numbered' /\ seq' \in 0 .. MaxSeq /\ UNCHANGED down
  <1>1. /\ seq \in Nat /\ seq' = seq + 1 /\ seq' \in 0 .. MaxSeq
        /\ DownSlots' = DownSlots /\ UpSlots' = UpSlots /\ UNCHANGED down
    BY TuningAssumption DEF FrameFails, TypeOK, DownSlots, UpSlots
  <1>2. \A s \in Seqs : s \in Nat
    BY DEF Seqs
  <1> QED
    BY <1>1, <1>2, ChannelTypes DEF Numbered

\* One request gets its first answer.
LEMMA FirstAnswer ==
  ASSUME TypeOK, NEW r \in Requests, answers[r] = <<>>, NEW result \in Results,
         answers' = [answers EXCEPT ![r] = Append(@, result)]
  PROVE  /\ answers' \in [Requests -> Seq(Results)]
         /\ \A q \in Requests : q # r => answers'[q] = answers[q]
         /\ answers'[r] = <<result>>
         /\ answers'[r] # <<>> /\ Len(answers'[r]) = 1 /\ answers'[r][1] = result
  <1>1. answers' = [answers EXCEPT ![r] = <<result>>]
    BY DEF TypeOK
  <1> QED
    BY <1>1 DEF TypeOK

\* Requests that waited are all given up for the same reason.
LEMMA AllAnswered ==
  ASSUME TypeOK, Unanswered, NEW S \in SUBSET Seqs, NEW result \in {"late", "closed"},
         AnswerAll(S, result)
  PROVE  /\ answers' \in [Requests -> Seq(Results)]
         /\ \A r \in Requests :
              IF \E s \in S : pending[s] = r
              THEN /\ answers[r] = <<>> /\ answers'[r] = <<result>> /\ GivenUp(r)'
                   /\ answers'[r] # <<>> /\ Len(answers'[r]) = 1 /\ answers'[r][1] = result
              ELSE answers'[r] = answers[r]
  <1>1. answers' = [r \in Requests |-> IF \E s \in S : pending[s] = r
                                       THEN <<result>> ELSE answers[r]]
    <2>1. \A r \in Requests : (\E s \in S : pending[s] = r) => answers[r] = <<>>
      BY DEF Unanswered, Waits
    <2>2. Append(<<>>, result) = <<result>>
      OBVIOUS
    <2> QED
      BY <2>1, <2>2 DEF AnswerAll
  <1>2. <<result>> \in Seq(Results)
    BY DEF Results
  <1>3. answers' \in [Requests -> Seq(Results)]
    BY <1>1, <1>2 DEF TypeOK
  <1> QED
    BY <1>1, <1>3 DEF GivenUp, Unanswered, Waits

\* Replies are read one after the other, whoever waited for the first of them.
LEMMA ReadKeeps ==
  ASSUME TypeOK, Numbered, Matched, Once, Tracked, WaitsOnce,
         up # <<>>, up' = Tail(up), UNCHANGED <<seq, down>>,
         pending' = pending \/ pending' = [pending EXCEPT ![up[1].seq] = "nobody"],
         \A r \in Requests : r # up[1].what => answers'[r] = answers[r]
  PROVE  /\ Numbered' /\ Matched' /\ Once' /\ Tracked' /\ WaitsOnce'
         /\ up' \in Seq(ReplyFrames) /\ pending' \in [Seqs -> Requests \union {"LEASE", "nobody"}]
         /\ \A i \in UpSlots' : \E j \in UpSlots : j # 1 /\ up'[i] = up[j]
         /\ DownSlots' = DownSlots
         /\ \A r \in Requests : Waits(r)' => Waits(r)
  <1>1. /\ up' \in Seq(ReplyFrames) /\ 1 \in UpSlots /\ UpSlots' = 1 .. Len(up) - 1
        /\ \A i \in UpSlots' : i \in Nat /\ i # 0 /\ i + 1 \in UpSlots /\ up'[i] = up[i + 1]
        /\ DownSlots' = DownSlots /\ "nobody" \notin Requests
    BY TakenReply, TuningAssumption DEF DownSlots
  <1>2. \A s \in Seqs : pending'[s] = pending[s] \/ (pending'[s] = "nobody" /\ s = up[1].seq)
    BY <1>1, ChannelTypes DEF TypeOK
  <1>3. Numbered'
    BY <1>1, <1>2 DEF Numbered
  <1>4. Matched'
    BY <1>1, <1>2, ChannelTypes DEF Matched
  <1>5. Once'
    BY <1>1 DEF Once
  <1>6. Tracked'
    <2>1. \A i \in UpSlots' : up[i + 1].seq # up[1].seq
      BY <1>1 DEF Numbered
    <2>2. \A i \in UpSlots' : up[i + 1].what \in Requests => up[i + 1].what # up[1].what
      BY <1>1 DEF Once
    <2>3. \A i \in UpSlots' : Traced(up[i])'
      BY <1>1, <1>2, <2>1, <2>2, ChannelTypes DEF Tracked, Traced, GivenUp
    <2>4. \A i \in DownSlots : down[i].seq # up[1].seq /\ (down[i].what \in Requests => down[i].what # up[1].what)
      BY <1>1 DEF Numbered, Once
    <2>5. \A i \in DownSlots : Traced(down[i])'
      BY <1>1, <1>2, <2>4, ChannelTypes DEF Tracked, Traced, GivenUp
    <2> QED
      BY <1>1, <2>3, <2>5 DEF Tracked
  <1>7. WaitsOnce' /\ \A r \in Requests : Waits(r)' => Waits(r)
    BY <1>1, <1>2 DEF WaitsOnce, Waits
  <1>8. \A i \in UpSlots' : \E j \in UpSlots : j # 1 /\ up'[i] = up[j]
    BY <1>1
  <1>9. pending' \in [Seqs -> Requests \union {"LEASE", "nobody"}]
    BY DEF TypeOK
  <1> QED
    BY <1>1, <1>3, <1>4, <1>5, <1>6, <1>7, <1>8, <1>9

------------------------------------------------------------------------------
(* One lemma per action *)

LEMMA SubmitLeaseIInv ==
  ASSUME IInv, NEW r \in Requests, SubmitLease(r)
  PROVE  IInv'
  <1> USE DEF IInv
  <1>0. /\ pc = "idle" /\ ~leased /\ answers[r] = <<>> /\ ~Waits(r) /\ cur = "nobody"
        /\ UNCHANGED <<session, refused, up, holder, applied, ruling, behind, prompt>>
        /\ "LEASE" \notin Requests /\ "nobody" \notin Requests /\ UpSlots' = UpSlots
    BY TuningAssumption DEF SubmitLease, Fresh, InFlight, Waits, fwVars, TypeOK, UpSlots
  <1>1. CASE /\ FrameSent("LEASE") /\ pending' = [pending EXCEPT ![seq'] = "LEASE"]
             /\ leased' = TRUE /\ pc' = "send" /\ cur' = r /\ UNCHANGED answers
    <2>1. /\ Numbered' /\ Matched' /\ Once' /\ Tracked' /\ WaitsOnce'
          /\ seq' \in 0 .. MaxSeq /\ down' \in Seq(Frames)
          /\ pending' \in [Seqs -> Requests \union {"LEASE", "nobody"}]
          /\ \A i \in DownSlots' : down'[i].what = "LEASE" \/ (i \in DownSlots /\ down'[i] = down[i])
          /\ \A q \in Requests : Waits(q)' <=> Waits(q)
      <3> HIDE DEF IInv
      <3>1. TypeOK /\ Numbered /\ Matched /\ Once /\ Tracked /\ WaitsOnce
        BY DEF IInv
      <3>2. "LEASE" \in Requests \union {"LEASE"} /\ UNCHANGED <<up, answers>>
        BY <1>0, <1>1
      <3> QED
        BY <1>0, <1>1, <3>1, <3>2, SendKeeps
    <2>2. TypeOK'
      BY <1>0, <1>1, <2>1 DEF TypeOK
    <2>3. Unanswered'
      BY <1>0, <1>1, <2>1 DEF Unanswered
    <2>4. RepliesTrue' /\ AnswersTrue'
      BY <1>0, <1>1, <2>1 DEF RepliesTrue, AnswersTrue
    <2> QED
      BY <2>1, <2>2, <2>3, <2>4
  <1>2. CASE FrameFails("LEASE") /\ Answer(r, "full") /\ UNCHANGED <<pending, leased, pc, cur>>
    <2>1. Numbered' /\ seq' \in 0 .. MaxSeq /\ UNCHANGED down
      BY <1>0, <1>2, FailKeeps
    <2>2. DownSlots' = DownSlots /\ \A q \in Requests : Waits(q)' <=> Waits(q)
      BY <1>2, <2>1 DEF DownSlots, Waits
    <2>3. /\ answers' \in [Requests -> Seq(Results)]
          /\ \A q \in Requests : q # r => answers'[q] = answers[q]
          /\ answers'[r] # <<>> /\ Len(answers'[r]) = 1 /\ answers'[r][1] = "full"
      BY <1>0, <1>2, FirstAnswer DEF Answer, Results
    <2>4. TypeOK'
      BY <1>0, <1>2, <2>1, <2>3 DEF TypeOK
    <2>5. Matched' /\ Once' /\ WaitsOnce'
      BY <1>0, <1>2, <2>1, <2>2 DEF Matched, Once, WaitsOnce
    <2>6. Tracked'
      BY <1>0, <1>2, <2>1, <2>2, <2>3, Unsent DEF Tracked, Traced, GivenUp
    <2>7. Unanswered'
      BY <1>0, <1>2, <2>2, <2>3 DEF Unanswered
    <2>8. RepliesTrue'
      BY <1>0, <2>1, <2>2 DEF RepliesTrue
    <2>9. AnswersTrue'
      BY <1>0, <2>2, <2>3 DEF AnswersTrue
    <2> QED
      BY <2>1, <2>4, <2>5, <2>6, <2>7, <2>8, <2>9
  <1> QED
    BY <1>0, <1>1, <1>2 DEF SubmitLease

LEMMA SubmitLeasedIInv ==
  ASSUME IInv, NEW r \in Requests, SubmitLeased(r)
  PROVE  IInv'
  <1> USE DEF IInv
  <1>1. /\ leased /\ answers[r] = <<>> /\ ~Waits(r) /\ cur' = r /\ pc' = "send"
        /\ UNCHANGED <<session, seq, leased, refused, pending, answers, down, up, fwVars>>
        /\ "LEASE" \notin Requests /\ "nobody" \notin Requests
    BY TuningAssumption DEF SubmitLeased, Fresh, InFlight, Waits
  <1>2. DownSlots' = DownSlots /\ UpSlots' = UpSlots
    BY <1>1 DEF DownSlots, UpSlots
  <1>3. TypeOK'
    BY <1>1 DEF TypeOK, fwVars
  <1>4. Numbered' /\ Matched' /\ Once' /\ Tracked' /\ WaitsOnce'
    BY <1>1, <1>2 DEF Numbered, Matched, Once, Tracked, Traced, GivenUp, WaitsOnce
  <1>5. Unanswered'
    BY <1>1 DEF Unanswered, Waits
  <1>6. RepliesTrue' /\ AnswersTrue'
    BY <1>1, <1>2 DEF RepliesTrue, AnswersTrue, Waits, fwVars
  <1> QED
    BY <1>3, <1>4, <1>5, <1>6

LEMMA SubmitSendIInv ==
  ASSUME IInv, SubmitSend
  PROVE  IInv'
  <1> USE DEF IInv
  <1>0. /\ cur \in Requests /\ answers[cur] = <<>> /\ ~Waits(cur) /\ cur' = "nobody" /\ pc' = "idle"
        /\ UNCHANGED <<session, leased, refused, up, holder, applied, ruling, behind, prompt>>
        /\ "LEASE" \notin Requests /\ "nobody" \notin Requests /\ UpSlots' = UpSlots
    BY TuningAssumption DEF SubmitSend, Unanswered, fwVars, TypeOK, UpSlots
  <1>1. CASE FrameSent(cur) /\ pending' = [pending EXCEPT ![seq'] = cur] /\ UNCHANGED answers
    <2>1. /\ Numbered' /\ Matched' /\ Once' /\ Tracked' /\ WaitsOnce'
          /\ seq' \in 0 .. MaxSeq /\ down' \in Seq(Frames)
          /\ pending' \in [Seqs -> Requests \union {"LEASE", "nobody"}]
          /\ \A i \in DownSlots' : down'[i].what = cur \/ (i \in DownSlots /\ down'[i] = down[i])
          /\ \A q \in Requests : Waits(q)' <=> Waits(q) \/ q = cur
      BY <1>0, <1>1, SendKeeps
    <2>2. TypeOK'
      BY <1>0, <1>1, <2>1 DEF TypeOK
    <2>3. Unanswered'
      BY <1>0, <1>1, <2>1 DEF Unanswered
    <2>4. RepliesTrue' /\ AnswersTrue'
      BY <1>0, <1>1, <2>1 DEF RepliesTrue, AnswersTrue
    <2> QED
      BY <2>1, <2>2, <2>3, <2>4
  <1>2. CASE FrameFails(cur) /\ Answer(cur, "full") /\ UNCHANGED pending
    <2>1. Numbered' /\ seq' \in 0 .. MaxSeq /\ UNCHANGED down
      BY <1>0, <1>2, FailKeeps
    <2>2. DownSlots' = DownSlots /\ \A q \in Requests : Waits(q)' <=> Waits(q)
      BY <1>2, <2>1 DEF DownSlots, Waits
    <2>3. /\ answers' \in [Requests -> Seq(Results)]
          /\ \A q \in Requests : q # cur => answers'[q] = answers[q]
          /\ answers'[cur] # <<>> /\ Len(answers'[cur]) = 1 /\ answers'[cur][1] = "full"
      BY <1>0, <1>2, FirstAnswer DEF Answer, Results
    <2>4. TypeOK'
      BY <1>0, <1>2, <2>1, <2>3 DEF TypeOK
    <2>5. Matched' /\ Once' /\ WaitsOnce'
      BY <1>0, <1>2, <2>1, <2>2 DEF Matched, Once, WaitsOnce
    <2>6. Tracked'
      BY <1>0, <1>2, <2>1, <2>2, <2>3, Unsent DEF Tracked, Traced, GivenUp
    <2>7. Unanswered'
      BY <1>0, <1>2, <2>2, <2>3 DEF Unanswered
    <2>8. RepliesTrue'
      BY <1>0, <2>1, <2>2 DEF RepliesTrue
    <2>9. AnswersTrue'
      BY <1>0, <2>2, <2>3 DEF AnswersTrue
    <2> QED
      BY <2>1, <2>4, <2>5, <2>6, <2>7, <2>8, <2>9
  <1> QED
    BY <1>0, <1>1, <1>2 DEF SubmitSend

LEMMA PollIInv ==
  ASSUME IInv, NEW due \in BOOLEAN, Poll(due)
  PROVE  IInv'
  <1> USE DEF IInv
  <1>0. /\ pc = "idle" /\ pc' \in {"idle", "reading"} /\ cur = "nobody"
        /\ UNCHANGED <<session, leased, refused, cur, answers, up, holder, applied, ruling, behind, prompt>>
        /\ "LEASE" \notin Requests /\ "nobody" \notin Requests /\ UpSlots' = UpSlots
    BY TuningAssumption DEF Poll, fwVars, TypeOK, UpSlots
  <1>1. CASE FrameSent("LEASE") /\ pending' = [pending EXCEPT ![seq'] = "LEASE"]
    <2>1. /\ Numbered' /\ Matched' /\ Once' /\ Tracked' /\ WaitsOnce'
          /\ seq' \in 0 .. MaxSeq /\ down' \in Seq(Frames)
          /\ pending' \in [Seqs -> Requests \union {"LEASE", "nobody"}]
          /\ \A i \in DownSlots' : down'[i].what = "LEASE" \/ (i \in DownSlots /\ down'[i] = down[i])
          /\ \A q \in Requests : Waits(q)' <=> Waits(q)
      BY <1>0, <1>1, SendKeeps
    <2>2. TypeOK'
      BY <1>0, <1>1, <2>1 DEF TypeOK
    <2>3. Unanswered'
      BY <1>0, <1>1, <2>1 DEF Unanswered
    <2>4. RepliesTrue' /\ AnswersTrue'
      BY <1>0, <1>1, <2>1 DEF RepliesTrue, AnswersTrue
    <2> QED
      BY <2>1, <2>2, <2>3, <2>4
  <1>2. CASE (FrameFails("LEASE") /\ UNCHANGED pending) \/ UNCHANGED <<seq, down, pending>>
    <2>1. Numbered' /\ seq' \in 0 .. MaxSeq /\ UNCHANGED <<down, pending>>
      BY <1>0, <1>2, FailKeeps DEF Numbered, TypeOK, DownSlots
    <2>2. DownSlots' = DownSlots /\ \A q \in Requests : Waits(q)' <=> Waits(q)
      BY <2>1 DEF DownSlots, Waits
    <2>3. TypeOK'
      BY <1>0, <2>1 DEF TypeOK
    <2>4. Matched' /\ Once' /\ Tracked' /\ WaitsOnce'
      BY <1>0, <2>1, <2>2 DEF Matched, Once, Tracked, Traced, GivenUp, WaitsOnce
    <2>5. Unanswered' /\ RepliesTrue' /\ AnswersTrue'
      BY <1>0, <2>1, <2>2 DEF Unanswered, RepliesTrue, AnswersTrue
    <2> QED
      BY <2>1, <2>3, <2>4, <2>5
  <1> QED
    BY <1>0, <1>1, <1>2 DEF Poll

LEMMA PollFrameIInv ==
  ASSUME IInv, PollFrame
  PROVE  IInv'
  <1> USE DEF IInv
  <1> DEFINE f == up[1]
  <1>0. /\ pc = "reading" /\ applied' = applied /\ up # <<>> /\ up' = Tail(up) /\ cur = "nobody"
        /\ UNCHANGED <<session, seq, pc, cur, down, fwVars>>
        /\ Head(up) = f /\ 1 \in UpSlots /\ f.seq \in Seqs /\ f.status \in Statuses
        /\ "LEASE" \notin Requests /\ "nobody" \notin Requests
    <2>1. /\ pc = "reading" /\ up # <<>> /\ up' = Tail(up)
          /\ UNCHANGED <<session, seq, pc, cur, down, fwVars>>
      BY DEF PollFrame
    <2> QED
      BY <2>1, TuningAssumption, TakenReply, ChannelTypes DEF TypeOK, fwVars
  <1>1. CASE pending[f.seq] = "nobody"
    <2>1. UNCHANGED <<pending, refused, leased, answers>>
      BY <1>0, <1>1 DEF PollFrame, Taker
    <2>2. /\ Numbered' /\ Matched' /\ Once' /\ Tracked' /\ WaitsOnce' /\ up' \in Seq(ReplyFrames)
          /\ \A i \in UpSlots' : \E j \in UpSlots : j # 1 /\ up'[i] = up[j]
          /\ DownSlots' = DownSlots
      BY <1>0, <2>1, ReadKeeps
    <2>3. TypeOK'
      BY <1>0, <2>1, <2>2 DEF TypeOK, fwVars
    <2>4. Unanswered'
      BY <1>0, <2>1 DEF Unanswered, Waits
    <2>5. RepliesTrue'
      <3>1. \A i \in DownSlots : down'[i] = down[i]
        BY <1>0
      <3>2. \A i \in UpSlots' : up'[i].what \in Requests =>
              up'[i].status # "busy" /\ (up'[i].status = "ok" <=> applied[up'[i].what] = 1)
        BY <2>2 DEF RepliesTrue
      <3> QED
        BY <1>0, <2>2, <3>1, <3>2 DEF RepliesTrue
    <2>6. AnswersTrue'
      BY <1>0, <2>1, <2>2 DEF AnswersTrue, Waits
    <2> QED
      BY <2>2, <2>3, <2>4, <2>5, <2>6
  <1>2. CASE pending[f.seq] # "nobody"
    <2>1. /\ pending' = [pending EXCEPT ![f.seq] = "nobody"]
          /\ refused' \in BOOLEAN /\ leased' \in BOOLEAN /\ pending[f.seq] = f.what
      BY <1>0, <1>2 DEF PollFrame, Taker, Refusal, Matched, TypeOK
    <2>2. CASE f.what \notin Requests
      <3>1. UNCHANGED answers
        BY <1>0, <1>2, <2>1, <2>2 DEF PollFrame, Taker
      <3>2. /\ Numbered' /\ Matched' /\ Once' /\ Tracked' /\ WaitsOnce' /\ up' \in Seq(ReplyFrames)
            /\ \A i \in UpSlots' : \E j \in UpSlots : j # 1 /\ up'[i] = up[j]
            /\ DownSlots' = DownSlots /\ pending' \in [Seqs -> Requests \union {"LEASE", "nobody"}]
            /\ \A r \in Requests : Waits(r)' => Waits(r)
        BY <1>0, <2>1, <3>1, ReadKeeps
      <3>3. \A r \in Requests : Waits(r) => Waits(r)'
        BY <1>0, <2>1, <2>2 DEF Waits, TypeOK
      <3>4. TypeOK'
        BY <1>0, <2>1, <3>1, <3>2 DEF TypeOK, fwVars
      <3>5. Unanswered'
        BY <1>0, <3>1, <3>2 DEF Unanswered
      <3>6. RepliesTrue'
        <4>1. \A i \in DownSlots : down'[i] = down[i]
          BY <1>0
        <4>2. \A i \in UpSlots' : up'[i].what \in Requests =>
                up'[i].status # "busy" /\ (up'[i].status = "ok" <=> applied[up'[i].what] = 1)
          BY <3>2 DEF RepliesTrue
        <4> QED
          BY <1>0, <3>2, <4>1, <4>2 DEF RepliesTrue
      <3>7. AnswersTrue'
        BY <1>0, <3>1, <3>2, <3>3 DEF AnswersTrue
      <3> QED
        BY <3>2, <3>4, <3>5, <3>6, <3>7
    <2>3. CASE f.what \in Requests
      <3> PICK r \in Requests : r = f.what
        BY <2>3
      <3> DEFINE result == IF f.status = "lost" /\ refused' THEN "busy" ELSE f.status
      <3>1. /\ answers' = [answers EXCEPT ![r] = Append(@, result)]
            /\ answers[r] = <<>> /\ result \in Results /\ pending[f.seq] = r
        BY <1>0, <1>2, <2>1, <2>3 DEF PollFrame, Taker, Unanswered, Waits, Results, Statuses
      <3>2. /\ answers' \in [Requests -> Seq(Results)]
            /\ \A q \in Requests : q # r => answers'[q] = answers[q]
            /\ answers'[r] # <<>> /\ Len(answers'[r]) = 1 /\ answers'[r][1] = result
        BY <2>3, <3>1, FirstAnswer
      <3>3. /\ Numbered' /\ Matched' /\ Once' /\ Tracked' /\ WaitsOnce' /\ up' \in Seq(ReplyFrames)
            /\ \A i \in UpSlots' : \E j \in UpSlots : j # 1 /\ up'[i] = up[j]
            /\ DownSlots' = DownSlots /\ pending' \in [Seqs -> Requests \union {"LEASE", "nobody"}]
            /\ \A q \in Requests : Waits(q)' => Waits(q)
        BY <1>0, <2>1, <3>2, ReadKeeps
      <3>4. ~Waits(r)' /\ \A q \in Requests : q # r /\ Waits(q) => Waits(q)'
        <4>1. \A s \in Seqs : pending'[s] = IF s = f.seq THEN "nobody" ELSE pending[s]
          BY <1>0, <2>1 DEF TypeOK
        <4>2. \A s \in Seqs : pending[s] = r => s = f.seq
          BY <1>0, <2>1, <2>3 DEF WaitsOnce
        <4> QED
          BY <1>0, <2>1, <2>3, <4>1, <4>2 DEF Waits
      <3>5. TypeOK'
        BY <1>0, <2>1, <3>2, <3>3 DEF TypeOK, fwVars
      <3>6. Unanswered'
        BY <1>0, <3>2, <3>3, <3>4 DEF Unanswered
      <3>7. /\ f.status # "busy" /\ (f.status = "ok" <=> applied[r] = 1) /\ applied[r] \in {0, 1}
        BY <1>0, <2>3 DEF RepliesTrue, AnswersTrue
      <3>8. RepliesTrue'
        <4>1. \A i \in UpSlots' : up'[i].what \in Requests =>
                up'[i].status # "busy" /\ (up'[i].status = "ok" <=> applied[up'[i].what] = 1)
          BY <3>3 DEF RepliesTrue
        <4> QED
          BY <1>0, <3>3, <4>1 DEF RepliesTrue
      <3>9. AnswersTrue'
        BY <1>0, <2>3, <3>2, <3>4, <3>7 DEF AnswersTrue
      <3> QED
        BY <3>3, <3>5, <3>6, <3>8, <3>9
    <2> QED
      BY <2>2, <2>3
  <1> QED
    BY <1>1, <1>2

\* Waiting is over for those in S.
LEMMA GiveUpKeeps ==
  ASSUME IInv, NEW S \in SUBSET Seqs, NEW result \in {"late", "closed"}, AnswerAll(S, result),
         pending' = [s \in Seqs |-> IF s \in S THEN "nobody" ELSE pending[s]],
         UNCHANGED <<up, applied, cur>>, pc' = "idle" \/ (pc' = "closed" /\ ~leased' /\ S = Seqs)
  PROVE  /\ WaitsOnce' /\ Unanswered'
         /\ answers' \in [Requests -> Seq(Results)]
         /\ pending' \in [Seqs -> Requests \union {"LEASE", "nobody"}]
         /\ \A s \in Seqs : pending'[s] = "nobody" \/ pending'[s] = pending[s]
         /\ (\A i \in DownSlots' :
               down'[i].what \notin Requests \/ (i \in DownSlots /\ down'[i] = down[i]))
            => Once' /\ Tracked' /\ RepliesTrue' /\ AnswersTrue'
  <1> USE DEF IInv
  <1>1. /\ answers' \in [Requests -> Seq(Results)]
        /\ \A r \in Requests :
             IF \E s \in S : pending[s] = r
             THEN /\ answers[r] = <<>> /\ answers'[r] = <<result>> /\ GivenUp(r)'
                  /\ answers'[r] # <<>> /\ Len(answers'[r]) = 1 /\ answers'[r][1] = result
             ELSE answers'[r] = answers[r]
    BY AllAnswered
  <1>2. \A s \in Seqs : pending'[s] = IF s \in S THEN "nobody" ELSE pending[s]
    OBVIOUS
  <1>3. pending' \in [Seqs -> Requests \union {"LEASE", "nobody"}]
    BY DEF TypeOK
  <1>4. UpSlots' = UpSlots /\ "nobody" \notin Requests
    BY TuningAssumption DEF UpSlots
  <1>5. WaitsOnce'
    BY <1>2, <1>4 DEF WaitsOnce
  <1>6. \A r \in Requests : Waits(r) /\ ~(\E s \in S : pending[s] = r) => Waits(r)'
    BY <1>2 DEF Waits
  <1>7. \A r \in Requests : Waits(r)' => Waits(r) /\ ~(\E s \in S : pending[s] = r)
    BY <1>2, <1>4 DEF Waits, WaitsOnce
  <1>8. Unanswered'
    <2>1. \A r \in Requests : Waits(r)' => answers'[r] = <<>> /\ r # cur'
      BY <1>1, <1>7 DEF Unanswered
    <2>2. cur' \in Requests => answers'[cur'] = <<>>
      BY <1>1 DEF Unanswered, Waits
    <2>3. pc' = "closed" => ~leased' /\ \A s \in Seqs : pending'[s] = "nobody"
      BY <1>2
    <2> QED
      BY <2>1, <2>2, <2>3 DEF Unanswered
  <1>9. ASSUME \A i \in DownSlots' :
                 down'[i].what \notin Requests \/ (i \in DownSlots /\ down'[i] = down[i])
        PROVE  Once' /\ Tracked' /\ RepliesTrue' /\ AnswersTrue'
    <2>1. Once'
      BY <1>4, <1>9 DEF Once
    <2>2. \A r \in Requests : GivenUp(r) => GivenUp(r)'
      BY <1>1 DEF GivenUp
    <2>4. Tracked'
      <3>1. ASSUME NEW i \in DownSlots', down'[i].what \in Requests
            PROVE  pending'[down'[i].seq] = down'[i].what \/ GivenUp(down[i].what)'
        <4>1. i \in DownSlots /\ down'[i] = down[i]
          BY <1>9, <3>1
        <4>2. PICK r \in Requests : r = down[i].what
          BY <3>1, <4>1
        <4>3. down[i].seq \in Seqs /\ (pending[down[i].seq] = r \/ GivenUp(r))
          BY <4>1, <4>2, ChannelTypes DEF Tracked, Traced
        <4>4. pending'[down[i].seq] = r \/ GivenUp(r)'
          BY <1>1, <1>2, <2>2, <4>3
        <4> QED
          BY <4>1, <4>2, <4>4 DEF GivenUp
      <3>2. ASSUME NEW i \in UpSlots, up[i].what \in Requests
            PROVE  pending'[up[i].seq] = up[i].what \/ GivenUp(up[i].what)'
        BY <1>1, <1>2, <2>2, <3>2, ChannelTypes DEF Tracked, Traced
      <3> QED
        BY <1>4, <3>1, <3>2 DEF Tracked, Traced
    <2>7. RepliesTrue'
      BY <1>4, <1>9 DEF RepliesTrue
    <2>8. AnswersTrue'
      BY <1>1, <1>6 DEF AnswersTrue, RepliesTrue
    <2> QED
      BY <2>1, <2>4, <2>7, <2>8
  <1> QED
    BY <1>1, <1>2, <1>3, <1>5, <1>8, <1>9

LEMMA PollEndIInv ==
  ASSUME IInv, NEW late \in SUBSET {s \in Seqs : pending[s] # "nobody"}, PollEnd(late)
  PROVE  IInv'
  <1> USE DEF IInv
  <1>1. /\ AnswerAll(late, "late") /\ pc' = "idle" /\ late \in SUBSET Seqs
        /\ pending' = [s \in Seqs |-> IF s \in late THEN "nobody" ELSE pending[s]]
        /\ UNCHANGED <<session, seq, leased, refused, cur, down, up, holder, applied, ruling, behind>>
        /\ prompt' \in BOOLEAN /\ cur = "nobody"
    BY DEF PollEnd, TypeOK
  <1>2. DownSlots' = DownSlots /\ UpSlots' = UpSlots
    BY <1>1 DEF DownSlots, UpSlots
  <1>3. /\ WaitsOnce' /\ Unanswered' /\ Once' /\ Tracked' /\ RepliesTrue' /\ AnswersTrue'
        /\ answers' \in [Requests -> Seq(Results)]
        /\ pending' \in [Seqs -> Requests \union {"LEASE", "nobody"}]
        /\ \A s \in Seqs : pending'[s] = "nobody" \/ pending'[s] = pending[s]
    BY <1>1, <1>2, GiveUpKeeps
  <1>4. TypeOK'
    BY <1>1, <1>3 DEF TypeOK
  <1>5. Numbered' /\ Matched'
    BY <1>1, <1>2, <1>3, ChannelTypes DEF Numbered, Matched
  <1> QED
    BY <1>3, <1>4, <1>5

LEMMA CloseIInv ==
  ASSUME IInv, NEW memory \in BOOLEAN, Close(memory)
  PROVE  IInv'
  <1> USE DEF IInv
  <1>1. /\ AnswerAll(Seqs, "closed") /\ pc' = "closed" /\ leased' = FALSE
        /\ pending' = [s \in Seqs |-> "nobody"]
        /\ UNCHANGED <<session, refused, cur, up, holder, applied, ruling, behind, prompt>>
        /\ cur = "nobody" /\ UpSlots' = UpSlots /\ {"RELEASE", "nobody"} \cap Requests = {}
    BY TuningAssumption DEF Close, TypeOK, fwVars, UpSlots
  <1>2. /\ seq' \in 0 .. MaxSeq /\ seq <= seq' /\ down' \in Seq(Frames)
        /\ \A i \in DownSlots' : \/ i \in DownSlots /\ down'[i] = down[i]
                                 \/ i \notin DownSlots /\ i = Len(down) + 1 /\ down'[i].what = "RELEASE"
                                      /\ down'[i].seq = seq + 1 /\ seq' = seq + 1 /\ seq + 1 \in Seqs
    <2>1. CASE FrameSent("RELEASE")
      BY <2>1, SentFrame, TuningAssumption DEF Whats, TypeOK, Seqs, DownSlots
    <2>2. CASE FrameFails("RELEASE")
      BY <2>2, TuningAssumption DEF FrameFails, TypeOK, DownSlots
    <2>3. CASE UNCHANGED <<seq, down>>
      BY <2>3, TuningAssumption DEF TypeOK, DownSlots
    <2> QED
      BY <2>1, <2>2, <2>3 DEF Close
  <1>3. /\ WaitsOnce' /\ Unanswered' /\ Once' /\ Tracked' /\ RepliesTrue' /\ AnswersTrue'
        /\ answers' \in [Requests -> Seq(Results)]
        /\ pending' \in [Seqs -> Requests \union {"LEASE", "nobody"}]
        /\ \A s \in Seqs : pending'[s] = "nobody"
    <2>1. pending' = [s \in Seqs |-> IF s \in Seqs THEN "nobody" ELSE pending[s]]
      BY <1>1
    <2>2. \A i \in DownSlots' : down'[i].what \notin Requests \/ (i \in DownSlots /\ down'[i] = down[i])
      BY <1>1, <1>2
    <2> QED
      BY <1>1, <2>1, <2>2, GiveUpKeeps
  <1>4. TypeOK'
    BY <1>1, <1>2, <1>3 DEF TypeOK
  <1>5. Matched'
    BY <1>1, <1>2, <1>3, ChannelTypes DEF Matched
  <1>6. Numbered'
    <2>1. seq \in Nat /\ seq' \in Nat /\ \A s \in Seqs : s \in Nat
      BY <1>2 DEF TypeOK, Seqs
    <2>2. \A i \in DownSlots : down[i].seq # seq + 1
      BY <2>1, ChannelTypes DEF Numbered
    <2>3. \A i \in UpSlots : up[i].seq # seq + 1
      BY <2>1, ChannelTypes DEF Numbered
    <2>4. \A i \in DownSlots' : down'[i].seq <= seq'
      BY <1>2, <2>1, ChannelTypes DEF Numbered
    <2>5. \A i \in UpSlots : up[i].seq <= seq'
      BY <1>2, <2>1, ChannelTypes DEF Numbered
    <2>6. \A i, j \in DownSlots' : down'[i].seq = down'[j].seq => i = j
      BY <1>2, <2>2 DEF Numbered
    <2>7. \A i \in DownSlots', j \in UpSlots : down'[i].seq # up[j].seq
      BY <1>2, <2>3 DEF Numbered
    <2> QED
      BY <1>1, <1>3, <2>4, <2>5, <2>6, <2>7 DEF Numbered
  <1> QED
    BY <1>3, <1>4, <1>5, <1>6

LEMMA ConnectIInv ==
  ASSUME IInv, CleanChannels, Connect
  PROVE  IInv'
  <1> USE DEF IInv
  <1>1. /\ down = <<>> /\ up = <<>> /\ pc = "closed" /\ pc' = "idle" /\ session' = session + 1
        /\ seq' = 0 /\ refused' = FALSE /\ cur = "nobody" /\ ~leased
        /\ UNCHANGED <<leased, pending, cur, answers, down, up, fwVars>>
        /\ \A s \in Seqs : pending[s] = "nobody"
    BY DEF Connect, CleanChannels, TypeOK, Unanswered
  <1>2. DownSlots' = {} /\ UpSlots' = {} /\ DownSlots = {} /\ UpSlots = {}
    BY <1>1 DEF DownSlots, UpSlots
  <1>3. TypeOK'
    <2>1. session' \in Nat /\ seq' \in 0 .. MaxSeq
      BY <1>1, TuningAssumption DEF TypeOK
    <2> QED
      BY <1>1, <2>1 DEF TypeOK, fwVars
  <1>4. Numbered' /\ Matched' /\ Once' /\ Tracked' /\ WaitsOnce'
    BY <1>1, <1>2 DEF Numbered, Matched, Once, Tracked, WaitsOnce
  <1>5. Unanswered'
    BY <1>1 DEF Unanswered, Waits
  <1>6. RepliesTrue' /\ AnswersTrue'
    BY <1>1, <1>2 DEF RepliesTrue, AnswersTrue, Waits, fwVars
  <1> QED
    BY <1>3, <1>4, <1>5, <1>6

\* The firmware takes a frame and answers it, or its reply is dropped.
LEMMA ServeKeeps ==
  ASSUME IInv, down # <<>>, down' = Tail(down), NEW status \in Statuses, Reply(down[1], status),
         UNCHANGED <<session, seq, leased, refused, pending, pc, cur, answers>>
  PROVE  /\ down' \in Seq(Frames) /\ up' \in Seq(ReplyFrames) /\ prompt' \in BOOLEAN
         /\ Numbered' /\ Matched' /\ Once' /\ Tracked' /\ WaitsOnce' /\ Unanswered'
         /\ \A r \in Requests : Waits(r)' <=> Waits(r)
         /\ \A i \in DownSlots' : /\ i + 1 \in DownSlots /\ down'[i] = down[i + 1]
                                  /\ down[1].what \in Requests => down'[i].what # down[1].what
         /\ \A i \in UpSlots' : \/ i \in UpSlots /\ up'[i] = up[i]
                                \/ up'[i].what = down[1].what /\ up'[i].status = status
         /\ \A i \in UpSlots : down[1].what \in Requests => up[i].what # down[1].what
         /\ 1 \in DownSlots /\ Head(down) = down[1]
  <1> USE DEF IInv
  <1>1. /\ down' \in Seq(Frames) /\ 1 \in DownSlots /\ Head(down) = down[1]
        /\ \A i \in DownSlots' : i \in Nat /\ i # 0 /\ i + 1 \in DownSlots /\ down'[i] = down[i + 1]
    BY TakenFrame
  <1>2. down[1] \in Frames
    BY <1>1 DEF TypeOK, DownSlots
  <1>3. /\ up' \in Seq(ReplyFrames) /\ prompt' \in BOOLEAN
        /\ \A i \in UpSlots' :
             \/ i \in UpSlots /\ up'[i] = up[i]
             \/ /\ i \notin UpSlots /\ i = Len(up) + 1 /\ up'[i].what = down[1].what
                /\ up'[i].seq = down[1].seq /\ up'[i].status = status
    <2>1. CASE up' = Append(up, [seq |-> down[1].seq, what |-> down[1].what, status |-> status])
      <3>1. Len(up) + 1 \notin UpSlots
        BY ChannelTypes DEF UpSlots
      <3>2. /\ up' \in Seq(ReplyFrames) /\ UpSlots' = UpSlots \union {Len(up) + 1}
            /\ \A i \in UpSlots : up'[i] = up[i]
            /\ up'[Len(up) + 1].seq = down[1].seq /\ up'[Len(up) + 1].what = down[1].what
            /\ up'[Len(up) + 1].status = status
        BY <1>2, <2>1, SentReply
      <3>3. prompt' \in BOOLEAN
        BY DEF Reply, TypeOK
      <3> QED
        BY <3>1, <3>2, <3>3
    <2>2. CASE up' = up
      BY <2>2 DEF Reply, TypeOK, UpSlots
    <2> QED
      BY <2>1, <2>2 DEF Reply
  <1>4. /\ \A i \in DownSlots' : i + 1 # 1
        /\ \A i, j \in DownSlots' : i + 1 = j + 1 => i = j
        /\ \A i \in DownSlots' : down'[i].seq # down[1].seq
    <2>1. \A i \in DownSlots' : i + 1 # 1
      BY <1>1
    <2>2. \A i, j \in DownSlots' : i + 1 = j + 1 => i = j
      BY <1>1
    <2>3. ASSUME NEW i \in DownSlots' PROVE down'[i].seq # down[1].seq
      <3>1. i + 1 \in DownSlots /\ 1 \in DownSlots /\ i + 1 # 1 /\ down'[i] = down[i + 1]
        BY <1>1, <2>1
      <3> QED
        BY <3>1 DEF Numbered
    <2> QED
      BY <2>1, <2>2, <2>3
  <1>5. Numbered'
    <2>1. \A i \in DownSlots' : down'[i].seq <= seq'
      BY <1>1 DEF Numbered
    <2>2. \A i \in UpSlots' : up'[i].seq <= seq'
      BY <1>1, <1>3 DEF Numbered
    <2>3. \A s \in Seqs : pending'[s] # "nobody" => s <= seq'
      BY DEF Numbered
    <2>4. ASSUME NEW i \in DownSlots', NEW j \in DownSlots', down'[i].seq = down'[j].seq PROVE i = j
      <3>1. i + 1 \in DownSlots /\ down'[i] = down[i + 1] /\ j + 1 \in DownSlots /\ down'[j] = down[j + 1]
        BY <1>1
      <3>2. i + 1 = j + 1
        BY <2>4, <3>1 DEF Numbered
      <3> QED
        BY <1>4, <3>2
    <2>5. \A i, j \in UpSlots' : up'[i].seq = up'[j].seq => i = j
      <3>1. \A i \in UpSlots : up[i].seq # down[1].seq
        BY <1>1 DEF Numbered
      <3> QED
        BY <1>3, <3>1 DEF Numbered
    <2>6. ASSUME NEW i \in DownSlots', NEW j \in UpSlots' PROVE down'[i].seq # up'[j].seq
      <3>1. i + 1 \in DownSlots /\ down'[i] = down[i + 1] /\ down'[i].seq # down[1].seq
        BY <1>1, <1>4
      <3>2. (j \in UpSlots /\ up'[j] = up[j]) \/ up'[j].seq = down[1].seq
        BY <1>3
      <3> QED
        BY <3>1, <3>2 DEF Numbered
    <2> QED
      BY <2>1, <2>2, <2>3, <2>4, <2>5, <2>6 DEF Numbered
  <1>6. Matched'
    BY <1>1, <1>3 DEF Matched
  <1>7. /\ \A i \in DownSlots' : down[1].what \in Requests => down'[i].what # down[1].what
        /\ \A i \in UpSlots : down[1].what \in Requests => up[i].what # down[1].what
    <2>1. ASSUME NEW i \in DownSlots', down[1].what \in Requests PROVE down'[i].what # down[1].what
      <3>1. i + 1 \in DownSlots /\ 1 \in DownSlots /\ i + 1 # 1 /\ down'[i] = down[i + 1]
        BY <1>1, <1>4
      <3> QED
        BY <2>1, <3>1 DEF Once
    <2>2. \A i \in UpSlots : down[1].what \in Requests => up[i].what # down[1].what
      BY <1>1 DEF Once
    <2> QED
      BY <2>1, <2>2
  <1>8. Once'
    <2>1. ASSUME NEW i \in DownSlots', NEW j \in DownSlots',
                 down'[i].what \in Requests, down'[i].what = down'[j].what
          PROVE  i = j
      <3>1. i + 1 \in DownSlots /\ down'[i] = down[i + 1] /\ j + 1 \in DownSlots /\ down'[j] = down[j + 1]
        BY <1>1
      <3>2. i + 1 = j + 1
        BY <2>1, <3>1 DEF Once
      <3> QED
        BY <1>4, <3>2
    <2>2. \A i, j \in UpSlots' : up'[i].what \in Requests /\ up'[i].what = up'[j].what => i = j
      BY <1>3, <1>7 DEF Once
    <2>3. ASSUME NEW i \in DownSlots', NEW j \in UpSlots', down'[i].what \in Requests
          PROVE  down'[i].what # up'[j].what
      <3>1. i + 1 \in DownSlots /\ down'[i] = down[i + 1]
        BY <1>1
      <3>2. (j \in UpSlots /\ up'[j] = up[j]) \/ up'[j].what = down[1].what
        BY <1>3
      <3>3. CASE j \in UpSlots /\ up'[j] = up[j]
        BY <2>3, <3>1, <3>3 DEF Once
      <3>4. CASE up'[j].what = down[1].what
        BY <1>7, <2>3, <3>4
      <3> QED
        BY <3>2, <3>3, <3>4
    <2> QED
      BY <2>1, <2>2, <2>3 DEF Once
  <1>10. Tracked'
    <2>1. ASSUME NEW i \in DownSlots', down'[i].what \in Requests
          PROVE  pending[down'[i].seq] = down'[i].what \/ GivenUp(down'[i].what)
      BY <1>1, <2>1 DEF Tracked, Traced
    <2>2. ASSUME NEW i \in UpSlots', up'[i].what \in Requests
          PROVE  pending[up'[i].seq] = up'[i].what \/ GivenUp(up'[i].what)
      BY <1>1, <1>3, <2>2 DEF Tracked, Traced
    <2>3. ASSUME NEW i \in DownSlots' PROVE Traced(down[i])'
      BY <2>1, <2>3 DEF Traced, GivenUp
    <2>4. ASSUME NEW i \in UpSlots' PROVE Traced(up[i])'
      BY <2>2, <2>4 DEF Traced, GivenUp
    <2> QED
      BY <2>3, <2>4 DEF Tracked
  <1>9. WaitsOnce' /\ Unanswered' /\ \A r \in Requests : Waits(r)' <=> Waits(r)
    BY DEF WaitsOnce, Unanswered, Waits
  <1> QED
    BY <1>1, <1>3, <1>5, <1>6, <1>7, <1>8, <1>9, <1>10

\* No request is served: nothing to tell of.
LEMMA ServeNoRequest ==
  ASSUME IInv, down # <<>>, down' = Tail(down), down[1].what \notin Requests,
         NEW status \in Statuses, Reply(down[1], status),
         holder' \in Nat, ruling' \in {"none", "ok", "busy"},
         UNCHANGED <<session, seq, leased, refused, pending, pc, cur, answers, applied, behind>>
  PROVE  IInv'
  <1>1. /\ down' \in Seq(Frames) /\ up' \in Seq(ReplyFrames) /\ prompt' \in BOOLEAN
        /\ Numbered' /\ Matched' /\ Once' /\ Tracked' /\ WaitsOnce' /\ Unanswered'
        /\ \A r \in Requests : Waits(r)' <=> Waits(r)
        /\ \A i \in DownSlots' : i + 1 \in DownSlots /\ down'[i] = down[i + 1]
        /\ \A i \in UpSlots' : \/ i \in UpSlots /\ up'[i] = up[i]
                               \/ up'[i].what \notin Requests
    <2> HIDE DEF IInv
    <2> QED
      BY ServeKeeps
  <1>2. TypeOK'
    BY <1>1 DEF IInv, TypeOK
  <1>3. RepliesTrue'
    <2>1. RepliesTrue
      BY DEF IInv
    <2>2. ASSUME NEW i \in DownSlots', down'[i].what \in Requests PROVE applied[down'[i].what] = 0
      <3>1. i + 1 \in DownSlots /\ down'[i] = down[i + 1]
        BY <1>1
      <3> QED
        BY <2>1, <2>2, <3>1 DEF RepliesTrue
    <2>3. \A i \in UpSlots' : up'[i].what \in Requests =>
            up'[i].status # "busy" /\ (up'[i].status = "ok" <=> applied[up'[i].what] = 1)
      BY <1>1, <2>1 DEF RepliesTrue
    <2> QED
      BY <2>1, <2>2, <2>3 DEF RepliesTrue
  <1>4. AnswersTrue'
    BY <1>1 DEF IInv, AnswersTrue
  <1> QED
    BY <1>1, <1>2, <1>3, <1>4 DEF IInv

LEMMA ServeLeaseIInv ==
  ASSUME IInv, ServeLease
  PROVE  IInv'
  <1> DEFINE status == IF holder \in {0, down[1].by} THEN "ok" ELSE "busy"
  <1>1. /\ down # <<>> /\ down' = Tail(down) /\ down[1] \in Frames /\ down[1].what = "LEASE"
        /\ Reply(down[1], status) /\ status \in Statuses /\ ruling' = status
        /\ holder' \in {holder, down[1].by}
        /\ UNCHANGED <<session, seq, leased, refused, pending, pc, cur, answers, applied, behind>>
    BY TakenFrame DEF ServeLease, IInv, TypeOK, DownSlots, Statuses, hostVars
  <1>2. down[1].what \notin Requests /\ holder' \in Nat /\ status \in {"ok", "busy"}
    BY <1>1, TuningAssumption DEF Frames, IInv, TypeOK
  <1> HIDE DEF status
  <1> QED
    BY <1>1, <1>2, ServeNoRequest

LEMMA ServeReleaseIInv ==
  ASSUME IInv, ServeRelease
  PROVE  IInv'
  <1>1. /\ down # <<>> /\ down' = Tail(down) /\ down[1].what = "RELEASE"
        /\ Reply(down[1], "ok") /\ "ok" \in Statuses /\ holder' \in {holder, 0}
        /\ UNCHANGED <<session, seq, leased, refused, pending, pc, cur, answers, applied, behind, ruling>>
    BY TakenFrame DEF ServeRelease, IInv, TypeOK, Statuses, hostVars
  <1>2. down[1].what \notin Requests /\ holder' \in Nat /\ ruling' \in {"none", "ok", "busy"}
    BY <1>1, TuningAssumption DEF IInv, TypeOK
  <1> QED
    BY <1>1, <1>2, ServeNoRequest

LEMMA ServeRequestIInv ==
  ASSUME IInv, ServeRequest
  PROVE  IInv'
  <1>1. PICK r \in Requests : down # <<>> /\ down[1].what = r
    BY TakenFrame DEF ServeRequest, IInv, TypeOK
  <1>2. PICK status \in {"ok", "refused", "lost"} :
          /\ down' = Tail(down) /\ Reply(down[1], status)
          /\ applied' = IF status = "ok" THEN [applied EXCEPT ![r] = @ + 1] ELSE applied
          /\ behind' = [behind EXCEPT ![r] = ruling]
          /\ UNCHANGED <<session, seq, leased, refused, pending, pc, cur, answers, holder, ruling>>
    BY <1>1, TakenFrame DEF ServeRequest, IInv, TypeOK, hostVars
  <1>3. /\ down' \in Seq(Frames) /\ up' \in Seq(ReplyFrames) /\ prompt' \in BOOLEAN
        /\ Numbered' /\ Matched' /\ Once' /\ Tracked' /\ WaitsOnce' /\ Unanswered'
        /\ \A q \in Requests : Waits(q)' <=> Waits(q)
        /\ \A i \in DownSlots' : /\ i + 1 \in DownSlots /\ down'[i] = down[i + 1]
                                 /\ down'[i].what # r
        /\ \A i \in UpSlots' : \/ i \in UpSlots /\ up'[i] = up[i]
                               \/ up'[i].what = r /\ up'[i].status = status
        /\ \A i \in UpSlots : up[i].what # r
        /\ 1 \in DownSlots
    BY <1>1, <1>2, ServeKeeps DEF Statuses
  <1>4. applied[r] = 0 /\ applied \in [Requests -> Nat]
    BY <1>1, <1>3 DEF IInv, RepliesTrue, TypeOK
  <1>5. /\ applied' \in [Requests -> Nat] /\ \A q \in Requests : q # r => applied'[q] = applied[q]
        /\ applied'[r] = IF status = "ok" THEN 1 ELSE 0
    BY <1>2, <1>4
  <1>6. TypeOK'
    BY <1>2, <1>3, <1>5 DEF IInv, TypeOK
  <1>7. RepliesTrue'
    <2>1. \A q \in Requests : applied'[q] \in {0, 1}
      BY <1>5 DEF IInv, RepliesTrue
    <2>2. ASSUME NEW i \in DownSlots', down'[i].what \in Requests PROVE applied'[down'[i].what] = 0
      BY <1>3, <1>5, <2>2 DEF IInv, RepliesTrue
    <2>3. ASSUME NEW i \in UpSlots', up'[i].what \in Requests
          PROVE  up'[i].status # "busy" /\ (up'[i].status = "ok" <=> applied'[up'[i].what] = 1)
      <3>1. CASE i \in UpSlots /\ up'[i] = up[i]
        BY <1>3, <1>5, <2>3, <3>1 DEF IInv, RepliesTrue
      <3>2. CASE up'[i].what = r /\ up'[i].status = status
        BY <1>5, <3>2
      <3> QED
        BY <1>3, <3>1, <3>2
    <2> QED
      BY <2>1, <2>2, <2>3 DEF RepliesTrue
  <1>8. Waits(r) \/ GivenUp(r)
    BY <1>1, <1>3, ChannelTypes DEF IInv, Tracked, Traced, Waits
  <1>9. AnswersTrue'
    <2>1. /\ <<"late">>[1] = "late" /\ <<"closed">>[1] = "closed" /\ Waits(r) => answers[r] = <<>>
          /\ <<"late">> # <<>> /\ <<"closed">> # <<>>
      BY DEF IInv, Unanswered
    <2>2. ASSUME NEW q \in Requests, answers'[q] = <<>>, ~Waits(q)' PROVE applied'[q] = 0
      BY <1>2, <1>3, <1>5, <1>8, <2>1, <2>2 DEF IInv, AnswersTrue, GivenUp
    <2>3. ASSUME NEW q \in Requests, answers'[q] # <<>>
          PROVE  /\ Len(answers'[q]) = 1
                 /\ answers'[q][1] = "ok" => applied'[q] = 1
                 /\ answers'[q][1] \in {"lost", "busy", "refused", "full"} => applied'[q] = 0
      BY <1>2, <1>5, <1>8, <2>1, <2>3 DEF IInv, AnswersTrue, GivenUp
    <2> QED
      BY <2>2, <2>3 DEF AnswersTrue
  <1> QED
    BY <1>3, <1>6, <1>7, <1>9 DEF IInv

LEMMA FirmwareResetIInv ==
  ASSUME IInv, FirmwareReset
  PROVE  IInv'
  <1> USE DEF IInv
  <1>1. /\ down' = <<>> /\ up' = <<>> /\ holder' = 0 /\ ruling' = "none" /\ prompt' = FALSE
        /\ UNCHANGED <<session, seq, leased, refused, pending, pc, cur, answers, applied, behind>>
    BY DEF FirmwareReset, hostVars
  <1>2. DownSlots' = {} /\ UpSlots' = {}
    BY <1>1 DEF DownSlots, UpSlots
  <1>3. TypeOK'
    <2>1. <<>> \in Seq(Frames) /\ <<>> \in Seq(ReplyFrames) /\ 0 \in Nat
      OBVIOUS
    <2> QED
      BY <1>1, <2>1 DEF TypeOK
  <1>4. Numbered' /\ Matched' /\ Once' /\ Tracked' /\ WaitsOnce'
    BY <1>1, <1>2 DEF Numbered, Matched, Once, Tracked, WaitsOnce
  <1>5. Unanswered' /\ RepliesTrue' /\ AnswersTrue'
    BY <1>1, <1>2 DEF Unanswered, RepliesTrue, AnswersTrue, Waits
  <1> QED
    BY <1>3, <1>4, <1>5

\* Whoever holds the lease, and steps that change nothing.
LEMMA HolderIInv ==
  ASSUME IInv, holder' \in Nat, UNCHANGED <<hostVars, down, up, applied, ruling, behind, prompt>>
  PROVE  IInv'
  <1> USE DEF IInv, hostVars
  <1>1. TypeOK' /\ DownSlots' = DownSlots /\ UpSlots' = UpSlots
    BY DEF TypeOK, DownSlots, UpSlots
  <1>2. Numbered' /\ Matched' /\ Once' /\ Tracked' /\ WaitsOnce'
    BY <1>1 DEF Numbered, Matched, Once, Tracked, Traced, GivenUp, WaitsOnce
  <1>3. Unanswered' /\ RepliesTrue' /\ AnswersTrue'
    BY <1>1 DEF Unanswered, RepliesTrue, AnswersTrue, Waits
  <1> QED
    BY <1>1, <1>2, <1>3

------------------------------------------------------------------------------
(* Type correctness *)

LEMMA InitIInv == Init => IInv
  <1> SUFFICES ASSUME Init PROVE IInv
    OBVIOUS
  <1>1. DownSlots = {} /\ UpSlots = {} /\ "nobody" \notin Requests
    BY TuningAssumption DEF Init, DownSlots, UpSlots
  <1>2. \A r \in Requests : ~Waits(r)
    BY <1>1 DEF Init, Waits
  <1>3. TypeOK
    <2>1. <<>> \in Seq(Frames) /\ <<>> \in Seq(ReplyFrames) /\ <<>> \in Seq(Results)
      OBVIOUS
    <2>2. seq \in 0 .. MaxSeq /\ 0 \in Nat /\ 1 \in Nat
      BY TuningAssumption DEF Init
    <2>3. /\ answers \in [Requests -> Seq(Results)] /\ down \in Seq(Frames) /\ up \in Seq(ReplyFrames)
          /\ applied \in [Requests -> Nat] /\ behind \in [Requests -> {"none", "ok", "busy"}]
          /\ pending \in [Seqs -> Requests \union {"LEASE", "nobody"}]
      BY <2>1, <2>2 DEF Init
    <2> QED
      BY <1>1, <2>2, <2>3 DEF Init, TypeOK
  <1>4. Numbered /\ Matched /\ Once /\ Tracked /\ WaitsOnce
    BY <1>1 DEF Init, Numbered, Matched, Once, Tracked, WaitsOnce
  <1>5. Unanswered /\ RepliesTrue /\ AnswersTrue
    BY <1>1, <1>2 DEF Init, Unanswered, RepliesTrue, AnswersTrue
  <1> QED
    BY <1>3, <1>4, <1>5 DEF IInv

LEMMA NextIInv ==
  ASSUME CleanChannels, IInv, [Next]_vars
  PROVE  IInv'
  <1>1. ASSUME NEW r \in Requests, SubmitLease(r) PROVE IInv'
    BY <1>1, SubmitLeaseIInv
  <1>2. ASSUME NEW r \in Requests, SubmitLeased(r) PROVE IInv'
    BY <1>2, SubmitLeasedIInv
  <1>3. CASE SubmitSend
    BY <1>3, SubmitSendIInv
  <1>4. CASE Polls
    BY <1>4, PollIInv DEF Polls
  <1>5. CASE PollFrame
    BY <1>5, PollFrameIInv
  <1>6. CASE PollEnds
    BY <1>6, PollEndIInv DEF PollEnds
  <1>7. ASSUME NEW memory \in BOOLEAN, Close(memory) PROVE IInv'
    BY <1>7, CloseIInv
  <1>8. CASE Connect
    BY <1>8, ConnectIInv
  <1>9. CASE ServeLease \/ ServeRelease \/ ServeRequest
    BY <1>9, ServeLeaseIInv, ServeReleaseIInv, ServeRequestIInv
  <1>10. CASE FirmwareReset
    BY <1>10, FirmwareResetIInv
  <1>11. CASE LeaseLapses \/ Takeover
    <2>1. holder' \in Nat
      BY <1>11, TuningAssumption DEF LeaseLapses, Takeover, OtherTool
    <2> QED
      BY <1>11, <2>1, HolderIInv DEF LeaseLapses, Takeover
  <1>12. CASE UNCHANGED vars
    BY <1>12, HolderIInv DEF vars, hostVars, fwVars, IInv, TypeOK
  <1> QED
    BY <1>1, <1>2, <1>3, <1>4, <1>5, <1>6, <1>7, <1>8, <1>9, <1>10, <1>11, <1>12 DEF Next

LEMMA SpecIInv ==
  ASSUME CleanChannels
  PROVE  Spec => []IInv
  <1>1. Init => IInv
    BY InitIInv
  <1>2. IInv /\ [Next]_vars => IInv'
    BY NextIInv
  <1> QED
    BY <1>1, <1>2, PTL DEF Spec

\* Every variable keeps its type.
THEOREM TypeCorrect ==
  ASSUME CleanChannels
  PROVE  Spec => []TypeOK
  <1>1. IInv => TypeOK
    BY DEF IInv
  <1> QED
    BY <1>1, SpecIInv, PTL

------------------------------------------------------------------------------
(* The contract of tuning requests, step by step *)

\* What is known of a request, after a legal history.
LEMMA KnownIs ==
  ASSUME IInv, NEW r \in Requests
  PROVE  Known(r) = IF answers[r] = <<>>
               THEN IF Waits(r) \/ cur = r THEN "waiting" ELSE "idle"
               ELSE IF answers[r][1] = "ok" THEN "ok"
               ELSE IF answers[r][1] \in {"late", "closed"} THEN "unknown" ELSE "refused"
  <1>1. r \in InFlight <=> Waits(r)
    BY DEF InFlight, Waits
  <1>2. CASE answers[r] = <<>>
    BY <1>1, <1>2 DEF Known
  <1>3. CASE answers[r] # <<>>
    <2>1. Len(answers[r]) = 1
      BY <1>3 DEF IInv, AnswersTrue
    <2>2. ~(Len(answers[r]) > 1)
      BY <2>1
    <2>3. Head(answers[r]) = answers[r][1]
      BY <1>3 DEF IInv, TypeOK
    <2>4. CASE answers[r][1] = "ok"
      BY <1>3, <2>2, <2>3, <2>4 DEF Known
    <2>5. CASE answers[r][1] \in {"late", "closed"}
      BY <1>3, <2>2, <2>3, <2>5 DEF Known
    <2>6. CASE answers[r][1] \notin {"ok", "late", "closed"}
      BY <1>3, <2>2, <2>3, <2>6 DEF Known
    <2> QED
      BY <1>3, <2>4, <2>5, <2>6
  <1> QED
    BY <1>2, <1>3

LEMMA KnownIsNext ==
  ASSUME IInv', NEW r \in Requests
  PROVE  Known(r)' = IF answers'[r] = <<>>
               THEN IF Waits(r)' \/ cur' = r THEN "waiting" ELSE "idle"
               ELSE IF answers'[r][1] = "ok" THEN "ok"
               ELSE IF answers'[r][1] \in {"late", "closed"} THEN "unknown" ELSE "refused"
  <1>1. (r \in InFlight)' <=> Waits(r)'
    BY DEF InFlight, Waits
  <1>2. CASE answers'[r] = <<>>
    BY <1>1, <1>2 DEF Known
  <1>3. CASE answers'[r] # <<>>
    <2>1. Len(answers'[r]) = 1
      BY <1>3 DEF IInv, AnswersTrue
    <2>2. ~(Len(answers'[r]) > 1)
      BY <2>1
    <2>3. Head(answers'[r]) = answers'[r][1]
      BY <1>3 DEF IInv, TypeOK
    <2>4. CASE answers'[r][1] = "ok"
      BY <1>3, <2>2, <2>3, <2>4 DEF Known
    <2>5. CASE answers'[r][1] \in {"late", "closed"}
      BY <1>3, <2>2, <2>3, <2>5 DEF Known
    <2>6. CASE answers'[r][1] \notin {"ok", "late", "closed"}
      BY <1>3, <2>2, <2>3, <2>6 DEF Known
    <2> QED
      BY <1>3, <2>4, <2>5, <2>6
  <1> QED
    BY <1>2, <1>3

\* The asker learns nothing of r.
LEMMA NothingLearnt ==
  ASSUME NEW r \in Requests, answers'[r] = answers[r],
         (Waits(r)' \/ cur' = r) <=> (Waits(r) \/ cur = r)
  PROVE  Known(r)' = Known(r)
  <1>1. (r \in InFlight \/ cur = r)' <=> (r \in InFlight \/ cur = r)
    BY DEF InFlight, Waits
  <1>2. CASE answers[r] = <<>>
    BY <1>1, <1>2 DEF Known
  <1>3. CASE answers[r] # <<>>
    BY <1>3 DEF Known
  <1> QED
    BY <1>2, <1>3

Stutter == UNCHANGED <<[r \in Requests |-> Known(r)], applied>>

LEMMA StutterStep ==
  ASSUME applied' = applied, \A q \in Requests : Known(q)' = Known(q)
  PROVE  Stutter
  BY DEF Stutter

\* Only what is known of r changes.
Learnt(r) == applied' = applied /\ \A q \in Requests : q # r => Known(q)' = Known(q)

LEMMA LearntIs ==
  ASSUME NEW r \in Requests, Learnt(r)
  PROVE  [q \in Requests |-> Known(q)]' = [[q \in Requests |-> Known(q)] EXCEPT ![r] = Known(r)']
  BY DEF Learnt

LEMMA AskStep ==
  ASSUME NEW r \in Requests, Learnt(r), Known(r) = "idle", Known(r)' = "waiting"
  PROVE  Contract!Next
  <1>1. Contract!Ask(r)
    BY LearntIs DEF Contract!Ask, Learnt
  <1> QED
    BY <1>1 DEF Contract!Next

LEMMA RefuseStep ==
  ASSUME NEW r \in Requests, Learnt(r), Known(r) \in {"idle", "waiting"}, Known(r)' = "refused",
         applied[r] = 0
  PROVE  Contract!Next
  <1>1. Contract!Refuse(r)
    BY LearntIs DEF Contract!Refuse, Learnt
  <1> QED
    BY <1>1 DEF Contract!Next

LEMMA ConfirmStep ==
  ASSUME NEW r \in Requests, Learnt(r), Known(r) = "waiting", Known(r)' = "ok", applied[r] = 1
  PROVE  Contract!Next
  <1>1. Contract!Confirm(r)
    BY LearntIs DEF Contract!Confirm, Learnt
  <1> QED
    BY <1>1 DEF Contract!Next

LEMMA CarryOutStep ==
  ASSUME NEW r \in Requests, \A q \in Requests : Known(q)' = Known(q),
         Known(r) \in {"waiting", "unknown"}, applied[r] = 0, applied' = [applied EXCEPT ![r] = 1]
  PROVE  Contract!Next
  <1>1. Contract!CarryOut(r)
    BY DEF Contract!CarryOut
  <1> QED
    BY <1>1 DEF Contract!Next

LEMMA GiveUpStep ==
  ASSUME NEW S \in SUBSET Requests, applied' = applied,
         \A r \in S : Known(r) = "waiting" /\ Known(r)' = "unknown",
         \A r \in Requests \ S : Known(r)' = Known(r)
  PROVE  Contract!Next
  <1>1. Contract!GiveUp(S, {})
    BY DEF Contract!GiveUp
  <1> QED
    BY <1>1 DEF Contract!Next

\* A frame that is not a request's changes nothing for any asker.
LEMMA LeaseSentWaits ==
  ASSUME IInv, FrameSent("LEASE"), pending' = [pending EXCEPT ![seq'] = "LEASE"]
  PROVE  \A r \in Requests : Waits(r)' <=> Waits(r)
  <1>1. /\ seq + 1 \in Seqs /\ seq' = seq + 1 /\ pending[seq + 1] = "nobody"
        /\ "LEASE" \notin Requests /\ "nobody" \notin Requests
    BY SentFrame, TuningAssumption DEF IInv, Numbered, Whats, TypeOK
  <1>2. \A s \in Seqs : pending'[s] = IF s = seq + 1 THEN "LEASE" ELSE pending[s]
    BY <1>1 DEF IInv, TypeOK
  <1> QED
    BY <1>1, <1>2 DEF Waits

LEMMA SubmitLeaseStep ==
  ASSUME IInv, IInv', NEW r \in Requests, SubmitLease(r)
  PROVE  Contract!Next
  <1>0. /\ pc = "idle" /\ answers[r] = <<>> /\ ~Waits(r) /\ cur = "nobody" /\ applied' = applied
        /\ "nobody" \notin Requests /\ AnswersTrue /\ AnswersTrue'
    BY TuningAssumption DEF SubmitLease, Fresh, InFlight, Waits, fwVars, IInv, TypeOK
  <1>1. Known(r) = "idle" /\ applied[r] = 0
    BY <1>0, KnownIs DEF AnswersTrue
  <1>2. CASE /\ FrameSent("LEASE") /\ pending' = [pending EXCEPT ![seq'] = "LEASE"]
             /\ cur' = r /\ UNCHANGED answers
    <2>1. Learnt(r)
      BY <1>0, <1>2, LeaseSentWaits, NothingLearnt DEF Learnt
    <2>2. Known(r)' = "waiting"
      BY <1>0, <1>2, KnownIsNext
    <2> QED
      BY <1>1, <2>1, <2>2, AskStep
  <1>3. CASE Answer(r, "full") /\ UNCHANGED <<pending, cur>>
    <2>1. /\ \A q \in Requests : q # r => answers'[q] = answers[q]
          /\ answers'[r] # <<>> /\ answers'[r][1] = "full"
      BY <1>0, <1>3, FirstAnswer DEF Answer, Results, IInv
    <2>2. \A q \in Requests : Waits(q)' <=> Waits(q)
      BY <1>3 DEF Waits
    <2>3. Learnt(r)
      BY <1>0, <1>3, <2>1, <2>2, NothingLearnt DEF Learnt
    <2>4. Known(r)' = "refused"
      BY <1>0, <2>1, KnownIsNext
    <2> QED
      BY <1>1, <2>3, <2>4, RefuseStep
  <1> QED
    BY <1>2, <1>3 DEF SubmitLease

LEMMA SubmitLeasedStep ==
  ASSUME IInv, IInv', NEW r \in Requests, SubmitLeased(r)
  PROVE  Contract!Next
  <1>0. /\ pc = "idle" /\ answers[r] = <<>> /\ ~Waits(r) /\ cur = "nobody" /\ applied' = applied
        /\ UNCHANGED <<pending, answers>> /\ cur' = r
        /\ "nobody" \notin Requests /\ AnswersTrue /\ AnswersTrue'
    BY TuningAssumption DEF SubmitLeased, Fresh, InFlight, Waits, fwVars, IInv, TypeOK
  <1>1. Known(r) = "idle"
    BY <1>0, KnownIs
  <1>2. \A q \in Requests : Waits(q)' <=> Waits(q)
    BY <1>0 DEF Waits
  <1>3. Learnt(r)
    BY <1>0, <1>2, NothingLearnt DEF Learnt
  <1>4. Known(r)' = "waiting"
    BY <1>0, KnownIsNext
  <1> QED
    BY <1>1, <1>3, <1>4, AskStep

LEMMA SubmitSendStep ==
  ASSUME IInv, IInv', SubmitSend
  PROVE  Contract!Next \/ Stutter
  <1>0. /\ answers[cur] = <<>> /\ ~Waits(cur) /\ cur' = "nobody" /\ applied' = applied
        /\ "nobody" \notin Requests /\ AnswersTrue /\ AnswersTrue'
    BY TuningAssumption DEF SubmitSend, Unanswered, fwVars, IInv, TypeOK
  <1> PICK r \in Requests : r = cur
    BY DEF SubmitSend, IInv, TypeOK
  <1>1. Known(r) = "waiting" /\ applied[r] = 0
    BY <1>0, KnownIs DEF AnswersTrue
  <1>2. CASE FrameSent(cur) /\ pending' = [pending EXCEPT ![seq'] = cur] /\ UNCHANGED answers
    <2>1. \A q \in Requests : Waits(q)' <=> Waits(q) \/ q = r
      <3>1. /\ seq + 1 \in Seqs /\ seq' = seq + 1 /\ pending[seq + 1] = "nobody"
        BY <1>2, SentFrame DEF IInv, Numbered, Whats, TypeOK
      <3>2. \A s \in Seqs : pending'[s] = IF s = seq + 1 THEN r ELSE pending[s]
        BY <1>2, <3>1 DEF IInv, TypeOK
      <3> QED
        BY <1>0, <3>1, <3>2 DEF Waits
    <2>2. \A q \in Requests : Known(q)' = Known(q)
      BY <1>0, <1>2, <2>1, NothingLearnt
    <2> QED
      BY <1>0, <2>2, StutterStep
  <1>3. CASE Answer(cur, "full") /\ UNCHANGED pending
    <2>1. /\ \A q \in Requests : q # r => answers'[q] = answers[q]
          /\ answers'[r] # <<>> /\ answers'[r][1] = "full"
      BY <1>0, <1>3, FirstAnswer DEF Answer, Results, IInv
    <2>2. \A q \in Requests : Waits(q)' <=> Waits(q)
      BY <1>3 DEF Waits
    <2>3. Learnt(r)
      BY <1>0, <2>1, <2>2, NothingLearnt DEF Learnt
    <2>4. Known(r)' = "refused"
      BY <1>0, <2>1, KnownIsNext
    <2> QED
      BY <1>1, <2>3, <2>4, RefuseStep
  <1> QED
    BY <1>2, <1>3 DEF SubmitSend

LEMMA PollStep ==
  ASSUME IInv, NEW due \in BOOLEAN, Poll(due)
  PROVE  Stutter
  <1>1. UNCHANGED <<answers, cur, applied>>
    BY DEF Poll, fwVars
  <1>2. \A r \in Requests : Waits(r)' <=> Waits(r)
    <2>1. CASE FrameSent("LEASE") /\ pending' = [pending EXCEPT ![seq'] = "LEASE"]
      BY <2>1, LeaseSentWaits
    <2>2. CASE UNCHANGED pending
      BY <2>2 DEF Waits
    <2> QED
      BY <2>1, <2>2 DEF Poll
  <1> QED
    BY <1>1, <1>2, NothingLearnt, StutterStep

LEMMA PollFrameStep ==
  ASSUME IInv, IInv', PollFrame
  PROVE  Contract!Next \/ Stutter
  <1> DEFINE f == up[1]
  <1>0. /\ pc = "reading" /\ applied' = applied /\ cur' = "nobody" /\ cur = "nobody"
        /\ Head(up) = f /\ 1 \in UpSlots /\ f.seq \in Seqs /\ f.status \in Statuses
        /\ "LEASE" \notin Requests /\ "nobody" \notin Requests /\ AnswersTrue /\ AnswersTrue'
    <2>1. /\ pc = "reading" /\ up # <<>> /\ up' = Tail(up) /\ cur' = cur /\ applied' = applied
      BY DEF PollFrame, fwVars
    <2> QED
      BY <2>1, TuningAssumption, TakenReply, ChannelTypes DEF IInv, TypeOK
  <1>1. CASE pending[f.seq] \notin Requests
    <2>1. UNCHANGED answers /\ (UNCHANGED pending \/ pending' = [pending EXCEPT ![f.seq] = "nobody"])
      BY <1>0, <1>1 DEF PollFrame, Taker
    <2>2. \A s \in Seqs : pending'[s] = pending[s] \/ (pending'[s] = "nobody" /\ s = f.seq)
      BY <2>1 DEF IInv, TypeOK
    <2>3. \A r \in Requests : Waits(r)' <=> Waits(r)
      BY <1>0, <1>1, <2>2 DEF Waits
    <2> QED
      BY <1>0, <2>1, <2>3, NothingLearnt, StutterStep
  <1>2. CASE pending[f.seq] \in Requests
    <2> PICK r \in Requests : r = pending[f.seq]
      BY <1>2
    <2> DEFINE result == IF f.status = "lost" /\ refused' THEN "busy" ELSE f.status
    <2>1. /\ pending' = [pending EXCEPT ![f.seq] = "nobody"]
          /\ answers' = [answers EXCEPT ![r] = Append(@, result)] /\ result \in Results
          /\ answers[r] = <<>> /\ f.what = r /\ Waits(r)
      <3>1. answers[r] = <<>> /\ f.what = r /\ Waits(r)
        BY <1>0 DEF IInv, Unanswered, Matched, Waits
      <3> QED
        BY <1>0, <3>1 DEF PollFrame, Taker, Results, Statuses
    <2>2. /\ \A q \in Requests : q # r => answers'[q] = answers[q]
          /\ answers'[r] # <<>> /\ answers'[r][1] = result
      BY <2>1, FirstAnswer DEF IInv
    <2>3. \A q \in Requests : q # r => (Waits(q)' <=> Waits(q))
      <3>1. \A s \in Seqs : pending'[s] = IF s = f.seq THEN "nobody" ELSE pending[s]
        BY <1>0, <2>1 DEF IInv, TypeOK
      <3> QED
        BY <1>0, <3>1 DEF Waits
    <2>4. Learnt(r)
      BY <1>0, <2>2, <2>3, NothingLearnt DEF Learnt
    <2>5. Known(r) = "waiting"
      BY <1>0, <2>1, KnownIs
    <2>6. /\ f.status # "busy" /\ (f.status = "ok" <=> applied[r] = 1) /\ applied[r] \in {0, 1}
      BY <1>0, <2>1 DEF IInv, RepliesTrue
    <2>7. CASE f.status = "ok"
      <3>1. Known(r)' = "ok" /\ applied[r] = 1
        BY <1>0, <2>2, <2>6, <2>7, KnownIsNext
      <3> QED
        BY <2>4, <2>5, <3>1, ConfirmStep
    <2>8. CASE f.status # "ok"
      <3>1. Known(r)' = "refused" /\ applied[r] = 0
        BY <1>0, <2>2, <2>6, <2>8, KnownIsNext DEF Statuses
      <3> QED
        BY <2>4, <2>5, <3>1, RefuseStep
    <2> QED
      BY <2>7, <2>8
  <1> QED
    BY <1>1, <1>2

LEMMA GiveUpsStep ==
  ASSUME IInv, IInv', NEW S \in SUBSET Seqs, NEW result \in {"late", "closed"}, AnswerAll(S, result),
         pending' = [s \in Seqs |-> IF s \in S THEN "nobody" ELSE pending[s]],
         UNCHANGED <<applied, cur>>
  PROVE  Contract!Next
  <1> DEFINE G == {r \in Requests : \E s \in S : pending[s] = r}
  <1>1. \A r \in Requests :
          IF r \in G THEN answers[r] = <<>> /\ answers'[r] # <<>> /\ answers'[r][1] = result
                     ELSE answers'[r] = answers[r]
    BY AllAnswered DEF IInv
  <1>2. AnswersTrue /\ AnswersTrue' /\ \A r \in G : Waits(r)
    BY DEF IInv, Waits
  <1>3. \A r \in Requests \ G : Waits(r)' <=> Waits(r)
    BY TuningAssumption DEF Waits
  <1>4. \A r \in Requests \ G : Known(r)' = Known(r)
    BY <1>1, <1>3, NothingLearnt
  <1>5. \A r \in G : Known(r) = "waiting" /\ Known(r)' = "unknown"
    BY <1>1, <1>2, KnownIs, KnownIsNext
  <1>6. G \in SUBSET Requests
    OBVIOUS
  <1> HIDE DEF G
  <1> QED
    BY <1>4, <1>5, <1>6, GiveUpStep

LEMMA ServeRequestStep ==
  ASSUME IInv, ServeRequest
  PROVE  Contract!Next \/ Stutter
  <1>1. PICK r \in Requests : down # <<>> /\ down[1].what = r /\ 1 \in DownSlots
    BY TakenFrame DEF ServeRequest, IInv, TypeOK
  <1>2. /\ applied' = applied \/ applied' = [applied EXCEPT ![r] = @ + 1]
        /\ UNCHANGED <<pending, answers, cur>>
    BY <1>1, TakenFrame DEF ServeRequest, IInv, TypeOK, hostVars
  <1>3. \A q \in Requests : Known(q)' = Known(q)
    <2>1. \A q \in Requests : Waits(q)' <=> Waits(q)
      BY <1>2 DEF Waits
    <2> QED
      BY <1>2, <2>1, NothingLearnt
  <1>4. applied[r] = 0
    BY <1>1 DEF IInv, RepliesTrue
  <1>5. Known(r) \in {"waiting", "unknown"}
    <2>1. Waits(r) \/ GivenUp(r)
      BY <1>1, ChannelTypes DEF IInv, Tracked, Traced, Waits
    <2>2. /\ <<"late">>[1] = "late" /\ <<"closed">>[1] = "closed"
          /\ <<"late">> # <<>> /\ <<"closed">> # <<>>
      OBVIOUS
    <2>3. Waits(r) => answers[r] = <<>>
      BY DEF IInv, Unanswered
    <2> QED
      BY <2>1, <2>2, <2>3, KnownIs DEF GivenUp, IInv
  <1>6. applied' = applied \/ applied' = [applied EXCEPT ![r] = 1]
    BY <1>2, <1>4 DEF IInv, TypeOK
  <1> QED
    BY <1>3, <1>4, <1>5, <1>6, CarryOutStep, StutterStep

\* Steps that touch no request and no answer.
LEMMA OtherStep ==
  ASSUME UNCHANGED <<pending, answers, cur, applied>>
  PROVE  Stutter
  <1>1. \A q \in Requests : Waits(q)' <=> Waits(q)
    BY DEF Waits
  <1> QED
    BY <1>1, NothingLearnt, StutterStep

LEMMA NextStep ==
  ASSUME IInv, IInv', [Next]_vars
  PROVE  Contract!Next \/ Stutter
  <1>1. ASSUME NEW r \in Requests, SubmitLease(r) PROVE Contract!Next
    BY <1>1, SubmitLeaseStep
  <1>2. ASSUME NEW r \in Requests, SubmitLeased(r) PROVE Contract!Next
    BY <1>2, SubmitLeasedStep
  <1>3. CASE SubmitSend
    BY <1>3, SubmitSendStep
  <1>4. CASE Polls
    BY <1>4, PollStep DEF Polls
  <1>5. CASE PollFrame
    BY <1>5, PollFrameStep
  <1>6. CASE PollEnds
    BY <1>6, GiveUpsStep DEF PollEnds, PollEnd
  <1>7. ASSUME NEW memory \in BOOLEAN, Close(memory) PROVE Contract!Next
    <2>1. /\ AnswerAll(Seqs, "closed") /\ UNCHANGED <<applied, cur>>
          /\ pending' = [s \in Seqs |-> IF s \in Seqs THEN "nobody" ELSE pending[s]]
      BY <1>7 DEF Close, fwVars
    <2> QED
      BY <2>1, GiveUpsStep
  <1>8. CASE Connect \/ ServeLease \/ ServeRelease \/ FirmwareReset \/ LeaseLapses \/ Takeover
             \/ UNCHANGED vars
    <2>1. UNCHANGED <<pending, answers, cur, applied>>
      BY <1>8 DEF Connect, ServeLease, ServeRelease, FirmwareReset, LeaseLapses, Takeover,
                  vars, hostVars, fwVars
    <2> QED
      BY <2>1, OtherStep
  <1>9. CASE ServeRequest
    BY <1>9, ServeRequestStep
  <1> QED
    BY <1>1, <1>2, <1>3, <1>4, <1>5, <1>6, <1>7, <1>8, <1>9 DEF Next

\* Requests pipelined over RTT keep the contract of tuning requests: whatever
\* is lost, late, refused or reset on the way, each is answered at most once,
\* "ok" only if the firmware carried it out (once), a refusal or a full
\* channel only if it did not and never will.
THEOREM Refines ==
  ASSUME CleanChannels
  PROVE  Spec => KeepsContract
  <1>1. Init => Contract!Init
    <2> SUFFICES ASSUME Init PROVE Contract!Init
      OBVIOUS
    <2>1. IInv /\ \A r \in Requests : ~Waits(r) /\ cur # r /\ answers[r] = <<>>
      BY InitIInv, TuningAssumption DEF Init, Waits
    <2>2. \A r \in Requests : Known(r) = "idle"
      BY <2>1, KnownIs
    <2> QED
      BY <2>2 DEF Init, Contract!Init
  <1>2. IInv /\ IInv' /\ [Next]_vars => [Contract!Next]_(<<[r \in Requests |-> Known(r)], applied>>)
    BY NextStep DEF Stutter
  <1> QED
    BY <1>1, <1>2, SpecIInv, PTL DEF Spec, Contract!Spec, KeepsContract

------------------------------------------------------------------------------
(* Why a request was refused *)

LEMMA BelievedSame ==
  ASSUME NEW n \in Nat, refused' = refused, \A i \in 1 .. n : up'[i] = up[i]
  PROVE  Believed(n)' <=> Believed(n)
  BY DEF Believed

\* Reading the first reply changes nothing for the later ones.
LEMMA BelievedRead ==
  ASSUME TypeOK, up # <<>>, up' = Tail(up), refused' = Refusal(up[1]),
         NEW n \in Nat, n < Len(up)
  PROVE  Believed(n)' <=> Believed(n + 1)
  <1> DEFINE Later(m, i) == up[i].what = "LEASE" /\ up[i].status # "ok"
                            /\ \A k \in i + 1 .. m : up[k].what # "LEASE"
             E0 == \E i \in 1 .. n : /\ up'[i].what = "LEASE" /\ up'[i].status # "ok"
                                     /\ \A k \in i + 1 .. n : up'[k].what # "LEASE"
             A0 == \A k \in 1 .. n : up'[k].what # "LEASE"
             E1 == \E i \in 1 .. n + 1 : Later(n + 1, i)
             A1 == \A k \in 1 .. n + 1 : up[k].what # "LEASE"
             E2 == \E i \in 2 .. n + 1 : Later(n + 1, i)
             A2 == \A k \in 2 .. n + 1 : up[k].what # "LEASE"
  <1>0. /\ Believed(n)' <=> E0 \/ (refused' /\ A0)
        /\ Believed(n + 1) <=> E1 \/ (refused /\ A1)
    BY DEF Believed
  <1>1. \A i \in 1 .. n : i \in Nat /\ i + 1 \in 1 .. n + 1 /\ up'[i] = up[i + 1]
    BY TakenReply DEF UpSlots
  <1>2. \A i \in 2 .. n + 1 : i - 1 \in 1 .. n /\ up'[i - 1] = up[i]
    <2> SUFFICES ASSUME NEW i \in 2 .. n + 1 PROVE i - 1 \in 1 .. n /\ up'[i - 1] = up[i]
      OBVIOUS
    <2>1. i - 1 \in 1 .. n /\ (i - 1) + 1 = i
      OBVIOUS
    <2> QED
      BY <1>1, <2>1
  <1>3. \A k \in 1 .. n + 1 : k = 1 \/ k \in 2 .. n + 1
    OBVIOUS
  <1>4. A0 <=> A2
    BY <1>1, <1>2, <1>3
  <1>5. E0 <=> E2
    <2>1. ASSUME NEW i \in 1 .. n, up'[i].what = "LEASE", up'[i].status # "ok",
                 \A k \in i + 1 .. n : up'[k].what # "LEASE"
          PROVE  /\ i + 1 \in 2 .. n + 1 /\ up[i + 1].what = "LEASE" /\ up[i + 1].status # "ok"
                 /\ \A k \in (i + 1) + 1 .. n + 1 : up[k].what # "LEASE"
      <3>1. ASSUME NEW k \in (i + 1) + 1 .. n + 1 PROVE up[k].what # "LEASE"
        <4>1. k \in 2 .. n + 1 /\ k - 1 \in i + 1 .. n
          OBVIOUS
        <4> QED
          BY <1>2, <2>1, <4>1
      <3> QED
        BY <1>1, <2>1, <3>1
    <2>2. ASSUME NEW i \in 2 .. n + 1, up[i].what = "LEASE", up[i].status # "ok",
                 \A k \in i + 1 .. n + 1 : up[k].what # "LEASE"
          PROVE  /\ i - 1 \in 1 .. n /\ up'[i - 1].what = "LEASE" /\ up'[i - 1].status # "ok"
                 /\ \A k \in (i - 1) + 1 .. n : up'[k].what # "LEASE"
      <3>1. ASSUME NEW k \in (i - 1) + 1 .. n PROVE up'[k].what # "LEASE"
        <4>1. k \in 1 .. n /\ k + 1 \in i + 1 .. n + 1
          OBVIOUS
        <4> QED
          BY <1>1, <2>2, <4>1
      <3> QED
        BY <1>2, <2>2, <3>1
    <2> QED
      BY <2>1, <2>2
  <1>6. 1 \in 1 .. n + 1 /\ 1 + 1 = 2 /\ \A i \in 2 .. n + 1 : i \in 1 .. n + 1
    OBVIOUS
  <1>7. CASE up[1].what = "LEASE"
    <2>1. refused' = (up[1].status # "ok")
      BY <1>7 DEF Refusal
    <2>2. ~A1
      BY <1>6, <1>7
    <2>3. E1 <=> E2 \/ (up[1].status # "ok" /\ A2)
      BY <1>3, <1>6, <1>7
    <2> HIDE DEF E0, A0, E1, A1, E2, A2
    <2> QED
      BY <1>0, <1>4, <1>5, <2>1, <2>2, <2>3
  <1>8. CASE up[1].what # "LEASE"
    <2>1. refused' = refused
      BY <1>8 DEF Refusal
    <2>2. A1 <=> A2
      BY <1>3, <1>6, <1>8
    <2>3. E1 <=> E2
      BY <1>3, <1>6, <1>8
    <2> HIDE DEF E0, A0, E1, A1, E2, A2
    <2> QED
      BY <1>0, <1>4, <1>5, <2>1, <2>2, <2>3
  <1> QED
    BY <1>7, <1>8

LEMMA BelievedLast ==
  ASSUME NEW n \in Nat, refused' = refused, \A i \in 1 .. n : up'[i] = up[i]
  PROVE  /\ up'[n + 1].what = "LEASE" => (Believed(n + 1)' <=> up'[n + 1].status # "ok")
         /\ up'[n + 1].what # "LEASE" => (Believed(n + 1)' <=> Believed(n))
  <1>1. /\ \A i \in 1 .. n + 1 : i = n + 1 \/ i \in 1 .. n
        /\ \A i \in 1 .. n : i \in 1 .. n + 1 /\ n + 1 \in i + 1 .. n + 1
        /\ n + 1 \in 1 .. n + 1 /\ \A k \in n + 2 .. n + 1 : FALSE
        /\ (n + 1) + 1 = n + 2
    OBVIOUS
  <1>2. CASE up'[n + 1].what = "LEASE"
    BY <1>1, <1>2 DEF Believed
  <1>3. CASE up'[n + 1].what # "LEASE"
    <2>1. \A i \in 1 .. n : \A k \in i + 1 .. n + 1 : k = n + 1 \/ k \in i + 1 .. n
      OBVIOUS
    <2>2. \A i \in 1 .. n : \A k \in i + 1 .. n : k \in 1 .. n /\ k \in i + 1 .. n + 1
      OBVIOUS
    <2> QED
      BY <1>1, <1>3, <2>1, <2>2 DEF Believed
  <1> QED
    BY <1>2, <1>3

\* A request with no new answer, or one that is no refusal for the lease.
LEMMA ExplainedKeeps ==
  ASSUME RefusalExplained, TypeOK, TypeOK', UNCHANGED behind, prompt' => prompt,
         \A r \in Requests : \/ answers'[r] = answers[r]
                             \/ answers'[r] # <<>> /\ answers'[r][1] \notin {"busy", "lost"}
  PROVE  RefusalExplained'
  <1>1. \A r \in Requests : answers'[r] # <<>> => Head(answers'[r]) = answers'[r][1]
    BY DEF TypeOK
  <1>2. ASSUME prompt', NEW r \in Requests, answers'[r] # <<>>
        PROVE  /\ Head(answers'[r]) = "busy" => behind'[r] = "busy"
               /\ Head(answers'[r]) = "lost" => behind'[r] # "busy"
    BY <1>1, <1>2 DEF RefusalExplained
  <1> QED
    BY <1>2 DEF RefusalExplained

LEMMA InStepSame ==
  ASSUME TypeOK, InStep, UNCHANGED <<pending, down, up, refused, leased, ruling, behind, prompt>>,
         pc # "closed"
  PROVE  InStep'
  <1>1. UpSlots' = UpSlots /\ DownSlots' = DownSlots /\ Len(up') = Len(up)
    BY DEF UpSlots, DownSlots
  <1>2. \A n \in Nat : Believed(n)' <=> Believed(n)
    BY BelievedSame
  <1>3. (Unruled' <=> Unruled) /\ Len(up) \in Nat /\ \A i \in UpSlots : i \in Nat
    BY <1>1, ChannelTypes DEF Unruled, UpSlots
  <1> QED
    BY <1>1, <1>2, <1>3 DEF InStep

LEMMA InStepSend ==
  ASSUME IInv, InStep, NEW what \in Requests \union {"LEASE"}, FrameSent(what),
         pending' = [pending EXCEPT ![seq'] = what],
         UNCHANGED <<up, refused, ruling, behind, prompt>>, pc # "closed",
         what \in Requests => leased, leased' => leased \/ what = "LEASE"
  PROVE  InStep'
  <1> USE DEF IInv
  <1>1. /\ seq' = seq + 1 /\ seq + 1 \in Seqs /\ Len(down) \in Nat
        /\ DownSlots' = DownSlots \union {Len(down) + 1}
        /\ \A i \in DownSlots : down'[i] = down[i] /\ i \in Nat /\ i <= Len(down)
        /\ down'[Len(down) + 1].seq = seq + 1 /\ down'[Len(down) + 1].what = what
    BY SentFrame, ChannelTypes DEF Whats, DownSlots
  <1>2. /\ pending'[seq + 1] = what /\ \A s \in Seqs : s # seq + 1 => pending'[s] = pending[s]
        /\ seq \in Nat
    BY <1>1 DEF TypeOK
  <1>3. \A i \in DownSlots : down[i].seq # seq + 1 /\ down[i].seq \in Seqs
    BY <1>2, ChannelTypes DEF Numbered, Seqs
  <1>4. \A i \in UpSlots : up[i].seq # seq + 1 /\ up[i].seq \in Seqs
    BY <1>2, ChannelTypes DEF Numbered, Seqs
  <1>5. UpSlots' = UpSlots /\ Len(up') = Len(up) /\ Len(up) \in Nat /\ \A i \in UpSlots : i \in Nat
    BY ChannelTypes DEF UpSlots
  <1>6. \A n \in Nat : Believed(n)' <=> Believed(n)
    BY BelievedSame
  <1>7. Unruled => Unruled'
    <2> SUFFICES ASSUME Unruled PROVE Unruled'
      OBVIOUS
    <2>1. leased' => \E i \in DownSlots' : down'[i].what = "LEASE"
      BY <1>1 DEF Unruled
    <2>2. ASSUME NEW i \in DownSlots', down'[i].what \in Requests
          PROVE  \E k \in 1 .. i - 1 : down'[k].what = "LEASE"
      <3>1. CASE i \in DownSlots
        <4>1. PICK k \in 1 .. i - 1 : down[k].what = "LEASE"
          BY <1>1, <2>2, <3>1 DEF Unruled
        <4>2. k \in DownSlots
          BY <1>1, <3>1 DEF DownSlots
        <4> QED
          BY <1>1, <4>1, <4>2
      <3>2. CASE i = Len(down) + 1
        <4>1. PICK k \in DownSlots : down[k].what = "LEASE"
          BY <1>1, <2>2, <3>2 DEF Unruled
        <4>2. k \in 1 .. i - 1
          BY <1>1, <3>2 DEF DownSlots
        <4> QED
          BY <1>1, <4>1, <4>2
      <3> QED
        BY <1>1, <3>1, <3>2
    <2> QED
      BY <2>1, <2>2 DEF Unruled
  <1>8. ASSUME prompt, NEW i \in DownSlots' PROVE pending'[down'[i].seq] = down'[i].what
    BY <1>1, <1>2, <1>3, <1>8 DEF InStep
  <1>9. ASSUME prompt, NEW i \in UpSlots PROVE pending'[up[i].seq] = up[i].what
    BY <1>2, <1>4, <1>9 DEF InStep
  <1>10. ASSUME prompt, NEW i \in UpSlots, up[i].what \in Requests
         PROVE  Believed(i)' <=> behind[up[i].what] = "busy"
    BY <1>5, <1>6, <1>10 DEF InStep
  <1>11. prompt => (Believed(Len(up))' <=> ruling = "busy") \/ Unruled'
    BY <1>5, <1>6, <1>7 DEF InStep
  <1> QED
    BY <1>5, <1>8, <1>9, <1>10, <1>11 DEF InStep

LEMMA SubmitEInv ==
  ASSUME EInv, IInv', NEW r \in Requests, SubmitLease(r) \/ SubmitLeased(r)
  PROVE  EInv'
  <1> USE DEF EInv
  <1>0. /\ pc = "idle" /\ answers[r] = <<>> /\ pc # "closed" /\ TypeOK /\ TypeOK'
        /\ UNCHANGED <<refused, up, ruling, behind, prompt>>
    BY DEF SubmitLease, SubmitLeased, Fresh, fwVars, IInv
  <1>1. CASE FrameSent("LEASE") /\ pending' = [pending EXCEPT ![seq'] = "LEASE"] /\ UNCHANGED answers
    BY <1>0, <1>1, TuningAssumption, InStepSend, ExplainedKeeps
  <1>2. CASE FrameFails("LEASE") /\ Answer(r, "full") /\ UNCHANGED <<pending, leased>>
    <2>1. /\ \A q \in Requests : q # r => answers'[q] = answers[q]
          /\ answers'[r] # <<>> /\ answers'[r][1] = "full"
      BY <1>0, <1>2, FirstAnswer DEF Answer, Results
    <2>2. RefusalExplained'
      BY <1>0, <2>1, ExplainedKeeps
    <2> QED
      BY <1>0, <1>2, <2>2, InStepSame DEF FrameFails
  <1>3. CASE UNCHANGED <<answers, pending, down, leased>>
    BY <1>0, <1>3, InStepSame, ExplainedKeeps
  <1> QED
    BY <1>1, <1>2, <1>3 DEF SubmitLease, SubmitLeased

LEMMA SubmitSendEInv ==
  ASSUME EInv, IInv', SubmitSend
  PROVE  EInv'
  <1> USE DEF EInv
  <1>0. /\ cur \in Requests /\ answers[cur] = <<>> /\ leased /\ pc # "closed" /\ TypeOK /\ TypeOK'
        /\ UNCHANGED <<leased, refused, up, ruling, behind, prompt>>
    BY DEF SubmitSend, fwVars, IInv, TypeOK, Unanswered
  <1>1. CASE FrameSent(cur) /\ pending' = [pending EXCEPT ![seq'] = cur] /\ UNCHANGED answers
    BY <1>0, <1>1, InStepSend, ExplainedKeeps
  <1>2. CASE FrameFails(cur) /\ Answer(cur, "full") /\ UNCHANGED pending
    <2>1. /\ \A q \in Requests : q # cur => answers'[q] = answers[q]
          /\ answers'[cur] # <<>> /\ answers'[cur][1] = "full"
      BY <1>0, <1>2, FirstAnswer DEF Answer, Results
    <2>2. RefusalExplained'
      BY <1>0, <2>1, ExplainedKeeps
    <2> QED
      BY <1>0, <1>2, <2>2, InStepSame DEF FrameFails
  <1> QED
    BY <1>1, <1>2 DEF SubmitSend

LEMMA PollEInv ==
  ASSUME EInv, IInv', NEW due \in BOOLEAN, Poll(due)
  PROVE  EInv'
  <1> USE DEF EInv
  <1>0. /\ pc # "closed" /\ TypeOK /\ TypeOK'
        /\ UNCHANGED <<answers, leased, refused, up, ruling, behind, prompt>>
    BY DEF Poll, fwVars, IInv
  <1>1. RefusalExplained'
    BY <1>0, ExplainedKeeps
  <1>2. CASE FrameSent("LEASE") /\ pending' = [pending EXCEPT ![seq'] = "LEASE"]
    BY <1>0, <1>1, <1>2, TuningAssumption, InStepSend
  <1>3. CASE UNCHANGED <<pending, down>>
    BY <1>0, <1>1, <1>3, InStepSame
  <1> QED
    BY <1>2, <1>3 DEF Poll, FrameFails

LEMMA PollFrameEInv ==
  ASSUME EInv, IInv', PollFrame
  PROVE  EInv'
  <1> USE DEF EInv
  <1> DEFINE f == up[1]
  <1>0. /\ pc = "reading" /\ up # <<>> /\ up' = Tail(up) /\ TypeOK /\ TypeOK'
        /\ UNCHANGED <<down, behind, prompt, ruling, pc>>
        /\ Head(up) = f /\ 1 \in UpSlots /\ f.seq \in Seqs /\ f.status \in Statuses
        /\ UpSlots' = 1 .. Len(up) - 1 /\ Len(up') = Len(up) - 1 /\ Len(up) \in Nat \ {0}
        /\ \A i \in UpSlots' : i \in Nat /\ i + 1 \in UpSlots /\ i + 1 # 1 /\ up'[i] = up[i + 1]
        /\ DownSlots' = DownSlots
    <2>1. /\ pc = "reading" /\ up # <<>> /\ up' = Tail(up) /\ UNCHANGED <<down, fwVars, pc>>
      BY DEF PollFrame
    <2> QED
      BY <2>1, TakenReply, ChannelTypes DEF fwVars, IInv, DownSlots, UpSlots
  <1>1. CASE ~prompt
    BY <1>0, <1>1 DEF InStep, RefusalExplained
  <1>2. CASE prompt
    <2>1. /\ pending[f.seq] = f.what /\ f.what # "nobody"
          /\ f.what \in Requests => (Believed(1) <=> behind[f.what] = "busy")
      BY <1>0, <1>2, ChannelTypes, TuningAssumption DEF InStep, Whats
    <2>2. /\ pending' = [pending EXCEPT ![f.seq] = "nobody"] /\ refused' = Refusal(f)
          /\ answers' = IF f.what \in Requests
                        THEN [answers EXCEPT ![f.what] =
                               Append(@, IF f.status = "lost" /\ refused' THEN "busy" ELSE f.status)]
                        ELSE answers
      BY <1>0, <2>1 DEF PollFrame, Taker
    <2>3. \A s \in Seqs : s # f.seq => pending'[s] = pending[s]
      BY <2>2 DEF IInv, TypeOK
    <2>4. \A n \in Nat : n < Len(up) => (Believed(n)' <=> Believed(n + 1))
      BY <1>0, <2>2, BelievedRead
    <2>5. InStep'
      <3>1. ASSUME NEW i \in DownSlots PROVE pending'[down[i].seq] = down[i].what
        BY <1>0, <1>2, <2>3, ChannelTypes DEF InStep, IInv, Numbered
      <3>2. ASSUME NEW i \in UpSlots' PROVE pending'[up'[i].seq] = up'[i].what
        <4>1. i + 1 \in UpSlots /\ i + 1 # 1 /\ up'[i] = up[i + 1]
          BY <1>0
        <4>2. up[i + 1].seq # f.seq /\ up[i + 1].seq \in Seqs
          BY <1>0, <4>1, ChannelTypes DEF IInv, Numbered
        <4> QED
          BY <1>0, <1>2, <2>3, <4>1, <4>2 DEF InStep
      <3>3. ASSUME NEW i \in UpSlots', up'[i].what \in Requests
            PROVE  Believed(i)' <=> behind[up'[i].what] = "busy"
        <4>1. i + 1 \in UpSlots /\ up'[i] = up[i + 1] /\ i \in Nat /\ i < Len(up)
          BY <1>0
        <4> QED
          BY <1>0, <1>2, <2>4, <3>3, <4>1 DEF InStep
      <3>4. Believed(Len(up))' <=> ruling = "busy"
        <4>1. Believed(Len(up)) <=> ruling = "busy"
          BY <1>0, <1>2 DEF InStep, Unruled
        <4>2. Len(up) \in Nat \ {0} /\ Len(up') = Len(up) - 1
          BY <1>0
        <4> PICK n \in Nat : n = Len(up) - 1
          BY <4>2
        <4>3. n + 1 = Len(up) /\ n < Len(up) /\ n = Len(up')
          BY <4>2
        <4>4. Believed(n)' <=> Believed(n + 1)
          BY <2>4, <4>3
        <4>5. Believed(Len(up))' <=> Believed(n)'
          BY <4>3 DEF Believed
        <4> QED
          BY <4>1, <4>3, <4>4, <4>5
      <3> QED
        BY <1>0, <3>1, <3>2, <3>3, <3>4 DEF InStep
    <2>6. CASE f.what \notin Requests
      BY <1>0, <2>2, <2>5, <2>6, ExplainedKeeps
    <2>7. CASE f.what \in Requests
      <3> PICK r \in Requests : r = f.what
        BY <2>7
      <3> DEFINE result == IF f.status = "lost" /\ refused' THEN "busy" ELSE f.status
      <3>1. answers' = [answers EXCEPT ![r] = Append(@, result)] /\ result \in Results /\ answers[r] = <<>>
        BY <1>0, <2>1, <2>2, <2>7 DEF Results, Statuses, IInv, Unanswered, Waits
      <3>2. /\ \A q \in Requests : q # r => answers'[q] = answers[q]
            /\ answers'[r] # <<>> /\ answers'[r] = <<result>>
        <4> PICK v \in Results : v = result
          BY <3>1
        <4>1. TypeOK /\ answers[r] = <<>>
          BY <1>0, <3>1
        <4>2. answers' = [answers EXCEPT ![r] = Append(@, v)]
          BY <3>1
        <4>3. answers'[r] = <<v>> /\ answers'[r] # <<>> /\ \A q \in Requests : q # r => answers'[q] = answers[q]
          <5> HIDE DEF f, result, EInv
          <5> QED
            BY <4>1, <4>2, FirstAnswer
        <4> QED
          BY <4>3
      <3>3. Believed(1) <=> refused'
        <4>1. r # "LEASE" /\ refused' = refused
          BY <2>2, TuningAssumption DEF Refusal
        <4>2. \A i \in 1 .. 1 : i = 1
          OBVIOUS
        <4> QED
          BY <4>1, <4>2 DEF Believed
      <3>4. f.status # "busy"
        BY <1>0, <2>7 DEF IInv, RepliesTrue
      <3>5. Head(answers'[r]) = result
        BY <3>2
      <3>6. RefusalExplained'
        BY <1>0, <2>1, <3>2, <3>3, <3>4, <3>5 DEF RefusalExplained
      <3> QED
        BY <2>5, <3>6
    <2> QED
      BY <2>6, <2>7
  <1> QED
    BY <1>1, <1>2

LEMMA PollEndEInv ==
  ASSUME EInv, IInv', NEW late \in SUBSET {s \in Seqs : pending[s] # "nobody"}, PollEnd(late)
  PROVE  EInv'
  <1> USE DEF EInv
  <1>1. /\ prompt' = (prompt /\ late = {}) /\ pc # "closed" /\ TypeOK /\ TypeOK'
        /\ UNCHANGED <<leased, refused, down, up, ruling, behind>>
    BY DEF PollEnd, IInv
  <1>2. CASE ~prompt'
    BY <1>2 DEF InStep, RefusalExplained
  <1>3. CASE prompt'
    <2>1. late = {} /\ UNCHANGED prompt
      BY <1>1, <1>3 DEF IInv, TypeOK
    <2>2. UNCHANGED <<pending, answers>>
      BY <2>1 DEF PollEnd, AnswerAll, IInv, TypeOK
    <2> QED
      BY <1>1, <2>1, <2>2, InStepSame, ExplainedKeeps
  <1> QED
    BY <1>2, <1>3

LEMMA CloseEInv ==
  ASSUME EInv, IInv', NEW memory \in BOOLEAN, Close(memory)
  PROVE  EInv'
  <1> USE DEF EInv
  <1>1. /\ pc' = "closed" /\ AnswerAll(Seqs, "closed") /\ UNCHANGED <<behind, prompt>> /\ TypeOK /\ TypeOK'
    BY DEF Close, fwVars, IInv
  <1>2. \A r \in Requests : answers'[r] = answers[r] \/ (answers'[r] # <<>> /\ answers'[r][1] = "closed")
    BY <1>1, AllAnswered DEF IInv
  <1>3. RefusalExplained'
    BY <1>1, <1>2, ExplainedKeeps
  <1> QED
    BY <1>1, <1>3 DEF InStep

LEMMA ConnectEInv ==
  ASSUME EInv, IInv', CleanChannels, Connect
  PROVE  EInv'
  <1> USE DEF EInv
  <1>1. /\ down' = <<>> /\ up' = <<>> /\ pc = "closed" /\ ~leased' /\ TypeOK /\ TypeOK'
        /\ UNCHANGED <<answers, behind, prompt>>
    BY DEF Connect, CleanChannels, IInv, TypeOK, Unanswered, fwVars
  <1>2. DownSlots' = {} /\ UpSlots' = {}
    BY <1>1 DEF DownSlots, UpSlots
  <1>3. RefusalExplained'
    BY <1>1, ExplainedKeeps
  <1>4. Unruled'
    BY <1>1, <1>2 DEF Unruled
  <1> QED
    BY <1>2, <1>3, <1>4 DEF InStep

\* A reply goes out in the order of the frames.
LEMMA InStepServe ==
  ASSUME IInv, InStep, prompt, prompt', pc # "closed", down # <<>>, down' = Tail(down),
         NEW status \in Statuses, Reply(down[1], status),
         UNCHANGED <<pending, refused, pc>>, \A r \in Requests : r # down[1].what => behind'[r] = behind[r],
         down[1].what = "LEASE" => (ruling' = "busy" <=> status # "ok"),
         down[1].what # "LEASE" =>
           /\ Believed(Len(up)) <=> ruling' = "busy"
           /\ down[1].what \in Requests => behind'[down[1].what] = ruling'
  PROVE  InStep'
  <1> USE DEF IInv
  <1>1. /\ 1 \in DownSlots /\ down[1] \in Frames /\ Len(up) \in Nat
        /\ \A i \in DownSlots' : i + 1 \in DownSlots /\ down'[i] = down[i + 1]
    BY TakenFrame, ChannelTypes DEF TypeOK, DownSlots
  <1>2. up' = Append(up, [seq |-> down[1].seq, what |-> down[1].what, status |-> status])
    BY DEF Reply
  <1>3. /\ Len(up') = Len(up) + 1 /\ UpSlots' = UpSlots \union {Len(up) + 1}
        /\ \A i \in UpSlots : up'[i] = up[i] /\ i \in Nat
        /\ up'[Len(up) + 1].seq = down[1].seq /\ up'[Len(up) + 1].what = down[1].what
        /\ up'[Len(up) + 1].status = status
    BY <1>1, <1>2, SentReply DEF UpSlots
  <1>4. ASSUME NEW i \in DownSlots' PROVE pending[down'[i].seq] = down'[i].what
    BY <1>1, <1>4 DEF InStep
  <1>5. ASSUME NEW i \in UpSlots' PROVE pending[up'[i].seq] = up'[i].what
    BY <1>1, <1>3, <1>5 DEF InStep
  <1>6. \A n \in Nat : n <= Len(up) => (Believed(n)' <=> Believed(n))
    <2> SUFFICES ASSUME NEW n \in Nat, n <= Len(up) PROVE Believed(n)' <=> Believed(n)
      OBVIOUS
    <2>1. \A i \in 1 .. n : i \in UpSlots
      BY <1>1 DEF UpSlots
    <2> QED
      BY <1>3, <2>1, BelievedSame
  <1> PICK n \in Nat : n = Len(up)
    BY <1>1
  <1>7. Believed(n + 1)' <=> ruling' = "busy"
    <2>1. /\ down[1].what = "LEASE" => (Believed(n + 1)' <=> status # "ok")
          /\ down[1].what # "LEASE" => (Believed(n + 1)' <=> Believed(n))
      <3>1. \A i \in 1 .. n : up'[i] = up[i]
        BY <1>3 DEF UpSlots
      <3> QED
        BY <1>3, <3>1, BelievedLast
    <2> QED
      BY <2>1
  <1>8. ASSUME NEW i \in UpSlots', up'[i].what \in Requests
        PROVE  Believed(i)' <=> behind'[up'[i].what] = "busy"
    <2>1. CASE i \in UpSlots
      <3>1. up[i].what # down[1].what /\ up'[i] = up[i]
        BY <1>1, <1>3, <1>8, <2>1 DEF Once
      <3>2. i \in Nat /\ i <= Len(up)
        BY <1>1, <2>1 DEF UpSlots
      <3> QED
        BY <1>6, <1>8, <2>1, <3>1, <3>2 DEF InStep
    <2>2. CASE i = n + 1
      <3>1. down[1].what \in Requests /\ down[1].what # "LEASE" /\ up'[i].what = down[1].what
        BY <1>3, <1>8, <2>2, TuningAssumption
      <3> QED
        BY <1>7, <2>2, <3>1
    <2> QED
      BY <1>3, <2>1, <2>2
  <1>9. Believed(Len(up))' <=> ruling' = "busy"
    <2>1. Len(up') = n + 1
      BY <1>3
    <2>2. Believed(Len(up))' <=> Believed(n + 1)'
      BY <2>1 DEF Believed
    <2> QED
      BY <1>7, <2>2
  <1> QED
    BY <1>4, <1>5, <1>8, <1>9 DEF InStep

LEMMA ServeLeaseEInv ==
  ASSUME EInv, IInv', ServeLease
  PROVE  EInv'
  <1> USE DEF EInv
  <1> DEFINE status == IF holder \in {0, down[1].by} THEN "ok" ELSE "busy"
  <1>1. /\ down # <<>> /\ down' = Tail(down) /\ down[1].what = "LEASE" /\ TypeOK /\ TypeOK'
        /\ Reply(down[1], status) /\ status \in Statuses /\ ruling' = status
        /\ UNCHANGED <<pending, refused, pc, answers, behind>>
    BY TakenFrame DEF ServeLease, IInv, Statuses, hostVars
  <1>2. prompt' => prompt
    BY <1>1 DEF Reply
  <1>3. RefusalExplained'
    BY <1>1, <1>2, ExplainedKeeps
  <1>4. CASE prompt' /\ pc # "closed"
    <2>1. ruling' = "busy" <=> status # "ok"
      BY <1>1
    <2> HIDE DEF status
    <2>2. InStep'
      BY <1>1, <1>2, <1>4, <2>1, InStepServe
    <2> QED
      BY <1>3, <2>2
  <1>5. CASE ~prompt' \/ pc = "closed"
    BY <1>1, <1>3, <1>5 DEF InStep
  <1> QED
    BY <1>4, <1>5

LEMMA ServeReleaseEInv ==
  ASSUME EInv, IInv', ServeRelease
  PROVE  EInv'
  <1> USE DEF EInv
  <1>1. /\ down # <<>> /\ down[1].what = "RELEASE" /\ 1 \in DownSlots /\ TypeOK /\ TypeOK'
        /\ Reply(down[1], "ok") /\ UNCHANGED <<pc, answers, behind>>
    BY TakenFrame DEF ServeRelease, IInv, hostVars
  <1>2. prompt' => prompt
    BY <1>1 DEF Reply
  <1>3. RefusalExplained'
    BY <1>1, <1>2, ExplainedKeeps
  <1>4. prompt => pc = "closed"
    <2>1. pending[down[1].seq] # "RELEASE"
      BY <1>1, ChannelTypes, TuningAssumption DEF TypeOK
    <2> QED
      BY <1>1, <2>1 DEF InStep
  <1> QED
    BY <1>1, <1>2, <1>3, <1>4 DEF InStep

LEMMA ServeRequestEInv ==
  ASSUME EInv, IInv', ServeRequest
  PROVE  EInv'
  <1> USE DEF EInv
  <1>1. PICK r \in Requests : down # <<>> /\ down[1].what = r /\ 1 \in DownSlots /\ TypeOK /\ TypeOK'
    BY TakenFrame DEF ServeRequest, IInv
  <1>2. PICK status \in {"ok", "refused", "lost"} :
          /\ down' = Tail(down) /\ Reply(down[1], status)
          /\ behind' = [behind EXCEPT ![r] = ruling]
          /\ UNCHANGED <<refused, pending, pc, answers, ruling>>
    BY <1>1, TakenFrame DEF ServeRequest, hostVars
  <1>3. behind'[r] = ruling /\ \A q \in Requests : q # r => behind'[q] = behind[q]
    BY <1>1, <1>2 DEF TypeOK
  <1>4. prompt' => prompt
    BY <1>2 DEF Reply
  <1>5. RefusalExplained'
    <2>1. pending[down[1].seq] = r \/ GivenUp(r)
      BY <1>1 DEF IInv, Tracked, Traced
    <2>2. answers[r] = <<>> \/ Head(answers[r]) \in {"late", "closed"}
      BY <1>1, <2>1, ChannelTypes DEF IInv, GivenUp, Unanswered, Waits
    <2> QED
      BY <1>2, <1>3, <1>4, <2>2 DEF RefusalExplained
  <1>6. CASE prompt' /\ pc # "closed"
    <2>1. r # "LEASE"
      BY TuningAssumption
    <2>2. ~Unruled
      <3>1. \A k \in 1 .. 1 - 1 : FALSE
        OBVIOUS
      <3> QED
        BY <1>1, <3>1 DEF Unruled
    <2>3. Believed(Len(up)) <=> ruling' = "busy"
      BY <1>2, <1>4, <1>6, <2>2 DEF InStep
    <2>4. status \in Statuses
      BY DEF Statuses
    <2>5. InStep'
      BY <1>1, <1>2, <1>3, <1>4, <1>6, <2>1, <2>3, <2>4, InStepServe
    <2> QED
      BY <1>5, <2>5
  <1>7. CASE ~prompt' \/ pc = "closed"
    BY <1>2, <1>5, <1>7 DEF InStep
  <1> QED
    BY <1>6, <1>7

\* Steps of the environment.
LEMMA OtherEInv ==
  ASSUME EInv, IInv', FirmwareReset \/ LeaseLapses \/ Takeover \/ UNCHANGED vars
  PROVE  EInv'
  <1> USE DEF EInv
  <1>1. CASE FirmwareReset
    BY <1>1 DEF FirmwareReset, InStep, RefusalExplained
  <1>2. CASE UNCHANGED <<hostVars, down, up, applied, ruling, behind, prompt>>
    <2>1. UNCHANGED <<pending, answers, down, up, refused, leased, pc, ruling, behind, prompt>>
      BY <1>2 DEF hostVars
    <2>2. RefusalExplained'
      BY <2>1, ExplainedKeeps DEF IInv
    <2>3. InStep'
      BY <2>1, InStepSame DEF InStep, IInv
    <2> QED
      BY <2>2, <2>3
  <1> QED
    BY <1>1, <1>2 DEF LeaseLapses, Takeover, vars, fwVars

LEMMA NextEInv ==
  ASSUME CleanChannels, EInv, [Next]_vars
  PROVE  EInv'
  <1>0. IInv'
    BY NextIInv DEF EInv
  <1>1. ASSUME NEW r \in Requests, SubmitLease(r) \/ SubmitLeased(r) PROVE EInv'
    BY <1>0, <1>1, SubmitEInv
  <1>2. CASE SubmitSend
    BY <1>0, <1>2, SubmitSendEInv
  <1>3. CASE Polls
    BY <1>0, <1>3, PollEInv DEF Polls
  <1>4. CASE PollFrame
    BY <1>0, <1>4, PollFrameEInv
  <1>5. CASE PollEnds
    BY <1>0, <1>5, PollEndEInv DEF PollEnds
  <1>6. ASSUME NEW memory \in BOOLEAN, Close(memory) PROVE EInv'
    BY <1>0, <1>6, CloseEInv
  <1>7. CASE Connect
    BY <1>0, <1>7, ConnectEInv
  <1>8. CASE ServeLease \/ ServeRelease \/ ServeRequest
    BY <1>0, <1>8, ServeLeaseEInv, ServeReleaseEInv, ServeRequestEInv
  <1>9. CASE FirmwareReset \/ LeaseLapses \/ Takeover \/ UNCHANGED vars
    BY <1>0, <1>9, OtherEInv
  <1> QED
    BY <1>1, <1>2, <1>3, <1>4, <1>5, <1>6, <1>7, <1>8, <1>9 DEF Next

\* With no reply lost or late, a request refused for the lease is told rightly
\* whether another tool holds it: the host has read exactly the rulings that
\* went before the refusal.
THEOREM RefusalsExplained ==
  ASSUME CleanChannels
  PROVE  Spec => []RefusalExplained
  <1>1. Init => EInv
    <2> SUFFICES ASSUME Init PROVE EInv
      OBVIOUS
    <2>1. DownSlots = {} /\ UpSlots = {} /\ Unruled
      BY DEF Init, DownSlots, UpSlots, Unruled
    <2>2. RefusalExplained
      BY DEF Init, RefusalExplained
    <2> QED
      BY <2>1, <2>2, InitIInv DEF EInv, InStep
  <1>2. EInv /\ [Next]_vars => EInv'
    BY NextEInv
  <1>3. EInv => RefusalExplained
    BY DEF EInv
  <1> QED
    BY <1>1, <1>2, <1>3, PTL DEF Spec
==============================================================================
