--------------------------- MODULE LinkSessionProofs ---------------------------
(***************************************************************************)
(* A session over the framed link, for any requests, watch sets, polls,    *)
(* modulus and bounds: its rows reach the sink, its losses are counted,    *)
(* and it leaves nothing behind when it stops.  LinkContractProofs has     *)
(* what rests on the numbers of the frames.                                *)
(***************************************************************************)
EXTENDS LinkSession, TLAPS

Pcs == {"drain", "read", "tick", "expire", "ending", "closed", "cut"}
Polled == {"LEASE", "READ", "STATS", "RELEASE"}
Wanted == WatchSets \union {<<>>}
SetsSent == {Subs(w) : w \in Wanted} \union {<<>>}
Watches == [kind : {"WATCH"}, set : SetsSent, period : 0 .. MaxPeriod]
Asks == Watches \union [kind : {"REQUEST"}, request : Requests] \union [kind : Polled]
Rows == [kind : {"SAMPLE"}, set : SetsSent]
DownFrame == [seq : Seqs, what : Asks]
Statuses == {"ok", "budget", "busy", "refused", "lost"}
UpFrame == [seq : Seqs, what : Asks, status : Statuses] \union [seq : Nat, what : Rows, status : Statuses]
IsReply(f) == f.what.kind # "SAMPLE"

Over == pc \in {"closed", "cut"}

Types ==
  /\ pc \in Pcs
  /\ seq \in 0 .. MaxSeq /\ (~Over => seq <= MaxSeq - 2)
  /\ pending \in [Seqs -> Asks \union {Nothing}]
  /\ wanted \in Wanted /\ asked \in Periods
  /\ active \in SetsSent /\ period \in 0 .. MaxPeriod
  /\ lastSample \in Nat \union {-1}
  /\ missed \in Nat /\ batch \in Nat /\ recorded \in Nat /\ sunk \in Nat /\ sampled \in Nat
  /\ gap \in [counted : Nat, since : Nat]
  /\ down \in Seq(DownFrame) /\ up \in Seq(UpFrame)
  /\ watch \in [set : SetsSent, period : 0 .. MaxPeriod]
  /\ applied \in [Requests -> Nat]

------------------------------------------------------------------------------
(* Queues *)

LEMMA HeadAndTail ==
  ASSUME NEW S, NEW q \in Seq(S), q # <<>>
  PROVE  /\ Head(q) \in S /\ Head(q) = q[1] /\ Len(q) \in Nat \ {0}
         /\ Tail(q) \in Seq(S) /\ Len(Tail(q)) = Len(q) - 1
         /\ \A i \in 1 .. Len(q) - 1 : Tail(q)[i] = q[i + 1]
  OBVIOUS

LEMMA FirstOnes ==
  ASSUME NEW S, NEW q \in Seq(S), NEW n \in 1 .. Len(q)
  PROVE  /\ SubSeq(q, 1, n) \in Seq(S) /\ Len(SubSeq(q, 1, n)) = n
         /\ \A i \in 1 .. n : SubSeq(q, 1, n)[i] = q[i]
  OBVIOUS

------------------------------------------------------------------------------
(* Frames and what they ask for *)

LEMMA WhatTypes ==
  /\ \A x \in Asks \union {Nothing} : /\ x.kind = "WATCH" => x \in Watches
                                      /\ x.kind = "REQUEST" => x.request \in Requests /\ x = Tuning(x.request)
  /\ \A x \in Asks : x.kind \notin {"SAMPLE", "nothing"} /\ x # Nothing
  /\ \A x \in Rows : x.kind = "SAMPLE" /\ x.set \in SetsSent
  /\ \A r \in Requests : Tuning(r) \in Asks /\ Tuning(r).kind = "REQUEST" /\ Tuning(r).request = r
  /\ \A k \in Polled : Plain(k) \in Asks /\ Plain(k).kind = k
  /\ Nothing.kind = "nothing"
  /\ \A x \in Watches : x \in Asks /\ x.kind = "WATCH" /\ x.set \in SetsSent /\ x.period \in 0 .. MaxPeriod
  BY DEF Asks, Watches, Rows, Nothing, Plain, Tuning, Polled

LEMMA UpTypes ==
  ASSUME NEW f \in UpFrame
  PROVE  /\ f.status \in Statuses
         /\ IsReply(f) => f.seq \in Seqs /\ f.what \in Asks
         /\ ~IsReply(f) => f.seq \in Nat /\ f.what \in Rows
  BY WhatTypes DEF UpFrame, IsReply

LEMMA SubscriptionType ==
  ASSUME NEW w \in Wanted, NEW p \in 0 .. MaxPeriod
  PROVE  Subscription(w, p) \in Watches
  <1>1. Subs(w) \in SetsSent /\ <<>> \in SetsSent
    BY DEF SetsSent
  <1> QED
    BY <1>1, LinkAssumption DEF Subscription, Watch, Watches

LEMMA SlowerType ==
  ASSUME Types, NEW x \in Watches
  PROVE  Slower(x) \in Watches
  <1>1. Smaller(2 * x.period, MaxPeriod) \in 0 .. MaxPeriod
    BY LinkAssumption DEF Watches, Smaller
  <1> QED
    BY <1>1, SubscriptionType DEF Slower, Types

\* The frames for w behind those of d, numbered from n + 1 on.
Behind(d, n, w) == d \o [i \in 1 .. Len(w) |-> [seq |-> n + i, what |-> w[i]]]
\* What waits for a reply then.
Waits(p, n, w) == [s \in Seqs |-> IF s - n \in 1 .. Len(w) THEN w[s - n] ELSE p[s]]

LEMMA BehindIs ==
  ASSUME NEW d \in Seq(DownFrame), NEW n \in Nat, NEW w \in Seq(Asks), n + Len(w) <= MaxSeq
  PROVE  /\ Behind(d, n, w) \in Seq(DownFrame)
         /\ Len(Behind(d, n, w)) = Len(d) + Len(w)
         /\ \A i \in 1 .. Len(d) : Behind(d, n, w)[i] = d[i]
         /\ \A i \in 1 .. Len(w) : Behind(d, n, w)[Len(d) + i] = [seq |-> n + i, what |-> w[i]]
  <1> DEFINE f == [i \in 1 .. Len(w) |-> [seq |-> n + i, what |-> w[i]]]
  <1>1. \A i \in 1 .. Len(w) : [seq |-> n + i, what |-> w[i]] \in DownFrame
    BY LinkAssumption DEF DownFrame, Seqs
  <1>2. f \in Seq(DownFrame) /\ Len(f) = Len(w)
    BY <1>1
  <1>3. \A i \in 1 .. Len(w) : f[i] = [seq |-> n + i, what |-> w[i]]
    OBVIOUS
  <1> HIDE DEF f
  <1>4. /\ d \o f \in Seq(DownFrame) /\ Len(d \o f) = Len(d) + Len(w)
        /\ \A i \in 1 .. Len(d) : (d \o f)[i] = d[i]
        /\ \A i \in 1 .. Len(w) : (d \o f)[Len(d) + i] = f[i]
    BY <1>2
  <1> QED
    BY <1>3, <1>4 DEF Behind, f

LEMMA WaitsIs ==
  ASSUME NEW p \in [Seqs -> Asks \union {Nothing}], NEW n \in Nat, NEW w \in Seq(Asks), n + Len(w) <= MaxSeq
  PROVE  /\ Waits(p, n, w) \in [Seqs -> Asks \union {Nothing}]
         /\ \A i \in 1 .. Len(w) : n + i \in Seqs /\ Waits(p, n, w)[n + i] = w[i]
         /\ \A s \in Seqs : s <= n => Waits(p, n, w)[s] = p[s]
         /\ \A s \in Seqs : n + Len(w) < s => Waits(p, n, w)[s] = p[s]
         /\ \A s \in Seqs : n < s /\ s <= n + Len(w) => s - n \in 1 .. Len(w) /\ Waits(p, n, w)[s] = w[s - n]
  BY LinkAssumption DEF Waits, Seqs

\* What a step sends, and what waits for a reply then.  A number may be used up
\* with nothing sent.
Sending(w) ==
  /\ down' = Behind(down, seq, w)
  /\ pending' = Waits(pending, seq, w)
  /\ seq' \in seq + Len(w) .. MaxSeq - 2

LEMMA RequestSends ==
  ASSUME Types, NEW w \in Seq(Asks), Request(w)
  PROVE  Sending(w)
  BY LinkAssumption DEF Types, Request, Written, Frames, Behind, Waits, Sending, Seqs

LEMMA WriteFailsSends ==
  ASSUME Types, NEW w \in Seq(Asks), WriteFails(w)
  PROVE  /\ Front(w) \in Seq(Asks) /\ \A i \in 1 .. Len(Front(w)) : i \in 1 .. Len(w) /\ Front(w)[i] = w[i]
         /\ Sending(Front(w)) /\ pc' = "ending"
  <1>1. /\ Front(w) \in Seq(Asks) /\ Len(Front(w)) <= Len(w)
        /\ \A i \in 1 .. Len(Front(w)) : i \in 1 .. Len(w) /\ Front(w)[i] = w[i]
    BY DEF Front
  <1>2. Sending(Front(w)) /\ pc' = "ending"
    <2> PICK v \in Seq(Asks) : v = Front(w) /\ Len(v) <= Len(w)
      BY <1>1
    <2>1. Written(v) /\ seq' = seq + Len(w) /\ seq + Len(w) <= MaxSeq - 2 /\ pc' = "ending"
      BY DEF WriteFails
    <2>2. seq \in Nat /\ Len(v) \in Nat /\ Len(w) \in Nat /\ MaxSeq \in Nat
      BY LinkAssumption DEF Types
    <2>3. seq' \in seq + Len(v) .. MaxSeq - 2
      BY <2>1, <2>2
    <2>4. down' = Behind(down, seq, v) /\ pending' = Waits(pending, seq, v)
      BY <2>1 DEF Written, Frames, Behind, Waits
    <2> QED
      BY <2>1, <2>3, <2>4 DEF Sending
  <1> QED
    BY <1>1, <1>2

\* What the tickers send is no tuning request.
LEMMA DueTypes ==
  ASSUME NEW due
  PROVE  LET w == Due("LEASE", due) \o Due("READ", due) \o Due("STATS", due)
         IN  w \in Seq(Asks) /\ \A i \in 1 .. Len(w) : w[i].kind \in Polled
  <1> DEFINE P == [kind : Polled]
             w == Due("LEASE", due) \o Due("READ", due) \o Due("STATS", due)
  <1>1. ASSUME NEW k \in Polled PROVE Due(k, due) \in Seq(P)
    <2>1. Plain(k) \in P
      BY DEF Plain
    <2> HIDE DEF P
    <2>2. <<>> \in Seq(P) /\ <<Plain(k)>> \in Seq(P)
      BY <2>1
    <2> QED
      BY <2>2 DEF Due
  <1>2. w \in Seq(P)
    BY <1>1 DEF Polled
  <1>3. \A x \in P : x.kind \in Polled /\ x \in Asks
    BY DEF Asks
  <1> HIDE DEF w, P
  <1>4. \A i \in 1 .. Len(w) : w[i] \in P
    BY <1>2
  <1>5. w \in Seq(Asks)
    BY <1>2, <1>3
  <1> QED
    BY <1>3, <1>4, <1>5 DEF w

\* Watch commands and tickers.
Unasked == SetCellWatches \/ SetRate \/ Ticks

LEMMA UnaskedIs ==
  ASSUME Types, Unasked
  PROVE  /\ \E w \in Seq(Asks) : Sending(w) /\ \A i \in 1 .. Len(w) : w[i].kind # "REQUEST"
         /\ UNCHANGED <<setVars, rowVars, fwVars, answers, up>>
         /\ pc \in {"drain", "tick"} /\ pc' \in {"drain", "expire", "ending"}
         /\ wanted' \in Wanted /\ asked' \in Periods
  <1>1. ASSUME NEW w \in Wanted, NEW p \in Periods, Subscribe(w, p)
        PROVE  /\ \E v \in Seq(Asks) : Sending(v) /\ \A i \in 1 .. Len(v) : v[i].kind # "REQUEST"
               /\ pc' \in {"drain", "ending"}
    <2> DEFINE x == Subscription(w, p)
    <2>1. x \in Asks /\ x.kind = "WATCH"
      BY SubscriptionType, LinkAssumption, WhatTypes
    <2>2. (Request(<<x>>) /\ UNCHANGED pc) \/ WriteFails(<<x>>)
      BY <1>1 DEF Subscribe
    <2>3. pc = "drain"
      BY <1>1 DEF Subscribe
    <2> HIDE DEF x
    <2>4. <<x>> \in Seq(Asks) /\ \A i \in 1 .. Len(<<x>>) : <<x>>[i].kind # "REQUEST"
      BY <2>1
    <2>5. CASE Request(<<x>>) /\ UNCHANGED pc
      BY <2>3, <2>4, <2>5, RequestSends
    <2>6. CASE WriteFails(<<x>>)
      <3> PICK v : v = Front(<<x>>)
        OBVIOUS
      <3>1. /\ v \in Seq(Asks) /\ Sending(v) /\ pc' = "ending"
            /\ \A i \in 1 .. Len(v) : i \in 1 .. Len(<<x>>) /\ v[i] = <<x>>[i]
        BY <2>4, <2>6, WriteFailsSends
      <3> QED
        BY <2>4, <3>1
    <2> QED
      BY <2>2, <2>5, <2>6
  <1>2. ASSUME NEW due, Tick(due)
        PROVE  /\ \E v \in Seq(Asks) : Sending(v) /\ \A i \in 1 .. Len(v) : v[i].kind # "REQUEST"
               /\ pc' \in {"expire", "ending"}
    <2> PICK w : w = Due("LEASE", due) \o Due("READ", due) \o Due("STATS", due)
      OBVIOUS
    <2>1. w \in Seq(Asks) /\ \A i \in 1 .. Len(w) : w[i].kind # "REQUEST"
      BY DueTypes DEF Polled
    <2>2. (Request(w) /\ pc' = "expire") \/ \E n \in 1 .. Len(w) : WriteFails(SubSeq(w, 1, n))
      BY <1>2 DEF Tick
    <2>3. CASE Request(w) /\ pc' = "expire"
      BY <2>1, <2>3, RequestSends
    <2>4. ASSUME NEW n \in 1 .. Len(w), WriteFails(SubSeq(w, 1, n))
          PROVE  /\ \E v \in Seq(Asks) : Sending(v) /\ \A i \in 1 .. Len(v) : v[i].kind # "REQUEST"
                 /\ pc' = "ending"
      <3> PICK v : v = SubSeq(w, 1, n)
        OBVIOUS
      <3>1. v \in Seq(Asks) /\ \A i \in 1 .. Len(v) : v[i].kind # "REQUEST"
        <4>1. v \in Seq(Asks) /\ Len(v) = n /\ \A i \in 1 .. n : v[i] = w[i]
          BY <2>1, FirstOnes
        <4>2. Len(w) \in Nat /\ n <= Len(w)
          BY <2>1
        <4> QED
          BY <2>1, <4>1, <4>2
      <3>2. WriteFails(v)
        BY <2>4
      <3> PICK u : u = Front(v)
        OBVIOUS
      <3>3. /\ u \in Seq(Asks) /\ Sending(u) /\ pc' = "ending"
            /\ \A i \in 1 .. Len(u) : i \in 1 .. Len(v) /\ u[i] = v[i]
        BY <3>1, <3>2, WriteFailsSends
      <3>4. ASSUME NEW i \in 1 .. Len(u) PROVE u[i].kind # "REQUEST"
        BY <3>1, <3>3
      <3> QED
        BY <3>3, <3>4
    <2> QED
      BY <2>2, <2>3, <2>4
  <1>3. CASE \E due \in SUBSET Polls : Tick(due)
    BY <1>2, <1>3 DEF Tick, Types, askVars
  <1>4. CASE \E w \in Wanted, p \in Periods : Subscribe(w, p)
    BY <1>1, <1>4 DEF Subscribe
  <1> QED
    BY <1>3, <1>4 DEF Unasked, SetCellWatches, SetRate, Ticks, Types, Wanted

LEMMA SendingTypes ==
  ASSUME Types, ~Over, NEW w \in Seq(Asks), Sending(w)
  PROVE  /\ seq' \in 0 .. MaxSeq /\ seq' <= MaxSeq - 2
         /\ down' \in Seq(DownFrame) /\ pending' \in [Seqs -> Asks \union {Nothing}]
  <1>1. seq \in Nat /\ seq + Len(w) <= MaxSeq /\ seq' \in 0 .. MaxSeq /\ seq' <= MaxSeq - 2
    BY LinkAssumption DEF Types, Sending
  <1> QED
    BY <1>1, BehindIs, WaitsIs DEF Types, Sending

LEMMA SubmitIs ==
  ASSUME Types, NEW r \in Requests, Submit(r)
  PROVE  /\ Fresh(r) /\ UNCHANGED <<askVars, setVars, rowVars, fwVars, up>> /\ pc = "drain"
         /\ \/ Sending(<<Tuning(r)>>) /\ UNCHANGED <<pc, answers>>
            \/ Answer(r, "invalid") /\ UNCHANGED <<pc, sendVars>>
            \/ Sending(<<>>) /\ Answer(r, "dropped") /\ pc' = "ending"
         /\ <<Tuning(r)>> \in Seq(Asks) /\ <<>> \in Seq(Asks)
  <1>1. <<Tuning(r)>> \in Seq(Asks) /\ <<>> \in Seq(Asks)
    BY WhatTypes
  <1>2. WriteFails(<<Tuning(r)>>) => Sending(<<>>) /\ pc' = "ending"
    <2>1. Front(<<Tuning(r)>>) = <<>>
      BY DEF Front
    <2> QED
      BY <1>1, <2>1, WriteFailsSends
  <1> QED
    BY <1>1, <1>2, RequestSends DEF Submit

Taken(f) == [pending EXCEPT ![f.seq] = Nothing]

LEMMA OnReplyIs ==
  ASSUME Types, OnReply
  PROVE  \E f \in UpFrame :
           /\ f = Head(up) /\ IsReply(f) /\ up # <<>> /\ up' = Tail(up) /\ pc = "read"
           /\ Answered(pending[f.seq], f.status)
           /\ \/ pending[f.seq].kind = "WATCH" /\ f.status = "ok" /\ Confirmed(pending[f.seq])
              \/ ~(pending[f.seq].kind = "WATCH" /\ f.status = "ok") /\ UNCHANGED setVars
           /\ \E w \in Seq(Asks) :
                /\ down' = Behind(down, seq, w) /\ pending' = Waits(Taken(f), seq, w)
                /\ seq' \in seq + Len(w) .. MaxSeq - 2
                /\ \A i \in 1 .. Len(w) : w[i].kind = "WATCH"
           /\ UNCHANGED <<pc, askVars, rowVars, fwVars>>
  <1> PICK f \in UpFrame : f = Head(up)
    BY DEF OnReply, Types
  <1> PICK x \in Asks \union {Nothing} : x = pending[f.seq]
    BY UpTypes DEF OnReply, Types, IsReply
  <1>1. /\ up # <<>> /\ up' = Tail(up) /\ pc = "read" /\ IsReply(f) /\ UNCHANGED <<pc, askVars, rowVars, fwVars>>
        /\ Answered(x, f.status)
        /\ IF x.kind = "WATCH" /\ f.status = "ok" THEN Confirmed(x) ELSE UNCHANGED setVars
        /\ \/ pending' = Taken(f) /\ UNCHANGED <<seq, down>>
           \/ /\ x.kind = "WATCH" /\ seq < MaxSeq - 2 /\ seq' = seq + 1
              /\ down' = down \o Frames(<<Slower(x)>>)
              /\ pending' = [Taken(f) EXCEPT ![seq + 1] = Slower(x)]
           \/ seq < MaxSeq - 2 /\ seq' = seq + 1 /\ pending' = Taken(f) /\ UNCHANGED down
    BY DEF OnReply, Taker, Taken, IsReply
  <1>2. f.seq \in Seqs /\ seq \in Nat /\ seq <= MaxSeq - 2 /\ MaxSeq \in Nat
    <2>1. f.seq \in Seqs
      BY <1>1, UpTypes
    <2>2. ~Over
      BY <1>1 DEF Over
    <2> QED
      BY <2>1, <2>2, LinkAssumption DEF Types
  <1>3. Taken(f) \in [Seqs -> Asks \union {Nothing}]
    BY <1>2 DEF Types, Taken
  <1>4. /\ <<>> \in Seq(Asks) /\ Behind(down, seq, <<>>) = down /\ Waits(Taken(f), seq, <<>>) = Taken(f)
    BY <1>3 DEF Behind, Waits, Types
  <1>5. \E w \in Seq(Asks) :
                /\ down' = Behind(down, seq, w) /\ pending' = Waits(Taken(f), seq, w)
                /\ seq' \in seq + Len(w) .. MaxSeq - 2
                /\ \A i \in 1 .. Len(w) : w[i].kind = "WATCH"
    <2>1. CASE pending' = Taken(f) /\ UNCHANGED down /\ seq' \in seq .. MaxSeq - 2
      <3> PICK w : w = <<>>
        OBVIOUS
      <3>1. /\ w \in Seq(Asks) /\ Len(w) = 0 /\ \A i \in 1 .. Len(w) : w[i].kind = "WATCH"
            /\ down' = Behind(down, seq, w) /\ pending' = Waits(Taken(f), seq, w)
        BY <1>4, <2>1
      <3>2. seq' \in seq + Len(w) .. MaxSeq - 2
        BY <1>2, <2>1, <3>1
      <3> QED
        BY <3>1, <3>2
    <2>2. CASE /\ x.kind = "WATCH" /\ seq < MaxSeq - 2 /\ seq' = seq + 1
               /\ down' = down \o Frames(<<Slower(x)>>)
               /\ pending' = [Taken(f) EXCEPT ![seq + 1] = Slower(x)]
      <3>1. Slower(x) \in Watches
        BY <2>2, SlowerType, WhatTypes
      <3> PICK y : y = Slower(x)
        OBVIOUS
      <3>2. <<y>> \in Seq(Asks) /\ Len(<<y>>) = 1 /\ <<y>>[1] = y /\ y.kind = "WATCH"
        BY <3>1, WhatTypes
      <3>3. down' = Behind(down, seq, <<y>>)
        BY <2>2 DEF Behind, Frames
      <3>4. pending' = Waits(Taken(f), seq, <<y>>)
        BY <1>2, <1>3, <2>2, <3>2 DEF Waits, Seqs
      <3> PICK w : w = <<y>>
        OBVIOUS
      <3>5. /\ w \in Seq(Asks) /\ Len(w) = 1 /\ \A i \in 1 .. Len(w) : w[i].kind = "WATCH"
            /\ down' = Behind(down, seq, w) /\ pending' = Waits(Taken(f), seq, w)
        BY <3>2, <3>3, <3>4
      <3>6. seq' \in seq + Len(w) .. MaxSeq - 2
        BY <1>2, <2>2, <3>5
      <3> QED
        BY <3>5, <3>6
    <2>3. seq' = seq => seq' \in seq .. MaxSeq - 2
      BY <1>2
    <2>4. seq < MaxSeq - 2 /\ seq' = seq + 1 => seq' \in seq .. MaxSeq - 2
      BY <1>2
    <2> QED
      BY <1>1, <2>1, <2>2, <2>3, <2>4, Zenon
  <1> QED
    BY <1>1, <1>5

\* The farewell, or a part of it, behind everything else.
LEMMA EndIs ==
  ASSUME Types, End
  PROVE  /\ pc = "ending" /\ pc' \in {"closed", "cut"} /\ Flush /\ AnswerAll(Seqs, "closed")
         /\ pending' = [s \in Seqs |-> Nothing] /\ seq' = seq + 2 /\ seq <= MaxSeq - 2
         /\ UNCHANGED <<askVars, active, period, lastSample, gap, rowVars, fwVars, up>>
         /\ down' \in Seq(DownFrame) /\ Len(down') >= Len(down)
         /\ \A i \in 1 .. Len(down) : down'[i] = down[i]
         /\ \A i \in 1 .. Len(down') : i > Len(down) => /\ down'[i].seq \in {seq + 1, seq + 2}
                                                        /\ down'[i].what.kind # "REQUEST"
         /\ \A i, j \in 1 .. Len(down') : i > Len(down) /\ j > i => down'[i].seq < down'[j].seq
         /\ pc' = "closed" => /\ Len(down') = Len(down) + 2
                              /\ down'[Len(down) + 1].what = Watch(<<>>, 0)
                              /\ down'[Len(down) + 2].what = Plain("RELEASE")
  <1> PICK g : g = Farewell
    OBVIOUS
  <1>1. Watch(<<>>, 0) \in Asks /\ Plain("RELEASE") \in Asks
    BY LinkAssumption DEF Watch, Plain, Asks, Watches, SetsSent, Polled
  <1>2. g \in Seq(Asks) /\ Len(g) = 2 /\ g[1] = Watch(<<>>, 0) /\ g[2] = Plain("RELEASE")
    BY <1>1 DEF Farewell
  <1>3. g[1].kind = "WATCH" /\ g[2].kind = "RELEASE"
    BY <1>2 DEF Watch, Plain
  <1>4. /\ pc = "ending" /\ pc' \in {"closed", "cut"} /\ Flush /\ AnswerAll(Seqs, "closed")
        /\ pending' = [s \in Seqs |-> Nothing] /\ seq' = seq + 2 /\ seq <= MaxSeq - 2 /\ seq \in Nat
        /\ UNCHANGED <<askVars, active, period, lastSample, gap, rowVars, fwVars, up>>
        /\ \/ pc' = "closed" /\ down' = down \o Frames(g)
           \/ pc' = "cut" /\ down' = down
           \/ pc' = "cut" /\ \E i \in 1 .. 2 : down' = Append(down, Frames(g)[i])
    BY <1>2 DEF End, Types, Over
  <1>5. down \in Seq(DownFrame)
    BY DEF Types
  <1>6. CASE pc' = "closed" /\ down' = down \o Frames(g)
    <2>1. down' = Behind(down, seq, g)
      BY <1>6 DEF Behind, Frames
    <2>2. /\ down' \in Seq(DownFrame) /\ Len(down') = Len(down) + 2
          /\ \A i \in 1 .. Len(down) : down'[i] = down[i]
          /\ down'[Len(down) + 1] = [seq |-> seq + 1, what |-> g[1]]
          /\ down'[Len(down) + 2] = [seq |-> seq + 2, what |-> g[2]]
      <3> PICK b : b = Behind(down, seq, g)
        OBVIOUS
      <3>1. /\ b \in Seq(DownFrame) /\ Len(b) = Len(down) + Len(g)
            /\ \A i \in 1 .. Len(down) : b[i] = down[i]
            /\ \A i \in 1 .. Len(g) : b[Len(down) + i] = [seq |-> seq + i, what |-> g[i]]
        <4>1. seq + Len(g) <= MaxSeq
          BY <1>2, <1>4, LinkAssumption
        <4> QED
          BY <1>2, <1>4, <1>5, <4>1, BehindIs
      <3>2. b = down' /\ 1 \in 1 .. Len(g) /\ 2 \in 1 .. Len(g)
        BY <1>2, <2>1
      <3> QED
        BY <1>2, <3>1, <3>2
    <2>3. \A i \in 1 .. Len(down') : i > Len(down) => i \in {Len(down) + 1, Len(down) + 2}
      BY <1>5, <2>2
    <2>4. \A i \in 1 .. Len(down') : i > Len(down) => /\ down'[i].seq \in {seq + 1, seq + 2}
                                                      /\ down'[i].what.kind # "REQUEST"
      BY <1>3, <2>2, <2>3
    <2>5. ASSUME NEW i \in 1 .. Len(down'), NEW j \in 1 .. Len(down'), i > Len(down), j > i
          PROVE  down'[i].seq < down'[j].seq
      <3>1. i = Len(down) + 1 /\ j = Len(down) + 2
        BY <1>5, <2>3, <2>5
      <3> QED
        BY <1>4, <2>2, <3>1
    <2> QED
      BY <1>2, <1>4, <2>2, <2>4, <2>5
  <1>7. CASE pc' = "cut" /\ down' = down
    BY <1>4, <1>5, <1>7
  <1>8. ASSUME NEW k \in 1 .. 2, pc' = "cut", down' = Append(down, Frames(g)[k])
        PROVE  /\ down' \in Seq(DownFrame) /\ Len(down') >= Len(down)
               /\ \A i \in 1 .. Len(down) : down'[i] = down[i]
               /\ \A i \in 1 .. Len(down') : i > Len(down) => /\ down'[i].seq \in {seq + 1, seq + 2}
                                                              /\ down'[i].what.kind # "REQUEST"
               /\ \A i, j \in 1 .. Len(down') : i > Len(down) /\ j > i => down'[i].seq < down'[j].seq
    <2> PICK f : f = Frames(g)[k]
      OBVIOUS
    <2>1. f = [seq |-> seq + k, what |-> g[k]]
      BY <1>2 DEF Frames
    <2>2. f \in DownFrame /\ f.seq \in {seq + 1, seq + 2} /\ f.what.kind # "REQUEST"
      <3>1. k \in {1, 2} /\ seq + k \in Seqs
        BY <1>4, LinkAssumption DEF Seqs
      <3>2. g[k] \in Asks /\ g[k].kind # "REQUEST"
        BY <1>2, <1>3
      <3> QED
        BY <1>4, <2>1, <3>1, <3>2 DEF DownFrame
    <2>3. down' \in Seq(DownFrame) /\ Len(down') = Len(down) + 1 /\ down'[Len(down) + 1] = f
          /\ \A i \in 1 .. Len(down) : down'[i] = down[i]
      BY <1>5, <1>8, <2>2
    <2> QED
      BY <1>5, <2>2, <2>3
  <1> QED
    BY <1>4, <1>6, <1>7, <1>8

\* The rest of the loop: from one part to the next.
Turns == Stop \/ Drained \/ ReadEnds \/ ReadFails

LEMMA TurnsIs ==
  ASSUME Turns
  PROVE  /\ UNCHANGED <<sendVars, askVars, setVars, rowVars, fwVars, answers, up>>
         /\ pc \in {"drain", "read"} /\ pc' \in {"ending", "read", "tick"}
  BY DEF Turns, Stop, Drained, ReadEnds, ReadFails, Goto

LEMMA ExpireIs ==
  ASSUME Expires
  PROVE  \E late \in SUBSET Seqs :
           /\ \A s \in late : Late(s)
           /\ pc = "expire" /\ pc' = "drain"
           /\ Flush \/ UNCHANGED <<sunk, batch>>
           /\ AnswerAll(late, "late") /\ Forget(late)
           /\ UNCHANGED <<seq, down, askVars, active, period, lastSample, gap, rowVars, fwVars, up>>
  BY DEF Expires, Expire, Waiting

\* A frame is served: its reply goes behind the others.
LEMMA ServeIs ==
  ASSUME Types, Serve
  PROVE  \E f \in DownFrame : \E status \in Statuses :
           /\ down # <<>> /\ f = Head(down) /\ down' = Tail(down)
           /\ up' = Append(up, [seq |-> f.seq, what |-> f.what, status |-> status])
           /\ [seq |-> f.seq, what |-> f.what, status |-> status] \in UpFrame
           /\ UNCHANGED <<pc, seq, pending, askVars, setVars, rowVars, sampled, answers>>
           /\ f.what.kind # "REQUEST" => applied' = applied
           /\ f.what.kind = "REQUEST" =>
                \/ status = "ok" /\ applied' = [applied EXCEPT ![f.what.request] = @ + 1]
                \/ status \in {"refused", "lost"} /\ applied' = applied
           /\ f.what.kind = "WATCH" =>
                \/ status = "ok" /\ watch' = [set |-> f.what.set, period |-> f.what.period]
                \/ status = "budget" /\ watch' = watch /\ ~Affords(f.what.set, f.what.period)
           /\ f.what.kind # "WATCH" => watch' = watch
           /\ f.what.kind = "RELEASE" => holder' = IF holder = "us" THEN "none" ELSE holder
           /\ f.what.kind # "LEASE" /\ holder # "us" => holder' # "us"
  <1> PICK f \in DownFrame : f = Head(down) /\ down # <<>>
    BY DEF Types, Serve, ServePoll, ServeRelease, ServeWatch, ServeRequest, Served
  <1>1. f.seq \in Seqs /\ f.what \in Asks
    BY DEF DownFrame
  <1>2. \A status \in Statuses : [seq |-> f.seq, what |-> f.what, status |-> status] \in UpFrame
    BY <1>1 DEF UpFrame
  <1>3. {"ok", "budget", "busy", "refused", "lost"} \subseteq Statuses
    BY DEF Statuses
  <1>4. CASE ServePoll \/ ServeRelease
    <2>1. \E status \in {"ok", "busy"} :
            /\ down' = Tail(down)
            /\ up' = Append(up, [seq |-> f.seq, what |-> f.what, status |-> status])
            /\ UNCHANGED <<pc, seq, pending, askVars, setVars, rowVars, sampled, answers, applied, watch>>
            /\ f.what.kind \in {"LEASE", "READ", "STATS", "RELEASE"}
            /\ f.what.kind = "RELEASE" => holder' = IF holder = "us" THEN "none" ELSE holder
            /\ f.what.kind # "LEASE" /\ holder # "us" => holder' # "us"
      BY <1>4 DEF ServePoll, ServeRelease, Served, Reply
    <2> QED
      BY <1>2, <1>3, <2>1
  <1>5. CASE ServeWatch
    <2>1. \E status \in {"ok", "budget"} :
            /\ down' = Tail(down)
            /\ up' = Append(up, [seq |-> f.seq, what |-> f.what, status |-> status])
            /\ UNCHANGED <<pc, seq, pending, askVars, setVars, rowVars, sampled, answers, applied, holder>>
            /\ f.what.kind = "WATCH"
            /\ \/ status = "ok" /\ watch' = [set |-> f.what.set, period |-> f.what.period]
               \/ status = "budget" /\ watch' = watch /\ ~Affords(f.what.set, f.what.period)
      BY <1>5 DEF ServeWatch, Served, Reply
    <2> QED
      BY <1>2, <1>3, <2>1
  <1>6. CASE ServeRequest
    <2>1. \E status \in {"ok", "refused", "lost"} :
            /\ down' = Tail(down)
            /\ up' = Append(up, [seq |-> f.seq, what |-> f.what, status |-> status])
            /\ UNCHANGED <<pc, seq, pending, askVars, setVars, rowVars, sampled, answers, watch, holder>>
            /\ f.what.kind = "REQUEST"
            /\ \/ status = "ok" /\ applied' = [applied EXCEPT ![f.what.request] = @ + 1]
               \/ status \in {"refused", "lost"} /\ applied' = applied
      BY <1>6 DEF ServeRequest, Served, Reply
    <2> QED
      BY <1>2, <1>3, <2>1
  <1> QED
    BY <1>4, <1>5, <1>6 DEF Serve

\* The frames of a row, and what is lost.
LEMMA SampleIs ==
  ASSUME Types, Sample
  PROVE  \E f \in UpFrame :
           /\ ~IsReply(f) /\ f.seq = sampled % Modulus /\ f.what.set = watch.set
           /\ up' = Append(up, f) /\ sampled' = sampled + 1
           /\ UNCHANGED <<pc, sendVars, askVars, setVars, rowVars, holder, watch, applied, answers>>
  <1> DEFINE f == [seq |-> sampled % Modulus, what |-> [kind |-> "SAMPLE", set |-> watch.set], status |-> "ok"]
  <1>1. sampled % Modulus \in Nat
    BY LinkAssumption DEF Types
  <1>2. [kind |-> "SAMPLE", set |-> watch.set] \in Rows
    BY DEF Rows, Types
  <1>3. f \in UpFrame /\ ~IsReply(f)
    BY <1>1, <1>2 DEF UpFrame, Statuses, IsReply
  <1> QED
    BY <1>3 DEF Sample

LEMMA OnSampleIs ==
  ASSUME Types, OnSample
  PROVE  \E f \in UpFrame :
           /\ ~IsReply(f) /\ f = Head(up) /\ up # <<>> /\ up' = Tail(up) /\ pc = "read"
           /\ \/ /\ missed' = missed + IF lastSample = -1 THEN 0 ELSE (f.seq - lastSample - 1) % Modulus
                 /\ lastSample' = f.seq /\ batch' = batch + 1 /\ recorded' = recorded + 1
                 /\ row' = [sampled |-> f.what.set, taken |-> active]
                 /\ gap' = [counted |-> gap.counted + gap.since, since |-> 0]
              \/ /\ gap' = [gap EXCEPT !.since = IF lastSample = -1 THEN 0 ELSE @ + 1]
                 /\ UNCHANGED <<rowVars, lastSample, batch>>
           /\ UNCHANGED <<pc, sendVars, askVars, active, period, sunk, fwVars, answers>>
  <1>1. up # <<>> /\ up \in Seq(UpFrame)
    BY DEF OnSample, Types
  <1> PICK f \in UpFrame : f = Head(up)
    BY <1>1, HeadAndTail
  <1> QED
    BY DEF OnSample, IsReply

\* The other tools, and what is lost on the way to the firmware.
Elsewhere == LoseDown \/ LeaseLapses \/ Takeover

LEMMA NextIs ==
  ASSUME [Next]_vars
  PROVE  \/ Unasked \/ (\E r \in Requests : Submit(r)) \/ Turns \/ OnSample \/ OnReply
         \/ Expires \/ End \/ Serve \/ Sample \/ LoseUp \/ Elsewhere \/ UNCHANGED vars
  BY DEF Next, Unasked, Submits, Turns, Serve, Elsewhere

------------------------------------------------------------------------------
(* Types *)

LEMMA FlushTypes ==
  ASSUME Types, Flush \/ UNCHANGED <<sunk, batch>>
  PROVE  batch' \in Nat /\ sunk' \in Nat
  BY DEF Types, Flush

LEMMA OnReplyTypes ==
  ASSUME Types, OnReply
  PROVE  Types'
  <1> PICK f \in UpFrame :
           /\ f = Head(up) /\ IsReply(f) /\ up # <<>> /\ up' = Tail(up) /\ pc = "read"
           /\ Answered(pending[f.seq], f.status)
           /\ \/ pending[f.seq].kind = "WATCH" /\ f.status = "ok" /\ Confirmed(pending[f.seq])
              \/ ~(pending[f.seq].kind = "WATCH" /\ f.status = "ok") /\ UNCHANGED setVars
           /\ \E w \in Seq(Asks) :
                /\ down' = Behind(down, seq, w) /\ pending' = Waits(Taken(f), seq, w)
                /\ seq' \in seq + Len(w) .. MaxSeq - 2
                /\ \A i \in 1 .. Len(w) : w[i].kind = "WATCH"
           /\ UNCHANGED <<pc, askVars, rowVars, fwVars>>
    BY OnReplyIs
  <1> PICK w \in Seq(Asks) : /\ down' = Behind(down, seq, w) /\ pending' = Waits(Taken(f), seq, w)
                             /\ seq' \in seq + Len(w) .. MaxSeq - 2
    OBVIOUS
  <1>1. f.seq \in Seqs /\ pending[f.seq] \in Asks \union {Nothing}
    BY UpTypes DEF Types
  <1>2. Taken(f) \in [Seqs -> Asks \union {Nothing}]
    BY <1>1 DEF Types, Taken
  <1>3. seq \in Nat /\ seq + Len(w) <= MaxSeq /\ seq' \in 0 .. MaxSeq /\ seq' <= MaxSeq - 2
    <2>1. seq \in Nat /\ MaxSeq \in Nat /\ Len(w) \in Nat
      BY LinkAssumption DEF Types
    <2>2. seq' \in seq + Len(w) .. MaxSeq - 2
      OBVIOUS
    <2> QED
      BY <2>1, <2>2
  <1>4. down' \in Seq(DownFrame) /\ pending' \in [Seqs -> Asks \union {Nothing}]
    BY <1>2, <1>3, BehindIs, WaitsIs DEF Types
  <1>5. /\ active' \in SetsSent /\ period' \in 0 .. MaxPeriod /\ lastSample' \in Nat \union {-1}
        /\ batch' \in Nat /\ sunk' \in Nat /\ gap' \in [counted : Nat, since : Nat]
    <2>1. CASE UNCHANGED setVars
      BY <2>1 DEF Types, setVars
    <2>2. CASE pending[f.seq].kind = "WATCH" /\ Confirmed(pending[f.seq])
      <3>1. pending[f.seq].set \in SetsSent /\ pending[f.seq].period \in 0 .. MaxPeriod
        BY <1>1, <2>2, WhatTypes
      <3> PICK x : x = pending[f.seq]
        OBVIOUS
      <3>2. Flush /\ active' = x.set /\ period' = x.period /\ lastSample' = -1 /\ gap' = [gap EXCEPT !.since = 0]
        BY <2>2 DEF Confirmed
      <3>3. batch' \in Nat /\ sunk' \in Nat
        BY <3>2, FlushTypes
      <3> QED
        BY <3>1, <3>2, <3>3 DEF Types
    <2> QED
      BY <2>1, <2>2
  <1>6. up' \in Seq(UpFrame)
    BY DEF Types
  <1> QED
    BY <1>3, <1>4, <1>5, <1>6 DEF Types, Over, askVars, rowVars, fwVars

LEMMA StepTypes ==
  ASSUME Types, [Next]_vars
  PROVE  Types'
  <1>1. CASE Unasked
    <2>1. /\ \E w \in Seq(Asks) : Sending(w)
          /\ UNCHANGED <<setVars, rowVars, fwVars, answers, up>>
          /\ pc \in {"drain", "tick"} /\ pc' \in {"drain", "expire", "ending"}
          /\ wanted' \in Wanted /\ asked' \in Periods
      BY <1>1, UnaskedIs
    <2>2. ~Over /\ pc' \in Pcs
      BY <2>1 DEF Over, Pcs
    <2>3. seq' \in 0 .. MaxSeq /\ seq' <= MaxSeq - 2 /\ down' \in Seq(DownFrame)
          /\ pending' \in [Seqs -> Asks \union {Nothing}]
      BY <2>1, <2>2, SendingTypes
    <2> QED
      BY <2>1, <2>2, <2>3 DEF Types, setVars, rowVars, fwVars
  <1>2. ASSUME NEW r \in Requests, Submit(r) PROVE Types'
    <2>1. /\ UNCHANGED <<askVars, setVars, rowVars, fwVars, up>> /\ pc = "drain"
          /\ pc' \in {"drain", "ending"}
          /\ UNCHANGED sendVars \/ \E w \in Seq(Asks) : Sending(w)
      BY <1>2, SubmitIs
    <2>2. ~Over /\ pc' \in Pcs
      BY <2>1 DEF Over, Pcs
    <2>3. seq' \in 0 .. MaxSeq /\ seq' <= MaxSeq - 2 /\ down' \in Seq(DownFrame)
          /\ pending' \in [Seqs -> Asks \union {Nothing}]
      BY <2>1, <2>2, SendingTypes DEF Types, sendVars
    <2> QED
      BY <2>1, <2>2, <2>3 DEF Types, askVars, setVars, rowVars, fwVars
  <1>3. CASE Turns
    <2>1. /\ UNCHANGED <<sendVars, askVars, setVars, rowVars, fwVars, up>>
          /\ pc \in {"drain", "read"} /\ pc' \in {"ending", "read", "tick"}
      BY <1>3, TurnsIs
    <2> QED
      BY <2>1 DEF Types, Over, Pcs, sendVars, askVars, setVars, rowVars, fwVars
  <1>4. CASE OnSample
    <2> PICK f \in UpFrame :
           /\ ~IsReply(f) /\ f = Head(up) /\ up # <<>> /\ up' = Tail(up) /\ pc = "read"
           /\ \/ /\ missed' = missed + IF lastSample = -1 THEN 0 ELSE (f.seq - lastSample - 1) % Modulus
                 /\ lastSample' = f.seq /\ batch' = batch + 1 /\ recorded' = recorded + 1
                 /\ row' = [sampled |-> f.what.set, taken |-> active]
                 /\ gap' = [counted |-> gap.counted + gap.since, since |-> 0]
              \/ /\ gap' = [gap EXCEPT !.since = IF lastSample = -1 THEN 0 ELSE @ + 1]
                 /\ UNCHANGED <<rowVars, lastSample, batch>>
           /\ UNCHANGED <<pc, sendVars, askVars, active, period, sunk, fwVars, answers>>
      BY <1>4, OnSampleIs
    <2> PICK k : k = (f.seq - lastSample - 1) % Modulus
      OBVIOUS
    <2>0. f.seq \in Nat /\ lastSample \in Int /\ gap.counted \in Nat /\ gap.since \in Nat
      <3>1. f.seq \in Nat
        BY UpTypes
      <3>2. lastSample \in Nat \union {-1} /\ gap \in [counted : Nat, since : Nat]
        BY DEF Types
      <3> QED
        BY <3>1, <3>2
    <2>1. k \in Nat
      <3> PICK n \in Int : n = f.seq - lastSample - 1
        BY <2>0
      <3> PICK m \in Nat \ {0} : m = Modulus
        BY LinkAssumption
      <3>1. n % m \in Nat
        OBVIOUS
      <3>2. k = n % m
        OBVIOUS
      <3> QED
        BY <3>1, <3>2
    <2>2. missed' \in Nat /\ lastSample' \in Nat \union {-1} /\ batch' \in Nat /\ recorded' \in Nat
      <3>1. CASE /\ missed' = missed + IF lastSample = -1 THEN 0 ELSE k
                 /\ lastSample' = f.seq /\ batch' = batch + 1 /\ recorded' = recorded + 1
        <4>1. missed \in Nat /\ batch \in Nat /\ recorded \in Nat
          BY DEF Types
        <4>2. missed' \in {missed + 0, missed + k}
          BY <3>1
        <4>3. missed' \in Nat
          BY <2>1, <4>1, <4>2
        <4>4. lastSample' \in Nat
          BY <2>0, <3>1
        <4>5. batch' \in Nat /\ recorded' \in Nat
          BY <3>1, <4>1
        <4> QED
          BY <4>3, <4>4, <4>5
      <3>2. CASE UNCHANGED <<rowVars, lastSample, batch>>
        BY <3>2 DEF Types, rowVars
      <3> QED
        BY <3>1, <3>2
    <2>3. gap' \in [counted : Nat, since : Nat]
      <3>1. CASE gap' = [counted |-> gap.counted + gap.since, since |-> 0]
        BY <2>0, <3>1
      <3>2. CASE gap' = [gap EXCEPT !.since = IF lastSample = -1 THEN 0 ELSE @ + 1]
        <4>1. gap \in [counted : Nat, since : Nat]
          BY DEF Types
        <4>2. gap' = [gap EXCEPT !.since = 0] \/ gap' = [gap EXCEPT !.since = gap.since + 1]
          BY <3>2, Zenon
        <4> QED
          BY <2>0, <4>1, <4>2
      <3> QED
        BY <3>1, <3>2
    <2>4. up' \in Seq(UpFrame)
      BY DEF Types
    <2> QED
      BY <2>2, <2>3, <2>4 DEF Types, Over, sendVars, askVars, fwVars
  <1>5. CASE OnReply
    BY <1>5, OnReplyTypes
  <1>6. CASE Expires
    <2> PICK late \in SUBSET Seqs :
           /\ pc = "expire" /\ pc' = "drain"
           /\ Flush \/ UNCHANGED <<sunk, batch>>
           /\ Forget(late)
           /\ UNCHANGED <<seq, down, askVars, active, period, lastSample, gap, rowVars, fwVars, up>>
      BY <1>6, ExpireIs
    <2>1. pending' \in [Seqs -> Asks \union {Nothing}]
      BY DEF Types, Forget
    <2> QED
      BY <2>1, FlushTypes DEF Types, Over, Pcs, askVars, rowVars, fwVars
  <1>7. CASE End
    <2>1. /\ pc' \in {"closed", "cut"} /\ Flush /\ pending' = [s \in Seqs |-> Nothing]
          /\ seq' = seq + 2 /\ seq <= MaxSeq - 2 /\ down' \in Seq(DownFrame)
          /\ UNCHANGED <<askVars, active, period, lastSample, gap, rowVars, fwVars, up>>
      BY <1>7, EndIs
    <2>2. pending' \in [Seqs -> Asks \union {Nothing}] /\ seq' \in 0 .. MaxSeq
      BY <2>1, LinkAssumption DEF Types
    <2> QED
      BY <2>1, <2>2, FlushTypes DEF Types, Over, Pcs, askVars, rowVars, fwVars
  <1>8. CASE Serve
    <2> PICK f \in DownFrame, status \in Statuses :
           /\ down # <<>> /\ f = Head(down) /\ down' = Tail(down)
           /\ up' = Append(up, [seq |-> f.seq, what |-> f.what, status |-> status])
           /\ [seq |-> f.seq, what |-> f.what, status |-> status] \in UpFrame
           /\ UNCHANGED <<pc, seq, pending, askVars, setVars, rowVars, sampled, answers>>
           /\ f.what.kind # "REQUEST" => applied' = applied
           /\ f.what.kind = "REQUEST" =>
                \/ applied' = [applied EXCEPT ![f.what.request] = @ + 1]
                \/ applied' = applied
           /\ f.what.kind = "WATCH" =>
                watch' = [set |-> f.what.set, period |-> f.what.period] \/ watch' = watch
           /\ f.what.kind # "WATCH" => watch' = watch
      BY <1>8, ServeIs
    <2>1. up' \in Seq(UpFrame) /\ down' \in Seq(DownFrame)
      <3>1. up \in Seq(UpFrame) /\ down \in Seq(DownFrame)
        BY DEF Types
      <3> QED
        BY <3>1, HeadAndTail
    <2>2. watch' \in [set : SetsSent, period : 0 .. MaxPeriod]
      <3>1. f.what \in Asks
        BY DEF DownFrame
      <3>2. f.what.kind = "WATCH" => f.what.set \in SetsSent /\ f.what.period \in 0 .. MaxPeriod
        BY <3>1, WhatTypes
      <3> QED
        BY <3>2 DEF Types
    <2>3. applied' \in [Requests -> Nat]
      <3>1. applied \in [Requests -> Nat]
        BY DEF Types
      <3>2. CASE applied' = applied
        BY <3>1, <3>2
      <3>3. CASE f.what.kind = "REQUEST" /\ applied' = [applied EXCEPT ![f.what.request] = @ + 1]
        <4>1. f.what.request \in Requests
          BY <3>3, WhatTypes DEF DownFrame
        <4> PICK r \in Requests : r = f.what.request
          BY <4>1
        <4>2. applied' = [applied EXCEPT ![r] = applied[r] + 1] /\ applied[r] + 1 \in Nat
          BY <3>1, <3>3
        <4> QED
          BY <3>1, <4>2
      <3> QED
        BY <3>2, <3>3
    <2> QED
      BY <2>1, <2>2, <2>3 DEF Types, Over, askVars, setVars, rowVars
  <1>9. CASE Sample
    <2> PICK f \in UpFrame :
           /\ up' = Append(up, f) /\ sampled' = sampled + 1
           /\ UNCHANGED <<pc, sendVars, askVars, setVars, rowVars, holder, watch, applied, answers>>
      BY <1>9, SampleIs
    <2> QED
      BY DEF Types, Over, sendVars, askVars, setVars, rowVars
  <1>10. CASE LoseUp
    <2>1. /\ up # <<>> /\ up' = Tail(up)
          /\ UNCHANGED <<pc, sendVars, askVars, active, period, lastSample, batch, sunk, rowVars, fwVars>>
          /\ gap' = gap \/ gap' = [gap EXCEPT !.since = @ + 1]
      <3>1. gap \in [counted : Nat, since : Nat]
        BY DEF Types
      <3> PICK g : g = gap.since
        OBVIOUS
      <3>2. /\ up # <<>> /\ up' = Tail(up)
            /\ UNCHANGED <<pc, sendVars, askVars, active, period, lastSample, batch, sunk, rowVars, fwVars>>
            /\ gap' = [gap EXCEPT !.since = g] \/ gap' = [gap EXCEPT !.since = g + 1]
        BY <1>10 DEF LoseUp
      <3>3. [gap EXCEPT !.since = g] = gap
        BY <3>1
      <3> QED
        BY <3>2, <3>3
    <2>2. gap' \in [counted : Nat, since : Nat] /\ up' \in Seq(UpFrame)
      <3>1. gap \in [counted : Nat, since : Nat] /\ up \in Seq(UpFrame)
        BY DEF Types
      <3>2. gap.since \in Nat
        BY <3>1
      <3> QED
        BY <2>1, <3>1, <3>2
    <2> QED
      BY <2>1, <2>2 DEF Types, Over, sendVars, askVars, rowVars, fwVars
  <1>11. CASE Elsewhere
    <2>1. /\ UNCHANGED <<pc, seq, pending, askVars, setVars, rowVars, watch, sampled, applied, up>>
          /\ down' = down \/ (down # <<>> /\ down' = Tail(down))
      BY <1>11 DEF Elsewhere, LoseDown, LeaseLapses, Takeover, sendVars, fwVars
    <2>2. down' \in Seq(DownFrame)
      <3>1. down \in Seq(DownFrame)
        BY DEF Types
      <3>2. down # <<>> => Tail(down) \in Seq(DownFrame)
        BY <3>1
      <3> QED
        BY <2>1, <3>1, <3>2
    <2> QED
      BY <2>1, <2>2 DEF Types, Over, askVars, setVars, rowVars
  <1>12. CASE UNCHANGED vars
    BY <1>12 DEF Types, Over, vars, sendVars, askVars, setVars, rowVars, fwVars
  <1> QED
    BY <1>1, <1>2, <1>3, <1>4, <1>5, <1>6, <1>7, <1>8, <1>9, <1>10, <1>11, <1>12, NextIs

LEMMA InitTypes == Init => Types
  <1> SUFFICES ASSUME Init PROVE Types
    OBVIOUS
  <1>1. <<>> \in SetsSent /\ <<>> \in Wanted /\ <<>> \in Seq(DownFrame) /\ <<>> \in Seq(UpFrame)
    BY DEF SetsSent, Wanted
  <1>2. pending \in [Seqs -> Asks \union {Nothing}] /\ applied \in [Requests -> Nat]
    BY DEF Init
  <1>3. gap \in [counted : Nat, since : Nat] /\ watch \in [set : SetsSent, period : 0 .. MaxPeriod]
    BY <1>1, LinkAssumption DEF Init, Unsampled
  <1> QED
    BY <1>1, <1>2, <1>3, LinkAssumption DEF Init, Types, Pcs

------------------------------------------------------------------------------
(* Rows on their way to the sink *)

LEMMA StepRows ==
  ASSUME Types, RowsReachSink, [Next]_vars
  PROVE  RowsReachSink'
  <1>0. /\ recorded \in Nat /\ batch \in Nat /\ sunk \in Nat /\ recorded = sunk + batch
        /\ Over => batch = 0
    BY DEF Types, RowsReachSink, Over
  <1>1. ASSUME UNCHANGED <<recorded, batch, sunk>>, pc' = pc \/ pc' \notin {"closed", "cut"} PROVE RowsReachSink'
    BY <1>1 DEF RowsReachSink
  <1>2. ASSUME recorded' = recorded, Flush PROVE RowsReachSink'
    BY <1>0, <1>2 DEF RowsReachSink, Flush
  <1>3. CASE Unasked \/ \E r \in Requests : Submit(r)
    BY <1>1, <1>3, UnaskedIs, SubmitIs DEF setVars, rowVars
  <1>4. CASE Turns
    BY <1>1, <1>4, TurnsIs DEF setVars, rowVars
  <1>5. CASE OnSample
    <2>1. /\ pc = "read" /\ pc' = pc /\ sunk' = sunk
          /\ \/ batch' = batch + 1 /\ recorded' = recorded + 1
             \/ UNCHANGED <<batch, recorded>>
      BY <1>5 DEF OnSample, rowVars
    <2> QED
      BY <1>0, <2>1 DEF RowsReachSink
  <1>6. CASE OnReply
    <2>1. recorded' = recorded /\ pc' = pc /\ (UNCHANGED setVars \/ Flush)
      BY <1>6, OnReplyIs DEF rowVars, Confirmed
    <2> QED
      BY <1>1, <1>2, <2>1 DEF setVars
  <1>7. CASE Expires
    <2>1. recorded' = recorded /\ pc' = "drain" /\ (UNCHANGED <<batch, sunk>> \/ Flush)
      BY <1>7, ExpireIs DEF rowVars
    <2> QED
      BY <1>1, <1>2, <2>1
  <1>8. CASE End
    BY <1>2, <1>8, EndIs DEF rowVars
  <1>9. CASE Serve
    BY <1>1, <1>9, ServeIs DEF setVars, rowVars
  <1>10. CASE Sample \/ LoseUp \/ Elsewhere \/ UNCHANGED vars
    BY <1>1, <1>10 DEF Sample, LoseUp, Elsewhere, LoseDown, LeaseLapses, Takeover, vars, setVars, rowVars
  <1> QED
    BY <1>3, <1>4, <1>5, <1>6, <1>7, <1>8, <1>9, <1>10, NextIs

\* Each recorded row reaches the sink, also when the set changes or the session
\* ends while it waits in a batch.
THEOREM EachRowSunk == Spec => []RowsReachSink
  <1>1. Init => RowsReachSink
    BY DEF Init, RowsReachSink
  <1> QED
    BY <1>1, InitTypes, StepTypes, StepRows, PTL DEF Spec

------------------------------------------------------------------------------
(* The farewell *)

\* No frame is corrupted on the way.
NoLoss == "loss" \notin Faults

\* What is left of the farewell when it has not all been served.
Leaving ==
  pc = "closed" =>
    /\ Len(down) = 0 => watch = Unsampled /\ holder # "us"
    /\ Len(down) = 1 => down[1].what = Plain("RELEASE") /\ watch = Unsampled
    /\ Len(down) > 1 => /\ down[Len(down) - 1].what = Watch(<<>>, 0)
                        /\ down[Len(down)].what = Plain("RELEASE")

LEMMA ServeLeaving ==
  ASSUME Types, Leaving, Serve, pc = "closed"
  PROVE  Leaving'
  <1>1. /\ Len(down) \in Nat
        /\ down # <<>> => Len(down) > 0 /\ Len(Tail(down)) = Len(down) - 1 /\ Head(down) = down[1]
        /\ down # <<>> => \A i \in 1 .. Len(down) - 1 : Tail(down)[i] = down[i + 1]
    BY DEF Types
  <1> PICK f \in DownFrame, status \in Statuses :
           /\ Len(down) > 0 /\ f = down[1] /\ Len(down') = Len(down) - 1 /\ pc' = pc
           /\ \A i \in 1 .. Len(down) - 1 : down'[i] = down[i + 1]
           /\ f.what.kind = "WATCH" =>
                \/ status = "ok" /\ watch' = [set |-> f.what.set, period |-> f.what.period]
                \/ status = "budget" /\ watch' = watch /\ ~Affords(f.what.set, f.what.period)
           /\ f.what.kind # "WATCH" => watch' = watch
           /\ f.what.kind = "RELEASE" => holder' = IF holder = "us" THEN "none" ELSE holder
    BY <1>1, ServeIs
  <1>2. CASE Len(down) = 1
    <2>1. f.what.kind = "RELEASE" /\ watch = Unsampled
      BY <1>1, <1>2 DEF Leaving, Plain
    <2>2. watch' = Unsampled /\ holder' # "us"
      BY <2>1
    <2>3. Len(down') \in Int /\ Len(down') < 1
      BY <1>1, <1>2
    <2>4. ~(Len(down') = 1) /\ ~(Len(down') > 1)
      BY <2>3
    <2> QED
      BY <2>2, <2>4 DEF Leaving
  <1>3. CASE Len(down) = 2
    <2>1. f.what = Watch(<<>>, 0) /\ down[2].what = Plain("RELEASE")
      BY <1>1, <1>3 DEF Leaving
    <2>2. f.what.kind = "WATCH" /\ f.what.set = <<>> /\ f.what.period = 0
      BY <2>1 DEF Watch
    <2>3. watch' = Unsampled
      BY <2>2 DEF Affords, Unsampled
    <2>4. down'[1] = down[2] /\ Len(down') = 1
      BY <1>1, <1>3
    <2>5. down'[1].what = Plain("RELEASE")
      BY <2>1, <2>4
    <2>6. Len(down') # 0 /\ ~(Len(down') > 1)
      BY <1>3
    <2> QED
      BY <2>3, <2>5, <2>6, Zenon DEF Leaving
  <1>4. CASE Len(down) > 2
    <2>1. down[Len(down) - 1].what = Watch(<<>>, 0) /\ down[Len(down)].what = Plain("RELEASE")
      BY <1>4 DEF Leaving
    <2>2. down'[Len(down) - 2] = down[Len(down) - 1] /\ down'[Len(down) - 1] = down[Len(down)]
      BY <1>1, <1>4
    <2> QED
      BY <1>1, <1>4, <2>1, <2>2 DEF Leaving
  <1> QED
    BY <1>1, <1>2, <1>3, <1>4

LEMMA StepLeaving ==
  ASSUME NoLoss, Types, Leaving, [Next]_vars
  PROVE  Leaving'
  <1>1. ASSUME pc' # "closed" PROVE Leaving'
    BY <1>1 DEF Leaving
  <1>2. CASE Unasked \/ \E r \in Requests : Submit(r)
    BY <1>1, <1>2, UnaskedIs, SubmitIs
  <1>3. CASE Turns \/ Expires
    BY <1>1, <1>3, TurnsIs, ExpireIs
  <1>4. CASE OnSample \/ OnReply
    BY <1>1, <1>4 DEF OnSample, OnReply
  <1>5. CASE End
    <2>1. /\ down \in Seq(DownFrame) /\ down' \in Seq(DownFrame)
          /\ pc' = "closed" => /\ Len(down') = Len(down) + 2
                               /\ down'[Len(down) + 1].what = Watch(<<>>, 0)
                               /\ down'[Len(down) + 2].what = Plain("RELEASE")
      BY <1>5, EndIs DEF Types
    <2> QED
      BY <2>1 DEF Leaving
  <1>6. CASE Serve
    <2>1. pc' = pc
      BY <1>6, ServeIs
    <2> QED
      BY <1>1, <1>6, <2>1, ServeLeaving
  <1>7. CASE \/ Sample \/ LoseUp \/ LeaseLapses \/ Takeover \/ UNCHANGED vars
    <2>1. UNCHANGED <<pc, down, watch>> /\ holder' \in {holder, "none", "other"}
      BY <1>7 DEF Sample, LoseUp, LeaseLapses, Takeover, vars, sendVars, fwVars
    <2> QED
      BY <2>1 DEF Leaving
  <1>8. ~LoseDown
    BY DEF LoseDown, NoLoss
  <1> QED
    BY <1>2, <1>3, <1>4, <1>5, <1>6, <1>7, <1>8, NextIs DEF Elsewhere

\* As long as no frame is lost: once the farewell of a stopped session has
\* arrived, the firmware samples nothing for it and the lease is free,
\* whatever else was on the way and whoever took the lease meanwhile.
THEOREM LeavesNothing ==
  ASSUME NoLoss
  PROVE  Spec => []StopsCleanly
  <1>1. Init => Leaving
    BY DEF Init, Leaving
  <1>2. Types /\ Leaving => StopsCleanly
    <2>1. down = <<>> => Len(down) = 0
      OBVIOUS
    <2> QED
      BY <2>1 DEF Leaving, StopsCleanly
  <1> QED
    BY <1>1, <1>2, InitTypes, StepTypes, StepLeaving, PTL DEF Spec

------------------------------------------------------------------------------
(* Samples that get lost *)

LEMMA ModIs ==
  ASSUME NEW m \in Nat \ {0}, NEW a \in Int
  PROVE  \E q \in Int, b \in 0 .. m - 1 : a % m = b /\ a = q * m + b
  <1>1. a \div m \in Int /\ a = (a \div m) * m + (a % m)
    OBVIOUS
  <1>2. a % m \in 0 .. m - 1
    OBVIOUS
  <1> QED
    BY <1>1, <1>2

LEMMA ModOf ==
  ASSUME NEW m \in Nat \ {0}, NEW q \in Int, NEW b \in 0 .. m - 1
  PROVE  (q * m + b) % m = b
  <1> DEFINE a == q * m + b
             k == a % m
  <1>1. a \in Int
    OBVIOUS
  <1> HIDE DEF a
  <1>2. \E p \in Int : a = p * m + k /\ k \in 0 .. m - 1
    BY <1>1, ModIs
  <1> PICK p \in Int : a = p * m + k /\ k \in 0 .. m - 1
    BY <1>2
  <1>3. p * m + k = q * m + b
    BY DEF a
  <1> HIDE DEF k
  <1>4. CASE p = q
    BY <1>3, <1>4 DEF k, a
  <1>5. CASE p < q
    <2>1. q = p + (q - p) /\ q - p >= 1
      BY <1>5
    <2>2. q * m = p * m + (q - p) * m /\ (q - p) * m >= m
      BY <2>1
    <2> QED
      BY <1>3, <2>2
  <1>6. CASE p > q
    <2>1. p = q + (p - q) /\ p - q >= 1
      BY <1>6
    <2>2. p * m = q * m + (p - q) * m /\ (p - q) * m >= m
      BY <2>1
    <2> QED
      BY <1>3, <2>2
  <1> QED
    BY <1>4, <1>5, <1>6

\* What on_sample takes for skipped is what was, up to whole turns.
LEMMA SkippedIs ==
  ASSUME NEW m \in Nat \ {0}, NEW n \in Nat, NEW s \in Nat
  PROVE  ((n % m) - ((n - 1 - s) % m) - 1) % m = s % m
  <1>1. n \in Int /\ n - 1 - s \in Int /\ s \in Int
    OBVIOUS
  <1> PICK p \in Int, a \in 0 .. m - 1 : n % m = a /\ n = p * m + a
    BY <1>1, ModIs
  <1> PICK q \in Int, b \in 0 .. m - 1 : (n - 1 - s) % m = b /\ n - 1 - s = q * m + b
    BY <1>1, ModIs
  <1> PICK t \in Int, c \in 0 .. m - 1 : s % m = c /\ s = t * m + c
    BY <1>1, ModIs
  <1>4. a - b - 1 = (t + q - p) * m + c
    <2>1. a - b - 1 = (n - p * m) - ((n - 1 - s) - q * m) - 1
      OBVIOUS
    <2>2. a - b - 1 = t * m + q * m - p * m + c
      BY <2>1
    <2>3. (t + q - p) * m = t * m + q * m - p * m
      OBVIOUS
    <2> QED
      BY <2>2, <2>3
  <1>5. t + q - p \in Int
    OBVIOUS
  <1> PICK k \in Int : k = t + q - p
    BY <1>5
  <1>6. (a - b - 1) % m = c
    <2>1. a - b - 1 = k * m + c
      BY <1>4
    <2> QED
      BY <2>1, ModOf
  <1> QED
    BY <1>6

LEMMA ModAtMost ==
  ASSUME NEW m \in Nat \ {0}, NEW s \in Nat
  PROVE  s % m \in Nat /\ s % m <= s
  <1>1. s \in Int
    OBVIOUS
  <1> PICK q \in Int, c \in 0 .. m - 1 : s % m = c /\ s = q * m + c
    BY <1>1, ModIs
  <1>2. q >= 0
    <2>1. CASE q <= -1
      <3>1. q * m <= -m
        BY <2>1
      <3> QED
        BY <3>1
    <2> QED
      BY <2>1
  <1>3. q * m >= 0
    BY <1>2
  <1> QED
    BY <1>3

LEMMA TurnsAdd ==
  ASSUME NEW m \in Nat \ {0}, NEW a \in Int, NEW s \in Nat, a % m = 0
  PROVE  (a + s - (s % m)) % m = 0
  <1> PICK p \in Int, b \in 0 .. m - 1 : a % m = b /\ a = p * m + b
    BY ModIs
  <1>1. s \in Int
    OBVIOUS
  <1> PICK q \in Int, c \in 0 .. m - 1 : s % m = c /\ s = q * m + c
    BY <1>1, ModIs
  <1>2. b = 0
    OBVIOUS
  <1>3. a + s - c = (p + q) * m + 0
    <2>1. (p + q) * m = p * m + q * m
      OBVIOUS
    <2> QED
      BY <1>2, <2>1
  <1>4. p + q \in Int /\ 0 \in 0 .. m - 1
    OBVIOUS
  <1> PICK k \in Int : k = p + q
    BY <1>4
  <1>5. a + s - c = k * m + 0
    BY <1>3
  <1>6. (a + s - c) % m = 0
    BY <1>4, <1>5, ModOf
  <1> QED
    BY <1>6

\* The number of the first sample behind each frame of u, when the next one has
\* the number n.
Counts(g, u, n) ==
  /\ g \in [0 .. Len(u) -> Nat] /\ g[Len(u)] = n
  /\ \A i \in 1 .. Len(u) :
       /\ IsReply(u[i]) => g[i] = g[i - 1]
       /\ ~IsReply(u[i]) => u[i].seq = g[i - 1] % Modulus /\ g[i] = g[i - 1] + 1

LEMMA CountsTail ==
  ASSUME NEW u \in Seq(UpFrame), u # <<>>, NEW g, NEW n, Counts(g, u, n)
  PROVE  /\ \E h : Counts(h, Tail(u), n) /\ h[0] = g[1]
         /\ g[0] \in Nat /\ g[1] \in Nat
         /\ IsReply(Head(u)) => g[1] = g[0]
         /\ ~IsReply(Head(u)) => Head(u).seq = g[0] % Modulus /\ g[1] = g[0] + 1
  <1> DEFINE t == Tail(u)
             h == [i \in 0 .. Len(u) - 1 |-> g[i + 1]]
  <1>1. /\ Len(u) \in Nat /\ Len(u) > 0 /\ Len(t) = Len(u) - 1 /\ Head(u) = u[1]
        /\ \A i \in 1 .. Len(u) - 1 : t[i] = u[i + 1]
    OBVIOUS
  <1> HIDE DEF t
  <1>2. /\ g \in [0 .. Len(u) -> Nat] /\ g[Len(u)] = n
        /\ \A i \in 1 .. Len(u) :
             /\ IsReply(u[i]) => g[i] = g[i - 1]
             /\ ~IsReply(u[i]) => u[i].seq = g[i - 1] % Modulus /\ g[i] = g[i - 1] + 1
    BY DEF Counts
  <1>3. h \in [0 .. Len(u) - 1 -> Nat] /\ h[Len(u) - 1] = n /\ h[0] = g[1]
        /\ \A i \in 0 .. Len(u) - 1 : h[i] = g[i + 1]
    BY <1>1, <1>2
  <1> HIDE DEF h
  <1>4. ASSUME NEW i \in 1 .. Len(t)
        PROVE  /\ IsReply(t[i]) => h[i] = h[i - 1]
               /\ ~IsReply(t[i]) => t[i].seq = h[i - 1] % Modulus /\ h[i] = h[i - 1] + 1
    <2>1. i \in 1 .. Len(u) - 1 /\ i + 1 \in 1 .. Len(u) /\ (i + 1) - 1 = i /\ i \in 0 .. Len(u) - 1
          /\ i - 1 \in 0 .. Len(u) - 1 /\ (i - 1) + 1 = i
      BY <1>1
    <2>2. t[i] = u[i + 1] /\ h[i] = g[i + 1] /\ h[i - 1] = g[i]
      BY <1>1, <1>3, <2>1
    <2> QED
      BY <1>2, <2>1, <2>2
  <1>5. Counts(h, t, n)
    BY <1>1, <1>3, <1>4 DEF Counts
  <1>6. 1 \in 1 .. Len(u) /\ 0 \in 0 .. Len(u) /\ 1 \in 0 .. Len(u)
    BY <1>1
  <1> QED
    BY <1>1, <1>2, <1>3, <1>5, <1>6 DEF t

LEMMA CountsAppend ==
  ASSUME NEW u \in Seq(UpFrame), NEW f \in UpFrame, NEW g, NEW n \in Nat, Counts(g, u, n),
         NEW k, k = IF IsReply(f) THEN n ELSE n + 1, ~IsReply(f) => f.seq = n % Modulus
  PROVE  \E h : Counts(h, Append(u, f), k) /\ h[0] = g[0]
  <1> DEFINE t == Append(u, f)
             h == [i \in 0 .. Len(u) + 1 |-> IF i = Len(u) + 1 THEN k ELSE g[i]]
  <1>1. /\ Len(u) \in Nat /\ Len(t) = Len(u) + 1 /\ t[Len(u) + 1] = f
        /\ \A i \in 1 .. Len(u) : t[i] = u[i]
    OBVIOUS
  <1> HIDE DEF t
  <1>2. /\ g \in [0 .. Len(u) -> Nat] /\ g[Len(u)] = n
        /\ \A i \in 1 .. Len(u) :
             /\ IsReply(u[i]) => g[i] = g[i - 1]
             /\ ~IsReply(u[i]) => u[i].seq = g[i - 1] % Modulus /\ g[i] = g[i - 1] + 1
    BY DEF Counts
  <1>3. /\ h \in [0 .. Len(u) + 1 -> Nat] /\ h[Len(u) + 1] = k
        /\ \A i \in 0 .. Len(u) : h[i] = g[i]
    BY <1>1, <1>2
  <1> HIDE DEF h
  <1>4. ASSUME NEW i \in 1 .. Len(t)
        PROVE  /\ IsReply(t[i]) => h[i] = h[i - 1]
               /\ ~IsReply(t[i]) => t[i].seq = h[i - 1] % Modulus /\ h[i] = h[i - 1] + 1
    <2>1. CASE i = Len(u) + 1
      <3>1. i - 1 = Len(u) /\ Len(u) \in 0 .. Len(u)
        BY <1>1, <2>1
      <3>2. t[i] = f /\ h[i] = k /\ h[i - 1] = n
        BY <1>1, <1>2, <1>3, <2>1, <3>1
      <3> QED
        BY <3>2
    <2>2. CASE i # Len(u) + 1
      <3>1. i \in 1 .. Len(u) /\ i \in 0 .. Len(u) /\ i - 1 \in 0 .. Len(u)
        BY <1>1, <2>2
      <3>2. t[i] = u[i] /\ h[i] = g[i] /\ h[i - 1] = g[i - 1]
        BY <1>1, <1>3, <3>1
      <3> QED
        BY <1>2, <3>1, <3>2
    <2> QED
      BY <2>1, <2>2
  <1>5. Counts(h, t, k) /\ h[0] = g[0]
    <2>1. 0 \in 0 .. Len(u)
      BY <1>1
    <2> QED
      BY <1>1, <1>3, <1>4, <2>1 DEF Counts
  <1> QED
    BY <1>5 DEF t

\* The samples on the way follow the last recorded one, but for those known to
\* be lost.
Follows(g) == lastSample # -1 => lastSample = (g[0] - 1 - gap.since) % Modulus
Counting ==
  /\ MissedCounted
  /\ lastSample = -1 => gap.since = 0
  /\ \E g : Counts(g, up, sampled) /\ Follows(g)

\* A step that takes no frame off the link and counts nothing.
LEMMA CountingSame ==
  ASSUME Counting, UNCHANGED <<up, sampled, lastSample, gap, missed>>
  PROVE  Counting'
  BY DEF Counting, MissedCounted, Follows, Counts, IsReply

\* The conjuncts of Counting', for any new state of the link.
LEMMA CountingBy ==
  ASSUME MissedCounted', lastSample' = -1 => gap'.since = 0,
         \E h : Counts(h, up', sampled') /\ (lastSample' # -1 => lastSample' = (h[0] - 1 - gap'.since) % Modulus)
  PROVE  Counting'
  <1> PICK h : Counts(h, up', sampled') /\ (lastSample' # -1 => lastSample' = (h[0] - 1 - gap'.since) % Modulus)
    OBVIOUS
  <1>1. \E g : (Counts(g, up, sampled) /\ Follows(g))'
    BY DEF Counts, Follows, IsReply
  <1> QED
    BY <1>1 DEF Counting

LEMMA OnSampleCounting ==
  ASSUME Types, Counting, OnSample
  PROVE  Counting'
  <1> PICK f \in UpFrame :
           /\ ~IsReply(f) /\ f = Head(up) /\ up # <<>> /\ up' = Tail(up) /\ pc = "read"
           /\ \/ /\ missed' = missed + IF lastSample = -1 THEN 0 ELSE (f.seq - lastSample - 1) % Modulus
                 /\ lastSample' = f.seq /\ batch' = batch + 1 /\ recorded' = recorded + 1
                 /\ row' = [sampled |-> f.what.set, taken |-> active]
                 /\ gap' = [counted |-> gap.counted + gap.since, since |-> 0]
              \/ /\ gap' = [gap EXCEPT !.since = IF lastSample = -1 THEN 0 ELSE @ + 1]
                 /\ UNCHANGED <<rowVars, lastSample, batch>>
           /\ UNCHANGED <<pc, sendVars, askVars, active, period, sunk, fwVars, answers>>
    BY OnSampleIs
  <1> PICK g : Counts(g, up, sampled) /\ Follows(g)
    BY DEF Counting
  <1>1. up \in Seq(UpFrame) /\ sampled' = sampled
    BY DEF Types, fwVars
  <1>2. /\ \E h : Counts(h, up', sampled) /\ h[0] = g[1]
        /\ g[0] \in Nat /\ g[1] = g[0] + 1 /\ f.seq = g[0] % Modulus
    BY <1>1, CountsTail
  <1> PICK h : Counts(h, up', sampled) /\ h[0] = g[1]
    BY <1>2
  <1> PICK n \in Nat : g[0] = n
    BY <1>2
  <1> PICK s \in Nat, c \in Nat : gap.since = s /\ gap.counted = c /\ gap = [counted |-> c, since |-> s]
    BY DEF Types
  <1>3. h[0] = n + 1 /\ f.seq = n % Modulus /\ Modulus \in Nat \ {0} /\ missed \in Nat /\ f.seq \in Nat
    BY <1>2, UpTypes, LinkAssumption DEF Types
  <1>4. missed <= c /\ (c - missed) % Modulus = 0 /\ (lastSample = -1 => s = 0)
        /\ (lastSample # -1 => lastSample = (n - 1 - s) % Modulus)
    BY DEF Counting, MissedCounted, Follows
  <1>5. CASE /\ missed' = missed + IF lastSample = -1 THEN 0 ELSE (f.seq - lastSample - 1) % Modulus
             /\ lastSample' = f.seq /\ gap' = [counted |-> gap.counted + gap.since, since |-> 0]
    <2>1. gap' = [counted |-> c + s, since |-> 0] /\ gap'.counted = c + s /\ gap'.since = 0
      BY <1>5
    <2>2. lastSample' = (h[0] - 1 - gap'.since) % Modulus
      <3>1. h[0] - 1 - gap'.since = n
        BY <1>3, <2>1
      <3> QED
        BY <1>3, <1>5, <3>1
    <2>3. missed' = missed + (s % Modulus)
      <3>1. CASE lastSample = -1
        <4>1. s = 0 /\ s % Modulus = 0
          BY <1>3, <1>4, <3>1
        <4> QED
          BY <1>5, <3>1, <4>1
      <3>2. CASE lastSample # -1
        <4>1. (f.seq - lastSample - 1) % Modulus = s % Modulus
          <5>1. ((n % Modulus) - ((n - 1 - s) % Modulus) - 1) % Modulus = s % Modulus
            BY <1>3, SkippedIs
          <5>2. f.seq = n % Modulus /\ lastSample = (n - 1 - s) % Modulus
            BY <1>3, <1>4, <3>2
          <5> QED
            BY <5>1, <5>2, Zenon
        <4> QED
          BY <1>5, <3>2, <4>1
      <3> QED
        BY <3>1, <3>2
    <2>4. s % Modulus <= s /\ s % Modulus \in Nat
      BY <1>3, ModAtMost
    <2>5. missed' <= c + s
      BY <1>3, <1>4, <2>3, <2>4
    <2>6. (c + s - missed') % Modulus = 0
      <3>1. c - missed \in Int
        BY <1>3
      <3>2. ((c - missed) + s - (s % Modulus)) % Modulus = 0
        BY <1>3, <1>4, <3>1, TurnsAdd
      <3>3. c + s - missed' = (c - missed) + s - (s % Modulus)
        BY <1>3, <2>3, <2>4
      <3> QED
        BY <3>2, <3>3
    <2>7. MissedCounted'
      <3>1. missed' <= gap'.counted
        BY <2>1, <2>5
      <3>2. (gap'.counted - missed') % Modulus = 0
        <4>1. gap'.counted = c + s /\ missed' \in Int
          BY <1>3, <2>1, <2>3, <2>4
        <4> QED
          BY <4>1, <2>6
      <3> QED
        BY <3>1, <3>2, Zenon DEF MissedCounted
    <2> QED
      BY <1>1, <2>1, <2>2, <2>7, CountingBy
  <1>6. CASE /\ gap' = [gap EXCEPT !.since = IF lastSample = -1 THEN 0 ELSE @ + 1]
             /\ UNCHANGED <<rowVars, lastSample, batch>>
    <2>1. /\ missed' = missed /\ lastSample' = lastSample /\ gap'.counted = c
          /\ lastSample = -1 => gap'.since = 0
          /\ lastSample # -1 => gap'.since = s + 1
      BY <1>6 DEF rowVars
    <2>2. MissedCounted'
      BY <1>4, <2>1 DEF MissedCounted
    <2>3. lastSample' # -1 => lastSample' = (h[0] - 1 - gap'.since) % Modulus
      <3>1. CASE lastSample # -1
        <4>1. gap'.since = s + 1
          BY <2>1, <3>1
        <4>2. h[0] - 1 - gap'.since = n - 1 - s
          BY <1>3, <4>1
        <4> QED
          BY <1>4, <2>1, <3>1, <4>2
      <3> QED
        BY <2>1, <3>1
    <2> QED
      BY <1>1, <2>1, <2>2, <2>3, CountingBy
  <1> QED
    BY <1>5, <1>6

LEMMA OnReplyCounting ==
  ASSUME Types, Counting, OnReply
  PROVE  Counting'
  <1> PICK g : Counts(g, up, sampled) /\ Follows(g)
    BY DEF Counting
  <1>1. /\ up \in Seq(UpFrame) /\ up # <<>> /\ up' = Tail(up) /\ IsReply(Head(up)) /\ sampled' = sampled
        /\ missed' = missed
        /\ \/ lastSample' = -1 /\ gap' = [gap EXCEPT !.since = 0]
           \/ lastSample' = lastSample /\ gap' = gap
    BY OnReplyIs DEF Types, fwVars, rowVars, setVars, Confirmed
  <1>2. \E h : Counts(h, up', sampled) /\ h[0] = g[0]
    BY <1>1, CountsTail
  <1> PICK h : Counts(h, up', sampled) /\ h[0] = g[0]
    BY <1>2
  <1>3. /\ missed <= gap.counted /\ (gap.counted - missed) % Modulus = 0 /\ (lastSample = -1 => gap.since = 0)
        /\ lastSample # -1 => lastSample = (h[0] - 1 - gap.since) % Modulus
        /\ gap \in [counted : Nat, since : Nat]
    BY DEF Counting, MissedCounted, Follows, Types
  <1>4. CASE lastSample' = -1 /\ gap' = [gap EXCEPT !.since = 0]
    <2>1. gap'.counted = gap.counted /\ gap'.since = 0
      BY <1>3, <1>4
    <2>2. MissedCounted'
      BY <1>1, <1>3, <2>1 DEF MissedCounted
    <2> QED
      BY <1>1, <1>4, <2>1, <2>2, CountingBy
  <1>5. CASE lastSample' = lastSample /\ gap' = gap
    <2>1. MissedCounted'
      BY <1>1, <1>3, <1>5 DEF MissedCounted
    <2> QED
      BY <1>1, <1>3, <1>5, <2>1, CountingBy
  <1> QED
    BY <1>1, <1>4, <1>5

LEMMA ArrivalCounting ==
  ASSUME Types, Counting, NEW f \in UpFrame, up' = Append(up, f), UNCHANGED <<lastSample, gap, missed>>,
         sampled' = IF IsReply(f) THEN sampled ELSE sampled + 1, ~IsReply(f) => f.seq = sampled % Modulus
  PROVE  Counting'
  <1> PICK g : Counts(g, up, sampled) /\ Follows(g)
    BY DEF Counting
  <1>1. up \in Seq(UpFrame) /\ sampled \in Nat
    BY DEF Types
  <1>2. \E h : Counts(h, up', sampled') /\ h[0] = g[0]
    BY <1>1, CountsAppend
  <1>3. MissedCounted' /\ (lastSample' = -1 => gap'.since = 0)
    BY DEF Counting, MissedCounted
  <1>4. lastSample' # -1 => lastSample' = (g[0] - 1 - gap'.since) % Modulus
    BY DEF Follows
  <1>5. \E h : Counts(h, up', sampled') /\ (lastSample' # -1 => lastSample' = (h[0] - 1 - gap'.since) % Modulus)
    BY <1>2, <1>4
  <1> QED
    BY <1>3, <1>5, CountingBy

LEMMA LoseUpCounting ==
  ASSUME Types, Counting, LoseUp
  PROVE  Counting'
  <1> PICK g : Counts(g, up, sampled) /\ Follows(g)
    BY DEF Counting
  <1> PICK s \in Nat, c \in Nat : gap.since = s /\ gap.counted = c /\ gap = [counted |-> c, since |-> s]
    BY DEF Types
  <1>1. /\ up \in Seq(UpFrame) /\ up # <<>> /\ up' = Tail(up) /\ UNCHANGED <<sampled, lastSample, missed>>
        /\ gap' = [gap EXCEPT !.since = IF ~IsReply(Head(up)) /\ lastSample # -1 THEN s + 1 ELSE s]
    BY DEF LoseUp, Types, rowVars, fwVars, IsReply
  <1>2. /\ \E h : Counts(h, up', sampled') /\ h[0] = g[1]
        /\ g[0] \in Nat /\ IsReply(Head(up)) => g[1] = g[0]
    BY <1>1, CountsTail
  <1>3. ~IsReply(Head(up)) => g[1] = g[0] + 1
    BY <1>1, CountsTail
  <1> PICK h : Counts(h, up', sampled') /\ h[0] = g[1]
    BY <1>2
  <1>4. /\ missed <= c /\ (c - missed) % Modulus = 0 /\ (lastSample = -1 => s = 0)
        /\ lastSample # -1 => lastSample = (g[0] - 1 - s) % Modulus
    BY DEF Counting, MissedCounted, Follows
  <1>5. g[0] \in Nat
    BY <1>1, CountsTail
  <1>6. CASE ~IsReply(Head(up)) /\ lastSample # -1
    <2>1. gap' = [counted |-> c, since |-> s + 1] /\ gap'.counted = c /\ gap'.since = s + 1
      BY <1>1, <1>6
    <2>2. h[0] - 1 - gap'.since = g[0] - 1 - s
      BY <1>3, <1>5, <1>6, <2>1
    <2>3. MissedCounted'
      BY <1>1, <1>4, <2>1 DEF MissedCounted
    <2> QED
      BY <1>1, <1>4, <1>6, <2>2, <2>3, CountingBy
  <1>7. CASE ~(~IsReply(Head(up)) /\ lastSample # -1)
    <2>1. gap' = [counted |-> c, since |-> s] /\ gap'.counted = c /\ gap'.since = s
      BY <1>1, <1>7
    <2>2. MissedCounted'
      BY <1>1, <1>4, <2>1 DEF MissedCounted
    <2>3. lastSample # -1 => h[0] = g[0]
      BY <1>1, <1>7, CountsTail
    <2> QED
      BY <1>1, <1>4, <2>1, <2>2, <2>3, CountingBy
  <1> QED
    BY <1>6, <1>7

LEMMA StepCounting ==
  ASSUME Types, Counting, [Next]_vars
  PROVE  Counting'
  <1>1. CASE Unasked \/ (\E r \in Requests : Submit(r)) \/ Turns
    BY <1>1, CountingSame, UnaskedIs, SubmitIs, TurnsIs DEF setVars, rowVars, fwVars
  <1>2. CASE OnSample \/ OnReply \/ LoseUp
    BY <1>2, OnSampleCounting, OnReplyCounting, LoseUpCounting
  <1>3. CASE Expires \/ End
    BY <1>3, CountingSame, ExpireIs, EndIs DEF rowVars, fwVars
  <1>4. CASE Serve
    <2>1. \E f \in UpFrame : /\ IsReply(f) /\ up' = Append(up, f)
                             /\ UNCHANGED <<lastSample, gap, missed, sampled>>
      <3> PICK d \in DownFrame, status \in Statuses :
             /\ up' = Append(up, [seq |-> d.seq, what |-> d.what, status |-> status])
             /\ [seq |-> d.seq, what |-> d.what, status |-> status] \in UpFrame
             /\ UNCHANGED <<setVars, rowVars, sampled>>
        BY <1>4, ServeIs
      <3>1. d.what.kind # "SAMPLE"
        BY WhatTypes DEF DownFrame
      <3> QED
        BY <3>1 DEF IsReply, setVars, rowVars
    <2> QED
      BY <2>1, ArrivalCounting
  <1>5. CASE Sample
    <2>1. \E f \in UpFrame : /\ ~IsReply(f) /\ up' = Append(up, f) /\ f.seq = sampled % Modulus
                             /\ UNCHANGED <<lastSample, gap, missed>> /\ sampled' = sampled + 1
      BY <1>5, SampleIs DEF setVars, rowVars
    <2> QED
      BY <2>1, ArrivalCounting
  <1>6. CASE Elsewhere \/ UNCHANGED vars
    BY <1>6, CountingSame DEF Elsewhere, LoseDown, LeaseLapses, Takeover, vars, setVars, rowVars, fwVars
  <1> QED
    BY <1>1, <1>2, <1>3, <1>4, <1>5, <1>6, NextIs

LEMMA InitCounting == Init => Counting
  <1> SUFFICES ASSUME Init PROVE Counting
    OBVIOUS
  <1>1. up = <<>> /\ Len(up) = 0 /\ sampled = 0 /\ missed = 0 /\ lastSample = -1
        /\ gap.counted = 0 /\ gap.since = 0
    BY DEF Init
  <1>2. MissedCounted
    <2>1. 0 % Modulus = 0
      BY LinkAssumption
    <2> QED
      BY <1>1, <2>1 DEF MissedCounted
  <1>3. Counts([i \in 0 .. 0 |-> 0], up, sampled)
    BY <1>1 DEF Counts
  <1> QED
    BY <1>1, <1>2, <1>3 DEF Counting, Follows

\* Whatever is lost, misread or reordered by a change of the watches:
\* missed_samples counts the samples that got lost between recorded ones of
\* one subscription, except for whole turns of the sample counter.
THEOREM LossesCounted == Spec => []MissedCounted
  <1>1. Counting => MissedCounted
    BY DEF Counting
  <1> QED
    BY <1>1, InitTypes, InitCounting, StepTypes, StepCounting, PTL DEF Spec

------------------------------------------------------------------------------
(* The types that rest on it *)

\* Who may hold the lease, and that commands are counted.
Standing == commands \in Nat /\ holder \in {"none", "us", "other"}

LEMMA StepStanding ==
  ASSUME Types, Standing, [Next]_vars
  PROVE  Standing'
  <1>1. ASSUME UNCHANGED <<askVars, fwVars>> PROVE Standing'
    BY <1>1 DEF Standing, askVars, fwVars
  <1>2. ASSUME NEW w, NEW p, Subscribe(w, p) PROVE Standing'
    BY <1>2 DEF Subscribe, Standing, fwVars
  <1>3. CASE Unasked
    <2>1. CASE \E due \in SUBSET Polls : Tick(due)
      BY <1>1, <2>1 DEF Tick
    <2> QED
      BY <1>2, <1>3, <2>1 DEF Unasked, SetCellWatches, SetRate, Ticks
  <1>4. CASE (\E r \in Requests : Submit(r)) \/ Turns
    BY <1>1, <1>4, TurnsIs DEF Submit
  <1>5. CASE OnSample \/ OnReply
    BY <1>1, <1>5 DEF OnSample, OnReply
  <1>6. CASE Expires \/ End
    BY <1>1, <1>6, ExpireIs, EndIs
  <1>7. CASE Serve
    BY <1>7 DEF Serve, ServePoll, ServeRelease, ServeWatch, ServeRequest, Standing, askVars
  <1>8. CASE Sample \/ LoseUp \/ Elsewhere \/ UNCHANGED vars
    BY <1>8 DEF Sample, LoseUp, Elsewhere, LoseDown, LeaseLapses, Takeover, vars, Standing, askVars, fwVars
  <1> QED
    BY <1>3, <1>4, <1>5, <1>6, <1>7, <1>8, NextIs

\* The number of the last sample is one of the counter's.
LEMMA LastInRange ==
  ASSUME Types, Counting
  PROVE  lastSample \in -1 .. Modulus - 1
  <1> PICK g : Counts(g, up, sampled) /\ Follows(g)
    BY DEF Counting
  <1>1. g[0] \in Nat
    <2>1. 0 \in 0 .. Len(up)
      BY DEF Types
    <2> QED
      BY <2>1 DEF Counts
  <1> PICK m \in Nat \ {0} : m = Modulus
    BY LinkAssumption
  <1> PICK n \in Nat, s \in Nat : n = g[0] /\ s = gap.since
    BY <1>1 DEF Types
  <1> PICK a \in Int : a = n - 1 - s
    OBVIOUS
  <1> PICK b \in 0 .. m - 1 : b = a % m
    BY ModIs
  <1>2. lastSample = -1 \/ lastSample = b
    BY DEF Follows
  <1> QED
    BY <1>2

\* What the session and the firmware keep is of its types: sequence numbers of
\* the channel's, sets and periods that a command asked for, the last sample's
\* number one of the counter's.
THEOREM TypeCorrect == Spec => []TypeOK
  <1>1. Types /\ Counting /\ Standing => TypeOK
    <2> SUFFICES ASSUME Types, Counting, Standing PROVE TypeOK
      OBVIOUS
    <2>1. SetsSent = WatchSetsSent
      BY DEF SetsSent, WatchSetsSent, Wanted
    <2>2. Asks \subseteq Whats
      <3>1. ASSUME NEW x \in Watches PROVE x \in Whats
        <4>1. x = Watch(x.set, x.period) /\ x.set \in WatchSetsSent /\ x.period \in 0 .. MaxPeriod
          BY <2>1 DEF Watches, Watch
        <4> QED
          BY <4>1 DEF Whats
      <3>2. ASSUME NEW x \in [kind : {"REQUEST"}, request : Requests] PROVE x \in Whats
        <4>1. x = Tuning(x.request) /\ x.request \in Requests
          BY DEF Tuning
        <4> QED
          BY <4>1 DEF Whats
      <3>3. ASSUME NEW x \in [kind : Polled] PROVE x \in Whats
        <4>1. x = Plain(x.kind) /\ x.kind \in {"LEASE", "READ", "STATS", "RELEASE"}
          BY DEF Plain, Polled
        <4> QED
          BY <4>1 DEF Whats
      <3> QED
        BY <3>1, <3>2, <3>3 DEF Asks
    <2>3. pending \in [Seqs -> Whats \union {Nothing}]
      <3>1. pending \in [Seqs -> Asks \union {Nothing}]
        BY DEF Types
      <3> QED
        BY <2>2, <3>1
    <2>4. \A i \in 1 .. Len(down) : down[i].seq \in Seqs /\ down[i].what \in Whats
      <3>1. \A i \in 1 .. Len(down) : down[i] \in DownFrame
        BY DEF Types
      <3> QED
        BY <2>2, <3>1 DEF DownFrame
    <2>5. lastSample \in -1 .. Modulus - 1
      BY LastInRange
    <2>6. {missed, batch, recorded, sunk, sampled, commands} \subseteq Nat
      BY DEF Types, Standing
    <2>7. active \in WatchSetsSent /\ watch \in [set : WatchSetsSent, period : 0 .. MaxPeriod]
      BY <2>1 DEF Types
    <2> QED
      BY <2>3, <2>4, <2>5, <2>6, <2>7 DEF Types, Standing, TypeOK, Pcs, Wanted
  <1>2. Init => Standing
    BY DEF Init, Standing
  <1> QED
    BY <1>1, <1>2, InitTypes, InitCounting, StepTypes, StepCounting, StepStanding, PTL DEF Spec
==============================================================================
