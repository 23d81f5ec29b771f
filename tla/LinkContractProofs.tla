-------------------------- MODULE LinkContractProofs --------------------------
(***************************************************************************)
(* A session over the framed link, for any requests, watch sets, polls and *)
(* bounds.  A frame, its reply and what waits for it carry one number, and *)
(* of a request there is one such number at most: the session implements   *)
(* the contract of tuning requests (TuneRequests) under every fault.  If   *)
(* only samples get lost and no reply is late, its rows carry the right    *)
(* labels.                                                                 *)
(***************************************************************************)
EXTENDS LinkSessionProofs

------------------------------------------------------------------------------
(* The numbers of frames *)

\* Frames are on the way in the order of their numbers, replies before what
\* they are to follow; what waits under the number of a frame is what it asks for.
Wire(p, d, u, n) ==
  /\ \A i \in 1 .. Len(d) : d[i].seq <= n /\ p[d[i].seq] \in {Nothing, d[i].what}
  /\ \A i, j \in 1 .. Len(d) : i < j => d[i].seq < d[j].seq
  /\ \A i \in 1 .. Len(u) : IsReply(u[i]) => u[i].seq <= n /\ p[u[i].seq] \in {Nothing, u[i].what}
  /\ \A i \in 1 .. Len(u), j \in 1 .. Len(d) : IsReply(u[i]) => u[i].seq < d[j].seq
  /\ \A i, j \in 1 .. Len(u) : i < j /\ IsReply(u[i]) /\ IsReply(u[j]) => u[i].seq < u[j].seq
  /\ \A s \in Seqs : p[s] # Nothing => s <= n

Pendings == [Seqs -> Asks \union {Nothing}]

LEMMA DownSeq ==
  ASSUME NEW d \in Seq(DownFrame)
  PROVE  \A i \in 1 .. Len(d) : d[i] \in DownFrame /\ d[i].seq \in Seqs /\ d[i].seq \in Nat /\ d[i].what \in Asks
  <1>1. \A f \in DownFrame : f.seq \in Seqs /\ f.what \in Asks
    BY DEF DownFrame
  <1>2. \A s \in Seqs : s \in Nat
    BY LinkAssumption DEF Seqs
  <1> QED
    BY <1>1, <1>2

\* b has new frames behind those of d, with numbers from n + 1 to m; of what
\* waited as p, q has what still waits, and what the new frames ask for.
More(p, d, n, q, b, m) ==
  /\ Len(d) <= Len(b) /\ \A i \in 1 .. Len(d) : b[i] = d[i]
  /\ n <= m
  /\ \A s \in Seqs : q[s] # Nothing => s <= m
  /\ \A s \in Seqs : s <= n => q[s] \in {Nothing, p[s]}
  /\ \A i \in Len(d) + 1 .. Len(b) : n < b[i].seq /\ b[i].seq <= m /\ q[b[i].seq] \in {Nothing, b[i].what}
  /\ \A i, j \in Len(d) + 1 .. Len(b) : i < j => b[i].seq < b[j].seq

LEMMA WireMore ==
  ASSUME NEW p, NEW d \in Seq(DownFrame), NEW u \in Seq(UpFrame), NEW n \in Nat, Wire(p, d, u, n),
         NEW q, NEW b \in Seq(DownFrame), NEW m \in Nat, More(p, d, n, q, b, m)
  PROVE  Wire(q, b, u, m)
  <1> USE DEF More
  <1>1. Len(d) \in Nat /\ Len(b) \in Nat
    OBVIOUS
  <1>2. ASSUME NEW i \in 1 .. Len(b), i <= Len(d)
        PROVE  i \in 1 .. Len(d) /\ b[i] = d[i] /\ d[i].seq \in Seqs /\ d[i].seq <= n /\ p[d[i].seq] \in {Nothing, d[i].what}
    <2>1. i \in 1 .. Len(d)
      BY <1>1, <1>2
    <2>3. d[i].seq \in Seqs
      BY <2>1, DownSeq
    <2>4. d[i].seq <= n /\ p[d[i].seq] \in {Nothing, d[i].what}
      BY <2>1 DEF Wire
    <2> QED
      BY <2>1, <2>3, <2>4
  <1>3. ASSUME NEW i \in 1 .. Len(b), ~(i <= Len(d))
        PROVE  /\ i \in Len(d) + 1 .. Len(b) /\ b[i].seq \in Seqs /\ n < b[i].seq /\ b[i].seq <= m
               /\ q[b[i].seq] \in {Nothing, b[i].what}
    <2>1. i \in Len(d) + 1 .. Len(b)
      BY <1>1, <1>3
    <2>2. b[i].seq \in Seqs
      BY DownSeq
    <2> QED
      BY <2>1, <2>2
  <1>4. \A s \in Seqs : s \in Nat
    BY LinkAssumption DEF Seqs
  <1>5. ASSUME NEW i \in 1 .. Len(b) PROVE b[i].seq <= m /\ q[b[i].seq] \in {Nothing, b[i].what}
    <2>1. CASE i <= Len(d)
      <3> PICK s \in Seqs : s = d[i].seq
        BY <1>2, <2>1
      <3>1. s <= n /\ p[s] \in {Nothing, d[i].what} /\ b[i] = d[i]
        BY <1>2, <2>1
      <3>2. q[s] \in {Nothing, d[i].what} /\ s <= m
        BY <1>4, <3>1
      <3> QED
        BY <3>1, <3>2
    <2>2. CASE ~(i <= Len(d))
      BY <1>3, <2>2
    <2> QED
      BY <2>1, <2>2
  <1>6. ASSUME NEW i \in 1 .. Len(b), NEW j \in 1 .. Len(b), i < j PROVE b[i].seq < b[j].seq
    <2>1. CASE i <= Len(d) /\ j <= Len(d)
      BY <1>2, <1>6, <2>1 DEF Wire
    <2>2. CASE i <= Len(d) /\ ~(j <= Len(d))
      <3>1. b[i].seq \in Nat /\ b[i].seq <= n
        BY <1>2, <1>4, <2>2
      <3>2. b[j].seq \in Nat /\ n < b[j].seq
        BY <1>3, <1>4, <2>2
      <3> QED
        BY <3>1, <3>2
    <2>3. CASE ~(i <= Len(d))
      BY <1>1, <1>3, <1>6, <2>3
    <2> QED
      BY <2>1, <2>2, <2>3
  <1>7. ASSUME NEW i \in 1 .. Len(u), IsReply(u[i])
        PROVE  u[i].seq <= m /\ q[u[i].seq] \in {Nothing, u[i].what} /\ \A j \in 1 .. Len(b) : u[i].seq < b[j].seq
    <2> PICK s \in Seqs : s = u[i].seq
      BY <1>7, UpTypes
    <2>1. s <= n /\ p[s] \in {Nothing, u[i].what} /\ \A j \in 1 .. Len(d) : s < d[j].seq
      BY <1>7 DEF Wire
    <2>2. s <= m /\ q[s] \in {Nothing, u[i].what}
      BY <1>4, <2>1
    <2>3. ASSUME NEW j \in 1 .. Len(b) PROVE s < b[j].seq
      BY <1>2, <1>3, <1>4, <2>1
    <2> QED
      BY <2>2, <2>3
  <1>8. \A i, j \in 1 .. Len(u) : i < j /\ IsReply(u[i]) /\ IsReply(u[j]) => u[i].seq < u[j].seq
    BY DEF Wire
  <1> QED
    BY <1>5, <1>6, <1>7, <1>8 DEF Wire

LEMMA WireSend ==
  ASSUME NEW p \in Pendings, NEW d \in Seq(DownFrame), NEW u \in Seq(UpFrame), NEW n \in Nat, Wire(p, d, u, n),
         NEW w \in Seq(Asks), n + Len(w) <= MaxSeq, NEW m \in Nat, n + Len(w) <= m
  PROVE  Wire(Waits(p, n, w), Behind(d, n, w), u, m)
  <1>1. /\ Behind(d, n, w) \in Seq(DownFrame) /\ Len(Behind(d, n, w)) = Len(d) + Len(w)
        /\ \A i \in 1 .. Len(d) : Behind(d, n, w)[i] = d[i]
        /\ \A i \in 1 .. Len(w) : Behind(d, n, w)[Len(d) + i] = [seq |-> n + i, what |-> w[i]]
    BY BehindIs
  <1>2. /\ \A i \in 1 .. Len(w) : n + i \in Seqs /\ Waits(p, n, w)[n + i] = w[i]
        /\ \A s \in Seqs : s <= n => Waits(p, n, w)[s] = p[s]
        /\ \A s \in Seqs : n + Len(w) < s => Waits(p, n, w)[s] = p[s]
    BY WaitsIs DEF Pendings
  <1>3. Len(d) \in Nat /\ Len(w) \in Nat /\ n <= m /\ \A s \in Seqs : s \in Nat
    BY LinkAssumption DEF Seqs
  <1> PICK b : b = Behind(d, n, w)
    OBVIOUS
  <1> PICK q : q = Waits(p, n, w)
    OBVIOUS
  <1>4. ASSUME NEW i \in Len(d) + 1 .. Len(b)
        PROVE  /\ b[i].seq = n + (i - Len(d)) /\ n < b[i].seq /\ b[i].seq <= m
               /\ q[b[i].seq] \in {Nothing, b[i].what}
    <2> PICK k \in 1 .. Len(w) : i = Len(d) + k
      <3>1. i - Len(d) \in 1 .. Len(w)
        BY <1>1, <1>3
      <3>2. i = Len(d) + (i - Len(d))
        BY <1>3
      <3> QED
        BY <3>1, <3>2
    <2>1. b[i] = [seq |-> n + k, what |-> w[k]]
      BY <1>1
    <2>2. b[i].seq = n + k /\ b[i].what = w[k]
      BY <2>1
    <2> QED
      BY <1>2, <1>3, <2>2
  <1>5. ASSUME NEW s \in Seqs, q[s] # Nothing PROVE s <= m
    <2>1. CASE s <= n
      BY <1>3, <2>1
    <2>2. CASE n + Len(w) < s
      <3>1. p[s] # Nothing
        BY <1>2, <1>5, <2>2
      <3>2. s <= n
        BY <3>1 DEF Wire
      <3> QED
        BY <1>3, <3>2
    <2> QED
      BY <1>3, <2>1, <2>2
  <1>6. ASSUME NEW i \in Len(d) + 1 .. Len(b), NEW j \in Len(d) + 1 .. Len(b), i < j
        PROVE  b[i].seq < b[j].seq
    <2>1. n + (i - Len(d)) < n + (j - Len(d))
      BY <1>3, <1>6
    <2>2. b[i].seq = n + (i - Len(d)) /\ b[j].seq = n + (j - Len(d))
      BY <1>4
    <2> QED
      BY <2>1, <2>2
  <1>7. \A s \in Seqs : s <= n => q[s] \in {Nothing, p[s]}
    BY <1>2
  <1>8. b \in Seq(DownFrame) /\ Len(d) <= Len(b) /\ \A i \in 1 .. Len(d) : b[i] = d[i]
    BY <1>1, <1>3
  <1>9. \A i \in Len(d) + 1 .. Len(b) : n < b[i].seq /\ b[i].seq <= m /\ q[b[i].seq] \in {Nothing, b[i].what}
    BY <1>4
  <1>10. n <= m
    BY <1>3
  <1>11. More(p, d, n, q, b, m)
    BY <1>5, <1>6, <1>7, <1>8, <1>9, <1>10 DEF More
  <1> QED
    BY <1>8, <1>11, WireMore

LEMMA WireForget ==
  ASSUME NEW p, NEW d, NEW u \in Seq(UpFrame), NEW n, Wire(p, d, u, n), d \in Seq(DownFrame),
         NEW q, \A s \in Seqs : q[s] \in {Nothing, p[s]}
  PROVE  Wire(q, d, u, n)
  <1>1. \A i \in 1 .. Len(d) : d[i].seq \in Seqs
    BY DownSeq
  <1>2. \A i \in 1 .. Len(u) : IsReply(u[i]) => u[i].seq \in Seqs
    BY UpTypes
  <1> QED
    BY <1>1, <1>2 DEF Wire

LEMMA WireTailDown ==
  ASSUME NEW p, NEW d \in Seq(DownFrame), NEW u \in Seq(UpFrame), NEW n, Wire(p, d, u, n), d # <<>>
  PROVE  /\ Wire(p, Tail(d), u, n)
         /\ \A j \in 1 .. Len(Tail(d)) : Head(d).seq < Tail(d)[j].seq
  <1> PICK e : e = Tail(d)
    OBVIOUS
  <1>1. Len(d) \in Nat /\ Len(e) = Len(d) - 1 /\ Head(d) = d[1] /\ \A i \in 1 .. Len(e) : e[i] = d[i + 1] /\ i + 1 \in 1 .. Len(d)
    BY HeadAndTail
  <1>2. 1 \in 1 .. Len(d) /\ \A i, j \in 1 .. Len(e) : i < j => i + 1 < j + 1
    BY <1>1
  <1>3. \A i \in 1 .. Len(e) : 1 < i + 1
    BY <1>1
  <1>4. \A j \in 1 .. Len(e) : Head(d).seq < e[j].seq
    BY <1>1, <1>2, <1>3 DEF Wire
  <1>5. Wire(p, e, u, n)
    BY <1>1, <1>2 DEF Wire
  <1> QED
    BY <1>4, <1>5

LEMMA WireTailUp ==
  ASSUME NEW p, NEW d \in Seq(DownFrame), NEW u \in Seq(UpFrame), NEW n, Wire(p, d, u, n), u # <<>>
  PROVE  /\ Wire(p, d, Tail(u), n)
         /\ IsReply(Head(u)) => \A j \in 1 .. Len(Tail(u)) : IsReply(Tail(u)[j]) => Head(u).seq < Tail(u)[j].seq
         /\ IsReply(Head(u)) => p[Head(u).seq] \in {Nothing, Head(u).what}
  <1> PICK e : e = Tail(u)
    OBVIOUS
  <1>1. Len(u) \in Nat /\ Len(e) = Len(u) - 1 /\ Head(u) = u[1] /\ \A i \in 1 .. Len(e) : e[i] = u[i + 1] /\ i + 1 \in 1 .. Len(u)
    BY HeadAndTail
  <1>2. 1 \in 1 .. Len(u) /\ \A i, j \in 1 .. Len(e) : i < j => i + 1 < j + 1
    BY <1>1, HeadAndTail
  <1>3. \A i \in 1 .. Len(e) : 1 < i + 1
    BY <1>1
  <1>4. IsReply(Head(u)) => \A j \in 1 .. Len(e) : IsReply(e[j]) => Head(u).seq < e[j].seq
    BY <1>1, <1>2, <1>3 DEF Wire
  <1>5. Wire(p, d, e, n)
    BY <1>1, <1>2 DEF Wire
  <1>6. IsReply(Head(u)) => p[Head(u).seq] \in {Nothing, Head(u).what}
    BY <1>1, <1>2 DEF Wire
  <1> QED
    BY <1>4, <1>5, <1>6

LEMMA AppendIs ==
  ASSUME NEW S, NEW q \in Seq(S), NEW x \in S
  PROVE  /\ Append(q, x) \in Seq(S) /\ Len(Append(q, x)) = Len(q) + 1 /\ Len(q) \in Nat
         /\ \A i \in 1 .. Len(q) : Append(q, x)[i] = q[i]
         /\ Append(q, x)[Len(q) + 1] = x
  OBVIOUS

\* A reply to a frame that has left, behind the others.
LEMMA WireAppend ==
  ASSUME NEW p, NEW d \in Seq(DownFrame), NEW u \in Seq(UpFrame), NEW n, Wire(p, d, u, n),
         NEW g \in UpFrame,
         IsReply(g) => /\ g.seq <= n /\ p[g.seq] \in {Nothing, g.what}
                       /\ \A j \in 1 .. Len(d) : g.seq < d[j].seq
                       /\ \A i \in 1 .. Len(u) : IsReply(u[i]) => u[i].seq < g.seq
  PROVE  Wire(p, d, Append(u, g), n)
  <1> PICK v : v = Append(u, g)
    OBVIOUS
  <1>1. Len(v) = Len(u) + 1 /\ Len(u) \in Nat
    BY AppendIs
  <1>2. (\A i \in 1 .. Len(u) : v[i] = u[i]) /\ v[Len(u) + 1] = g
    BY AppendIs
  <1>3. \A i \in 1 .. Len(v) : (i \in 1 .. Len(u) /\ v[i] = u[i]) \/ (i = Len(u) + 1 /\ v[i] = g)
    BY <1>1, <1>2
  <1>4. \A i \in 1 .. Len(v) : IsReply(v[i]) =>
           /\ v[i].seq <= n /\ p[v[i].seq] \in {Nothing, v[i].what}
           /\ \A j \in 1 .. Len(d) : v[i].seq < d[j].seq
    BY <1>3 DEF Wire
  <1>5. \A i, j \in 1 .. Len(v) : i < j /\ IsReply(v[i]) /\ IsReply(v[j]) => v[i].seq < v[j].seq
    BY <1>1, <1>3 DEF Wire
  <1> QED
    BY <1>4, <1>5 DEF Wire

Wiring == Wire(pending, down, up, seq)

\* What a step does to the frames of a session, for Wiring and for what follows.
LEMMA StepWiring ==
  ASSUME Types, Wiring, [Next]_vars
  PROVE  Wiring'
  <1>1. /\ pending \in Pendings /\ down \in Seq(DownFrame) /\ up \in Seq(UpFrame) /\ seq \in Nat
        /\ seq <= MaxSeq /\ MaxSeq \in Nat
    BY LinkAssumption DEF Types, Pendings
  <1>2. Wire(pending, down, up, seq)
    BY DEF Wiring
  <1>3. ASSUME NEW w \in Seq(Asks), Sending(w), up' = up PROVE Wiring'
    <2>1. seq' \in Nat /\ seq + Len(w) <= seq' /\ seq + Len(w) <= MaxSeq /\ Len(w) \in Nat
      BY <1>1, <1>3 DEF Sending
    <2>2. Wire(Waits(pending, seq, w), Behind(down, seq, w), up, seq')
      BY <1>1, <1>2, <2>1, WireSend
    <2> QED
      BY <1>3, <2>2 DEF Wiring, Sending
  <1>4. ASSUME UNCHANGED <<pending, down, up, seq>> PROVE Wiring'
    BY <1>2, <1>4 DEF Wiring
  <1>5. ASSUME up # <<>>, up' = Tail(up), UNCHANGED <<pending, down, seq>> PROVE Wiring'
    <2>1. Wire(pending, down, Tail(up), seq)
      BY <1>1, <1>2, <1>5, WireTailUp
    <2> QED
      BY <1>5, <2>1 DEF Wiring
  <1>6. ASSUME down # <<>>, down' = Tail(down), UNCHANGED <<pending, up, seq>> PROVE Wiring'
    <2>1. Wire(pending, Tail(down), up, seq)
      BY <1>1, <1>2, <1>6, WireTailDown
    <2> QED
      BY <1>6, <2>1 DEF Wiring
  <1>7. CASE Unasked \/ \E r \in Requests : Submit(r)
    BY <1>3, <1>4, <1>7, UnaskedIs, SubmitIs DEF sendVars
  <1>8. CASE Turns
    BY <1>4, <1>8, TurnsIs DEF sendVars
  <1>9. CASE OnSample
    BY <1>5, <1>9, OnSampleIs DEF sendVars
  <1>10. CASE OnReply
    <2> PICK f \in UpFrame, w \in Seq(Asks) :
           /\ f = Head(up) /\ IsReply(f) /\ up # <<>> /\ up' = Tail(up)
           /\ down' = Behind(down, seq, w) /\ pending' = Waits(Taken(f), seq, w)
           /\ seq' \in seq + Len(w) .. MaxSeq - 2
      BY <1>10, OnReplyIs
    <2>1. Wire(pending, down, Tail(up), seq) /\ Tail(up) \in Seq(UpFrame)
      BY <1>1, <1>2, WireTailUp, HeadAndTail
    <2>2. Taken(f) \in Pendings /\ \A s \in Seqs : Taken(f)[s] \in {Nothing, pending[s]}
      BY <1>1 DEF Taken, Pendings
    <2>3. Wire(Taken(f), down, Tail(up), seq)
      BY <1>1, <2>1, <2>2, WireForget
    <2>4. seq' \in Nat /\ seq + Len(w) <= seq' /\ seq + Len(w) <= MaxSeq
      <3>1. seq' \in seq + Len(w) .. MaxSeq - 2 /\ Len(w) \in Nat
        OBVIOUS
      <3> QED
        BY <1>1, <3>1
    <2>5. Wire(Waits(Taken(f), seq, w), Behind(down, seq, w), Tail(up), seq')
      BY <1>1, <2>1, <2>2, <2>3, <2>4, WireSend
    <2> QED
      BY <2>5 DEF Wiring
  <1>11. CASE Expires
    <2>1. /\ \A s \in Seqs : pending'[s] \in {Nothing, pending[s]}
          /\ UNCHANGED <<down, up, seq>>
      BY <1>11, ExpireIs DEF Forget
    <2>2. Wire(pending', down, up, seq)
      BY <1>1, <1>2, <2>1, WireForget
    <2> QED
      BY <2>1, <2>2 DEF Wiring
  <1>12. CASE End
    <2>1. /\ pending' = [s \in Seqs |-> Nothing] /\ seq' = seq + 2 /\ up' = up
          /\ down' \in Seq(DownFrame) /\ Len(down') >= Len(down)
          /\ \A i \in 1 .. Len(down) : down'[i] = down[i]
      BY <1>12, EndIs
    <2>2. \A i \in 1 .. Len(down') : i > Len(down) => down'[i].seq \in {seq + 1, seq + 2}
      BY <1>12, EndIs
    <2>3. \A i, j \in 1 .. Len(down') : i > Len(down) /\ j > i => down'[i].seq < down'[j].seq
      BY <1>12, EndIs
    <2>4. Len(down) \in Nat /\ Len(down') \in Nat
      BY <1>1, <2>1
    <2>5. \A i \in Len(down) + 1 .. Len(down') : i \in 1 .. Len(down') /\ i > Len(down)
      BY <2>4
    <2>6. /\ \A i \in Len(down) + 1 .. Len(down') : down'[i].seq \in {seq + 1, seq + 2} /\ down'[i].seq \in Seqs
          /\ \A i, j \in Len(down) + 1 .. Len(down') : i < j => down'[i].seq < down'[j].seq
      BY <2>1, <2>2, <2>3, <2>5, DownSeq
    <2>7. \A i \in Len(down) + 1 .. Len(down') :
             seq < down'[i].seq /\ down'[i].seq <= seq' /\ pending'[down'[i].seq] \in {Nothing, down'[i].what}
      BY <1>1, <2>1, <2>6
    <2>8. More(pending, down, seq, pending', down', seq')
      BY <1>1, <2>1, <2>4, <2>6, <2>7 DEF More
    <2>9. Wire(pending', down', up, seq')
      <3>1. seq' \in Nat
        BY <1>1, <2>1
      <3> QED
        BY <1>1, <1>2, <2>1, <2>8, <3>1, WireMore
    <2> QED
      BY <2>1, <2>9 DEF Wiring
  <1>13. CASE Serve
    <2> PICK f \in DownFrame, g \in UpFrame :
           /\ down # <<>> /\ f = Head(down) /\ down' = Tail(down)
           /\ g.seq = f.seq /\ g.what = f.what /\ up' = Append(up, g)
           /\ UNCHANGED <<pending, seq>>
      <3> PICK f \in DownFrame, status \in Statuses :
             /\ down # <<>> /\ f = Head(down) /\ down' = Tail(down)
             /\ up' = Append(up, [seq |-> f.seq, what |-> f.what, status |-> status])
             /\ [seq |-> f.seq, what |-> f.what, status |-> status] \in UpFrame
             /\ UNCHANGED <<seq, pending>>
        BY <1>13, ServeIs
      <3> QED
        OBVIOUS
    <2>1. f = down[1] /\ 1 \in 1 .. Len(down) /\ Tail(down) \in Seq(DownFrame)
      BY <1>1, HeadAndTail
    <2>2. /\ g.seq <= seq /\ pending[g.seq] \in {Nothing, g.what}
          /\ \A i \in 1 .. Len(up) : IsReply(up[i]) => up[i].seq < g.seq
      BY <1>2, <2>1 DEF Wire
    <2>3. Wire(pending, Tail(down), up, seq) /\ \A j \in 1 .. Len(Tail(down)) : g.seq < Tail(down)[j].seq
      BY <1>1, <1>2, WireTailDown
    <2>4. Wire(pending, Tail(down), Append(up, g), seq)
      BY <1>1, <2>1, <2>2, <2>3, WireAppend
    <2> QED
      BY <2>4 DEF Wiring
  <1>14. CASE Sample
    <2> PICK f \in UpFrame : ~IsReply(f) /\ up' = Append(up, f) /\ UNCHANGED <<pending, seq, down>>
      BY <1>14, SampleIs DEF sendVars
    <2>1. Wire(pending, down, Append(up, f), seq)
      BY <1>1, <1>2, WireAppend
    <2> QED
      BY <2>1 DEF Wiring
  <1>15. CASE LoseUp
    BY <1>5, <1>15 DEF LoseUp, sendVars
  <1>16. CASE Elsewhere \/ UNCHANGED vars
    BY <1>4, <1>6, <1>16 DEF Elsewhere, LoseDown, LeaseLapses, Takeover, vars, sendVars
  <1> QED
    BY <1>7, <1>8, <1>9, <1>10, <1>11, <1>12, <1>13, <1>14, <1>15, <1>16, NextIs

------------------------------------------------------------------------------
(* Where a request is *)

PendOf(p, r) == {s \in Seqs : p[s] = Tuning(r)}
SentOf(d, r) == {s \in Seqs : \E i \in 1 .. Len(d) : d[i].what = Tuning(r) /\ d[i].seq = s}
BackOf(u, r) == {f \in UpFrame : \E i \in 1 .. Len(u) : u[i] = f /\ f.what = Tuning(r)}

LEMMA PendWaits ==
  ASSUME NEW p \in Pendings, NEW n \in Nat, NEW w \in Seq(Asks), n + Len(w) <= MaxSeq,
         \A s \in Seqs : p[s] # Nothing => s <= n, NEW r
  PROVE  /\ (\A i \in 1 .. Len(w) : w[i] # Tuning(r)) => PendOf(Waits(p, n, w), r) = PendOf(p, r)
         /\ PendOf(p, r) = {} /\ w = <<Tuning(r)>> => PendOf(Waits(p, n, w), r) = {n + 1}
  <1>1. /\ \A i \in 1 .. Len(w) : n + i \in Seqs /\ Waits(p, n, w)[n + i] = w[i]
        /\ \A s \in Seqs : s <= n => Waits(p, n, w)[s] = p[s]
        /\ \A s \in Seqs : n + Len(w) < s => Waits(p, n, w)[s] = p[s]
        /\ \A s \in Seqs : n < s /\ s <= n + Len(w) => s - n \in 1 .. Len(w) /\ Waits(p, n, w)[s] = w[s - n]
    BY WaitsIs DEF Pendings
  <1>2. Tuning(r) # Nothing /\ \A s \in Seqs : s \in Nat
    BY LinkAssumption DEF Tuning, Nothing, Plain, Seqs
  <1> PICK q : q = Waits(p, n, w)
    OBVIOUS
  <1>3. ASSUME \A i \in 1 .. Len(w) : w[i] # Tuning(r), NEW s \in Seqs
        PROVE  q[s] = Tuning(r) <=> p[s] = Tuning(r)
    <2>1. CASE s <= n \/ n + Len(w) < s
      BY <1>1, <2>1
    <2>2. CASE n < s /\ s <= n + Len(w)
      <3>1. q[s] # Tuning(r)
        BY <1>1, <1>3, <2>2
      <3>2. p[s] = Nothing
        BY <1>2, <2>2
      <3> QED
        BY <1>2, <3>1, <3>2
    <2> QED
      BY <1>2, <2>1, <2>2
  <1>4. ASSUME PendOf(p, r) = {}, w = <<Tuning(r)>>
        PROVE  PendOf(q, r) = {n + 1}
    <2>1. Len(w) = 1 /\ w[1] = Tuning(r) /\ 1 \in 1 .. Len(w)
      BY <1>4
    <2>2. n + 1 \in Seqs /\ q[n + 1] = Tuning(r)
      BY <1>1, <2>1
    <2>3. ASSUME NEW s \in Seqs, s # n + 1 PROVE q[s] # Tuning(r)
      <3>1. s <= n \/ n + Len(w) < s
        BY <1>2, <2>1, <2>3
      <3>2. q[s] = p[s]
        BY <1>1, <3>1
      <3> QED
        BY <1>4, <3>2 DEF PendOf
    <2> QED
      BY <2>2, <2>3 DEF PendOf
  <1> QED
    BY <1>3, <1>4 DEF PendOf

LEMMA SentBehind ==
  ASSUME NEW d \in Seq(DownFrame), NEW n \in Nat, NEW w \in Seq(Asks), n + Len(w) <= MaxSeq, NEW r
  PROVE  /\ (\A i \in 1 .. Len(w) : w[i] # Tuning(r)) => SentOf(Behind(d, n, w), r) = SentOf(d, r)
         /\ SentOf(d, r) = {} /\ w = <<Tuning(r)>> => SentOf(Behind(d, n, w), r) = {n + 1}
  <1>1. /\ Behind(d, n, w) \in Seq(DownFrame)
        /\ Len(Behind(d, n, w)) = Len(d) + Len(w)
        /\ \A i \in 1 .. Len(d) : Behind(d, n, w)[i] = d[i]
        /\ \A i \in 1 .. Len(w) : Behind(d, n, w)[Len(d) + i] = [seq |-> n + i, what |-> w[i]]
    BY BehindIs
  <1>2. Len(d) \in Nat /\ Len(w) \in Nat
    OBVIOUS
  <1> PICK b : b = Behind(d, n, w)
    OBVIOUS
  <1>3. ASSUME NEW i \in 1 .. Len(b)
        PROVE  \/ i \in 1 .. Len(d) /\ b[i] = d[i]
               \/ \E k \in 1 .. Len(w) : i = Len(d) + k /\ b[i].seq = n + k /\ b[i].what = w[k]
    <2>1. i \in 1 .. Len(d) \/ (i - Len(d) \in 1 .. Len(w) /\ i = Len(d) + (i - Len(d)))
      BY <1>1, <1>2
    <2>2. CASE i \in 1 .. Len(d)
      BY <1>1, <2>2
    <2>3. ASSUME NEW k \in 1 .. Len(w), i = Len(d) + k PROVE b[i].seq = n + k /\ b[i].what = w[k]
      <3>1. b[i] = [seq |-> n + k, what |-> w[k]]
        BY <1>1, <2>3
      <3> QED
        BY <3>1
    <2> QED
      BY <2>1, <2>2, <2>3
  <1>4. \A i \in 1 .. Len(d) : i \in 1 .. Len(b) /\ b[i] = d[i]
    BY <1>1, <1>2
  <1>5. ASSUME \A i \in 1 .. Len(w) : w[i] # Tuning(r)
        PROVE  SentOf(b, r) = SentOf(d, r)
    <2>1. \A i \in 1 .. Len(b) : b[i].what = Tuning(r) => i \in 1 .. Len(d) /\ b[i] = d[i]
      BY <1>3, <1>5
    <2> QED
      BY <1>4, <2>1 DEF SentOf
  <1>6. ASSUME SentOf(d, r) = {}, w = <<Tuning(r)>>
        PROVE  SentOf(b, r) = {n + 1}
    <2>1. Len(w) = 1 /\ w[1] = Tuning(r) /\ 1 \in 1 .. Len(w)
      BY <1>6
    <2> PICK m : m = Len(d) + 1
      OBVIOUS
    <2>2. m \in 1 .. Len(b) /\ b[m].seq = n + 1 /\ b[m].what = Tuning(r)
      <3>1. b[m] = [seq |-> n + 1, what |-> w[1]]
        BY <1>1, <2>1
      <3>2. m \in 1 .. Len(b)
        BY <1>1, <1>2, <2>1
      <3> QED
        BY <2>1, <3>1, <3>2
    <2>3. n + 1 \in Seqs
      BY <1>1, <2>2, DownSeq
    <2>4. ASSUME NEW i \in 1 .. Len(b), b[i].what = Tuning(r) PROVE b[i].seq = n + 1
      <3>1. CASE i \in 1 .. Len(d) /\ b[i] = d[i]
        BY <1>6, <2>4, <3>1, DownSeq DEF SentOf
      <3>2. ASSUME NEW k \in 1 .. Len(w), b[i].seq = n + k PROVE b[i].seq = n + 1
        BY <2>1, <3>2
      <3> QED
        BY <1>3, <3>1, <3>2
    <2> QED
      BY <2>2, <2>3, <2>4 DEF SentOf
  <1> QED
    BY <1>5, <1>6

LEMMA SentTail ==
  ASSUME NEW p, NEW d \in Seq(DownFrame), NEW u \in Seq(UpFrame), NEW n, Wire(p, d, u, n), d # <<>>, NEW r
  PROVE  /\ SentOf(Tail(d), r) \subseteq SentOf(d, r)
         /\ Head(d).seq \notin SentOf(Tail(d), r)
         /\ Head(d).what = Tuning(r) => Head(d).seq \in SentOf(d, r)
  <1> PICK e : e = Tail(d)
    OBVIOUS
  <1>1. Len(d) \in Nat \ {0} /\ Len(e) = Len(d) - 1 /\ Head(d) = d[1] /\ \A i \in 1 .. Len(e) : e[i] = d[i + 1] /\ i + 1 \in 1 .. Len(d)
    BY HeadAndTail
  <1>2. \A j \in 1 .. Len(e) : Head(d).seq < e[j].seq /\ e[j].seq \in Nat
    BY WireTailDown, HeadAndTail, DownSeq
  <1>3. Head(d).seq \in Seqs /\ Head(d).seq \in Nat
    BY <1>1, DownSeq
  <1>4. \A j \in 1 .. Len(e) : e[j].seq # Head(d).seq
    BY <1>2, <1>3
  <1>5. 1 \in 1 .. Len(d)
    BY <1>1
  <1> QED
    BY <1>1, <1>3, <1>4, <1>5 DEF SentOf

LEMMA BackTail ==
  ASSUME NEW p, NEW d \in Seq(DownFrame), NEW u \in Seq(UpFrame), NEW n, Wire(p, d, u, n), u # <<>>, NEW r
  PROVE  /\ BackOf(Tail(u), r) \subseteq BackOf(u, r)
         /\ IsReply(Head(u)) => \A f \in BackOf(Tail(u), r) : f.seq # Head(u).seq
         /\ Head(u).what = Tuning(r) => Head(u) \in BackOf(u, r)
  <1> PICK e : e = Tail(u)
    OBVIOUS
  <1>1. Len(u) \in Nat \ {0} /\ Len(e) = Len(u) - 1 /\ Head(u) = u[1] /\ \A i \in 1 .. Len(e) : e[i] = u[i + 1] /\ i + 1 \in 1 .. Len(u)
    BY HeadAndTail
  <1>2. Head(u) \in UpFrame /\ 1 \in 1 .. Len(u)
    BY <1>1, HeadAndTail
  <1>3. ASSUME IsReply(Head(u)), NEW j \in 1 .. Len(e), e[j].what = Tuning(r)
        PROVE  e[j].seq # Head(u).seq
    <2>1. IsReply(e[j])
      BY <1>3 DEF IsReply, Tuning
    <2>2. Head(u).seq < e[j].seq
      BY <1>3, <2>1, WireTailUp
    <2>3. e[j] \in UpFrame
      BY HeadAndTail
    <2>4. e[j].seq \in Seqs /\ Head(u).seq \in Seqs
      BY <1>2, <1>3, <2>1, <2>3, UpTypes
    <2> QED
      BY <2>2, <2>4, LinkAssumption DEF Seqs
  <1> QED
    BY <1>1, <1>2, <1>3 DEF BackOf

LEMMA BackAppend ==
  ASSUME NEW u \in Seq(UpFrame), NEW g \in UpFrame, NEW r
  PROVE  /\ g.what # Tuning(r) => BackOf(Append(u, g), r) = BackOf(u, r)
         /\ BackOf(Append(u, g), r) \subseteq BackOf(u, r) \union {g}
  <1> PICK v : v = Append(u, g)
    OBVIOUS
  <1>1. Len(v) = Len(u) + 1 /\ Len(u) \in Nat
    BY AppendIs
  <1>2. (\A i \in 1 .. Len(u) : v[i] = u[i]) /\ v[Len(u) + 1] = g
    BY AppendIs
  <1>3. \A i \in 1 .. Len(v) : (i \in 1 .. Len(u) /\ v[i] = u[i]) \/ v[i] = g
    BY <1>1, <1>2
  <1>4. \A i \in 1 .. Len(u) : i \in 1 .. Len(v) /\ v[i] = u[i]
    BY <1>1, <1>2
  <1> QED
    BY <1>3, <1>4 DEF BackOf

------------------------------------------------------------------------------
(* What a session promises of a request *)

Words == Statuses \union {"invalid", "dropped", "late", "closed"}
Told(a) == a = <<>> \/ a = <<"late">> \/ a = <<"closed">>

\* p numbers what waits for the request's reply, q its frames on the way to the
\* firmware, u are its replies on the way back, a its answers, k says how often it
\* was carried out.  There is one frame for it, then one reply, under one number;
\* before the frame is served it is not carried out, and the reply says whether
\* it was.
PromisedOf(p, q, u, a, k) ==
  /\ k \in {0, 1}
  /\ a = <<>> \/ \E w \in Words : a = <<w>>
  /\ p # {} => a = <<>>
  /\ a = <<>> /\ p = {} => q = {} /\ u = {} /\ k = 0
  /\ \E n \in Seqs : p \subseteq {n} /\ q \subseteq {n} /\ \A f \in u : f.seq = n
  /\ q # {} => u = {} /\ k = 0 /\ Told(a)
  /\ \A f \in u : /\ Told(a)
                  /\ \/ f.status = "ok" /\ k = 1
                     \/ f.status \in {"refused", "lost"} /\ k = 0

\* Frames may get lost.
LEMMA Fewer ==
  ASSUME NEW p, NEW q, NEW u, NEW a, NEW k, PromisedOf(p, q, u, a, k),
         NEW q2, q2 \subseteq q, NEW u2, u2 \subseteq u
  PROVE  PromisedOf(p, q2, u2, a, k)
  BY DEF PromisedOf

\* It is asked for, or refused before it is.
LEMMA Asked ==
  ASSUME NEW q, NEW u, NEW k, PromisedOf({}, q, u, <<>>, k), NEW n \in Seqs
  PROVE  /\ PromisedOf({n}, {n}, u, <<>>, k)
         /\ \A w \in Words : PromisedOf({}, q, u, <<w>>, k)
         /\ k = 0 /\ q = {} /\ u = {}
  <1>1. k = 0 /\ q = {} /\ u = {}
    BY DEF PromisedOf
  <1>2. PromisedOf({n}, {n}, u, <<>>, k)
    BY <1>1 DEF PromisedOf, Told
  <1>3. ASSUME NEW w \in Words PROVE PromisedOf({}, q, u, <<w>>, k)
    BY <1>1, <1>3 DEF PromisedOf
  <1> QED
    BY <1>1, <1>2, <1>3

\* Its frame, which f answers, leaves the frames q on the way for q2; the reply may
\* get lost on its way to u2.
Serving(q, u, k, f, q2, u2, k2) ==
  /\ f.seq \in q /\ q2 \subseteq q /\ f.seq \notin q2
  /\ u2 \subseteq u \union {f}
  /\ (f.status = "ok" /\ k2 = k + 1) \/ (f.status \in {"refused", "lost"} /\ k2 = k)

\* Its frame is served.
LEMMA Handled ==
  ASSUME NEW p, NEW q, NEW u, NEW a, NEW k, PromisedOf(p, q, u, a, k),
         NEW f, NEW q2, NEW u2, NEW k2, Serving(q, u, k, f, q2, u2, k2)
  PROVE  /\ PromisedOf(p, q2, u2, a, k2) /\ k = 0 /\ Told(a)
         /\ a # <<>> \/ p # {}
  <1> USE DEF Serving
  <1>1. u = {} /\ k = 0 /\ Told(a) /\ q # {}
    BY DEF PromisedOf
  <1>2. q2 = {} /\ \E n \in Seqs : p \subseteq {n} /\ f.seq = n
    BY DEF PromisedOf
  <1>3. \A g \in u2 : g = f
    BY <1>1
  <1>4. k2 \in {0, 1} /\ ((f.status = "ok" /\ k2 = 1) \/ (f.status \in {"refused", "lost"} /\ k2 = 0))
    BY <1>1
  <1>5. a # <<>> \/ p # {}
    BY <1>1 DEF PromisedOf
  <1>6. \E n \in Seqs : p \subseteq {n} /\ q2 \subseteq {n} /\ \A g \in u2 : g.seq = n
    BY <1>2, <1>3
  <1>7. \A g \in u2 : Told(a) /\ ((g.status = "ok" /\ k2 = 1) \/ (g.status \in {"refused", "lost"} /\ k2 = 0))
    BY <1>1, <1>3, <1>4
  <1> QED
    BY <1>1, <1>2, <1>4, <1>5, <1>6, <1>7 DEF PromisedOf

\* Its reply f leaves the replies u for u2, and it still waits.
Taking(p, u, f, u2) ==
  /\ f \in u /\ f.status \in Statuses /\ p # {}
  /\ u2 \subseteq {g \in u : g.seq # f.seq}

\* Its reply is taken.
LEMMA Replied ==
  ASSUME NEW p, NEW q, NEW u, NEW a, NEW k, PromisedOf(p, q, u, a, k),
         NEW f, NEW u2, Taking(p, u, f, u2)
  PROVE  PromisedOf({}, q, u2, <<f.status>>, k) /\ a = <<>>
  <1> USE DEF Taking
  <1>1. q = {} /\ a = <<>>
    BY DEF PromisedOf
  <1>2. u2 = {}
    BY DEF PromisedOf
  <1>3. <<f.status>> # <<>> /\ f.status \in Words
    BY DEF Words
  <1>4. Seqs # {} /\ k \in {0, 1}
    BY DEF PromisedOf
  <1> QED
    BY <1>1, <1>2, <1>3, <1>4 DEF PromisedOf

\* Nobody waits for it any longer.
LEMMA GivenUp ==
  ASSUME NEW p, NEW q, NEW u, NEW a, NEW k, PromisedOf(p, q, u, a, k), p # {}, NEW w \in {"late", "closed"}
  PROVE  PromisedOf({}, q, u, <<w>>, k) /\ a = <<>>
  <1>1. a = <<>> /\ <<w>> # <<>> /\ Told(<<w>>) /\ w \in Words
    BY DEF PromisedOf, Told, Words
  <1> QED
    BY <1>1 DEF PromisedOf

------------------------------------------------------------------------------
(* The contract, step by step *)

Placed ==
  /\ answers \in [Requests -> Seq(Words)]
  /\ \A r \in Requests : PromisedOf(PendOf(pending, r), SentOf(down, r), BackOf(up, r), answers[r], applied[r])

PromisedNext(r) == PromisedOf(PendOf(pending', r), SentOf(down', r), BackOf(up', r), answers'[r], applied'[r])

\* What the asker knows, by the answer.
Knows(a) == IF a = "ok" THEN "ok" ELSE IF a \in {"late", "closed"} THEN "unknown" ELSE "refused"

LEMMA KnownIs ==
  ASSUME NEW r \in Requests
  PROVE  /\ answers[r] = <<>> => Known(r) = IF PendOf(pending, r) # {} THEN "waiting" ELSE "idle"
         /\ \A a : answers[r] = <<a>> => Known(r) = Knows(a)
  <1>1. ASSUME NEW a, answers[r] = <<a>> PROVE Known(r) = Knows(a)
    <2>1. answers[r] # <<>> /\ ~(Len(answers[r]) > 1) /\ Head(answers[r]) = a
      BY <1>1
    <2>2. CASE a = "ok"
      BY <2>1, <2>2 DEF Known, Knows
    <2>3. CASE a \in {"late", "closed"}
      BY <2>1, <2>3 DEF Known, Knows
    <2>4. CASE a \notin {"ok", "late", "closed"}
      BY <2>1, <2>4 DEF Known, Knows
    <2> QED
      BY <2>2, <2>3, <2>4
  <1>2. r \in InFlight <=> PendOf(pending, r) # {}
    BY DEF InFlight, PendOf
  <1>3. CASE answers[r] = <<>>
    BY <1>2, <1>3 DEF Known
  <1> QED
    BY <1>1, <1>3

LEMMA KnownIsNext ==
  ASSUME NEW r \in Requests
  PROVE  /\ answers'[r] = <<>> => Known(r)' = IF PendOf(pending', r) # {} THEN "waiting" ELSE "idle"
         /\ \A a : answers'[r] = <<a>> => Known(r)' = Knows(a)
  <1>1. ASSUME NEW a, answers'[r] = <<a>> PROVE Known(r)' = Knows(a)
    <2>1. answers'[r] # <<>> /\ ~(Len(answers'[r]) > 1) /\ Head(answers'[r]) = a
      BY <1>1
    <2>2. CASE a = "ok"
      BY <2>1, <2>2 DEF Known, Knows
    <2>3. CASE a \in {"late", "closed"}
      BY <2>1, <2>3 DEF Known, Knows
    <2>4. CASE a \notin {"ok", "late", "closed"}
      BY <2>1, <2>4 DEF Known, Knows
    <2> QED
      BY <2>2, <2>3, <2>4
  <1>2. (r \in InFlight)' <=> PendOf(pending', r) # {}
    BY DEF InFlight, PendOf
  <1>3. CASE answers'[r] = <<>>
    BY <1>2, <1>3 DEF Known
  <1> QED
    BY <1>1, <1>3

\* A step that has nothing to do with this request, or loses its frames.
Same(r) ==
  /\ PendOf(pending', r) = PendOf(pending, r)
  /\ SentOf(down', r) \subseteq SentOf(down, r) /\ BackOf(up', r) \subseteq BackOf(up, r)
  /\ answers'[r] = answers[r] /\ applied'[r] = applied[r]

LEMMA KnownKept ==
  ASSUME NEW r \in Requests, Placed, PendOf(pending', r) = PendOf(pending, r), answers'[r] = answers[r]
  PROVE  Known(r)' = Known(r)
  <1>1. answers[r] = <<>> \/ \E w \in Words : answers[r] = <<w>>
    BY DEF Placed, PromisedOf
  <1>2. CASE answers[r] = <<>>
    BY <1>2, KnownIs, KnownIsNext
  <1>3. ASSUME NEW w \in Words, answers[r] = <<w>> PROVE Known(r)' = Known(r)
    BY <1>3, KnownIs, KnownIsNext
  <1> QED
    BY <1>1, <1>2, <1>3

LEMMA SameKept ==
  ASSUME NEW r \in Requests, Placed, Same(r)
  PROVE  PromisedNext(r) /\ Known(r)' = Known(r)
  <1>1. PromisedOf(PendOf(pending, r), SentOf(down, r), BackOf(up, r), answers[r], applied[r])
    BY DEF Placed
  <1>2. PromisedOf(PendOf(pending, r), SentOf(down', r), BackOf(up', r), answers[r], applied[r])
    BY <1>1, Fewer DEF Same
  <1> QED
    BY <1>2, KnownKept DEF Same, PromisedNext

Stutter == UNCHANGED <<[r \in Requests |-> Known(r)], applied>>

LEMMA StutterStep ==
  ASSUME applied' = applied, \A q \in Requests : Known(q)' = Known(q)
  PROVE  Stutter
  BY DEF Stutter

\* Only what is known of r changes.
Learnt(r) == \A q \in Requests : q # r => Known(q)' = Known(q)

LEMMA LearntIs ==
  ASSUME NEW r \in Requests, Learnt(r)
  PROVE  [q \in Requests |-> Known(q)]' = [[q \in Requests |-> Known(q)] EXCEPT ![r] = Known(r)']
  BY DEF Learnt

LEMMA AskStep ==
  ASSUME NEW r \in Requests, Learnt(r), applied' = applied, Known(r) = "idle", Known(r)' = "waiting"
  PROVE  Contract!Next
  <1>1. Contract!Ask(r)
    BY LearntIs DEF Contract!Ask
  <1> QED
    BY <1>1 DEF Contract!Next

LEMMA RefuseStep ==
  ASSUME NEW r \in Requests, Learnt(r), applied' = applied, Known(r) \in {"idle", "waiting"},
         Known(r)' = "refused", applied[r] = 0
  PROVE  Contract!Next
  <1>1. Contract!Refuse(r)
    BY LearntIs DEF Contract!Refuse
  <1> QED
    BY <1>1 DEF Contract!Next

LEMMA ConfirmStep ==
  ASSUME NEW r \in Requests, Learnt(r), applied' = applied, Known(r) = "waiting", Known(r)' = "ok", applied[r] = 1
  PROVE  Contract!Next
  <1>1. Contract!Confirm(r)
    BY LearntIs DEF Contract!Confirm
  <1> QED
    BY <1>1 DEF Contract!Next

LEMMA CarryOutStep ==
  ASSUME NEW r \in Requests, \A q \in Requests : Known(q)' = Known(q),
         Known(r) \in {"waiting", "unknown"}, applied[r] = 0, applied' = [applied EXCEPT ![r] = 1]
  PROVE  Contract!Next
  <1>1. Contract!CarryOut(r)
    BY DEF Contract!CarryOut
  <1> QED
    BY <1>1 DEF Contract!Next

LEMMA GiveUpStep ==
  ASSUME NEW S \in SUBSET Requests, applied' = applied,
         \A r \in S : Known(r) = "waiting" /\ Known(r)' = "unknown",
         \A r \in Requests \ S : Known(r)' = Known(r)
  PROVE  Contract!Next
  <1>1. Contract!GiveUp(S, {})
    BY DEF Contract!GiveUp
  <1> QED
    BY <1>1 DEF Contract!Next

Promised == Placed' /\ (Contract!Next \/ Stutter)

LEMMA PlacedNext ==
  ASSUME answers' \in [Requests -> Seq(Words)], \A r \in Requests : PromisedNext(r)
  PROVE  Placed'
  BY DEF Placed, PromisedNext, PendOf, SentOf, BackOf

LEMMA SamePromised ==
  ASSUME Placed, answers' = answers, applied' = applied, \A r \in Requests : Same(r)
  PROVE  Promised
  <1>1. \A r \in Requests : PromisedNext(r) /\ Known(r)' = Known(r)
    BY SameKept
  <1>2. Placed'
    BY <1>1, PlacedNext DEF Placed
  <1> QED
    BY <1>1, <1>2, StutterStep DEF Promised

\* The frames of whatever else is sent.
LEMMA SendingSame ==
  ASSUME Types, Wiring, NEW w \in Seq(Asks), Sending(w), NEW r
  PROVE  /\ (\A i \in 1 .. Len(w) : w[i] # Tuning(r)) =>
              PendOf(pending', r) = PendOf(pending, r) /\ SentOf(down', r) = SentOf(down, r)
         /\ PendOf(pending, r) = {} /\ SentOf(down, r) = {} /\ w = <<Tuning(r)>> =>
              PendOf(pending', r) = {seq + 1} /\ SentOf(down', r) = {seq + 1} /\ seq + 1 \in Seqs
  <1>1. /\ seq \in Nat /\ MaxSeq \in Nat /\ Len(w) \in Nat /\ seq' \in seq + Len(w) .. MaxSeq - 2
        /\ down' = Behind(down, seq, w) /\ pending' = Waits(pending, seq, w)
    BY LinkAssumption DEF Types, Sending
  <1>2. seq + Len(w) <= MaxSeq
    BY <1>1
  <1>3. pending \in Pendings /\ down \in Seq(DownFrame) /\ \A s \in Seqs : pending[s] # Nothing => s <= seq
    BY DEF Types, Pendings, Wiring, Wire
  <1>4. w = <<Tuning(r)>> => seq + 1 \in Seqs
    <2>1. ASSUME w = <<Tuning(r)>> PROVE seq + 1 \in Seqs
      <3>1. Len(w) = 1
        BY <2>1
      <3> QED
        BY <1>1, <1>2, <3>1 DEF Seqs
    <2> QED
      BY <2>1
  <1> QED
    BY <1>1, <1>2, <1>3, <1>4, PendWaits, SentBehind

LEMMA NoRequest ==
  ASSUME NEW x, x.kind # "REQUEST", NEW r
  PROVE  x # Tuning(r)
  BY DEF Tuning

LEMMA UnaskedKept ==
  ASSUME Types, Wiring, Placed, Unasked
  PROVE  Promised
  <1>1. UNCHANGED <<answers, applied, up>>
    BY UnaskedIs DEF fwVars
  <1> PICK w \in Seq(Asks) : Sending(w) /\ \A i \in 1 .. Len(w) : w[i].kind # "REQUEST"
    BY UnaskedIs
  <1>2. \A r \in Requests : Same(r)
    BY <1>1, SendingSame, NoRequest DEF Same
  <1> QED
    BY <1>1, <1>2, SamePromised

LEMMA FreshIs ==
  ASSUME Placed, NEW r \in Requests, Fresh(r)
  PROVE  /\ PendOf(pending, r) = {} /\ answers[r] = <<>> /\ Known(r) = "idle"
         /\ PromisedOf({}, SentOf(down, r), BackOf(up, r), <<>>, applied[r])
         /\ SentOf(down, r) = {} /\ applied[r] = 0
  <1>1. PendOf(pending, r) = {} /\ answers[r] = <<>>
    BY DEF Fresh, InFlight, PendOf
  <1>2. PromisedOf({}, SentOf(down, r), BackOf(up, r), <<>>, applied[r])
    BY <1>1 DEF Placed
  <1>3. 1 \in Seqs
    BY LinkAssumption DEF Seqs
  <1> QED
    BY <1>1, <1>2, <1>3, Asked, KnownIs

\* r is answered with w: the others' answers stay.
LEMMA AnswerIs ==
  ASSUME answers \in [Requests -> Seq(Words)], NEW r \in Requests, NEW w \in Words, Answer(r, w), answers[r] = <<>>
  PROVE  /\ answers' \in [Requests -> Seq(Words)] /\ answers'[r] = <<w>>
         /\ \A q \in Requests : q # r => answers'[q] = answers[q]
  <1>1. Append(<<>>, w) = <<w>> /\ <<w>> \in Seq(Words)
    OBVIOUS
  <1> QED
    BY <1>1 DEF Answer

\* Only what is promised of r has to be looked at.
LEMMA PlacedByOne ==
  ASSUME Placed, NEW r \in Requests, \A q \in Requests : q # r => Same(q), PromisedNext(r),
         answers' \in [Requests -> Seq(Words)]
  PROVE  Placed' /\ Learnt(r)
  <1>1. \A q \in Requests : PromisedNext(q) /\ (q # r => Known(q)' = Known(q))
    BY SameKept
  <1> QED
    BY <1>1, PlacedNext DEF Learnt

LEMMA SubmitKept ==
  ASSUME Types, Wiring, Placed, NEW r \in Requests, Submit(r)
  PROVE  Promised
  <1>1. /\ Fresh(r) /\ UNCHANGED <<applied, up>>
        /\ \/ Sending(<<Tuning(r)>>) /\ UNCHANGED <<pc, answers>>
           \/ Answer(r, "invalid") /\ UNCHANGED <<pc, sendVars>>
           \/ Sending(<<>>) /\ Answer(r, "dropped") /\ pc' = "ending"
        /\ <<Tuning(r)>> \in Seq(Asks) /\ <<>> \in Seq(Asks)
    BY SubmitIs DEF fwVars
  <1>2. /\ PendOf(pending, r) = {} /\ answers[r] = <<>> /\ Known(r) = "idle"
        /\ PromisedOf({}, SentOf(down, r), BackOf(up, r), <<>>, applied[r])
        /\ SentOf(down, r) = {} /\ applied[r] = 0
    BY <1>1, FreshIs
  <1>3. BackOf(up', r) = BackOf(up, r) /\ applied'[r] = applied[r] /\ answers \in [Requests -> Seq(Words)]
    BY <1>1 DEF Placed
  <1>4. CASE Sending(<<Tuning(r)>>) /\ UNCHANGED answers
    <2>1. /\ PendOf(pending', r) = {seq + 1} /\ SentOf(down', r) = {seq + 1} /\ seq + 1 \in Seqs
      BY <1>1, <1>2, <1>4, SendingSame
    <2>2. PromisedOf({seq + 1}, {seq + 1}, BackOf(up, r), <<>>, applied[r])
      BY <1>2, <2>1, Asked
    <2>3. PromisedNext(r)
      BY <1>2, <1>3, <1>4, <2>1, <2>2 DEF PromisedNext
    <2>4. ASSUME NEW q \in Requests, q # r PROVE Same(q)
      <3> PICK w \in Seq(Asks) : w = <<Tuning(r)>>
        BY <1>1
      <3>1. \A i \in 1 .. Len(w) : w[i] # Tuning(q)
        <4>1. Tuning(r) # Tuning(q)
          BY <2>4 DEF Tuning
        <4> QED
          BY <4>1
      <3>2. PendOf(pending', q) = PendOf(pending, q) /\ SentOf(down', q) = SentOf(down, q)
        BY <1>4, <3>1, SendingSame
      <3> QED
        BY <1>1, <1>4, <3>2 DEF Same
    <2>5. Placed' /\ Learnt(r)
      BY <1>3, <1>4, <2>3, <2>4, PlacedByOne
    <2>6. Known(r)' = "waiting"
      BY <1>2, <1>4, <2>1, KnownIsNext
    <2> QED
      BY <1>1, <1>2, <2>5, <2>6, AskStep DEF Promised
  <1>5. ASSUME NEW w \in {"invalid", "dropped"}, Answer(r, w),
               \A q : PendOf(pending', q) = PendOf(pending, q) /\ SentOf(down', q) = SentOf(down, q)
        PROVE  Promised
    <2>1. w \in Words
      BY DEF Words
    <2>2. /\ answers' \in [Requests -> Seq(Words)] /\ answers'[r] = <<w>>
          /\ \A q \in Requests : q # r => answers'[q] = answers[q]
      BY <1>2, <1>3, <1>5, <2>1, AnswerIs
    <2>3. PromisedOf({}, SentOf(down, r), BackOf(up, r), <<w>>, applied[r])
      <3>1. 1 \in Seqs
        BY LinkAssumption DEF Seqs
      <3> QED
        BY <1>2, <2>1, <3>1, Asked
    <2>4. PromisedNext(r)
      BY <1>2, <1>3, <1>5, <2>2, <2>3 DEF PromisedNext
    <2>5. \A q \in Requests : q # r => Same(q)
      BY <1>1, <1>5, <2>2 DEF Same
    <2>6. Placed' /\ Learnt(r)
      BY <2>2, <2>4, <2>5, PlacedByOne
    <2>7. Known(r)' = "refused"
      BY <2>2, KnownIsNext DEF Knows
    <2> QED
      BY <1>1, <1>2, <2>6, <2>7, RefuseStep DEF Promised
  <1>6. CASE Answer(r, "invalid") /\ UNCHANGED sendVars
    BY <1>5, <1>6 DEF sendVars
  <1>7. CASE Sending(<<>>) /\ Answer(r, "dropped")
    <2> PICK w \in Seq(Asks) : w = <<>>
      BY <1>1
    <2>1. Len(w) = 0 /\ Sending(w)
      BY <1>7
    <2>2. \A i \in 1 .. Len(w) : FALSE
      BY <2>1
    <2>3. \A q : PendOf(pending', q) = PendOf(pending, q) /\ SentOf(down', q) = SentOf(down, q)
      BY <2>1, <2>2, SendingSame
    <2> QED
      BY <1>5, <1>7, <2>3
  <1> QED
    BY <1>1, <1>4, <1>6, <1>7

LEMMA OnReplyKept ==
  ASSUME Types, Wiring, Placed, OnReply
  PROVE  Promised
  <1> PICK f \in UpFrame, w \in Seq(Asks) :
         /\ f = Head(up) /\ IsReply(f) /\ up # <<>> /\ up' = Tail(up)
         /\ Answered(pending[f.seq], f.status)
         /\ down' = Behind(down, seq, w) /\ pending' = Waits(Taken(f), seq, w)
         /\ seq' \in seq + Len(w) .. MaxSeq - 2
         /\ \A i \in 1 .. Len(w) : w[i].kind = "WATCH"
    BY OnReplyIs
  <1>1. applied' = applied
    BY OnReplyIs DEF fwVars
  <1>2. /\ pending \in Pendings /\ down \in Seq(DownFrame) /\ up \in Seq(UpFrame) /\ seq \in Nat
        /\ MaxSeq \in Nat /\ Wire(pending, down, up, seq)
    BY LinkAssumption DEF Types, Pendings, Wiring
  <1>3. f.seq \in Seqs /\ f.what \in Asks /\ f.status \in Statuses
    BY UpTypes
  <1> PICK x \in Asks \union {Nothing} : x = pending[f.seq]
    BY <1>2, <1>3 DEF Pendings
  <1>4. x \in {Nothing, f.what}
    BY <1>2, WireTailUp
  <1>5. seq + Len(w) <= MaxSeq
    <2>1. seq' \in seq + Len(w) .. MaxSeq - 2 /\ Len(w) \in Nat
      OBVIOUS
    <2> QED
      BY <1>2, <2>1
  <1>6. /\ Taken(f) \in Pendings /\ \A s \in Seqs : Taken(f)[s] # Nothing => s <= seq
        /\ \A s \in Seqs : Taken(f)[s] = IF s = f.seq THEN Nothing ELSE pending[s]
    <2>1. Taken(f) \in Pendings /\ \A s \in Seqs : Taken(f)[s] = IF s = f.seq THEN Nothing ELSE pending[s]
      BY <1>2 DEF Taken, Pendings
    <2> QED
      BY <1>2, <2>1 DEF Wire
  <1>7. ASSUME NEW q \in Requests
        PROVE  /\ PendOf(pending', q) = PendOf(pending, q) \ {f.seq}
               /\ SentOf(down', q) = SentOf(down, q) /\ BackOf(up', q) \subseteq BackOf(up, q)
    <2>1. \A i \in 1 .. Len(w) : w[i] # Tuning(q)
      BY NoRequest
    <2>2. PendOf(pending', q) = PendOf(Taken(f), q) /\ SentOf(down', q) = SentOf(down, q)
      <3>1. PendOf(pending', q) = PendOf(Taken(f), q)
        <4> PICK t \in Pendings : t = Taken(f)
          BY <1>6
        <4>1. \A s \in Seqs : t[s] # Nothing => s <= seq
          BY <1>6
        <4> PICK n \in Nat : n = seq
          BY <1>2
        <4>2. n + Len(w) <= MaxSeq /\ \A s \in Seqs : t[s] # Nothing => s <= n
          BY <1>5, <4>1
        <4>3. (\A i \in 1 .. Len(w) : w[i] # Tuning(q)) => PendOf(Waits(t, n, w), q) = PendOf(t, q)
          BY <4>2, PendWaits
        <4> QED
          BY <2>1, <4>3
      <3>2. SentOf(down', q) = SentOf(down, q)
        BY <1>2, <1>5, <2>1, SentBehind
      <3> QED
        BY <3>1, <3>2
    <2>3. Nothing # Tuning(q)
      BY DEF Nothing, Plain, Tuning
    <2>4. PendOf(Taken(f), q) = PendOf(pending, q) \ {f.seq}
      BY <1>6, <2>3 DEF PendOf
    <2>5. BackOf(up', q) \subseteq BackOf(up, q)
      BY <1>2, BackTail
    <2> QED
      BY <2>2, <2>4, <2>5
  <1>8. ASSUME NEW q \in Requests, x # Tuning(q), answers'[q] = answers[q] PROVE Same(q)
    <2>1. f.seq \notin PendOf(pending, q)
      BY <1>8 DEF PendOf
    <2>2. PendOf(pending', q) = PendOf(pending, q)
      BY <1>7, <2>1
    <2>3. SentOf(down', q) = SentOf(down, q) /\ BackOf(up', q) \subseteq BackOf(up, q)
      BY <1>7
    <2> QED
      BY <1>1, <1>8, <2>2, <2>3 DEF Same
  <1>9. CASE x.kind # "REQUEST"
    <2>1. answers' = answers
      BY <1>9 DEF Answered
    <2>2. \A q \in Requests : Same(q)
      BY <1>8, <1>9, <2>1, NoRequest
    <2> QED
      BY <1>1, <2>1, <2>2, SamePromised
  <1>10. CASE x.kind = "REQUEST"
    <2> PICK r \in Requests : x = Tuning(r) /\ r = x.request
      BY <1>10, WhatTypes
    <2>1. Answer(r, f.status)
      BY <1>10 DEF Answered
    <2>2. f.what = Tuning(r)
      BY <1>4 DEF Nothing, Plain, Tuning
    <2>3. f \in BackOf(up, r) /\ \A g \in BackOf(up', r) : g.seq # f.seq
      BY <1>2, <2>2, BackTail
    <2>4. f.seq \in PendOf(pending, r)
      BY <1>3 DEF PendOf
    <2>5. PromisedOf(PendOf(pending, r), SentOf(down, r), BackOf(up, r), answers[r], applied[r])
      BY DEF Placed
    <2>6. PendOf(pending', r) = {}
      BY <1>7, <2>4, <2>5 DEF PromisedOf
    <2>7. /\ PromisedOf({}, SentOf(down, r), BackOf(up', r), <<f.status>>, applied[r]) /\ answers[r] = <<>>
          /\ (f.status = "ok" /\ applied[r] = 1) \/ (f.status \in {"refused", "lost"} /\ applied[r] = 0)
      <3>1. PendOf(pending, r) # {} /\ BackOf(up', r) \subseteq BackOf(up, r)
        BY <1>7, <2>4
      <3>2. Taking(PendOf(pending, r), BackOf(up, r), f, BackOf(up', r))
        BY <1>3, <2>3, <3>1 DEF Taking
      <3>3. PromisedOf({}, SentOf(down, r), BackOf(up', r), <<f.status>>, applied[r]) /\ answers[r] = <<>>
        BY <2>5, <3>2, Replied
      <3>4. \/ f.status = "ok" /\ applied[r] = 1
            \/ f.status \in {"refused", "lost"} /\ applied[r] = 0
        BY <2>3, <2>5 DEF PromisedOf
      <3> QED
        BY <3>3, <3>4
    <2>8. /\ answers' \in [Requests -> Seq(Words)] /\ answers'[r] = <<f.status>>
          /\ \A q \in Requests : q # r => answers'[q] = answers[q]
      <3>1. f.status \in Words /\ answers \in [Requests -> Seq(Words)]
        BY <1>3 DEF Words, Placed
      <3> QED
        BY <2>1, <2>7, <3>1, AnswerIs
    <2>9. PromisedNext(r)
      BY <1>1, <1>7, <2>6, <2>7, <2>8 DEF PromisedNext
    <2>10. \A q \in Requests : q # r => Tuning(r) # Tuning(q)
      BY DEF Tuning
    <2>11. \A q \in Requests : q # r => Same(q)
      BY <1>8, <2>8, <2>10
    <2>12. Placed' /\ Learnt(r)
      BY <2>8, <2>9, <2>11, PlacedByOne
    <2>13. Known(r) = "waiting" /\ Known(r)' = Knows(f.status)
      BY <2>4, <2>7, <2>8, KnownIs, KnownIsNext
    <2>14. CASE f.status = "ok" /\ applied[r] = 1
      <3>1. Known(r)' = "ok"
        BY <2>13, <2>14 DEF Knows
      <3> QED
        BY <1>1, <2>12, <2>13, <2>14, <3>1, ConfirmStep DEF Promised
    <2>15. CASE f.status \in {"refused", "lost"} /\ applied[r] = 0
      <3>1. Known(r)' = "refused"
        BY <2>13, <2>15 DEF Knows
      <3> QED
        BY <1>1, <2>12, <2>13, <2>15, <3>1, RefuseStep DEF Promised
    <2> QED
      BY <2>7, <2>14, <2>15
  <1> QED
    BY <1>9, <1>10

\* What waited past its limit, or as the session ended, is given up.
LEMMA GiveUpKept ==
  ASSUME Placed, NEW late \in SUBSET Seqs, NEW w \in {"late", "closed"}, AnswerAll(late, w),
         \A s \in Seqs : pending'[s] = IF s \in late THEN Nothing ELSE pending[s],
         \A r \in Requests : SentOf(down', r) \subseteq SentOf(down, r),
         up' = up, applied' = applied
  PROVE  Promised
  <1> DEFINE S == {r \in Requests : \E s \in late : pending[s] = Tuning(r)}
  <1>1. w \in Words /\ answers \in [Requests -> Seq(Words)]
    BY DEF Words, Placed
  <1>2. ASSUME NEW r \in Requests
        PROVE  /\ r \in S => answers'[r] = Append(answers[r], w)
               /\ r \notin S => answers'[r] = answers[r]
               /\ answers'[r] \in Seq(Words)
    BY <1>1 DEF AnswerAll
  <1>3. answers' \in [Requests -> Seq(Words)]
    <2>1. answers' = [r \in Requests |-> IF \E s \in late : pending[s] = Tuning(r)
                                         THEN Append(answers[r], w) ELSE answers[r]]
      BY DEF AnswerAll
    <2> QED
      BY <1>2, <2>1
  <1>4. \A r : Nothing # Tuning(r)
    BY DEF Nothing, Plain, Tuning
  <1>5. ASSUME NEW r \in Requests, r \in S
        PROVE  PromisedNext(r) /\ Known(r) = "waiting" /\ Known(r)' = "unknown"
    <2>1. PromisedOf(PendOf(pending, r), SentOf(down, r), BackOf(up, r), answers[r], applied[r])
      BY DEF Placed
    <2> PICK s \in late : pending[s] = Tuning(r)
      BY <1>5
    <2>2. s \in PendOf(pending, r)
      BY DEF PendOf
    <2>3. PendOf(pending, r) = {s}
      BY <2>1, <2>2 DEF PromisedOf
    <2>4. PendOf(pending', r) = {}
      BY <1>4, <2>3 DEF PendOf
    <2>5. PromisedOf({}, SentOf(down, r), BackOf(up, r), <<w>>, applied[r]) /\ answers[r] = <<>>
      BY <2>1, <2>2, GivenUp
    <2>6. answers'[r] = <<w>>
      BY <1>2, <1>5, <2>5
    <2>7. PromisedOf({}, SentOf(down', r), BackOf(up, r), <<w>>, applied[r])
      BY <2>5, Fewer
    <2>8. PromisedNext(r)
      BY <2>4, <2>6, <2>7 DEF PromisedNext
    <2>9. Known(r) = "waiting" /\ Known(r)' = Knows(w)
      BY <2>2, <2>5, <2>6, KnownIs, KnownIsNext
    <2> QED
      BY <2>8, <2>9 DEF Knows
  <1>6. ASSUME NEW r \in Requests, r \notin S PROVE PromisedNext(r) /\ Known(r)' = Known(r)
    <2>1. \A s \in late : pending[s] # Tuning(r)
      BY <1>6
    <2>2. PendOf(pending', r) = PendOf(pending, r)
      BY <1>4, <2>1 DEF PendOf
    <2>3. Same(r)
      BY <1>2, <1>6, <2>2 DEF Same
    <2> QED
      BY <2>3, SameKept
  <1> HIDE DEF S
  <1>7. Placed'
    BY <1>3, <1>5, <1>6, PlacedNext
  <1>8. S \in SUBSET Requests
    BY DEF S
  <1>9. Contract!Next
    BY <1>5, <1>6, <1>8, GiveUpStep
  <1> QED
    BY <1>7, <1>9 DEF Promised

LEMMA ExpireKept ==
  ASSUME Types, Wiring, Placed, Expires
  PROVE  Promised
  <1> PICK late \in SUBSET Seqs :
         AnswerAll(late, "late") /\ Forget(late) /\ UNCHANGED <<down, fwVars, up>>
    BY ExpireIs
  <1>1. /\ \A s \in Seqs : pending'[s] = IF s \in late THEN Nothing ELSE pending[s]
        /\ \A r \in Requests : SentOf(down', r) \subseteq SentOf(down, r)
        /\ up' = up /\ applied' = applied
    BY DEF Forget, fwVars
  <1> QED
    BY <1>1, GiveUpKept

LEMMA EndKept ==
  ASSUME Types, Wiring, Placed, End
  PROVE  Promised
  <1>1. /\ AnswerAll(Seqs, "closed") /\ pending' = [s \in Seqs |-> Nothing] /\ up' = up /\ applied' = applied
        /\ down' \in Seq(DownFrame) /\ Len(down') >= Len(down)
        /\ \A i \in 1 .. Len(down) : down'[i] = down[i]
    BY EndIs DEF fwVars
  <1>2. \A i \in 1 .. Len(down') : i > Len(down) => down'[i].what.kind # "REQUEST"
    BY EndIs
  <1>3. ASSUME NEW r \in Requests PROVE SentOf(down', r) \subseteq SentOf(down, r)
    <2>1. Len(down) \in Nat /\ Len(down') \in Nat
      BY <1>1 DEF Types
    <2>2. ASSUME NEW i \in 1 .. Len(down'), down'[i].what = Tuning(r)
          PROVE  i \in 1 .. Len(down) /\ down'[i] = down[i]
      <3>1. ~(i > Len(down))
        BY <1>2, <2>2 DEF Tuning
      <3>2. i \in 1 .. Len(down)
        BY <2>1, <3>1
      <3> QED
        BY <1>1, <3>2
    <2> QED
      BY <2>2 DEF SentOf
  <1>4. \A s \in Seqs : pending'[s] = IF s \in Seqs THEN Nothing ELSE pending[s]
    BY <1>1
  <1>5. Seqs \in SUBSET Seqs
    OBVIOUS
  <1> QED
    BY <1>1, <1>3, <1>4, <1>5, GiveUpKept

LEMMA ServeKept ==
  ASSUME Types, Wiring, Placed, Serve
  PROVE  Promised
  <1> PICK f \in DownFrame, g \in UpFrame :
         /\ down # <<>> /\ f = Head(down) /\ down' = Tail(down)
         /\ g.seq = f.seq /\ g.what = f.what /\ up' = Append(up, g)
         /\ UNCHANGED <<pending, answers>>
         /\ f.what.kind # "REQUEST" => applied' = applied
         /\ f.what.kind = "REQUEST" =>
              \/ g.status = "ok" /\ applied' = [applied EXCEPT ![f.what.request] = @ + 1]
              \/ g.status \in {"refused", "lost"} /\ applied' = applied
    <2> PICK f \in DownFrame, status \in Statuses :
           /\ down # <<>> /\ f = Head(down) /\ down' = Tail(down)
           /\ up' = Append(up, [seq |-> f.seq, what |-> f.what, status |-> status])
           /\ [seq |-> f.seq, what |-> f.what, status |-> status] \in UpFrame
           /\ UNCHANGED <<pending, answers>>
           /\ f.what.kind # "REQUEST" => applied' = applied
           /\ f.what.kind = "REQUEST" =>
                \/ status = "ok" /\ applied' = [applied EXCEPT ![f.what.request] = @ + 1]
                \/ status \in {"refused", "lost"} /\ applied' = applied
      BY ServeIs
    <2> QED
      OBVIOUS
  <1>1. /\ down \in Seq(DownFrame) /\ up \in Seq(UpFrame) /\ Wire(pending, down, up, seq)
        /\ applied \in [Requests -> Nat]
    BY DEF Types, Wiring
  <1>2. ASSUME NEW q \in Requests
        PROVE  /\ SentOf(down', q) \subseteq SentOf(down, q) /\ f.seq \notin SentOf(down', q)
               /\ f.what = Tuning(q) => f.seq \in SentOf(down, q)
               /\ f.what # Tuning(q) => BackOf(up', q) = BackOf(up, q)
               /\ BackOf(up', q) \subseteq BackOf(up, q) \union {g}
               /\ PendOf(pending', q) = PendOf(pending, q)
    <2>1. /\ SentOf(down', q) \subseteq SentOf(down, q) /\ f.seq \notin SentOf(down', q)
          /\ f.what = Tuning(q) => f.seq \in SentOf(down, q)
      BY <1>1, SentTail
    <2>2. /\ g.what # Tuning(q) => BackOf(up', q) = BackOf(up, q)
          /\ BackOf(up', q) \subseteq BackOf(up, q) \union {g}
      BY <1>1, BackAppend
    <2> QED
      BY <2>1, <2>2
  <1>3. ASSUME NEW q \in Requests, f.what # Tuning(q), applied'[q] = applied[q] PROVE Same(q)
    BY <1>2, <1>3 DEF Same
  <1>4. CASE f.what.kind # "REQUEST"
    <2>1. \A q \in Requests : Same(q)
      BY <1>3, <1>4, NoRequest
    <2> QED
      BY <1>4, <2>1, SamePromised
  <1>5. CASE f.what.kind = "REQUEST"
    <2> PICK r \in Requests : f.what = Tuning(r) /\ f.what.request = r
      BY <1>5, WhatTypes DEF DownFrame
    <2> PICK k2 : k2 = applied'[r]
      OBVIOUS
    <2>1. /\ (g.status = "ok" /\ k2 = applied[r] + 1) \/ (g.status \in {"refused", "lost"} /\ k2 = applied[r])
          /\ \A q \in Requests : q # r => applied'[q] = applied[q]
      BY <1>1, <1>5
    <2>2. PromisedOf(PendOf(pending, r), SentOf(down, r), BackOf(up, r), answers[r], applied[r])
      BY DEF Placed
    <2>3. /\ PromisedOf(PendOf(pending, r), SentOf(down', r), BackOf(up', r), answers[r], k2)
          /\ applied[r] = 0 /\ Told(answers[r])
          /\ answers[r] # <<>> \/ PendOf(pending, r) # {}
      <3>1. g.seq \in SentOf(down, r) /\ g.seq \notin SentOf(down', r)
        BY <1>2
      <3>2. SentOf(down', r) \subseteq SentOf(down, r) /\ BackOf(up', r) \subseteq BackOf(up, r) \union {g}
        BY <1>2
      <3>3. Serving(SentOf(down, r), BackOf(up, r), applied[r], g, SentOf(down', r), BackOf(up', r), k2)
        BY <2>1, <3>1, <3>2 DEF Serving
      <3> QED
        BY <2>2, <3>3, Handled
    <2>4. PromisedNext(r)
      BY <1>2, <2>3 DEF PromisedNext
    <2>5. \A q \in Requests : q # r => Tuning(r) # Tuning(q)
      BY DEF Tuning
    <2>6. \A q \in Requests : q # r => Same(q)
      BY <1>3, <2>1, <2>5
    <2>7. Placed' /\ Learnt(r)
      BY <2>4, <2>6, PlacedByOne DEF Placed
    <2>8. Known(r)' = Known(r)
      BY <1>2, KnownKept
    <2>9. \A q \in Requests : Known(q)' = Known(q)
      BY <2>7, <2>8 DEF Learnt
    <2>10. Known(r) \in {"waiting", "unknown"}
      BY <2>3, KnownIs DEF Told, Knows
    <2>11. CASE g.status = "ok" /\ applied' = [applied EXCEPT ![r] = @ + 1]
      <3>1. applied' = [applied EXCEPT ![r] = 1]
        BY <1>1, <2>3, <2>11
      <3> QED
        BY <2>3, <2>7, <2>9, <2>10, <3>1, CarryOutStep DEF Promised
    <2>12. CASE applied' = applied
      BY <2>7, <2>9, <2>12, StutterStep DEF Promised
    <2> QED
      BY <1>5, <2>11, <2>12
  <1> QED
    BY <1>4, <1>5

LEMMA OthersKept ==
  ASSUME Types, Wiring, Placed, Turns \/ OnSample \/ Sample \/ LoseUp \/ Elsewhere \/ UNCHANGED vars
  PROVE  Promised
  <1>1. /\ down \in Seq(DownFrame) /\ up \in Seq(UpFrame) /\ Wire(pending, down, up, seq)
    BY DEF Types, Wiring
  <1>2. UNCHANGED <<pending, answers, applied>>
    BY TurnsIs, OnSampleIs, SampleIs DEF LoseUp, Elsewhere, LoseDown, LeaseLapses, Takeover, vars, sendVars, fwVars
  <1>3. \/ down' = down
        \/ down # <<>> /\ down' = Tail(down)
    BY TurnsIs, OnSampleIs, SampleIs DEF LoseUp, Elsewhere, LoseDown, LeaseLapses, Takeover, vars, sendVars, fwVars
  <1>4. \/ up' = up
        \/ up # <<>> /\ up' = Tail(up)
        \/ \E f \in UpFrame : ~IsReply(f) /\ up' = Append(up, f)
    BY TurnsIs, OnSampleIs, SampleIs DEF LoseUp, Elsewhere, LoseDown, LeaseLapses, Takeover, vars, sendVars, fwVars
  <1>5. ASSUME NEW r \in Requests PROVE Same(r)
    <2>1. SentOf(down', r) \subseteq SentOf(down, r)
      BY <1>1, <1>3, SentTail
    <2>2. \A f : ~IsReply(f) => f.what # Tuning(r)
      BY DEF IsReply, Tuning
    <2>3. BackOf(up', r) \subseteq BackOf(up, r)
      <3>1. CASE up # <<>> /\ up' = Tail(up)
        BY <1>1, <3>1, BackTail
      <3>2. ASSUME NEW f \in UpFrame, ~IsReply(f), up' = Append(up, f) PROVE BackOf(up', r) = BackOf(up, r)
        BY <1>1, <2>2, <3>2, BackAppend
      <3> QED
        BY <1>4, <3>1, <3>2
    <2> QED
      BY <1>2, <2>1, <2>3 DEF Same
  <1> QED
    BY <1>2, <1>5, SamePromised

LEMMA StepPromised ==
  ASSUME Types, Wiring, Placed, [Next]_vars
  PROVE  Promised
  BY UnaskedKept, SubmitKept, OnReplyKept, ExpireKept, EndKept, ServeKept, OthersKept, NextIs

LEMMA InitPlaced == Init => Wiring /\ Placed /\ Contract!Init
  <1> SUFFICES ASSUME Init PROVE Wiring /\ Placed /\ Contract!Init
    OBVIOUS
  <1>1. /\ pending = [s \in Seqs |-> Nothing] /\ answers = [r \in Requests |-> <<>>]
        /\ down = <<>> /\ up = <<>> /\ Len(down) = 0 /\ Len(up) = 0
        /\ applied = [r \in Requests |-> 0] /\ seq = 0
    BY DEF Init
  <1>2. Wiring
    BY <1>1 DEF Wiring, Wire
  <1>3. \A r : Nothing # Tuning(r)
    BY DEF Nothing, Plain, Tuning
  <1>4. ASSUME NEW r \in Requests
        PROVE  PendOf(pending, r) = {} /\ SentOf(down, r) = {} /\ BackOf(up, r) = {}
    BY <1>1, <1>3 DEF PendOf, SentOf, BackOf
  <1>5. PromisedOf({}, {}, {}, <<>>, 0)
    <2>1. 1 \in Seqs
      BY LinkAssumption DEF Seqs
    <2> QED
      BY <2>1 DEF PromisedOf
  <1>6. <<>> \in Seq(Words)
    OBVIOUS
  <1>7. Placed
    BY <1>1, <1>4, <1>5, <1>6 DEF Placed
  <1>8. \A r \in Requests : Known(r) = "idle"
    BY <1>1, <1>4, KnownIs
  <1> QED
    BY <1>1, <1>2, <1>7, <1>8 DEF Contract!Init

\* Whatever is lost, late, refused or cut off, and whatever else goes over the
\* link: a session over the framed link keeps the contract of tuning requests.
THEOREM Refines == Spec => KeepsContract
  <1> DEFINE Inv == Types /\ Wiring /\ Placed
  <1>1. Init => Inv /\ Contract!Init
    BY InitTypes, InitPlaced
  <1>2. Inv /\ [Next]_vars => Inv'
    BY StepTypes, StepWiring, StepPromised DEF Promised
  <1>3. Inv /\ [Next]_vars => [Contract!Next]_(<<[r \in Requests |-> Known(r)], applied>>)
    BY StepPromised DEF Promised, Stutter
  <1> HIDE DEF Inv
  <1> QED
    BY <1>1, <1>2, <1>3, PTL DEF Spec, Contract!Spec, KeepsContract

------------------------------------------------------------------------------
(* The labels of rows *)

\* No frame but a sample is lost, and no reply comes after its limit.
Prompt == "loss" \notin Faults /\ "late" \notin Faults

\* What each frame on the way asks for still waits for its reply.
Awaited(p, d, u) ==
  /\ \A i \in 1 .. Len(d) : p[d[i].seq] # Nothing
  /\ \A i \in 1 .. Len(u) : IsReply(u[i]) => p[u[i].seq] # Nothing

LEMMA AwaitedSend ==
  ASSUME NEW p \in Pendings, NEW d \in Seq(DownFrame), NEW u \in Seq(UpFrame), NEW n \in Nat,
         Wire(p, d, u, n), Awaited(p, d, u), NEW w \in Seq(Asks), n + Len(w) <= MaxSeq
  PROVE  Awaited(Waits(p, n, w), Behind(d, n, w), u)
  <1> PICK b : b = Behind(d, n, w)
    OBVIOUS
  <1> PICK q : q = Waits(p, n, w)
    OBVIOUS
  <1>1. /\ b \in Seq(DownFrame) /\ Len(b) = Len(d) + Len(w)
        /\ \A i \in 1 .. Len(d) : b[i] = d[i]
        /\ \A i \in 1 .. Len(w) : b[Len(d) + i] = [seq |-> n + i, what |-> w[i]]
    BY BehindIs
  <1>2. /\ \A i \in 1 .. Len(w) : n + i \in Seqs /\ q[n + i] = w[i]
        /\ \A s \in Seqs : s <= n => q[s] = p[s]
    BY WaitsIs DEF Pendings
  <1>3. Len(d) \in Nat /\ Len(w) \in Nat
    OBVIOUS
  <1>4. \A i \in 1 .. Len(w) : w[i] # Nothing
    BY WhatTypes
  <1>5. ASSUME NEW i \in 1 .. Len(b) PROVE q[b[i].seq] # Nothing
    <2>1. CASE i \in 1 .. Len(d)
      <3>1. d[i].seq \in Seqs /\ d[i].seq <= n /\ p[d[i].seq] # Nothing
        BY <2>1, DownSeq DEF Wire, Awaited
      <3> QED
        BY <1>1, <1>2, <2>1, <3>1
    <2>2. CASE i \notin 1 .. Len(d)
      <3>1. i - Len(d) \in 1 .. Len(w) /\ i = Len(d) + (i - Len(d))
        BY <1>1, <1>3, <2>2
      <3> PICK k \in 1 .. Len(w) : i = Len(d) + k
        BY <3>1
      <3>2. b[i] = [seq |-> n + k, what |-> w[k]]
        BY <1>1
      <3>3. b[i].seq = n + k
        BY <3>2
      <3> QED
        BY <1>2, <1>4, <3>3
    <2> QED
      BY <2>1, <2>2
  <1>6. ASSUME NEW i \in 1 .. Len(u), IsReply(u[i]) PROVE q[u[i].seq] # Nothing
    <2>1. u[i].seq \in Seqs /\ u[i].seq <= n /\ p[u[i].seq] # Nothing
      BY <1>6, UpTypes DEF Wire, Awaited
    <2> QED
      BY <1>2, <2>1
  <1> QED
    BY <1>5, <1>6 DEF Awaited

\* The first reply is taken: the others are to other frames.
LEMMA AwaitedTaken ==
  ASSUME NEW p \in Pendings, NEW d \in Seq(DownFrame), NEW u \in Seq(UpFrame), NEW n,
         Wire(p, d, u, n), Awaited(p, d, u), u # <<>>, IsReply(Head(u))
  PROVE  /\ Awaited([p EXCEPT ![Head(u).seq] = Nothing], d, Tail(u))
         /\ p[Head(u).seq] = Head(u).what
  <1> PICK f \in UpFrame : f = Head(u)
    BY HeadAndTail
  <1> PICK e \in Seq(UpFrame) : e = Tail(u)
    BY HeadAndTail
  <1> PICK q : q = [p EXCEPT ![f.seq] = Nothing]
    OBVIOUS
  <1>1. /\ Len(u) \in Nat /\ Len(e) = Len(u) - 1 /\ f = u[1] /\ 1 \in 1 .. Len(u)
        /\ \A i \in 1 .. Len(e) : e[i] = u[i + 1] /\ i + 1 \in 1 .. Len(u)
    BY HeadAndTail
  <1>2. /\ \A j \in 1 .. Len(e) : IsReply(e[j]) => f.seq < e[j].seq
        /\ p[f.seq] \in {Nothing, f.what}
    BY WireTailUp
  <1>3. f.seq \in Seqs /\ \A s \in Seqs : s \in Nat
    BY UpTypes, LinkAssumption DEF Seqs
  <1>4. \A s \in Seqs : s # f.seq => q[s] = p[s]
    BY DEF Pendings
  <1>5. \A i \in 1 .. Len(d) : d[i].seq \in Seqs /\ f.seq < d[i].seq /\ p[d[i].seq] # Nothing
    BY <1>1, DownSeq DEF Wire, Awaited
  <1>6. \A i \in 1 .. Len(d) : q[d[i].seq] # Nothing
    BY <1>3, <1>4, <1>5
  <1>7. ASSUME NEW i \in 1 .. Len(e), IsReply(e[i]) PROVE q[e[i].seq] # Nothing
    <2>1. e[i].seq \in Seqs /\ f.seq < e[i].seq
      BY <1>2, <1>7, UpTypes
    <2>2. p[e[i].seq] # Nothing
      BY <1>1, <1>7 DEF Awaited
    <2> QED
      BY <1>3, <1>4, <2>1, <2>2
  <1>8. p[f.seq] # Nothing
    BY <1>1 DEF Awaited
  <1> QED
    BY <1>2, <1>6, <1>7, <1>8 DEF Awaited

\* A sample taken off the link, or a frame served.
LEMMA AwaitedMoved ==
  ASSUME NEW p, NEW d \in Seq(DownFrame), NEW u \in Seq(UpFrame), Awaited(p, d, u)
  PROVE  /\ u # <<>> => Awaited(p, d, Tail(u))
         /\ \A f \in UpFrame : ~IsReply(f) => Awaited(p, d, Append(u, f))
         /\ \A f \in UpFrame : d # <<>> /\ f.seq = Head(d).seq => Awaited(p, Tail(d), Append(u, f))
  <1>1. ASSUME u # <<>> PROVE Awaited(p, d, Tail(u))
    <2> PICK e : e = Tail(u)
      OBVIOUS
    <2>1. /\ Len(u) \in Nat /\ Len(e) = Len(u) - 1
          /\ \A i \in 1 .. Len(e) : e[i] = u[i + 1] /\ i + 1 \in 1 .. Len(u)
      BY <1>1, HeadAndTail
    <2> QED
      BY <2>1 DEF Awaited
  <1>2. ASSUME NEW f \in UpFrame
        PROVE  \A i \in 1 .. Len(Append(u, f)) : \/ i \in 1 .. Len(u) /\ Append(u, f)[i] = u[i]
                                                 \/ i = Len(u) + 1 /\ Append(u, f)[i] = f
    <2> PICK v : v = Append(u, f)
      OBVIOUS
    <2>1. /\ Len(v) = Len(u) + 1 /\ Len(u) \in Nat /\ \A i \in 1 .. Len(u) : v[i] = u[i]
          /\ v[Len(u) + 1] = f
      BY AppendIs
    <2> QED
      BY <2>1
  <1>3. ASSUME NEW f \in UpFrame, ~IsReply(f) PROVE Awaited(p, d, Append(u, f))
    BY <1>2, <1>3 DEF Awaited
  <1>4. ASSUME NEW f \in UpFrame, d # <<>>, f.seq = Head(d).seq PROVE Awaited(p, Tail(d), Append(u, f))
    <2> PICK e : e = Tail(d)
      OBVIOUS
    <2>1. /\ Len(d) \in Nat \ {0} /\ Len(e) = Len(d) - 1 /\ Head(d) = d[1] /\ 1 \in 1 .. Len(d)
          /\ \A i \in 1 .. Len(e) : e[i] = d[i + 1] /\ i + 1 \in 1 .. Len(d)
      BY <1>4, HeadAndTail
    <2>2. p[f.seq] # Nothing
      BY <1>4, <2>1 DEF Awaited
    <2>3. \A i \in 1 .. Len(e) : p[e[i].seq] # Nothing
      BY <2>1 DEF Awaited
    <2> QED
      BY <1>2, <2>2, <2>3 DEF Awaited
  <1> QED
    BY <1>1, <1>3, <1>4

\* The firmware took the set of a WATCH.
OkWatch(f) == f.what.kind = "WATCH" /\ f.status = "ok"

\* The set sampled as each frame of u was sent, when it is s by now.
SampledAs(g, u, s) ==
  /\ g[Len(u)] = s
  /\ \A i \in 1 .. Len(u) :
       /\ OkWatch(u[i]) => g[i] = u[i].what.set
       /\ ~OkWatch(u[i]) => g[i] = g[i - 1]
       /\ ~IsReply(u[i]) => u[i].what.set = g[i - 1]

\* The frames of u take a session from the set a to the firmware's set s.
Leads(a, u, s) == \E g : SampledAs(g, u, s) /\ g[0] = a

\* What a session takes the set to be after a frame.
After(f, a) == IF OkWatch(f) THEN f.what.set ELSE a

LEMMA LeadsTail ==
  ASSUME NEW u \in Seq(UpFrame), u # <<>>, NEW a, NEW s, Leads(a, u, s)
  PROVE  Leads(After(Head(u), a), Tail(u), s) /\ (~IsReply(Head(u)) => Head(u).what.set = a)
  <1> PICK g : SampledAs(g, u, s) /\ g[0] = a
    BY DEF Leads
  <1> PICK t : t = Tail(u)
    OBVIOUS
  <1> DEFINE h == [i \in 0 .. Len(u) - 1 |-> g[i + 1]]
  <1>1. /\ Len(u) \in Nat \ {0} /\ Len(t) = Len(u) - 1 /\ Head(u) = u[1]
        /\ \A i \in 1 .. Len(t) : t[i] = u[i + 1]
    BY HeadAndTail
  <1>2. /\ g[Len(u)] = s
        /\ \A i \in 1 .. Len(u) : /\ OkWatch(u[i]) => g[i] = u[i].what.set
                                  /\ ~OkWatch(u[i]) => g[i] = g[i - 1]
                                  /\ ~IsReply(u[i]) => u[i].what.set = g[i - 1]
    BY DEF SampledAs
  <1>3. h[Len(t)] = s /\ h[0] = g[1] /\ \A i \in 0 .. Len(u) - 1 : h[i] = g[i + 1]
    BY <1>1, <1>2
  <1> HIDE DEF h
  <1>4. ASSUME NEW i \in 1 .. Len(t)
        PROVE  /\ OkWatch(t[i]) => h[i] = t[i].what.set
               /\ ~OkWatch(t[i]) => h[i] = h[i - 1]
               /\ ~IsReply(t[i]) => t[i].what.set = h[i - 1]
    <2>1. /\ i + 1 \in 1 .. Len(u) /\ (i + 1) - 1 = i /\ i \in 0 .. Len(u) - 1
          /\ i - 1 \in 0 .. Len(u) - 1 /\ (i - 1) + 1 = i
      BY <1>1
    <2>2. t[i] = u[i + 1] /\ h[i] = g[i + 1] /\ h[i - 1] = g[i]
      BY <1>1, <1>3, <2>1
    <2> QED
      BY <1>2, <2>1, <2>2
  <1>5. SampledAs(h, t, s)
    BY <1>3, <1>4 DEF SampledAs
  <1>6. 1 \in 1 .. Len(u) /\ 1 - 1 = 0
    BY <1>1
  <1>7. g[1] = After(Head(u), a) /\ (~IsReply(Head(u)) => Head(u).what.set = a)
    BY <1>1, <1>2, <1>6 DEF After
  <1> QED
    BY <1>3, <1>5, <1>7 DEF Leads

LEMMA LeadsAppend ==
  ASSUME NEW u \in Seq(UpFrame), NEW a, NEW s, Leads(a, u, s),
         NEW f \in UpFrame, ~IsReply(f) => f.what.set = s
  PROVE  Leads(a, Append(u, f), After(f, s))
  <1> PICK g : SampledAs(g, u, s) /\ g[0] = a
    BY DEF Leads
  <1> PICK t : t = Append(u, f)
    OBVIOUS
  <1> PICK k : k = After(f, s)
    OBVIOUS
  <1> DEFINE h == [i \in 0 .. Len(u) + 1 |-> IF i = Len(u) + 1 THEN k ELSE g[i]]
  <1>1. /\ Len(u) \in Nat /\ Len(t) = Len(u) + 1 /\ t[Len(u) + 1] = f
        /\ \A i \in 1 .. Len(u) : t[i] = u[i]
    BY AppendIs
  <1>2. /\ g[Len(u)] = s
        /\ \A i \in 1 .. Len(u) : /\ OkWatch(u[i]) => g[i] = u[i].what.set
                                  /\ ~OkWatch(u[i]) => g[i] = g[i - 1]
                                  /\ ~IsReply(u[i]) => u[i].what.set = g[i - 1]
    BY DEF SampledAs
  <1>3. h[Len(u) + 1] = k /\ \A i \in 0 .. Len(u) : h[i] = g[i]
    BY <1>1
  <1> HIDE DEF h
  <1>4. ASSUME NEW i \in 1 .. Len(t)
        PROVE  /\ OkWatch(t[i]) => h[i] = t[i].what.set
               /\ ~OkWatch(t[i]) => h[i] = h[i - 1]
               /\ ~IsReply(t[i]) => t[i].what.set = h[i - 1]
    <2>1. CASE i = Len(u) + 1
      <3>1. i - 1 = Len(u) /\ Len(u) \in 0 .. Len(u)
        BY <1>1, <2>1
      <3>2. t[i] = f /\ h[i] = k /\ h[i - 1] = s
        BY <1>1, <1>2, <1>3, <2>1, <3>1
      <3> QED
        BY <3>2 DEF After
    <2>2. CASE i # Len(u) + 1
      <3>1. i \in 1 .. Len(u) /\ i \in 0 .. Len(u) /\ i - 1 \in 0 .. Len(u)
        BY <1>1, <2>2
      <3>2. t[i] = u[i] /\ h[i] = g[i] /\ h[i - 1] = g[i - 1]
        BY <1>1, <1>3, <3>1
      <3> QED
        BY <1>2, <3>1, <3>2
    <2> QED
      BY <2>1, <2>2
  <1>5. 0 \in 0 .. Len(u)
    BY <1>1
  <1>6. SampledAs(h, t, k) /\ h[0] = a
    BY <1>1, <1>3, <1>4, <1>5 DEF SampledAs
  <1> QED
    BY <1>6 DEF Leads

\* As long as a session takes frames: what they lead to is what is sampled.
Labels ==
  /\ RowsLabelled
  /\ ~Over => Awaited(pending, down, up) /\ Leads(active, up, watch.set)

\* A step that sends, or leaves the frames alone.
LEMMA SendLabels ==
  ASSUME Types, Wiring, Labels, UNCHANGED <<active, up, watch, row>>,
         \/ UNCHANGED <<pending, down>>
         \/ ~Over /\ \E w \in Seq(Asks) : Sending(w),
         Over => Over'
  PROVE  Labels'
  <1>1. RowsLabelled'
    BY DEF Labels, RowsLabelled
  <1>2. ASSUME ~Over PROVE Awaited(pending', down', up') /\ Leads(active', up', watch'.set)
    <2>1. Awaited(pending, down, up) /\ Leads(active, up, watch.set)
      BY <1>2 DEF Labels
    <2>2. CASE UNCHANGED <<pending, down>>
      BY <2>1, <2>2
    <2>3. ASSUME NEW w \in Seq(Asks), Sending(w) PROVE Awaited(pending', down', up')
      <3>1. seq + Len(w) <= MaxSeq /\ seq \in Nat
        BY <2>3, LinkAssumption DEF Types, Sending
      <3>2. pending \in Pendings /\ down \in Seq(DownFrame) /\ up \in Seq(UpFrame) /\ Wire(pending, down, up, seq)
        BY DEF Types, Pendings, Wiring
      <3>3. Awaited(Waits(pending, seq, w), Behind(down, seq, w), up)
        BY <2>1, <3>1, <3>2, AwaitedSend
      <3> QED
        BY <2>3, <3>3 DEF Sending
    <2> QED
      BY <2>1, <2>2, <2>3
  <1> QED
    BY <1>1, <1>2 DEF Labels

LEMMA OnReplyLabels ==
  ASSUME Types, Wiring, Labels, OnReply
  PROVE  Labels'
  <1> PICK f \in UpFrame, w \in Seq(Asks) :
         /\ f = Head(up) /\ IsReply(f) /\ up # <<>> /\ up' = Tail(up) /\ pc = "read"
         /\ \/ pending[f.seq].kind = "WATCH" /\ f.status = "ok" /\ Confirmed(pending[f.seq])
            \/ ~(pending[f.seq].kind = "WATCH" /\ f.status = "ok") /\ UNCHANGED setVars
         /\ down' = Behind(down, seq, w) /\ pending' = Waits(Taken(f), seq, w)
         /\ seq' \in seq + Len(w) .. MaxSeq - 2
         /\ UNCHANGED <<pc, rowVars, fwVars>>
    BY OnReplyIs
  <1>1. ~Over /\ Awaited(pending, down, up) /\ Leads(active, up, watch.set)
    BY DEF Labels, Over
  <1>2. /\ pending \in Pendings /\ down \in Seq(DownFrame) /\ up \in Seq(UpFrame)
        /\ Wire(pending, down, up, seq) /\ seq \in Nat /\ seq + Len(w) <= MaxSeq
    <2>1. seq' \in seq + Len(w) .. MaxSeq - 2
      OBVIOUS
    <2> QED
      BY <2>1, LinkAssumption DEF Types, Pendings, Wiring
  <1>3. Awaited(Taken(f), down, Tail(up)) /\ pending[f.seq] = f.what
    BY <1>1, <1>2, AwaitedTaken DEF Taken
  <1>4. Awaited(pending', down', up')
    <2>1. Tail(up) \in Seq(UpFrame) /\ Wire(pending, down, Tail(up), seq)
      BY <1>2, HeadAndTail, WireTailUp
    <2>2. Taken(f) \in Pendings /\ \A s \in Seqs : Taken(f)[s] \in {Nothing, pending[s]}
      BY <1>2 DEF Taken, Pendings
    <2>3. Wire(Taken(f), down, Tail(up), seq)
      BY <1>2, <2>1, <2>2, WireForget
    <2>4. Awaited(Waits(Taken(f), seq, w), Behind(down, seq, w), Tail(up))
      BY <1>2, <1>3, <2>1, <2>2, <2>3, AwaitedSend
    <2> QED
      BY <2>4
  <1>5. active' = After(f, active)
    BY <1>3 DEF After, OkWatch, Confirmed, setVars
  <1>6. Leads(active', up', watch'.set)
    <2>1. Leads(After(f, active), Tail(up), watch.set)
      BY <1>1, <1>2, LeadsTail
    <2> QED
      BY <1>5, <2>1 DEF fwVars
  <1>7. RowsLabelled'
    BY DEF Labels, RowsLabelled, rowVars
  <1> QED
    BY <1>4, <1>6, <1>7 DEF Labels

\* A sample is taken off the link, and recorded or not.
LEMMA TakenLabels ==
  ASSUME Types, Labels, up # <<>>, ~IsReply(Head(up)), up' = Tail(up),
         UNCHANGED <<pc, pending, down, active, watch>>,
         \/ row' = row
         \/ ~Over /\ row' = [sampled |-> Head(up).what.set, taken |-> active]
  PROVE  Labels'
  <1>1. up \in Seq(UpFrame) /\ down \in Seq(DownFrame)
    BY DEF Types
  <1>2. ASSUME ~Over
        PROVE  /\ Awaited(pending', down', up') /\ Leads(active', up', watch'.set)
               /\ Head(up).what.set = active
    <2>1. Awaited(pending, down, up) /\ Leads(active, up, watch.set)
      BY <1>2 DEF Labels
    <2>2. After(Head(up), active) = active
      BY DEF After, OkWatch, IsReply
    <2>3. Leads(active, Tail(up), watch.set) /\ Head(up).what.set = active
      BY <1>1, <2>1, <2>2, LeadsTail
    <2>4. Awaited(pending, down, Tail(up))
      BY <1>1, <2>1, AwaitedMoved
    <2> QED
      BY <2>3, <2>4
  <1>3. RowsLabelled'
    BY <1>2 DEF Labels, RowsLabelled
  <1> QED
    BY <1>2, <1>3 DEF Labels, Over

\* A frame goes to the session: a sample of the firmware's set, or the reply to
\* a frame that has arrived.
LEMMA ArrivalLabels ==
  ASSUME Types, Labels, NEW f \in UpFrame, up' = Append(up, f), UNCHANGED <<pc, pending, active, row>>,
         watch'.set = After(f, watch.set),
         \/ ~IsReply(f) /\ f.what.set = watch.set /\ down' = down
         \/ IsReply(f) /\ down # <<>> /\ f.seq = Head(down).seq /\ down' = Tail(down)
  PROVE  Labels'
  <1>1. up \in Seq(UpFrame) /\ down \in Seq(DownFrame)
    BY DEF Types
  <1>2. ASSUME ~Over PROVE Awaited(pending', down', up') /\ Leads(active', up', watch'.set)
    <2>1. Awaited(pending, down, up) /\ Leads(active, up, watch.set)
      BY <1>2 DEF Labels
    <2>2. Leads(active, Append(up, f), After(f, watch.set))
      BY <1>1, <2>1, LeadsAppend
    <2>3. Awaited(pending', down', up')
      BY <1>1, <2>1, AwaitedMoved
    <2> QED
      BY <2>2, <2>3
  <1>3. RowsLabelled'
    BY DEF Labels, RowsLabelled
  <1> QED
    BY <1>2, <1>3 DEF Labels, Over

\* Nothing is on its way under the number of what expires.
LEMMA ExpireLabels ==
  ASSUME Prompt, Types, Labels, Expires
  PROVE  Labels'
  <1> PICK late \in SUBSET Seqs :
         /\ \A s \in late : Late(s)
         /\ pc = "expire" /\ Forget(late)
         /\ UNCHANGED <<down, active, rowVars, fwVars, up>>
    BY ExpireIs
  <1>1. ~Over /\ Awaited(pending, down, up) /\ Leads(active, up, watch.set)
    BY DEF Labels, Over
  <1>2. \A s \in late : /\ \A i \in 1 .. Len(down) : down[i].seq # s
                        /\ \A i \in 1 .. Len(up) : IsReply(up[i]) => up[i].seq # s
    BY DEF Late, Prompt, IsReply
  <1>3. \A s \in Seqs : s \notin late => pending'[s] = pending[s]
    BY DEF Forget
  <1>4. ASSUME NEW i \in 1 .. Len(down) PROVE pending'[down[i].seq] # Nothing
    <2>1. down[i].seq \in Seqs
      BY DownSeq DEF Types
    <2>2. down[i].seq \notin late
      BY <1>2
    <2> QED
      BY <1>1, <1>3, <2>1, <2>2 DEF Awaited
  <1>5. ASSUME NEW i \in 1 .. Len(up), IsReply(up[i]) PROVE pending'[up[i].seq] # Nothing
    <2>1. up[i].seq \in Seqs
      BY <1>5, UpTypes DEF Types
    <2>2. up[i].seq \notin late
      BY <1>2, <1>5
    <2> QED
      BY <1>1, <1>3, <1>5, <2>1, <2>2 DEF Awaited
  <1>6. Awaited(pending', down', up')
    BY <1>4, <1>5 DEF Awaited
  <1>7. RowsLabelled' /\ Leads(active', up', watch'.set)
    BY <1>1 DEF Labels, RowsLabelled, rowVars, fwVars
  <1> QED
    BY <1>6, <1>7 DEF Labels

LEMMA StepLabels ==
  ASSUME Prompt, Types, Wiring, Labels, [Next]_vars
  PROVE  Labels'
  <1>1. CASE Unasked \/ \E r \in Requests : Submit(r)
    <2>1. /\ UNCHANGED <<active, up, watch, row>> /\ pc \in {"drain", "tick"}
          /\ UNCHANGED <<pending, down>> \/ \E w \in Seq(Asks) : Sending(w)
      BY <1>1, UnaskedIs, SubmitIs DEF setVars, rowVars, fwVars, sendVars
    <2>2. ~Over
      BY <2>1 DEF Over
    <2> QED
      BY <2>1, <2>2, SendLabels
  <1>2. CASE Turns
    <2>1. UNCHANGED <<active, up, watch, row, pending, down>> /\ pc \in {"drain", "read"}
      BY <1>2, TurnsIs DEF setVars, rowVars, fwVars, sendVars
    <2>2. ~Over
      BY <2>1 DEF Over
    <2> QED
      BY <2>1, <2>2, SendLabels
  <1>3. CASE OnSample
    <2>1. /\ up # <<>> /\ ~IsReply(Head(up)) /\ up' = Tail(up) /\ pc = "read"
          /\ UNCHANGED <<pc, pending, down, active, watch>>
          /\ row' = row \/ row' = [sampled |-> Head(up).what.set, taken |-> active]
      BY <1>3, OnSampleIs DEF sendVars, rowVars, fwVars
    <2>2. ~Over
      BY <2>1 DEF Over
    <2> QED
      BY <2>1, <2>2, TakenLabels
  <1>4. CASE OnReply
    BY <1>4, OnReplyLabels
  <1>5. CASE Expires
    BY <1>5, ExpireLabels
  <1>6. CASE End
    <2>1. Over' /\ row' = row
      BY <1>6, EndIs DEF Over, rowVars
    <2> QED
      BY <2>1 DEF Labels, RowsLabelled
  <1>7. CASE Serve
    <2> PICK f \in DownFrame, status \in Statuses :
           /\ down # <<>> /\ f = Head(down) /\ down' = Tail(down)
           /\ up' = Append(up, [seq |-> f.seq, what |-> f.what, status |-> status])
           /\ [seq |-> f.seq, what |-> f.what, status |-> status] \in UpFrame
           /\ UNCHANGED <<pc, pending, setVars, rowVars>>
           /\ f.what.kind = "WATCH" =>
                \/ status = "ok" /\ watch' = [set |-> f.what.set, period |-> f.what.period]
                \/ status = "budget" /\ watch' = watch
           /\ f.what.kind # "WATCH" => watch' = watch
      BY <1>7, ServeIs
    <2> PICK g \in UpFrame : g.seq = f.seq /\ g.what = f.what /\ g.status = status /\ up' = Append(up, g)
      OBVIOUS
    <2>1. IsReply(g)
      BY WhatTypes DEF DownFrame, IsReply
    <2>2. watch'.set = After(g, watch.set)
      BY DEF After, OkWatch
    <2>3. UNCHANGED <<pc, pending, active, row>>
      BY DEF setVars, rowVars
    <2> QED
      BY <2>1, <2>2, <2>3, ArrivalLabels
  <1>8. CASE Sample
    <2> PICK f \in UpFrame :
           /\ ~IsReply(f) /\ f.what.set = watch.set /\ up' = Append(up, f)
           /\ UNCHANGED <<pc, sendVars, setVars, rowVars, watch>>
      BY <1>8, SampleIs
    <2>1. After(f, watch.set) = watch.set
      BY DEF After, OkWatch, IsReply
    <2> QED
      BY <2>1, ArrivalLabels DEF sendVars, setVars, rowVars
  <1>9. CASE LoseUp
    <2>1. /\ up # <<>> /\ ~IsReply(Head(up)) /\ up' = Tail(up) /\ row' = row
          /\ UNCHANGED <<pc, pending, down, active, watch>>
      BY <1>9 DEF LoseUp, Prompt, IsReply, sendVars, rowVars, fwVars
    <2> QED
      BY <2>1, TakenLabels
  <1>10. CASE Elsewhere \/ UNCHANGED vars
    <2>1. UNCHANGED <<pc, active, up, watch, row, pending, down>>
      BY <1>10 DEF Elsewhere, LoseDown, LeaseLapses, Takeover, Prompt, vars, sendVars, setVars, rowVars, fwVars
    <2>2. Over => Over'
      BY <2>1 DEF Over
    <2> QED
      BY <2>1, <2>2, SendLabels
  <1> QED
    BY <1>1, <1>2, <1>3, <1>4, <1>5, <1>6, <1>7, <1>8, <1>9, <1>10, NextIs

\* As long as no frame but a sample is lost and no reply comes after its limit:
\* rows are recorded under the watches they were sampled for, however watch
\* commands, refusals of the budget, replies and samples cross (on_sample).
\* With a lost reply to a WATCH they are not.
THEOREM LabelsRight ==
  ASSUME Prompt
  PROVE  Spec => []RowsLabelled
  <1>1. Init => Labels
    <2> SUFFICES ASSUME Init PROVE Labels
      OBVIOUS
    <2>1. /\ up = <<>> /\ down = <<>> /\ Len(up) = 0 /\ Len(down) = 0
          /\ active = <<>> /\ watch = Unsampled /\ row = [sampled |-> <<>>, taken |-> <<>>]
      BY DEF Init
    <2>2. SampledAs([i \in 0 .. 0 |-> <<>>], up, watch.set)
      BY <2>1 DEF SampledAs, Unsampled
    <2> QED
      BY <2>1, <2>2 DEF Labels, RowsLabelled, Awaited, Leads
  <1>2. Labels => RowsLabelled
    BY DEF Labels
  <1>3. Init => Wiring
    BY InitPlaced
  <1> QED
    BY <1>1, <1>2, <1>3, InitTypes, StepTypes, StepWiring, StepLabels, PTL DEF Spec
==============================================================================
