-------------------------- MODULE AcquisitionProofs --------------------------
(***************************************************************************)
(* Two parts of acquisition that share no state.                           *)
(*                                                                         *)
(* A handshake that connects has the lease, the version and the whole      *)
(* catalog, for any number of attempts, catalog and page size, whatever is *)
(* lost on the way.  A call is known by its sequence number: no other      *)
(* frame on the way carries it, so a late answer is never taken for the    *)
(* one that is waited for.                                                 *)
(*                                                                         *)
(* Sampling at a rate accounts for every tick that came due and never      *)
(* reports a rate above the one set, for any rates and changes of rate and *)
(* any window: the times of the window lie in ticks of their own.          *)
(*                                                                         *)
(* What is sampled is right, for any lists of items and any memory: the    *)
(* plan gives every item that is read a place in a region that covers it,  *)
(* and the bytes at that place decode to the value the item's bits have in *)
(* memory.  So each row that is collected is right for the items that are  *)
(* watched, and each batch, whose rows are sent before the items change.   *)
(***************************************************************************)
EXTENDS LinkHandshake, Sampler, FunctionTheorems, FiniteSetTheorems, WellFoundedInduction, TLAPS

------------------------------------------------------------------------------
(* Frames on the way *)

Frames(q) == {q[i] : i \in 1 .. Len(q)}

LEMMA FramesAppend ==
  ASSUME NEW S, NEW q \in Seq(S), NEW f \in S
  PROVE  Append(q, f) \in Seq(S) /\ Frames(Append(q, f)) = Frames(q) \union {f}
  <1>1. /\ Len(q) \in Nat /\ Len(Append(q, f)) = Len(q) + 1 /\ Append(q, f)[Len(q) + 1] = f
        /\ \A i \in 1 .. Len(q) : Append(q, f)[i] = q[i]
        /\ Append(q, f) \in Seq(S)
    OBVIOUS
  <1>2. \A i : i \in 1 .. Len(q) + 1 <=> i \in 1 .. Len(q) \/ i = Len(q) + 1
    BY <1>1
  <1> QED
    BY <1>1, <1>2 DEF Frames

LEMMA FramesTail ==
  ASSUME NEW S, NEW q \in Seq(S), q # <<>>
  PROVE  /\ Tail(q) \in Seq(S) /\ Head(q) \in S
         /\ Head(q) \in Frames(q) /\ Frames(Tail(q)) \subseteq Frames(q)
  <1>1. /\ Len(q) \in Nat /\ Len(Tail(q)) = Len(q) - 1 /\ Head(q) = q[1] /\ 1 \in 1 .. Len(q)
        /\ \A i \in 1 .. Len(Tail(q)) : Tail(q)[i] = q[i + 1] /\ i + 1 \in 1 .. Len(q)
        /\ Tail(q) \in Seq(S) /\ Head(q) \in S
    OBVIOUS
  <1> QED
    BY <1>1 DEF Frames

LEMMA FramesIn ==
  ASSUME NEW S, NEW q \in Seq(S), NEW f \in Frames(q)
  PROVE  f \in S
  BY DEF Frames

------------------------------------------------------------------------------
(* The inductive invariant *)

Past == {"LEASE", "CATALOG", "connected"}
Pages == Seq(Nat)
DownFrames == [cmd : Commands, seq : Nat \ {0}, offset : Nat]
UpFrames == [cmd : Commands, seq : Nat \ {0}, status : {"ok", "busy"}, version : Nat, total : Nat,
             page : Pages]

Types ==
  /\ pc \in Commands \union {"connected", "failed"}
  /\ seq \in Nat \ {0} /\ tries \in 1 .. Attempts
  /\ entries \in Seq(Nat) /\ down \in Seq(DownFrames) /\ up \in Seq(UpFrames)
  /\ version \in Versions /\ holder \in {"none", "us", "other"} /\ granted \in BOOLEAN

\* The entries of a page asked for from this entry on.
PageFrom(page, offset) ==
  /\ \A i \in 1 .. Len(page) : page[i] = offset + i
  /\ offset + Len(page) <= Total

\* The catalog is read from its start and no further than it goes; each page
\* but the last took a number, as did LEASE and the HELLOs.
Progress ==
  /\ \A i \in 1 .. Len(entries) : entries[i] = i
  /\ Len(entries) <= Total
  /\ pc = "HELLO" => seq <= tries
  /\ pc = "LEASE" => seq <= tries + 1
  /\ pc \in {"HELLO", "LEASE"} => entries = <<>>
  /\ seq <= tries + 2 + Len(entries)
  /\ pc \in Past => version = 1
  /\ pc \in {"CATALOG", "connected"} => granted
  /\ pc = "connected" => Len(entries) = Total

\* Only the call under way has its number, and its page goes on where the
\* catalog read so far ends.
Asked(f) == f.seq <= seq /\ (f.cmd = "CATALOG" /\ pc = "CATALOG" /\ f.seq = seq => f.offset = Len(entries))
Told(f) ==
  /\ f.seq <= seq /\ f.version = version /\ f.total = Total
  /\ f.cmd = "LEASE" /\ f.status = "ok" => granted
  /\ f.cmd = "CATALOG" /\ pc = "CATALOG" /\ f.seq = seq => PageFrom(f.page, Len(entries))

Link ==
  /\ \A f \in Frames(down) : Asked(f)
  /\ \A f \in Frames(up) : Told(f)

IInv == Types /\ Progress /\ Link

------------------------------------------------------------------------------

\* What a reader does with a frame that is there.
LEMMA TakeUp ==
  ASSUME Types, Link, up # <<>>
  PROVE  /\ Head(up) \in UpFrames /\ Told(Head(up))
         /\ Tail(up) \in Seq(UpFrames) /\ Frames(Tail(up)) \subseteq Frames(up)
  BY FramesTail DEF Types, Link

LEMMA TakeDown ==
  ASSUME Types, Link, down # <<>>
  PROVE  /\ Head(down) \in DownFrames /\ Asked(Head(down))
         /\ Tail(down) \in Seq(DownFrames) /\ Frames(Tail(down)) \subseteq Frames(down)
  BY FramesTail DEF Types, Link

\* A new call: what is on the way is older.
LEMMA NewCall ==
  ASSUME IInv, NEW cmd \in Commands, NEW offset \in Nat, Send(cmd, offset), pc' = cmd,
         cmd = "CATALOG" => offset = Len(entries'),
         up' \in Seq(UpFrames), Frames(up') \subseteq Frames(up), UNCHANGED <<version, granted>>
  PROVE  Link' /\ down' \in Seq(DownFrames) /\ seq' = seq + 1 /\ seq' \in Nat \ {0}
  <1>1. PICK f \in DownFrames :
          /\ f.cmd = cmd /\ f.seq = seq + 1 /\ f.offset = offset
          /\ seq \in Nat \ {0} /\ seq' = seq + 1 /\ down' = Append(down, f)
    <2>1. seq \in Nat \ {0} /\ [cmd |-> cmd, seq |-> seq + 1, offset |-> offset] \in DownFrames
      BY DEF IInv, Types, DownFrames
    <2> QED
      BY <2>1 DEF Send
  <1>2. down' \in Seq(DownFrames) /\ Frames(down') = Frames(down) \union {f}
    BY <1>1, FramesAppend DEF IInv, Types
  <1>3. ASSUME NEW g \in Frames(down) PROVE Asked(g)'
    <2>1. g.seq <= seq
      BY <1>3 DEF IInv, Link, Asked
    <2>2. g \in DownFrames
      BY <1>3, FramesIn DEF IInv, Types
    <2>3. g.seq \in Nat
      BY <2>2 DEF DownFrames
    <2> QED
      BY <1>1, <2>1, <2>3 DEF Asked
  <1>4. Asked(f)'
    BY <1>1 DEF Asked
  <1>5. ASSUME NEW g \in Frames(up) PROVE Told(g)'
    <2>1. Told(g)
      BY <1>5 DEF IInv, Link
    <2>2. g \in UpFrames
      BY <1>5, FramesIn DEF IInv, Types
    <2>3. g.seq \in Nat
      BY <2>2 DEF UpFrames
    <2> QED
      BY <1>1, <2>1, <2>3 DEF Told
  <1> QED
    BY <1>1, <1>2, <1>3, <1>4, <1>5 DEF Link

\* Frames go, no call is begun.
LEMMA LinkKept ==
  ASSUME Link, UNCHANGED <<seq, entries, version, granted>>, pc' \in {pc, "connected", "failed"},
         Frames(down') \subseteq Frames(down), Frames(up') \subseteq Frames(up)
  PROVE  Link'
  BY DEF Link, Asked, Told

\* The firmware answers with its version, its catalog's size and what it granted.
LEMMA Replied ==
  ASSUME IInv, down # <<>>, down' = Tail(down), NEW status \in {"ok", "busy"}, NEW page \in Pages,
         Reply(status, page), UNCHANGED <<pc, seq, tries, entries, version>>, granted => granted',
         granted' \in BOOLEAN,
         Head(down).cmd = "LEASE" /\ status = "ok" => granted',
         Head(down).cmd = "CATALOG" => PageFrom(page, Head(down).offset)
  PROVE  Link' /\ down' \in Seq(DownFrames) /\ up' \in Seq(UpFrames)
  <1>1. PICK asked \in DownFrames :
          /\ asked = Head(down) /\ Asked(asked)
          /\ down' \in Seq(DownFrames) /\ Frames(down') \subseteq Frames(down)
    BY TakeDown DEF IInv
  <1>2. PICK f \in UpFrames :
          /\ f.cmd = asked.cmd /\ f.seq = asked.seq /\ f.status = status /\ f.version = version
          /\ f.total = Total /\ f.page = page /\ up' = Append(up, f)
    <2>1. version \in Nat /\ Total \in Nat
      BY HandshakeAssumption DEF IInv, Types
    <2>2. [cmd |-> asked.cmd, seq |-> asked.seq, status |-> status,
           version |-> version, total |-> Total, page |-> page] \in UpFrames
      BY <2>1 DEF UpFrames, DownFrames
    <2> QED
      BY <1>1, <2>2 DEF Reply
  <1>3. up' \in Seq(UpFrames) /\ Frames(up') = Frames(up) \union {f}
    BY <1>2, FramesAppend DEF IInv, Types
  <1>4. Told(f)'
    <2>1. f.cmd = "CATALOG" /\ pc = "CATALOG" /\ f.seq = seq => PageFrom(page, Len(entries))
      BY <1>1, <1>2 DEF Asked
    <2>2. PageFrom(page, Len(entries))' <=> PageFrom(page, Len(entries))
      BY DEF PageFrom
    <2> QED
      BY <1>1, <1>2, <2>1, <2>2 DEF Told, Asked
  <1>5. ASSUME NEW g \in Frames(up) PROVE Told(g)'
    BY <1>5 DEF IInv, Link, Told, PageFrom
  <1>6. ASSUME NEW g \in Frames(down) PROVE Asked(g)'
    BY <1>6 DEF IInv, Link, Asked
  <1> QED
    BY <1>1, <1>3, <1>4, <1>5, <1>6 DEF Link

------------------------------------------------------------------------------

LEMMA CatalogReplyKeeps ==
  ASSUME IInv, CatalogReply
  PROVE  IInv'
  <1> DEFINE page == Head(up).page
             n == Len(entries)
  <1>1. /\ Head(up) \in UpFrames /\ Told(Head(up)) /\ Head(up).cmd = "CATALOG" /\ Head(up).seq = seq
        /\ up' = Tail(up) /\ up' \in Seq(UpFrames) /\ Frames(up') \subseteq Frames(up) /\ pc = "CATALOG"
        /\ UNCHANGED <<tries, version, holder, granted>> /\ entries' = entries \o page
    BY TakeUp DEF CatalogReply, Arrived, Mine, IInv
  <1>2. /\ n \in Nat /\ entries \in Seq(Nat) /\ page \in Seq(Nat) /\ Len(page) \in Nat /\ Total \in Nat
        /\ Head(up).total = Total /\ n + Len(page) <= Total
        /\ \A i \in 1 .. Len(page) : page[i] = n + i
        /\ \A i \in 1 .. n : entries[i] = i
        /\ seq \in Nat \ {0} /\ tries \in Nat /\ seq <= tries + 2 + n
    <2>1. page \in Seq(Nat) /\ Head(up).total = Total /\ PageFrom(page, n)
      BY <1>1 DEF Told, UpFrames, Pages
    <2>2. n \in Nat /\ entries \in Seq(Nat) /\ seq \in Nat \ {0} /\ tries \in Nat
      BY HandshakeAssumption DEF IInv, Types
    <2> HIDE DEF page
    <2> QED
      BY <2>1, <2>2, HandshakeAssumption DEF PageFrom, IInv, Progress
  <1>3. /\ entries' \in Seq(Nat) /\ Len(entries') = n + Len(page)
        /\ \A i \in 1 .. Len(entries') : entries'[i] = i
    <2> HIDE DEF page
    <2>1. entries \o page \in Seq(Nat) /\ Len(entries \o page) = n + Len(page)
      BY <1>2
    <2>2. ASSUME NEW i \in 1 .. n + Len(page) PROVE (entries \o page)[i] = i
      <3>1. CASE i <= n
        BY <1>2, <2>2, <3>1
      <3>2. CASE i > n
        <4>1. i - n \in 1 .. Len(page) /\ n + (i - n) = i
          BY <1>2, <2>2, <3>2
        <4>2. (entries \o page)[i] = page[i - n]
          BY <1>2, <2>2, <3>2
        <4> QED
          BY <1>2, <4>1, <4>2
      <3> QED
        BY <1>2, <2>2, <3>1, <3>2
    <2> QED
      BY <1>1, <2>1, <2>2
  <1>4. /\ Len(entries') >= Total => pc' = "connected" /\ UNCHANGED <<seq, down>>
        /\ Len(entries') < Total /\ page = <<>> => pc' = "failed" /\ UNCHANGED <<seq, down>>
        /\ ~(Len(entries') >= Total) /\ ~(Len(entries') < Total /\ page = <<>>) =>
             pc' = pc /\ Send("CATALOG", Len(entries'))
    <2> USE <1>1, <1>2
    <2> HIDE DEF page, n
    <2>1. entries' = entries \o Head(up).page /\ Head(up).total = Total /\ page = Head(up).page
      BY DEF page
    <2>2. CASE Len(entries') >= Total
      <3>1. ~(Len(entries') < Total)
        BY <1>3, <2>2
      <3> QED
        BY <2>1, <2>2, <3>1, Zenon DEF CatalogReply
    <2>3. CASE ~(Len(entries') >= Total)
      <3>1. Len(entries') < Total
        BY <1>3, <2>3
      <3>2. CASE page = <<>>
        BY <2>1, <2>3, <3>1, <3>2, Zenon DEF CatalogReply, Fail
      <3>3. CASE page # <<>>
        BY <2>1, <2>3, <3>1, <3>3, Zenon DEF CatalogReply
      <3> QED
        BY <2>3, <3>1, <3>2, <3>3
    <2> QED
      BY <2>2, <2>3
  <1>5. CASE Len(entries') >= Total \/ page = <<>>
    <2> HIDE DEF page, n
    <2>1. /\ pc' \in {"connected", "failed"} /\ UNCHANGED <<seq, down>>
          /\ pc' = "connected" => Len(entries') = Total
      <3>1. Len(entries') \in Nat /\ Len(entries') <= Total /\ Total \in Nat
        BY <1>2, <1>3
      <3>2. CASE Len(entries') >= Total
        BY <1>4, <3>1, <3>2
      <3>3. CASE page = <<>> /\ Len(entries') < Total
        BY <1>4, <3>3
      <3> QED
        BY <1>5, <3>1, <3>2, <3>3
    <2>2. Link'
      <3>1. ASSUME NEW f \in Frames(down) PROVE Asked(f)'
        BY <2>1, <3>1 DEF IInv, Link, Asked
      <3>2. ASSUME NEW f \in Frames(up) PROVE Told(f)'
        BY <1>1, <2>1, <3>2 DEF IInv, Link, Told
      <3> QED
        BY <1>1, <2>1, <3>1, <3>2 DEF Link
    <2>3. Types'
      BY <1>1, <1>3, <2>1 DEF IInv, Types
    <2>4. Progress'
      <3>1. tries' + 2 + Len(entries') >= seq' /\ Len(entries') <= Total
        BY <1>1, <1>2, <1>3, <2>1
      <3>2. version = 1 /\ granted
        BY <1>1 DEF IInv, Progress, Past
      <3> QED
        BY <1>1, <1>2, <1>3, <2>1, <3>1, <3>2 DEF Progress, Past
    <2> QED
      BY <2>2, <2>3, <2>4 DEF IInv
  <1>6. CASE ~(Len(entries') >= Total) /\ page # <<>>
    <2>1. pc' = "CATALOG" /\ Send("CATALOG", Len(entries')) /\ Len(entries') \in Nat
      BY <1>1, <1>2, <1>3, <1>4, <1>6
    <2>2. Link' /\ down' \in Seq(DownFrames) /\ seq' = seq + 1 /\ seq' \in Nat \ {0}
      BY <1>1, <2>1, NewCall DEF Commands
    <2>3. Types'
      BY <1>1, <1>3, <2>1, <2>2 DEF IInv, Types, Commands
    <2>4. Len(page) >= 1
      BY <1>2, <1>6
    <2>5. Progress'
      <3>1. seq' <= tries' + 2 + Len(entries') /\ Len(entries') <= Total
        <4> HIDE DEF page, n
        <4>1. tries' = tries /\ seq' = seq + 1 /\ Len(entries') = n + Len(page) /\ Len(page) \in Nat
          BY <1>1, <1>2, <1>3, <2>2
        <4> QED
          BY <1>2, <2>4, <4>1
      <3>2. version = 1 /\ granted
        BY <1>1 DEF IInv, Progress, Past
      <3> QED
        BY <1>1, <1>3, <2>1, <3>1, <3>2 DEF Progress, Past
    <2> QED
      BY <2>2, <2>3, <2>5 DEF IInv
  <1> QED
    BY <1>5, <1>6

LEMMA StepKeeps ==
  ASSUME IInv, [Next]_vars
  PROVE  IInv'
  <1>0. /\ seq \in Nat \ {0} /\ tries \in Nat /\ tries <= Attempts /\ Attempts \in Nat /\ Len(entries) \in Nat
        /\ Total \in Nat /\ entries \in Seq(Nat)
    BY HandshakeAssumption DEF IInv, Types
  <1>1. CASE ReadOther \/ LoseUp
    <2>1. /\ UNCHANGED <<pc, seq, tries, entries, down, version, holder, granted>> /\ up # <<>> /\ up' = Tail(up)
      BY <1>1 DEF ReadOther, LoseUp
    <2>2. up' \in Seq(UpFrames) /\ Frames(up') \subseteq Frames(up)
      BY <2>1, TakeUp DEF IInv
    <2>3. Link'
      BY <2>1, <2>2, LinkKept DEF IInv
    <2> QED
      BY <2>1, <2>2, <2>3 DEF IInv, Types, Progress
  <1>2. CASE LoseDown
    <2>1. down' \in Seq(DownFrames) /\ Frames(down') \subseteq Frames(down)
      BY <1>2, TakeDown DEF LoseDown, IInv
    <2>2. Link'
      BY <1>2, <2>1, LinkKept DEF IInv, LoseDown
    <2> QED
      BY <1>2, <2>1, <2>2 DEF IInv, Types, Progress, LoseDown
  <1>3. CASE LeaseLapses
    BY <1>3, LinkKept DEF IInv, Types, Progress, LeaseLapses
  <1>4. ASSUME pc' = "failed", UNCHANGED <<seq, down, tries, entries, version, holder, granted>>,
               up' = up \/ (up # <<>> /\ up' = Tail(up))
        PROVE  IInv'
    <2>1. up' \in Seq(UpFrames) /\ Frames(up') \subseteq Frames(up)
      BY <1>4, TakeUp DEF IInv, Types
    <2>2. Link'
      BY <1>4, <2>1, LinkKept DEF IInv
    <2> QED
      BY <1>4, <2>1, <2>2 DEF IInv, Types, Progress, Past
  <1>5. CASE HelloReply
    <2>1. /\ Head(up) \in UpFrames /\ Told(Head(up)) /\ up # <<>> /\ up' = Tail(up)
          /\ up' \in Seq(UpFrames) /\ Frames(up') \subseteq Frames(up) /\ pc = "HELLO"
          /\ UNCHANGED <<tries, entries, version, holder, granted>>
      BY <1>5, TakeUp DEF HelloReply, Arrived, IInv
    <2>2. CASE Head(up).version = 1
      <3>1. pc' = "LEASE" /\ Send("LEASE", 0) /\ version = 1
        BY <1>5, <2>1, <2>2 DEF HelloReply, Told
      <3>2. Link' /\ down' \in Seq(DownFrames) /\ seq' = seq + 1 /\ seq' \in Nat \ {0}
        BY <2>1, <3>1, NewCall DEF Commands
      <3>3. Progress'
        BY <1>0, <2>1, <3>1, <3>2 DEF IInv, Progress, Past
      <3> QED
        BY <2>1, <3>1, <3>2, <3>3 DEF IInv, Types, Commands
    <2>3. CASE Head(up).version # 1
      BY <1>4, <1>5, <2>1, <2>3 DEF HelloReply, Fail
    <2> QED
      BY <2>2, <2>3
  <1>6. CASE LeaseReply
    <2>1. /\ Head(up) \in UpFrames /\ Told(Head(up)) /\ up # <<>> /\ up' = Tail(up)
          /\ up' \in Seq(UpFrames) /\ Frames(up') \subseteq Frames(up) /\ pc = "LEASE"
          /\ Head(up).cmd = "LEASE" /\ UNCHANGED <<tries, entries, version, holder, granted>>
      BY <1>6, TakeUp DEF LeaseReply, Arrived, Mine, IInv
    <2>2. CASE Head(up).status = "ok"
      <3>1. pc' = "CATALOG" /\ Send("CATALOG", Len(entries)) /\ granted
        BY <1>6, <2>1, <2>2 DEF LeaseReply, Told
      <3>2. Link' /\ down' \in Seq(DownFrames) /\ seq' = seq + 1 /\ seq' \in Nat \ {0}
        BY <1>0, <2>1, <3>1, NewCall DEF Commands
      <3>3. Progress'
        BY <1>0, <2>1, <3>1, <3>2 DEF IInv, Progress, Past
      <3> QED
        BY <2>1, <3>1, <3>2, <3>3 DEF IInv, Types, Commands
    <2>3. CASE Head(up).status # "ok"
      BY <1>4, <1>6, <2>1, <2>3 DEF LeaseReply, Fail
    <2> QED
      BY <2>2, <2>3
  <1>7. CASE CatalogReply
    BY <1>7, CatalogReplyKeeps
  <1>8. CASE CallTimesOut
    <2>1. UNCHANGED <<entries, up, version, holder, granted>>
      BY <1>8 DEF CallTimesOut
    <2>2. CASE MayRetry
      <3>1. pc = "HELLO" /\ tries < Attempts /\ pc' = "HELLO" /\ Send("HELLO", 0) /\ tries' = tries + 1
        BY <1>8, <2>2 DEF CallTimesOut, MayRetry
      <3>2. up' \in Seq(UpFrames) /\ Frames(up') \subseteq Frames(up)
        BY <2>1 DEF IInv, Types
      <3>3. Link' /\ down' \in Seq(DownFrames) /\ seq' = seq + 1 /\ seq' \in Nat \ {0}
        BY <2>1, <3>1, <3>2, NewCall DEF Commands
      <3>4. Progress'
        BY <1>0, <2>1, <3>1, <3>3 DEF IInv, Progress, Past
      <3>5. tries' \in 1 .. Attempts
        BY <1>0, <3>1
      <3> QED
        BY <2>1, <3>1, <3>2, <3>3, <3>4, <3>5 DEF IInv, Types, Commands
    <2>3. CASE ~MayRetry
      BY <1>4, <1>8, <2>1, <2>3 DEF CallTimesOut, Fail
    <2> QED
      BY <2>2, <2>3
  <1>9. CASE StreamFails
    BY <1>4, <1>9 DEF StreamFails, Fail
  <1>10. CASE ServeHello
    <2>1. <<>> \in Pages
      BY DEF Pages
    <2>2. Link' /\ down' \in Seq(DownFrames) /\ up' \in Seq(UpFrames)
      BY <1>10, <2>1, Replied DEF ServeHello, Served, IInv, Types
    <2> QED
      BY <1>10, <2>2 DEF ServeHello, IInv, Types, Progress
  <1>11. CASE ServeLease
    <2>1. <<>> \in Pages
      BY DEF Pages
    <2>2. /\ (granted => granted') /\ granted' \in BOOLEAN /\ (holder # "other" => granted')
          /\ holder' \in {"us", "other"} /\ UNCHANGED <<pc, seq, tries, entries, version>>
          /\ down # <<>> /\ down' = Tail(down) /\ Head(down).cmd = "LEASE"
          /\ Reply(IF holder = "other" THEN "busy" ELSE "ok", <<>>)
      BY <1>11 DEF ServeLease, Served, IInv, Types
    <2>3. Link' /\ down' \in Seq(DownFrames) /\ up' \in Seq(UpFrames)
      <3> DEFINE status == IF holder = "other" THEN "busy" ELSE "ok"
      <3>1. status \in {"ok", "busy"} /\ (status = "ok" => granted')
        BY <2>2
      <3> HIDE DEF status
      <3>2. Reply(status, <<>>)
        BY <2>2 DEF status
      <3> QED
        BY <2>1, <2>2, <3>1, <3>2, Replied
    <2> QED
      BY <2>2, <2>3 DEF IInv, Types, Progress
  <1>12. CASE ServeCatalog
    <2>1. PICK n \in 0 .. MaxPage :
             /\ Head(down).offset + n <= Total
             /\ Reply("ok", [i \in 1 .. n |-> Head(down).offset + i])
      BY <1>12 DEF ServeCatalog
    <2>2. /\ down # <<>> /\ down' = Tail(down) /\ Head(down).cmd = "CATALOG"
          /\ UNCHANGED <<pc, seq, tries, entries, version, holder, granted>>
      BY <1>12 DEF ServeCatalog, Served
    <2>3. Head(down).offset \in Nat /\ n \in Nat
      BY <2>2, TakeDown, HandshakeAssumption DEF IInv, DownFrames
    <2> DEFINE page == [i \in 1 .. n |-> Head(down).offset + i]
    <2>4. page \in Pages /\ Len(page) = n /\ \A i \in 1 .. n : page[i] = Head(down).offset + i
      BY <2>3 DEF Pages
    <2>5. PageFrom(page, Head(down).offset)
      BY <2>1, <2>3, <2>4 DEF PageFrom
    <2>6. granted \in BOOLEAN
      BY DEF IInv, Types
    <2> HIDE DEF page
    <2>7. Reply("ok", page)
      BY <2>1 DEF page
    <2>8. Link' /\ down' \in Seq(DownFrames) /\ up' \in Seq(UpFrames)
      BY <2>2, <2>4, <2>5, <2>6, <2>7, Replied
    <2> QED
      BY <2>2, <2>8 DEF IInv, Types, Progress
  <1>13. CASE UNCHANGED vars
    BY <1>13, LinkKept DEF vars, IInv, Types, Progress
  <1> QED
    BY <1>1, <1>2, <1>3, <1>5, <1>6, <1>7, <1>8, <1>9, <1>10, <1>11, <1>12, <1>13 DEF Next

LEMMA InitKeeps == Init => IInv
  <1> SUFFICES ASSUME Init PROVE IInv
    OBVIOUS
  <1> DEFINE f == [cmd |-> "HELLO", seq |-> 1, offset |-> 0]
  <1>1. f \in DownFrames /\ down = <<f>> /\ f.seq = 1 /\ f.cmd = "HELLO"
    BY DEF Init, DownFrames, Commands
  <1> HIDE DEF f
  <1>2. down \in Seq(DownFrames) /\ Frames(down) = {f} /\ up \in Seq(UpFrames) /\ Frames(up) = {}
    BY <1>1 DEF Init, Frames
  <1>3. Link
    BY <1>1, <1>2 DEF Init, Link, Asked
  <1>4. entries \in Seq(Nat) /\ Len(entries) = 0 /\ tries \in 1 .. Attempts
    BY HandshakeAssumption DEF Init
  <1>5. Types
    <2>1. pc = "HELLO" /\ seq = 1 /\ version \in Versions /\ holder \in {"none", "other"} /\ granted \in BOOLEAN
      BY DEF Init
    <2>2. /\ pc \in Commands \union {"connected", "failed"} /\ seq \in Nat \ {0}
          /\ holder \in {"none", "us", "other"}
      BY <2>1 DEF Commands
    <2> QED
      BY <1>2, <1>4, <2>1, <2>2, Zenon DEF Types
  <1>6. Progress
    BY <1>4, HandshakeAssumption DEF Init, Progress, Past
  <1> QED
    BY <1>3, <1>5, <1>6 DEF IInv

\* In every state each variable has its type, and no more numbers have been used
\* than there are HELLOs, a LEASE and entries.
THEOREM TypeCorrect == Spec => []TypeOK
  <1>1. IInv => TypeOK
    <2> SUFFICES ASSUME IInv PROVE TypeOK
      OBVIOUS
    <2>0. /\ seq \in Nat \ {0} /\ tries \in 1 .. Attempts /\ Attempts \in Nat /\ Len(entries) \in Nat /\ Total \in Nat
          /\ entries \in Seq(Nat)
      BY HandshakeAssumption DEF IInv, Types
    <2>1. seq \in 1 .. Attempts + 2 + Total
      BY <2>0 DEF IInv, Progress
    <2>2. entries \in Seq(1 .. Total)
      BY <2>0 DEF IInv, Progress
    <2>3. \A i \in 1 .. Len(down) : down[i].cmd \in Commands /\ down[i].seq \in 1 .. seq
      <3> SUFFICES ASSUME NEW i \in 1 .. Len(down) PROVE down[i].cmd \in Commands /\ down[i].seq \in 1 .. seq
        OBVIOUS
      <3>1. down[i] \in DownFrames /\ Asked(down[i])
        BY DEF IInv, Types, Link, Frames
      <3> QED
        BY <2>0, <3>1 DEF DownFrames, Asked
    <2>4. \A i \in 1 .. Len(up) : up[i].cmd \in Commands /\ up[i].seq \in 1 .. seq
      <3> SUFFICES ASSUME NEW i \in 1 .. Len(up) PROVE up[i].cmd \in Commands /\ up[i].seq \in 1 .. seq
        OBVIOUS
      <3>1. up[i] \in UpFrames /\ Told(up[i])
        BY DEF IInv, Types, Link, Frames
      <3> QED
        BY <2>0, <3>1 DEF UpFrames, Told
    <2> QED
      BY <2>1, <2>2, <2>3, <2>4 DEF IInv, Types, TypeOK
  <1> QED
    BY <1>1, InitKeeps, StepKeeps, PTL DEF Spec

\* A session connects only to a firmware of its protocol that granted it the
\* lease, and with the whole catalog, no entry twice and none left out.
THEOREM KnowsAll == Spec => []ConnectedKnowsAll
  <1>1. IInv => ConnectedKnowsAll
    <2> SUFFICES ASSUME IInv, pc = "connected"
                 PROVE  version = 1 /\ granted /\ entries = [i \in 1 .. Total |-> i]
      BY DEF ConnectedKnowsAll
    <2>1. Len(entries) = Total /\ entries \in Seq(Nat) /\ \A i \in 1 .. Len(entries) : entries[i] = i
      BY DEF IInv, Types, Progress
    <2>2. entries = [i \in 1 .. Total |-> i]
      BY <2>1
    <2> QED
      BY <2>2 DEF IInv, Progress, Past
  <1> QED
    BY <1>1, InitKeeps, StepKeeps, PTL DEF Spec

------------------------------------------------------------------------------
(* Sampling: arithmetic *)

LEMMA DueIs ==
  ASSUME NEW x \in Nat, NEW p \in Nat \ {0}
  PROVE  /\ x \div p \in Nat
         /\ p * (x \div p) <= x
         /\ x < p * (x \div p) + p
  OBVIOUS

LEMMA TimesMonotone ==
  ASSUME NEW p \in Nat, NEW a \in Int, NEW b \in Int, a <= b
  PROVE  p * a <= p * b
  <1>1. PICK k \in Nat : b = a + k
    <2>1. b - a \in Nat /\ b = a + (b - a)
      OBVIOUS
    <2> QED
      BY <2>1
  <1>2. p * b = p * a + p * k
    BY <1>1
  <1>3. p * k \in Nat
    OBVIOUS
  <1>4. p * a \in Int
    OBVIOUS
  <1> QED
    BY <1>2, <1>3, <1>4

LEMMA TimesNext ==
  ASSUME NEW p \in Nat, NEW a \in Int
  PROVE  p * (a + 1) = p * a + p /\ p * a \in Int
  OBVIOUS

LEMMA TimesSum ==
  ASSUME NEW p \in Nat, NEW a \in Int, NEW b \in Int
  PROVE  p * (a + b) = p * a + b * p /\ p * a \in Int /\ b * p \in Int
  OBVIOUS

\* From the first tick of the window to the last, fewer periods than ticks passed.
LEMMA WindowIs ==
  ASSUME NEW p \in Nat, NEW m \in Nat, NEW n \in Nat, NEW start \in Nat, NEW a \in Nat, NEW b \in Nat,
         a < start + p * (m - n + 1), start + p * (m - 1) <= b
  PROVE  (n - 1 - 1) * p < b - a
  <1>1. PICK k \in Int, j \in Int : k = m - n + 1 /\ j = n - 1 - 1 /\ m - 1 = k + j
    <2>1. m - n + 1 \in Int /\ n - 1 - 1 \in Int /\ m - 1 = (m - n + 1) + (n - 1 - 1)
      OBVIOUS
    <2> QED
      BY <2>1
  <1>2. p * (k + j) = p * k + j * p /\ p * k \in Int /\ j * p \in Int
    BY TimesSum
  <1>3. a < start + p * k /\ start + (p * k + j * p) <= b
    BY <1>1, <1>2
  <1>4. PICK x \in Int, y \in Int : x = p * k /\ y = j * p
    BY <1>2
  <1>5. y < b - a
    BY <1>3, <1>4
  <1> QED
    BY <1>1, <1>4, <1>5

LEMMA SmallRemains ==
  ASSUME NEW n \in Nat, NEW m \in Nat \ {0}, n < m
  PROVE  n % m = n
  OBVIOUS

\* Each of these times lies before the end of a tick of its own, the last one's being
\* the start of tick m.
Earlier(times, start, p, m) ==
  \A i \in 1 .. Len(times) : times[i] < start + p * (m - Len(times) + i)

\* Times of earlier ticks, and the time of one more.
LEMMA OneMoreTime ==
  ASSUME NEW at \in Seq(Nat), NEW start \in Nat, NEW p \in Nat, NEW m \in Nat, NEW d \in Nat,
         NEW now \in Nat, m <= d, now < start + (p * d + p),
         Earlier(at, start, p, m)
  PROVE  Earlier(Append(at, now), start, p, d + 1)
  <1> DEFINE n == Len(at)
  <1>1. /\ n \in Nat /\ \A i \in 1 .. n : at[i] \in Nat /\ Append(at, now)[i] = at[i]
        /\ Append(at, now)[n + 1] = now /\ Len(Append(at, now)) = n + 1
    OBVIOUS
  <1> SUFFICES ASSUME NEW i \in 1 .. n + 1
               PROVE  Append(at, now)[i] < start + p * (d - n + i)
    <2>1. \A i \in 1 .. n + 1 : d + 1 - (n + 1) + i = d - n + i
      BY <1>1
    <2> QED
      BY <2>1, <1>1 DEF Earlier
  <1>2. CASE i = n + 1
    <2>1. d - n + i = d + 1
      BY <1>1, <1>2
    <2> QED
      BY <2>1, <1>1, <1>2, TimesNext
  <1>3. CASE i \in 1 .. n
    <2>1. m - n + i \in Int /\ d - n + i \in Int /\ m - n + i <= d - n + i
      BY <1>1
    <2>2. PICK a \in Int, b \in Int : a = p * (m - n + i) /\ b = p * (d - n + i) /\ a <= b
      BY <2>1, TimesMonotone, TimesNext
    <2>3. at[i] < start + a /\ at[i] \in Nat
      BY <2>2, <1>1, <1>3 DEF Earlier
    <2>4. at[i] < start + b
      BY <2>2, <2>3
    <2> QED
      BY <2>2, <2>4, <1>1, <1>3
  <1> QED
    BY <1>1, <1>2, <1>3

\* What is left when the oldest time is dropped, as there are too many.
LEMMA WithinIs ==
  ASSUME NEW times \in Seq(Nat), Len(times) > 0
  PROVE  \E k \in {0, 1} :
           /\ Within(times) \in Seq(Nat) /\ Len(Within(times)) = Len(times) - k
           /\ Len(times) - k \in Nat \ {0}
           /\ \A i \in 1 .. Len(times) - k : i + k \in 1 .. Len(times) /\ Within(times)[i] = times[i + k]
  <1>1. CASE ~(Len(times) > Window)
    BY <1>1 DEF Within
  <1>2. CASE Len(times) > Window
    <2>1. Within(times) = Tail(times)
      BY <1>2 DEF Within
    <2>2. Len(times) \in Nat /\ Len(times) - 1 \in Nat \ {0}
      <3>1. PICK n \in Nat : n = Len(times)
        OBVIOUS
      <3>2. PICK w \in Nat \ {0} : w = Window
        BY SamplerAssumption
      <3> QED
        BY <1>2, <3>1, <3>2
    <2> QED
      BY <2>1, <2>2
  <1> QED
    BY <1>1, <1>2

LEMMA WithinWindow ==
  ASSUME NEW times \in Seq(Nat), Len(times) > 0, NEW start \in Nat, NEW p \in Nat, NEW m \in Nat,
         Earlier(times, start, p, m)
  PROVE  LET kept == Within(times)
         IN  /\ kept \in Seq(Nat) /\ Len(kept) \in Nat \ {0} /\ kept[Len(kept)] = times[Len(times)]
             /\ Earlier(kept, start, p, m)
  <1>1. PICK k \in {0, 1} :
           /\ Within(times) \in Seq(Nat) /\ Len(Within(times)) = Len(times) - k
           /\ Len(times) - k \in Nat \ {0}
           /\ \A i \in 1 .. Len(times) - k : i + k \in 1 .. Len(times) /\ Within(times)[i] = times[i + k]
    BY WithinIs
  <1>2. PICK kept \in Seq(Nat), n \in Nat \ {0} : kept = Within(times) /\ n = Len(times) - k
    BY <1>1
  <1>3. Len(kept) = n /\ Len(times) = n + k /\ \A i \in 1 .. n : kept[i] = times[i + k] /\ i + k \in 1 .. n + k
    BY <1>1, <1>2
  <1>4. \A i \in 1 .. n : m - (n + k) + (i + k) = m - n + i
    OBVIOUS
  <1>5. \A i \in 1 .. n : kept[i] < start + p * (m - n + i)
    BY <1>3, <1>4 DEF Earlier
  <1>6. kept[n] = times[Len(times)]
    BY <1>3
  <1> QED
    BY <1>2, <1>3, <1>5, <1>6 DEF Earlier

\* Between any two of these times one of the first m deadlines lies.
Apart(times, start, p, m) ==
  \A i \in 1 .. Len(times) - 1 : \E k \in 1 .. m - 1 : times[i] < start + p * k /\ start + p * k <= times[i + 1]

\* One more time, with a deadline between the last one and it.
LEMMA ApartStill ==
  ASSUME NEW at \in Seq(Nat), NEW start \in Nat, NEW p \in Nat, NEW m \in Nat, NEW d \in Nat, NEW now \in Nat,
         m <= d, Apart(at, start, p, m), start + p * m <= now,
         Len(at) > 0 => m > 0 /\ at[Len(at)] < start + p * m
  PROVE  Apart(Within(Append(at, now)), start, p, d + 1)
  <1> DEFINE n == Len(at)
             times == Append(at, now)
  <1>1. /\ n \in Nat /\ times \in Seq(Nat) /\ Len(times) = n + 1 /\ times[n + 1] = now
        /\ \A i \in 1 .. n : at[i] \in Nat /\ times[i] = at[i]
    OBVIOUS
  <1>2. ASSUME NEW i \in 1 .. n
        PROVE  \E k \in 1 .. d : times[i] < start + p * k /\ start + p * k <= times[i + 1]
    <2>1. CASE i = n
      <3>1. m \in 1 .. d /\ times[i] = at[n] /\ times[i + 1] = now /\ n > 0
        BY <2>1, <1>1
      <3> QED
        BY <3>1
    <2>2. CASE i # n
      <3>1. i \in 1 .. n - 1 /\ i + 1 \in 1 .. n
        BY <2>2, <1>1
      <3>2. PICK k \in 1 .. m - 1 : at[i] < start + p * k /\ start + p * k <= at[i + 1]
        BY <3>1 DEF Apart
      <3>3. k \in 1 .. d
        OBVIOUS
      <3>4. times[i] = at[i] /\ times[i + 1] = at[i + 1]
        BY <3>1, <1>1
      <3> QED
        BY <3>2, <3>3, <3>4
    <2> QED
      BY <2>1, <2>2
  <1> HIDE DEF n, times
  <1>7. times \in Seq(Nat) /\ Len(times) > 0
    BY <1>1
  <1> DEFINE l == Len(times)
  <1>3. PICK j \in {0, 1} :
           /\ Len(Within(times)) = l - j
           /\ \A i \in 1 .. l - j : i + j \in 1 .. l /\ Within(times)[i] = times[i + j]
    BY <1>7, WithinIs
  <1> DEFINE kept == Within(times)
  <1> HIDE DEF kept
  <1>4. Len(kept) = n + 1 - j /\ \A i \in 1 .. n + 1 - j : kept[i] = times[i + j]
    <2>1. l = n + 1 /\ n \in Nat
      BY <1>1
    <2> HIDE DEF l
    <2>2. Len(kept) = l - j /\ \A i \in 1 .. l - j : kept[i] = times[i + j]
      BY <1>3 DEF kept
    <2> QED
      BY <2>1, <2>2
  <1> SUFFICES ASSUME NEW i \in 1 .. Len(kept) - 1
               PROVE  \E k \in 1 .. (d + 1) - 1 : kept[i] < start + p * k /\ start + p * k <= kept[i + 1]
    BY DEF Apart, kept, times
  <1>5. i + j \in 1 .. n /\ kept[i] = times[i + j] /\ kept[i + 1] = times[(i + j) + 1]
    <2>1. i \in 1 .. n + 1 - j /\ i + 1 \in 1 .. n + 1 - j /\ (i + 1) + j = (i + j) + 1 /\ i + j \in 1 .. n
      BY <1>1, <1>4
    <2>2. \A q \in 1 .. n + 1 - j : kept[q] = times[q + j]
      BY <1>4
    <2> HIDE DEF n
    <2>3. kept[i] = times[i + j] /\ kept[i + 1] = times[(i + 1) + j]
      BY ONLY <2>1, <2>2, Zenon
    <2>4. kept[i + 1] = times[(i + j) + 1]
      BY ONLY <2>1, <2>3, Zenon
    <2> QED
      BY ONLY <2>1, <2>3, <2>4, Zenon
  <1>6. (d + 1) - 1 = d
    OBVIOUS
  <1> QED
    BY <1>2, <1>5, <1>6

------------------------------------------------------------------------------
(* Sampling: the inductive invariant *)

Tickers == [start : Nat, period : Nat \ {0}, next : Nat]

SamplerTypes ==
  /\ clock \in Nat /\ period \in Nat \ {0}
  /\ sampler = <<>> \/ \E t \in Tickers : sampler = <<t>>
  /\ skipped \in [ticker : Nat, before : Nat]
  /\ stats \in [ticks : Nat, at : Seq(Nat)]
  /\ due \in [ticks : Nat, fit : BOOLEAN]

\* Ticks the ticker has passed, read or not.
Passed == IF sampler = <<>> THEN 0 ELSE sampler[1].next

\* The tick read last was the one before the next, and those read before it were
\* earlier ticks, each another.
OnTime(t, times, now) ==
  LET n == Len(times)
  IN  /\ t.start <= now /\ t.next < TickWrap
      /\ n = 0 => t.next = 0
      /\ n > 0 => t.start + t.period * (t.next - 1) <= times[n] /\ times[n] <= now
      /\ Earlier(times, t.start, t.period, t.next)

Ticking ==
  due.fit =>
    /\ stats.ticks + skipped.before + skipped.ticker = due.ticks + Passed
    /\ sampler # <<>> => OnTime(sampler[1], stats.at, clock)

SamplerInv == SamplerTypes /\ Ticking

LEMMA SamplerStart ==
  ASSUME NEW every \in Periods, SamplerInit(every)
  PROVE  SamplerInv
  BY SamplerAssumption DEF SamplerInit, SamplerInv, SamplerTypes, Ticking, Passed

LEMMA RestartKeeps ==
  ASSUME SamplerInv, NEW p, NEW every \in Nat \ {0}, Restarted(p, every), period' \in Nat \ {0},
         clock' = clock
  PROVE  SamplerInv'
  <1>1. /\ clock \in Nat /\ period \in Nat \ {0} /\ skipped \in [ticker : Nat, before : Nat]
        /\ stats \in [ticks : Nat, at : Seq(Nat)] /\ due \in [ticks : Nat, fit : BOOLEAN]
        /\ sampler = <<>> \/ \E t \in Tickers : sampler = <<t>>
    BY DEF SamplerInv, SamplerTypes
  <1>2. PICK t : t = [start |-> clock, period |-> every, next |-> 0]
    OBVIOUS
  <1>3. t \in Tickers /\ t.start = clock /\ t.next = 0
    BY <1>1, <1>2 DEF Tickers
  <1>4. sampler' = <<>> \/ sampler' = <<t>>
    BY <1>2 DEF Restarted
  <1>5. /\ skipped' = [ticker |-> 0, before |-> skipped.before + skipped.ticker]
        /\ stats' = [ticks |-> stats.ticks, at |-> <<>>]
        /\ due' = [ticks |-> due.ticks + Passed, fit |-> due.fit]
    BY <1>1 DEF Restarted, Passed
  <1>6. Passed \in Nat /\ Passed' = 0
    BY <1>1, <1>3, <1>4 DEF Passed, Tickers
  <1>7. SamplerTypes'
    BY <1>1, <1>3, <1>4, <1>5, <1>6 DEF SamplerTypes
  <1>8. /\ skipped'.ticker = 0 /\ skipped'.before = skipped.before + skipped.ticker
        /\ stats'.ticks = stats.ticks /\ stats'.at = <<>>
        /\ due'.ticks = due.ticks + Passed /\ (due'.fit <=> due.fit)
    BY <1>5
  <1>9. ASSUME due.fit
        PROVE  /\ stats'.ticks + skipped'.before + skipped'.ticker = due'.ticks + Passed'
               /\ sampler' # <<>> => OnTime(sampler[1], stats.at, clock)'
    <2>1. stats.ticks + skipped.before + skipped.ticker = due.ticks + Passed
      BY <1>9 DEF SamplerInv, Ticking
    <2>2. /\ stats.ticks \in Nat /\ skipped.before \in Nat /\ skipped.ticker \in Nat
          /\ due.ticks \in Nat
      BY <1>1
    <2>3. stats'.ticks + skipped'.before + skipped'.ticker = due'.ticks + Passed'
      BY <2>1, <2>2, <1>8, <1>6
    <2>4. ASSUME sampler' # <<>>
          PROVE  OnTime(sampler[1], stats.at, clock)'
      <3>1. sampler'[1] = t /\ Len(stats'.at) = 0
        BY <2>4, <1>4, <1>8
      <3>2. 0 < TickWrap /\ clock <= clock
        BY SamplerAssumption, <1>1
      <3>3. OnTime(t, <<>>, clock)
        BY <3>2, <1>3 DEF OnTime, Earlier
      <3> QED
        BY <3>1, <3>3, <1>8
    <2> QED
      BY <2>3, <2>4
  <1> QED
    BY <1>7, <1>8, <1>9 DEF SamplerInv, Ticking

\* What a tick reads and leaves: e is the number of the tick that is read.
LEMMA TickRead ==
  ASSUME SamplerInv, Tick
  PROVE  \E start \in Nat, p \in Nat \ {0}, m \in Nat, e \in Nat, missed \in Nat, ticks \in Nat, at \in Seq(Nat),
            late \in Nat, before \in Nat, owed \in Nat, fit \in BOOLEAN :
           /\ sampler = <<[start |-> start, period |-> p, next |-> m]>>
           /\ sampler' = <<[start |-> start, period |-> p, next |-> e + 1]>>
           /\ stats = [ticks |-> ticks, at |-> at]
           /\ stats' = [ticks |-> ticks + 1, at |-> Within(Append(at, clock))]
           /\ skipped = [ticker |-> late, before |-> before]
           /\ skipped' = [ticker |-> late + missed, before |-> before]
           /\ due = [ticks |-> owed, fit |-> fit]
           /\ due' = [ticks |-> owed, fit |-> fit /\ e + 1 < TickWrap]
           /\ clock' = clock /\ period' = period
           /\ start + p * (m % TickWrap) <= clock
           /\ start + p * e <= clock /\ clock < start + (p * e + p)
           /\ missed = IF e > m THEN e - m ELSE 0
  <1>1. /\ clock \in Nat /\ period \in Nat \ {0} /\ skipped \in [ticker : Nat, before : Nat]
        /\ stats \in [ticks : Nat, at : Seq(Nat)] /\ due \in [ticks : Nat, fit : BOOLEAN]
        /\ sampler = <<>> \/ \E t \in Tickers : sampler = <<t>>
    BY DEF SamplerInv, SamplerTypes
  <1>2. /\ sampler # <<>> /\ IsDue(sampler[1]) /\ sampler' = <<Ticked(sampler[1])>>
        /\ skipped' = [skipped EXCEPT !.ticker = @ + Missed(sampler[1])]
        /\ stats' = [ticks |-> stats.ticks + 1, at |-> Within(Append(stats.at, clock))]
        /\ due' = [due EXCEPT !.fit = @ /\ Ticked(sampler[1]).next < TickWrap]
        /\ UNCHANGED <<clock, period>>
    BY DEF Tick
  <1>3. PICK start \in Nat, p \in Nat \ {0}, m \in Nat :
             sampler = <<[start |-> start, period |-> p, next |-> m]>>
    BY <1>1, <1>2 DEF Tickers
  <1>4. PICK ticks \in Nat, at \in Seq(Nat) : stats = [ticks |-> ticks, at |-> at]
    BY <1>1
  <1>5. PICK late \in Nat, before \in Nat : skipped = [ticker |-> late, before |-> before]
    BY <1>1
  <1>6. PICK owed \in Nat, fit \in BOOLEAN : due = [ticks |-> owed, fit |-> fit]
    BY <1>1
  <1> DEFINE t == [start |-> start, period |-> p, next |-> m]
             d == (clock - start) \div p
             u == [start |-> start, period |-> p, next |-> d + 1]
  <1>7. /\ sampler[1] = t /\ t.start = start /\ t.period = p /\ t.next = m /\ DueTick(t) = d
        /\ Ticked(t) = u /\ u.start = start /\ u.period = p /\ u.next = d + 1
    BY <1>3 DEF Ticked, DueTick
  <1>8. /\ sampler' = <<u>> /\ clock' = clock /\ period' = period /\ IsDue(t)
        /\ skipped' = [ticker |-> late + Missed(t), before |-> before]
        /\ stats' = [ticks |-> ticks + 1, at |-> Within(Append(at, clock))]
        /\ due' = [ticks |-> owed, fit |-> fit /\ d + 1 < TickWrap]
    BY <1>2, <1>4, <1>5, <1>6, <1>7
  <1>9. start + p * (m % TickWrap) <= clock
    BY <1>8, <1>7, <1>1, SamplerAssumption DEF IsDue, Deadline
  <1>10. clock - start \in Nat
    <2>1. m % TickWrap \in Nat
      BY SamplerAssumption
    <2>2. p * (m % TickWrap) \in Nat
      BY <2>1
    <2> QED
      BY <1>9, <2>2, <1>1
  <1>11. PICK e \in Nat : /\ e = d
                          /\ start + p * e <= clock /\ clock < start + (p * e + p)
    <2>1. d \in Nat /\ p * d <= clock - start /\ clock - start < p * d + p
      BY <1>10, DueIs
    <2>2. p * d \in Int
      BY <2>1
    <2> HIDE DEF d
    <2> QED
      BY <2>1, <2>2, <1>1
  <1>12. Missed(t) = IF e > m THEN e - m ELSE 0
    BY <1>7, <1>11 DEF Missed
  <1>13. PICK missed \in Nat : missed = Missed(t)
    <2>1. CASE e > m
      BY <1>12, <2>1
    <2>2. CASE ~(e > m)
      BY <1>12, <2>2
    <2> QED
      BY <2>1, <2>2
  <1>14. sampler' = <<[start |-> start, period |-> p, next |-> e + 1]>>
    BY <1>8, <1>11
  <1>15. due' = [ticks |-> owed, fit |-> fit /\ e + 1 < TickWrap]
    BY <1>8, <1>11
  <1>16. missed = IF e > m THEN e - m ELSE 0
    BY <1>12, <1>13
  <1>17. skipped' = [ticker |-> late + missed, before |-> before]
    BY <1>8, <1>13
  <1> HIDE DEF t, d, u
  <1> QED
    BY <1>3, <1>4, <1>5, <1>6, <1>8, <1>9, <1>11, <1>14, <1>15, <1>16, <1>17

LEMMA TickKeeps ==
  ASSUME SamplerInv, Tick
  PROVE  SamplerInv'
  <1>1. /\ clock \in Nat /\ period \in Nat \ {0}
    BY DEF SamplerInv, SamplerTypes
  <1>2. PICK start \in Nat, p \in Nat \ {0}, m \in Nat, e \in Nat, missed \in Nat, ticks \in Nat, at \in Seq(Nat),
             late \in Nat, before \in Nat, owed \in Nat, fit \in BOOLEAN :
           /\ sampler = <<[start |-> start, period |-> p, next |-> m]>>
           /\ sampler' = <<[start |-> start, period |-> p, next |-> e + 1]>>
           /\ stats = [ticks |-> ticks, at |-> at]
           /\ stats' = [ticks |-> ticks + 1, at |-> Within(Append(at, clock))]
           /\ skipped = [ticker |-> late, before |-> before]
           /\ skipped' = [ticker |-> late + missed, before |-> before]
           /\ due = [ticks |-> owed, fit |-> fit]
           /\ due' = [ticks |-> owed, fit |-> fit /\ e + 1 < TickWrap]
           /\ clock' = clock /\ period' = period
           /\ start + p * (m % TickWrap) <= clock
           /\ start + p * e <= clock /\ clock < start + (p * e + p)
           /\ missed = IF e > m THEN e - m ELSE 0
    BY TickRead
  <1> DEFINE u == [start |-> start, period |-> p, next |-> e + 1]
             times == Append(at, clock)
             kept == Within(times)
  <1>8. /\ sampler' = <<u>> /\ clock' = clock /\ period' = period
        /\ skipped' = [ticker |-> late + missed, before |-> before]
        /\ stats' = [ticks |-> ticks + 1, at |-> kept]
        /\ due' = [ticks |-> owed, fit |-> fit /\ e + 1 < TickWrap]
    BY <1>2
  <1>9. start <= clock
    <2>1. p * e \in Nat
      OBVIOUS
    <2>2. start + p * e <= clock
      BY <1>2
    <2> QED
      BY <1>1, <2>1, <2>2
  <1>10. start + p * e <= clock /\ clock < start + (p * e + p)
    BY <1>2
  <1>11. m <= e => missed = e - m
    BY <1>2
  <1>12. times \in Seq(Nat) /\ kept \in Seq(Nat)
    BY <1>1 DEF Within
  <1>13. SamplerTypes'
    <2>1. u \in Tickers
      BY DEF Tickers
    <2>2. skipped' \in [ticker : Nat, before : Nat]
      BY <1>8
    <2>3. stats' \in [ticks : Nat, at : Seq(Nat)]
      BY <1>8, <1>12
    <2>4. due' \in [ticks : Nat, fit : BOOLEAN]
      BY <1>8
    <2> HIDE DEF u, kept
    <2> QED
      BY <2>1, <2>2, <2>3, <2>4, <1>1, <1>8 DEF SamplerTypes
  <1>14. ASSUME fit = TRUE, e + 1 < TickWrap
         PROVE  /\ ticks + 1 + before + (late + missed) = owed + (e + 1)
                /\ Len(kept) \in Nat \ {0} /\ kept[Len(kept)] = clock
                /\ Earlier(kept, start, p, e + 1)
    <2>1. /\ ticks + before + late = owed + m /\ m < TickWrap
          /\ Earlier(at, start, p, m)
      BY <1>14, <1>2 DEF SamplerInv, Ticking, OnTime, Passed
    <2>2. start + p * m <= clock
      <3>1. m % TickWrap = m
        BY <2>1, SamplerAssumption, SmallRemains
      <3> QED
        BY <3>1, <1>2
    <2>3. m <= e
      <3> SUFFICES ASSUME e + 1 <= m PROVE FALSE
        OBVIOUS
      <3>1. p * (e + 1) <= p * m /\ p * (e + 1) = p * e + p /\ p * e \in Int /\ p * m \in Int
        BY TimesMonotone, TimesNext
      <3> QED
        BY <3>1, <2>2, <1>1, <1>10
    <2>4. ticks + 1 + before + (late + missed) = owed + (e + 1)
      BY <2>1, <2>3, <1>11
    <2>5. /\ Len(times) = Len(at) + 1 /\ Len(at) \in Nat /\ times[Len(times)] = clock
      BY <1>1
    <2>6. Earlier(times, start, p, e + 1)
      BY <2>1, <2>3, <1>1, <1>10, OneMoreTime
    <2> HIDE DEF times
    <2>8. Len(kept) \in Nat \ {0} /\ kept[Len(kept)] = clock /\ Earlier(kept, start, p, e + 1)
      <3>1. times \in Seq(Nat) /\ Len(times) > 0 /\ e + 1 \in Nat
        BY <2>5, <1>12
      <3> QED
        BY <3>1, <2>5, <2>6, WithinWindow
    <2> QED
      BY <2>4, <2>8
  <1> HIDE DEF kept
  <1>15. /\ Passed' = e + 1 /\ sampler'[1] = u /\ u.next = e + 1 /\ u.start = start /\ u.period = p
         /\ stats'.at = kept /\ stats'.ticks = ticks + 1 /\ skipped'.before = before
         /\ skipped'.ticker = late + missed /\ due'.ticks = owed
         /\ due'.fit = (fit /\ e + 1 < TickWrap)
    BY <1>8 DEF Passed
  <1>16. ASSUME due'.fit
         PROVE  /\ stats'.ticks + skipped'.before + skipped'.ticker = due'.ticks + Passed'
                /\ OnTime(sampler[1], stats.at, clock)'
    <2>1. fit = TRUE /\ e + 1 < TickWrap
      BY <1>15, <1>16
    <2>2. /\ ticks + 1 + before + (late + missed) = owed + (e + 1)
          /\ Len(kept) \in Nat \ {0} /\ kept[Len(kept)] = clock
          /\ Earlier(kept, start, p, e + 1)
      BY <2>1, <1>14
    <2>3. start <= clock /\ e + 1 - 1 = e /\ clock <= clock
      BY <1>1, <1>9
    <2> DEFINE n == Len(kept)
    <2>4. /\ n \in Nat \ {0} /\ kept[n] = clock /\ start + p * (e + 1 - 1) <= kept[n]
          /\ kept[n] <= clock /\ Earlier(kept, start, p, e + 1)
      BY <2>2, <2>3, <1>10
    <2> HIDE DEF u
    <2>5. OnTime(u, kept, clock)
      BY <2>1, <2>3, <2>4, <1>15 DEF OnTime
    <2> QED
      BY <2>2, <2>5, <1>8, <1>15
  <1> QED
    BY <1>13, <1>16 DEF SamplerInv, Ticking

LEMMA SamplerKeeps ==
  ASSUME SamplerInv, [SamplerNext]_samplerVars
  PROVE  SamplerInv'
  <1>1. clock \in Nat /\ period \in Nat \ {0}
    BY DEF SamplerInv, SamplerTypes
  <1>2. CASE Watch
    <2>1. PICK items \in Watches : SetWatches(items)
      BY <1>2 DEF Watch
    <2>2. Restarted(Plan(items), period) /\ period' = period /\ clock' = clock
      BY <2>1 DEF SetWatches
    <2> QED
      BY <2>2, <1>1, RestartKeeps
  <1>3. CASE Rate
    <2>1. PICK every \in Periods : SetRate(every)
      BY <1>3 DEF Rate
    <2>2. /\ Restarted(plan, every) /\ period' = every /\ clock' = clock
          /\ every \in Nat \ {0}
      BY <2>1, SamplerAssumption DEF SetRate
    <2> QED
      BY <2>2, RestartKeeps
  <1>4. CASE Tick
    BY <1>4, TickKeeps
  <1>5. CASE Pass
    <2>1. clock' = clock + 1 /\ UNCHANGED <<sampler, period, skipped, stats, due>>
      BY <1>5 DEF Pass
    <2>2. SamplerTypes'
      BY <2>1 DEF SamplerInv, SamplerTypes
    <2>3. ASSUME NEW t \in Tickers, NEW times \in Seq(Nat), OnTime(t, times, clock)
          PROVE  OnTime(t, times, clock + 1)
      <3>1. Len(times) \in Nat /\ (Len(times) > 0 => times[Len(times)] \in Nat) /\ t.start \in Nat
        BY DEF Tickers
      <3> QED
        BY <3>1, <2>3, <1>1 DEF OnTime
    <2>4. /\ stats.at \in Seq(Nat)
          /\ sampler # <<>> => sampler[1] \in Tickers
      BY DEF SamplerInv, SamplerTypes
    <2>5. Ticking'
      BY <2>1, <2>3, <2>4 DEF SamplerInv, Ticking, Passed
    <2> QED
      BY <2>2, <2>5 DEF SamplerInv
  <1>6. CASE FrameTick \/ UNCHANGED samplerVars
    <2>1. UNCHANGED <<clock, sampler, period, skipped, stats, due>>
      BY <1>6 DEF FrameTick, samplerVars
    <2> QED
      BY <2>1 DEF SamplerInv, SamplerTypes, Ticking, Passed
  <1> QED
    BY <1>2, <1>3, <1>4, <1>5, <1>6 DEF SamplerNext

\* What holds however late the loop comes round: the window ends with the last read,
\* the ticker's number is that of the deadlines passed by then, and no tick up to
\* it is lost; and, while the deadline is true, a deadline lies between two reads.
Accounted == stats.ticks + skipped.before + skipped.ticker

Reached(t, times) ==
  LET n == Len(times)
  IN  /\ n = 0 <=> t.next = 0
      /\ n > 0 => /\ t.start + t.period * (t.next - 1) <= times[n]
                  /\ times[n] < t.start + t.period * t.next

Unlost ==
  /\ Accounted >= due.ticks + Passed
  /\ sampler # <<>> =>
       /\ Reached(sampler[1], stats.at)
       /\ due.fit => Apart(stats.at, sampler[1].start, sampler[1].period, sampler[1].next)

LEMMA UnlostRestarts ==
  ASSUME SamplerInv, Unlost, NEW p, NEW every \in Nat \ {0}, Restarted(p, every)
  PROVE  Unlost'
  <1>1. /\ clock \in Nat /\ skipped \in [ticker : Nat, before : Nat]
        /\ stats \in [ticks : Nat, at : Seq(Nat)] /\ due \in [ticks : Nat, fit : BOOLEAN]
        /\ sampler = <<>> \/ \E t \in Tickers : sampler = <<t>>
    BY DEF SamplerInv, SamplerTypes
  <1>2. PICK t : t = [start |-> clock, period |-> every, next |-> 0]
    OBVIOUS
  <1>3. t.next = 0
    BY <1>2
  <1>4. sampler' = <<>> \/ sampler' = <<t>>
    BY <1>2 DEF Restarted
  <1>5. /\ skipped'.ticker = 0 /\ skipped'.before = skipped.before + skipped.ticker
        /\ stats'.ticks = stats.ticks /\ stats'.at = <<>> /\ due'.ticks = due.ticks + Passed
    BY <1>1 DEF Restarted, Passed
  <1>6. Passed \in Nat /\ Passed' = 0
    BY <1>1, <1>3, <1>4 DEF Passed, Tickers
  <1>7. Accounted' >= due'.ticks + Passed'
    <2>1. /\ stats.ticks \in Nat /\ skipped.before \in Nat /\ skipped.ticker \in Nat
          /\ due.ticks \in Nat
      BY <1>1
    <2>2. stats.ticks + skipped.before + skipped.ticker >= due.ticks + Passed
      BY DEF Unlost, Accounted
    <2> QED
      BY <2>1, <2>2, <1>5, <1>6 DEF Accounted
  <1>8. ASSUME sampler' # <<>>
        PROVE  /\ Reached(sampler'[1], stats'.at)
               /\ Apart(stats'.at, sampler'[1].start, sampler'[1].period, sampler'[1].next)
    <2>1. sampler'[1] = t /\ Len(stats'.at) = 0
      BY <1>4, <1>5, <1>8
    <2> QED
      BY <2>1, <1>3 DEF Reached, Apart
  <1> QED
    BY <1>7, <1>8 DEF Unlost

LEMMA UnlostTicks ==
  ASSUME SamplerInv, Unlost, Tick
  PROVE  Unlost'
  <1>1. clock \in Nat
    BY DEF SamplerInv, SamplerTypes
  <1>2. PICK start \in Nat, p \in Nat \ {0}, m \in Nat, e \in Nat, missed \in Nat, ticks \in Nat, at \in Seq(Nat),
             late \in Nat, before \in Nat, owed \in Nat, fit \in BOOLEAN :
           /\ sampler = <<[start |-> start, period |-> p, next |-> m]>>
           /\ sampler' = <<[start |-> start, period |-> p, next |-> e + 1]>>
           /\ stats = [ticks |-> ticks, at |-> at]
           /\ stats' = [ticks |-> ticks + 1, at |-> Within(Append(at, clock))]
           /\ skipped = [ticker |-> late, before |-> before]
           /\ skipped' = [ticker |-> late + missed, before |-> before]
           /\ due = [ticks |-> owed, fit |-> fit]
           /\ due' = [ticks |-> owed, fit |-> fit /\ e + 1 < TickWrap]
           /\ clock' = clock /\ period' = period
           /\ start + p * (m % TickWrap) <= clock
           /\ start + p * e <= clock /\ clock < start + (p * e + p)
           /\ missed = IF e > m THEN e - m ELSE 0
    BY TickRead
  <1> DEFINE kept == Within(Append(at, clock))
  <1>3. Len(kept) \in Nat \ {0} /\ kept[Len(kept)] = clock
    <2>1. Append(at, clock) \in Seq(Nat) /\ Len(Append(at, clock)) = Len(at) + 1 /\ Len(at) \in Nat
          /\ Append(at, clock)[Len(at) + 1] = clock
      BY <1>1
    <2> DEFINE times == Append(at, clock)
    <2>2. PICK n \in Nat \ {0} : times \in Seq(Nat) /\ Len(times) = n /\ times[n] = clock
      BY <2>1
    <2> HIDE DEF times
    <2>3. Len(times) > 0
      BY <2>2
    <2>4. PICK j \in {0, 1} :
             /\ Len(Within(times)) = Len(times) - j /\ Len(times) - j \in Nat \ {0}
             /\ \A i \in 1 .. Len(times) - j : Within(times)[i] = times[i + j]
      BY <2>2, <2>3, WithinIs
    <2>5. n - j \in 1 .. n - j /\ (n - j) + j = n
      BY <2>2, <2>4
    <2>6. Len(Within(times)) = n - j /\ n - j \in Nat \ {0} /\ Within(times)[n - j] = times[n]
      BY <2>2, <2>4, <2>5
    <2> QED
      BY <2>2, <2>6 DEF times
  <1> HIDE DEF kept
  <1>4. /\ sampler'[1].start = start /\ sampler'[1].period = p /\ sampler'[1].next = e + 1
        /\ sampler[1].start = start /\ sampler[1].period = p /\ sampler[1].next = m
        /\ sampler # <<>> /\ Passed = m /\ Passed' = e + 1
        /\ stats.at = at /\ stats'.at = kept
    BY <1>2 DEF Passed, kept
  <1>5. Accounted' >= due'.ticks + Passed'
    <2>1. Accounted = ticks + before + late /\ Accounted' = ticks + 1 + before + (late + missed) /\ due.ticks = owed /\ due'.ticks = owed
      BY <1>2 DEF Accounted
    <2>2. ticks + before + late >= owed + m
      BY <2>1, <1>4 DEF Unlost
    <2>3. late + missed >= late + e - m
      <3>1. CASE e > m
        BY <3>1, <1>2
      <3>2. CASE ~(e > m)
        BY <3>2, <1>2
      <3> QED
        BY <3>1, <3>2
    <2>4. ticks + 1 + before + (late + missed) >= owed + (e + 1)
      BY <2>2, <2>3
    <2> QED
      BY <2>1, <2>4, <1>4
  <1>6. Reached(sampler'[1], kept)
    <2>1. e + 1 - 1 = e /\ p * (e + 1) = p * e + p /\ p * e \in Int
      BY TimesNext
    <2>2. start + p * (e + 1 - 1) <= clock /\ clock < start + p * (e + 1)
      BY <2>1, <1>2
    <2> QED
      BY <2>2, <1>3, <1>4 DEF Reached
  <1>7. ASSUME due'.fit
        PROVE  Apart(kept, start, p, e + 1)
    <2>1. fit = TRUE /\ e + 1 < TickWrap /\ due.fit
      BY <1>2, <1>7
    <2>2. Apart(at, start, p, m) /\ m < TickWrap
      BY <2>1, <1>4 DEF Unlost, SamplerInv, Ticking, OnTime
    <2>3. start + p * m <= clock
      <3>1. m % TickWrap = m
        BY <2>2, SamplerAssumption, SmallRemains
      <3> QED
        BY <3>1, <1>2
    <2>4. m <= e
      <3> SUFFICES ASSUME e + 1 <= m PROVE FALSE
        OBVIOUS
      <3>1. p * (e + 1) <= p * m /\ p * (e + 1) = p * e + p /\ p * e \in Int /\ p * m \in Int
        BY TimesMonotone, TimesNext
      <3>2. clock < start + (p * e + p)
        BY <1>2
      <3> QED
        BY <3>1, <3>2, <2>3, <1>1
    <2>5. Len(at) > 0 => m > 0 /\ at[Len(at)] < start + p * m
      BY <1>4 DEF Unlost, Reached
    <2> QED
      BY <2>2, <2>3, <2>4, <2>5, <1>1, ApartStill DEF kept
  <1> QED
    BY <1>4, <1>5, <1>6, <1>7 DEF Unlost

LEMMA UnlostKept ==
  ASSUME SamplerInv, Unlost, [SamplerNext]_samplerVars
  PROVE  Unlost'
  <1>1. CASE Watch
    <2>1. PICK items \in Watches : SetWatches(items)
      BY <1>1 DEF Watch
    <2>2. Restarted(Plan(items), period) /\ period \in Nat \ {0}
      BY <2>1 DEF SetWatches, SamplerInv, SamplerTypes
    <2> QED
      BY <2>2, UnlostRestarts
  <1>2. CASE Rate
    <2>1. PICK every \in Periods : SetRate(every)
      BY <1>2 DEF Rate
    <2>2. Restarted(plan, every) /\ every \in Nat \ {0}
      BY <2>1, SamplerAssumption DEF SetRate
    <2> QED
      BY <2>2, UnlostRestarts
  <1>3. CASE Tick
    BY <1>3, UnlostTicks
  <1>4. CASE FrameTick \/ Pass \/ UNCHANGED samplerVars
    <2>1. UNCHANGED <<sampler, skipped, stats, due>>
      BY <1>4 DEF FrameTick, Pass, samplerVars
    <2> QED
      BY <2>1 DEF Unlost, Accounted, Passed
  <1> QED
    BY <1>1, <1>2, <1>3, <1>4 DEF SamplerNext

LEMMA SamplerKept ==
  ASSUME SamplerInv, Unlost, sampler # <<>>
  PROVE  LET t == sampler[1]
             n == Len(stats.at)
             deadline(k) == t.start + t.period * k
         IN /\ t.next > 0 => n > 0 /\ deadline(t.next - 1) <= stats.at[n] /\ stats.at[n] < deadline(t.next)
            /\ Accounted >= due.ticks + t.next
            /\ due.fit =>
                 /\ Accounted = due.ticks + t.next
                 /\ n > 0 => stats.at[n] < Deadline(t)
                 /\ \A i \in 1 .. n - 1 : \E k \in 1 .. t.next - 1 :
                      stats.at[i] < deadline(k) /\ deadline(k) <= stats.at[i + 1]
                 /\ Measured.periods > 0 => (Measured.periods - 1) * t.period < Measured.time
  <1>1. PICK start \in Nat, p \in Nat \ {0}, m \in Nat :
             sampler = <<[start |-> start, period |-> p, next |-> m]>>
    BY DEF SamplerInv, SamplerTypes, Tickers
  <1>2. PICK at \in Seq(Nat) : stats.at = at
    BY DEF SamplerInv, SamplerTypes
  <1> DEFINE t == [start |-> start, period |-> p, next |-> m]
             n == Len(at)
  <1>3. /\ sampler[1] = t /\ t.start = start /\ t.period = p /\ t.next = m
        /\ n \in Nat /\ \A i \in 1 .. n : at[i] \in Nat
    BY <1>1
  <1>4. /\ n = 0 <=> m = 0
        /\ n > 0 => start + p * (m - 1) <= at[n] /\ at[n] < start + p * m
        /\ Accounted >= due.ticks + m
    BY <1>1, <1>2, <1>3 DEF Unlost, Reached, Passed
  <1>5. ASSUME due.fit
        PROVE  /\ Accounted = due.ticks + m
               /\ Apart(at, start, p, m)
               /\ m < TickWrap
               /\ \A i \in 1 .. n : at[i] < start + p * (m - n + i)
    BY <1>5, <1>1, <1>2, <1>3 DEF SamplerInv, Ticking, OnTime, Earlier, Passed, Accounted, Unlost
  <1>6. ASSUME due.fit
        PROVE  Deadline(t) = start + p * m
    BY <1>3, <1>5, <1>6, SamplerAssumption, SmallRemains DEF Deadline
  <1> HIDE DEF t
  <1>7. ASSUME due.fit, Measured.periods > 0
        PROVE  (Measured.periods - 1) * p < Measured.time
    <2>1. ~(n < 2) /\ Measured.periods = n - 1 /\ Measured.time = at[n] - at[1]
      BY <1>7, <1>2 DEF Measured
    <2>2. PICK a \in Nat, b \in Nat : a = at[1] /\ b = at[n]
      BY <2>1, <1>3
    <2>3. a < start + p * (m - n + 1) /\ start + p * (m - 1) <= b
      BY <2>1, <2>2, <1>3, <1>4, <1>5, <1>7
    <2>4. (n - 1 - 1) * p < b - a
      BY <2>3, <1>3, WindowIs
    <2> QED
      BY <2>1, <2>2, <2>4
  <1>8. m > 0 => n > 0 /\ start + p * (m - 1) <= at[n] /\ at[n] < start + p * m
    BY <1>3, <1>4
  <1>9. ASSUME due.fit
        PROVE  /\ n > 0 => at[n] < Deadline(t)
               /\ \A i \in 1 .. n - 1 : \E k \in 1 .. m - 1 : at[i] < start + p * k /\ start + p * k <= at[i + 1]
    BY <1>4, <1>5, <1>6, <1>9 DEF Apart
  <1> QED
    BY <1>2, <1>3, <1>4, <1>5, <1>7, <1>8, <1>9

\* However late the loop comes round and over every restart: no tick up to the last read
\* is lost, and the ticker's number is that of the deadlines passed by then.  As long as
\* the deadline tells the ticks' numbers apart, each tick is read or skipped once,
\* a deadline lies between any two reads, and the rate reported exceeds the
\* one set by less than one period over the window (Ticker::poll, restart_sampler,
\* achieved_hz).
THEOREM TicksCounted == SamplerSpec => []TicksKept
  <1>1. (\E every \in Periods : SamplerInit(every)) => SamplerInv /\ Unlost
    <2> SUFFICES ASSUME NEW every \in Periods, SamplerInit(every) PROVE SamplerInv /\ Unlost
      OBVIOUS
    <2>1. SamplerInv
      BY SamplerStart
    <2>2. Unlost
      BY DEF SamplerInit, Unlost, Accounted, Passed
    <2> QED
      BY <2>1, <2>2
  <1>2. SamplerInv /\ Unlost /\ [SamplerNext]_samplerVars => (SamplerInv /\ Unlost)'
    BY SamplerKeeps, UnlostKept
  <1>3. SamplerInv /\ Unlost => TicksKept
    BY SamplerKept DEF TicksKept, Accounted
  <1> QED
    BY <1>1, <1>2, <1>3, PTL DEF SamplerSpec

------------------------------------------------------------------------------
(* Powers of two *)

LEMMA Least ==
  ASSUME NEW T \in SUBSET Nat, T # {}
  PROVE  \E x \in T : \A y \in T : x <= y
  <1>1. \E x \in T : \A y \in T : ~(<<y, x>> \in OpToRel(<, Nat))
    BY WFMin, NatLessThanWellFounded
  <1>2. \A x, y \in T : y < x => <<y, x>> \in OpToRel(<, Nat)
    BY DEF OpToRel
  <1>3. \A x, y \in Nat : ~(y < x) => x <= y
    OBVIOUS
  <1>4. \E x \in T : \A y \in T : ~(y < x)
    BY <1>1, <1>2
  <1> QED
    BY <1>3, <1>4

LEMMA SetInduction ==
  ASSUME NEW S, 0 \in S, \A n \in Nat : n \in S => n + 1 \in S
  PROVE  \A n \in Nat : n \in S
  <1> SUFFICES ASSUME Nat \ S # {} PROVE FALSE
    OBVIOUS
  <1> PICK x \in Nat \ S : \A y \in Nat \ S : x <= y
    BY Least
  <1>1. x - 1 \in Nat /\ ~(x <= x - 1)
    OBVIOUS
  <1>2. x - 1 \in S
    BY <1>1
  <1> QED
    BY <1>1, <1>2

\* A set of n elements has 2^n subsets, and with one more element twice as many.
LEMMA PowerNext ==
  ASSUME NEW n \in Nat
  PROVE  2 ^ n \in Nat \ {0} /\ 2 ^ (n + 1) = 2 * 2 ^ n
  <1> DEFINE S == 1 .. n  x == n + 1  T == 1 .. n + 1
             Without == SUBSET S  With == {t \in SUBSET T : x \in t}
  <1>1. IsFiniteSet(S) /\ Cardinality(S) = n /\ IsFiniteSet(T) /\ Cardinality(T) = n + 1
    BY FS_Interval
  <1>2. x \notin S /\ T = S \union {x}
    OBVIOUS
  <1> HIDE DEF S, T, x
  <1>3. /\ IsFiniteSet(SUBSET S) /\ Cardinality(SUBSET S) = 2 ^ n
        /\ IsFiniteSet(SUBSET T) /\ Cardinality(SUBSET T) = 2 ^ (n + 1)
    BY <1>1, FS_SUBSET
  <1>4. SUBSET T = Without \union With /\ Without \intersect With = {}
    BY <1>2
  <1>5. IsFiniteSet(With) /\ Cardinality(With) = Cardinality(Without)
    <2> DEFINE f == [s \in Without |-> s \union {x}]
    <2>1. f \in Bijection(Without, With)
      <3>1. f \in [Without -> With]
        BY <1>2
      <3>2. \A a, b \in Without : f[a] = f[b] => a = b
        BY <1>2
      <3>3. \A t \in With : \E s \in Without : f[s] = t
        <4> TAKE t \in With
        <4>1. t \ {x} \in Without /\ f[t \ {x}] = t
          BY <1>2
        <4> QED
          BY <4>1
      <3> QED
        BY <3>1, <3>2, <3>3, Fun_IsBij
    <2>2. ExistsBijection(Without, With)
      BY <2>1 DEF ExistsBijection
    <2> QED
      BY <2>2, <1>3, FS_Bijection
  <1>6. Cardinality(SUBSET T) = Cardinality(Without) + Cardinality(With)
    <2> HIDE DEF Without, With
    <2>1. IsFiniteSet(Without)
      BY <1>3 DEF Without
    <2>2. Cardinality(Without \union With) = Cardinality(Without) + Cardinality(With) - Cardinality({})
      BY <1>4, <1>5, <2>1, FS_Union
    <2>3. Cardinality({}) = 0 /\ Cardinality(Without) \in Nat /\ Cardinality(With) \in Nat
      BY <1>5, <2>1, FS_EmptySet, FS_CardinalityType
    <2>4. Cardinality(SUBSET T) = Cardinality(Without \union With)
      BY <1>4, Zenon
    <2> QED
      BY <2>2, <2>3, <2>4
  <1>7. Cardinality(Without) \in Nat /\ Cardinality(Without) # 0
    <2>1. {} \in Without
      OBVIOUS
    <2> QED
      BY <2>1, <1>3, FS_EmptySet, FS_CardinalityType
  <1> QED
    BY <1>3, <1>5, <1>6, <1>7

LEMMA PowersOfTwo ==
  /\ 2 ^ 0 = 1
  /\ \A n \in Nat : 2 ^ n \in Nat \ {0} /\ 2 ^ (n + 1) = 2 * 2 ^ n
  BY PowerNext

LEMMA PowerSum ==
  ASSUME NEW a \in Nat
  PROVE  \A b \in Nat : 2 ^ (a + b) = 2 ^ a * 2 ^ b
  <1> DEFINE Ns == {b \in Nat : 2 ^ (a + b) = 2 ^ a * 2 ^ b}
  <1>1. 2 ^ a \in Nat
    BY PowersOfTwo
  <1>2. 0 \in Ns
    BY <1>1, PowersOfTwo
  <1>3. ASSUME NEW b \in Nat, b \in Ns PROVE b + 1 \in Ns
    <2>1. /\ 2 ^ (a + b + 1) = 2 * 2 ^ (a + b) /\ 2 ^ (b + 1) = 2 * 2 ^ b
          /\ 2 ^ b \in Nat /\ 2 ^ (a + b) \in Nat
      BY PowersOfTwo
    <2>2. 2 ^ (a + b) = 2 ^ a * 2 ^ b
      BY <1>3
    <2>3. 2 * (2 ^ a * 2 ^ b) = 2 ^ a * (2 * 2 ^ b)
      BY <1>1, <2>1
    <2>4. a + (b + 1) = a + b + 1
      OBVIOUS
    <2> QED
      BY <2>1, <2>2, <2>3, <2>4
  <1>4. \A n \in Nat : n \in Ns
    <2> HIDE DEF Ns
    <2> QED
      BY <1>2, <1>3, SetInduction
  <1> QED
    BY <1>4

\* Quotient and remainder.
LEMMA Divided ==
  \A a \in Nat, b \in Nat \ {0} :
    a \div b \in Nat /\ a % b \in 0 .. b - 1 /\ a = b * (a \div b) + (a % b)
  OBVIOUS

LEMMA DividedIs ==
  \A a \in Nat, b \in Nat \ {0}, q \in Nat :
    \A r \in 0 .. b - 1 : a = b * q + r => q = a \div b /\ r = a % b
  OBVIOUS

LEMMA HalfOver ==
  ASSUME NEW x \in Nat, NEW z \in Nat \ {0}
  PROVE  (x \div z) \div 2 = x \div (2 * z)
  OBVIOUS

LEMMA DigitIs ==
  ASSUME NEW b \in Nat, NEW w \in Nat, NEW g \in Nat
  PROVE  b + w * g \in Nat
  <1> PICK z \in Nat : z = w * g
    OBVIOUS
  <1> QED
    OBVIOUS

LEMMA LowSum ==
  ASSUME NEW y \in Nat, NEW b \in 0 .. 1, NEW q \in Nat, NEW p \in Nat \ {0}, NEW t \in Nat, NEW r \in 0 .. p - 1,
         y = 2 * q + b, q = p * t + r
  PROVE  /\ y = (2 * p) * t + (2 * r + b) /\ 2 * r + b \in 0 .. (2 * p) - 1
         /\ 2 * p \in Nat \ {0}
  OBVIOUS
LEMMA LowIs ==
  ASSUME NEW y \in Nat, NEW p \in Nat \ {0}
  PROVE  \A q \in Nat, b \in 0 .. 1, t \in Nat, r \in 0 .. p - 1 :
           y = 2 * q + b /\ q = p * t + r => y % (2 * p) = 2 * r + b
  <1> SUFFICES ASSUME NEW q \in Nat, NEW b \in 0 .. 1, NEW t \in Nat, NEW r \in 0 .. p - 1,
                      y = 2 * q + b, q = p * t + r
               PROVE  y % (2 * p) = 2 * r + b
    OBVIOUS
  <1>1. \E d \in Nat \ {0} : \E e \in 0 .. d - 1 : d = 2 * p /\ e = 2 * r + b /\ y = d * t + e
    BY LowSum
  <1>2. \A d \in Nat \ {0} : \A e \in 0 .. d - 1 : y = d * t + e => y % d = e
    BY DividedIs, Zenon
  <1> QED
    BY <1>1, <1>2, Zenon

\* The lowest bit, and what is above it.
LEMMA LowestBit ==
  ASSUME NEW y \in Nat, NEW p \in Nat \ {0}
  PROVE  y % (2 * p) = (y % 2) + 2 * ((y \div 2) % p)
  <1>1. PICK q \in Nat, b \in 0 .. 1 : q = y \div 2 /\ b = y % 2 /\ y = 2 * q + b
    BY Divided
  <1>2. PICK t \in Nat, r \in 0 .. p - 1 : r = q % p /\ q = p * t + r
    BY Divided, Zenon
  <1>3. y = 2 * q + b /\ q = p * t + r
    BY <1>1, <1>2
  <1>4. y % (2 * p) = 2 * r + b
    <2>1. \A u \in Nat, v \in 0 .. 1, w \in Nat, z \in 0 .. p - 1 :
            y = 2 * u + v /\ u = p * w + z => y % (2 * p) = 2 * z + v
      BY LowIs, Zenon
    <2> QED
      BY <1>3, <2>1, Zenon
  <1> QED
    BY <1>1, <1>2, <1>4

Bit(x, k) == (x \div 2 ^ k) % 2

\* A sum of digits, the lowest first, in base w.
Digits(f, n, w, b) == f = [k \in 0 .. n |-> IF k = n THEN 0 ELSE b[k] + w * f[k + 1]]

LEMMA DigitsExist ==
  ASSUME NEW n \in Nat, NEW w \in Nat, NEW b \in [0 .. n - 1 -> Nat]
  PROVE  \E f \in [0 .. n -> Nat] : Digits(f, n, w, b)
  <1> DEFINE Rec(f, k) == IF k = n THEN 0 ELSE b[k] + w * f[k + 1]
             From(f, m) == \A k \in 0 .. n : k >= n - m => f[k] = Rec(f, k)
             Ns == {m \in Nat : \E f \in [0 .. n -> Nat] : From(f, m)}
  <1>1. \A f \in [0 .. n -> Nat], k \in 0 .. n : Rec(f, k) \in Nat
    <2> TAKE f \in [0 .. n -> Nat], k \in 0 .. n
    <2>1. CASE k = n
      BY <2>1
    <2>2. CASE k # n
      <3>1. b[k] \in Nat /\ f[k + 1] \in Nat
        BY <2>2
      <3>2. b[k] + w * f[k + 1] \in Nat
        BY <3>1, DigitIs
      <3> QED
        BY <2>2, <3>2
    <2> QED
      BY <2>1, <2>2
  <1>2. 0 \in Ns
    <2> DEFINE f == [k \in 0 .. n |-> 0]
    <2>1. f \in [0 .. n -> Nat] /\ From(f, 0)
      OBVIOUS
    <2> HIDE DEF f, From
    <2> QED
      BY <2>1
  <1>3. ASSUME NEW m \in Nat, m \in Ns PROVE m + 1 \in Ns
    <2> PICK f \in [0 .. n -> Nat] : From(f, m)
      BY <1>3
    <2> DEFINE g == [k \in 0 .. n |-> IF k >= n - m THEN f[k] ELSE Rec(f, k)]
    <2>1. g \in [0 .. n -> Nat]
      BY <1>1
    <2>2. \A k \in 0 .. n : k >= n - (m + 1) => g[k] = Rec(g, k)
      <3> SUFFICES ASSUME NEW k \in 0 .. n, k >= n - (m + 1) PROVE g[k] = Rec(g, k)
        OBVIOUS
      <3>1. g[k] = Rec(f, k)
        <4>1. CASE k >= n - m
          BY <4>1
        <4>2. CASE ~(k >= n - m)
          BY <4>2
        <4> QED
          BY <4>1, <4>2
      <3>2. k # n => g[k + 1] = f[k + 1]
        OBVIOUS
      <3> QED
        BY <3>1, <3>2
    <2> HIDE DEF g, Rec
    <2> QED
      BY <2>1, <2>2
  <1>4. \A m \in Nat : m \in Ns
    <2> HIDE DEF Ns
    <2> QED
      BY <1>2, <1>3, SetInduction
  <1> PICK f \in [0 .. n -> Nat] : From(f, n)
    BY <1>4
  <1>5. f = [k \in 0 .. n |-> Rec(f, k)]
    <2>1. \A k \in 0 .. n : f[k] = Rec(f, k)
      OBVIOUS
    <2> HIDE DEF Rec
    <2> QED
      BY <2>1
  <1> QED
    BY <1>5 DEF Digits

\* By the steps.
LEMMA DigitsSteps ==
  ASSUME NEW n \in Nat, NEW w \in Nat, NEW b \in [0 .. n - 1 -> Nat], NEW f, Digits(f, n, w, b)
  PROVE  /\ f \in [0 .. n -> Nat] /\ f[n] = 0
         /\ \A k \in 0 .. n - 1 : f[k] = b[k] + w * f[k + 1]
  <1>1. f = [k \in 0 .. n |-> IF k = n THEN 0 ELSE b[k] + w * f[k + 1]]
    BY DEF Digits
  <1>2. DOMAIN f = 0 .. n /\ \A k \in 0 .. n : f[k] = IF k = n THEN 0 ELSE b[k] + w * f[k + 1]
    <2> DEFINE F(k) == IF k = n THEN 0 ELSE b[k] + w * f[k + 1]
    <2>1. f = [k \in 0 .. n |-> F(k)]
      BY <1>1, Zenon
    <2> HIDE DEF F
    <2>2. DOMAIN f = 0 .. n /\ \A k \in 0 .. n : f[k] = F(k)
      BY <2>1, Zenon
    <2> QED
      BY <2>2 DEF F
  <1>3. f[n] = 0 /\ \A k \in 0 .. n - 1 : f[k] = b[k] + w * f[k + 1]
    BY <1>2
  <1> DEFINE Ns == {m \in Nat : \A k \in 0 .. n : k >= n - m => f[k] \in Nat}
  <1>4. 0 \in Ns
    BY <1>3
  <1>5. ASSUME NEW m \in Nat, m \in Ns PROVE m + 1 \in Ns
    <2> SUFFICES ASSUME NEW k \in 0 .. n, k >= n - (m + 1) PROVE f[k] \in Nat
      OBVIOUS
    <2>1. CASE k = n
      BY <1>3, <2>1
    <2>2. CASE k # n
      <3>1. k \in 0 .. n - 1 /\ k + 1 \in 0 .. n /\ k + 1 >= n - m
        BY <2>2
      <3>2. f[k + 1] \in Nat /\ b[k] \in Nat /\ f[k] = b[k] + w * f[k + 1]
        BY <3>1, <1>3, <1>5
      <3> QED
        <4> PICK d \in Nat, g \in Nat : d = b[k] /\ g = f[k + 1]
          BY <3>2
        <4>1. d + w * g \in Nat
          BY DigitIs
        <4> QED
          BY <3>2, <4>1
    <2> QED
      BY <2>1, <2>2
  <1>6. \A m \in Nat : m \in Ns
    <2> HIDE DEF Ns
    <2> QED
      BY <1>4, <1>5, SetInduction
  <1>7. \A k \in 0 .. n : f[k] \in Nat
    <2>1. \A k \in 0 .. n : k >= n - n => f[k] \in Nat
      BY <1>6
    <2> QED
      BY <2>1
  <1>8. f = [k \in 0 .. n |-> f[k]]
    BY <1>1, <1>2, Zenon
  <1> QED
    BY <1>3, <1>7, <1>8

OneMore(x, k, j) == Bit(x, k) + 2 * ((x \div 2 ^ (k + 1)) % 2 ^ j) = (x \div 2 ^ k) % 2 ^ (j + 1)

LEMMA OneMoreBit ==
  ASSUME NEW x \in Nat, NEW k \in Nat, NEW j \in Nat
  PROVE  OneMore(x, k, j)
  <1>1. 2 ^ k \in Nat \ {0} /\ 2 ^ j \in Nat \ {0} /\ 2 ^ (k + 1) = 2 * 2 ^ k /\ 2 ^ (j + 1) = 2 * 2 ^ j
    BY PowersOfTwo
  <1>2. PICK z \in Nat \ {0}, p \in Nat \ {0} : z = 2 ^ k /\ p = 2 ^ j
    BY <1>1
  <1>3. PICK y \in Nat : y = x \div z
    BY <1>2, Divided
  <1>4. x \div 2 ^ (k + 1) = y \div 2
    <2>1. (x \div z) \div 2 = x \div (2 * z)
      BY <1>2, HalfOver, Zenon
    <2> QED
      BY <1>1, <1>2, <1>3, <2>1
  <1>5. y % (2 * p) = (y % 2) + 2 * ((y \div 2) % p)
    BY <1>2, <1>3, LowestBit, Zenon
  <1>6. Bit(x, k) = y % 2
    BY <1>2, <1>3 DEF Bit
  <1> QED
    BY <1>1, <1>2, <1>3, <1>4, <1>5, <1>6, Zenon DEF OneMore

\* The sum of the lowest n bits of x is its remainder by 2^n.
LEMMA BitsSum ==
  ASSUME NEW x \in Nat, NEW n \in Nat, NEW f \in [0 .. n -> Nat], f[n] = 0,
         \A k \in 0 .. n - 1 : f[k] = Bit(x, k) + 2 * f[k + 1]
  PROVE  f[0] = x % 2 ^ n
  <1> DEFINE Ns == {j \in Nat : j <= n => f[n - j] = (x \div 2 ^ (n - j)) % 2 ^ j}
  <1>1. 0 \in Ns
    <2>1. x \div 2 ^ n \in Nat
      BY PowersOfTwo, Divided
    <2>2. (x \div 2 ^ n) % 1 = 0
      BY <2>1
    <2> QED
      BY <2>2, PowersOfTwo
  <1>2. ASSUME NEW j \in Nat, j \in Ns PROVE j + 1 \in Ns
    <2> SUFFICES ASSUME j + 1 <= n PROVE f[n - (j + 1)] = (x \div 2 ^ (n - (j + 1))) % 2 ^ (j + 1)
      OBVIOUS
    <2> PICK k \in 0 .. n - 1 : k = n - (j + 1)
      OBVIOUS
    <2>1. n - j = k + 1
      OBVIOUS
    <2>2. f[k + 1] = (x \div 2 ^ (k + 1)) % 2 ^ j
      BY <1>2, <2>1
    <2>3. k \in Nat /\ n - (j + 1) = k
      OBVIOUS
    <2>4. f[k] = Bit(x, k) + 2 * f[k + 1]
      OBVIOUS
    <2>5. OneMore(x, k, j)
      BY <2>3, OneMoreBit, Zenon
    <2> QED
      BY <2>2, <2>3, <2>4, <2>5 DEF OneMore
  <1>3. \A j \in Nat : j \in Ns
    <2> HIDE DEF Ns
    <2> QED
      BY <1>1, <1>2, SetInduction
  <1>4. f[0] = (x \div 2 ^ 0) % 2 ^ n
    <2>1. n - n = 0 /\ n <= n
      OBVIOUS
    <2>2. f[n - n] = (x \div 2 ^ (n - n)) % 2 ^ n
      BY <1>3, <2>1
    <2> QED
      BY <2>1, <2>2
  <1>5. x \div 2 ^ 0 = x
    BY PowersOfTwo
  <1> QED
    BY <1>4, <1>5

LEMMA PowersBelow ==
  /\ 2 ^ 0 = 1 /\ 2 ^ 1 = 2 /\ 2 ^ 2 = 4 /\ 2 ^ 3 = 8 /\ 2 ^ 4 = 16
  /\ 2 ^ 5 = 32 /\ 2 ^ 6 = 64 /\ 2 ^ 7 = 128 /\ 2 ^ 8 = 256
  <1>1. \A n \in Nat : 2 ^ (n + 1) = 2 * 2 ^ n
    BY PowersOfTwo
  <1>2. 2 ^ (0 + 1) = 2 * 2 ^ 0 /\ 2 ^ (1 + 1) = 2 * 2 ^ 1 /\ 2 ^ (2 + 1) = 2 * 2 ^ 2 /\ 2 ^ (3 + 1) = 2 * 2 ^ 3
        /\ 2 ^ (4 + 1) = 2 * 2 ^ 4 /\ 2 ^ (5 + 1) = 2 * 2 ^ 5 /\ 2 ^ (6 + 1) = 2 * 2 ^ 6 /\ 2 ^ (7 + 1) = 2 * 2 ^ 7
    BY <1>1
  <1>3. 0 + 1 = 1 /\ 1 + 1 = 2 /\ 2 + 1 = 3 /\ 3 + 1 = 4 /\ 4 + 1 = 5 /\ 5 + 1 = 6 /\ 6 + 1 = 7 /\ 7 + 1 = 8
    OBVIOUS
  <1> QED
    BY <1>2, <1>3, PowersOfTwo

LEMMA TwiceOver ==
  \A a \in Nat, b \in Nat \ {0}, c \in Nat \ {0} : (a \div b) \div c = a \div (b * c)
  OBVIOUS

LEMMA QuotientIs == \A c, e \in Nat, w \in Nat \ {0} : \A d \in 0 .. w - 1 : c = w * e + d => c \div w = e
  OBVIOUS

\* One digit less.
LEMMA DigitSwap == \A d, e, w \in Nat : d + w * e = w * e + d
  OBVIOUS

DigitAt(x, z, w, d, e) == x \div z = d + w * e
RestAt(x, z, w, e) == x \div (z * w) = e

LEMMA NextDigit ==
  \A x, z, w, d, e \in Nat : z # 0 /\ d < w /\ DigitAt(x, z, w, d, e) => RestAt(x, z, w, e)
  <1> SUFFICES ASSUME NEW x \in Nat, NEW z \in Nat, NEW w \in Nat, NEW d \in Nat, NEW e \in Nat,
                      z # 0, d < w, x \div z = d + w * e
               PROVE  x \div (z * w) = e
    BY DEF DigitAt, RestAt
  <1>0. z \in Nat \ {0} /\ w \in Nat \ {0} /\ d \in 0 .. w - 1
    OBVIOUS
  <1>1. x \div (z * w) = (x \div z) \div w
    BY <1>0, TwiceOver, Zenon
  <1>2. PICK c \in Nat : c = x \div z
    BY <1>0
  <1>3. c = w * e + d
    BY <1>2, DigitSwap
  <1>4. c \div w = e
    BY <1>0, <1>2, <1>3, QuotientIs
  <1> QED
    BY <1>1, <1>2, <1>4, Zenon
------------------------------------------------------------------------------
(* A number and its bits *)

\* A recursive definition of a sum of digits, by its steps.
LEMMA DigitsChosen ==
  ASSUME NEW n \in Nat, NEW w \in Nat, NEW b \in [0 .. n - 1 -> Nat]
  PROVE  \A f : f = (CHOOSE g : Digits(g, n, w, b)) =>
           /\ f \in [0 .. n -> Nat] /\ f[n] = 0
           /\ \A k \in 0 .. n - 1 : f[k] = b[k] + w * f[k + 1]
  <1> DEFINE P(g) == Digits(g, n, w, b)
  <1>1. \E f : P(f)
    BY DigitsExist
  <1>2. P(CHOOSE g : P(g))
    <2> HIDE DEF P
    <2> QED
      BY <1>1
  <1> SUFFICES ASSUME NEW f, f = (CHOOSE g : Digits(g, n, w, b))
      PROVE  /\ f \in [0 .. n -> Nat] /\ f[n] = 0
             /\ \A k \in 0 .. n - 1 : f[k] = b[k] + w * f[k + 1]
    OBVIOUS
  <1>3. Digits(f, n, w, b)
    BY <1>2
  <1> QED
    <2>1. \A g : Digits(g, n, w, b) =>
            /\ g \in [0 .. n -> Nat] /\ g[n] = 0
            /\ \A k \in 0 .. n - 1 : g[k] = b[k] + w * g[k + 1]
      BY DigitsSteps
    <2> QED
      BY <1>3, <2>1, Zenon

LEMMA SeqItem ==
  ASSUME NEW S, NEW q \in Seq(S)
  PROVE  /\ Len(q) \in Nat /\ \A i \in 1 .. Len(q) : q[i] \in S
         /\ \A n \in Nat : n = Len(q) => \A k \in 0 .. n - 1 : q[k + 1] \in S
  <1>1. Len(q) \in Nat /\ \A i \in 1 .. Len(q) : q[i] \in S
    OBVIOUS
  <1>2. \A n \in Nat : n = Len(q) => \A k \in 0 .. n - 1 : k + 1 \in 1 .. Len(q)
    OBVIOUS
  <1> QED
    BY <1>1, <1>2

LEMMA NumberSteps ==
  ASSUME NEW bytes \in Seq(Nat)
  PROVE  \E f \in [0 .. Len(bytes) -> Nat] :
           /\ f[Len(bytes)] = 0 /\ Number(bytes) = f[0]
           /\ \A k \in 0 .. Len(bytes) - 1 : f[k] = bytes[k + 1] + 256 * f[k + 1]
  <1>1. PICK n \in Nat : n = Len(bytes)
    OBVIOUS
  <1> DEFINE b == [k \in 0 .. n - 1 |-> bytes[k + 1]]
             P(f) == f = [k \in 0 .. n |-> IF k = n THEN 0 ELSE bytes[k + 1] + 256 * f[k + 1]]
  <1>2. b \in [0 .. n - 1 -> Nat] /\ \A k \in 0 .. n - 1 : b[k] = bytes[k + 1]
    <2>1. \A k \in 0 .. n - 1 : bytes[k + 1] \in Nat
      BY <1>1, SeqItem
    <2> QED
      BY <2>1
  <1>3. \A f : P(f) <=> Digits(f, n, 256, b)
    <2> TAKE f
    <2> DEFINE F(k) == IF k = n THEN 0 ELSE bytes[k + 1] + 256 * f[k + 1]
               G(k) == IF k = n THEN 0 ELSE b[k] + 256 * f[k + 1]
    <2>1. \A k \in 0 .. n : F(k) = G(k)
      <3> SUFFICES ASSUME NEW k \in 0 .. n PROVE F(k) = G(k)
        OBVIOUS
      <3>1. k # n => b[k] = bytes[k + 1]
        BY <1>2
      <3> HIDE DEF b
      <3> QED
        BY <3>1
    <2>2. [k \in 0 .. n |-> F(k)] = [k \in 0 .. n |-> G(k)]
      <3> HIDE DEF F, G
      <3> QED
        BY <2>1
    <2>3. Digits(f, n, 256, b) <=> f = [k \in 0 .. n |-> G(k)]
      BY DEF Digits
    <2> QED
      BY <2>2, <2>3
  <1>4. (CHOOSE f : P(f)) = (CHOOSE f : Digits(f, n, 256, b))
    <2> HIDE DEF P, b
    <2> QED
      BY <1>3
  <1>5. PICK f : f = CHOOSE g : P(g)
    OBVIOUS
  <1>6. Number(bytes) = f[0]
    BY <1>1, <1>5 DEF Number
  <1>7. /\ f \in [0 .. n -> Nat] /\ f[n] = 0
        /\ \A k \in 0 .. n - 1 : f[k] = b[k] + 256 * f[k + 1]
    <2>1. f = CHOOSE g : Digits(g, n, 256, b)
      BY <1>4, <1>5
    <2> HIDE DEF b
    <2>2. n \in Nat /\ b \in [0 .. n - 1 -> Nat]
      BY <1>1, <1>2
    <2>3. PICK w \in Nat : w = 256
      OBVIOUS
    <2>4. f = CHOOSE g : Digits(g, n, w, b)
      BY <2>1, <2>3
    <2>5. /\ f \in [0 .. n -> Nat] /\ f[n] = 0
          /\ \A k \in 0 .. n - 1 : f[k] = b[k] + w * f[k + 1]
      <3>1. \A g : g = (CHOOSE h : Digits(h, n, w, b)) =>
               /\ g \in [0 .. n -> Nat] /\ g[n] = 0
               /\ \A k \in 0 .. n - 1 : g[k] = b[k] + w * g[k + 1]
        <4>1. w \in Nat
          BY <2>3
        <4> QED
          BY <2>2, <4>1, DigitsChosen, Zenon
      <3> QED
        BY <2>4, <3>1, Zenon
    <2> QED
      BY <2>3, <2>5
  <1> QED
    BY <1>1, <1>2, <1>6, <1>7

\* The powers of a base, and a number's digits and what is left after each.
Powers(p, w) == p \in [Nat -> Nat \ {0}] /\ p[0] = 1 /\ \A k \in Nat : p[k + 1] = p[k] * w
Rests(f, b, n, w) ==
  /\ f \in [0 .. n -> Nat] /\ b \in [0 .. n - 1 -> 0 .. w - 1]
  /\ \A k \in 0 .. n - 1 : f[k] = b[k] + w * f[k + 1]

LEMMA NumberFrom ==
  ASSUME NEW w \in Nat \ {0}, NEW p, Powers(p, w), NEW n \in Nat, NEW b, NEW f, Rests(f, b, n, w)
  PROVE  \A k \in 0 .. n : f[0] \div p[k] = f[k]
  <1>1. PICK x \in Nat : x = f[0]
    BY DEF Rests
  <1> DEFINE Ns == {k \in Nat : k <= n => x \div p[k] = f[k]}
  <1>2. 0 \in Ns
    BY <1>1 DEF Powers
  <1>3. ASSUME NEW k \in Nat, k \in Ns PROVE k + 1 \in Ns
    <2> SUFFICES ASSUME k + 1 <= n PROVE x \div p[k + 1] = f[k + 1]
      OBVIOUS
    <2>1. x \div p[k] = f[k]
      BY <1>3
    <2> HIDE DEF Ns
    <2>2. k \in 0 .. n - 1 /\ k \in 0 .. n /\ k + 1 \in 0 .. n
      OBVIOUS
    <2>3. PICK e \in Nat : e = f[k + 1]
      BY <2>2 DEF Rests
    <2>4. PICK d \in 0 .. w - 1 : d = b[k] /\ f[k] = d + w * e
      BY <2>2, <2>3 DEF Rests
    <2>5. PICK z \in Nat \ {0} : z = p[k] /\ p[k + 1] = z * w
      BY DEF Powers
    <2>6. x \div z = d + w * e
      BY <2>1, <2>4, <2>5
    <2>7. x \div (z * w) = e
      <3>1. x \in Nat /\ z \in Nat /\ w \in Nat /\ d \in Nat /\ e \in Nat /\ z # 0 /\ d < w
        OBVIOUS
      <3>2. DigitAt(x, z, w, d, e)
        BY <2>6 DEF DigitAt
      <3>3. RestAt(x, z, w, e)
        BY <3>1, <3>2, NextDigit, Zenon
      <3> QED
        BY <3>3 DEF RestAt
    <2> QED
      BY <2>3, <2>5, <2>7
  <1>4. \A k \in Nat : k \in Ns
    <2> HIDE DEF Ns
    <2> QED
      BY <1>2, <1>3, SetInduction
  <1> QED
    BY <1>1, <1>4

LEMMA Eighths ==
  \E p : Powers(p, 256) /\ \A k \in Nat : p[k] = 2 ^ (8 * k)
  <1> DEFINE p == [k \in Nat |-> 2 ^ (8 * k)]
  <1>1. \A k \in Nat : 8 * k \in Nat
    OBVIOUS
  <1>2. p \in [Nat -> Nat \ {0}] /\ \A k \in Nat : p[k] = 2 ^ (8 * k)
    BY <1>1, PowersOfTwo
  <1>3. p[0] = 1
    <2>1. 8 * 0 = 0
      OBVIOUS
    <2> QED
      BY <1>2, <2>1, PowersOfTwo
  <1>4. ASSUME NEW k \in Nat PROVE p[k + 1] = p[k] * 256
    <2>1. PICK a \in Nat, c \in Nat : a = 8 * k /\ c = 8 /\ a + c = 8 * (k + 1)
      OBVIOUS
    <2>2. 2 ^ (a + c) = 2 ^ a * 2 ^ c
      BY <2>1, PowerSum
    <2>3. 2 ^ c = 256
      BY <2>1, PowersBelow
    <2>4. k + 1 \in Nat
      OBVIOUS
    <2> HIDE DEF p
    <2> QED
      BY <1>2, <2>1, <2>2, <2>3, <2>4
  <1> HIDE DEF p
  <1> QED
    BY <1>2, <1>3, <1>4 DEF Powers

LEMMA ByteBits ==
  ASSUME NEW b \in Nat, NEW e \in Nat
  PROVE  /\ ((b + 256 * e) \div 1) % 2 = (b \div 1) % 2
         /\ ((b + 256 * e) \div 2) % 2 = (b \div 2) % 2
         /\ ((b + 256 * e) \div 4) % 2 = (b \div 4) % 2
         /\ ((b + 256 * e) \div 8) % 2 = (b \div 8) % 2
         /\ ((b + 256 * e) \div 16) % 2 = (b \div 16) % 2
         /\ ((b + 256 * e) \div 32) % 2 = (b \div 32) % 2
         /\ ((b + 256 * e) \div 64) % 2 = (b \div 64) % 2
         /\ ((b + 256 * e) \div 128) % 2 = (b \div 128) % 2
  <1>1. \A c, d \in Nat : (c + 2 * d) % 2 = c % 2
    OBVIOUS
  <1>2. ((b + 256 * e) \div 1) % 2 = (b \div 1) % 2
    <2>1. (b + 256 * e) \div 1 = (b \div 1) + 2 * (128 * e) /\ b \div 1 \in Nat /\ 128 * e \in Nat
      OBVIOUS
    <2> QED
      BY <1>1, <2>1
  <1>3. ((b + 256 * e) \div 2) % 2 = (b \div 2) % 2
    <2>1. (b + 256 * e) \div 2 = (b \div 2) + 2 * (64 * e) /\ b \div 2 \in Nat /\ 64 * e \in Nat
      OBVIOUS
    <2> QED
      BY <1>1, <2>1
  <1>4. ((b + 256 * e) \div 4) % 2 = (b \div 4) % 2
    <2>1. (b + 256 * e) \div 4 = (b \div 4) + 2 * (32 * e) /\ b \div 4 \in Nat /\ 32 * e \in Nat
      OBVIOUS
    <2> QED
      BY <1>1, <2>1
  <1>5. ((b + 256 * e) \div 8) % 2 = (b \div 8) % 2
    <2>1. (b + 256 * e) \div 8 = (b \div 8) + 2 * (16 * e) /\ b \div 8 \in Nat /\ 16 * e \in Nat
      OBVIOUS
    <2> QED
      BY <1>1, <2>1
  <1>6. ((b + 256 * e) \div 16) % 2 = (b \div 16) % 2
    <2>1. (b + 256 * e) \div 16 = (b \div 16) + 2 * (8 * e) /\ b \div 16 \in Nat /\ 8 * e \in Nat
      OBVIOUS
    <2> QED
      BY <1>1, <2>1
  <1>7. ((b + 256 * e) \div 32) % 2 = (b \div 32) % 2
    <2>1. (b + 256 * e) \div 32 = (b \div 32) + 2 * (4 * e) /\ b \div 32 \in Nat /\ 4 * e \in Nat
      OBVIOUS
    <2> QED
      BY <1>1, <2>1
  <1>8. ((b + 256 * e) \div 64) % 2 = (b \div 64) % 2
    <2>1. (b + 256 * e) \div 64 = (b \div 64) + 2 * (2 * e) /\ b \div 64 \in Nat /\ 2 * e \in Nat
      OBVIOUS
    <2> QED
      BY <1>1, <2>1
  <1>9. ((b + 256 * e) \div 128) % 2 = (b \div 128) % 2
    <2>1. (b + 256 * e) \div 128 = (b \div 128) + 2 * (1 * e) /\ b \div 128 \in Nat /\ 1 * e \in Nat
      OBVIOUS
    <2> QED
      BY <1>1, <2>1
  <1> QED
    BY <1>2, <1>3, <1>4, <1>5, <1>6, <1>7, <1>8, <1>9

Octets == 0 .. 255
Above(b, e, c) == c = b + 256 * e

LEMMA ByteBit ==
  \A b, e, c \in Nat, m \in 0 .. 7 : Above(b, e, c) => Bit(c, m) = Bit(b, m)
  <1> SUFFICES ASSUME NEW b \in Nat, NEW e \in Nat, NEW m \in 0 .. 7
      PROVE  Bit(b + 256 * e, m) = Bit(b, m)
    BY DEF Above
  <1>1. m = 0 \/ m = 1 \/ m = 2 \/ m = 3 \/ m = 4 \/ m = 5 \/ m = 6 \/ m = 7
    OBVIOUS
  <1>2. Bit(b + 256 * e, 0) = Bit(b, 0) /\ Bit(b + 256 * e, 1) = Bit(b, 1)
        /\ Bit(b + 256 * e, 2) = Bit(b, 2) /\ Bit(b + 256 * e, 3) = Bit(b, 3)
    BY ByteBits, PowersBelow DEF Bit
  <1>3. Bit(b + 256 * e, 4) = Bit(b, 4) /\ Bit(b + 256 * e, 5) = Bit(b, 5)
        /\ Bit(b + 256 * e, 6) = Bit(b, 6) /\ Bit(b + 256 * e, 7) = Bit(b, 7)
    BY ByteBits, PowersBelow DEF Bit
  <1> QED
    BY <1>1, <1>2, <1>3

\* The bits of a number are those of its bytes in turn, and it has no more.
LEMMA NumberBits ==
  ASSUME NEW bytes \in Seq(Octets), NEW n \in Nat, n = Len(bytes)
  PROVE  /\ Number(bytes) \in Nat /\ Number(bytes) \div 2 ^ (8 * n) = 0
         /\ \A k \in 0 .. n - 1, m \in 0 .. 7 : Bit(Number(bytes), 8 * k + m) = Bit(bytes[k + 1], m)
  <1>1. \A k \in 0 .. n - 1 : bytes[k + 1] \in Octets
    BY SeqItem
  <1>2. bytes \in Seq(Nat)
    <2>1. \A i \in 1 .. Len(bytes) : bytes[i] \in Nat
      <3>1. Octets \subseteq Nat
        BY DEF Octets
      <3> QED
        BY <3>1, SeqItem
    <2>2. bytes = [i \in 1 .. Len(bytes) |-> bytes[i]] /\ Len(bytes) \in Nat
      OBVIOUS
    <2> QED
      BY <2>1, <2>2
  <1>3. PICK f \in [0 .. n -> Nat] : /\ f[n] = 0 /\ Number(bytes) = f[0]
                                     /\ \A k \in 0 .. n - 1 : f[k] = bytes[k + 1] + 256 * f[k + 1]
    <2>1. PICK f \in [0 .. Len(bytes) -> Nat] :
            /\ f[Len(bytes)] = 0 /\ Number(bytes) = f[0]
            /\ \A k \in 0 .. Len(bytes) - 1 : f[k] = bytes[k + 1] + 256 * f[k + 1]
      BY <1>2, NumberSteps
    <2> QED
      BY <2>1
  <1>4. PICK x \in Nat : x = f[0]
    OBVIOUS
  <1>5. \A k \in 0 .. n : x \div 2 ^ (8 * k) = f[k]
    <2>1. PICK w \in Nat \ {0} : w = 256
      OBVIOUS
    <2>2. PICK p : Powers(p, w) /\ \A k \in Nat : p[k] = 2 ^ (8 * k)
      BY <2>1, Eighths
    <2> DEFINE b == [k \in 0 .. n - 1 |-> bytes[k + 1]]
    <2>3. b \in [0 .. n - 1 -> 0 .. w - 1] /\ \A k \in 0 .. n - 1 : b[k] = bytes[k + 1]
      <3>1. Octets = 0 .. w - 1
        BY <2>1 DEF Octets
      <3>2. \A k \in 0 .. n - 1 : bytes[k + 1] \in 0 .. w - 1
        BY <1>1, <3>1, Zenon
      <3> QED
        BY <3>2
    <2> HIDE DEF b
    <2>4. Rests(f, b, n, w)
      BY <1>3, <2>1, <2>3 DEF Rests
    <2>5. \A k \in 0 .. n : f[0] \div p[k] = f[k]
      BY <2>2, <2>4, NumberFrom
    <2> QED
      BY <2>2, <2>5, <1>4
  <1>6. x \div 2 ^ (8 * n) = 0
    BY <1>3, <1>5
  <1>7. ASSUME NEW k \in 0 .. n - 1, NEW m \in 0 .. 7 PROVE Bit(x, 8 * k + m) = Bit(bytes[k + 1], m)
    <2>0. bytes[k + 1] \in Nat /\ f[k + 1] \in Nat /\ m \in Nat
      <3>1. k + 1 \in 0 .. n /\ m \in Nat
        OBVIOUS
      <3>2. Octets \subseteq Nat
        BY DEF Octets
      <3>3. bytes[k + 1] \in Nat
        BY <1>1, <3>2
      <3> QED
        BY <3>1, <3>3
    <2>1. PICK b \in Nat, e \in Nat : b = bytes[k + 1] /\ e = f[k + 1] /\ f[k] = b + 256 * e
      BY <2>0, <1>3
    <2>2. PICK j \in Nat : j = 8 * k
      OBVIOUS
    <2>3. 2 ^ j \in Nat \ {0} /\ 2 ^ m \in Nat \ {0} /\ 2 ^ (j + m) = 2 ^ j * 2 ^ m
      BY <2>0, PowersOfTwo, PowerSum
    <2>4. (x \div 2 ^ j) \div 2 ^ m = x \div 2 ^ (j + m)
      <3> PICK c \in Nat \ {0}, d \in Nat \ {0} : c = 2 ^ j /\ d = 2 ^ m
        BY <2>3
      <3>1. (x \div c) \div d = x \div (c * d)
        BY TwiceOver, Zenon
      <3> QED
        BY <2>3, <3>1
    <2>5. PICK c \in Nat : c = b + 256 * e
      OBVIOUS
    <2>8. x \div 2 ^ j = c
      <3>1. k \in 0 .. n
        OBVIOUS
      <3>2. x \div 2 ^ (8 * k) = f[k]
        BY <1>5, <3>1
      <3> QED
        BY <3>2, <2>1, <2>2, <2>5
    <2>9. Above(b, e, c)
      BY <2>5 DEF Above
    <2>6. Bit(x, j + m) = Bit(c, m)
      BY <2>4, <2>8 DEF Bit
    <2>7. Bit(c, m) = Bit(b, m)
      BY <2>9, ByteBit
    <2> QED
      BY <2>1, <2>2, <2>6, <2>7, Zenon
  <1> QED
    BY <1>3, <1>4, <1>6, <1>7

\* What the bits of memory make is the number whose bits they are.
SameBits(first, n, time, y) ==
  \A k \in 0 .. n - 1 : (Byte((first + k) \div 8, time) \div 2 ^ ((first + k) % 8)) % 2 = Bit(y, k)

LEMMA BitsMake ==
  ASSUME NEW first \in Nat, NEW n \in Nat, NEW time, NEW y \in Nat, SameBits(first, n, time, y)
  PROVE  BitsAt(first, n, time) = y % 2 ^ n
  <1> DEFINE bit(k) == (Byte((first + k) \div 8, time) \div 2 ^ ((first + k) % 8)) % 2
             b == [k \in 0 .. n - 1 |-> Bit(y, k)]
             P(f) == f = [k \in 0 .. n |-> IF k = n THEN 0 ELSE bit(k) + 2 * f[k + 1]]
  <1>1. BitsAt(first, n, time) = (CHOOSE f : P(f))[0]
    BY DEF BitsAt
  <1>2. \A k \in 0 .. n - 1 : bit(k) = Bit(y, k)
    BY DEF SameBits
  <1> HIDE DEF bit
  <1>3. b \in [0 .. n - 1 -> Nat] /\ \A k \in 0 .. n - 1 : b[k] = Bit(y, k)
    <2>1. \A k \in 0 .. n - 1 : Bit(y, k) \in Nat
      <3> SUFFICES ASSUME NEW k \in 0 .. n - 1 PROVE Bit(y, k) \in Nat
        OBVIOUS
      <3>1. 2 ^ k \in Nat \ {0}
        BY PowersOfTwo
      <3>2. y \div 2 ^ k \in Nat
        BY <3>1, Divided
      <3> QED
        BY <3>2 DEF Bit
    <2> HIDE DEF bit
    <2> QED
      BY <2>1
  <1> HIDE DEF b
  <1>4. \A f : P(f) <=> Digits(f, n, 2, b)
    <2> TAKE f
    <2> DEFINE F(k) == IF k = n THEN 0 ELSE bit(k) + 2 * f[k + 1]
               G(k) == IF k = n THEN 0 ELSE b[k] + 2 * f[k + 1]
    <2>1. \A k \in 0 .. n : F(k) = G(k)
      <3> SUFFICES ASSUME NEW k \in 0 .. n PROVE F(k) = G(k)
        OBVIOUS
      <3>1. k # n => b[k] = bit(k)
        BY <1>2, <1>3
      <3> QED
        BY <3>1
    <2>2. [k \in 0 .. n |-> F(k)] = [k \in 0 .. n |-> G(k)]
      <3> HIDE DEF F, G
      <3> QED
        BY <2>1
    <2>3. Digits(f, n, 2, b) <=> f = [k \in 0 .. n |-> G(k)]
      BY DEF Digits
    <2> QED
      BY <2>2, <2>3
  <1>5. (CHOOSE f : P(f)) = (CHOOSE f : Digits(f, n, 2, b))
    <2> HIDE DEF P
    <2> QED
      BY <1>4
  <1> HIDE DEF P
  <1>6. PICK f : f = CHOOSE g : Digits(g, n, 2, b)
    OBVIOUS
  <1>7. /\ f \in [0 .. n -> Nat] /\ f[n] = 0
        /\ \A k \in 0 .. n - 1 : f[k] = b[k] + 2 * f[k + 1]
    <2>1. PICK w \in Nat : w = 2
      OBVIOUS
    <2>2. f = CHOOSE g : Digits(g, n, w, b)
      BY <1>6, <2>1
    <2>3. w \in Nat /\ n \in Nat /\ b \in [0 .. n - 1 -> Nat]
      BY <1>3, <2>1
    <2>4. \A g : g = (CHOOSE h : Digits(h, n, w, b)) =>
               /\ g \in [0 .. n -> Nat] /\ g[n] = 0
               /\ \A k \in 0 .. n - 1 : g[k] = b[k] + w * g[k + 1]
      BY <2>3, DigitsChosen, Zenon
    <2>5. /\ f \in [0 .. n -> Nat] /\ f[n] = 0
          /\ \A k \in 0 .. n - 1 : f[k] = b[k] + w * f[k + 1]
      BY <2>2, <2>4, Zenon
    <2> QED
      BY <2>1, <2>5
  <1>8. f[0] = y % 2 ^ n
    BY <1>3, <1>7, BitsSum
  <1> QED
    BY <1>1, <1>5, <1>6, <1>8

LEMMA BitPlace ==
  \A s, o, k, l \in Nat : o + k < 8 * l =>
    \E q \in 0 .. l - 1, m \in 0 .. 7 : o + k = 8 * q + m /\ (8 * s + o + k) \div 8 = s + q /\ (8 * s + o + k) % 8 = m
  <1> SUFFICES ASSUME NEW s \in Nat, NEW o \in Nat, NEW k \in Nat, NEW l \in Nat, o + k < 8 * l
      PROVE  \E q \in 0 .. l - 1, m \in 0 .. 7 :
               o + k = 8 * q + m /\ (8 * s + o + k) \div 8 = s + q /\ (8 * s + o + k) % 8 = m
    OBVIOUS
  <1>1. PICK q \in Nat, m \in 0 .. 7 : o + k = 8 * q + m
    <2> WITNESS (o + k) \div 8 \in Nat, (o + k) % 8 \in 0 .. 7
    <2> QED
      OBVIOUS
  <1>2. q \in 0 .. l - 1
    BY <1>1
  <1>3. (8 * s + o + k) \div 8 = s + q /\ (8 * s + o + k) % 8 = m
    BY <1>1
  <1> QED
    BY <1>1, <1>2, <1>3

LEMMA FieldBits ==
  ASSUME NEW item \in ItemTypes, IsNumber(item)
  PROVE  \E s, o, n, l \in Nat :
           /\ s = Start(item) /\ l = Length(item) /\ n = BitCount(item)
           /\ o = (IF item.bits = NoBits THEN 0 ELSE item.bit % 8)
           /\ o + n <= 8 * l /\ FirstBit(item) = 8 * s + o
           /\ item.bits = NoBits => n = 8 * l
  <1>1. PICK address \in Nat, width \in Nat, bit \in Nat, bits \in Nat \union {NoBits} :
          item.address = address /\ item.width = width /\ item.bit = bit /\ item.bits = bits
    BY DEF ItemTypes
  <1>2. CASE bits = NoBits
    <2>1. ~(bits > 0)
      BY <1>2 DEF NoBits
    <2>2. Start(item) = address + 0 /\ Length(item) = width
      BY <1>1, <2>1 DEF Start, Length
    <2>3. BitCount(item) = 8 * width /\ FirstBit(item) = 8 * address + 0
      BY <1>1, <1>2 DEF BitCount, FirstBit
    <2>4. 8 * width \in Nat /\ address + 0 = address /\ 8 * address + 0 = 8 * address /\ 0 + 8 * width <= 8 * width
      OBVIOUS
    <2> QED
      BY <1>1, <1>2, <2>2, <2>3, <2>4
  <1>3. CASE bits # NoBits
    <2>1. bits \in 1 .. 64
      BY <1>1, <1>3 DEF IsNumber
    <2>2. Start(item) = address + (bit \div 8) /\ Length(item) = ((bit % 8) + bits + 7) \div 8
      BY <1>1, <2>1 DEF Start, Length
    <2>3. BitCount(item) = bits /\ FirstBit(item) = 8 * address + bit
      BY <1>1, <1>3 DEF BitCount, FirstBit
    <2>4. PICK q \in Nat, o \in 0 .. 7 : q = bit \div 8 /\ o = bit % 8 /\ bit = 8 * q + o
      OBVIOUS
    <2>5. PICK l \in Nat : l = (o + bits + 7) \div 8 /\ o + bits <= 8 * l
      BY <2>1
    <2>6. 8 * address + bit = 8 * (address + q) + o /\ address + q \in Nat /\ bits \in Nat /\ o \in Nat
      BY <2>1, <2>4
    <2> QED
      BY <1>1, <1>3, <2>2, <2>3, <2>4, <2>5, <2>6
  <1> QED
    BY <1>2, <1>3

\* Decoding the bytes of an item gives the value its bits have in memory.
LEMMA DecodeTrue ==
  ASSUME NEW item \in ItemTypes, IsNumber(item), NEW time, NEW bytes \in Seq(Octets), Len(bytes) = Length(item),
         \A k \in 0 .. Length(item) - 1 : bytes[k + 1] = Byte(Start(item) + k, time)
  PROVE  Decode(item, bytes) = ValueAt(item, time)
  <1>1. PICK s \in Nat, o \in Nat, n \in Nat, l \in Nat :
          /\ s = Start(item) /\ l = Length(item) /\ n = BitCount(item)
          /\ o = (IF item.bits = NoBits THEN 0 ELSE item.bit % 8)
          /\ o + n <= 8 * l /\ FirstBit(item) = 8 * s + o
          /\ item.bits = NoBits => n = 8 * l
    BY FieldBits
  <1>2. PICK x \in Nat : x = Number(bytes) /\ x \div 2 ^ (8 * l) = 0
                         /\ \A k \in 0 .. l - 1, m \in 0 .. 7 : Bit(x, 8 * k + m) = Bit(bytes[k + 1], m)
    <2>1. l \in Nat /\ l = Len(bytes)
      BY <1>1, Zenon
    <2>2. /\ Number(bytes) \in Nat /\ Number(bytes) \div 2 ^ (8 * l) = 0
          /\ \A k \in 0 .. l - 1, m \in 0 .. 7 : Bit(Number(bytes), 8 * k + m) = Bit(bytes[k + 1], m)
      BY <2>1, NumberBits
    <2> QED
      BY <2>2
  <1>3. PICK y \in Nat : y = x \div 2 ^ o
    BY PowersOfTwo, Divided
  <1>4. ASSUME NEW k \in 0 .. n - 1
        PROVE  (Byte((8 * s + o + k) \div 8, time) \div 2 ^ ((8 * s + o + k) % 8)) % 2 = Bit(y, k)
    <2>0. o + n <= 8 * l
      BY <1>1, Zenon
    <2>1. k \in Nat /\ o + k < 8 * l
      BY <2>0
    <2>2. PICK q \in 0 .. l - 1, m \in 0 .. 7 :
            o + k = 8 * q + m /\ (8 * s + o + k) \div 8 = s + q /\ (8 * s + o + k) % 8 = m
      BY <2>1, BitPlace
    <2>3. Byte(s + q, time) = bytes[q + 1]
      BY <1>1
    <2>4. Bit(x, 8 * q + m) = Bit(bytes[q + 1], m)
      BY <1>2
    <2>5. Bit(y, k) = Bit(x, o + k)
      <3>1. 2 ^ o \in Nat \ {0} /\ 2 ^ k \in Nat \ {0} /\ 2 ^ (o + k) = 2 ^ o * 2 ^ k
        BY <2>1, PowersOfTwo, PowerSum
      <3> PICK c \in Nat \ {0}, d \in Nat \ {0} : c = 2 ^ o /\ d = 2 ^ k
        BY <3>1
      <3>2. (x \div c) \div d = x \div (c * d)
        BY TwiceOver, Zenon
      <3> QED
        BY <1>3, <3>1, <3>2 DEF Bit
    <2> QED
      BY <2>2, <2>3, <2>4, <2>5 DEF Bit
  <1>5. BitsAt(8 * s + o, n, time) = y % 2 ^ n
    <2>1. PICK first \in Nat : first = 8 * s + o
      OBVIOUS
    <2>2. SameBits(first, n, time, y)
      BY <1>4, <2>1 DEF SameBits
    <2>3. BitsAt(first, n, time) = y % 2 ^ n
      BY <2>2, BitsMake
    <2> QED
      BY <2>1, <2>3
  <1>6. PICK v : v = y % 2 ^ n
    OBVIOUS
  <1>7. ValueAt(item, time) = CASE item.kind = "signed" /\ item.bits # 64 -> TwosComplement(v, n)
                                [] item.kind = "bool" /\ item.bits = NoBits -> IF v = 0 THEN 0 ELSE 1
                                [] OTHER -> v
    BY <1>1, <1>5, <1>6 DEF ValueAt
  <1>8. CASE item.bits = NoBits
    <2>1. item.kind # "raw"
      BY <1>8 DEF IsNumber
    <2>2. v = x /\ n = 8 * item.width
      <3>1. 2 ^ 0 = 1 /\ 2 ^ n \in Nat \ {0}
        BY PowersOfTwo
      <3>2. x \div 1 = x
        OBVIOUS
      <3>3. y = x
        BY <1>1, <1>3, <1>8, <3>1, <3>2
      <3>4. x \div 2 ^ n = 0
        BY <1>1, <1>2, <1>8
      <3>5. x = 2 ^ n * 0 + (x % 2 ^ n) /\ x % 2 ^ n \in Nat
        BY <3>1, <3>4, Divided
      <3>6. n = 8 * item.width
        BY <1>1, <1>8 DEF BitCount
      <3> QED
        BY <1>6, <3>1, <3>3, <3>5, <3>6
    <2>3. NoBits # 64 /\ NoBits \notin 1 .. 63
      BY DEF NoBits
    <2>4. Decode(item, bytes) = CASE item.kind = "signed" -> TwosComplement(x, n)
                                  [] item.kind = "bool" -> IF x = 0 THEN 0 ELSE 1
                                  [] OTHER -> x
      BY <1>2, <1>8, <2>2, <2>3 DEF Decode
    <2> QED
      BY <1>7, <1>8, <2>2, <2>3, <2>4
  <1>9. CASE item.bits # NoBits
    <2>1. item.bits \in 1 .. 64 /\ n = item.bits
      BY <1>1, <1>9 DEF IsNumber, BitCount
    <2>2. (x \div 2 ^ (item.bit % 8)) % 2 ^ item.bits = v
      BY <1>1, <1>3, <1>6, <1>9, <2>1
    <2>3. CASE item.bits = 64
      <3>1. item.bits \notin 1 .. 63 /\ item.bits \in 1 .. 64
        BY <2>3
      <3>2. Decode(item, bytes) = v
        BY <1>2, <1>9, <2>2, <2>3, <3>1 DEF Decode
      <3> QED
        BY <1>7, <1>9, <2>3, <3>2
    <2>4. CASE item.bits # 64
      <3>1. item.bits \in 1 .. 63 /\ item.bits \in 1 .. 64
        BY <2>1, <2>4
      <3>2. CASE item.kind = "signed"
        <4>1. Decode(item, bytes) = TwosComplement(v, n)
          BY <1>2, <1>9, <2>1, <2>2, <2>4, <3>1, <3>2 DEF Decode
        <4> QED
          BY <1>7, <2>4, <3>2, <4>1
      <3>3. CASE item.kind # "signed"
        <4>1. Decode(item, bytes) = v
          BY <1>2, <1>9, <2>2, <2>4, <3>1, <3>3 DEF Decode
        <4> QED
          BY <1>7, <1>9, <3>3, <4>1
      <3> QED
        BY <3>2, <3>3
    <2> QED
      BY <2>3, <2>4
  <1> QED
    BY <1>8, <1>9

------------------------------------------------------------------------------
(* Where items lie *)

LEMMA OneLess ==
  ASSUME NEW S, IsFiniteSet(S), NEW s \in SUBSET S, NEW x \in s
  PROVE  /\ IsFiniteSet(s) /\ Cardinality(s) \in Nat /\ Cardinality(s) <= Cardinality(S)
         /\ s \ {x} \in SUBSET S /\ Cardinality(s \ {x}) = Cardinality(s) - 1
         /\ Cardinality(s \ {x}) \in Nat
  <1>1. IsFiniteSet(s) /\ Cardinality(s) <= Cardinality(S)
    BY FS_Subset
  <1>2. IsFiniteSet(s \ {x}) /\ Cardinality(s \ {x}) = Cardinality(s) - 1
    BY <1>1, FS_RemoveElement
  <1> QED
    BY <1>1, <1>2, FS_CardinalityType

LEMMA Places ==
  ASSUME NEW item \in ItemTypes
  PROVE  Start(item) \in Nat /\ Length(item) \in Nat
  <1>1. PICK address \in Nat, width \in Nat, bit \in Nat, bits \in Nat \union {NoBits} :
          item.address = address /\ item.width = width /\ item.bit = bit /\ item.bits = bits
    BY DEF ItemTypes
  <1>2. \A b, n \in Nat : b \div 8 \in Nat /\ ((b % 8) + n + 7) \div 8 \in Nat
    OBVIOUS
  <1>3. CASE bits > 0
    <2>1. bits \in Nat
      BY <1>3 DEF NoBits
    <2>2. bit \div 8 \in Nat /\ ((bit % 8) + bits + 7) \div 8 \in Nat
      BY <2>1, <1>2
    <2>3. Start(item) = address + bit \div 8 /\ Length(item) = ((bit % 8) + bits + 7) \div 8
      BY <1>1, <1>3 DEF Start, Length
    <2> QED
      BY <2>2, <2>3
  <1>4. CASE ~(bits > 0)
    <2>1. Start(item) = address + 0 /\ Length(item) = width
      BY <1>1, <1>4 DEF Start, Length
    <2> QED
      BY <2>1
  <1> QED
    BY <1>3, <1>4

------------------------------------------------------------------------------
(* The order *)

Reads(items) == {i \in DOMAIN items : IsReadItem(items[i])}

LEMMA ReadsFinite ==
  ASSUME NEW items \in Seq(ItemTypes)
  PROVE  /\ IsFiniteSet(Reads(items)) /\ Reads(items) \subseteq DOMAIN items
         /\ \A i \in DOMAIN items : /\ i \in Nat /\ items[i] \in ItemTypes
                                    /\ Start(items[i]) \in Nat /\ Length(items[i]) \in Nat
  <1>1. DOMAIN items = 1 .. Len(items) /\ Len(items) \in Nat
    OBVIOUS
  <1>2. IsFiniteSet(1 .. Len(items))
    BY <1>1, FS_Interval
  <1>3. \A i \in DOMAIN items : i \in Nat /\ items[i] \in ItemTypes
    BY <1>1
  <1> QED
    BY <1>1, <1>2, <1>3, FS_Subset, Places DEF Reads

LEMMA Ordered ==
  ASSUME NEW items \in Seq(ItemTypes), NEW i \in DOMAIN items, NEW j \in DOMAIN items
  PROVE  /\ i # j => Before(items, i, j) \/ Before(items, j, i)
         /\ Before(items, i, j) => Start(items[i]) <= Start(items[j])
         /\ \A k \in DOMAIN items : Before(items, i, j) /\ Before(items, j, k) => Before(items, i, k)
  <1>1. /\ i \in Nat /\ Start(items[i]) \in Nat /\ Length(items[i]) \in Nat
        /\ j \in Nat /\ Start(items[j]) \in Nat /\ Length(items[j]) \in Nat
    BY ReadsFinite
  <1>2. \A k \in DOMAIN items : k \in Nat /\ Start(items[k]) \in Nat /\ Length(items[k]) \in Nat
    BY ReadsFinite
  <1>3. i # j => Before(items, i, j) \/ Before(items, j, i)
    BY <1>1 DEF Before
  <1>4. Before(items, i, j) => Start(items[i]) <= Start(items[j])
    BY <1>1 DEF Before
  <1>5. ASSUME NEW k \in DOMAIN items, Before(items, i, j), Before(items, j, k) PROVE Before(items, i, k)
    BY <1>1, <1>2, <1>5 DEF Before
  <1> QED
    BY <1>3, <1>4, <1>5

LEMMA LatestIs ==
  ASSUME NEW items \in Seq(ItemTypes), NEW s \in SUBSET Reads(items), s # {}
  PROVE  /\ Latest(items, s) \in s
         /\ \A j \in s \ {Latest(items, s)} : Start(items[j]) <= Start(items[Latest(items, s)])
  <1> DEFINE R == Reads(items)
             Last(t, i) == i \in t /\ \A j \in t \ {i} : Before(items, j, i)
             Ns == {n \in Nat : \A t \in SUBSET R : Cardinality(t) = n => t = {} \/ \E i \in t : Last(t, i)}
  <1>1. IsFiniteSet(R) /\ R \subseteq DOMAIN items
    BY ReadsFinite
  <1>2. \A t \in SUBSET R : IsFiniteSet(t) /\ Cardinality(t) \in Nat
    BY <1>1, FS_Subset, FS_CardinalityType
  <1>3. 0 \in Ns
    <2>1. \A t \in SUBSET R : Cardinality(t) = 0 => t = {}
      BY <1>2, FS_EmptySet
    <2> QED
      BY <2>1
  <1>4. ASSUME NEW n \in Nat, n \in Ns PROVE n + 1 \in Ns
    <2> SUFFICES ASSUME NEW t \in SUBSET R, Cardinality(t) = n + 1, t # {} PROVE \E i \in t : Last(t, i)
      OBVIOUS
    <2> PICK x \in t : TRUE
      OBVIOUS
    <2>1. t \ {x} \in SUBSET R /\ Cardinality(t \ {x}) = n
      <3>1. Cardinality(t \ {x}) = Cardinality(t) - 1
        BY <1>1, OneLess
      <3> QED
        BY <3>1
    <2>2. CASE t \ {x} = {}
      BY <2>2
    <2>3. CASE t \ {x} # {}
      <3>1. PICK y \in t \ {x} : Last(t \ {x}, y)
        BY <2>1, <2>3, <1>4
      <3>2. x \in DOMAIN items /\ y \in DOMAIN items /\ x # y
        BY <1>1
      <3>3. CASE Before(items, x, y)
        BY <3>1, <3>3
      <3>4. CASE Before(items, y, x)
        <4>1. ASSUME NEW j \in t \ {x} PROVE Before(items, j, x)
          <5>1. CASE j = y
            BY <5>1, <3>4
          <5>2. CASE j # y
            <6>1. Before(items, j, y) /\ j \in DOMAIN items
              BY <5>2, <3>1, <1>1
            <6> QED
              BY <6>1, <3>2, <3>4, Ordered
          <5> QED
            BY <5>1, <5>2
        <4> QED
          BY <4>1
      <3> QED
        BY <3>2, <3>3, <3>4, Ordered
    <2> QED
      BY <2>2, <2>3
  <1>5. \A n \in Nat : n \in Ns
    <2> HIDE DEF Ns
    <2> QED
      BY <1>3, <1>4, SetInduction
  <1>6. \E i \in s : Last(s, i)
    <2>1. Cardinality(s) \in Nat /\ s \in SUBSET R
      BY <1>2
    <2>2. Cardinality(s) \in Ns
      BY <2>1, <1>5
    <2> HIDE DEF Last, R
    <2> QED
      BY <2>1, <2>2
  <1>7. PICK x : x = Latest(items, s)
    OBVIOUS
  <1>8. x \in s /\ \A j \in s \ {x} : Before(items, j, x)
    BY <1>6, <1>7 DEF Latest
  <1>9. \A j \in s \ {x} : Start(items[j]) <= Start(items[x])
    BY <1>1, <1>8, Ordered
  <1> QED
    BY <1>7, <1>8, <1>9

------------------------------------------------------------------------------
(* The fold *)

\* f is what placing each of the subsets of the items makes.
Placings(f, items) ==
  f = [s \in SUBSET Reads(items) |->
        IF s = {} THEN Unread(items) ELSE Placed(f[s \ {Latest(items, s)}], items, Latest(items, s))]

LEMMA PlanOf ==
  ASSUME NEW items, NEW f, Placings(f, items)
  PROVE  \E g : /\ Placings(g, items)
                /\ Plan(items) = [items |-> items, regions |-> g[Reads(items)].regions, slots |-> g[Reads(items)].slots]
  <1> DEFINE P(g) == Placings(g, items)
  <1>1. P(CHOOSE g : P(g))
    <2>1. P(f)
      OBVIOUS
    <2> HIDE DEF P
    <2> QED
      BY <2>1
  <1>2. Plan(items) = [items |-> items, regions |-> (CHOOSE g : P(g))[Reads(items)].regions,
                       slots |-> (CHOOSE g : P(g))[Reads(items)].slots]
    BY DEF Plan, Reads, Placings, MapThenFoldSet
  <1> QED
    BY <1>1, <1>2

LEMMA PlacingsExist ==
  ASSUME NEW items \in Seq(ItemTypes)
  PROVE  \E f : Placings(f, items)
  <1> DEFINE R == Reads(items)
             Last(s) == Latest(items, s)
             Rec(f, s) == IF s = {} THEN Unread(items) ELSE Placed(f[s \ {Last(s)}], items, Last(s))
             IsFn(f) == f = [s \in SUBSET R |-> f[s]]
             UpTo(f, n) == \A s \in SUBSET R : Cardinality(s) <= n => f[s] = Rec(f, s)
             Ns == {n \in Nat : \E f : IsFn(f) /\ UpTo(f, n)}
  <1>0. IsFiniteSet(R)
    BY ReadsFinite
  <1>1. \A s \in SUBSET R : IsFiniteSet(s) /\ Cardinality(s) \in Nat /\ Cardinality(s) <= Cardinality(R)
    BY <1>0, FS_Subset, FS_CardinalityType
  <1>2. \A s \in SUBSET R : s # {} => /\ s \ {Last(s)} \in SUBSET R
                                      /\ Cardinality(s \ {Last(s)}) = Cardinality(s) - 1
    <2> TAKE s \in SUBSET R
    <2> HAVE s # {}
    <2>1. Last(s) \in s
      BY LatestIs
    <2> HIDE DEF Last, R
    <2> QED
      BY <2>1, <1>0, OneLess
  <1>4. 0 \in Ns
    <2> DEFINE f == [s \in SUBSET R |-> Unread(items)]
    <2>1. \A s \in SUBSET R : Cardinality(s) <= 0 => s = {}
      BY <1>1, FS_EmptySet
    <2>2. UpTo(f, 0)
      BY <2>1
    <2>3. IsFn(f)
      OBVIOUS
    <2> HIDE DEF UpTo, f, IsFn
    <2> QED
      BY <2>2, <2>3
  <1>5. ASSUME NEW n \in Nat, n \in Ns PROVE n + 1 \in Ns
    <2>1. PICK f : IsFn(f) /\ UpTo(f, n)
      BY <1>5
    <2> DEFINE g == [s \in SUBSET R |-> IF Cardinality(s) <= n THEN f[s] ELSE Rec(f, s)]
    <2>2. IsFn(g)
      OBVIOUS
    <2>3. \A s \in SUBSET R : Cardinality(s) <= n + 1 => g[s] = Rec(g, s)
      <3> SUFFICES ASSUME NEW s \in SUBSET R, Cardinality(s) <= n + 1 PROVE g[s] = Rec(g, s)
        OBVIOUS
      <3>1. g[s] = Rec(f, s)
        BY <2>1
      <3>2. ASSUME s # {} PROVE g[s \ {Last(s)}] = f[s \ {Last(s)}]
        <4>1. Cardinality(s \ {Last(s)}) <= n /\ s \ {Last(s)} \in SUBSET R
          BY <3>2, <1>1, <1>2
        <4> HIDE DEF Last, R, Rec
        <4> QED
          BY <4>1
      <3> HIDE DEF g, Last
      <3> QED
        BY <3>1, <3>2
    <2>4. IsFn(g) /\ UpTo(g, n + 1)
      <3> HIDE DEF g, IsFn, Rec, R
      <3> QED
        BY <2>2, <2>3
    <2> HIDE DEF g, IsFn, UpTo
    <2> QED
      BY <2>4
  <1>6. \A n \in Nat : n \in Ns
    <2> HIDE DEF Ns
    <2> QED
      BY <1>4, <1>5, SetInduction
  <1>7. Cardinality(R) \in Nat
    BY <1>0, FS_CardinalityType
  <1>8. PICK f : IsFn(f) /\ UpTo(f, Cardinality(R))
    BY <1>6, <1>7
  <1>9. \A s \in SUBSET R : f[s] = Rec(f, s)
    BY <1>1, <1>8
  <1>10. f = [s \in SUBSET R |-> Rec(f, s)]
    <2> HIDE DEF Rec
    <2> QED
      BY <1>8, <1>9, Zenon
  <1> QED
    BY <1>10 DEF Placings

------------------------------------------------------------------------------
(* Where an item is placed *)

Regions == [address : Nat, len : Nat]
Slots == [region : Nat, offset : Nat, len : Nat]

\* The slot is of a region that covers length bytes from start on, and that is not
\* too long unless it covers nothing else.
Holds(slot, regions, start, length) ==
  /\ slot.region \in 1 .. Len(regions) /\ slot.offset \in Nat /\ slot.len = length
  /\ regions[slot.region].address + slot.offset = start
  /\ slot.offset + length <= regions[slot.region].len
  /\ regions[slot.region].len <= MaxLen \/ (slot.offset = 0 /\ regions[slot.region].len = length)

\* The items of s are placed and no other ones; the last region begins with one of them.
PlacedAll(acc, items, s) ==
  /\ acc.regions \in Seq(Regions) /\ acc.slots \in [DOMAIN items -> Slots]
  /\ \A i \in DOMAIN items \ s : acc.slots[i] = Nowhere
  /\ \A i \in s : Holds(acc.slots[i], acc.regions, Start(items[i]), Length(items[i]))
  /\ acc.regions # <<>> => \E i \in s : acc.regions[Len(acc.regions)].address = Start(items[i])

\* A region that goes on to hold more holds what it held.
LEMMA HoldsStill ==
  ASSUME NEW slot \in Slots, NEW regions \in Seq(Regions), NEW start \in Nat, NEW length \in Nat,
         Holds(slot, regions, start, length), NEW more \in Seq(Regions), Len(regions) <= Len(more),
         \A k \in 1 .. Len(regions) :
           \/ more[k] = regions[k]
           \/ more[k].address = regions[k].address /\ regions[k].len <= more[k].len /\ more[k].len <= MaxLen
  PROVE  Holds(slot, more, start, length)
  <1>1. PICK r \in Nat, a \in Nat, n \in Nat, o \in Nat :
          /\ r = slot.region /\ a = regions[r].address /\ n = regions[r].len /\ o = slot.offset
          /\ r \in 1 .. Len(regions)
    <2>1. slot.region \in 1 .. Len(regions) /\ slot.offset \in Nat /\ Len(regions) \in Nat
      BY DEF Holds
    <2>2. regions[slot.region] \in Regions
      BY <2>1
    <2>3. regions[slot.region].address \in Nat /\ regions[slot.region].len \in Nat
      BY <2>2 DEF Regions
    <2>4. slot.region \in Nat
      BY <2>1
    <2> PICK r \in Nat, o \in Nat : r = slot.region /\ o = slot.offset /\ r \in 1 .. Len(regions)
      BY <2>1, <2>4
    <2> PICK a \in Nat, n \in Nat : a = regions[r].address /\ n = regions[r].len
      BY <2>3
    <2> QED
      OBVIOUS
  <1>2. a + o = start /\ o + length <= n /\ (n <= MaxLen \/ (o = 0 /\ n = length)) /\ slot.len = length
    BY <1>1 DEF Holds
  <1>3. PICK m \in Nat : m = more[r].len /\ r \in 1 .. Len(more)
    <2>1. r \in 1 .. Len(more) /\ Len(more) \in Nat
      BY <1>1
    <2>2. more[r] \in Regions
      BY <2>1
    <2>3. more[r].len \in Nat
      BY <2>2 DEF Regions
    <2> QED
      BY <2>1, <2>3
  <1>4. more[r].address = a /\ n <= m /\ (m = n \/ m <= MaxLen)
    <2>1. \/ more[r] = regions[r]
          \/ more[r].address = regions[r].address /\ regions[r].len <= more[r].len /\ more[r].len <= MaxLen
      BY <1>1
    <2> QED
      BY <2>1, <1>1, <1>3
  <1>5. a + o = start /\ o + length <= m /\ (m <= MaxLen \/ (o = 0 /\ m = length))
    BY <1>2, <1>4
  <1> QED
    BY <1>1, <1>2, <1>3, <1>4, <1>5 DEF Holds

LEMMA PlacedKeeps ==
  ASSUME NEW items \in Seq(ItemTypes), NEW s \in SUBSET DOMAIN items, NEW x \in DOMAIN items, x \notin s,
         \A j \in s : Start(items[j]) <= Start(items[x]),
         NEW acc, PlacedAll(acc, items, s)
  PROVE  PlacedAll(Placed(acc, items, x), items, s \union {x})
  <1>1. PICK start \in Nat, length \in Nat : start = Start(items[x]) /\ length = Length(items[x])
    BY ReadsFinite
  <1>2. PICK regions \in Seq(Regions), slots \in [DOMAIN items -> Slots] :
          regions = acc.regions /\ slots = acc.slots
    BY DEF PlacedAll
  <1>3. PICK n \in Nat : n = Len(regions)
    OBVIOUS
  <1> DEFINE merge == n > 0 /\ Merges(regions[n], items[x])
             more == IF merge THEN [regions EXCEPT ![n] = Widened(regions[n], items[x])]
                     ELSE Append(regions, [address |-> start, len |-> length])
             slot == [region |-> Len(more), offset |-> start - more[Len(more)].address, len |-> length]
             now == Placed(acc, items, x)
  <1>4. now.regions = more /\ now.slots = [slots EXCEPT ![x] = slot]
    BY <1>1, <1>2, <1>3 DEF Placed
  <1>5. /\ more \in Seq(Regions) /\ Len(more) \in Nat /\ n <= Len(more) /\ slot \in Slots
        /\ Holds(slot, more, start, length)
        /\ \A k \in 1 .. n :
             \/ more[k] = regions[k]
             \/ more[k].address = regions[k].address /\ regions[k].len <= more[k].len /\ more[k].len <= MaxLen
        /\ \E i \in s \union {x} : more[Len(more)].address = Start(items[i])
    <2>1. CASE merge
      <3>1. PICK a \in Nat, len \in Nat : regions[n] = [address |-> a, len |-> len]
        <4>1. regions[n] \in Regions
          BY <1>3, <2>1
        <4> QED
          BY <4>1 DEF Regions
      <3>2. PICK i \in s : a = Start(items[i])
        BY <1>2, <1>3, <2>1, <3>1 DEF PlacedAll
      <3>3. a <= start
        BY <3>2, <1>1
      <3>4. /\ start <= a + len + Gap
            /\ (IF start + length > a + len THEN start + length ELSE a + len) - a <= MaxLen
        BY <1>1, <2>1, <3>1 DEF Merges
      <3>5. PICK m \in Nat : /\ m = IF start + length - a > len THEN start + length - a ELSE len
                             /\ len <= m /\ start - a + length <= m /\ m <= MaxLen
        <4>1. MaxLen \in Nat /\ start - a + length \in Nat /\ start + length - a = start - a + length
          BY <3>3, ReadPlanAssumption
        <4>2. CASE start + length - a > len
          <5>1. start + length > a + len
            BY <4>1, <4>2
          <5> QED
            BY <3>4, <4>1, <4>2, <5>1
        <4>3. CASE ~(start + length - a > len)
          <5>1. ~(start + length > a + len) /\ a + len - a = len /\ start - a + length <= len
            BY <4>1, <4>3
          <5>2. len <= MaxLen
            BY <3>4, <5>1
          <5> QED
            BY <4>3, <5>1, <5>2
        <4> QED
          BY <4>2, <4>3
      <3>6. Widened(regions[n], items[x]) = [address |-> a, len |-> m]
        BY <1>1, <3>1, <3>5 DEF Widened
      <3>7. more = [regions EXCEPT ![n] = [address |-> a, len |-> m]]
        BY <2>1, <3>6
      <3>8. [address |-> a, len |-> m] \in Regions
        BY DEF Regions
      <3> HIDE DEF more
      <3>9. /\ more \in Seq(Regions) /\ Len(more) = n /\ n \in 1 .. n
            /\ more[n] = [address |-> a, len |-> m]
            /\ \A k \in 1 .. n : k # n => more[k] = regions[k]
        BY <1>3, <2>1, <3>7, <3>8
      <3>10. slot = [region |-> n, offset |-> start - a, len |-> length] /\ start - a \in Nat
        BY <3>3, <3>9
      <3>11. slot \in Slots /\ Holds(slot, more, start, length)
        BY <3>3, <3>5, <3>9, <3>10 DEF Slots, Holds
      <3>12. \A k \in 1 .. n :
             \/ more[k] = regions[k]
             \/ more[k].address = regions[k].address /\ regions[k].len <= more[k].len /\ more[k].len <= MaxLen
        BY <3>1, <3>5, <3>9
      <3> HIDE DEF slot
      <3> QED
        BY <3>2, <3>9, <3>11, <3>12
    <2>2. CASE ~merge
      <3>1. more = Append(regions, [address |-> start, len |-> length])
        BY <2>2
      <3>2. [address |-> start, len |-> length] \in Regions
        BY DEF Regions
      <3> HIDE DEF more
      <3>3. /\ more \in Seq(Regions) /\ Len(more) = n + 1 /\ n + 1 \in 1 .. n + 1
            /\ more[n + 1] = [address |-> start, len |-> length]
            /\ \A k \in 1 .. n : more[k] = regions[k]
        BY <1>3, <3>1, <3>2
      <3>4. slot = [region |-> n + 1, offset |-> 0, len |-> length]
        BY <3>3
      <3>5. slot \in Slots /\ Holds(slot, more, start, length)
        BY <3>3, <3>4 DEF Slots, Holds
      <3> HIDE DEF slot
      <3> QED
        BY <1>1, <3>3, <3>5
    <2> QED
      BY <2>1, <2>2
  <1> HIDE DEF more, slot, now
  <1>6. now.slots \in [DOMAIN items -> Slots] /\ now.slots[x] = slot
        /\ \A i \in DOMAIN items : i # x => now.slots[i] = slots[i]
    BY <1>4, <1>5
  <1>7. \A i \in DOMAIN items \ (s \union {x}) : now.slots[i] = Nowhere
    BY <1>2, <1>6 DEF PlacedAll
  <1>8. ASSUME NEW i \in s \union {x}
        PROVE  Holds(now.slots[i], now.regions, Start(items[i]), Length(items[i]))
    <2>1. CASE i = x
      BY <2>1, <1>1, <1>4, <1>5, <1>6
    <2>2. CASE i # x
      <3>1. /\ i \in s /\ i \in DOMAIN items /\ slots[i] \in Slots /\ now.slots[i] = slots[i]
            /\ Start(items[i]) \in Nat /\ Length(items[i]) \in Nat
            /\ Holds(slots[i], regions, Start(items[i]), Length(items[i]))
        BY <2>2, <1>2, <1>6, ReadsFinite DEF PlacedAll
      <3>2. Holds(slots[i], more, Start(items[i]), Length(items[i]))
        BY <3>1, <1>3, <1>5, HoldsStill
      <3> QED
        BY <3>1, <3>2, <1>4
    <2> QED
      BY <2>1, <2>2
  <1> QED
    BY <1>4, <1>5, <1>6, <1>7, <1>8 DEF PlacedAll, now

\* Every item that is read lies in the region of its slot.
LEMMA PlanPlaces ==
  ASSUME NEW items \in Seq(ItemTypes)
  PROVE  Plan(items).items = items /\ PlacedAll(Plan(items), items, Reads(items))
  <1>1. PICK f : /\ Placings(f, items)
                 /\ Plan(items) = [items |-> items, regions |-> f[Reads(items)].regions,
                                   slots |-> f[Reads(items)].slots]
    BY PlacingsExist, PlanOf
  <1> DEFINE R == Reads(items)
             Last(s) == Latest(items, s)
             Ns == {n \in Nat : \A s \in SUBSET R : Cardinality(s) = n => PlacedAll(f[s], items, s)}
  <1>2. IsFiniteSet(R) /\ R \subseteq DOMAIN items
    BY ReadsFinite
  <1>3. \A s \in SUBSET R : IsFiniteSet(s) /\ Cardinality(s) \in Nat
    BY <1>2, FS_Subset, FS_CardinalityType
  <1>4. \A s \in SUBSET R : f[s] = IF s = {} THEN Unread(items) ELSE Placed(f[s \ {Last(s)}], items, Last(s))
    BY <1>1 DEF Placings
  <1>5. 0 \in Ns
    <2> SUFFICES ASSUME NEW s \in SUBSET R, Cardinality(s) = 0 PROVE PlacedAll(f[s], items, s)
      OBVIOUS
    <2>1. s = {} /\ f[s] = Unread(items)
      BY <1>3, <1>4, FS_EmptySet
    <2>2. /\ Unread(items).regions = <<>> /\ Unread(items).slots \in [DOMAIN items -> Slots]
          /\ \A i \in DOMAIN items : Unread(items).slots[i] = Nowhere
      BY DEF Unread, Nowhere, Slots
    <2>3. <<>> \in Seq(Regions)
      OBVIOUS
    <2> QED
      BY <2>1, <2>2, <2>3 DEF PlacedAll
  <1>6. ASSUME NEW n \in Nat, n \in Ns PROVE n + 1 \in Ns
    <2> SUFFICES ASSUME NEW s \in SUBSET R, Cardinality(s) = n + 1 PROVE PlacedAll(f[s], items, s)
      OBVIOUS
    <2>1. s # {}
      <3>1. Cardinality({}) = 0 /\ n + 1 # 0
        BY FS_EmptySet
      <3> HIDE DEF Ns
      <3> QED
        BY <3>1
    <2>2. PICK x : x = Last(s)
      OBVIOUS
    <2>3. x \in s /\ \A j \in s \ {x} : Start(items[j]) <= Start(items[x])
      BY <2>1, <2>2, LatestIs
    <2>4. s \ {x} \in SUBSET R /\ Cardinality(s \ {x}) = n
      <3>1. Cardinality(s \ {x}) = Cardinality(s) - 1
        BY <1>2, <2>3, OneLess
      <3> QED
        BY <3>1
    <2>5. PlacedAll(f[s \ {x}], items, s \ {x})
      BY <2>4, <1>6
    <2>6. PlacedAll(Placed(f[s \ {x}], items, x), items, (s \ {x}) \union {x})
      <3>1. s \ {x} \in SUBSET DOMAIN items /\ x \in DOMAIN items /\ x \notin s \ {x}
        BY <1>2, <2>3
      <3> QED
        BY <3>1, <2>3, <2>5, PlacedKeeps
    <2>7. f[s] = Placed(f[s \ {x}], items, x) /\ (s \ {x}) \union {x} = s
      BY <1>4, <2>1, <2>2, <2>3
    <2> QED
      BY <2>6, <2>7
  <1>7. \A n \in Nat : n \in Ns
    <2> HIDE DEF Ns
    <2> QED
      BY <1>5, <1>6, SetInduction
  <1>8. PlacedAll(f[R], items, R)
    BY <1>3, <1>7
  <1> QED
    BY <1>1, <1>8 DEF PlacedAll

------------------------------------------------------------------------------
(* What a row holds *)

Row(p, time, fails) == Sampled(p, LAMBDA a : Byte(a, time), fails)

LEMMA NearOf ==
  ASSUME NEW start \in Nat, NEW length \in Nat, NEW a \in Nat, NEW n \in Nat, NEW o \in Nat,
         a + o = start, o + length <= n, n <= MaxLen \/ (o = 0 /\ n = length)
  PROVE  a .. a + n - 1 \subseteq
           (start .. start + length - 1) \union (start + length - MaxLen .. start + MaxLen - 1)
  <1>1. MaxLen \in Nat
    BY ReadPlanAssumption
  <1>2. CASE n <= MaxLen
    BY <1>1, <1>2
  <1>3. CASE o = 0 /\ n = length
    BY <1>3
  <1> QED
    BY <1>2, <1>3

\* What is read for an item is right.
LEMMA RowRight ==
  ASSUME NEW items \in Watches, NEW time \in 0 .. MaxNow, NEW fails, NEW c \in DOMAIN items
  PROVE  Right(items[c], time, fails, Row(Plan(items), time, fails)[c])
  <1>0. items \in Seq(ItemTypes)
    BY SamplerAssumption
  <1>1. PICK item \in ItemTypes : item = items[c]
    BY <1>0, ReadsFinite
  <1>2. PICK p : p = Plan(items) /\ p.items = items /\ PlacedAll(p, items, Reads(items))
    BY <1>0, PlanPlaces
  <1>3. PICK slot : slot = p.slots[c]
    OBVIOUS
  <1>4. PICK got : got = Row(p, time, fails)[c]
    OBVIOUS
  <1>5. got = LET r == p.regions[slot.region]
                  bytes == [k \in 1 .. slot.len |-> Byte(r.address + slot.offset + k - 1, time)]
              IN IF slot = Nowhere \/ (r.address .. r.address + r.len - 1) \cap fails # {} THEN NaN
                 ELSE Decode(item, bytes)
    BY <1>1, <1>2, <1>3, <1>4 DEF Row, Sampled
  <1>6. CASE c \notin Reads(items)
    <2>1. slot = Nowhere
      BY <1>2, <1>3, <1>6 DEF PlacedAll
    <2>2. ~IsNumber(item)
      <3>1. item.kind = "raw" /\ ~(item.bits > 0)
        BY <1>1, <1>6 DEF Reads, IsReadItem
      <3>2. item.bits \notin 1 .. 64
        BY <3>1
      <3> QED
        BY <3>1, <3>2 DEF IsNumber
    <2> QED
      BY <1>1, <1>2, <1>4, <1>5, <2>1, <2>2 DEF Right
  <1>7. CASE c \in Reads(items)
    <2>1. PICK start \in Nat, length \in Nat : start = Start(item) /\ length = Length(item)
      BY Places
    <2>2. Holds(slot, p.regions, start, length) /\ p.regions \in Seq(Regions)
      BY <1>1, <1>2, <1>3, <1>7, <2>1 DEF PlacedAll
    <2>3. PICK region \in Regions : region = p.regions[slot.region]
      BY <2>2 DEF Holds
    <2>4. PICK a \in Nat, n \in Nat, o \in Nat : a = region.address /\ n = region.len /\ o = slot.offset
      BY <2>2 DEF Holds, Regions
    <2>5. a + o = start /\ o + length <= n /\ (n <= MaxLen \/ (o = 0 /\ n = length)) /\ slot.len = length
      BY <2>2, <2>3, <2>4 DEF Holds
    <2>6. slot # Nowhere
      BY <2>2 DEF Holds, Nowhere
    <2>7. a .. a + n - 1 \subseteq Near(item)
      BY <2>1, <2>5, NearOf DEF Near, Span
    <2> DEFINE bytes == [k \in 1 .. length |-> Byte(a + o + k - 1, time)]
    <2>8. got = IF (a .. a + n - 1) \cap fails # {} THEN NaN ELSE Decode(item, bytes)
      BY <1>5, <2>3, <2>4, <2>5, <2>6
    <2>9. CASE (a .. a + n - 1) \cap fails # {}
      <3>1. got = NaN /\ fails \cap Near(item) # {}
        BY <2>7, <2>8, <2>9
      <3> QED
        BY <1>1, <1>2, <1>4, <3>1 DEF Right
    <2>10. CASE (a .. a + n - 1) \cap fails = {} /\ IsNumber(item)
      <3>1. bytes \in Seq(Octets) /\ Len(bytes) = length
        <4>1. \A k \in 1 .. length : Byte(a + o + k - 1, time) \in Octets
          <5> SUFFICES ASSUME NEW k \in 1 .. length PROVE Byte(a + o + k - 1, time) \in Octets
            OBVIOUS
          <5>1. a + o + k - 1 \in Span(item)
            BY <2>1, <2>5 DEF Span
          <5> QED
            BY <1>1, <5>1, SamplerAssumption DEF Octets
        <4> QED
          BY <4>1
      <3>2. \A k \in 0 .. length - 1 : bytes[k + 1] = Byte(start + k, time)
        <4> SUFFICES ASSUME NEW k \in 0 .. length - 1 PROVE bytes[k + 1] = Byte(start + k, time)
          OBVIOUS
        <4>1. k + 1 \in 1 .. length /\ a + o + (k + 1) - 1 = start + k
          BY <2>5
        <4> QED
          BY <4>1
      <3>3. got = Decode(item, bytes)
        BY <2>8, <2>10
      <3> HIDE DEF bytes
      <3>4. Decode(item, bytes) = ValueAt(item, time)
        BY <2>1, <2>10, <3>1, <3>2, DecodeTrue
      <3> QED
        BY <1>1, <1>2, <1>4, <2>10, <3>3, <3>4 DEF Right
    <2>11. CASE (a .. a + n - 1) \cap fails = {} /\ ~IsNumber(item)
      <3>1. item.bits # NoBits /\ item.bits \notin 1 .. 64
        <4>1. item.kind # "raw" \/ item.bits > 0
          BY <1>1, <1>7 DEF Reads, IsReadItem
        <4>2. ~(NoBits > 0)
          BY DEF NoBits
        <4> QED
          BY <2>11, <4>1, <4>2 DEF IsNumber
      <3>2. Decode(item, bytes) = NaN
        BY <3>1 DEF Decode
      <3>3. got = NaN
        BY <2>8, <2>11, <3>2
      <3> QED
        BY <1>1, <1>2, <1>4, <2>11, <3>3 DEF Right
    <2> QED
      BY <2>9, <2>10, <2>11
  <1> QED
    BY <1>6, <1>7

------------------------------------------------------------------------------
(* What a batch holds *)

\* The rows that may be read of what is watched.
RowsOf(items) == {Row(Plan(items), u, f) : u \in 0 .. MaxNow, f \in Failures}

Collected(items) ==
  /\ frame.times \in Seq(0 .. MaxNow) /\ frame.fails \in Seq(Failures) /\ frame.rows \in Seq(RowsOf(items))
  /\ Len(frame.fails) = Len(frame.times) /\ Len(frame.rows) = Len(frame.times)
  /\ \A r \in 1 .. Len(frame.times) : frame.rows[r] = Row(Plan(items), frame.times[r], frame.fails[r])

\* What has been collected was read of what is watched; nothing is before the first
\* list of items.
RowsTrue ==
  /\ clock \in 0 .. MaxNow
  /\ \/ plan = Unplanned /\ sampler = <<>> /\ frame = NoRows
     \/ \E items \in Watches : plan = Plan(items) /\ Collected(items)

LEMMA NothingCollected ==
  ASSUME NEW items, frame' = NoRows PROVE Collected(items)'
  BY DEF Collected, NoRows

LEMMA BatchIsTrue ==
  ASSUME NEW items \in Watches, plan = Plan(items), Collected(items), batch' = Batch
  PROVE  BatchTrue'
  <1>0. items \in Seq(ItemTypes)
    BY SamplerAssumption
  <1>1. plan.items = items
    BY <1>0, PlanPlaces
  <1>2. /\ batch'.ids = Ids(items) /\ batch'.times = frame.times /\ batch'.fails = frame.fails
        /\ \A c \in DOMAIN items, r \in DOMAIN frame.times : batch'.columns[c][r] = frame.rows[r][c]
    BY <1>1 DEF Batch
  <1>3. DOMAIN frame.times = 1 .. Len(frame.times) /\ \A r \in DOMAIN frame.times : frame.times[r] \in 0 .. MaxNow
    <2>1. PICK q \in Seq(0 .. MaxNow) : q = frame.times
      BY DEF Collected
    <2>2. DOMAIN q = 1 .. Len(q)
      OBVIOUS
    <2>3. \A r \in 1 .. Len(q) : q[r] \in 0 .. MaxNow
      BY SeqItem
    <2> QED
      BY <2>1, <2>2, <2>3
  <1>4. ASSUME NEW c \in DOMAIN items, NEW r \in DOMAIN frame.times
        PROVE  Right(items[c], frame.times[r], frame.fails[r], frame.rows[r][c])
    BY <1>3, RowRight DEF Collected
  <1> QED
    BY <1>2, <1>4 DEF BatchTrue

LEMMA FlushTrue ==
  ASSUME RowsTrue, BatchTrue, Flushed
  PROVE  frame' = NoRows /\ BatchTrue'
  <1>1. frame' = NoRows
    BY DEF Flushed
  <1>2. CASE frame.times = <<>>
    BY <1>2 DEF Flushed, BatchTrue
  <1>3. CASE frame.times # <<>>
    <2>1. batch' = Batch
      BY <1>3 DEF Flushed
    <2>2. frame # NoRows
      BY <1>3 DEF NoRows
    <2>3. PICK items \in Watches : plan = Plan(items) /\ Collected(items)
      BY <2>2 DEF RowsTrue
    <2> QED
      BY <1>1, <2>1, <2>3, BatchIsTrue
  <1> QED
    BY <1>1, <1>2, <1>3

LEMMA AppendIs ==
  ASSUME NEW S, NEW q \in Seq(S), NEW e \in S, NEW n \in Nat, n = Len(q)
  PROVE  /\ Append(q, e) \in Seq(S) /\ Len(Append(q, e)) = n + 1
         /\ Append(q, e)[n + 1] = e /\ \A r \in 1 .. n : Append(q, e)[r] = q[r]
  OBVIOUS

LEMMA TickCollects ==
  ASSUME NEW items \in Watches, plan = Plan(items), Collected(items), clock \in 0 .. MaxNow,
         NEW fails \in Failures,
         frame' = [times |-> Append(frame.times, clock), fails |-> Append(frame.fails, fails),
                   rows |-> Append(frame.rows, Sampled(plan, LAMBDA a : Byte(a, clock), fails))]
  PROVE  Collected(items)'
  <1>1. PICK row \in RowsOf(items) : row = Row(Plan(items), clock, fails)
    BY DEF RowsOf
  <1>2. /\ frame'.times = Append(frame.times, clock) /\ frame'.fails = Append(frame.fails, fails)
        /\ frame'.rows = Append(frame.rows, row)
    BY <1>1 DEF Row
  <1>3. PICK n \in Nat : n = Len(frame.times) /\ n = Len(frame.fails) /\ n = Len(frame.rows)
    BY DEF Collected
  <1>4. /\ frame'.times \in Seq(0 .. MaxNow) /\ Len(frame'.times) = n + 1
        /\ frame'.times[n + 1] = clock /\ \A r \in 1 .. n : frame'.times[r] = frame.times[r]
    <2>1. PICK q \in Seq(0 .. MaxNow) : q = frame.times
      BY DEF Collected
    <2>2. n = Len(q)
      BY <1>3, <2>1
    <2>3. /\ Append(q, clock) \in Seq(0 .. MaxNow) /\ Len(Append(q, clock)) = n + 1
          /\ Append(q, clock)[n + 1] = clock /\ \A r \in 1 .. n : Append(q, clock)[r] = q[r]
      BY <2>2, AppendIs
    <2> QED
      BY <1>2, <2>1, <2>3
  <1>5. /\ frame'.fails \in Seq(Failures) /\ Len(frame'.fails) = n + 1
        /\ frame'.fails[n + 1] = fails /\ \A r \in 1 .. n : frame'.fails[r] = frame.fails[r]
    <2>1. PICK q \in Seq(Failures) : q = frame.fails
      BY DEF Collected
    <2>2. n = Len(q)
      BY <1>3, <2>1
    <2>3. /\ Append(q, fails) \in Seq(Failures) /\ Len(Append(q, fails)) = n + 1
          /\ Append(q, fails)[n + 1] = fails /\ \A r \in 1 .. n : Append(q, fails)[r] = q[r]
      BY <2>2, AppendIs
    <2> QED
      BY <1>2, <2>1, <2>3
  <1>6. /\ frame'.rows \in Seq(RowsOf(items)) /\ Len(frame'.rows) = n + 1
        /\ frame'.rows[n + 1] = row /\ \A r \in 1 .. n : frame'.rows[r] = frame.rows[r]
    <2>1. PICK q \in Seq(RowsOf(items)) : q = frame.rows
      BY DEF Collected
    <2>2. n = Len(q)
      BY <1>3, <2>1
    <2>3. /\ Append(q, row) \in Seq(RowsOf(items)) /\ Len(Append(q, row)) = n + 1
          /\ Append(q, row)[n + 1] = row /\ \A r \in 1 .. n : Append(q, row)[r] = q[r]
      BY <2>2, AppendIs
    <2> QED
      BY <1>2, <2>1, <2>3
  <1>7. \A r \in 1 .. n + 1 : frame'.rows[r] = Row(Plan(items), frame'.times[r], frame'.fails[r])
    <2> TAKE r \in 1 .. n + 1
    <2>0. r = n + 1 \/ r \in 1 .. n
      OBVIOUS
    <2>1. CASE r = n + 1
      BY <2>1, <1>1, <1>4, <1>5, <1>6
    <2>2. CASE r \in 1 .. n
      <3>1. frame.rows[r] = Row(Plan(items), frame.times[r], frame.fails[r])
        BY <2>2, <1>3 DEF Collected
      <3> QED
        BY <2>2, <3>1, <1>4, <1>5, <1>6
    <2> QED
      BY <2>0, <2>1, <2>2
  <1> QED
    BY <1>4, <1>5, <1>6, <1>7 DEF Collected

\* Whatever is watched, at whatever rate, and whatever cannot be read: each batch
\* that is sent is of one list of items and holds, for each of its times, the value
\* each item had in memory then, or no number where a region could not be read or
\* the item is no number (ReadPlan::with_limits, sample, decode; set_watches and
\* flush_frame in session.rs, FrameBuilder).
THEOREM BatchesTrue == SamplerSpec => []BatchTrue
  <1> DEFINE Inv == RowsTrue /\ BatchTrue
  <1>1. ASSUME NEW every \in Periods, SamplerInit(every) PROVE Inv
    <2>1. clock \in 0 .. MaxNow
      BY <1>1, SamplerAssumption DEF SamplerInit
    <2> QED
      BY <1>1, <2>1 DEF SamplerInit, RowsTrue, BatchTrue, NoBatch
  <1>2. ASSUME Inv, [SamplerNext]_samplerVars PROVE Inv'
    <2>1. ASSUME NEW items \in Watches, SetWatches(items) PROVE Inv'
      <3>1. plan' = Plan(items) /\ clock' = clock /\ Flushed
        BY <2>1 DEF SetWatches
      <3>2. frame' = NoRows /\ BatchTrue'
        BY <1>2, <3>1, FlushTrue
      <3>3. Collected(items)'
        BY <3>2, NothingCollected
      <3> QED
        BY <1>2, <3>1, <3>2, <3>3 DEF RowsTrue
    <2>2. ASSUME NEW every \in Periods, SetRate(every) PROVE Inv'
      <3>1. /\ clock' = clock /\ plan' = plan /\ frame' = frame /\ batch' = batch
            /\ plan.items = <<>> => sampler' = <<>>
        BY <2>2 DEF SetRate, Restarted
      <3>2. plan = Unplanned => sampler' = <<>>
        BY <3>1 DEF Unplanned
      <3> QED
        BY <1>2, <3>1, <3>2 DEF RowsTrue, BatchTrue, Collected
    <2>3. ASSUME Tick PROVE Inv'
      <3>1. PICK fails \in Failures :
              /\ sampler # <<>>
              /\ frame' = [times |-> Append(frame.times, clock), fails |-> Append(frame.fails, fails),
                           rows |-> Append(frame.rows, Sampled(plan, LAMBDA a : Byte(a, clock), fails))]
              /\ clock' = clock /\ plan' = plan /\ batch' = batch
        BY <2>3 DEF Tick
      <3>2. PICK items \in Watches : plan = Plan(items) /\ Collected(items)
        BY <1>2, <3>1 DEF RowsTrue
      <3>3. Collected(items)'
        BY <1>2, <3>1, <3>2, TickCollects DEF RowsTrue
      <3> QED
        BY <1>2, <3>1, <3>2, <3>3 DEF RowsTrue, BatchTrue
    <2>4. ASSUME FrameTick PROVE Inv'
      <3>1. frame.times # <<>> /\ Flushed /\ clock' = clock /\ plan' = plan
        BY <2>4 DEF FrameTick
      <3>2. frame' = NoRows /\ BatchTrue'
        BY <1>2, <3>1, FlushTrue
      <3>3. PICK items \in Watches : plan = Plan(items)
        BY <1>2, <3>1 DEF RowsTrue, NoRows
      <3>4. Collected(items)'
        BY <3>2, NothingCollected
      <3> QED
        BY <1>2, <3>1, <3>2, <3>3, <3>4 DEF RowsTrue
    <2>5. ASSUME Pass PROVE Inv'
      <3>1. /\ clock < MaxNow /\ clock' = clock + 1
            /\ plan' = plan /\ sampler' = sampler /\ frame' = frame /\ batch' = batch
        BY <2>5 DEF Pass
      <3>2. clock' \in 0 .. MaxNow
        BY <1>2, <3>1, SamplerAssumption DEF RowsTrue
      <3> QED
        BY <1>2, <3>1, <3>2 DEF RowsTrue, BatchTrue, Collected
    <2>6. ASSUME UNCHANGED samplerVars PROVE Inv'
      BY <1>2, <2>6 DEF samplerVars, RowsTrue, BatchTrue, Collected
    <2> QED
      BY <1>2, <2>1, <2>2, <2>3, <2>4, <2>5, <2>6 DEF SamplerNext, Watch, Rate
  <1>3. (\E every \in Periods : SamplerInit(every)) => Inv
    BY <1>1
  <1>4. Inv => BatchTrue
    OBVIOUS
  <1> HIDE DEF Inv
  <1> QED
    BY <1>2, <1>3, <1>4, PTL DEF SamplerSpec
==============================================================================
