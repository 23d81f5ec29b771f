---------------------------- MODULE RttRingProofs ----------------------------
(***************************************************************************)
(* The ring stays in order for every size, every buffer length and any     *)
(* number of bytes and resets: TypeOK, InOrder, PendingIntact and          *)
(* InsideBuffer of RttRing hold in every reachable state.                  *)
(***************************************************************************)
EXTENDS RttRing, TLAPS

------------------------------------------------------------------------------
(* The inductive invariant *)

\* What either end loaded and computed, sound offsets or not.
Local ==
  /\ live => wr < Size /\ rd < Size
  /\ ~live => (IF host = "reader" THEN wpc ELSE rpc) = "idle"
  /\ wpc # "idle" => 1 <= wLen /\ wLen <= Free(wWr, wRd)
  /\ wpc = "rest" => FirstLen(wWr, wLen) < wLen
  /\ rpc # "idle" => rWr # rRd
  /\ rpc = "head" =>
       /\ rWr < rRd /\ 0 < rWr
       /\ Len(rBuf) = Size - rRd /\ Len(rBuf) < BufLen
  /\ rpc = "commit" =>
       1 <= Len(rBuf) /\ Len(rBuf) <= Used(rWr, rRd) /\ Len(rBuf) <= BufLen

\* Until a host write that outlived a reset is done, nobody has moved the
\* fresh offsets, so what it does to the buffer covers nothing pending.
StaleWriter ==
  live /\ Tears("writer") => wr = 0 /\ rd = 0 /\ rpc = "idle" /\ ~torn

\* The bytes a write in this life of the firmware has stored so far.
Stored ==
  live /\ wpc # "idle" /\ ~Tears("writer") =>
    /\ wWr = wr
    /\ wpc # "first" =>
         \A j \in 0 .. FirstLen(wWr, wLen) - 1 : mem[wWr + j] = wseq + 1 + j
    /\ wpc = "commit" =>
         \A j \in 0 .. wLen - 1 : mem[Wrap(wWr + j)] = wseq + 1 + j

\* A read whose offsets the writer respects.
Sound == live /\ rpc # "idle" /\ ~Tears("reader") /\ (fresh \/ ~torn)

\* The reader has only freed room since the writer looked.
Room ==
  live /\ wpc # "idle" /\ ~Tears("writer") /\ (~torn \/ Sound) =>
    Used(wr, rd) <= Used(wr, wRd)

\* Between the offset the reader loaded and the write offset lie exactly the
\* bytes pushed since.
Since ==
  Sound =>
    /\ rRd = rd
    /\ Used(rWr, rd) + Used(wr, rWr) = Used(wr, rd)
    /\ wseq - seen = Used(wr, rWr)
    /\ \A k \in 0 .. Used(wr, rWr) - 1 : mem[Wrap(rWr + k)] = seen + 1 + k

\* What a read in step has copied so far.
Copied ==
  Sound /\ ~torn /\ rpc \in {"head", "commit"} =>
    \A k \in 1 .. Len(rBuf) : rBuf[k] = rseq + k

IInv ==
  /\ TypeOK /\ Local /\ StaleWriter /\ Stored /\ Room /\ Since /\ Copied
  /\ PendingIntact
------------------------------------------------------------------------------
(* One lemma per action *)

LEMMA InitIInv == Init => IInv
  BY RingAssumption DEF Init, IInv, TypeOK, Local, StaleWriter, Stored, Room, Sound,
     Since, Copied, PendingIntact, Used, Slots, Offsets, Tears

LEMMA WriteLoadIInv ==
  ASSUME IInv, NEW n \in 1 .. Size, WriteLoad(n)
  PROVE  IInv'
  <1> USE RingAssumption DEF WriteLoad, rvars, IInv, Slots, InRange
  <1>1. TypeOK'
    BY DEF TypeOK, Offsets
  <1>2. Local'
    BY DEF Local, TypeOK, Runs
  <1>3. StaleWriter'
    BY DEF StaleWriter, Tears, Empty
  <1>4. Stored'
    BY DEF Stored, Tears, StaleWriter, TypeOK
  <1>5. Room'
    BY DEF Room, Sound, Used, Tears, TypeOK, Empty, Offsets
  <1>6. Since'
    BY DEF Since, Sound, Tears, TypeOK, Empty
  <1>7. Copied'
    BY DEF Copied, Sound, Tears, TypeOK, Empty
  <1>8. PendingIntact'
    BY DEF PendingIntact, Used, Empty, TypeOK
  <1> QED
    BY <1>1, <1>2, <1>3, <1>4, <1>5, <1>6, <1>7, <1>8

LEMMA WriteFirstIInv ==
  ASSUME IInv, WriteFirst
  PROVE  IInv'
  <1> USE RingAssumption DEF WriteFirst, rvars, wvars, ghost, IInv, Slots, InRange
  <1>1. TypeOK'
    BY DEF TypeOK, Offsets, Wrap, Local, Used, TailLen, AtMost, NextRd
  <1>2. Local'
    BY DEF Local, TypeOK, Offsets, Runs, Used, Free, FirstLen, TailLen, AtMost, Wrap, NextRd
  <1>3. StaleWriter'
    BY DEF StaleWriter, Tears, TypeOK, Local
  <1>4. Stored'
    <2> DEFINE k == FirstLen(wWr, wLen)
    <2>1. k \in 1 .. wLen /\ wWr + k <= Size
      BY DEF TypeOK, Local, FirstLen, Free
    <2>2. \A j \in 0 .. k - 1 : mem'[wWr + j] = wseq + 1 + j
      BY <2>1 DEF TypeOK
    <2>3. wpc' = "commit" => k = wLen
      BY <2>1 DEF TypeOK
    <2>4. \A j \in 0 .. k - 1 : Wrap(wWr + j) = wWr + j
      BY <2>1 DEF TypeOK, Wrap
    <2> QED
      BY <2>2, <2>3, <2>4 DEF Stored, Tears
  <1>5. Room'
    BY DEF Room, Sound, Used, Tears, TypeOK, Offsets, Local, StaleWriter
  <1>6. Since'
    <2> DEFINE k == FirstLen(wWr, wLen)
    <2> SUFFICES ASSUME Sound PROVE
          \A j \in 0 .. Used(wr, rWr) - 1 : mem'[Wrap(rWr + j)] = mem[Wrap(rWr + j)]
      BY DEF Since, Sound, Tears
    <2>1. CASE Tears("writer")
      BY <2>1 DEF StaleWriter, Sound
    <2>2. CASE ~Tears("writer")
      <3>1. wWr = wr /\ Used(wr, rd) <= Used(wr, wRd)
        BY <2>2 DEF Stored, Room, Sound
      <3>2. \A j \in 0 .. Used(wr, rWr) - 1 :
              /\ Wrap(rWr + j) \in Slots
              /\ ~(wWr <= Wrap(rWr + j) /\ Wrap(rWr + j) < wWr + k)
        BY <3>1 DEF Since, Sound, TypeOK, Local, Used, Free, FirstLen, Wrap, Offsets
      <3> QED
        BY <3>2
    <2> QED
      BY <2>1, <2>2
  <1>7. Copied'
    BY DEF Copied, Sound, Used, Tears, TypeOK, Offsets, Local, Since, Wrap
  <1>8. PendingIntact'
    <2> DEFINE k == FirstLen(wWr, wLen)
    <2> SUFFICES ASSUME live, ~torn PROVE
          \A j \in 0 .. Used(wr, rd) - 1 : mem'[Wrap(rd + j)] = mem[Wrap(rd + j)]
      BY DEF PendingIntact
    <2>1. CASE Tears("writer")
      BY <2>1 DEF StaleWriter, Used
    <2>2. CASE ~Tears("writer")
      <3>1. wWr = wr /\ Used(wr, rd) <= Used(wr, wRd)
        BY <2>2 DEF Stored, Room
      <3>2. \A j \in 0 .. Used(wr, rd) - 1 :
              /\ Wrap(rd + j) \in Slots
              /\ ~(wWr <= Wrap(rd + j) /\ Wrap(rd + j) < wWr + k)
        BY <3>1 DEF TypeOK, Local, Used, Free, FirstLen, Wrap, Offsets
      <3> QED
        BY <3>2
    <2> QED
      BY <2>1, <2>2
  <1> QED
    BY <1>1, <1>2, <1>3, <1>4, <1>5, <1>6, <1>7, <1>8

LEMMA WriteRestIInv ==
  ASSUME IInv, WriteRest
  PROVE  IInv'
  <1> USE RingAssumption DEF WriteRest, rvars, wvars, ghost, IInv, Slots, InRange
  <1>1. TypeOK'
    BY DEF TypeOK, FirstLen
  <1>2. Local'
    BY DEF Local, TypeOK, Offsets, Runs, Used, Free, FirstLen, TailLen, AtMost, Wrap, NextRd
  <1>3. StaleWriter'
    BY DEF StaleWriter, Tears, TypeOK, Local
  <1>4. Stored'
    <2> DEFINE k == FirstLen(wWr, wLen)
    <2> SUFFICES ASSUME live, ~Tears("writer")
                 PROVE  \A j \in 0 .. wLen - 1 : mem'[Wrap(wWr + j)] = wseq + 1 + j
      <3>1. k \in Nat /\ wLen \in Nat /\ k < wLen /\ \A j \in 0 .. k - 1 : wWr + j = Wrap(wWr + j)
        BY DEF TypeOK, Local, FirstLen, Wrap
      <3>2. ASSUME live, ~Tears("writer")
            PROVE  /\ \A j \in 0 .. wLen - 1 : mem'[Wrap(wWr + j)] = wseq + 1 + j
                   /\ \A j \in 0 .. k - 1 : mem'[wWr + j] = wseq + 1 + j
        <4> HIDE DEF k, IInv, WriteRest
        <4> QED
          BY <3>1, <3>2
      <3> QED
        BY <3>2 DEF Stored, Tears
    <2>1. k = Size - wWr /\ k < wLen /\ wLen - k < wWr
      BY DEF TypeOK, Local, FirstLen, Free
    <2>2. \A j \in 0 .. k - 1 : mem[wWr + j] = wseq + 1 + j
      BY DEF Stored
    <2>3. \A j \in 0 .. k - 1 : Wrap(wWr + j) = wWr + j /\ mem'[wWr + j] = mem[wWr + j]
      BY <2>1 DEF TypeOK, Wrap
    <2>4. \A j \in k .. wLen - 1 : Wrap(wWr + j) = j - k /\ mem'[j - k] = wseq + 1 + j
      BY <2>1 DEF TypeOK, Wrap
    <2>5. wLen \in Nat /\ k \in Nat /\ wseq \in Nat
      BY <2>1 DEF TypeOK
    <2> HIDE DEF k, IInv, WriteRest
    <2> QED
      BY <2>2, <2>3, <2>4, <2>5
  <1>5. Room'
    BY DEF Room, Sound, Used, Tears, TypeOK, Offsets, Local, StaleWriter
  <1>6. Since'
    <2> DEFINE k == FirstLen(wWr, wLen)
    <2> SUFFICES ASSUME Sound PROVE
          \A j \in 0 .. Used(wr, rWr) - 1 : mem'[Wrap(rWr + j)] = mem[Wrap(rWr + j)]
      BY DEF Since, Sound, Tears
    <2>1. CASE Tears("writer")
      BY <2>1 DEF StaleWriter, Sound
    <2>2. CASE ~Tears("writer")
      <3>1. wWr = wr /\ Used(wr, rd) <= Used(wr, wRd)
        BY <2>2 DEF Stored, Room, Sound
      <3>2. \A j \in 0 .. Used(wr, rWr) - 1 :
              Wrap(rWr + j) \in Slots /\ ~(Wrap(rWr + j) < wLen - k)
        BY <3>1 DEF Since, Sound, TypeOK, Local, Used, Free, FirstLen, Wrap, Offsets
      <3> QED
        BY <3>2
    <2> QED
      BY <2>1, <2>2
  <1>7. Copied'
    BY DEF Copied, Sound, Used, Tears, TypeOK, Offsets, Local, Since, Wrap
  <1>8. PendingIntact'
    <2> DEFINE k == FirstLen(wWr, wLen)
    <2> SUFFICES ASSUME live, ~torn PROVE
          \A j \in 0 .. Used(wr, rd) - 1 : mem'[Wrap(rd + j)] = mem[Wrap(rd + j)]
      BY DEF PendingIntact
    <2>1. CASE Tears("writer")
      BY <2>1 DEF StaleWriter, Used
    <2>2. CASE ~Tears("writer")
      <3>1. wWr = wr /\ Used(wr, rd) <= Used(wr, wRd)
        BY <2>2 DEF Stored, Room
      <3>2. \A j \in 0 .. Used(wr, rd) - 1 :
              Wrap(rd + j) \in Slots /\ ~(Wrap(rd + j) < wLen - k)
        BY <3>1 DEF TypeOK, Local, Used, Free, FirstLen, Wrap, Offsets
      <3> QED
        BY <3>2
    <2> QED
      BY <2>1, <2>2
  <1> QED
    BY <1>1, <1>2, <1>3, <1>4, <1>5, <1>6, <1>7, <1>8

LEMMA WriteCommitIInv ==
  ASSUME IInv, WriteCommit
  PROVE  IInv'
  <1> USE RingAssumption DEF WriteCommit, rvars, wvars, ghost, IInv, Slots, InRange
  <1>1. TypeOK'
    BY DEF TypeOK, Offsets, Wrap, Local, Used, TailLen, AtMost, NextRd
  <1>2. Local'
    BY DEF Local, TypeOK, Offsets, Runs, Used, Free, FirstLen, TailLen, AtMost, Wrap, NextRd
  <1>3. StaleWriter'
    BY DEF StaleWriter, Tears, TypeOK, Local
  <1>4. Stored'
    BY DEF Stored, Tears, StaleWriter, TypeOK, Local, FirstLen, Wrap, Offsets
  <1>5. Room'
    BY DEF Room, Sound, Used, Tears, TypeOK, Offsets, Local, StaleWriter
  <1>6. Since'
    <2> SUFFICES ASSUME Sound' PROVE Since'
      BY DEF Since
    <2>1. ~Tears("writer") /\ Sound
      BY DEF Sound, Tears, StaleWriter
    <2>2. wWr = wr /\ Used(wr, rd) <= Used(wr, wRd)
      BY <2>1 DEF Stored, Room, Sound
    <2>3. /\ Used(wr', rWr) = Used(wr, rWr) + wLen
          /\ Used(wr', rd) = Used(wr, rd) + wLen
      BY <2>1, <2>2 DEF Since, Sound, TypeOK, Local, Used, Free, Wrap, Offsets
    <2>4. \A j \in 0 .. Used(wr, rWr) - 1 : mem[Wrap(rWr + j)] = seen + 1 + j
      BY <2>1 DEF Since
    <2>5. \A j \in 0 .. wLen - 1 : mem[Wrap(wr + j)] = wseq + 1 + j
      BY <2>1, <2>2 DEF Stored, Sound
    <2>6. \A j \in Used(wr, rWr) .. Used(wr, rWr) + wLen - 1 :
            /\ j - Used(wr, rWr) \in 0 .. wLen - 1
            /\ Wrap(rWr + j) = Wrap(wr + (j - Used(wr, rWr)))
      BY <2>1, <2>2 DEF Since, Sound, TypeOK, Local, Used, Free, Wrap, Offsets
    <2>7. wseq - seen = Used(wr, rWr) /\ Used(wr, rWr) \in Nat
      BY <2>1 DEF Since, Sound, TypeOK, Local, Used, Offsets
    <2>8. \A j \in 0 .. Used(wr, rWr) + wLen - 1 : mem[Wrap(rWr + j)] = seen + 1 + j
      <3>1. wLen \in Nat /\ seen \in Nat /\ wseq \in Nat
        BY DEF TypeOK
      <3> HIDE DEF IInv, WriteCommit
      <3> QED
        BY <2>4, <2>5, <2>6, <2>7, <3>1
    <2>9. rRd = rd /\ Used(rWr, rd) + Used(wr, rWr) = Used(wr, rd)
      BY <2>1 DEF Since
    <2>10. /\ Used(rWr, rd) + Used(wr', rWr) = Used(wr', rd)
           /\ wseq' - seen = Used(wr', rWr)
      <3>1. wLen \in Nat /\ seen \in Nat /\ wseq \in Nat /\ Used(rWr, rd) \in Int
        BY DEF TypeOK, Used, Offsets
      <3>2. wseq' = wseq + wLen
        OBVIOUS
      <3> HIDE DEF IInv, WriteCommit
      <3> QED
        BY <2>3, <2>7, <2>9, <3>1, <3>2
    <2>11. mem' = mem /\ rd' = rd /\ rRd' = rRd /\ rWr' = rWr /\ seen' = seen
      OBVIOUS
    <2>14. wLen \in Nat
      BY DEF TypeOK
    <2> HIDE DEF IInv, WriteCommit
    <2>12. \A j \in 0 .. Used(wr', rWr') - 1 : mem'[Wrap(rWr' + j)] = seen' + 1 + j
      <3>1. Used(wr', rWr') = Used(wr, rWr) + wLen
        BY <2>3, <2>11
      <3>2. \A j \in 0 .. Used(wr, rWr) + wLen - 1 : mem'[Wrap(rWr' + j)] = seen' + 1 + j
        BY <2>8, <2>11
      <3> QED
        BY <2>7, <2>14, <3>1, <3>2
    <2>13. /\ rRd' = rd' /\ Used(rWr', rd') + Used(wr', rWr') = Used(wr', rd')
           /\ wseq' - seen' = Used(wr', rWr')
      BY <2>9, <2>10, <2>11
    <2> QED
      BY <2>12, <2>13 DEF Since
  <1>7. Copied'
    BY DEF Copied, Sound, Used, Tears, TypeOK, Offsets, Local, Since, Wrap
  <1>8. PendingIntact'
    <2> SUFFICES ASSUME live, ~torn, ~Tears("writer") PROVE PendingIntact'
      BY DEF PendingIntact
    <2>2. wWr = wr /\ Used(wr, rd) <= Used(wr, wRd)
      BY DEF Stored, Room
    <2>3. Used(wr', rd) = Used(wr, rd) + wLen
      BY <2>2 DEF TypeOK, Local, Used, Free, Wrap, Offsets
    <2>4. /\ wseq - rseq = Used(wr, rd) /\ Used(wr, rd) \in Nat
          /\ \A j \in 0 .. Used(wr, rd) - 1 : mem[Wrap(rd + j)] = rseq + 1 + j
      <3>1. Used(wr, rd) \in Nat
        BY DEF TypeOK, Used, Offsets, Local
      <3> QED
        BY <3>1 DEF PendingIntact
    <2>5. \A j \in 0 .. wLen - 1 : mem[Wrap(wr + j)] = wseq + 1 + j
      BY <2>2 DEF Stored
    <2>6. \A j \in Used(wr, rd) .. Used(wr, rd) + wLen - 1 :
            /\ j - Used(wr, rd) \in 0 .. wLen - 1
            /\ Wrap(rd + j) = Wrap(wr + (j - Used(wr, rd)))
      BY <2>2 DEF TypeOK, Local, Used, Free, Wrap, Offsets
    <2>7. \A j \in 0 .. Used(wr, rd) + wLen - 1 : mem[Wrap(rd + j)] = rseq + 1 + j
      <3>1. wLen \in Nat /\ rseq \in Nat /\ wseq \in Nat
        BY DEF TypeOK
      <3> HIDE DEF IInv, WriteCommit
      <3> QED
        BY <2>4, <2>5, <2>6, <3>1
    <2> QED
      BY <2>3, <2>4, <2>7 DEF PendingIntact, TypeOK
  <1> QED
    BY <1>1, <1>2, <1>3, <1>4, <1>5, <1>6, <1>7, <1>8

LEMMA ReadLoadIInv ==
  ASSUME IInv, ReadLoad
  PROVE  IInv'
  <1> USE RingAssumption DEF ReadLoad, rvars, wvars, ghost, IInv, Slots, InRange
  <1>1. TypeOK'
    BY DEF TypeOK, Offsets, Wrap, Local, Used, TailLen, AtMost, NextRd
  <1>2. Local'
    BY DEF Local, TypeOK, Offsets, Runs, Used, Free, FirstLen, TailLen, AtMost, Wrap, NextRd
  <1>3. StaleWriter'
    BY DEF StaleWriter, Tears, TypeOK, Local
  <1>4. Stored'
    BY DEF Stored, Tears, StaleWriter, TypeOK, Local, FirstLen, Wrap, Offsets
  <1>5. Room'
    BY DEF Room, Sound, Used, Tears, TypeOK, Offsets, Local, StaleWriter
  <1>6. Since'
    BY DEF Since, Sound, Used, Tears, TypeOK, Offsets, Local, StaleWriter, Room, Wrap, PendingIntact
  <1>7. Copied'
    BY DEF Copied, Sound, Used, Tears, TypeOK, Offsets, Local, Since, Wrap
  <1>8. PendingIntact'
    BY DEF PendingIntact, Used, Wrap, TypeOK, Offsets, Stored, Room, Local, StaleWriter, Tears
  <1> QED
    BY <1>1, <1>2, <1>3, <1>4, <1>5, <1>6, <1>7, <1>8

LEMMA ReadTailIInv ==
  ASSUME IInv, ReadTail
  PROVE  IInv'
  <1> USE RingAssumption DEF ReadTail, rvars, wvars, ghost, IInv, Slots, InRange
  <1>1. TypeOK'
    BY DEF TypeOK, Offsets, Wrap, Local, Used, TailLen, AtMost, NextRd
  <1>2. Local'
    BY DEF Local, TypeOK, Offsets, Runs, Used, Free, FirstLen, TailLen, AtMost, Wrap, NextRd
  <1>3. StaleWriter'
    BY DEF StaleWriter, Tears, TypeOK, Local
  <1>4. Stored'
    BY DEF Stored, Tears, StaleWriter, TypeOK, Local, FirstLen, Wrap, Offsets
  <1>5. Room'
    BY DEF Room, Sound, Used, Tears, TypeOK, Offsets, Local, StaleWriter
  <1>6. Since'
    BY DEF Since, Sound, Used, Tears, TypeOK, Offsets, Local, StaleWriter, Room, Wrap, PendingIntact
  <1>7. Copied'
    <2> DEFINE len == AtMost(TailLen(rWr, rRd), BufLen)
    <2> SUFFICES ASSUME Sound, ~torn
                 PROVE  \A k \in 1 .. Len(rBuf') : rBuf'[k] = rseq + k
      BY DEF Copied, Sound, Tears
    <2>1. rRd = rd /\ len \in Nat /\ len <= Used(rWr, rd) /\ Used(rWr, rd) <= Used(wr, rd)
      BY DEF Since, TypeOK, Local, Sound, Used, TailLen, AtMost, Offsets
    <2>2. \A k \in 0 .. len - 1 : rd + k = Wrap(rd + k) /\ k \in 0 .. Used(wr, rd) - 1
      BY <2>1 DEF TypeOK, Wrap, TailLen, AtMost, Local, Used, Offsets
    <2>3. \A k \in 0 .. len - 1 : mem[rd + k] = rseq + 1 + k
      BY <2>2 DEF PendingIntact, Sound
    <2>4. Len(rBuf') = len /\ \A k \in 1 .. len : rBuf'[k] = mem[rd + (k - 1)]
      BY <2>1 DEF TypeOK, Offsets
    <2>5. rseq \in Nat
      BY DEF TypeOK
    <2> HIDE DEF len, IInv, ReadTail
    <2>6. \A k \in 1 .. len : k - 1 \in 0 .. len - 1 /\ rseq + 1 + (k - 1) = rseq + k
      BY <2>1, <2>5
    <2>7. \A k \in 1 .. len : mem[rd + (k - 1)] = rseq + k
      BY <2>3, <2>6
    <2> QED
      BY <2>4, <2>7
  <1>8. PendingIntact'
    BY DEF PendingIntact, Used, Wrap, TypeOK, Offsets, Stored, Room, Local, StaleWriter, Tears
  <1> QED
    BY <1>1, <1>2, <1>3, <1>4, <1>5, <1>6, <1>7, <1>8

LEMMA ReadHeadIInv ==
  ASSUME IInv, ReadHead
  PROVE  IInv'
  <1> USE RingAssumption DEF ReadHead, rvars, wvars, ghost, IInv, Slots, InRange
  <1>1. TypeOK'
    <2> DEFINE head == AtMost(rWr, BufLen - Len(rBuf))
    <2>1. Len(rBuf) \in Nat /\ head \in Nat /\ head <= rWr
      BY DEF TypeOK, Local, AtMost
    <2>2. \A k \in 1 .. Len(rBuf) + head :
            (IF k <= Len(rBuf) THEN rBuf[k] ELSE mem[k - Len(rBuf) - 1]) \in Nat
      BY <2>1 DEF TypeOK
    <2>3. rBuf' = [k \in 1 .. Len(rBuf) + head |->
                     IF k <= Len(rBuf) THEN rBuf[k] ELSE mem[k - Len(rBuf) - 1]]
      OBVIOUS
    <2>4. rBuf' \in Seq(Nat)
      <3> HIDE DEF head, IInv, ReadHead
      <3> QED
        BY <2>1, <2>2, <2>3
    <2> QED
      BY <2>4 DEF TypeOK
  <1>2. Local'
    <2>1. /\ Len(rBuf) \in Nat /\ Len(rBuf) = Size - rRd /\ Len(rBuf) < BufLen
          /\ rWr < rRd /\ 0 < rWr /\ rpc = "head"
      BY DEF Local, TypeOK
    <2>2. rBuf' = [k \in 1 .. Len(rBuf) + AtMost(rWr, BufLen - Len(rBuf)) |->
                     IF k <= Len(rBuf) THEN rBuf[k] ELSE mem[k - Len(rBuf) - 1]]
      OBVIOUS
    <2>3. AtMost(rWr, BufLen - Len(rBuf)) \in Nat
      BY <2>1 DEF AtMost, TypeOK
    <2>4. Len(rBuf') = Len(rBuf) + AtMost(rWr, BufLen - Len(rBuf))
      <3> HIDE DEF IInv, ReadHead
      <3> QED
        BY <2>1, <2>2, <2>3
    <2>5. 1 <= Len(rBuf') /\ Len(rBuf') <= Used(rWr, rRd) /\ Len(rBuf') <= BufLen
      BY <2>1, <2>3, <2>4 DEF AtMost, Used, TypeOK
    <2>6. /\ wr' = wr /\ rd' = rd /\ live' = live /\ host' = host
          /\ wpc' = wpc /\ wWr' = wWr /\ wRd' = wRd /\ wLen' = wLen
          /\ rWr' = rWr /\ rRd' = rRd /\ rpc = "head" /\ rpc' = "commit"
      BY DEF ReadHead
    <2>7. Local
      OBVIOUS
    <2> HIDE DEF IInv, ReadHead, Slots, InRange
    <2> QED
      BY <2>5, <2>6, <2>7 DEF Local, Used, Free, FirstLen
  <1>3. StaleWriter'
    BY DEF StaleWriter, Tears, TypeOK, Local
  <1>4. Stored'
    BY DEF Stored, Tears, StaleWriter, TypeOK, Local, FirstLen, Wrap, Offsets
  <1>5. Room'
    BY DEF Room, Sound, Used, Tears, TypeOK, Offsets, Local, StaleWriter
  <1>6. Since'
    BY DEF Since, Sound, Used, Tears, TypeOK, Offsets, Local, StaleWriter, Room, Wrap, PendingIntact
  <1>7. Copied'
    <2> DEFINE len == Len(rBuf)
               head == AtMost(rWr, BufLen - len)
    <2> SUFFICES ASSUME Sound, ~torn
                 PROVE  \A k \in 1 .. Len(rBuf') : rBuf'[k] = rseq + k
      BY DEF Copied, Sound, Tears
    <2>0. /\ Len(rBuf) \in Nat /\ rWr \in Nat /\ rd \in Nat /\ wr \in Nat /\ rseq \in Nat
          /\ wr < Size /\ rd < Size /\ rWr < rRd
      BY DEF TypeOK, Local, Sound, Offsets
    <2>1. /\ rRd = rd /\ len = Size - rd /\ head \in Nat
          /\ head <= rWr /\ rWr + len <= Used(wr, rd)
      <3>1. rRd = rd /\ Used(rWr, rd) + Used(wr, rWr) = Used(wr, rd)
        BY DEF Since
      <3>2. len = Size - rRd /\ len < BufLen
        BY DEF Local
      <3> HIDE DEF IInv, ReadHead
      <3> QED
        BY <2>0, <3>1, <3>2 DEF AtMost, Used
    <2>2. \A k \in 0 .. head - 1 : k = Wrap(rd + (len + k)) /\ len + k \in 0 .. Used(wr, rd) - 1
      <3> HIDE DEF head, len, IInv, ReadHead
      <3> QED
        BY <2>0, <2>1 DEF Wrap, Used
    <2>3. \A k \in 0 .. head - 1 : mem[k] = rseq + 1 + (len + k)
      BY <2>2 DEF PendingIntact, Sound
    <2>4. \A k \in 1 .. len : rBuf[k] = rseq + k
      BY DEF Copied
    <2>5. /\ Len(rBuf') = len + head
          /\ \A k \in 1 .. len + head :
               rBuf'[k] = IF k <= len THEN rBuf[k] ELSE mem[k - len - 1]
      <3>1. rBuf' = [k \in 1 .. len + head |-> IF k <= len THEN rBuf[k] ELSE mem[k - len - 1]]
        OBVIOUS
      <3> HIDE DEF head, IInv, ReadHead
      <3> QED
        BY <2>0, <2>1, <3>1
    <2> HIDE DEF head, len, IInv, ReadHead
    <2>6. len \in Nat
      BY <2>0 DEF len
    <2> QED
      BY <2>0, <2>1, <2>3, <2>4, <2>5, <2>6
  <1>8. PendingIntact'
    BY DEF PendingIntact, Used, Wrap, TypeOK, Offsets, Stored, Room, Local, StaleWriter, Tears
  <1> QED
    BY <1>1, <1>2, <1>3, <1>4, <1>5, <1>6, <1>7, <1>8

\* Consuming what was read moves the read offset towards the write offset.
LEMMA ReadAdvances ==
  ASSUME TypeOK, Local, live, rpc = "commit", rRd = rd,
         Used(rWr, rd) + Used(wr, rWr) = Used(wr, rd)
  PROVE  /\ Used(wr, rd) \in Nat /\ Used(wr, NextRd) \in Nat
         /\ Used(wr, NextRd) = Used(wr, rd) - Len(rBuf)
         /\ \A j \in 0 .. Used(wr, NextRd) - 1 :
              Wrap(NextRd + j) = Wrap(rd + (Len(rBuf) + j))
  <1> DEFINE len == Len(rBuf)
  <1>1. /\ Size \in Nat /\ len \in Nat /\ 1 <= len /\ len <= Used(rWr, rd)
        /\ wr \in Nat /\ rd \in Nat /\ rWr \in Nat
        /\ wr < Size /\ rd < Size /\ rWr < Size
    BY RingAssumption DEF TypeOK, Local, Slots, Offsets
  <1>2. NextRd = IF rd + len < Size THEN rd + len ELSE rd + len - Size
    BY <1>1 DEF NextRd, Wrap
  <1> HIDE DEF len
  <1>3. /\ Used(wr, rd) \in Nat /\ Used(wr, NextRd) \in Nat
        /\ Used(wr, NextRd) = Used(wr, rd) - len
    BY <1>1, <1>2 DEF Used
  <1>4. ASSUME NEW j \in 0 .. Used(wr, NextRd) - 1
        PROVE  Wrap(NextRd + j) = Wrap(rd + (len + j))
    <2>1. j \in Nat /\ len + j < Used(wr, rd)
      BY <1>1, <1>3
    <2>2. len + j < Size
      BY <1>1, <2>1 DEF Used
    <2> QED
      BY <1>1, <1>2, <2>1, <2>2, <1>3 DEF Wrap, Used
  <1> QED
    BY <1>3, <1>4 DEF len

LEMMA ReadCommitIInv ==
  ASSUME IInv, ReadCommit
  PROVE  IInv'
  <1> USE RingAssumption DEF ReadCommit, rvars, wvars, ghost, IInv, Slots, InRange
  <1>1. TypeOK'
    <2>1. Len(rBuf) \in Nat /\ Len(rBuf) < Size
      BY DEF TypeOK, Local, Used
    <2>2. NextRd \in Slots
      BY <2>1 DEF TypeOK, NextRd, Wrap
    <2> QED
      BY <2>1, <2>2 DEF TypeOK, Offsets
  <1>2. Local'
    BY DEF Local, TypeOK, Offsets, Runs, Used, Free, FirstLen, TailLen, AtMost, Wrap, NextRd
  <1>3. StaleWriter'
    BY DEF StaleWriter, Tears, TypeOK, Local
  <1>4. Stored'
    BY DEF Stored, Tears, StaleWriter, TypeOK, Local, FirstLen, Wrap, Offsets
  <1>5. Room'
    <2> SUFFICES ASSUME live, wpc # "idle", ~Tears("writer"), ~torn'
                 PROVE  Used(wr, NextRd) <= Used(wr, wRd)
      BY DEF Room, Sound, Tears
    <2>1. ~Tears("reader") /\ Sound
      BY DEF Drains, Sound
    <2>2. rRd = rd /\ Used(rWr, rd) + Used(wr, rWr) = Used(wr, rd)
      BY <2>1 DEF Since
    <2>3. Used(wr, rd) <= Used(wr, wRd)
      BY <2>1 DEF Room
    <2>4. Used(wr, NextRd) = Used(wr, rd) - Len(rBuf) /\ Used(wr, rd) \in Nat
      BY <2>1, <2>2, ReadAdvances DEF Sound
    <2> QED
      BY <2>3, <2>4 DEF Used, TypeOK, Offsets, Local
  <1>6. Since'
    BY DEF Since, Sound, Used, Tears, TypeOK, Offsets, Local, StaleWriter, Room, Wrap, PendingIntact
  <1>7. Copied'
    BY DEF Copied, Sound, Used, Tears, TypeOK, Offsets, Local, Since, Wrap
  <1>8. PendingIntact'
    <2> DEFINE len == Len(rBuf)
    <2> SUFFICES ASSUME live, ~torn' PROVE PendingIntact'
      BY DEF PendingIntact
    <2>1. Sound
      BY DEF Drains, Sound
    <2>2. rRd = rd /\ Used(rWr, rd) + Used(wr, rWr) = Used(wr, rd)
      BY <2>1 DEF Since
    <2>3. CASE Drains
      BY <2>1, <2>3 DEF Since, Drains, PendingIntact
    <2>4. CASE ~Drains
      <3>1. ~torn /\ rseq' = rseq + len /\ len \in Nat
        BY <2>4 DEF TypeOK
      <3>2. /\ Used(wr, NextRd) = Used(wr, rd) - len
            /\ Used(wr, NextRd) \in Nat /\ Used(wr, rd) \in Nat
            /\ \A j \in 0 .. Used(wr, NextRd) - 1 : Wrap(NextRd + j) = Wrap(rd + (len + j))
        BY <2>1, <2>2, ReadAdvances DEF Sound
      <3>3. wseq \in Nat /\ rseq \in Nat
        BY DEF TypeOK
      <3>4. /\ wseq - rseq = Used(wr, rd)
            /\ \A j \in 0 .. Used(wr, rd) - 1 : mem[Wrap(rd + j)] = rseq + 1 + j
        BY <3>1 DEF PendingIntact
      <3>5. \A j \in 0 .. Used(wr, NextRd) - 1 : mem[Wrap(NextRd + j)] = rseq' + 1 + j
        <4> HIDE DEF len, IInv, ReadCommit
        <4> QED
          BY <3>1, <3>2, <3>3, <3>4
      <3>6. wseq - rseq' = Used(wr, NextRd)
        <4> HIDE DEF len, IInv, ReadCommit
        <4> QED
          BY <3>1, <3>2, <3>3, <3>4
      <3> QED
        BY <3>5, <3>6 DEF PendingIntact
    <2> QED
      BY <2>3, <2>4
  <1> QED
    BY <1>1, <1>2, <1>3, <1>4, <1>5, <1>6, <1>7, <1>8

LEMMA AttachIInv ==
  ASSUME IInv, Attach
  PROVE  IInv'
  <1> USE RingAssumption DEF Attach, rvars, wvars, ghost, IInv, Slots, InRange
  <1>1. TypeOK'
    BY DEF TypeOK, Offsets, Wrap, Local, Used, TailLen, AtMost, NextRd
  <1>2. Local'
    BY DEF Local, TypeOK, Offsets, Runs, Used, Free, FirstLen, TailLen, AtMost, Wrap, NextRd
  <1>3. StaleWriter'
    BY DEF StaleWriter, Tears, TypeOK, Local
  <1>4. Stored'
    BY DEF Stored, Tears, StaleWriter, TypeOK, Local, FirstLen, Wrap, Offsets
  <1>5. Room'
    BY DEF Room, Sound, Used, Tears, TypeOK, Offsets, Local, StaleWriter
  <1>6. Since'
    BY DEF Since, Sound, Used, Tears, TypeOK, Offsets, Local, StaleWriter, Room, Wrap, PendingIntact
  <1>7. Copied'
    BY DEF Copied, Sound, Used, Tears, TypeOK, Offsets, Local, Since, Wrap
  <1>8. PendingIntact'
    BY DEF PendingIntact, Used, Wrap, TypeOK, Offsets, Stored, Room, Local, StaleWriter, Tears
  <1> QED
    BY <1>1, <1>2, <1>3, <1>4, <1>5, <1>6, <1>7, <1>8

LEMMA HostFailsIInv ==
  ASSUME IInv, HostFails
  PROVE  IInv'
  <1> USE RingAssumption DEF HostFails, rvars, wvars, ghost, IInv, Slots, InRange
  <1>1. TypeOK'
    BY DEF TypeOK, Offsets, Wrap, Local, Used, TailLen, AtMost, NextRd
  <1>2. Local'
    BY DEF Local, TypeOK, Offsets, Runs, Used, Free, FirstLen, TailLen, AtMost, Wrap, NextRd
  <1>3. StaleWriter'
    BY DEF StaleWriter, Tears, TypeOK, Local
  <1>4. Stored'
    BY DEF Stored, Tears, StaleWriter, TypeOK, Local, FirstLen, Wrap, Offsets
  <1>5. Room'
    BY DEF Room, Sound, Used, Tears, TypeOK, Offsets, Local, StaleWriter
  <1>6. Since'
    BY DEF Since, Sound, Used, Tears, TypeOK, Offsets, Local, StaleWriter, Room, Wrap, PendingIntact
  <1>7. Copied'
    BY DEF Copied, Sound, Used, Tears, TypeOK, Offsets, Local, Since, Wrap
  <1>8. PendingIntact'
    BY DEF PendingIntact, Used, Wrap, TypeOK, Offsets, Stored, Room, Local, StaleWriter, Tears
  <1> QED
    BY <1>1, <1>2, <1>3, <1>4, <1>5, <1>6, <1>7, <1>8

LEMMA ResetIInv ==
  ASSUME IInv, Reset
  PROVE  IInv'
  <1> USE RingAssumption DEF Reset, rvars, wvars, ghost, IInv, Slots, InRange
  <1>1. TypeOK'
    <2>1. wpc' \in {"idle", "first", "rest", "commit"} /\ rpc' \in {"idle", "tail", "head", "commit"}
      BY DEF TypeOK
    <2>2. UNCHANGED <<mem, attached, wWr, wRd, wLen, rWr, rRd, rBuf>>
      OBVIOUS
    <2>3. wr' \in Offsets /\ rd' \in Offsets
      OBVIOUS
    <2>4. live' \in BOOLEAN /\ torn' \in BOOLEAN /\ stale' \in BOOLEAN /\ fresh' \in BOOLEAN
      BY DEF TypeOK
    <2>5. wseq' \in Nat /\ rseq' \in Nat /\ seen' \in Nat /\ resets' \in Nat
      BY DEF TypeOK
    <2> QED
      BY <2>1, <2>2, <2>3, <2>4, <2>5 DEF TypeOK
  <1>2. Local'
    BY DEF Local, TypeOK, Offsets, Runs, Used, Free, FirstLen, TailLen, AtMost, Wrap, NextRd
  <1>3. StaleWriter'
    BY DEF StaleWriter, Tears, TypeOK, Local
  <1>4. Stored'
    BY DEF Stored, Tears, StaleWriter, TypeOK, Local, FirstLen, Wrap, Offsets
  <1>5. Room'
    BY DEF Room, Sound, Used, Tears, TypeOK, Offsets, Local, StaleWriter
  <1>6. Since'
    BY DEF Since, Sound, Used, Tears, TypeOK, Offsets, Local, StaleWriter, Room, Wrap, PendingIntact
  <1>7. Copied'
    BY DEF Copied, Sound, Used, Tears, TypeOK, Offsets, Local, Since, Wrap
  <1>8. PendingIntact'
    BY DEF PendingIntact, Used, Wrap, TypeOK, Offsets, Stored, Room, Local, StaleWriter, Tears
  <1> QED
    BY <1>1, <1>2, <1>3, <1>4, <1>5, <1>6, <1>7, <1>8

LEMMA FirmwareInitIInv ==
  ASSUME IInv, FirmwareInit
  PROVE  IInv'
  <1> USE RingAssumption DEF FirmwareInit, rvars, wvars, ghost, IInv, Slots, InRange
  <1>1. TypeOK'
    <2>1. /\ mem' \in [Slots -> Nat]
          /\ wr' \in Offsets /\ rd' \in Offsets
      BY DEF TypeOK, Offsets
    <2>2. live' \in BOOLEAN /\ attached' \in BOOLEAN
      BY DEF TypeOK
    <2>3. fresh' \in BOOLEAN /\ stale' \in BOOLEAN /\ torn' \in BOOLEAN
      BY DEF TypeOK
    <2>4. /\ wseq' \in Nat /\ rseq' \in Nat /\ seen' \in Nat
          /\ resets' \in Nat
      BY DEF TypeOK
    <2>5. UNCHANGED <<wvars, rvars>>
      OBVIOUS
    <2> QED
      BY <2>1, <2>2, <2>3, <2>4, <2>5 DEF TypeOK
  <1>2. Local'
    BY DEF Local, TypeOK, Offsets, Runs, Used, Free, FirstLen, TailLen, AtMost, Wrap, NextRd
  <1>3. StaleWriter'
    BY DEF StaleWriter, Tears, TypeOK, Local
  <1>4. Stored'
    BY DEF Stored, Tears, StaleWriter, TypeOK, Local, FirstLen, Wrap, Offsets
  <1>5. Room'
    BY DEF Room, Sound, Used, Tears, TypeOK, Offsets, Local, StaleWriter
  <1>6. Since'
    BY DEF Since, Sound, Used, Tears, TypeOK, Offsets, Local, StaleWriter, Room, Wrap, PendingIntact
  <1>7. Copied'
    BY DEF Copied, Sound, Used, Tears, TypeOK, Offsets, Local, Since, Wrap
  <1>8. PendingIntact'
    BY DEF PendingIntact, Used, Wrap, TypeOK, Offsets, Stored, Room, Local, StaleWriter, Tears
  <1> QED
    BY <1>1, <1>2, <1>3, <1>4, <1>5, <1>6, <1>7, <1>8

LEMMA LoadFailsIInv ==
  ASSUME IInv, NEW end \in {"reader", "writer"}, LoadFails(end)
  PROVE  IInv'
  <1>1. attached' \in BOOLEAN /\ UNCHANGED <<mem, wr, rd, live, wvars, rvars, ghost>>
    BY DEF LoadFails
  <1> QED
    BY <1>1 DEF IInv, TypeOK, Local, StaleWriter, Stored, Room, Since, Copied, Sound,
                PendingIntact, Tears, wvars, rvars, ghost

LEMMA StutterIInv ==
  ASSUME IInv, UNCHANGED vars
  PROVE  IInv'
  BY DEF vars, IInv, TypeOK, Local, StaleWriter, Stored, Room, Since, Copied, Sound,
         PendingIntact, Tears, wvars, rvars, ghost

\* Every step keeps the invariant.
LEMMA NextIInv == IInv /\ [Next]_vars => IInv'
  <1> SUFFICES ASSUME IInv, [Next]_vars PROVE IInv'
    OBVIOUS
  <1>1. CASE Write
    BY <1>1, WriteLoadIInv DEF Write
  <1>2. CASE WriteFirst \/ WriteRest \/ WriteCommit
    BY <1>2, WriteFirstIInv, WriteRestIInv, WriteCommitIInv
  <1>3. CASE ReadLoad \/ ReadTail \/ ReadHead \/ ReadCommit
    BY <1>3, ReadLoadIInv, ReadTailIInv, ReadHeadIInv, ReadCommitIInv
  <1>4. CASE LoadFails("writer") \/ LoadFails("reader")
    BY <1>4, LoadFailsIInv
  <1>5. CASE Attach \/ HostFails \/ Reset \/ FirmwareInit
    BY <1>5, AttachIInv, HostFailsIInv, ResetIInv, FirmwareInitIInv
  <1>6. CASE UNCHANGED vars
    BY <1>6, StutterIInv
  <1> QED
    BY <1>1, <1>2, <1>3, <1>4, <1>5, <1>6 DEF Next

LEMMA SpecIInv == Spec => []IInv
  BY InitIInv, NextIInv, PTL DEF Spec

------------------------------------------------------------------------------
(* Theorems *)

\* Every variable keeps its type, for every size of the ring and the buffer.
THEOREM TypeCorrect == Spec => []TypeOK
  <1>1. IInv => TypeOK
    BY DEF IInv
  <1> QED
    BY <1>1, SpecIInv, PTL

\* Ring::read hands over the next bytes pushed, in order, whatever resets,
\* probe errors and interleavings came before, once the ends are in step.
THEOREM ReadsInOrder == Spec => []InOrder
  <1>1. IInv => InOrder
    BY DEF IInv, Copied, Sound, InOrder
  <1> QED
    BY <1>1, SpecIInv, PTL

\* No write covers an unread byte and a full ring is not taken for an empty
\* one: the pending bytes are those pushed and not consumed.
THEOREM PendingKept == Spec => []PendingIntact
  <1>1. IInv => PendingIntact
    BY DEF IInv
  <1> QED
    BY <1>1, SpecIInv, PTL

\* The host touches no memory outside the buffer, whatever offsets it loads.
THEOREM AccessesInside == Spec => []InsideBuffer
  <1>1. ASSUME IInv PROVE InsideBuffer
    <2>1. /\ Size \in Nat /\ BufLen \in Nat /\ wWr \in Nat /\ wRd \in Nat /\ wLen \in Nat
          /\ rWr \in Nat /\ rRd \in Nat /\ Len(rBuf) \in Nat
          /\ wWr < Size /\ wRd < Size /\ rWr < Size /\ rRd < Size
      BY <1>1, RingAssumption DEF IInv, TypeOK, Slots
    <2>2. wpc \in {"first", "rest"} => wLen <= Free(wWr, wRd) /\ 1 <= wLen
      BY <1>1 DEF IInv, Local
    <2>3. rpc = "commit" =>
            1 <= Len(rBuf) /\ Len(rBuf) <= Used(rWr, rRd) /\ Len(rBuf) <= BufLen /\ rWr # rRd
      BY <1>1 DEF IInv, Local
    <2> QED
      BY <2>1, <2>2, <2>3 DEF InsideBuffer, FirstLen, Free, TailLen, AtMost, Used
  <1> QED
    BY <1>1, SpecIInv, PTL
==============================================================================
