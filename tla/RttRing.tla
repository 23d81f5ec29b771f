------------------------------- MODULE RttRing -------------------------------
(***************************************************************************)
(* One SEGGER RTT ring in the target's RAM, shared by a host that reaches  *)
(* it through the debug port and a firmware that runs on while it does.    *)
(*                                                                         *)
(* Every memory access of Ring::read and Ring::write is a step of its own, *)
(* so the other side may run between any two of them.  The host is the     *)
(* reader of an up ring and the writer of a down ring; the other end is    *)
(* the firmware's, which follows the same discipline (external code).  A   *)
(* probe error aborts the host's access, and the target may reset at any   *)
(* step: the firmware's half-done access dies, the host's goes on with the *)
(* offsets it loaded before.                                               *)
(*                                                                         *)
(* The bytes pushed through the ring are numbered 1, 2, 3, ..., so that a  *)
(* lost, repeated or stale byte shows.  wseq, rseq, seen, fresh, stale and *)
(* torn are history variables: they record what happened and guard no step *)
(* of the code.                                                            *)
(***************************************************************************)
EXTENDS Integers, Sequences

CONSTANTS
  Size,       \* the descriptor's SizeOfBuffer
  BufLen,     \* the length of the buffer the reader drains into
  MaxBytes,   \* bound on the bytes pushed
  MaxResets   \* bound on the resets of the target

ASSUME RingAssumption ==
  /\ Size \in Nat \ {0}
  /\ BufLen \in Nat \ {0}
  /\ MaxBytes \in Nat
  /\ MaxResets \in Nat

VARIABLES
  host,       \* the end the host plays: "reader" of an up, "writer" of a down ring
  mem,        \* the buffer's bytes
  wr, rd,     \* WrOff and RdOff
  live,       \* the firmware has initialised the control block
  attached,   \* the host holds the ring: rings.is_some(), State::Attached
  wpc, wWr, wRd, wLen,   \* the writer's next access, the offsets it loaded, its bytes
  rpc, rWr, rRd, rBuf,   \* the reader's next access, the offsets it loaded, its buffer
  wseq, rseq, \* bytes pushed and bytes consumed (history)
  seen,       \* wseq when the reader loaded its offsets (history)
  fresh,      \* the reader loaded offsets that no write loaded before a tear can pass (history)
  stale,      \* the host is inside an access it began before a reset (history)
  torn,       \* such an access has stored its offset since the ring was last in step (history)
  resets

ghost == <<wseq, rseq, seen, fresh, stale, torn, resets, host>>
wvars == <<wpc, wWr, wRd, wLen>>
rvars == <<rpc, rWr, rRd, rBuf>>
vars == <<mem, wr, rd, live, attached, wvars, rvars, ghost>>

Slots == 0 .. Size - 1

\* The words RAM may hold where an offset belongs: Size and Size + 1 stand
\* for all that are out of range.
Offsets == 0 .. Size + 1

\* Mutant: the offsets are not checked.
InRange_Unchecked(i) == TRUE

InRange(i) == i < Size

\* i % Size for the offsets below twice the size that the ring computes.
Wrap(i) == IF i < Size THEN i ELSE i - Size

\* Bytes between the read offset r and the write offset w.
Used(w, r) == IF w >= r THEN w - r ELSE Size - r + w

\* Mutant: the ring may fill its last slot.
Free_LastSlot(w, r) == IF r > w THEN r - w ELSE Size - w + r

\* One slot stays empty so that a full ring is not taken for an empty one.
Free(w, r) == IF r > w THEN r - w - 1 ELSE Size - w + r - 1

\* The host runs its access only while it holds the ring, the firmware only
\* once it has initialised the block.
Runs(end) == IF host = end THEN attached ELSE live

\* The offsets of an access must be in range; the host gives the ring up
\* when they are not.
LoadFails(end) ==
  /\ Runs(end)
  /\ ~(InRange(wr) /\ InRange(rd))
  /\ attached' = (host # end /\ attached)
  /\ UNCHANGED <<mem, wr, rd, live, wvars, rvars, ghost>>

------------------------------------------------------------------------------
(* Ring::write *)

\* History: the ring is empty and neither end is inside an access.
Empty == wr = rd /\ rpc = "idle" /\ live

\* Load both offsets in one access; give up unless all n bytes fit.
WriteLoad(n) ==
  /\ wpc = "idle" /\ Runs("writer")
  /\ InRange(wr) /\ InRange(rd)
  /\ n <= Free(wr, rd)
  /\ wseq + n <= MaxBytes
  /\ wpc' = "first" /\ wWr' = wr /\ wRd' = rd /\ wLen' = n
  /\ rseq' = IF Empty THEN wseq ELSE rseq
  /\ torn' = (torn /\ ~Empty)
  /\ UNCHANGED <<mem, wr, rd, live, attached, rvars, wseq, seen, fresh, stale, resets, host>>

\* How many of n bytes fit before the end of the buffer.
FirstLen(w, n) == IF n < Size - w THEN n ELSE Size - w

WriteFirst ==
  LET k == FirstLen(wWr, wLen)
  IN  /\ wpc = "first" /\ Runs("writer")
      /\ mem' = [i \in Slots |-> IF wWr <= i /\ i < wWr + k
                                 THEN wseq + 1 + (i - wWr) ELSE mem[i]]
      /\ wpc' = IF k < wLen THEN "rest" ELSE "commit"
      /\ UNCHANGED <<wr, rd, live, attached, wWr, wRd, wLen, rvars, ghost>>

WriteRest ==
  LET k == FirstLen(wWr, wLen)
  IN  /\ wpc = "rest" /\ Runs("writer")
      /\ mem' = [i \in Slots |-> IF i < wLen - k THEN wseq + 1 + k + i ELSE mem[i]]
      /\ wpc' = "commit"
      /\ UNCHANGED <<wr, rd, live, attached, wWr, wRd, wLen, rvars, ghost>>

\* An access that began before a reset stores an offset of the old ring.
Tears(end) == stale /\ host = end

WriteCommit ==
  /\ wpc = "commit" /\ Runs("writer")
  /\ wr' = Wrap(wWr + wLen)
  /\ wseq' = wseq + wLen
  /\ wpc' = "idle"
  /\ torn' = (torn \/ Tears("writer"))
  /\ stale' = (stale /\ ~Tears("writer"))
  /\ UNCHANGED <<mem, rd, live, attached, wWr, wRd, wLen, rvars, rseq, seen, fresh, resets, host>>

------------------------------------------------------------------------------
(* Ring::read *)

\* Mutant: a wrapped ring is taken for an empty one.
ReadLoad_NoWrap ==
  /\ rpc = "idle" /\ Runs("reader")
  /\ InRange(wr) /\ InRange(rd)
  /\ wr > rd
  /\ rpc' = "tail" /\ rWr' = wr /\ rRd' = rd /\ rBuf' = <<>>
  /\ seen' = wseq
  /\ fresh' = (wpc = "idle" \/ wRd = rd)
  /\ UNCHANGED <<mem, wr, rd, live, attached, wvars, wseq, rseq, stale, torn, resets, host>>

ReadLoad ==
  /\ rpc = "idle" /\ Runs("reader")
  /\ InRange(wr) /\ InRange(rd)
  /\ wr # rd
  /\ rpc' = "tail" /\ rWr' = wr /\ rRd' = rd /\ rBuf' = <<>>
  /\ seen' = wseq
  /\ fresh' = (wpc = "idle" \/ wRd = rd)
  /\ UNCHANGED <<mem, wr, rd, live, attached, wvars, wseq, rseq, stale, torn, resets, host>>

TailLen(w, r) == IF w > r THEN w - r ELSE Size - r

AtMost(i, cap) == IF i < cap THEN i ELSE cap

\* Mutant: the second half of a wrapped read forgets what the first half took.
ReadHead_FromFirst ==
  LET len  == Len(rBuf)
      head == AtMost(rWr, BufLen - len)
  IN  /\ rpc = "head" /\ Runs("reader")
      /\ rBuf' = [k \in 1 .. head |-> mem[k - 1]]
      /\ rpc' = "commit"
      /\ UNCHANGED <<mem, wr, rd, live, attached, rWr, rRd, wvars, ghost>>

\* The bytes up to the write offset or the end of the buffer.
ReadTail ==
  LET tail == TailLen(rWr, rRd)
      len  == AtMost(tail, BufLen)
      head == AtMost(rWr, BufLen - len)
  IN  /\ rpc = "tail" /\ Runs("reader")
      /\ rBuf' = [k \in 1 .. len |-> mem[rRd + k - 1]]
      /\ rpc' = IF rWr < rRd /\ len = tail /\ head > 0 THEN "head" ELSE "commit"
      /\ UNCHANGED <<mem, wr, rd, live, attached, rWr, rRd, wvars, ghost>>

\* A wrapped ring goes on at the beginning of the buffer.
ReadHead ==
  LET len  == Len(rBuf)
      head == AtMost(rWr, BufLen - len)
  IN  /\ rpc = "head" /\ Runs("reader")
      /\ rBuf' = [k \in 1 .. len + head |-> IF k <= len THEN rBuf[k] ELSE mem[k - len - 1]]
      /\ rpc' = "commit"
      /\ UNCHANGED <<mem, wr, rd, live, attached, rWr, rRd, wvars, ghost>>

NextRd == Wrap(rRd + Len(rBuf))

\* History: a read that takes all it saw pending leaves the ends in step.
Drains == NextRd = rWr /\ fresh /\ live /\ ~Tears("reader")

ReadCommit ==
  /\ rpc = "commit" /\ Runs("reader")
  /\ rd' = NextRd
  /\ rpc' = "idle"
  /\ rseq' = IF Drains THEN seen ELSE rseq + Len(rBuf)
  /\ torn' = (~Drains /\ (torn \/ Tears("reader")))
  /\ stale' = (stale /\ ~Tears("reader"))
  /\ UNCHANGED <<mem, wr, live, attached, rWr, rRd, rBuf, wvars, wseq, seen, fresh, resets, host>>

------------------------------------------------------------------------------
(* The host and the target *)

\* find_pair, find_channel: the block reads as initialised.  RAM outlives a
\* reset, so between a reset and the initialisation an old block does too.
Attach ==
  /\ ~attached
  /\ attached' = TRUE
  /\ UNCHANGED <<mem, wr, rd, live, wvars, rvars, ghost>>

\* A memory access of the host fails: the call returns the error at once.
HostFails ==
  /\ attached
  /\ stale' = FALSE
  /\ IF host = "reader"
     THEN /\ rpc # "idle" /\ rpc' = "idle"
          /\ UNCHANGED <<wvars, rWr, rRd, rBuf>>
     ELSE /\ wpc # "idle" /\ wpc' = "idle"
          /\ UNCHANGED <<rvars, wWr, wRd, wLen>>
  /\ UNCHANGED <<mem, wr, rd, live, attached, wseq, rseq, seen, fresh, torn, resets, host>>

\* External: the target resets.  The block keeps its RAM, which startup code
\* may overwrite with anything, until the firmware initialises it.
Reset ==
  /\ resets < MaxResets
  /\ resets' = resets + 1
  /\ live' = FALSE /\ torn' = TRUE
  /\ wr' \in Offsets /\ rd' \in Offsets
  /\ IF host = "reader"
     THEN wpc' = "idle" /\ UNCHANGED <<rvars, wWr, wRd, wLen>>
     ELSE rpc' = "idle" /\ UNCHANGED <<wvars, rWr, rRd, rBuf>>
  /\ UNCHANGED <<mem, attached, wseq, rseq, seen, fresh, stale, host>>

\* External: the firmware initialises an empty ring.
FirmwareInit ==
  /\ ~live
  /\ live' = TRUE /\ torn' = FALSE
  /\ wr' = 0 /\ rd' = 0
  /\ rseq' = wseq
  /\ stale' = (wpc # "idle" \/ rpc # "idle")
  /\ UNCHANGED <<mem, attached, wvars, rvars, wseq, seen, fresh, resets, host>>

------------------------------------------------------------------------------
Init ==
  /\ host \in {"reader", "writer"}
  /\ mem = [i \in Slots |-> 0]
  /\ wr = 0 /\ rd = 0 /\ live = TRUE /\ attached = FALSE
  /\ wpc = "idle" /\ wWr = 0 /\ wRd = 0 /\ wLen = 0
  /\ rpc = "idle" /\ rWr = 0 /\ rRd = 0 /\ rBuf = <<>>
  /\ wseq = 0 /\ rseq = 0 /\ seen = 0 /\ fresh = TRUE
  /\ stale = FALSE /\ torn = FALSE /\ resets = 0

Write == \E n \in 1 .. Size : WriteLoad(n)

Writes == WriteFirst \/ WriteRest \/ WriteCommit

Next ==
  \/ Write \/ WriteFirst \/ WriteRest \/ WriteCommit
  \/ ReadLoad \/ ReadTail \/ ReadHead \/ ReadCommit
  \/ (wpc = "idle" /\ LoadFails("writer"))
  \/ (rpc = "idle" /\ LoadFails("reader"))
  \/ Attach \/ HostFails \/ Reset \/ FirmwareInit

Spec == Init /\ [][Next]_vars

\* The host polls the ring for as long as it runs and looks for the block
\* again every 500 ms, and a probe whose accesses keep failing ends the
\* session instead; the firmware finishes an access it began and comes up
\* after a reset.  Nobody is made to push bytes.
Fairness ==
  /\ WF_vars(ReadLoad) /\ SF_vars(ReadTail) /\ SF_vars(ReadHead) /\ SF_vars(ReadCommit)
  /\ WF_vars(Writes)
  /\ WF_vars(Attach) /\ WF_vars(FirmwareInit)
  /\ WF_vars(rpc = "idle" /\ LoadFails("reader"))

FairSpec == Spec /\ Fairness

------------------------------------------------------------------------------
(* Properties *)

TypeOK ==
  /\ host \in {"reader", "writer"}
  /\ mem \in [Slots -> Nat]
  /\ wr \in Offsets /\ rd \in Offsets
  /\ live \in BOOLEAN /\ attached \in BOOLEAN
  /\ wpc \in {"idle", "first", "rest", "commit"}
  /\ wWr \in Slots /\ wRd \in Slots /\ wLen \in 0 .. Size
  /\ rpc \in {"idle", "tail", "head", "commit"}
  /\ rWr \in Slots /\ rRd \in Slots /\ rBuf \in Seq(Nat)
  /\ wseq \in Nat /\ rseq \in Nat /\ seen \in Nat
  /\ fresh \in BOOLEAN /\ stale \in BOOLEAN /\ torn \in BOOLEAN
  /\ resets \in Nat

\* Whatever reset or half-done access happened before, once the two ends are
\* in step the bytes a read is about to hand over are the next bytes pushed,
\* in order, none lost, none twice and none stale (Ring::read, Ring::write).
InOrder ==
  rpc = "commit" /\ live /\ ~torn /\ ~Tears("reader") =>
    \A k \in 1 .. Len(rBuf) : rBuf[k] = rseq + k

\* The pending bytes of a ring in step are exactly the bytes pushed and not
\* consumed: a full ring is never taken for an empty one, and a write never
\* covers bytes that were not read yet, even while it is half done.
PendingIntact ==
  live /\ ~torn =>
    /\ wseq - rseq = Used(wr, rd)
    /\ \A k \in 0 .. Used(wr, rd) - 1 : mem[Wrap(rd + k)] = rseq + 1 + k

\* Every access the host makes lies inside the buffer the descriptor names,
\* also with offsets loaded from a block the firmware never initialised.
InsideBuffer ==
  /\ wpc \in {"first", "rest"} =>
       /\ wWr + FirstLen(wWr, wLen) <= Size
       /\ wLen - FirstLen(wWr, wLen) < Size
  /\ rpc = "tail" => rRd + TailLen(rWr, rRd) <= Size
  /\ rpc = "commit" => Len(rBuf) \in 1 .. AtMost(Size - 1, BufLen)

\* Every byte pushed is handed to the reader, also when accesses fail now
\* and then: a failed read leaves its bytes pending.  A reset loses what is
\* pending.
AllDelivered == \A n \in 1 .. MaxBytes : wseq >= n ~> rseq >= n \/ resets > 0

\* A ring that a reset tore comes back into step, at the latest when the
\* reader has caught up and it is empty.
Heals == []<>(live /\ (torn => wr = rd))
==============================================================================
